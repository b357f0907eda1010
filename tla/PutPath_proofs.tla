--------------------------- MODULE PutPath_proofs ---------------------------
(***************************************************************************)
(* Proofs about the path of a PUT, for any number of nodes, requests,      *)
(* handlers, elections, crashes and repeated sends: 200 is only answered   *)
(* for a committed PUT, forwards follow the terms, for its clients the path*)
(* is a PutService, and the parts of "every PUT is answered" that are not  *)
(* about fairness: a client that waits has a handler, handlers only move   *)
(* forward, slots are given back and chains of forwards are bounded.       *)
(***************************************************************************)
EXTENDS PutPath, FiniteSetTheorems, SequenceTheorems, WellFoundedInduction,
        TLAPS

---------------------------------------------------------------------------
(* The inductive invariant.                                                *)

\* A handler by itself: it has a term to forward to exactly while it
\* forwards, it is only about to answer 200 for a committed PUT, its PUT was
\* sent, and a client that waits for it has no answer yet.
OwnInv ==
    \A h \in DOMAIN hs :
        /\ hs[h].pc \in {"arrived", "apply", "resolve"} => hs[h].via = 0
        /\ hs[h].pc \in {"post", "waiting", "refused"} => hs[h].via # 0
        /\ hs[h].pc = "done" => hs[h].req \in committed
        /\ sends[hs[h].req] > 0
        /\ hs[h].caller = 0 => answer[hs[h].req] = "pending"

\* h waits for the answer of c, a handler of the same PUT on the node that
\* h forwards to.
Serves(c, h) ==
    /\ c \in DOMAIN hs /\ c # h
    /\ hs[h].pc = "waiting"
    /\ hs[c].caller = h
    /\ hs[c].req = hs[h].req
    /\ hs[c].node = elected[hs[h].via]

\* Once c has found that its node does not lead, the node never leads the
\* term of h again, and whomever c forwards to leads a newer one.
Follows(c, h) ==
    /\ hs[c].pc \in {"resolve", "post", "waiting", "refused"} =>
          view[hs[c].node] # hs[h].via
    /\ hs[c].via # 0 => hs[h].via < hs[c].via

ChildInv ==
    \A h \in DOMAIN hs :
        hs[h].child # 0 =>
            Serves(hs[h].child, h) /\ Follows(hs[h].child, h)

\* No two handlers answer the same client.
ClientInv ==
    \A g, h \in DOMAIN hs :
        hs[g].caller = 0 /\ hs[h].caller = 0 /\ hs[g].req = hs[h].req => g = h

\* The leader of a term knows of that term.
TermInv == \A t \in 1 .. Len(elected) : t <= known[elected[t]]

\* What may still be committed was sent.
LimboInv == \A q \in limbo : sends[q] > 0

IInv ==
    TypeOK /\ OwnInv /\ ChildInv /\ ClientInv /\ TermInv /\ LimboInv

---------------------------------------------------------------------------
(* What the operators on handlers return.                                  *)

LEMMA Constants ==
  /\ MaxConcurrent \in Nat \ {0} /\ Attempts \in Nat \ {0}
  /\ MaxForwardRetries \in Nat \ {0} /\ MaxHandlers \in Nat \ {0}
  /\ MaxTerm \in Nat /\ MaxSends \in Nat /\ MaxCrash \in Nat
BY PutPathAssumption

\* One more handler: the others are as before.
LEMMA WithFacts ==
  ASSUME NEW f, NEW x, NEW v
  PROVE  /\ DOMAIN With(f, x, v) = DOMAIN f \cup {x}
         /\ With(f, x, v)[x] = v
         /\ \A y \in DOMAIN f : y # x => With(f, x, v)[y] = f[y]
BY DEF With

LEMMA NewHandlerFacts ==
  ASSUME NEW n \in Node, NEW q \in Request, NEW c \in 0 .. Nobody,
         elected \in Seq(Node)
  PROVE  /\ NewHandler(n, q, c) \in HandlerState
         /\ NewHandler(n, q, c).node = n /\ NewHandler(n, q, c).req = q
         /\ NewHandler(n, q, c).pc = "arrived" /\ NewHandler(n, q, c).via = 0
         /\ NewHandler(n, q, c).caller = c /\ NewHandler(n, q, c).child = 0
<1>1. /\ 0 \in 0 .. Attempts - 1 /\ 0 \in 0 .. MaxForwardRetries - 1
      /\ 0 \in 0 .. MaxHandlers /\ 0 \in 0 .. Len(elected)
  BY Constants
<1> QED
  BY <1>1 DEF NewHandler, HandlerState, Pc

LEMMA SameAttemptFacts ==
  ASSUME NEW r \in HandlerState, elected \in Seq(Node)
  PROVE  LET s == SameAttempt(r) IN
         /\ s \in HandlerState /\ s.attempt = r.attempt
         /\ s.node = r.node /\ s.req = r.req /\ s.caller = r.caller
         /\ s.pc = "resolve" /\ s.via = 0 /\ s.child = 0
<1>1. /\ 0 \in 0 .. MaxForwardRetries - 1 /\ 0 \in 0 .. MaxHandlers
      /\ 0 \in 0 .. Len(elected)
  BY Constants
<1> QED
  BY <1>1 DEF HandlerState, SameAttempt, Pc

\* The next attempt of a handler that has one left.
LEMMA NextAttemptFacts ==
  ASSUME NEW r \in HandlerState, elected \in Seq(Node), HasAttempt(r)
  PROVE  LET s == NextAttempt(r) IN
         /\ s \in HandlerState
         /\ s.node = r.node /\ s.req = r.req /\ s.caller = r.caller
         /\ s.pc = "resolve" /\ s.via = 0 /\ s.child = 0
<1>1. r.attempt + 1 \in 0 .. Attempts - 1
  BY Constants DEF HasAttempt, HandlerState
<1> QED
  BY <1>1, SameAttemptFacts DEF HandlerState, NextAttempt

\* The next try of a handler that has one left.
LEMMA NextTryFacts ==
  ASSUME NEW r \in HandlerState, HasTry(r)
  PROVE  LET s == NextTry(r) IN
         /\ s \in HandlerState
         /\ s.node = r.node /\ s.req = r.req /\ s.caller = r.caller
         /\ s.pc = "post" /\ s.via = r.via /\ s.child = 0
<1>1. r.tries + 1 \in 0 .. MaxForwardRetries - 1 /\ 0 \in 0 .. MaxHandlers
  BY Constants DEF HasTry, HandlerState
<1> QED
  BY <1>1 DEF HandlerState, NextTry, Pc

\* When a handler h ends: g is as before and did not wait for h, or g is the
\* caller that waited for h and has its answer now.
Unaffected(g, h) == hs'[g] = hs[g] /\ hs[g].child # h

Answered(g, h, outcome) ==
    /\ g = hs[h].caller /\ hs[g].req = hs[h].req
    /\ hs[g].pc = "waiting" /\ hs[g].child = h
    /\ hs'[g] \in HandlerState
    /\ hs'[g].node = hs[g].node /\ hs'[g].req = hs[g].req
    /\ hs'[g].via = hs[g].via /\ hs'[g].caller = hs[g].caller
    /\ hs'[g].attempt = hs[g].attempt
    /\ hs'[g].child = 0 /\ hs'[g].pc = OnAnswer(outcome)

LEMMA FinishFacts ==
  ASSUME IInv, NEW h \in DOMAIN hs, NEW outcome \in {"ok", "error"},
         Finish(h, outcome)
  PROVE  /\ DOMAIN hs' = DOMAIN hs \ {h}
         /\ \A g \in DOMAIN hs' : Unaffected(g, h) \/ Answered(g, h, outcome)
<1> DEFINE c == hs[h].caller
           rest == Without(hs, {h})
           waited == c \in DOMAIN rest /\ hs[c].pc = "waiting" /\ hs[c].child = h
<1>1. /\ DOMAIN rest = DOMAIN hs \ {h}
      /\ \A g \in DOMAIN hs \ {h} : rest[g] = hs[g]
  BY DEF Without, Restrict
<1>2. ASSUME NEW g \in DOMAIN hs, hs[g].child = h
      PROVE  g # h /\ g = c /\ hs[g].pc = "waiting" /\ hs[g].req = hs[h].req
  <2>1. h # 0
    BY DEF IInv, TypeOK, Handler
  <2> QED
    BY <1>2, <2>1 DEF IInv, ChildInv, Serves
<1>3. CASE waited
  <2>1. hs' = [rest EXCEPT ![c].child = 0, ![c].pc = OnAnswer(outcome)]
    BY <1>3 DEF Finish
  <2>2. DOMAIN hs' = DOMAIN rest
    BY <2>1
  <2>3. ASSUME NEW g \in DOMAIN hs', g # c
        PROVE  Unaffected(g, h)
    BY <2>1, <2>2, <2>3, <1>1, <1>2 DEF Unaffected
  <2>4. Answered(c, h, outcome)
    <3>1. hs'[c] = [hs[c] EXCEPT !.child = 0, !.pc = OnAnswer(outcome)]
      BY <2>1, <1>1, <1>3
    <3>2. hs[c] \in HandlerState /\ 0 \in 0 .. MaxHandlers /\ OnAnswer(outcome) \in Pc
      BY <1>1, <1>3, Constants DEF IInv, TypeOK, OnAnswer, Pc
    <3>3. hs'[c] \in HandlerState
      BY <3>1, <3>2 DEF HandlerState
    <3> QED
      BY <1>1, <1>2, <1>3, <3>1, <3>2, <3>3 DEF Answered, HandlerState
  <2> QED
    BY <1>1, <1>3, <2>2, <2>3, <2>4
<1>4. CASE ~waited
  <2>1. hs' = rest
    BY <1>4 DEF Finish
  <2> QED
    BY <1>1, <1>2, <1>4, <2>1 DEF Unaffected
<1> QED
  BY <1>3, <1>4

---------------------------------------------------------------------------
(* Steps that change one handler and leave who calls whom alone.           *)

\* How the record of handler h may change when it moves on by itself.
Moves(h, r) ==
    /\ r \in HandlerState
    /\ r.node = hs[h].node /\ r.req = hs[h].req /\ r.caller = hs[h].caller
    /\ r.child = 0
    /\ r.pc \in {"arrived", "apply", "resolve"} => r.via = 0
    /\ r.pc \in {"post", "waiting", "refused"} => r.via # 0
    /\ r.pc \in {"resolve", "post", "waiting", "refused"} =>
          hs[h].pc \in {"resolve", "post", "waiting", "refused"} \/ ~IsLeader(r.node)
    /\ \/ r.via = 0
       \/ r.via = hs[h].via
       \/ hs[h].pc = "resolve" /\ r.via = view[r.node]

\* A handler that moves on keeps the invariant.
LEMMA MoveInv ==
  ASSUME IInv, NEW h \in DOMAIN hs, NEW r, Moves(h, r),
         hs' = [hs EXCEPT ![h] = r],
         r.pc = "done" => r.req \in committed',
         committed \subseteq committed', committed' \subseteq Request,
         limbo' \subseteq limbo,
         UNCHANGED <<raftVars, sends, answer, crashes>>
  PROVE  IInv'
<1> USE DEF raftVars
<1>1. /\ DOMAIN hs' = DOMAIN hs /\ hs'[h] = r
      /\ \A g \in DOMAIN hs : g # h => hs'[g] = hs[g]
  OBVIOUS
<1>2. TypeOK'
  BY <1>1 DEF IInv, TypeOK, Moves, HandlerState
<1>3. OwnInv'
  BY <1>1 DEF IInv, OwnInv, Moves
<1>4. ChildInv'
  <2> SUFFICES ASSUME NEW g \in DOMAIN hs, NEW c, c = hs'[g].child, c # 0
               PROVE  Serves(c, g)' /\ Follows(c, g)'
    BY <1>1 DEF ChildInv
  <2>1. g # h /\ hs'[g] = hs[g]
    BY <1>1 DEF Moves
  <2>2. Serves(c, g) /\ Follows(c, g)
    BY <2>1 DEF IInv, ChildInv
  <2>3. CASE c # h
    BY <1>1, <2>1, <2>2, <2>3 DEF Serves, Follows
  <2>4. CASE c = h
    <3>1. Serves(c, g)'
      BY <1>1, <2>1, <2>2, <2>4 DEF Serves, Moves
    <3> DEFINE t == hs[g].via
               n == hs[h].node
    <3>2. /\ t \in 1 .. Len(elected) /\ n \in Node /\ n = elected[t]
          /\ hs[g].pc = "waiting"
      <4>1. hs[g] \in HandlerState /\ hs[h] \in HandlerState
        BY DEF IInv, TypeOK
      <4>2. hs[g].pc = "waiting" /\ hs[g].via # 0
        BY <2>2 DEF Serves, IInv, OwnInv
      <4> QED
        BY <2>2, <2>4, <4>1, <4>2 DEF Serves, HandlerState
    <3>3. t <= known[n]
      BY <3>2 DEF IInv, TermInv
    <3>4. ~IsLeader(n) => view[n] # t
      BY <3>2 DEF IsLeader
    <3>5. hs[h].pc = "resolve" /\ view[n] # 0 => t < view[n]
      BY <2>2, <2>4, <3>2, <3>3 DEF Follows, IInv, TypeOK
    <3>6. r.pc \in {"resolve", "post", "waiting", "refused"} => view[n] # t
      BY <2>2, <2>4, <3>4 DEF Follows, Moves
    <3>7. r.via # 0 => t < r.via
      BY <2>2, <2>4, <3>5 DEF Follows, Moves
    <3> QED
      BY <1>1, <2>1, <2>4, <3>1, <3>6, <3>7 DEF Follows, Moves
  <2> QED
    BY <2>3, <2>4
<1>5. ClientInv'
  BY <1>1 DEF IInv, ClientInv, Moves
<1>6. TermInv' /\ LimboInv'
  BY DEF IInv, TermInv, LimboInv
<1> QED
  BY <1>2, <1>3, <1>4, <1>5, <1>6 DEF IInv

\* A handler that ends, and answers its caller with 200 only for a
\* committed PUT, keeps the invariant.
LEMMA FinishInv ==
  ASSUME IInv, NEW h \in DOMAIN hs, NEW outcome \in {"ok", "error"},
         Finish(h, outcome),
         outcome = "ok" => hs[h].req \in committed,
         limbo' \subseteq limbo \cup {hs[h].req},
         UNCHANGED <<raftVars, sends, committed, crashes>>
  PROVE  IInv'
<1> USE DEF raftVars
<1>1. /\ DOMAIN hs' = DOMAIN hs \ {h}
      /\ \A g \in DOMAIN hs' : Unaffected(g, h) \/ Answered(g, h, outcome)
  BY FinishFacts
<1>2. ASSUME NEW g \in DOMAIN hs'
      PROVE  /\ hs[g] \in HandlerState /\ g \in DOMAIN hs
             /\ hs'[g] \in HandlerState
             /\ hs'[g].node = hs[g].node /\ hs'[g].req = hs[g].req
             /\ hs'[g].via = hs[g].via /\ hs'[g].caller = hs[g].caller
  BY <1>1 DEF Unaffected, Answered, IInv, TypeOK
<1>4. TypeOK'
  <2>1. answer' \in [Request -> Answer]
    BY DEF Finish, IInv, TypeOK, HandlerState, Answer
  <2>2. limbo' \subseteq Request /\ \A g \in DOMAIN hs' : hs'[g] \in HandlerState'
    BY <1>2 DEF IInv, TypeOK, HandlerState
  <2> QED
    BY <1>1, <2>1, <2>2 DEF IInv, TypeOK
<1>5. OwnInv'
  <2> SUFFICES ASSUME NEW g \in DOMAIN hs'
               PROVE  /\ hs'[g].pc \in {"arrived", "apply", "resolve"} => hs'[g].via = 0
                      /\ hs'[g].pc \in {"post", "waiting", "refused"} => hs'[g].via # 0
                      /\ hs'[g].pc = "done" => hs'[g].req \in committed
                      /\ sends[hs'[g].req] > 0
                      /\ hs'[g].caller = 0 => answer'[hs'[g].req] = "pending"
    BY DEF OwnInv
  <2>1. sends[hs'[g].req] > 0
    BY <1>2 DEF IInv, OwnInv
  <2>2. ASSUME hs'[g].caller = 0  PROVE answer'[hs'[g].req] = "pending"
    <3>1. answer[hs[g].req] = "pending" /\ hs[g].req \in Request
      BY <1>2, <2>2 DEF IInv, OwnInv, HandlerState
    <3>2. CASE hs[h].caller = 0
      <4>1. hs[g].req # hs[h].req
        BY <1>1, <1>2, <2>2, <3>2 DEF IInv, ClientInv
      <4> QED
        BY <1>2, <3>1, <3>2, <4>1 DEF Finish, IInv, TypeOK
    <3>3. CASE hs[h].caller # 0
      BY <1>2, <3>1, <3>3 DEF Finish
    <3> QED
      BY <3>2, <3>3
  <2>3. CASE Unaffected(g, h)
    BY <1>2, <2>1, <2>2, <2>3 DEF IInv, OwnInv, Unaffected
  <2>4. CASE Answered(g, h, outcome)
    BY <1>2, <2>1, <2>2, <2>4 DEF IInv, OwnInv, OnAnswer, Answered
  <2> QED
    BY <1>1, <2>3, <2>4
<1>6. ChildInv'
  <2> SUFFICES ASSUME NEW g \in DOMAIN hs', NEW c, c = hs'[g].child, c # 0
               PROVE  Serves(c, g)' /\ Follows(c, g)'
    BY DEF ChildInv
  <2>1. hs'[g] = hs[g] /\ c # h
    BY <1>1 DEF Unaffected, Answered
  <2>2. Serves(c, g) /\ Follows(c, g)
    BY <1>2, <2>1 DEF IInv, ChildInv
  <2>3. c \in DOMAIN hs'
    BY <1>1, <2>1, <2>2 DEF Serves
  <2>4. Serves(c, g)'
    BY <1>2, <2>1, <2>2, <2>3 DEF Serves
  <2>5. hs'[c].pc \in {"resolve", "post", "waiting", "refused"} =>
           hs[c].pc \in {"resolve", "post", "waiting", "refused"}
    BY <1>1, <2>3 DEF Unaffected, Answered
  <2>6. Follows(c, g)'
    BY <1>2, <2>1, <2>2, <2>3, <2>5 DEF Follows
  <2> QED
    BY <2>4, <2>6
<1>7. ClientInv'
  BY <1>1, <1>2 DEF IInv, ClientInv
<1>8. TermInv' /\ LimboInv'
  BY DEF IInv, TermInv, LimboInv, OwnInv
<1> QED
  BY <1>4, <1>5, <1>6, <1>7, <1>8 DEF IInv

---------------------------------------------------------------------------
(* Handlers start, lose their client, or die with their node.              *)

\* A new handler takes an id that is free.
LEMMA SendInv ==
  ASSUME IInv, NEW q \in Request, NEW n \in Node, Send(q, n)
  PROVE  IInv'
<1>0. PICK h \in FreeHandlers : hs' = With(hs, h, NewHandler(n, q, 0))
  BY DEF Send
<1>1. h \in Handler /\ h \notin DOMAIN hs
  BY DEF FreeHandlers
<1>2. /\ DOMAIN hs' = DOMAIN hs \cup {h} /\ hs'[h] = NewHandler(n, q, 0)
      /\ \A g \in DOMAIN hs : hs'[g] = hs[g]
  BY <1>0, <1>1 DEF With
<1>3. /\ hs'[h] \in HandlerState
      /\ hs'[h].req = q /\ hs'[h].pc = "arrived" /\ hs'[h].via = 0
      /\ hs'[h].caller = 0 /\ hs'[h].child = 0
  <2>1. 0 \in 0 .. Nobody /\ elected \in Seq(Node)
    BY Constants DEF Nobody, IInv, TypeOK
  <2> QED
    BY <1>2, <2>1, NewHandlerFacts
<1>4. sends' \in [Request -> 0 .. MaxSends] /\ \A p \in Request : sends[p] <= sends'[p]
  BY Constants DEF Send, IInv, TypeOK
<1>5. /\ answer' \in [Request -> Answer] /\ answer'[q] = "pending"
      /\ \A p \in Request : p # q => answer'[p] = answer[p]
  BY DEF Send, IInv, TypeOK, Answer
<1>6. TypeOK'
  BY <1>1, <1>2, <1>3, <1>4, <1>5 DEF IInv, TypeOK, HandlerState, Send
<1>7. OwnInv'
  <2>1. sends'[q] > 0
    BY Constants DEF Send, IInv, TypeOK
  <2>2. ASSUME NEW g \in DOMAIN hs
        PROVE  sends'[hs[g].req] > 0 /\ (hs[g].caller = 0 => answer'[hs[g].req] = "pending")
    <3>1. hs[g].req \in Request
      BY DEF IInv, TypeOK, HandlerState
    <3> QED
      BY <1>4, <1>5, <3>1 DEF IInv, OwnInv, TypeOK
  <2> QED
    BY <1>2, <1>3, <1>5, <2>1, <2>2 DEF IInv, OwnInv, Send
<1>8. ChildInv'
  BY <1>1, <1>2, <1>3 DEF IInv, ChildInv, Serves, Follows, Send
<1>9. ClientInv'
  <2>1. ASSUME NEW g \in DOMAIN hs, hs[g].caller = 0
        PROVE  hs[g].req # q
    BY <2>1 DEF IInv, OwnInv, Send
  <2> QED
    BY <1>2, <1>3, <2>1 DEF IInv, ClientInv
<1>10. TermInv' /\ LimboInv'
  BY <1>4 DEF IInv, TermInv, LimboInv, TypeOK, Send
<1> QED
  BY <1>6, <1>7, <1>8, <1>9, <1>10 DEF IInv

LEMMA PostInv ==
  ASSUME IInv, NEW h \in DOMAIN hs, Post(h)
  PROVE  IInv'
<1>0. PICK c \in FreeHandlers :
        hs' = With([hs EXCEPT ![h].pc = "waiting", ![h].child = c],
                   c, NewHandler(Target(h), hs[h].req, h))
  BY DEF Post
<1>1. c \in Handler /\ c \notin DOMAIN hs /\ c # h
  BY DEF FreeHandlers
<1>2. /\ hs[h] \in HandlerState /\ hs[h].pc = "post" /\ hs[h].via # 0
      /\ hs[h].child = 0
  BY DEF IInv, TypeOK, OwnInv, ChildInv, Serves, Post, At
<1>3. /\ DOMAIN hs' = DOMAIN hs \cup {c}
      /\ \A g \in DOMAIN hs : g # h => hs'[g] = hs[g]
      /\ hs'[h] = [hs[h] EXCEPT !.pc = "waiting", !.child = c]
      /\ hs'[c] = NewHandler(Target(h), hs[h].req, h)
  <2> DEFINE f == [hs EXCEPT ![h].pc = "waiting", ![h].child = c]
  <2>1. /\ DOMAIN f = DOMAIN hs
        /\ f[h] = [hs[h] EXCEPT !.pc = "waiting", !.child = c]
        /\ \A g \in DOMAIN hs : g # h => f[g] = hs[g]
    OBVIOUS
  <2> HIDE DEF f
  <2> QED
    BY <1>0, <1>1, <2>1 DEF f, With
<1>4. /\ hs'[h] \in HandlerState
      /\ hs'[h].node = hs[h].node /\ hs'[h].req = hs[h].req
      /\ hs'[h].via = hs[h].via /\ hs'[h].caller = hs[h].caller
      /\ hs'[h].pc = "waiting" /\ hs'[h].child = c
  <2>1. c \in 0 .. MaxHandlers /\ "waiting" \in Pc
    BY <1>1, Constants DEF Handler, Pc
  <2>2. hs'[h] \in HandlerState
    BY <1>2, <1>3, <2>1 DEF HandlerState
  <2> QED
    BY <1>2, <1>3, <2>2 DEF HandlerState
<1>5. /\ hs'[c] \in HandlerState
      /\ hs'[c].node = Target(h) /\ hs'[c].req = hs[h].req
      /\ hs'[c].pc = "arrived" /\ hs'[c].via = 0
      /\ hs'[c].caller = h /\ hs'[c].child = 0
  <2>1. h \in 0 .. Nobody /\ elected \in Seq(Node) /\ h # 0
    BY Constants DEF Nobody, Handler, IInv, TypeOK
  <2>2. Target(h) \in Node /\ hs[h].req \in Request
    BY <1>2, <2>1 DEF Target, HandlerState
  <2> QED
    BY <1>3, <2>1, <2>2, NewHandlerFacts
<1>6. h # 0
  BY DEF IInv, TypeOK, Handler
<1>7. UNCHANGED <<elected, known, view, sends, answer, committed, limbo, crashes>>
  BY DEF Post, raftVars
<1>3a. DOMAIN hs' = DOMAIN hs \cup {c} /\ c \notin DOMAIN hs
  BY <1>1, <1>3
<1>8. TypeOK'
  BY <1>1, <1>3, <1>4, <1>5, <1>7 DEF IInv, TypeOK, HandlerState
<1>9. OwnInv'
  <2>1. ASSUME NEW g \in DOMAIN hs, g # h
        PROVE  hs'[g] = hs[g]
    BY <1>3, <2>1
  <2>2. sends[hs[h].req] > 0 /\ (hs[h].caller = 0 => answer[hs[h].req] = "pending")
    BY DEF IInv, OwnInv
  <2> QED
    BY <1>2, <1>4, <1>5, <1>6, <1>7, <1>3a, <2>1, <2>2 DEF IInv, OwnInv
<1>10. ChildInv'
  <2> SUFFICES ASSUME NEW g \in DOMAIN hs', NEW d, d = hs'[g].child, d # 0
               PROVE  Serves(d, g)' /\ Follows(d, g)'
    BY DEF ChildInv
  <2>1. CASE g = h
    BY <1>1, <1>3, <1>4, <1>5, <1>7, <2>1 DEF Serves, Follows, Target
  <2>2. CASE g # h
    <3>1. g \in DOMAIN hs /\ hs'[g] = hs[g]
      BY <1>3, <1>5, <2>2
    <3>2. Serves(d, g) /\ Follows(d, g)
      BY <3>1 DEF IInv, ChildInv
    <3>3. d # c
      BY <1>1, <3>2 DEF Serves
    <3>4. CASE d = h
      BY <1>2, <1>4, <1>7, <1>3a, <3>1, <3>2, <3>4 DEF Serves, Follows
    <3>5. CASE d # h
      <4>1. hs'[d] = hs[d]
        BY <1>3, <3>2, <3>5 DEF Serves
      <4> QED
        BY <1>7, <1>3a, <3>1, <3>2, <4>1 DEF Serves, Follows
    <3> QED
      BY <3>4, <3>5
  <2> QED
    BY <2>1, <2>2
<1>11. ClientInv'
  <2>1. \A g \in DOMAIN hs : hs'[g].caller = hs[g].caller /\ hs'[g].req = hs[g].req
    BY <1>3, <1>4
  <2> QED
    BY <1>5, <1>6, <1>3a, <2>1 DEF IInv, ClientInv
<1>12. TermInv' /\ LimboInv'
  BY <1>7 DEF IInv, TermInv, LimboInv
<1> QED
  BY <1>8, <1>9, <1>10, <1>11, <1>12 DEF IInv

LEMMA GiveUpInv ==
  ASSUME IInv, NEW h \in DOMAIN hs, GiveUp(h)
  PROVE  IInv'
<1>1. /\ DOMAIN hs' = DOMAIN hs
      /\ \A g \in DOMAIN hs : g # h => hs'[g] = hs[g]
      /\ hs'[h] = [hs[h] EXCEPT !.caller = Nobody]
  BY DEF GiveUp
<1>2. hs[h] \in HandlerState /\ hs[h].caller = 0 /\ Nobody \in 0 .. Nobody /\ Nobody # 0
  BY Constants DEF IInv, TypeOK, GiveUp, Nobody
<1>3. /\ hs'[h] \in HandlerState
      /\ hs'[h].node = hs[h].node /\ hs'[h].req = hs[h].req
      /\ hs'[h].pc = hs[h].pc /\ hs'[h].via = hs[h].via
      /\ hs'[h].child = hs[h].child /\ hs'[h].caller = Nobody
  BY <1>1, <1>2 DEF HandlerState
<1>4. UNCHANGED <<elected, known, view, sends, committed, limbo, crashes>>
  BY DEF GiveUp, raftVars
<1>5. /\ answer' \in [Request -> Answer]
      /\ \A q \in Request : q # hs[h].req => answer'[q] = answer[q]
  BY <1>2 DEF GiveUp, IInv, TypeOK, Answer, HandlerState
<1>6. TypeOK'
  BY <1>1, <1>3, <1>4, <1>5 DEF IInv, TypeOK, HandlerState
<1>7. OwnInv'
  <2>1. ASSUME NEW g \in DOMAIN hs, g # h, hs[g].caller = 0
        PROVE  answer'[hs[g].req] = "pending"
    <3>1. hs[g].req # hs[h].req /\ hs[g].req \in Request
      BY <1>2, <2>1 DEF IInv, ClientInv, TypeOK, HandlerState
    <3> QED
      BY <1>5, <2>1, <3>1 DEF IInv, OwnInv
  <2>2. ASSUME NEW g \in DOMAIN hs
        PROVE  /\ hs'[g].req = hs[g].req /\ hs'[g].pc = hs[g].pc
               /\ hs'[g].via = hs[g].via
               /\ hs'[g].caller = 0 => g # h /\ hs[g].caller = 0
    BY <1>1, <1>2, <1>3
  <2> QED
    BY <1>1, <1>4, <2>1, <2>2 DEF IInv, OwnInv
<1>8. ChildInv'
  <2> SUFFICES ASSUME NEW g \in DOMAIN hs, NEW c, c = hs'[g].child, c # 0
               PROVE  Serves(c, g)' /\ Follows(c, g)'
    BY <1>1 DEF ChildInv
  <2>1. ASSUME NEW x \in DOMAIN hs
        PROVE  /\ hs'[x].node = hs[x].node /\ hs'[x].req = hs[x].req
               /\ hs'[x].pc = hs[x].pc /\ hs'[x].via = hs[x].via
               /\ hs'[x].child = hs[x].child
    BY <1>1, <1>3
  <2>2. Serves(c, g) /\ Follows(c, g)
    BY <2>1 DEF IInv, ChildInv
  <2>3. c # h
    BY <1>2, <2>2 DEF Serves, IInv, TypeOK, Handler
  <2> QED
    BY <1>1, <1>4, <2>1, <2>2, <2>3 DEF Serves, Follows
<1>9. ClientInv'
  <2>1. ASSUME NEW g \in DOMAIN hs, hs'[g].caller = 0
        PROVE  hs[g].caller = 0 /\ hs'[g].req = hs[g].req
    BY <1>1, <1>2, <1>3, <2>1
  <2> QED
    BY <1>1, <2>1 DEF IInv, ClientInv
<1>10. TermInv' /\ LimboInv'
  BY <1>4 DEF IInv, TermInv, LimboInv
<1> QED
  BY <1>6, <1>7, <1>8, <1>9, <1>10 DEF IInv

\* The handlers of a node that dies are gone; those that waited for one of
\* them wait for nobody until their POST fails.
LEMMA CrashInv ==
  ASSUME IInv, NEW n \in Node, Crash(n)
  PROVE  IInv'
<1> DEFINE dead == {h \in DOMAIN hs : hs[h].node = n}
           rest == Without(hs, dead)
<1>1. DOMAIN rest = DOMAIN hs \ dead /\ \A g \in DOMAIN hs \ dead : rest[g] = hs[g]
  BY DEF Without, Restrict
<1>2. hs' = [h \in DOMAIN rest |->
               IF rest[h].child \in dead THEN [rest[h] EXCEPT !.child = 0]
                                         ELSE rest[h]]
  BY DEF Crash
<1>3. UNCHANGED <<elected, known, sends, committed>> /\ view' = [view EXCEPT ![n] = 0]
  BY DEF Crash
<1>4. DOMAIN hs' = DOMAIN hs \ dead
  BY <1>1, <1>2
<1> HIDE DEF rest
<1>5. ASSUME NEW g \in DOMAIN hs'
      PROVE  /\ g \in DOMAIN hs /\ hs[g] \in HandlerState
             /\ hs'[g] \in HandlerState
             /\ hs'[g].node = hs[g].node /\ hs'[g].req = hs[g].req
             /\ hs'[g].pc = hs[g].pc /\ hs'[g].via = hs[g].via
             /\ hs'[g].caller = hs[g].caller
             /\ hs'[g].child = IF hs[g].child \in dead THEN 0 ELSE hs[g].child
  <2>1. g \in DOMAIN hs /\ hs[g] \in HandlerState /\ 0 \in 0 .. MaxHandlers
    BY <1>4, Constants DEF IInv, TypeOK
  <2>2. hs'[g] = IF hs[g].child \in dead THEN [hs[g] EXCEPT !.child = 0] ELSE hs[g]
    BY <1>1, <1>2, <1>4
  <2> HIDE DEF dead
  <2> QED
    BY <2>1, <2>2 DEF HandlerState
<1>6. answer' = [q \in Request |->
                   IF \E h \in dead : hs[h].req = q /\ hs[h].caller = 0
                     THEN "error" ELSE answer[q]]
  BY DEF Crash
<1>7. TypeOK'
  <2>1. answer' \in [Request -> Answer]
    BY <1>6 DEF IInv, TypeOK, Answer
  <2>2. view' \in [Node -> 0 .. Len(elected)] /\ \A m \in Node : view'[m] \in {0, known[m]}
    BY <1>3 DEF IInv, TypeOK
  <2>3. limbo' \subseteq Request
    BY DEF Crash, IInv, TypeOK, HandlerState
  <2>4. crashes' \in 0 .. MaxCrash
    BY Constants DEF Crash, IInv, TypeOK
  <2> QED
    BY <1>3, <1>4, <1>5, <2>1, <2>2, <2>3, <2>4 DEF IInv, TypeOK, HandlerState
<1>8. OwnInv'
  <2>1. ASSUME NEW g \in DOMAIN hs', hs[g].caller = 0
        PROVE  answer'[hs[g].req] = "pending"
    <3>1. hs[g].req \in Request /\ answer[hs[g].req] = "pending"
      BY <1>5, <2>1 DEF IInv, OwnInv, HandlerState
    <3>2. ~\E h \in dead : hs[h].req = hs[g].req /\ hs[h].caller = 0
      BY <1>4, <1>5, <2>1 DEF IInv, ClientInv
    <3> QED
      BY <1>6, <3>1, <3>2
  <2> QED
    BY <1>3, <1>5, <2>1 DEF IInv, OwnInv
<1>9. ChildInv'
  <2> SUFFICES ASSUME NEW g \in DOMAIN hs', NEW c, c = hs'[g].child, c # 0
               PROVE  Serves(c, g)' /\ Follows(c, g)'
    BY DEF ChildInv
  <2>1. c = hs[g].child /\ c \notin dead
    BY <1>5
  <2>2. Serves(c, g) /\ Follows(c, g)
    BY <1>5, <2>1 DEF IInv, ChildInv
  <2>3. c \in DOMAIN hs'
    BY <1>4, <2>1, <2>2 DEF Serves
  <2>4. Serves(c, g)'
    BY <1>3, <1>5, <2>2, <2>3 DEF Serves
  <2>5. view'[hs[c].node] \in {0, view[hs[c].node]} /\ hs[g].via # 0
    BY <1>3, <1>5, <2>2, <2>3 DEF IInv, TypeOK, HandlerState, OwnInv, Serves
  <2>6. Follows(c, g)'
    BY <1>5, <2>2, <2>3, <2>5 DEF Follows
  <2> QED
    BY <2>4, <2>6
<1>10. ClientInv'
  BY <1>4, <1>5 DEF IInv, ClientInv
<1>11. TermInv'
  BY <1>3 DEF IInv, TermInv
<1>12. LimboInv'
  BY <1>3 DEF IInv, LimboInv, OwnInv, Crash
<1> QED
  BY <1>7, <1>8, <1>9, <1>10, <1>11, <1>12 DEF IInv

---------------------------------------------------------------------------
(* Steps of raft alone.                                                    *)

LEMMA ElectInv ==
  ASSUME IInv, NEW n \in Node, Elect(n)
  PROVE  IInv'
<1> DEFINE t == Len(elected) + 1
<1>1. /\ elected' = Append(elected, n)
      /\ known' = [known EXCEPT ![n] = t] /\ view' = [view EXCEPT ![n] = t]
      /\ UNCHANGED <<hs, sends, answer, committed, limbo, crashes>>
  BY DEF Elect
<1>2. /\ elected' \in Seq(Node) /\ Len(elected') = t /\ elected'[t] = n
      /\ \A i \in 1 .. Len(elected) : elected'[i] = elected[i]
      /\ Len(elected) \in Nat
  BY <1>1, AppendProperties DEF IInv, TypeOK
<1>3. TypeOK'
  <2>1. /\ known' \in [Node -> 0 .. Len(elected')]
        /\ view' \in [Node -> 0 .. Len(elected')]
        /\ \A m \in Node : view'[m] \in {0, known'[m]}
    BY <1>1, <1>2 DEF IInv, TypeOK
  <2>2. ASSUME NEW h \in DOMAIN hs
        PROVE  hs[h] \in HandlerState'
    BY <1>2 DEF IInv, TypeOK, HandlerState
  <2> QED
    BY <1>1, <1>2, <2>1, <2>2 DEF IInv, TypeOK
<1>4. OwnInv' /\ ClientInv' /\ LimboInv'
  BY <1>1 DEF IInv, OwnInv, ClientInv, LimboInv
<1>5. ChildInv'
  <2> SUFFICES ASSUME NEW h \in DOMAIN hs, NEW c, c = hs[h].child, c # 0
               PROVE  Serves(c, h)' /\ Follows(c, h)'
    BY <1>1 DEF ChildInv
  <2>1. Serves(c, h) /\ Follows(c, h)
    BY DEF IInv, ChildInv
  <2>2. hs[h].via \in 1 .. Len(elected) /\ hs[c].node \in Node
    <3>1. hs[h] \in HandlerState /\ hs[c] \in HandlerState /\ hs[h].via # 0
      BY <2>1 DEF IInv, TypeOK, OwnInv, Serves
    <3> QED
      BY <3>1 DEF HandlerState
  <2>3. view'[hs[c].node] \in {t, view[hs[c].node]}
    BY <1>1, <2>2 DEF IInv, TypeOK
  <2> QED
    BY <1>1, <1>2, <2>1, <2>2, <2>3 DEF Serves, Follows
<1>6. TermInv'
  BY <1>1, <1>2 DEF IInv, TermInv, TypeOK
<1> QED
  BY <1>3, <1>4, <1>5, <1>6 DEF IInv

\* A node never hears of itself that it leads: a leader that has lost a term
\* does not get it back.
LEMMA LearnLeaderInv ==
  ASSUME IInv, NEW n \in Node, NEW t \in 1 .. Len(elected), LearnLeader(n, t)
  PROVE  IInv'
<1>1. /\ known' = [known EXCEPT ![n] = t] /\ view' = [view EXCEPT ![n] = t]
      /\ t >= known[n] /\ elected[t] # n
      /\ UNCHANGED <<elected, hs, sends, answer, committed, limbo, crashes>>
  BY DEF LearnLeader
<1>2. TypeOK'
  BY <1>1 DEF IInv, TypeOK, HandlerState
<1>3. OwnInv' /\ ClientInv' /\ LimboInv'
  BY <1>1 DEF IInv, OwnInv, ClientInv, LimboInv
<1>4. ChildInv'
  <2> SUFFICES ASSUME NEW h \in DOMAIN hs, NEW c, c = hs[h].child, c # 0
               PROVE  Serves(c, h)' /\ Follows(c, h)'
    BY <1>1 DEF ChildInv
  <2>1. Serves(c, h) /\ Follows(c, h)
    BY DEF IInv, ChildInv
  <2>2. hs[c].node \in Node
    BY <2>1 DEF IInv, TypeOK, Serves, HandlerState
  <2>3. view'[hs[c].node] = IF hs[c].node = n THEN t ELSE view[hs[c].node]
    BY <1>1, <2>2 DEF IInv, TypeOK
  <2> QED
    BY <1>1, <2>1, <2>3 DEF Serves, Follows
<1>5. TermInv'
  BY <1>1 DEF IInv, TermInv, TypeOK
<1> QED
  BY <1>2, <1>3, <1>4, <1>5 DEF IInv

LEMMA LoseLeaderInv ==
  ASSUME IInv, NEW n \in Node, LoseLeader(n)
  PROVE  IInv'
<1>1. /\ view' = [view EXCEPT ![n] = 0]
      /\ UNCHANGED <<elected, known, hs, sends, answer, committed, limbo, crashes>>
  BY DEF LoseLeader
<1>2. TypeOK'
  BY <1>1 DEF IInv, TypeOK, HandlerState
<1>3. OwnInv' /\ ClientInv' /\ LimboInv' /\ TermInv'
  BY <1>1 DEF IInv, OwnInv, ClientInv, LimboInv, TermInv
<1>4. ChildInv'
  <2> SUFFICES ASSUME NEW h \in DOMAIN hs, NEW c, c = hs[h].child, c # 0
               PROVE  Serves(c, h)' /\ Follows(c, h)'
    BY <1>1 DEF ChildInv
  <2>1. Serves(c, h) /\ Follows(c, h)
    BY DEF IInv, ChildInv
  <2>2. view'[hs[c].node] \in {0, view[hs[c].node]} /\ hs[h].via # 0
    BY <1>1, <2>1 DEF IInv, TypeOK, OwnInv, Serves, HandlerState
  <2> QED
    BY <1>1, <2>1, <2>2 DEF Serves, Follows
<1> QED
  BY <1>2, <1>3, <1>4 DEF IInv

LEMMA CommitLateInv ==
  ASSUME IInv, NEW q \in limbo, CommitLate(q)
  PROVE  IInv'
<1>1. /\ committed' = committed \cup {q} /\ limbo' = limbo \ {q}
      /\ UNCHANGED <<elected, known, view, hs, sends, answer, crashes>>
  BY DEF CommitLate
<1>2. TypeOK'
  BY <1>1 DEF IInv, TypeOK, HandlerState
<1>3. OwnInv' /\ ChildInv' /\ ClientInv' /\ LimboInv' /\ TermInv'
  BY <1>1 DEF IInv, OwnInv, ChildInv, ClientInv, LimboInv, TermInv, Serves, Follows
<1> QED
  BY <1>2, <1>3 DEF IInv

---------------------------------------------------------------------------
(* Every step of a handler moves it on or ends it.                         *)

\* What is known of a handler before its step.
LEMMA HandlerFacts ==
  ASSUME IInv, NEW h \in DOMAIN hs
  PROVE  /\ hs[h] \in HandlerState /\ h \in Handler /\ elected \in Seq(Node)
         /\ hs[h].pc # "waiting" => hs[h].child = 0
         /\ hs[h].pc \in {"arrived", "apply", "resolve"} => hs[h].via = 0
         /\ hs[h].pc \in {"post", "waiting", "refused"} => hs[h].via # 0
BY DEF IInv, TypeOK, OwnInv, ChildInv, Serves

\* Goto to a place where no term is needed.
LEMMA GotoMoves ==
  ASSUME IInv, NEW h \in DOMAIN hs, hs[h].pc \in {"arrived", "apply"},
         NEW p \in {"apply", "resolve", "done"},
         p = "resolve" => ~IsLeader(hs[h].node)
  PROVE  Moves(h, [hs[h] EXCEPT !.pc = p])
<1>1. hs[h].child = 0 /\ hs[h].via = 0 /\ hs[h] \in HandlerState
  BY HandlerFacts
<1>2. [hs[h] EXCEPT !.pc = p] \in HandlerState
  BY <1>1 DEF HandlerState, Pc
<1> QED
  BY <1>1, <1>2 DEF Moves, HandlerState

LEMMA AdmitInv ==
  ASSUME IInv, NEW h \in DOMAIN hs, Admit(h)
  PROVE  IInv'
<1> DEFINE p == RouteOf(hs[h].node)
<1>1. p \in {"apply", "resolve"} /\ (p = "resolve" => ~IsLeader(hs[h].node))
  BY DEF RouteOf
<1>2. hs[h].pc = "arrived" /\ hs' = [hs EXCEPT ![h] = [hs[h] EXCEPT !.pc = p]]
  BY DEF Admit, At, Goto
<1>3. UNCHANGED <<raftVars, sends, answer, committed, limbo, crashes>>
  BY DEF Admit
<1> HIDE DEF p
<1>4. Moves(h, [hs[h] EXCEPT !.pc = p])
  BY <1>1, <1>2, GotoMoves
<1>5. [hs[h] EXCEPT !.pc = p].pc # "done"
  BY <1>1, HandlerFacts DEF HandlerState
<1> QED
  BY <1>2, <1>3, <1>4, <1>5, MoveInv DEF IInv, TypeOK

LEMMA ApplyCommitsInv ==
  ASSUME IInv, NEW h \in DOMAIN hs, ApplyCommits(h)
  PROVE  IInv'
<1> DEFINE r == [hs[h] EXCEPT !.pc = "done"]
<1>1. hs[h].pc = "apply" /\ hs' = [hs EXCEPT ![h] = r]
  BY DEF ApplyCommits, At, Goto
<1>2. /\ committed' = committed \cup {hs[h].req} /\ limbo' \subseteq limbo
      /\ UNCHANGED <<raftVars, sends, answer, crashes>>
  BY DEF ApplyCommits
<1>3. Moves(h, r)
  BY <1>1, GotoMoves
<1>4. r.req = hs[h].req /\ hs[h].req \in Request
  BY HandlerFacts DEF HandlerState
<1>5. committed \subseteq committed' /\ committed' \subseteq Request
  BY <1>2, <1>4 DEF IInv, TypeOK
<1>6. r.req \in committed'
  BY <1>2, <1>4
<1> HIDE DEF r
<1> QED
  BY <1>1, <1>2, <1>3, <1>5, <1>6, MoveInv

LEMMA ApplyNotLeaderInv ==
  ASSUME IInv, NEW h \in DOMAIN hs, ApplyNotLeader(h)
  PROVE  IInv'
<1>1. hs[h].pc = "apply" /\ hs' = [hs EXCEPT ![h] = [hs[h] EXCEPT !.pc = "resolve"]]
  BY DEF ApplyNotLeader, At, Goto
<1>2. ~IsLeader(hs[h].node)
      /\ UNCHANGED <<raftVars, sends, answer, committed, limbo, crashes>>
  BY DEF ApplyNotLeader
<1>3. Moves(h, [hs[h] EXCEPT !.pc = "resolve"])
  BY <1>1, <1>2, GotoMoves
<1>4. [hs[h] EXCEPT !.pc = "resolve"].pc # "done"
  BY HandlerFacts DEF HandlerState
<1> QED
  BY <1>1, <1>2, <1>3, <1>4, MoveInv DEF IInv, TypeOK

LEMMA ResolveLeaderInv ==
  ASSUME IInv, NEW h \in DOMAIN hs, ResolveLeader(h)
  PROVE  IInv'
<1> DEFINE t == view[hs[h].node]
           r == [hs[h] EXCEPT !.via = t, !.pc = "post", !.tries = 0]
<1>1. hs[h].pc = "resolve" /\ hs' = [hs EXCEPT ![h] = r] /\ t # 0
  BY DEF ResolveLeader, At
<1>2. UNCHANGED <<raftVars, sends, answer, committed, limbo, crashes>>
  BY DEF ResolveLeader
<1>3. hs[h] \in HandlerState /\ hs[h].child = 0
  BY <1>1, HandlerFacts
<1>4. t \in 0 .. Len(elected) /\ 0 \in 0 .. MaxForwardRetries - 1
  BY <1>3, Constants DEF IInv, TypeOK, HandlerState
<1> HIDE DEF t
<1>5. /\ r \in HandlerState
      /\ r.node = hs[h].node /\ r.req = hs[h].req /\ r.caller = hs[h].caller
      /\ r.child = 0 /\ r.via = t /\ r.pc = "post"
  BY <1>3, <1>4 DEF HandlerState, Pc
<1>6. Moves(h, r)
  BY <1>1, <1>5 DEF Moves, t
<1> QED
  BY <1>1, <1>2, <1>5, <1>6, MoveInv DEF IInv, TypeOK

\* A handler whose attempt is over tries again or ends with an error.
LEMMA AttemptOverInv ==
  ASSUME IInv, NEW h \in DOMAIN hs,
         hs[h].pc \in {"resolve", "post", "waiting", "refused"},
         ForwardFails(h),
         UNCHANGED <<raftVars, sends, committed, limbo, crashes>>
  PROVE  IInv'
<1>1. hs[h] \in HandlerState /\ elected \in Seq(Node)
  BY HandlerFacts
<1>2. CASE HasAttempt(hs[h])
  <2>1. hs' = [hs EXCEPT ![h] = NextAttempt(hs[h])] /\ UNCHANGED answer
    BY <1>2 DEF ForwardFails
  <2>2. Moves(h, NextAttempt(hs[h])) /\ NextAttempt(hs[h]).pc # "done"
    BY <1>1, <1>2, NextAttemptFacts DEF Moves
  <2> QED
    BY <2>1, <2>2, MoveInv DEF IInv, TypeOK
<1>3. CASE ~HasAttempt(hs[h])
  BY <1>3, FinishInv DEF ForwardFails
<1> QED
  BY <1>2, <1>3

LEMMA PostFailsInv ==
  ASSUME IInv, NEW h \in DOMAIN hs, PostFails(h)
  PROVE  IInv'
<1>1. hs[h] \in HandlerState /\ hs[h].via # 0 /\ hs[h].pc \in {"post", "waiting"}
  BY HandlerFacts DEF PostFails
<1>2. CASE HasTry(hs[h])
  <2>1. /\ hs' = [hs EXCEPT ![h] = NextTry(hs[h])]
        /\ UNCHANGED <<raftVars, sends, answer, committed, limbo, crashes>>
    BY <1>2 DEF PostFails
  <2>2. Moves(h, NextTry(hs[h])) /\ NextTry(hs[h]).pc # "done"
    BY <1>1, <1>2, NextTryFacts DEF Moves
  <2> QED
    BY <2>1, <2>2, MoveInv DEF IInv, TypeOK
<1>3. CASE ~HasTry(hs[h])
  BY <1>1, <1>3, AttemptOverInv DEF PostFails
<1> QED
  BY <1>2, <1>3

LEMMA HandlerStepInv ==
  ASSUME IInv, NEW h \in DOMAIN hs, HandlerStep(h)
  PROVE  IInv'
<1>1. CASE Admit(h)
  BY <1>1, AdmitInv
<1>2. CASE Overloaded(h)
  BY <1>2, FinishInv DEF Overloaded
<1>3. CASE ApplyCommits(h)
  BY <1>3, ApplyCommitsInv
<1>4. CASE ApplyNotLeader(h)
  BY <1>4, ApplyNotLeaderInv
<1>5. CASE ApplyFails(h)
  BY <1>5, FinishInv DEF ApplyFails
<1>6. CASE ResolveLeader(h)
  BY <1>6, ResolveLeaderInv
<1>7. CASE NoLeader(h)
  BY <1>7, AttemptOverInv DEF NoLeader, ForwardFails, At
<1>8. CASE Post(h)
  BY <1>8, PostInv
<1>9. CASE PostFails(h)
  BY <1>9, PostFailsInv
<1>10. CASE Refused(h)
  BY <1>10, AttemptOverInv DEF Refused, At
<1>11. CASE AnswerOk(h)
  BY <1>11, FinishInv DEF AnswerOk, At, IInv, OwnInv
<1> QED
  BY <1>1, <1>2, <1>3, <1>4, <1>5, <1>6, <1>7, <1>8, <1>9, <1>10, <1>11
     DEF HandlerStep

---------------------------------------------------------------------------
(* The invariant of the specification.                                     *)

LEMMA InitInv == Init => IInv
<1> SUFFICES ASSUME Init  PROVE IInv
  OBVIOUS
<1>1. DOMAIN hs = {} /\ Len(elected) = 0 /\ elected \in Seq(Node)
  BY DEF Init
<1>2. TypeOK
  BY <1>1, Constants DEF Init, TypeOK, Answer
<1> QED
  BY <1>1, <1>2 DEF Init, IInv, OwnInv, ChildInv, ClientInv, TermInv, LimboInv

LEMMA NextInv ==
  ASSUME IInv, [Next]_vars
  PROVE  IInv'
<1>1. CASE UNCHANGED vars
  BY <1>1 DEF vars, IInv, TypeOK, HandlerState, OwnInv, ChildInv, Serves,
              Follows, ClientInv, TermInv, LimboInv
<1>2. ASSUME NEW n \in Node, Elect(n) \/ LoseLeader(n) \/ Crash(n)
      PROVE  IInv'
  BY <1>2, ElectInv, LoseLeaderInv, CrashInv
<1>3. ASSUME NEW n \in Node, NEW t \in 1 .. Len(elected), LearnLeader(n, t)
      PROVE  IInv'
  BY <1>3, LearnLeaderInv
<1>4. ASSUME NEW q \in Request, NEW n \in Node, Send(q, n)
      PROVE  IInv'
  BY <1>4, SendInv
<1>5. ASSUME NEW q \in limbo, CommitLate(q)
      PROVE  IInv'
  BY <1>5, CommitLateInv
<1>6. ASSUME NEW h \in DOMAIN hs, HandlerStep(h) \/ GiveUp(h)
      PROVE  IInv'
  BY <1>6, HandlerStepInv, GiveUpInv
<1> QED
  BY <1>1, <1>2, <1>3, <1>4, <1>5, <1>6 DEF Next, Quiet

LEMMA Invariance == Spec => []IInv
<1>1. IInv /\ [Next]_vars => IInv'
  BY NextInv
<1> QED
  BY InitInv, <1>1, PTL DEF Spec

\* The state has its type in every reachable state: no handler id, attempt,
\* try or term ever leaves its range (forward.go, http.go handlePut).
THEOREM PutTypeCorrect == Spec => []TypeOK
<1>1. IInv => TypeOK
  BY DEF IInv
<1> QED
  BY Invariance, <1>1, PTL

\* A forwarded PUT that is forwarded again goes to the leader of a newer
\* term, so it never circles (forward.go forwardToLeader).
THEOREM ForwardsFollowTermsCorrect == Spec => []ForwardsFollowTerms
<1>1. IInv => ForwardsFollowTerms
  <2> SUFFICES ASSUME IInv, NEW h \in DOMAIN hs, NEW c \in DOMAIN hs,
                      hs[h].child = c, hs[c].via # 0
               PROVE  hs[h].via < hs[c].via
    BY DEF ForwardsFollowTerms
  <2>1. c # 0
    BY DEF IInv, TypeOK, Handler
  <2> QED
    BY <2>1 DEF IInv, ChildInv, Follows
<1> QED
  BY Invariance, <1>1, PTL

---------------------------------------------------------------------------
(* Handlers only move forward.                                             *)

PerAttempt == 2 * MaxForwardRetries + 2

\* The steps of the attempts from a on.
LeftFrom(a) == (Attempts - a) * PerAttempt

LEMMA LeftFromFacts ==
  /\ PerAttempt \in Nat /\ PerAttempt = 2 * MaxForwardRetries + 2
  /\ \A a \in 0 .. Attempts - 1 :
       /\ LeftFrom(a) \in Nat /\ LeftFrom(a) >= PerAttempt
       /\ LeftFrom(a) <= LeftFrom(0)
       /\ LeftFrom(a + 1) = LeftFrom(a) - PerAttempt
<1> DEFINE K == PerAttempt
<1>1. K \in Nat /\ K = 2 * MaxForwardRetries + 2
  BY Constants DEF PerAttempt
<1> HIDE DEF K
<1>2. ASSUME NEW a \in 0 .. Attempts - 1
      PROVE  /\ (Attempts - a) * K \in Nat /\ (Attempts - a) * K >= K
             /\ (Attempts - a) * K <= Attempts * K
             /\ (Attempts - (a + 1)) * K = (Attempts - a) * K - K
  <2>1. ASSUME NEW x \in Nat \ {0}
        PROVE  x * K \in Nat /\ x * K >= K /\ (x - 1) * K = x * K - K
    BY <1>1
  <2>2. ASSUME NEW x \in Nat, NEW y \in Nat  PROVE x * K <= (x + y) * K
    BY <1>1
  <2>3. Attempts - a \in Nat \ {0} /\ Attempts - (a + 1) = (Attempts - a) - 1
    BY Constants
  <2>4. (Attempts - a) * K <= ((Attempts - a) + a) * K
    BY <2>2, <2>3
  <2>5. (Attempts - a) + a = Attempts
    BY Constants
  <2> QED
    BY <2>1, <2>3, <2>4, <2>5
<1>3. Attempts - 0 = Attempts
  BY Constants
<1> QED
  BY <1>1, <1>2, <1>3 DEF LeftFrom, K

\* The steps left at each place of handlePut.
LEMMA StepsLeftCases ==
  ASSUME NEW r \in HandlerState
  PROVE  /\ r.pc = "arrived" => StepsLeft(r) = LeftFrom(0) + 2
         /\ r.pc = "apply" => StepsLeft(r) = LeftFrom(0) + 1
         /\ r.pc = "resolve" => StepsLeft(r) = LeftFrom(r.attempt)
         /\ r.pc = "post" => StepsLeft(r) = LeftFrom(r.attempt) - 2 * r.tries - 1
         /\ r.pc = "waiting" => StepsLeft(r) = LeftFrom(r.attempt) - 2 * r.tries - 2
         /\ r.pc = "refused" => StepsLeft(r) = LeftFrom(r.attempt) - PerAttempt + 1
         /\ r.pc = "done" => StepsLeft(r) = 0
<1>1. Attempts - 0 = Attempts
  BY Constants
<1> QED
  BY <1>1 DEF StepsLeft, LeftFrom, PerAttempt

\* A handler never has more steps left than a fresh one, nor fewer than 0,
\* and none only once it is about to answer.
LEMMA StepsLeftRange ==
  ASSUME NEW r \in HandlerState
  PROVE  /\ StepsLeft(r) \in 0 .. LeftFrom(0) + 2
         /\ r.pc # "done" => StepsLeft(r) > 0
<1>1. /\ r.attempt \in 0 .. Attempts - 1 /\ r.tries \in 0 .. MaxForwardRetries - 1
      /\ r.pc \in Pc
  BY DEF HandlerState
<1>2. /\ LeftFrom(r.attempt) \in Nat /\ LeftFrom(r.attempt) >= PerAttempt
      /\ LeftFrom(r.attempt) <= LeftFrom(0)
      /\ LeftFrom(0) \in Nat
      /\ PerAttempt = 2 * MaxForwardRetries + 2 /\ MaxForwardRetries \in Nat
  <2>1. 0 \in 0 .. Attempts - 1
    BY Constants
  <2> QED
    BY <1>1, <2>1, LeftFromFacts, Constants
<1> QED
  BY <1>1, <1>2, StepsLeftCases DEF Pc

LEMMA StepsLeftIsInt ==
  ASSUME NEW r, r.pc \in Pc, r.attempt \in Int, r.tries \in Int
  PROVE  StepsLeft(r) \in Int
<1> DEFINE x == Attempts * (2 * MaxForwardRetries + 2)
           y == (Attempts - r.attempt) * (2 * MaxForwardRetries + 2)
<1>1. x \in Int /\ y \in Int
  BY Constants
<1>2. StepsLeft(r) \in {x + 2, x + 1, y, y - 2 * r.tries - 1, y - 2 * r.tries - 2,
                       y - (2 * MaxForwardRetries + 2) + 1, 0}
  BY DEF StepsLeft, Pc
<1> HIDE DEF x, y
<1> QED
  BY <1>1, <1>2, Constants

\* g is where it was; g has come further, and has its slot by now.
Stays(g) ==
    /\ hs'[g].node = hs[g].node /\ hs'[g].pc = hs[g].pc
    /\ StepsLeft(hs'[g]) = StepsLeft(hs[g])

Advances(g) ==
    /\ hs'[g].node = hs[g].node /\ hs'[g].pc # "arrived"
    /\ StepsLeft(hs'[g]) < StepsLeft(hs[g])
    /\ hs[g].pc = "arrived" => Admit(g)

\* What a step may do to the handlers that run: none goes back, those that
\* join are fresh.
Forward ==
    /\ \A g \in DOMAIN hs \cap DOMAIN hs' : Stays(g) \/ Advances(g)
    /\ \A g \in DOMAIN hs' \ DOMAIN hs : hs'[g].pc = "arrived"

LEMMA SameHandlerStays ==
  ASSUME NEW g \in DOMAIN hs, hs[g] \in HandlerState, hs'[g] \in HandlerState,
         hs'[g].node = hs[g].node, hs'[g].pc = hs[g].pc,
         hs'[g].attempt = hs[g].attempt, hs'[g].tries = hs[g].tries
  PROVE  Stays(g)
BY DEF Stays, StepsLeft

\* The end of a handler sends its caller on to read the answer.
LEMMA FinishForward ==
  ASSUME IInv, NEW h \in DOMAIN hs, NEW outcome \in {"ok", "error"},
         Finish(h, outcome)
  PROVE  Forward /\ h \notin DOMAIN hs'
<1>1. /\ DOMAIN hs' = DOMAIN hs \ {h}
      /\ \A g \in DOMAIN hs' : Unaffected(g, h) \/ Answered(g, h, outcome)
  BY FinishFacts
<1>2. ASSUME NEW g \in DOMAIN hs', Unaffected(g, h)
      PROVE  Stays(g)
  BY <1>2 DEF Unaffected, Stays
<1>3. ASSUME NEW g \in DOMAIN hs', Answered(g, h, outcome)
      PROVE  Advances(g)
  <2> DEFINE r == hs[g]
             a == r.attempt
  <2>1. /\ r \in HandlerState /\ r.pc = "waiting" /\ a \in 0 .. Attempts - 1
        /\ r.tries \in 0 .. MaxForwardRetries - 1
    BY <1>1, <1>3 DEF Answered, IInv, TypeOK, HandlerState
  <2>2. /\ hs'[g] \in HandlerState /\ hs'[g].node = r.node
        /\ hs'[g].attempt = a /\ hs'[g].pc \in {"done", "refused"}
    BY <1>3 DEF Answered, OnAnswer
  <2>3. StepsLeft(r) = LeftFrom(a) - 2 * r.tries - 2 /\ StepsLeft(r) > 0
    BY <2>1, StepsLeftCases, StepsLeftRange
  <2>4. /\ hs'[g].pc = "refused" => StepsLeft(hs'[g]) = LeftFrom(a) - PerAttempt + 1
        /\ hs'[g].pc = "done" => StepsLeft(hs'[g]) = 0
    BY <2>2, StepsLeftCases
  <2>5. LeftFrom(a) \in Nat /\ PerAttempt = 2 * MaxForwardRetries + 2
    BY <2>1, LeftFromFacts
  <2>6. StepsLeft(hs'[g]) < StepsLeft(r)
    BY <2>1, <2>2, <2>3, <2>4, <2>5, Constants
  <2> QED
    BY <2>1, <2>2, <2>6 DEF Advances
<1> QED
  BY <1>1, <1>2, <1>3 DEF Forward

\* A handler that moves on by itself, to a place with fewer steps left.
LEMMA MoveForward ==
  ASSUME IInv, NEW h \in DOMAIN hs, NEW r, hs' = [hs EXCEPT ![h] = r],
         r.node = hs[h].node, r.pc # "arrived",
         StepsLeft(r) < StepsLeft(hs[h]),
         hs[h].pc = "arrived" => Admit(h)
  PROVE  Forward /\ Advances(h)
<1>1. DOMAIN hs' = DOMAIN hs /\ hs'[h] = r /\ \A g \in DOMAIN hs : g # h => hs'[g] = hs[g]
  OBVIOUS
<1>2. Advances(h)
  BY <1>1 DEF Advances
<1> QED
  BY <1>1, <1>2 DEF Forward, Stays

LEMMA AttemptOverForward ==
  ASSUME IInv, NEW h \in DOMAIN hs, ForwardFails(h),
         \/ hs[h].pc \in {"resolve", "refused"}
         \/ hs[h].pc \in {"post", "waiting"} /\ ~HasTry(hs[h])
  PROVE  Forward /\ (h \notin DOMAIN hs' \/ Advances(h))
<1> DEFINE r == hs[h]
           a == r.attempt
<1>1. /\ r \in HandlerState /\ elected \in Seq(Node) /\ a \in 0 .. Attempts - 1
      /\ r.tries \in 0 .. MaxForwardRetries - 1
  BY HandlerFacts DEF HandlerState
<1>2. CASE HasAttempt(r)
  <2> DEFINE s == NextAttempt(r)
  <2>1. hs' = [hs EXCEPT ![h] = s]
    BY <1>2 DEF ForwardFails
  <2>2. s \in HandlerState /\ s.node = r.node /\ s.pc = "resolve"
    BY <1>1, <1>2, NextAttemptFacts
  <2>3. s.attempt = a + 1
    BY <1>1, SameAttemptFacts DEF NextAttempt, HandlerState
  <2> HIDE DEF s
  <2>4. StepsLeft(s) = LeftFrom(a) - PerAttempt /\ LeftFrom(a) \in Nat
        /\ PerAttempt = 2 * MaxForwardRetries + 2
    BY <1>1, <2>2, <2>3, StepsLeftCases, LeftFromFacts
  <2>5. /\ r.pc = "resolve" => StepsLeft(r) = LeftFrom(a)
        /\ r.pc = "refused" => StepsLeft(r) = LeftFrom(a) - PerAttempt + 1
        /\ r.pc = "post" => StepsLeft(r) = LeftFrom(a) - 2 * r.tries - 1
        /\ r.pc = "waiting" => StepsLeft(r) = LeftFrom(a) - 2 * r.tries - 2
    BY <1>1, StepsLeftCases
  <2>6. StepsLeft(s) < StepsLeft(r) /\ r.pc # "arrived"
    BY <1>1, <2>4, <2>5, Constants DEF HasTry
  <2> QED
    BY <2>1, <2>2, <2>6, MoveForward
<1>3. CASE ~HasAttempt(r)
  BY <1>3, FinishForward DEF ForwardFails
<1> QED
  BY <1>2, <1>3

LEMMA AdmitForward ==
  ASSUME IInv, NEW h \in DOMAIN hs, Admit(h)
  PROVE  Forward /\ Advances(h)
<1> DEFINE p == RouteOf(hs[h].node)
           r == [hs[h] EXCEPT !.pc = p]
<1>1. /\ hs[h].pc = "arrived" /\ hs' = [hs EXCEPT ![h] = r]
      /\ p \in {"apply", "resolve"}
  BY DEF Admit, At, Goto, RouteOf
<1>2. hs[h] \in HandlerState /\ hs[h].attempt \in 0 .. Attempts - 1
  BY HandlerFacts DEF HandlerState
<1> HIDE DEF p
<1>3. r \in HandlerState /\ r.node = hs[h].node /\ r.pc = p /\ r.attempt = hs[h].attempt
  BY <1>1, <1>2 DEF HandlerState, Pc
<1> HIDE DEF r
<1>4. StepsLeft(hs[h]) = LeftFrom(0) + 2
  BY <1>1, <1>2, StepsLeftCases
<1>5. StepsLeft(r) \in {LeftFrom(0) + 1, LeftFrom(r.attempt)}
  BY <1>1, <1>3, StepsLeftCases
<1>6. LeftFrom(r.attempt) \in Nat /\ LeftFrom(r.attempt) <= LeftFrom(0) /\ LeftFrom(0) \in Nat
  <2>1. 0 \in 0 .. Attempts - 1
    BY Constants
  <2> QED
    BY <1>2, <1>3, <2>1, LeftFromFacts
<1>7. StepsLeft(r) < StepsLeft(hs[h]) /\ r.pc # "arrived"
  BY <1>1, <1>3, <1>4, <1>5, <1>6
<1> QED
  BY <1>1, <1>3, <1>7, MoveForward

LEMMA ApplyForward ==
  ASSUME IInv, NEW h \in DOMAIN hs, ApplyCommits(h) \/ ApplyNotLeader(h)
  PROVE  Forward /\ Advances(h)
<1>1. PICK p \in {"done", "resolve"} : hs' = [hs EXCEPT ![h] = [hs[h] EXCEPT !.pc = p]]
  BY DEF ApplyCommits, ApplyNotLeader, Goto
<1> DEFINE r == [hs[h] EXCEPT !.pc = p]
<1>2. hs[h].pc = "apply" /\ hs[h] \in HandlerState /\ hs[h].attempt \in 0 .. Attempts - 1
  BY HandlerFacts DEF HandlerState, ApplyCommits, ApplyNotLeader, At
<1>3. r \in HandlerState /\ r.node = hs[h].node /\ r.pc = p /\ r.attempt = hs[h].attempt
  BY <1>1, <1>2 DEF HandlerState, Pc
<1>4. hs' = [hs EXCEPT ![h] = r]
  BY <1>1
<1> HIDE DEF r
<1>5. StepsLeft(hs[h]) = LeftFrom(0) + 1 /\ StepsLeft(r) \in {0, LeftFrom(r.attempt)}
  BY <1>1, <1>2, <1>3, StepsLeftCases
<1>6. LeftFrom(r.attempt) \in Nat /\ LeftFrom(r.attempt) <= LeftFrom(0) /\ LeftFrom(0) \in Nat
  <2>1. 0 \in 0 .. Attempts - 1
    BY Constants
  <2> QED
    BY <1>2, <1>3, <2>1, LeftFromFacts
<1>7. StepsLeft(r) < StepsLeft(hs[h]) /\ r.pc # "arrived"
  BY <1>1, <1>3, <1>5, <1>6
<1> QED
  BY <1>2, <1>3, <1>4, <1>7, MoveForward

LEMMA ResolveForward ==
  ASSUME IInv, NEW h \in DOMAIN hs, ResolveLeader(h)
  PROVE  Forward /\ Advances(h)
<1> DEFINE t == view[hs[h].node]
           r == [hs[h] EXCEPT !.via = t, !.pc = "post", !.tries = 0]
<1>1. hs[h].pc = "resolve" /\ hs' = [hs EXCEPT ![h] = r]
  BY DEF ResolveLeader, At
<1>2. /\ hs[h] \in HandlerState /\ hs[h].attempt \in 0 .. Attempts - 1
      /\ t \in 0 .. Len(elected) /\ 0 \in 0 .. MaxForwardRetries - 1
  <2>1. hs[h] \in HandlerState
    BY HandlerFacts
  <2>2. hs[h].attempt \in 0 .. Attempts - 1 /\ hs[h].node \in Node
    BY <2>1 DEF HandlerState
  <2> QED
    BY <2>1, <2>2, Constants DEF IInv, TypeOK
<1> HIDE DEF t
<1>3. /\ r \in HandlerState /\ r.node = hs[h].node /\ r.pc = "post"
      /\ r.attempt = hs[h].attempt /\ r.tries = 0
  BY <1>2 DEF HandlerState, Pc
<1> HIDE DEF r
<1>4. /\ StepsLeft(hs[h]) = LeftFrom(hs[h].attempt)
      /\ StepsLeft(r) = LeftFrom(hs[h].attempt) - 2 * 0 - 1
      /\ LeftFrom(hs[h].attempt) \in Nat
  BY <1>1, <1>2, <1>3, StepsLeftCases, LeftFromFacts
<1>5. StepsLeft(r) < StepsLeft(hs[h])
  BY <1>4
<1> QED
  BY <1>1, <1>3, <1>5, MoveForward

LEMMA PostForward ==
  ASSUME IInv, NEW h \in DOMAIN hs, Post(h)
  PROVE  Forward /\ Advances(h)
<1>0. PICK c \in FreeHandlers :
        hs' = With([hs EXCEPT ![h].pc = "waiting", ![h].child = c],
                   c, NewHandler(Target(h), hs[h].req, h))
  BY DEF Post
<1> DEFINE f == [hs EXCEPT ![h].pc = "waiting", ![h].child = c]
           r == [hs[h] EXCEPT !.pc = "waiting", !.child = c]
<1>1. c \in Handler /\ c \notin DOMAIN hs /\ c # h
  BY DEF FreeHandlers
<1>2. DOMAIN f = DOMAIN hs /\ f[h] = r /\ \A g \in DOMAIN hs : g # h => f[g] = hs[g]
  OBVIOUS
<1> HIDE DEF f
<1>3. /\ DOMAIN hs' = DOMAIN hs \cup {c} /\ hs'[h] = r
      /\ \A g \in DOMAIN hs : g # h => hs'[g] = hs[g]
      /\ hs'[c].pc = "arrived"
  BY <1>0, <1>1, <1>2 DEF f, With, NewHandler
<1>4. /\ hs[h] \in HandlerState /\ hs[h].pc = "post"
      /\ hs[h].attempt \in 0 .. Attempts - 1 /\ hs[h].tries \in 0 .. MaxForwardRetries - 1
  BY HandlerFacts DEF HandlerState, Post, At
<1>5. /\ r \in HandlerState /\ r.node = hs[h].node /\ r.pc = "waiting"
      /\ r.attempt = hs[h].attempt /\ r.tries = hs[h].tries
  <2>1. c \in 0 .. MaxHandlers /\ "waiting" \in Pc
    BY <1>1, Constants DEF Handler, Pc
  <2> QED
    BY <1>4, <2>1 DEF HandlerState
<1> HIDE DEF r
<1>6. /\ StepsLeft(hs[h]) = LeftFrom(hs[h].attempt) - 2 * hs[h].tries - 1
      /\ StepsLeft(r) = LeftFrom(hs[h].attempt) - 2 * hs[h].tries - 2
      /\ LeftFrom(hs[h].attempt) \in Nat
  BY <1>4, <1>5, StepsLeftCases, LeftFromFacts
<1>7. StepsLeft(r) < StepsLeft(hs[h])
  BY <1>4, <1>6, Constants
<1>8. Advances(h)
  BY <1>3, <1>4, <1>5, <1>7 DEF Advances
<1> QED
  BY <1>1, <1>3, <1>8 DEF Forward, Stays

LEMMA PostFailsForward ==
  ASSUME IInv, NEW h \in DOMAIN hs, PostFails(h)
  PROVE  Forward /\ (h \notin DOMAIN hs' \/ Advances(h))
<1> DEFINE r == hs[h]
           s == NextTry(r)
<1>1. CASE HasTry(r)
  <2>1. hs' = [hs EXCEPT ![h] = s] /\ r.pc \in {"post", "waiting"}
    BY <1>1 DEF PostFails
  <2>2. /\ r \in HandlerState /\ r.attempt \in 0 .. Attempts - 1
        /\ r.tries \in 0 .. MaxForwardRetries - 1
    BY HandlerFacts DEF HandlerState
  <2>3. s \in HandlerState /\ s.node = r.node /\ s.pc = "post"
    BY <1>1, <2>2, NextTryFacts
  <2>4. s.attempt = r.attempt /\ s.tries = r.tries + 1
    BY <2>2 DEF NextTry, HandlerState
  <2> HIDE DEF s
  <2>5. /\ r.pc = "post" => StepsLeft(r) = LeftFrom(r.attempt) - 2 * r.tries - 1
        /\ r.pc = "waiting" => StepsLeft(r) = LeftFrom(r.attempt) - 2 * r.tries - 2
        /\ StepsLeft(s) = LeftFrom(r.attempt) - 2 * (r.tries + 1) - 1
        /\ LeftFrom(r.attempt) \in Nat
    BY <2>2, <2>3, <2>4, StepsLeftCases, LeftFromFacts
  <2>6. StepsLeft(s) < StepsLeft(r) /\ r.pc # "arrived"
    BY <2>1, <2>2, <2>5, Constants
  <2> QED
    BY <2>1, <2>3, <2>6, MoveForward
<1>2. CASE ~HasTry(r)
  BY <1>2, AttemptOverForward DEF PostFails
<1> QED
  BY <1>1, <1>2

\* A step of a handler ends it or brings it further, and sends nobody back.
LEMMA HandlerStepForward ==
  ASSUME IInv, NEW h \in DOMAIN hs, HandlerStep(h)
  PROVE  Forward /\ (h \notin DOMAIN hs' \/ Advances(h))
<1>1. CASE Overloaded(h) \/ ApplyFails(h) \/ AnswerOk(h)
  BY <1>1, FinishForward DEF Overloaded, ApplyFails, AnswerOk
<1>2. CASE NoLeader(h) \/ Refused(h)
  BY <1>2, AttemptOverForward DEF NoLeader, Refused, ForwardFails, At
<1> QED
  BY <1>1, <1>2, AdmitForward, ApplyForward, ResolveForward, PostForward,
     PostFailsForward DEF HandlerStep

LEMMA SendForward ==
  ASSUME NEW q \in Request, NEW n \in Node, Send(q, n)
  PROVE  Forward
<1>1. PICK h \in FreeHandlers : hs' = With(hs, h, NewHandler(n, q, 0))
  BY DEF Send
<1>2. /\ DOMAIN hs' = DOMAIN hs \cup {h} /\ hs'[h].pc = "arrived"
      /\ \A g \in DOMAIN hs : hs'[g] = hs[g]
  BY <1>1 DEF With, NewHandler, FreeHandlers
<1> QED
  BY <1>2 DEF Forward, Stays

LEMMA GiveUpForward ==
  ASSUME IInv, NEW h \in DOMAIN hs, GiveUp(h)
  PROVE  Forward
<1>1. /\ DOMAIN hs' = DOMAIN hs
      /\ \A g \in DOMAIN hs : g # h => hs'[g] = hs[g]
      /\ hs'[h] = [hs[h] EXCEPT !.caller = Nobody]
  BY DEF GiveUp
<1>2. hs[h] \in HandlerState
  BY HandlerFacts
<1>3. Stays(h)
  BY <1>1, <1>2 DEF Stays, StepsLeft, HandlerState
<1> QED
  BY <1>1, <1>3 DEF Forward, Stays

LEMMA CrashForward ==
  ASSUME IInv, NEW n \in Node, Crash(n)
  PROVE  Forward
<1> DEFINE dead == {h \in DOMAIN hs : hs[h].node = n}
           rest == Without(hs, dead)
<1>1. DOMAIN rest = DOMAIN hs \ dead /\ \A g \in DOMAIN hs \ dead : rest[g] = hs[g]
  BY DEF Without, Restrict
<1>2. hs' = [h \in DOMAIN rest |->
               IF rest[h].child \in dead THEN [rest[h] EXCEPT !.child = 0]
                                         ELSE rest[h]]
  BY DEF Crash
<1> HIDE DEF rest, dead
<1>3. ASSUME NEW g \in DOMAIN hs'
      PROVE  g \in DOMAIN hs /\ Stays(g)
  <2>1. g \in DOMAIN hs /\ hs'[g] \in {hs[g], [hs[g] EXCEPT !.child = 0]}
    BY <1>1, <1>2
  <2>2. hs[g] \in HandlerState
    BY <2>1, HandlerFacts
  <2> QED
    BY <2>1, <2>2 DEF Stays, StepsLeft, HandlerState
<1> QED
  BY <1>3 DEF Forward

LEMMA NextForward ==
  ASSUME IInv, [Next]_vars
  PROVE  Forward
<1>1. CASE UNCHANGED hs
  BY <1>1 DEF Forward, Stays
<1>2. ASSUME NEW n \in Node, Elect(n) \/ LoseLeader(n) \/ Crash(n)
      PROVE  Forward
  BY <1>1, <1>2, CrashForward DEF Elect, LoseLeader
<1>3. ASSUME NEW n \in Node, NEW t \in 1 .. Len(elected), LearnLeader(n, t)
      PROVE  Forward
  BY <1>1, <1>3 DEF LearnLeader
<1>4. ASSUME NEW q \in limbo, CommitLate(q)
      PROVE  Forward
  BY <1>1, <1>4 DEF CommitLate
<1>5. ASSUME NEW q \in Request, NEW n \in Node, Send(q, n)
      PROVE  Forward
  BY <1>5, SendForward
<1>6. ASSUME NEW h \in DOMAIN hs, HandlerStep(h) \/ GiveUp(h)
      PROVE  Forward
  BY <1>6, HandlerStepForward, GiveUpForward
<1>7. CASE UNCHANGED vars
  BY <1>1, <1>7 DEF vars
<1> QED
  BY <1>2, <1>3, <1>4, <1>5, <1>6, <1>7 DEF Next, Quiet

\* forward.go 20-23 and 34-36: StepsLeft is a measure of the two nested
\* retry loops.  Every step of a handler lowers it or ends the handler, and
\* nothing else that happens raises it; that it is a natural number below a
\* bound is StepsLeftRange.  So a handler takes a bounded number of steps,
\* however the steps of raft, clients and other handlers fall in between.
THEOREM HandlersAdvanceCorrect == Spec => HandlersAdvance
<1>1. ASSUME IInv, IInv', [Next]_vars
      PROVE  /\ \A h \in DOMAIN hs \cap DOMAIN hs' :
                   StepsLeft(hs'[h]) <= StepsLeft(hs[h])
             /\ \A h \in DOMAIN hs :
                  HandlerStep(h) =>
                    h \notin DOMAIN hs' \/ StepsLeft(hs'[h]) < StepsLeft(hs[h])
  <2>1. ASSUME NEW h \in DOMAIN hs \cap DOMAIN hs'
        PROVE  StepsLeft(hs'[h]) <= StepsLeft(hs[h])
    <3>1. StepsLeft(hs[h]) \in Int /\ StepsLeft(hs'[h]) \in Int
      <4>1. hs[h] \in HandlerState /\ hs'[h] \in HandlerState'
        BY <1>1 DEF IInv, TypeOK
      <4>2. /\ hs[h].pc \in Pc /\ hs[h].attempt \in Int /\ hs[h].tries \in Int
            /\ hs'[h].pc \in Pc /\ hs'[h].attempt \in Int /\ hs'[h].tries \in Int
        BY <4>1, Constants DEF HandlerState
      <4> QED
        BY <4>2, StepsLeftIsInt
    <3> QED
      BY <1>1, <3>1, NextForward DEF Forward, Stays, Advances
  <2>2. ASSUME NEW h \in DOMAIN hs, HandlerStep(h)
        PROVE  h \notin DOMAIN hs' \/ StepsLeft(hs'[h]) < StepsLeft(hs[h])
    BY <1>1, <2>2, HandlerStepForward DEF Advances
  <2> QED
    BY <2>1, <2>2
<1> QED
  BY Invariance, <1>1, PTL DEF Spec, HandlersAdvance

---------------------------------------------------------------------------
(* A client that waits is waited on.                                       *)

\* Whoever waits for an answer has a handler that owes it.
PendingIsServed ==
    \A q \in Request :
        answer[q] = "pending" =>
            \E h \in DOMAIN hs : hs[h].caller = 0 /\ hs[h].req = q

\* The handlers go on, and none changes its client.
LEMMA SameClientsServed ==
  ASSUME PendingIsServed, DOMAIN hs \subseteq DOMAIN hs', answer' = answer,
         \A g \in DOMAIN hs : hs'[g].caller = hs[g].caller /\ hs'[g].req = hs[g].req
  PROVE  PendingIsServed'
BY DEF PendingIsServed

LEMMA MoveServed ==
  ASSUME PendingIsServed, NEW h \in DOMAIN hs, NEW r, hs' = [hs EXCEPT ![h] = r],
         r.caller = hs[h].caller, r.req = hs[h].req, answer' = answer
  PROVE  PendingIsServed'
<1>1. DOMAIN hs' = DOMAIN hs /\ hs'[h] = r /\ \A g \in DOMAIN hs : g # h => hs'[g] = hs[g]
  OBVIOUS
<1>2. \A g \in DOMAIN hs : hs'[g].caller = hs[g].caller /\ hs'[g].req = hs[g].req
  BY <1>1
<1> QED
  BY <1>1, <1>2, SameClientsServed

\* A handler that ends answers its client.
LEMMA FinishServed ==
  ASSUME IInv, PendingIsServed, NEW h \in DOMAIN hs,
         NEW outcome \in {"ok", "error"}, Finish(h, outcome)
  PROVE  PendingIsServed'
<1>1. /\ DOMAIN hs' = DOMAIN hs \ {h}
      /\ \A g \in DOMAIN hs' : hs'[g].caller = hs[g].caller /\ hs'[g].req = hs[g].req
  BY FinishFacts DEF Unaffected, Answered
<1>2. ASSUME NEW q \in Request, answer'[q] = "pending"
      PROVE  \E g \in DOMAIN hs' : hs'[g].caller = 0 /\ hs'[g].req = q
  <2>1. answer[q] = "pending" /\ ~(hs[h].caller = 0 /\ hs[h].req = q)
    BY <1>2 DEF Finish, IInv, TypeOK
  <2>2. PICK g \in DOMAIN hs : hs[g].caller = 0 /\ hs[g].req = q
    BY <2>1 DEF PendingIsServed
  <2>3. g \in DOMAIN hs'
    BY <1>1, <2>1, <2>2
  <2> QED
    BY <1>1, <2>2, <2>3
<1> QED
  BY <1>2 DEF PendingIsServed

LEMMA AttemptOverServed ==
  ASSUME IInv, PendingIsServed, NEW h \in DOMAIN hs, ForwardFails(h)
  PROVE  PendingIsServed'
<1>1. CASE HasAttempt(hs[h])
  <2>1. hs[h] \in HandlerState /\ elected \in Seq(Node)
    BY HandlerFacts
  <2>2. hs' = [hs EXCEPT ![h] = NextAttempt(hs[h])] /\ answer' = answer
    BY <1>1 DEF ForwardFails
  <2> QED
    BY <1>1, <2>1, <2>2, NextAttemptFacts, MoveServed
<1>2. CASE ~HasAttempt(hs[h])
  BY <1>2, FinishServed DEF ForwardFails
<1> QED
  BY <1>1, <1>2

LEMMA HandlerStepServed ==
  ASSUME IInv, PendingIsServed, NEW h \in DOMAIN hs, HandlerStep(h)
  PROVE  PendingIsServed'
<1>0. hs[h] \in HandlerState /\ h \in Handler
  BY HandlerFacts
<1>1. CASE Overloaded(h) \/ ApplyFails(h) \/ AnswerOk(h)
  BY <1>1, FinishServed DEF Overloaded, ApplyFails, AnswerOk
<1>2. CASE NoLeader(h) \/ Refused(h)
  BY <1>2, AttemptOverServed DEF NoLeader, Refused, ForwardFails
<1>3. ASSUME NEW p, Goto(h, p), answer' = answer
      PROVE  PendingIsServed'
  <2> DEFINE r == [hs[h] EXCEPT !.pc = p]
  <2>1. r.caller = hs[h].caller /\ r.req = hs[h].req
    BY <1>0 DEF HandlerState
  <2>2. hs' = [hs EXCEPT ![h] = r]
    BY <1>3 DEF Goto
  <2> HIDE DEF r
  <2> QED
    BY <1>3, <2>1, <2>2, MoveServed
<1>4. CASE Admit(h) \/ ApplyCommits(h) \/ ApplyNotLeader(h)
  BY <1>3, <1>4 DEF Admit, ApplyCommits, ApplyNotLeader
<1>5. CASE ResolveLeader(h)
  <2> DEFINE r == [hs[h] EXCEPT !.via = view[hs[h].node], !.pc = "post", !.tries = 0]
  <2>1. r.caller = hs[h].caller /\ r.req = hs[h].req
    BY <1>0 DEF HandlerState
  <2>2. hs' = [hs EXCEPT ![h] = r] /\ answer' = answer
    BY <1>5 DEF ResolveLeader
  <2> HIDE DEF r
  <2> QED
    BY <2>1, <2>2, MoveServed
<1>6. CASE Post(h)
  <2>0. PICK c \in FreeHandlers :
          hs' = With([hs EXCEPT ![h].pc = "waiting", ![h].child = c],
                     c, NewHandler(Target(h), hs[h].req, h))
    BY <1>6 DEF Post
  <2> DEFINE f == [hs EXCEPT ![h].pc = "waiting", ![h].child = c]
             r == [hs[h] EXCEPT !.pc = "waiting", !.child = c]
  <2>1. DOMAIN f = DOMAIN hs /\ f[h] = r /\ \A g \in DOMAIN hs : g # h => f[g] = hs[g]
    OBVIOUS
  <2>2. r.caller = hs[h].caller /\ r.req = hs[h].req
    BY <1>0 DEF HandlerState
  <2> HIDE DEF f, r
  <2>3. /\ DOMAIN hs' = DOMAIN hs \cup {c}
        /\ \A g \in DOMAIN hs : hs'[g] = f[g]
    BY <2>0, <2>1 DEF f, With, FreeHandlers
  <2>4. answer' = answer
    BY <1>6 DEF Post
  <2> QED
    BY <2>1, <2>2, <2>3, <2>4, SameClientsServed
<1>7. CASE PostFails(h)
  <2>1. CASE HasTry(hs[h])
    <3>1. hs' = [hs EXCEPT ![h] = NextTry(hs[h])] /\ answer' = answer
      BY <1>7, <2>1 DEF PostFails
    <3> QED
      BY <1>0, <2>1, <3>1, NextTryFacts, MoveServed
  <2>2. CASE ~HasTry(hs[h])
    BY <1>7, <2>2, AttemptOverServed DEF PostFails
  <2> QED
    BY <2>1, <2>2
<1> QED
  BY <1>1, <1>2, <1>4, <1>5, <1>6, <1>7 DEF HandlerStep

LEMMA SendServed ==
  ASSUME IInv, PendingIsServed, NEW p \in Request, NEW n \in Node, Send(p, n)
  PROVE  PendingIsServed'
<1>1. PICK h \in FreeHandlers : hs' = With(hs, h, NewHandler(n, p, 0))
  BY DEF Send
<1>2. /\ DOMAIN hs' = DOMAIN hs \cup {h} /\ hs'[h].caller = 0 /\ hs'[h].req = p
      /\ \A g \in DOMAIN hs : hs'[g] = hs[g]
  BY <1>1 DEF With, NewHandler, FreeHandlers
<1>3. \A q \in Request : q # p => answer'[q] = answer[q]
  BY DEF Send, IInv, TypeOK
<1> QED
  BY <1>2, <1>3 DEF PendingIsServed

\* A client that gives up, and the clients of a node that dies, wait no more.
LEMMA GiveUpServed ==
  ASSUME IInv, PendingIsServed, NEW h \in DOMAIN hs, GiveUp(h)
  PROVE  PendingIsServed'
<1>1. /\ DOMAIN hs' = DOMAIN hs
      /\ \A g \in DOMAIN hs : g # h => hs'[g] = hs[g]
  BY DEF GiveUp
<1>2. /\ answer'[hs[h].req] = "error"
      /\ \A q \in Request : q # hs[h].req => answer'[q] = answer[q]
  <2>1. hs[h].req \in Request
    BY HandlerFacts DEF HandlerState
  <2> QED
    BY <2>1 DEF GiveUp, IInv, TypeOK
<1>3. ASSUME NEW q \in Request, answer'[q] = "pending"
      PROVE  \E g \in DOMAIN hs' : hs'[g].caller = 0 /\ hs'[g].req = q
  <2>1. q # hs[h].req /\ answer[q] = "pending"
    BY <1>2, <1>3
  <2> QED
    BY <1>1, <2>1 DEF PendingIsServed
<1> QED
  BY <1>3 DEF PendingIsServed

LEMMA CrashServed ==
  ASSUME IInv, PendingIsServed, NEW n \in Node, Crash(n)
  PROVE  PendingIsServed'
<1> DEFINE dead == {h \in DOMAIN hs : hs[h].node = n}
           rest == Without(hs, dead)
<1>1. DOMAIN rest = DOMAIN hs \ dead /\ \A g \in DOMAIN hs \ dead : rest[g] = hs[g]
  BY DEF Without, Restrict
<1>2. hs' = [h \in DOMAIN rest |->
               IF rest[h].child \in dead THEN [rest[h] EXCEPT !.child = 0]
                                         ELSE rest[h]]
  BY DEF Crash
<1>3. answer' = [q \in Request |->
                   IF \E h \in dead : hs[h].req = q /\ hs[h].caller = 0
                     THEN "error" ELSE answer[q]]
  BY DEF Crash
<1>4. dead \subseteq DOMAIN hs
  OBVIOUS
<1> HIDE DEF rest, dead
<1>5. ASSUME NEW g \in DOMAIN hs \ dead
      PROVE  /\ g \in DOMAIN hs'
             /\ hs'[g].caller = hs[g].caller /\ hs'[g].req = hs[g].req
  <2>1. g \in DOMAIN hs' /\ hs'[g] \in {hs[g], [hs[g] EXCEPT !.child = 0]}
    BY <1>1, <1>2
  <2>2. hs[g] \in HandlerState
    BY HandlerFacts
  <2> QED
    BY <2>1, <2>2 DEF HandlerState
<1>6. ASSUME NEW q \in Request, answer'[q] = "pending"
      PROVE  \E g \in DOMAIN hs' : hs'[g].caller = 0 /\ hs'[g].req = q
  <2>1. /\ answer[q] = "pending"
        /\ ~\E h \in dead : hs[h].req = q /\ hs[h].caller = 0
    BY <1>3, <1>6
  <2>2. PICK g \in DOMAIN hs : hs[g].caller = 0 /\ hs[g].req = q
    BY <2>1 DEF PendingIsServed
  <2> QED
    BY <1>5, <2>1, <2>2
<1> QED
  BY <1>6 DEF PendingIsServed

LEMMA NextServed ==
  ASSUME IInv, PendingIsServed, [Next]_vars
  PROVE  PendingIsServed'
<1>1. CASE UNCHANGED <<hs, answer>>
  BY <1>1 DEF PendingIsServed
<1>2. ASSUME NEW n \in Node, Elect(n) \/ LoseLeader(n) \/ Crash(n)
      PROVE  PendingIsServed'
  BY <1>1, <1>2, CrashServed DEF Elect, LoseLeader
<1>3. ASSUME NEW n \in Node, NEW t \in 1 .. Len(elected), LearnLeader(n, t)
      PROVE  PendingIsServed'
  BY <1>1, <1>3 DEF LearnLeader
<1>4. ASSUME NEW q \in limbo, CommitLate(q)
      PROVE  PendingIsServed'
  BY <1>1, <1>4 DEF CommitLate
<1>5. ASSUME NEW q \in Request, NEW n \in Node, Send(q, n)
      PROVE  PendingIsServed'
  BY <1>5, SendServed
<1>6. ASSUME NEW h \in DOMAIN hs, HandlerStep(h) \/ GiveUp(h)
      PROVE  PendingIsServed'
  BY <1>6, HandlerStepServed, GiveUpServed
<1>7. CASE UNCHANGED vars
  BY <1>1, <1>7 DEF vars
<1> QED
  BY <1>2, <1>3, <1>4, <1>5, <1>6, <1>7 DEF Next, Quiet

\* http.go handlePut, forward.go: a client waits exactly while one handler,
\* and one only, owes it an answer: no path out of handlePut ends without
\* one, and no two answers to a request meet.
THEOREM WaitingClientsHaveOneHandler ==
  Spec => [](\A q \in Request :
               /\ answer[q] = "pending" <=>
                    \E h \in DOMAIN hs : hs[h].caller = 0 /\ hs[h].req = q
               /\ \A g, h \in DOMAIN hs :
                    hs[g].caller = 0 /\ hs[h].caller = 0
                      /\ hs[g].req = q /\ hs[h].req = q => g = h)
<1>1. Init => PendingIsServed
  BY DEF Init, PendingIsServed
<1>2. IInv /\ PendingIsServed /\ [Next]_vars => PendingIsServed'
  BY NextServed
<1>3. IInv /\ PendingIsServed =>
        \A q \in Request :
          /\ answer[q] = "pending" <=>
               \E h \in DOMAIN hs : hs[h].caller = 0 /\ hs[h].req = q
          /\ \A g, h \in DOMAIN hs :
               hs[g].caller = 0 /\ hs[h].caller = 0
                 /\ hs[g].req = q /\ hs[h].req = q => g = h
  BY DEF IInv, OwnInv, ClientInv, PendingIsServed
<1> QED
  BY Invariance, <1>1, <1>2, <1>3, PTL DEF Spec

---------------------------------------------------------------------------
(* The slots of a node.                                                    *)

SlotInv == \A n \in Node : Cardinality(Holding(n)) <= MaxConcurrent

LEMMA HoldingIsFinite ==
  ASSUME IInv, NEW n
  PROVE  IsFiniteSet(Holding(n)) /\ Cardinality(Holding(n)) \in Nat
<1>1. IsFiniteSet(1 .. MaxHandlers)
  BY FS_Interval, Constants
<1>2. Holding(n) \subseteq 1 .. MaxHandlers
  BY DEF Holding, IInv, TypeOK, Handler
<1> QED
  BY <1>1, <1>2, FS_Subset, FS_CardinalityType

LEMMA AdmitSlots ==
  ASSUME IInv, SlotInv, NEW h \in DOMAIN hs, Admit(h), NEW n \in Node
  PROVE  Cardinality(Holding(n)') <= MaxConcurrent
<1> DEFINE p == RouteOf(hs[h].node)
<1>1. hs' = [hs EXCEPT ![h].pc = p]
  BY DEF Admit, Goto
<1>2. hs[h] \in HandlerState
  BY HandlerFacts
<1> HIDE DEF p
<1>3. Holding(n)' \subseteq Holding(n) \cup (IF hs[h].node = n THEN {h} ELSE {})
  <2> SUFFICES ASSUME NEW g \in Holding(n)'
               PROVE  g \in Holding(n) \/ (g = h /\ hs[h].node = n)
    OBVIOUS
  <2>1. g \in DOMAIN hs /\ hs'[g].node = n /\ hs'[g].pc # "arrived"
    BY <1>1 DEF Holding
  <2>2. CASE g = h
    BY <1>1, <1>2, <2>1, <2>2 DEF HandlerState
  <2>3. CASE g # h
    BY <1>1, <2>1, <2>3 DEF Holding
  <2> QED
    BY <2>2, <2>3
<1>4. IsFiniteSet(Holding(n)) /\ Cardinality(Holding(n)) \in Nat
  BY HoldingIsFinite
<1>5. CASE hs[h].node # n
  <2>1. Holding(n)' \subseteq Holding(n)
    BY <1>3, <1>5
  <2>2. Cardinality(Holding(n)') <= Cardinality(Holding(n)) /\ Cardinality(Holding(n)') \in Nat
    BY <1>4, <2>1, FS_Subset, FS_CardinalityType
  <2> QED
    BY <1>4, <2>2, Constants DEF SlotInv
<1>6. CASE hs[h].node = n
  <2>1. Cardinality(Holding(n)) < MaxConcurrent
    BY <1>6 DEF Admit
  <2> DEFINE H == Holding(n) \cup {h}
  <2>2. IsFiniteSet(H) /\ Cardinality(H) <= Cardinality(Holding(n)) + 1
        /\ Cardinality(H) \in Nat
    <3>1. /\ IsFiniteSet(H)
          /\ Cardinality(H) \in {Cardinality(Holding(n)), Cardinality(Holding(n)) + 1}
      BY <1>4, FS_AddElement
    <3> HIDE DEF H
    <3> QED
      BY <1>4, <3>1
  <2>3. Holding(n)' \subseteq H
    BY <1>3, <1>6
  <2> HIDE DEF H
  <2>4. Cardinality(Holding(n)') <= Cardinality(H) /\ Cardinality(Holding(n)') \in Nat
    BY <2>2, <2>3, FS_Subset, FS_CardinalityType
  <2> QED
    BY <1>4, <2>1, <2>2, <2>4, Constants
<1> QED
  BY <1>5, <1>6

LEMMA NextSlots ==
  ASSUME IInv, SlotInv, [Next]_vars
  PROVE  SlotInv'
<1> SUFFICES ASSUME NEW n \in Node
             PROVE  Cardinality(Holding(n)') <= MaxConcurrent
  BY DEF SlotInv
<1>1. CASE \E h \in DOMAIN hs : Admit(h)
  BY <1>1, AdmitSlots
<1>2. CASE ~\E h \in DOMAIN hs : Admit(h)
  <2>1. Holding(n)' \subseteq Holding(n)
    BY <1>2, NextForward DEF Forward, Stays, Advances, Holding
  <2>2. IsFiniteSet(Holding(n)) /\ Cardinality(Holding(n)) \in Nat
    BY HoldingIsFinite
  <2>3. Cardinality(Holding(n)') <= Cardinality(Holding(n)) /\ Cardinality(Holding(n)') \in Nat
    BY <2>1, <2>2, FS_Subset, FS_CardinalityType
  <2> QED
    BY <2>2, <2>3, Constants DEF SlotInv
<1> QED
  BY <1>1, <1>2

\* http.go 353-361: whatever way a handler ends, the slots taken at a node
\* are never more than maxConcurrent, so that a handler that arrives is
\* always either admitted or, when exactly that many are taken, turned away.
THEOREM SlotsAreKept ==
  Spec => [](\A n \in Node : Cardinality(Holding(n)) <= MaxConcurrent)
<1>1. Init => SlotInv
  <2> SUFFICES ASSUME Init, NEW n \in Node  PROVE Cardinality(Holding(n)) <= MaxConcurrent
    BY DEF SlotInv
  <2>1. Holding(n) = {}
    BY DEF Init, Holding
  <2> QED
    BY <2>1, FS_EmptySet, Constants
<1>2. IInv /\ SlotInv /\ [Next]_vars => SlotInv'
  BY NextSlots
<1> QED
  BY Invariance, <1>1, <1>2, PTL DEF Spec, SlotInv

---------------------------------------------------------------------------
(* No PUT is forwarded more often than leaders were elected.               *)

Less == {ss \in Nat \X Nat : ss[1] < ss[2]}

\* A non-empty set of naturals has a least element.
LEMMA LeastElement ==
  ASSUME NEW S, S \subseteq Nat, S # {}
  PROVE  \E m \in S : \A x \in S : m <= x
<1>1. IsWellFoundedOn(Less, Nat)
  <2>1. OpToRel(<, Nat) = Less
    BY DEF OpToRel, Less
  <2> QED
    BY <2>1, NatLessThanWellFounded
<1>2. PICK m \in S : \A x \in S : ~(<<x, m>> \in Less)
  BY <1>1, WFMin
<1>3. ASSUME NEW x \in S
      PROVE  m <= x
  <2>1. x \in Nat /\ m \in Nat
    OBVIOUS
  <2>2. <<x, m>> \in Less <=> x < m
    BY <2>1 DEF Less
  <2> QED
    BY <1>2, <2>1, <2>2
<1> QED
  BY <1>3

\* The handlers of c each wait for the next one.
Chain(c) ==
    /\ \A i \in 1 .. Len(c) : c[i] \in DOMAIN hs
    /\ \A i \in 1 .. Len(c) - 1 : hs[c[i]].child = c[i + 1]

\* The terms that the forwards of a chain go to rise along it.
LEMMA ChainTerms ==
  ASSUME IInv, NEW c \in Seq(Handler), Chain(c)
  PROVE  \A i \in 1 .. Len(c) - 1 : hs[c[i]].via >= i /\ hs[c[i]].via \in 1 .. Len(elected)
<1>1. ASSUME NEW i \in 1 .. Len(c) - 1
      PROVE  /\ hs[c[i]].via \in 1 .. Len(elected)
             /\ hs[c[i + 1]].via # 0 => hs[c[i]].via < hs[c[i + 1]].via
  <2>1. c[i] \in DOMAIN hs /\ c[i + 1] \in Handler /\ hs[c[i]].child = c[i + 1]
    BY DEF Chain
  <2>2. hs[c[i]].child # 0
    BY <2>1 DEF Handler
  <2>3. Serves(c[i + 1], c[i]) /\ Follows(c[i + 1], c[i])
    BY <2>1, <2>2 DEF IInv, ChildInv
  <2>4. hs[c[i]].via # 0 /\ hs[c[i]].via \in 0 .. Len(elected)
    BY <2>1, <2>3, HandlerFacts DEF Serves, HandlerState
  <2>5. Len(elected) \in Nat
    BY DEF IInv, TypeOK
  <2> QED
    BY <2>3, <2>4, <2>5 DEF Follows
<1> DEFINE Low == {i \in 1 .. Len(c) - 1 : hs[c[i]].via < i}
<1>2. Low = {}
  <2> SUFFICES ASSUME Low # {}  PROVE FALSE
    OBVIOUS
  <2>0. Low \subseteq Nat
    BY DEF IInv, TypeOK
  <2>1. PICK m \in Low : \A x \in Low : m <= x
    <3> HIDE DEF Low
    <3> QED
      BY <2>0, LeastElement
  <2>2. m \in 1 .. Len(c) - 1 /\ hs[c[m]].via < m /\ Len(elected) \in Nat /\ Len(c) \in Nat
    BY DEF IInv, TypeOK
  <2>3. CASE m = 1
    BY <1>1, <2>2, <2>3
  <2>4. CASE m # 1
    <3> DEFINE j == m - 1
    <3>1. j \in 1 .. Len(c) - 1 /\ j + 1 = m /\ j < m
      BY <2>2, <2>4
    <3>2. j \notin Low
      BY <2>1, <2>2, <3>1
    <3>3. /\ hs[c[j]].via \in 1 .. Len(elected) /\ hs[c[m]].via \in 1 .. Len(elected)
          /\ hs[c[j]].via < hs[c[m]].via
      <4>1. hs[c[m]].via \in 1 .. Len(elected)
        BY <1>1, <2>2
      <4>2. /\ hs[c[j]].via \in 1 .. Len(elected)
            /\ hs[c[j + 1]].via # 0 => hs[c[j]].via < hs[c[j + 1]].via
        BY <1>1, <3>1
      <4> QED
        BY <2>2, <3>1, <4>1, <4>2
    <3>4. hs[c[j]].via >= j
      BY <2>2, <3>1, <3>2, <3>3
    <3> QED
      BY <2>2, <3>1, <3>3, <3>4
  <2> QED
    BY <2>3, <2>4
<1> QED
  <2> SUFFICES ASSUME NEW i \in 1 .. Len(c) - 1
               PROVE  hs[c[i]].via >= i /\ hs[c[i]].via \in 1 .. Len(elected)
    OBVIOUS
  <2>1. ~(hs[c[i]].via < i) /\ hs[c[i]].via \in 1 .. Len(elected)
    BY <1>1, <1>2
  <2>2. i \in Nat /\ Len(elected) \in Nat
    BY DEF IInv, TypeOK
  <2> QED
    BY <2>1, <2>2

\* forward.go 57: the POST of a forward carries no count of its hops.  All
\* the same, a chain of handlers that wait for one another, each holding a
\* slot of its node for the next, is at most one longer than the elections
\* there have been.
THEOREM ForwardsAreBounded ==
  Spec => [](\A c \in Seq(Handler) : Chain(c) => Len(c) <= Len(elected) + 1)
<1>1. ASSUME IInv, NEW c \in Seq(Handler), Chain(c)
      PROVE  Len(c) <= Len(elected) + 1
  <2>1. Len(c) \in Nat /\ Len(elected) \in Nat
    BY <1>1 DEF IInv, TypeOK
  <2>2. CASE Len(c) <= 1
    BY <2>1, <2>2
  <2>3. CASE Len(c) > 1
    <3> DEFINE i == Len(c) - 1
    <3>1. i \in 1 .. Len(c) - 1
      BY <2>1, <2>3
    <3>2. hs[c[i]].via >= i /\ hs[c[i]].via \in 1 .. Len(elected)
      BY <1>1, <3>1, ChainTerms
    <3> QED
      BY <2>1, <3>1, <3>2
  <2> QED
    BY <2>1, <2>2, <2>3
<1>2. IInv => \A c \in Seq(Handler) : Chain(c) => Len(c) <= Len(elected) + 1
  BY <1>1
<1> QED
  BY Invariance, <1>2, PTL

---------------------------------------------------------------------------
(* For its clients the path is a PutService.                               *)

\* The end of a handler is an answer to its client, or none of the clients'
\* business.
LEMMA FinishRefines ==
  ASSUME IInv, NEW h \in DOMAIN hs, NEW outcome \in {"ok", "error"},
         Finish(h, outcome),
         outcome = "ok" => hs[h].req \in committed,
         UNCHANGED <<sends, committed>>
  PROVE  [Clients!Next]_(Clients!vars)
<1> DEFINE q == hs[h].req
<1>1. q \in Request
  BY DEF IInv, TypeOK, HandlerState
<1>2. CASE hs[h].caller # 0
  BY <1>2 DEF Finish, Clients!vars
<1>3. CASE hs[h].caller = 0
  <2>1. answer[q] = "pending" /\ answer' = [answer EXCEPT ![q] = outcome]
    BY <1>3 DEF Finish, IInv, OwnInv
  <2>2. CASE outcome = "ok"
    <3>1. Clients!Acknowledge(q)
      BY <2>1, <2>2 DEF Clients!Acknowledge
    <3> QED
      BY <1>1, <3>1 DEF Clients!Next
  <2>3. CASE outcome = "error"
    <3>1. answer' = [p \in Request |-> IF p \in {q} THEN "error" ELSE answer[p]]
      BY <1>1, <2>1, <2>3 DEF IInv, TypeOK
    <3>2. Clients!Refuse({q})
      BY <2>1, <3>1 DEF Clients!Refuse
    <3> QED
      BY <1>1, <3>2 DEF Clients!Next
  <2> QED
    BY <2>2, <2>3
<1> QED
  BY <1>2, <1>3

LEMMA AttemptOverRefines ==
  ASSUME IInv, NEW h \in DOMAIN hs, ForwardFails(h),
         UNCHANGED <<sends, committed>>
  PROVE  [Clients!Next]_(Clients!vars)
<1>1. CASE HasAttempt(hs[h])
  BY <1>1 DEF ForwardFails, Clients!vars
<1>2. CASE ~HasAttempt(hs[h])
  BY <1>2, FinishRefines DEF ForwardFails
<1> QED
  BY <1>1, <1>2

LEMMA HandlerStepRefines ==
  ASSUME IInv, NEW h \in DOMAIN hs, HandlerStep(h)
  PROVE  [Clients!Next]_(Clients!vars)
<1>1. CASE Admit(h) \/ ApplyNotLeader(h) \/ ResolveLeader(h) \/ Post(h)
  BY <1>1 DEF Admit, ApplyNotLeader, ResolveLeader, Post, Clients!vars
<1>2. CASE Overloaded(h)
  BY <1>2, FinishRefines DEF Overloaded
<1>3. CASE ApplyCommits(h)
  <2>1. hs[h].req \in {q \in Request : sends[q] > 0}
    BY DEF IInv, TypeOK, OwnInv, HandlerState
  <2>2. Clients!Commit(hs[h].req)
    BY <1>3, <2>1 DEF ApplyCommits, Clients!Commit
  <2> QED
    BY <2>1, <2>2 DEF Clients!Next
<1>4. CASE ApplyFails(h)
  BY <1>4, FinishRefines DEF ApplyFails
<1>5. CASE NoLeader(h)
  BY <1>5, AttemptOverRefines DEF NoLeader, ForwardFails
<1>6. CASE PostFails(h)
  BY <1>6, AttemptOverRefines DEF PostFails, Clients!vars
<1>7. CASE Refused(h)
  BY <1>7, AttemptOverRefines DEF Refused
<1>8. CASE AnswerOk(h)
  BY <1>8, FinishRefines DEF AnswerOk, At, IInv, OwnInv
<1> QED
  BY <1>1, <1>2, <1>3, <1>4, <1>5, <1>6, <1>7, <1>8 DEF HandlerStep

\* A send, a client that gives up and the death of a node.
LEMMA SendRefines ==
  ASSUME IInv, NEW q \in Request, NEW n \in Node, Send(q, n)
  PROVE  Clients!Ask(q)
<1> DEFINE asked == {p \in Request : sends[p] > 0}
<1>1. sends' = [sends EXCEPT ![q] = @ + 1]
  BY DEF Send
<1>2. asked' = asked \cup {q}
  <2>1. ASSUME NEW p \in Request
        PROVE  sends'[p] > 0 <=> sends[p] > 0 \/ p = q
    BY <1>1, Constants DEF IInv, TypeOK
  <2> QED
    BY <2>1
<1> QED
  BY <1>2 DEF Send, Clients!Ask

LEMMA GiveUpRefines ==
  ASSUME IInv, NEW h \in DOMAIN hs, GiveUp(h)
  PROVE  hs[h].req \in Request /\ Clients!Refuse({hs[h].req})
<1> DEFINE q == hs[h].req
<1>1. q \in Request /\ answer[q] = "pending"
  BY DEF IInv, TypeOK, OwnInv, HandlerState, GiveUp
<1>2. answer' = [p \in Request |-> IF p \in {q} THEN "error" ELSE answer[p]]
  BY <1>1 DEF GiveUp, IInv, TypeOK
<1> QED
  BY <1>1, <1>2 DEF GiveUp, Clients!Refuse

LEMMA CrashRefines ==
  ASSUME IInv, NEW n \in Node, Crash(n)
  PROVE  \E S \in SUBSET Request : Clients!Refuse(S)
<1> DEFINE dead == {h \in DOMAIN hs : hs[h].node = n}
           S == {q \in Request : \E h \in dead : hs[h].req = q /\ hs[h].caller = 0}
<1>1. \A q \in S : answer[q] = "pending"
  BY DEF IInv, OwnInv
<1>2. answer' = [q \in Request |-> IF q \in S THEN "error" ELSE answer[q]]
  BY DEF Crash
<1>3. UNCHANGED <<{q \in Request : sends[q] > 0}, committed>>
  BY DEF Crash
<1> HIDE DEF dead, S
<1>4. Clients!Refuse(S)
  BY <1>1, <1>2, <1>3 DEF Clients!Refuse
<1> QED
  BY <1>4 DEF S

\* Every step of the path is a step of the service, or none.
LEMMA NextRefines ==
  ASSUME IInv, [Next]_vars
  PROVE  [Clients!Next]_(Clients!vars)
<1>1. CASE UNCHANGED vars
  BY <1>1 DEF vars, Clients!vars
<1>2. ASSUME NEW n \in Node, Elect(n) \/ LoseLeader(n)
      PROVE  UNCHANGED Clients!vars
  BY <1>2 DEF Elect, LoseLeader, Clients!vars
<1>3. ASSUME NEW n \in Node, Crash(n)
      PROVE  Clients!Next
  BY <1>3, CrashRefines DEF Clients!Next
<1>4. ASSUME NEW n \in Node, NEW t \in 1 .. Len(elected), LearnLeader(n, t)
      PROVE  UNCHANGED Clients!vars
  BY <1>4 DEF LearnLeader, Clients!vars
<1>5. ASSUME NEW q \in Request, NEW n \in Node, Send(q, n)
      PROVE  Clients!Next
  BY <1>5, SendRefines DEF Clients!Next
<1>6. ASSUME NEW q \in limbo, CommitLate(q)
      PROVE  Clients!Next
  <2>1. q \in Request /\ sends[q] > 0
    BY DEF IInv, TypeOK, LimboInv
  <2>2. Clients!Commit(q)
    BY <1>6, <2>1 DEF CommitLate, Clients!Commit
  <2> QED
    BY <2>1, <2>2 DEF Clients!Next
<1>7. ASSUME NEW h \in DOMAIN hs, HandlerStep(h)
      PROVE  [Clients!Next]_(Clients!vars)
  BY <1>7, HandlerStepRefines
<1>8. ASSUME NEW h \in DOMAIN hs, GiveUp(h)
      PROVE  Clients!Next
  BY <1>8, GiveUpRefines DEF Clients!Next
<1> QED
  BY <1>1, <1>2, <1>3, <1>4, <1>5, <1>6, <1>7, <1>8 DEF Next, Quiet

LEMMA InitRefines == Init => Clients!Init
BY Constants DEF Init, Clients!Init

\* The path of a PUT, with its forwards, retries, elections, crashes and
\* repeated sends, is a PutService for its clients (http.go handlePut,
\* forward.go).
THEOREM PutPathImplementsPutService == Spec => ImplementsPutService
<1>1. IInv /\ [Next]_vars => [Clients!Next]_(Clients!vars)
  BY NextRefines
<1> QED
  BY Invariance, InitRefines, <1>1, PTL DEF Spec, ImplementsPutService, Clients!Spec

\* 200 is answered for committed PUTs only, through whatever chain of
\* forwards it comes (forward.go 25-29): a PutService acknowledges nothing
\* else, and commits are not undone.
THEOREM OkIsCommittedCorrect == Spec => []OkIsCommitted
<1>1. Clients!Init => OkIsCommitted
  BY DEF Clients!Init, OkIsCommitted
<1>2. ASSUME OkIsCommitted, [Clients!Next]_(Clients!vars)
      PROVE  OkIsCommitted'
  <2>1. CASE UNCHANGED Clients!vars
    BY <1>2, <2>1 DEF Clients!vars, OkIsCommitted
  <2>2. ASSUME NEW q \in Request, Clients!Ask(q)
        PROVE  OkIsCommitted'
    BY <1>2, <2>2 DEF Clients!Ask, OkIsCommitted
  <2>3. ASSUME NEW q \in Request, Clients!Commit(q)
        PROVE  OkIsCommitted'
    BY <1>2, <2>3 DEF Clients!Commit, OkIsCommitted
  <2>4. ASSUME NEW q \in Request, Clients!Acknowledge(q)
        PROVE  OkIsCommitted'
    BY <1>2, <2>4 DEF Clients!Acknowledge, OkIsCommitted
  <2>5. ASSUME NEW S \in SUBSET Request, Clients!Refuse(S)
        PROVE  OkIsCommitted'
    BY <1>2, <2>5 DEF Clients!Refuse, OkIsCommitted
  <2> QED
    BY <1>2, <2>1, <2>2, <2>3, <2>4, <2>5 DEF Clients!Next
<1> QED
  BY PutPathImplementsPutService, <1>1, <1>2, PTL DEF ImplementsPutService, Clients!Spec

===========================================================================
