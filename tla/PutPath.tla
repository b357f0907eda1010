------------------------------ MODULE PutPath ------------------------------
(***************************************************************************)
(* The path of a PUT: the HTTP handlers of server/http.go, the forwarding  *)
(* of server/forward.go, and the leader checks and Apply of                *)
(* cluster/raft.go.                                                        *)
(*                                                                         *)
(* Every request, from a client or from a forwarding node, runs a handler. *)
(* hs maps the handlers that run to their state:                           *)
(*   node, req   where it runs and which PUT it carries                    *)
(*   pc          where it is in handlePut and what handlePut calls         *)
(*   attempt     i in forwardWithRetry                                     *)
(*   tries       attempt in forwardToLeader                                *)
(*   via         the term whose leader it forwards to (0: none yet)        *)
(*   caller      the handler whose POST it serves (0: a client, Nobody: a  *)
(*               client that has given up)                                 *)
(*   child       the handler that serves its own POST (0: none)            *)
(*                                                                         *)
(* Raft is external: terms have one leader each; what a node knows of the  *)
(* leader only moves to newer terms; the leader of the newest term can     *)
(* commit; an Apply that fails may or may not commit its entry later.      *)
(***************************************************************************)
EXTENDS Integers, FiniteSets, Sequences, Functions

CONSTANTS Node,
          Request,            \* the PUTs that clients make
          MaxConcurrent,      \* maxConcurrent
          Attempts,           \* attempts in forwardWithRetry
          MaxForwardRetries,  \* maxForwardRetries
          MaxTerm,            \* bound: elections
          MaxSends,           \* bound: times a client sends one PUT
          MaxHandlers,        \* bound: handlers running at a time
          MaxCrash            \* bound: crashes

ASSUME PutPathAssumption ==
    /\ {MaxConcurrent, Attempts, MaxForwardRetries, MaxHandlers} \subseteq Nat \ {0}
    /\ {MaxTerm, MaxSends, MaxCrash} \subseteq Nat

VARIABLES elected,    \* elected[t]: the leader of term t
          known,      \* known[n]: newest term whose leader n has heard of
          view,       \* view[n]: known[n], or 0 while n knows no leader
          hs,         \* the running handlers
          sends,      \* sends[q]: times the client has sent q
          answer,     \* answer[q]: the client's newest answer to q
          committed,  \* the requests in the committed log
          limbo,      \* uncommitted entries of failed Applies, to commit or not
          crashes     \* crashes so far

raftVars == <<elected, known, view>>
vars == <<elected, known, view, hs, sends, answer, committed, limbo, crashes>>

Handler == 1 .. MaxHandlers
Nobody == MaxHandlers + 1
Pc == {"arrived", "apply", "resolve", "post", "waiting", "refused",
       "done"}
Answer == {"none", "pending", "ok", "error"}

Init ==
    /\ elected = <<>>
    /\ known = [n \in Node |-> 0]
    /\ view = [n \in Node |-> 0]
    /\ hs = <<>>
    /\ sends = [q \in Request |-> 0]
    /\ answer = [q \in Request |-> "none"]
    /\ committed = {}
    /\ limbo = {}
    /\ crashes = 0

---------------------------------------------------------------------------
(* Raft, as the program sees it.                                           *)

Elect(n) ==
    LET t == Len(elected) + 1 IN
    /\ t <= MaxTerm
    /\ elected' = Append(elected, n)
    /\ known' = [known EXCEPT ![n] = t]
    /\ view' = [view EXCEPT ![n] = t]
    /\ UNCHANGED <<hs, sends, answer, committed, limbo, crashes>>

\* n hears from the leader of a term that is not older than what it knows.
LearnLeader(n, t) ==
    /\ t >= known[n] /\ t # view[n]
    /\ elected[t] # n
    /\ known' = [known EXCEPT ![n] = t]
    /\ view' = [view EXCEPT ![n] = t]
    /\ UNCHANGED <<elected, hs, sends, answer, committed, limbo, crashes>>

\* n misses its leader's heartbeats, or gives up its own leadership.
LoseLeader(n) ==
    /\ view[n] # 0
    /\ view' = [view EXCEPT ![n] = 0]
    /\ UNCHANGED <<elected, known, hs, sends, answer, committed, limbo, crashes>>

\* An entry whose Apply failed turns out to be committed.
CommitLate(q) ==
    /\ committed' = committed \cup {q}
    /\ limbo' = limbo \ {q}
    /\ UNCHANGED <<elected, known, view, hs, sends, answer, crashes>>

\* IsLeader: the leader that raft reports is this node.
IsLeader(n) == view[n] # 0 /\ elected[view[n]] = n

---------------------------------------------------------------------------
(* Handlers.                                                               *)

FreeHandlers == Handler \ DOMAIN hs

NewHandler(n, q, c) ==
    [node |-> n, req |-> q, pc |-> "arrived", attempt |-> 0, tries |-> 0,
     via |-> 0, caller |-> c, child |-> 0]

Goto(h, pc) == hs' = [hs EXCEPT ![h].pc = pc]

At(h, pc) == hs[h].pc = pc

\* The handlers that hold a slot of their node's semaphore.
Holding(n) == {h \in DOMAIN hs : hs[h].node = n /\ hs[h].pc # "arrived"}

\* forwardToLeader returned an error: the next attempt, if one is left.
\* The last error is answered with 502.

\* Mutant: off by one.
HasOneMoreAttempt(r) == r.attempt < Attempts

HasAttempt(r) == r.attempt < Attempts - 1

\* Mutant: the attempt is not counted.
SameAttempt(r) ==
    [r EXCEPT !.pc = "resolve", !.tries = 0, !.via = 0, !.child = 0]

NextAttempt(r) == [SameAttempt(r) EXCEPT !.attempt = @ + 1]

\* client.Post returned an error: forwardToLeader tries the same address
\* again while it has tries left.
HasTry(r) == r.tries < MaxForwardRetries - 1

\* Mutant: the try is not counted.
SameTry(r) == [r EXCEPT !.pc = "post", !.child = 0]

NextTry(r) == [r EXCEPT !.tries = @ + 1, !.pc = "post", !.child = 0]

Without(f, S) == Restrict(f, DOMAIN f \ S)

With(f, x, v) == [y \in DOMAIN f \cup {x} |-> IF y = x THEN v ELSE f[y]]

\* Mutant: the status code is not looked at.
AnyAnswerWillDo(outcome) == "done"

\* Where the caller goes on: 200 ends forwardToLeader and the caller is to
\* answer 200 itself; any other status ends this attempt.
OnAnswer(outcome) == IF outcome = "ok" THEN "done" ELSE "refused"

\* Handler h is over with the given outcome: it gives its slot back and
\* answers its caller, if that still waits.
Finish(h, outcome) ==
    LET c == hs[h].caller
        rest == Without(hs, {h})
        waited == c \in DOMAIN rest /\ hs[c].pc = "waiting" /\ hs[c].child = h
    IN /\ hs' = IF ~waited THEN rest
                ELSE [rest EXCEPT ![c].child = 0,
                                  ![c].pc = OnAnswer(outcome)]
       /\ answer' = IF c = 0 THEN [answer EXCEPT ![hs[h].req] = outcome]
                             ELSE answer

\* A client sends a PUT, or sends it again after an answer other than 200.
Send(q, n) ==
    /\ sends[q] < MaxSends
    /\ answer[q] \in {"none", "error"}
    /\ \E h \in FreeHandlers :
         /\ \A f \in FreeHandlers : h <= f
         /\ hs' = With(hs, h, NewHandler(n, q, 0))
    /\ sends' = [sends EXCEPT ![q] = @ + 1]
    /\ answer' = [answer EXCEPT ![q] = "pending"]
    /\ UNCHANGED <<elected, known, view, committed, limbo, crashes>>

\* case <-time.After(5s): no slot came free, 503.
Overloaded(h) ==
    /\ At(h, "arrived")
    /\ Cardinality(Holding(hs[h].node)) = MaxConcurrent
    /\ Finish(h, "error")
    /\ UNCHANGED <<raftVars, sends, committed, limbo, crashes>>

\* Mutant: the leader forwards as well.
AlwaysForward(n) == "resolve"

\* The leader applies, a follower forwards.
RouteOf(n) == IF IsLeader(n) THEN "apply" ELSE "resolve"

\* case s.sem <- struct{}{}: the handler gets a slot and, with nothing to
\* wait for in between, asks whether its node leads.
Admit(h) ==
    /\ At(h, "arrived")
    /\ Cardinality(Holding(hs[h].node)) < MaxConcurrent
    /\ Goto(h, RouteOf(hs[h].node))
    /\ UNCHANGED <<raftVars, sends, answer, committed, limbo, crashes>>

\* raft.Apply: the entry is committed, and the handler is to answer 200.
ApplyCommits(h) ==
    /\ At(h, "apply")
    /\ IsLeader(hs[h].node) /\ view[hs[h].node] = Len(elected)
    /\ committed' = committed \cup {hs[h].req}
    /\ limbo' = limbo \ committed'
    /\ Goto(h, "done")
    /\ UNCHANGED <<raftVars, sends, answer, crashes>>

\* raft.Apply: ErrNotLeader, nothing was appended; the handler forwards.
ApplyNotLeader(h) ==
    /\ At(h, "apply")
    /\ ~IsLeader(hs[h].node)
    /\ Goto(h, "resolve")
    /\ UNCHANGED <<raftVars, sends, answer, committed, limbo, crashes>>

\* raft.Apply: any other error is answered with 500.  If leadership was
\* lost after the append, the entry may yet be committed.
ApplyFails(h) ==
    /\ At(h, "apply")
    /\ limbo' \in {limbo, limbo \cup ({hs[h].req} \ committed)}
    /\ Finish(h, "error")
    /\ UNCHANGED <<raftVars, sends, committed, crashes>>

\* forwardWithRetry asks for the leader's address.
ResolveLeader(h) ==
    LET t == view[hs[h].node] IN
    /\ At(h, "resolve")
    /\ t # 0
    /\ hs' = [hs EXCEPT ![h].via = t, ![h].pc = "post", ![h].tries = 0]
    /\ UNCHANGED <<raftVars, sends, answer, committed, limbo, crashes>>

\* There is no leader: sleep and try again, or 503 on the last attempt.
NoLeader(h) ==
    /\ At(h, "resolve")
    /\ view[hs[h].node] = 0
    /\ IF HasAttempt(hs[h])
         THEN /\ hs' = [hs EXCEPT ![h] = NextAttempt(@)]
              /\ UNCHANGED answer
         ELSE Finish(h, "error")
    /\ UNCHANGED <<raftVars, sends, committed, limbo, crashes>>

Target(h) == elected[hs[h].via]

\* forwardClient.Post reaches the target, which starts a handler.
Post(h) ==
    /\ At(h, "post")
    /\ \E c \in FreeHandlers :
         /\ \A f \in FreeHandlers : c <= f
         /\ hs' = With([hs EXCEPT ![h].pc = "waiting", ![h].child = c],
                       c, NewHandler(Target(h), hs[h].req, h))
    /\ UNCHANGED <<raftVars, sends, answer, committed, limbo, crashes>>

\* forwardToLeader gives up: the loop of forwardWithRetry goes on.
ForwardFails(h) ==
    IF HasAttempt(hs[h])
      THEN hs' = [hs EXCEPT ![h] = NextAttempt(@)] /\ UNCHANGED answer
      ELSE Finish(h, "error")

\* Post returns an error: the target cannot be reached, or its answer did
\* not come within 10s.  The handler it may have started runs on.
PostFails(h) ==
    /\ hs[h].pc \in {"post", "waiting"}
    /\ IF HasTry(hs[h])
         THEN hs' = [hs EXCEPT ![h] = NextTry(@)] /\ UNCHANGED answer
         ELSE ForwardFails(h)
    /\ UNCHANGED <<raftVars, sends, committed, limbo, crashes>>

\* The leader's answer was not 200: break, no further try at this address.
Refused(h) ==
    /\ At(h, "refused")
    /\ ForwardFails(h)
    /\ UNCHANGED <<raftVars, sends, committed, limbo, crashes>>

\* w.WriteHeader(http.StatusOK), after Apply or after the leader's 200.
AnswerOk(h) ==
    /\ At(h, "done")
    /\ Finish(h, "ok")
    /\ UNCHANGED <<raftVars, sends, committed, limbo, crashes>>

\* The client's own timeout, or the server's WriteTimeout, which closes the
\* connection: the client gets no answer, and the handler runs on.
GiveUp(h) ==
    /\ hs[h].caller = 0
    /\ hs' = [hs EXCEPT ![h].caller = Nobody]
    /\ answer' = [answer EXCEPT ![hs[h].req] = "error"]
    /\ UNCHANGED <<raftVars, sends, committed, limbo, crashes>>

\* A node dies and comes back: its handlers are gone; who waits for one of
\* them, handler or client, sees the connection break.  Entries that were
\* being applied may yet be committed.
Crash(n) ==
    LET dead == {h \in DOMAIN hs : hs[h].node = n}
        rest == Without(hs, dead)
    IN /\ crashes < MaxCrash
       /\ crashes' = crashes + 1
       /\ hs' = [h \in DOMAIN rest |->
                   IF rest[h].child \in dead THEN [rest[h] EXCEPT !.child = 0]
                                             ELSE rest[h]]
       /\ answer' = [q \in Request |->
                       IF \E h \in dead : hs[h].req = q /\ hs[h].caller = 0
                         THEN "error" ELSE answer[q]]
       /\ \E S \in SUBSET {hs[h].req : h \in {d \in dead : At(d, "apply")}} :
             limbo' = limbo \cup (S \ committed)
       /\ view' = [view EXCEPT ![n] = 0]
       /\ UNCHANGED <<elected, known, sends, committed>>

HandlerStep(h) ==
    \/ Admit(h) \/ Overloaded(h)
    \/ ApplyCommits(h) \/ ApplyNotLeader(h) \/ ApplyFails(h)
    \/ ResolveLeader(h) \/ NoLeader(h)
    \/ Post(h) \/ PostFails(h) \/ Refused(h) \/ AnswerOk(h)

\* All clients are answered and no handler runs.
Quiet ==
    /\ DOMAIN hs = {}
    /\ UNCHANGED vars

Next ==
    \/ \E n \in Node : Elect(n) \/ LoseLeader(n) \/ Crash(n)
    \/ \E n \in Node, t \in 1 .. Len(elected) : LearnLeader(n, t)
    \/ \E q \in Request, n \in Node : Send(q, n)
    \/ \E q \in limbo : CommitLate(q)
    \/ \E h \in DOMAIN hs : HandlerStep(h) \/ GiveUp(h)
    \/ Quiet

Spec == Init /\ [][Next]_vars

\* A handler that can take a step takes one: its goroutine is scheduled, its
\* sleeps and timers end, and raft resolves every Apply (a leader without a
\* quorum loses its lease).  Nothing is assumed of elections or clients.
Fairness == \A h \in Handler : WF_vars(h \in DOMAIN hs /\ HandlerStep(h))

FairSpec == Spec /\ Fairness

---------------------------------------------------------------------------
(* Properties.                                                             *)

HandlerState ==
    [node : Node, req : Request, pc : Pc,
     attempt : 0 .. Attempts - 1, tries : 0 .. MaxForwardRetries - 1,
     via : 0 .. Len(elected), caller : 0 .. Nobody, child : 0 .. MaxHandlers]

TypeOK ==
    /\ elected \in Seq(Node)
    /\ known \in [Node -> 0 .. Len(elected)]
    /\ view \in [Node -> 0 .. Len(elected)]
    /\ \A n \in Node : view[n] \in {0, known[n]}
    /\ DOMAIN hs \subseteq Handler
    /\ \A h \in DOMAIN hs : hs[h] \in HandlerState
    /\ sends \in [Request -> 0 .. MaxSends]
    /\ answer \in [Request -> Answer]
    /\ committed \subseteq Request
    /\ limbo \subseteq Request
    /\ crashes \in 0 .. MaxCrash

\* For its clients the path, with all its retries, is a PutService.
Clients ==
    INSTANCE PutService WITH asked <- {q \in Request : sends[q] > 0}

ImplementsPutService == Clients!Spec

\* forward.go 25-29: a client that gets 200, from the leader or through any
\* chain of forwards, has its PUT in the committed log.
OkIsCommitted == \A q \in Request : answer[q] = "ok" => q \in committed

\* A forwarded request never circles: when the node it was forwarded to
\* forwards it again, it does so to the leader of a newer term.  So a PUT
\* passes through at most as many forwards as there are elections while it
\* is under way, although no header counts the hops.
ForwardsFollowTerms ==
    \A h, c \in DOMAIN hs :
        hs[h].child = c /\ hs[c].via # 0 => hs[h].via < hs[c].via

\* The steps that a handler has left at most: an attempt asks for the
\* leader, posts at most MaxForwardRetries times, and reads the answer.
StepsLeft(r) ==
    LET perAttempt == 2 * MaxForwardRetries + 2
        left == (Attempts - r.attempt) * perAttempt
    IN CASE r.pc = "arrived" -> Attempts * perAttempt + 2
         [] r.pc = "apply" -> Attempts * perAttempt + 1
         [] r.pc = "resolve" -> left
         [] r.pc = "post" -> left - 2 * r.tries - 1
         [] r.pc = "waiting" -> left - 2 * r.tries - 2
         [] r.pc = "refused" -> left - perAttempt + 1
         [] r.pc = "done" -> 0

\* forward.go 50-76 and http.go 430-457, the two nested retry loops: whatever
\* fails, each step of a handler ends it or leaves it fewer steps, and no
\* step of another handler, of a client or of raft sends it back.
HandlersAdvance ==
    [][/\ \A h \in DOMAIN hs \cap DOMAIN hs' :
            StepsLeft(hs'[h]) <= StepsLeft(hs[h])
       /\ \A h \in DOMAIN hs :
            HandlerStep(h) =>
              h \notin DOMAIN hs' \/ StepsLeft(hs'[h]) < StepsLeft(hs[h])]_vars

\* Every PUT is answered, with or without a leader, also when handlers wait
\* for each other's slots.
PutIsAnswered ==
    \A q \in Request : answer[q] = "pending" ~> answer[q] # "pending"

\* Handlers that nobody waits for any more end too and free their slots.
HandlersEnd == <>[](DOMAIN hs = {})

(* A claim of the repository that the code does not keep.                  *)

\* forward.go 34-36: forwardToLeader retries "each time re-asking for the
\* current leader address".  When a retry begins on a node that knows of a
\* leader, it goes to that leader's address.
RetryAsksForLeader ==
    [][\A h \in DOMAIN hs \cap DOMAIN hs' :
         hs'[h].tries > hs[h].tries /\ view[hs[h].node] # 0 =>
             elected[hs'[h].via] = elected[view[hs[h].node]]]_vars

===========================================================================
