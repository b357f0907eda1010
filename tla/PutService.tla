---------------------------- MODULE PutService ----------------------------
(***************************************************************************)
(* What a client of PUT may rely on, whichever node it asks: 200 means     *)
(* that the write is committed, and is the last word on it.  Any other     *)
(* answer, or none, says nothing: the write may be committed already,      *)
(* later, several times or never.                                          *)
(***************************************************************************)
CONSTANT Request

VARIABLES asked,     \* the PUTs sent at least once
          answer,    \* the client's newest answer
          committed  \* the PUTs in the committed log

vars == <<asked, answer, committed>>

Answer == {"none", "pending", "ok", "error"}

Init ==
    /\ asked = {} /\ committed = {}
    /\ answer = [q \in Request |-> "none"]

Ask(q) ==
    /\ answer[q] \in {"none", "error"}
    /\ asked' = asked \cup {q}
    /\ answer' = [answer EXCEPT ![q] = "pending"]
    /\ UNCHANGED committed

Commit(q) ==
    /\ q \in asked
    /\ committed' = committed \cup {q}
    /\ UNCHANGED <<asked, answer>>

Acknowledge(q) ==
    /\ answer[q] = "pending" /\ q \in committed
    /\ answer' = [answer EXCEPT ![q] = "ok"]
    /\ UNCHANGED <<asked, committed>>

\* One event, such as the death of a node, can fail several clients.
Refuse(S) ==
    /\ \A q \in S : answer[q] = "pending"
    /\ answer' = [q \in Request |-> IF q \in S THEN "error" ELSE answer[q]]
    /\ UNCHANGED <<asked, committed>>

Next ==
    \/ \E q \in Request : Ask(q) \/ Commit(q) \/ Acknowledge(q)
    \/ \E S \in SUBSET Request : Refuse(S)

Spec == Init /\ [][Next]_vars

===========================================================================
