------------------------------ MODULE Service ------------------------------
(***************************************************************************)
(* The service end to end: clients that PUT and GET, the PUT path as an    *)
(* abstraction, and the replicas of ReplicatedKV below it.                 *)
(*                                                                         *)
(* The PUT path is what PutService leaves of it (module PutPath implements *)
(* that): of a PUT that was sent, handlers may propose any number of       *)
(* copies at any time, because clients retry, nodes forward, and handlers  *)
(* outlive the clients they serve.  A node that proposes waits in          *)
(* raft.Apply for its own FSM; raft answers when FSM.Apply has returned.   *)
(*                                                                         *)
(* Snapshots are not taken and no mark expires here: across these a reader *)
(* is promised nothing (runs KV_snapshot_loss and KV_evict_diverge).       *)
(***************************************************************************)
EXTENDS ReplicatedKV

CONSTANTS Request,  \* the PUTs that clients make
          Leader,   \* bound: the nodes that ever lead
          cmd       \* cmd[q]: the command of q; retries repeat it

\* Each PUT has an idempotency key of its own (README.md 262: "a unique
\* string ... chosen by the client").
ASSUME ServiceAssumption ==
    /\ cmd \in [Request -> Command]
    /\ \A p, q \in Request : cmd[p].idem = cmd[q].idem => p = q
    /\ Leader \subseteq Node

VARIABLES asked,    \* the PUTs sent at least once
          before,   \* <<p, q>>: q was first sent after p was acknowledged
          waiting,  \* <<n, q, i>>: a handler on n waits for entry i, a copy of q
          acked     \* acked[q]: index acknowledged for q, 0 if none
VARIABLE  acker     \* <<n, q>>: q was acknowledged by n since n last started

clientVars == <<asked, before, waiting, acked, acker>>
serviceVars == <<log, up, applied, kv, rows, synced, queue, seen, snap, spent,
                 taken, asked, before, waiting, acked, acker>>

ServiceInit ==
    /\ Init
    /\ asked = {} /\ before = {} /\ waiting = {} /\ acker = {}
    /\ acked = [q \in Request |-> 0]

Acknowledged == {q \in Request : acked[q] # 0}

\* A client sends a PUT.  Sending it again changes nothing here.
Put(q) ==
    /\ q \notin asked
    /\ asked' = asked \cup {q}
    /\ before' = before \cup (Acknowledged \X {q})
    /\ UNCHANGED <<vars, waiting, acked, acker>>

\* Node n, leader at the time, gets a copy of q committed.  Who proposed an
\* entry matters to no replica but n.
Propose(n, q) ==
    /\ q \in asked /\ up[n]
    /\ Commit(cmd[q])
    /\ waiting' = waiting \cup {<<n, q, Len(log')>>}
    /\ UNCHANGED <<asked, before, acked, acker>>

\* Mutant: the future resolves when the entry is committed.
Responds(n, i) == TRUE

\* future.Error() returns once the FSM of the node has applied the entry.
HasResponse(n, i) == applied[n] >= i

\* The handler answers 200, at once or through the nodes that forwarded.
\* It may also never get to that: nothing makes it take this step.
Acknowledge(n, q, i) ==
    /\ HasResponse(n, i)
    /\ waiting' = waiting \ {<<n, q, i>>}
    /\ acked' = [acked EXCEPT ![q] = IF @ = 0 THEN i ELSE @]
    /\ acker' = acker \cup {<<n, q>>}
    /\ UNCHANGED <<vars, asked, before>>

\* The handlers of a node die with it.
NodeDies(n) ==
    /\ Crash(n)
    /\ waiting' = {w \in waiting : w[1] # n}
    /\ acker' = {a \in acker : a[1] # n}
    /\ UNCHANGED <<asked, before, acked>>

NodeWorks(n) ==
    /\ \/ Apply(n) \/ Flush(n) \/ FlushFails(n) \/ FlushNothing(n)
       \/ Restart(n)
    /\ UNCHANGED clientVars

ServiceNext ==
    \/ \E q \in Request : Put(q) \/ \E n \in Leader : Propose(n, q)
    \/ \E w \in waiting : Acknowledge(w[1], w[2], w[3])
    \/ \E n \in Node : NodeWorks(n) \/ NodeDies(n)

ServiceSpec ==
    /\ ServiceInit /\ [][ServiceNext]_serviceVars
    /\ Fairness

---------------------------------------------------------------------------
(* Properties.                                                             *)

\* GET /get.
Get(n, k) == kv[n][k]

\* The answer to a GET of q's key on n is q's value or that of a PUT that
\* was not over before q was sent.
ReadsAtLeast(n, q) ==
    \E r \in asked :
        /\ cmd[r].key = cmd[q].key /\ <<r, q>> \notin before
        /\ Get(n, cmd[q].key) = cmd[r].val

\* Whoever was told that a write is done reads it, or a later one, from
\* every node that has caught up with the acknowledged index, although
\* copies of earlier writes still arrive, nodes crash and inserts fail
\* (fsm.go 42-43, raft.go Apply, http.go handleGet).
ReadsAreCurrent ==
    \A n \in Node, q \in Acknowledged :
        CaughtUp(n) /\ applied[n] >= acked[q] => ReadsAtLeast(n, q)

\* The node that answered 200 serves the write from then on until it goes
\* down, with no condition on how far it has caught up.
AckerReadsItsWrites == \A a \in acker : ReadsAtLeast(a[1], a[2])

===========================================================================
