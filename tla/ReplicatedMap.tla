--------------------------- MODULE ReplicatedMap ---------------------------
(***************************************************************************)
(* What the cluster promises a reader: replicas of one map.                *)
(*                                                                         *)
(* A live replica serves exactly the state that the committed log defines  *)
(* at its position, and moves one entry at a time.  A replica that comes   *)
(* back after a crash starts at position 0 and, until it is live again,    *)
(* serves for each key some value that was once committed to it, or none.  *)
(***************************************************************************)
EXTENDS CommittedLog

CONSTANT Node

VARIABLES log,    \* the committed commands
          mode,   \* mode[n]: live, recovering or down
          pos,    \* pos[n]: entries consumed
          store   \* store[n]: the map replica n serves

vars == <<log, mode, pos, store>>

Mode == {"live", "recovering", "down"}

TypeOK ==
    /\ log \in Seq(Command)
    /\ mode \in [Node -> Mode]
    /\ pos \in [Node -> 0 .. Len(log)]
    /\ store \in [Node -> Map]

\* The maps in which every value was committed to its key.
CommittedMaps(l) ==
    {m \in Map : \A k \in Key :
        m[k] = NoVal \/ \E i \in 1 .. Len(l) : l[i].key = k /\ l[i].val = m[k]}

Init ==
    /\ log = <<>>
    /\ mode = [n \in Node |-> "live"]
    /\ pos = [n \in Node |-> 0]
    /\ store = [n \in Node |-> EmptyMap]

Commit(c) ==
    /\ log' = Append(log, c)
    /\ UNCHANGED <<mode, pos, store>>

\* Serve replica n in mode d with map m at position p.
Serve(n, d, p, m) ==
    /\ d = "live" => m = StateAt(log, p)
    /\ mode' = [mode EXCEPT ![n] = d]
    /\ pos' = [pos EXCEPT ![n] = p]
    /\ store' = [store EXCEPT ![n] = m]
    /\ UNCHANGED log

Advance(n) ==
    /\ mode[n] = "live"
    /\ pos[n] < Len(log)
    /\ Serve(n, "live", pos[n] + 1, StateAt(log, pos[n] + 1))

CatchUp(n) ==
    /\ mode[n] = "recovering"
    /\ pos[n] < Len(log)
    /\ \E m \in CommittedMaps(log), d \in {"recovering", "live"} :
          Serve(n, d, pos[n] + 1, m)

Fail(n) ==
    /\ mode[n] # "down"
    /\ Serve(n, "down", 0, EmptyMap)

Recover(n) ==
    /\ mode[n] = "down"
    /\ \E m \in CommittedMaps(log), d \in {"recovering", "live"} :
          Serve(n, d, 0, m)

Next ==
    \/ \E c \in Command : Commit(c)
    \/ \E n \in Node : Advance(n) \/ CatchUp(n) \/ Fail(n) \/ Recover(n)

Spec == Init /\ [][Next]_vars

===========================================================================
