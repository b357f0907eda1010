-------------------------- MODULE MCReplicatedKV --------------------------
(* Small instances of ReplicatedKV.                                        *)
EXTENDS ReplicatedKV, TLC

CONSTANTS Crashes, PowerLosses, Snapshots, Installs, Evictions, Failures

MCBudget ==
    [crash |-> Crashes, power |-> PowerLosses, snapshot |-> Snapshots,
     install |-> Installs, evict |-> Evictions, fail |-> Failures]

Symmetry ==
    Permutations(Node) \cup Permutations(Key) \cup Permutations(Value)
        \cup Permutations(IdemKey)

\* Bound: after the first snapshot each costs a command of the log.
SmallHistory == Len(log) + spent["snapshot"] <= MaxLog + 1

===========================================================================
