------------------------------- MODULE Dedup -------------------------------
(***************************************************************************)
(* The idempotency keys of dedup/dedup.go on one node, in discrete time:   *)
(* the FSM goroutine asks IsDuplicate and, after it has applied a fresh    *)
(* command, calls MarkSeen; the cleaner goroutine evicts keys older than   *)
(* the TTL at every tick.  The two run concurrently, and the cleaner reads *)
(* the clock before it takes the lock.                                     *)
(***************************************************************************)
EXTENDS Integers, FiniteSets, Functions

CONSTANTS IdemKey,        \* non-empty idempotency keys
          NoKey,          \* the empty key: the caller opts out
          TTL,            \* DEDUP_TTL_MINUTES
          CleanInterval,  \* DEDUP_CLEAN_INTERVAL_MINUTES
          MaxLag,         \* bound: how late the cleaner finishes after a tick
          MaxTime         \* bound: the clock

ASSUME DedupAssumption ==
    /\ NoKey \notin IdemKey
    /\ TTL \in Nat \ {0}
    /\ CleanInterval \in Nat \ {0}
    /\ MaxLag \in 0 .. CleanInterval - 1
    /\ MaxTime \in Nat \ {0}

VARIABLES now,       \* the clock
          seen,      \* the marks: key to time
          applying,  \* the fresh commands between IsDuplicate and MarkSeen
          cleaner,   \* "waiting", "evicting" or "stopped"
          cutoff,    \* the cutoff of the eviction under way
          due,       \* time of the ticker's next tick
          applied    \* history: when each key was last marked, 0 for never

vars == <<now, seen, applying, cleaner, cutoff, due, applied>>

Key == IdemKey \cup {NoKey}

Init ==
    /\ now = 1
    /\ seen = <<>>
    /\ applying = {}
    /\ cleaner = "waiting"
    /\ cutoff = 0
    /\ due = 1 + CleanInterval
    /\ applied = [k \in IdemKey |-> 0]

IsDuplicate(k) == k \in DOMAIN seen

\* FSM.Apply asks about the next command; a duplicate is dropped.
Deliver(k) ==
    /\ applying = {}
    /\ ~IsDuplicate(k)
    /\ applying' = {k}
    /\ UNCHANGED <<now, seen, cleaner, cutoff, due, applied>>

\* The marks once k is marked, or marked again.
Marked(k) ==
    [j \in DOMAIN seen \cup {k} |-> IF j = k THEN now ELSE seen[j]]

\* Mutant: the empty key is marked like any other.
MarkAnySeen(k) ==
    /\ applying = {k}
    /\ applying' = {}
    /\ seen' = Marked(k)
    /\ UNCHANGED <<now, cleaner, cutoff, due, applied>>

\* FSM.Apply has applied it; the empty key leaves no mark.
MarkSeen(k) ==
    /\ applying = {k}
    /\ applying' = {}
    /\ IF k = NoKey
         THEN UNCHANGED <<seen, applied>>
         ELSE /\ seen' = Marked(k)
              /\ applied' = [applied EXCEPT ![k] = now]
    /\ UNCHANGED <<now, cleaner, cutoff, due>>

\* The ticker fires: evict computes its cutoff.
Tick ==
    /\ cleaner = "waiting"
    /\ now >= due
    /\ cleaner' = "evicting"
    /\ cutoff' = now - TTL
    /\ due' = due + CleanInterval
    /\ UNCHANGED <<now, seen, applying, applied>>

\* Mutants: not strictly older; the TTL subtracted twice; After for Before.
ExpiredAtTTL == {k \in DOMAIN seen : seen[k] <= cutoff}
ExpiredLate == {k \in DOMAIN seen : seen[k] < cutoff - TTL}
ExpiredNewest == {k \in DOMAIN seen : seen[k] > cutoff}

Expired == {k \in DOMAIN seen : seen[k] < cutoff}

\* evict has the lock: every mark before the cutoff goes.
Evict ==
    /\ cleaner = "evicting"
    /\ seen' = Restrict(seen, DOMAIN seen \ Expired)
    /\ cleaner' = "waiting"
    /\ UNCHANGED <<now, applying, cutoff, due, applied>>

\* Stop, seen by the cleaner when it waits; no key expires from then on.
Stop ==
    /\ cleaner = "waiting"
    /\ cleaner' = "stopped"
    /\ UNCHANGED <<now, seen, applying, cutoff, due, applied>>

\* The cleaner is scheduled and done within MaxLag of its tick.
TimePasses ==
    /\ now < MaxTime
    /\ \/ cleaner = "stopped"
       \/ cleaner = "waiting" /\ now < due + MaxLag
       \/ cleaner = "evicting" /\ now < due - CleanInterval + MaxLag
    /\ now' = now + 1
    /\ UNCHANGED <<seen, applying, cleaner, cutoff, due, applied>>

Next ==
    \/ \E k \in Key : Deliver(k) \/ MarkSeen(k)
    \/ Tick \/ Evict \/ Stop
    \/ TimePasses

Spec == Init /\ [][Next]_vars

---------------------------------------------------------------------------
(* Properties.                                                             *)

TypeOK ==
    /\ now \in 1 .. MaxTime
    /\ DOMAIN seen \subseteq IdemKey
    /\ \A k \in DOMAIN seen : seen[k] \in 1 .. now
    /\ applying \subseteq Key /\ Cardinality(applying) <= 1
    /\ cleaner \in {"waiting", "evicting", "stopped"}
    /\ cutoff \in Int /\ due \in Nat
    /\ applied \in [IdemKey -> 0 .. now]

\* dedup.go 20-22: a retry counts as a new write only if more than the TTL
\* has passed since the key was last applied.
RetryWindowKept ==
    [][\A k \in IdemKey :
         k \in applying' \ applying /\ applied[k] > 0 =>
             now - applied[k] > TTL]_vars

\* dedup.go 10-12: while the cleaner runs no mark outlives the TTL by more
\* than one cleaning interval and the cleaner's lag, so the map does not
\* grow for ever.
MarksExpire ==
    cleaner # "stopped" =>
        \A k \in DOMAIN seen : now - seen[k] <= TTL + CleanInterval + MaxLag

\* Keys expire oldest first: an eviction never keeps an older mark than one
\* it drops (ReplicatedKV relies on it).
OldestExpireFirst ==
    [][\A j \in DOMAIN seen \ DOMAIN seen' :
         \A k \in DOMAIN seen \cap DOMAIN seen' : seen[j] < seen[k]]_vars

============================================================================
