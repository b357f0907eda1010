---------------------------- MODULE Dedup_proofs ----------------------------
(***************************************************************************)
(* Proofs about the idempotency marks, for any keys, TTL, cleaning         *)
(* interval and lag of the cleaner: no retry counts as a new write within  *)
(* the time to live, and no mark outlives it by more than one interval and *)
(* the lag.                                                                *)
(***************************************************************************)
EXTENDS Dedup, FiniteSetTheorems, TLAPS

LEMMA Constants ==
  /\ NoKey \notin IdemKey /\ TTL \in Nat \ {0} /\ CleanInterval \in Nat \ {0}
  /\ MaxLag \in 0 .. CleanInterval - 1 /\ MaxTime \in Nat \ {0}
BY DedupAssumption

---------------------------------------------------------------------------
(* The inductive invariant.                                                *)

\* The types, with applying as MarkSeen needs it: at most one command.
TypeInv ==
    /\ now \in 1 .. MaxTime
    /\ DOMAIN seen \subseteq IdemKey
    /\ \A k \in DOMAIN seen : seen[k] \in 1 .. now
    /\ applying = {} \/ \E k \in Key : applying = {k}
    /\ cleaner \in {"waiting", "evicting", "stopped"}
    /\ cutoff \in Int /\ due \in Nat
    /\ applied \in [IdemKey -> 0 .. now]

\* A mark is the time of the last write under its key; a key that has lost
\* its mark was last written more than the TTL ago, because a cutoff that
\* waits for the lock only grows more cautious.
MarkInv ==
    /\ \A k \in DOMAIN seen : seen[k] = applied[k]
    /\ \A k \in IdemKey \ DOMAIN seen : applied[k] > 0 => now - applied[k] > TTL
    /\ cleaner = "evicting" => cutoff <= now - TTL

\* The clock stays within MaxLag of the cleaner's schedule, and the marks
\* are younger than the last tick, or the one before while it is acted on,
\* less the TTL.
LastTick == due - CleanInterval

ScheduleInv ==
    /\ LastTick <= now
    /\ cleaner = "waiting" =>
          /\ now <= due + MaxLag
          /\ \A k \in DOMAIN seen : seen[k] >= LastTick - TTL
    /\ cleaner = "evicting" =>
          /\ now <= LastTick + MaxLag
          /\ cutoff >= LastTick - TTL
          /\ \A k \in DOMAIN seen : seen[k] >= LastTick - CleanInterval - TTL

IInv == TypeInv /\ MarkInv /\ ScheduleInv

---------------------------------------------------------------------------
(* The actions preserve it.                                                *)

LEMMA InitInv == Init => IInv
<1> SUFFICES ASSUME Init  PROVE IInv
  OBVIOUS
<1>1. DOMAIN seen = {}
  BY DEF Init
<1> QED
  BY <1>1, Constants DEF Init, IInv, TypeInv, MarkInv, ScheduleInv, LastTick

LEMMA DeliverInv ==
  ASSUME IInv, NEW k \in Key, Deliver(k)
  PROVE  IInv'
<1>1. /\ applying' = {k}
      /\ UNCHANGED <<now, seen, cleaner, cutoff, due, applied>>
  BY DEF Deliver
<1> QED
  BY <1>1 DEF IInv, TypeInv, MarkInv, ScheduleInv, LastTick

\* What MarkSeen does to the marks of a key that is not empty.
LEMMA MarkedFacts ==
  ASSUME NEW k
  PROVE  /\ DOMAIN Marked(k) = DOMAIN seen \cup {k}
         /\ Marked(k)[k] = now
         /\ \A j \in DOMAIN seen : j # k => Marked(k)[j] = seen[j]
BY DEF Marked

LEMMA MarkSeenInv ==
  ASSUME IInv, NEW k \in Key, MarkSeen(k)
  PROVE  IInv'
<1>1. applying' = {} /\ UNCHANGED <<now, cleaner, cutoff, due>>
  BY DEF MarkSeen
<1>2. CASE k = NoKey
  <2>1. UNCHANGED <<seen, applied>>
    BY <1>2 DEF MarkSeen
  <2> QED
    BY <1>1, <2>1 DEF IInv, TypeInv, MarkInv, ScheduleInv, LastTick
<1>3. CASE k # NoKey
  <2>1. k \in IdemKey /\ seen' = Marked(k) /\ applied' = [applied EXCEPT ![k] = now]
    BY <1>3 DEF MarkSeen, Key
  <2>2. /\ DOMAIN seen' = DOMAIN seen \cup {k} /\ seen'[k] = now
        /\ \A j \in DOMAIN seen : j # k => seen'[j] = seen[j]
    BY <2>1, MarkedFacts
  <2>3. /\ applied'[k] = now /\ \A j \in IdemKey : j # k => applied'[j] = applied[j]
        /\ applied' \in [IdemKey -> 0 .. now]
    BY <2>1 DEF IInv, TypeInv
  <2>4. now \in Nat \ {0}
    BY Constants DEF IInv, TypeInv
  <2>5. TypeInv'
    BY <1>1, <2>1, <2>2, <2>3, <2>4 DEF IInv, TypeInv
  <2>6. MarkInv'
    BY <1>1, <2>1, <2>2, <2>3 DEF IInv, TypeInv, MarkInv
  <2>7. ScheduleInv'
    BY <1>1, <2>2, <2>4, Constants DEF IInv, TypeInv, ScheduleInv, LastTick
  <2> QED
    BY <2>5, <2>6, <2>7 DEF IInv
<1> QED
  BY <1>2, <1>3

LEMMA TickInv ==
  ASSUME IInv, Tick
  PROVE  IInv'
<1>1. /\ cleaner = "waiting" /\ now >= due
      /\ cleaner' = "evicting" /\ cutoff' = now - TTL /\ due' = due + CleanInterval
      /\ UNCHANGED <<now, seen, applying, applied>>
  BY DEF Tick
<1>2. now \in Int /\ due \in Nat /\ \A k \in DOMAIN seen : seen[k] \in Int
  BY DEF IInv, TypeInv
<1>3. TypeInv'
  BY <1>1, <1>2, Constants DEF IInv, TypeInv
<1>4. MarkInv'
  BY <1>1, <1>2, Constants DEF IInv, MarkInv
<1>5. ScheduleInv'
  BY <1>1, <1>2, Constants DEF IInv, ScheduleInv, LastTick
<1> QED
  BY <1>3, <1>4, <1>5 DEF IInv

LEMMA EvictFacts ==
  ASSUME Evict
  PROVE  /\ DOMAIN seen' = {k \in DOMAIN seen : ~(seen[k] < cutoff)}
         /\ \A k \in DOMAIN seen' : seen'[k] = seen[k]
BY DEF Evict, Restrict, Expired

LEMMA EvictInv ==
  ASSUME IInv, Evict
  PROVE  IInv'
<1>1. /\ cleaner = "evicting" /\ cleaner' = "waiting"
      /\ UNCHANGED <<now, applying, cutoff, due, applied>>
  BY DEF Evict
<1>2. /\ now \in Int /\ due \in Nat /\ cutoff \in Int
      /\ \A k \in DOMAIN seen : seen[k] \in Int
  BY DEF IInv, TypeInv
<1>3. /\ DOMAIN seen' = {k \in DOMAIN seen : ~(seen[k] < cutoff)}
      /\ \A k \in DOMAIN seen' : seen'[k] = seen[k]
  BY EvictFacts
<1>4. TypeInv'
  BY <1>1, <1>3 DEF IInv, TypeInv
<1>5. MarkInv'
  <2>1. ASSUME NEW k \in DOMAIN seen, seen[k] < cutoff
        PROVE  now - applied[k] > TTL
    BY <1>1, <1>2, <2>1, Constants DEF IInv, MarkInv
  <2> QED
    BY <1>1, <1>3, <1>2, <2>1 DEF IInv, MarkInv
<1>6. ScheduleInv'
  BY <1>1, <1>2, <1>3, Constants DEF IInv, ScheduleInv, LastTick
<1> QED
  BY <1>4, <1>5, <1>6 DEF IInv

LEMMA StopInv ==
  ASSUME IInv, Stop
  PROVE  IInv'
<1>1. /\ cleaner' = "stopped"
      /\ UNCHANGED <<now, seen, applying, cutoff, due, applied>>
  BY DEF Stop
<1> QED
  BY <1>1 DEF IInv, TypeInv, MarkInv, ScheduleInv, LastTick

LEMMA TimePassesInv ==
  ASSUME IInv, TimePasses
  PROVE  IInv'
<1>1. /\ now < MaxTime /\ now' = now + 1
      /\ \/ cleaner = "stopped"
         \/ cleaner = "waiting" /\ now < due + MaxLag
         \/ cleaner = "evicting" /\ now < LastTick + MaxLag
      /\ UNCHANGED <<seen, applying, cleaner, cutoff, due, applied>>
  BY DEF TimePasses, LastTick
<1>2. /\ now \in Int /\ due \in Nat /\ cutoff \in Int /\ LastTick \in Int
      /\ LastTick' = LastTick
  BY <1>1, Constants DEF IInv, TypeInv, LastTick
<1>3. TypeInv'
  <2>1. now' \in 1 .. MaxTime /\ 1 .. now \subseteq 1 .. now' /\ 0 .. now \subseteq 0 .. now'
    BY <1>1, <1>2, Constants DEF IInv, TypeInv
  <2> QED
    BY <1>1, <2>1 DEF IInv, TypeInv
<1>4. MarkInv'
  <2>1. \A k \in IdemKey : applied[k] \in Int
    BY DEF IInv, TypeInv
  <2> QED
    BY <1>1, <1>2, <2>1, Constants DEF IInv, MarkInv
<1>5. ScheduleInv'
  BY <1>1, <1>2, Constants DEF IInv, ScheduleInv
<1> QED
  BY <1>3, <1>4, <1>5 DEF IInv

LEMMA NextInv ==
  ASSUME IInv, [Next]_vars
  PROVE  IInv'
<1>1. CASE UNCHANGED vars
  BY <1>1 DEF vars, IInv, TypeInv, MarkInv, ScheduleInv, LastTick
<1> QED
  BY <1>1, DeliverInv, MarkSeenInv, TickInv, EvictInv, StopInv, TimePassesInv DEF Next

LEMMA Invariance == Spec => []IInv
<1>1. IInv /\ [Next]_vars => IInv'
  BY NextInv
<1> QED
  BY InitInv, <1>1, PTL DEF Spec

---------------------------------------------------------------------------
(* The properties.                                                         *)

\* The state has its type; at most one command is between IsDuplicate and
\* MarkSeen.
THEOREM DedupTypeCorrect == Spec => []TypeOK
<1>1. IInv => TypeOK
  <2> SUFFICES ASSUME IInv  PROVE TypeOK
    OBVIOUS
  <2>1. applying \subseteq Key /\ Cardinality(applying) <= 1
    BY FS_EmptySet, FS_Singleton DEF IInv, TypeInv
  <2> QED
    BY <2>1 DEF IInv, TypeInv, TypeOK
<1> QED
  BY Invariance, <1>1, PTL

\* While the cleaner runs no mark outlives the TTL by more than one cleaning
\* interval and the cleaner's lag (dedup.go run, evict).
THEOREM MarksExpireCorrect == Spec => []MarksExpire
<1>1. IInv => MarksExpire
  <2> SUFFICES ASSUME IInv, cleaner # "stopped", NEW k \in DOMAIN seen
               PROVE  now - seen[k] <= TTL + CleanInterval + MaxLag
    BY DEF MarksExpire
  <2>1. now \in Int /\ due \in Int /\ seen[k] \in Int /\ LastTick \in Int
    BY Constants DEF IInv, TypeInv, LastTick
  <2>2. cleaner \in {"waiting", "evicting"}
    BY DEF IInv, TypeInv
  <2> QED
    BY <2>1, <2>2, Constants DEF IInv, ScheduleInv, LastTick
<1> QED
  BY Invariance, <1>1, PTL

\* A retry is applied as a new write only when more than the TTL has passed
\* since its key was last applied (dedup.go IsDuplicate, evict).
THEOREM RetryWindowKeptCorrect == Spec => RetryWindowKept
<1> DEFINE Kept == \A k \in IdemKey :
                     k \in applying' \ applying /\ applied[k] > 0 =>
                         now - applied[k] > TTL
<1>1. ASSUME IInv, [Next]_vars
      PROVE  Kept
  <2> SUFFICES ASSUME NEW k \in IdemKey, k \in applying' \ applying, applied[k] > 0
               PROVE  now - applied[k] > TTL
    OBVIOUS
  <2>1. PICK j \in Key : Deliver(j)
    BY <1>1 DEF Next, MarkSeen, Tick, Evict, Stop, TimePasses, vars
  <2>2. k \notin DOMAIN seen
    BY <2>1 DEF Deliver, IsDuplicate
  <2> QED
    BY <1>1, <2>2 DEF IInv, MarkInv
<1>2. IInv /\ [Next]_vars => [Kept]_vars
  BY <1>1
<1> QED
  BY Invariance, <1>2, PTL DEF Spec, RetryWindowKept

\* An eviction never keeps an older mark than one it drops (dedup.go evict).
THEOREM OldestExpireFirstCorrect == Spec => OldestExpireFirst
<1> DEFINE Oldest == \A j \in DOMAIN seen \ DOMAIN seen' :
                       \A k \in DOMAIN seen \cap DOMAIN seen' : seen[j] < seen[k]
<1>1. ASSUME IInv, [Next]_vars
      PROVE  Oldest
  <2> SUFFICES ASSUME NEW j \in DOMAIN seen \ DOMAIN seen',
                      NEW k \in DOMAIN seen \cap DOMAIN seen'
               PROVE  seen[j] < seen[k]
    OBVIOUS
  <2>1. Evict
    BY <1>1 DEF Next, Deliver, MarkSeen, Marked, Tick, Stop, TimePasses, vars
  <2>2. seen[j] < cutoff /\ ~(seen[k] < cutoff)
    BY <2>1, EvictFacts
  <2>3. seen[j] \in Int /\ seen[k] \in Int /\ cutoff \in Int
    BY <1>1 DEF IInv, TypeInv
  <2> QED
    BY <2>2, <2>3
<1>2. IInv /\ [Next]_vars => [Oldest]_vars
  BY <1>1
<1> QED
  BY Invariance, <1>2, PTL DEF Spec, OldestExpireFirst

=============================================================================
