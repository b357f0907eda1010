------------------------ MODULE ReplicatedKV_proofs ------------------------
(***************************************************************************)
(* Proofs about ReplicatedKV for every value of its constants.             *)
(*                                                                         *)
(* TypeCorrect holds of all behaviours.  The other theorems are about the  *)
(* behaviours up to the first snapshot and, if the log has retries, up to  *)
(* the first expired idempotency mark (Undisturbed): after these the       *)
(* properties are false, as KV_snapshot_loss and KV_evict_diverge show.    *)
(***************************************************************************)
EXTENDS ReplicatedKV, FiniteSetTheorems, WellFoundedInduction, TLAPS

---------------------------------------------------------------------------
(* Naturals and sequences.                                                 *)

Less == {ss \in Nat \X Nat : ss[1] < ss[2]}

LEMMA LessIsWellFounded == IsWellFoundedOn(Less, Nat)
<1>1. OpToRel(<, Nat) = Less
  BY DEF OpToRel, Less
<1> QED
  BY <1>1, NatLessThanWellFounded

\* A non-empty set of naturals has a least element.
LEMMA NonEmptySetHasMin ==
  ASSUME NEW S, S \subseteq Nat, S # {}
  PROVE  \E m \in S : \A x \in S : m <= x
<1>1. PICK m \in S : \A x \in S : ~(<<x, m>> \in Less)
  BY LessIsWellFounded, WFMin
<1>2. ASSUME NEW x \in S
      PROVE  m <= x
  <2>1. x \in Nat /\ m \in Nat
    OBVIOUS
  <2>2. <<x, m>> \in Less <=> x < m
    BY <2>1 DEF Less
  <2> QED
    BY <1>1, <2>1, <2>2
<1> QED
  BY <1>2

\* A non-empty bounded set of naturals has a greatest element.
LEMMA BoundedSetHasMax ==
  ASSUME NEW S, S \subseteq Nat, S # {},
         NEW b \in Nat, \A x \in S : x <= b
  PROVE  \E m \in S : \A x \in S : x <= m
<1> DEFINE T == {n \in Nat : b - n \in S}
<1>1. ASSUME NEW x \in S
      PROVE  b - x \in T
  <2>1. x \in Nat /\ x <= b
    OBVIOUS
  <2>2. b - x \in Nat /\ b - (b - x) = x
    BY <2>1
  <2> QED
    BY <2>2
<1>2. T # {} /\ T \subseteq Nat
  BY <1>1
<1>3. PICK t \in T : \A u \in T : t <= u
  <2> HIDE DEF T
  <2> QED
    BY <1>2, NonEmptySetHasMin
<1>4. ASSUME NEW x \in S
      PROVE  x <= b - t
  <2>1. t <= b - x
    BY <1>1, <1>3
  <2>2. x \in Nat /\ t \in Nat
    OBVIOUS
  <2> QED
    BY <2>1, <2>2
<1> QED
  BY <1>3, <1>4

LEMMA AppendProperties ==
  ASSUME NEW l \in Seq(Command), NEW c \in Command
  PROVE  /\ Append(l, c) \in Seq(Command)
         /\ Len(Append(l, c)) = Len(l) + 1
         /\ \A i \in 1 .. Len(l) : Append(l, c)[i] = l[i]
  OBVIOUS

---------------------------------------------------------------------------
(* The table.                                                              *)

Bounded(R) == \E b \in Nat : \A r \in R : r.idx <= b

LEMMA LatestIsRow ==
  ASSUME NEW R, R \subseteq Row, Bounded(R),
         NEW k \in Key, RowsOf(R, k) # {}
  PROVE  Latest(RowsOf(R, k)) \in RowsOf(R, k)
<1> DEFINE I == {r.idx : r \in RowsOf(R, k)}
<1>1. PICK b \in Nat : \A r \in R : r.idx <= b
  BY DEF Bounded
<1>2. I \subseteq Nat /\ I # {} /\ \A x \in I : x <= b
  BY <1>1 DEF RowsOf, Row
<1>3. \E m \in I : \A x \in I : x <= m
  <2> HIDE DEF I
  <2> QED
    BY <1>2, BoundedSetHasMax
<1>4. \E r \in RowsOf(R, k) : \A s \in RowsOf(R, k) : s.idx <= r.idx
  BY <1>3
<1> QED
  BY <1>4 DEF Latest

LEMMA ReplayType ==
  ASSUME NEW R, R \subseteq Row, Bounded(R)
  PROVE  Replay(R) \in Map
<1>1. ASSUME NEW k \in Key, RowsOf(R, k) # {}
      PROVE  Latest(RowsOf(R, k)).val \in Value
  <2>1. Latest(RowsOf(R, k)) \in Row
    BY <1>1, LatestIsRow DEF RowsOf
  <2> QED
    BY <2>1 DEF Row
<1> QED
  BY <1>1 DEF Replay, Map

LEMMA InsertType ==
  ASSUME NEW R, R \subseteq Row, Bounded(R),
         NEW E, E \subseteq Row, Bounded(E)
  PROVE  /\ InsertOrIgnore(R, E) \subseteq Row
         /\ Bounded(InsertOrIgnore(R, E))
<1>1. PICK a \in Nat : \A r \in R : r.idx <= a
  BY DEF Bounded
<1>2. PICK b \in Nat : \A r \in E : r.idx <= b
  BY DEF Bounded
<1>3. \A r \in InsertOrIgnore(R, E) : r.idx \in Nat /\ r.idx <= a + b
  BY <1>1, <1>2 DEF InsertOrIgnore, Row
<1> QED
  BY <1>3 DEF Bounded, InsertOrIgnore

LEMMA ReplaceAllType ==
  ASSUME NEW data \in Map, NEW R \in ReplaceAll(data)
  PROVE  R \subseteq Row /\ Bounded(R)
<1> DEFINE present == {k \in Key : data[k] # NoVal}
           c == Cardinality(present)
<1>1. c \in Nat
  BY KeyAssumption, FS_Subset, FS_CardinalityType
<1>2. PICK o \in [present -> 0 .. c - 1] :
        R = {[idx |-> o[k], key |-> k, val |-> data[k]] : k \in present}
  BY DEF ReplaceAll
<1> HIDE DEF c
<1>3. ASSUME NEW r \in R
      PROVE  r \in Row /\ r.idx <= c
  <2>1. PICK k \in present : r = [idx |-> o[k], key |-> k, val |-> data[k]]
    BY <1>2
  <2>2. o[k] \in 0 .. c - 1 /\ data[k] \in Value /\ k \in Key
    BY <1>2 DEF Map
  <2> QED
    BY <1>1, <2>1, <2>2 DEF Row
<1> QED
  BY <1>1, <1>3 DEF Bounded

LEMMA MergeType ==
  ASSUME NEW map \in Map, NEW data \in Map
  PROVE  Merge(map, data) \in Map
  BY DEF Merge, Map

---------------------------------------------------------------------------
(* Types.                                                                  *)

TypeInv ==
    TypeOK /\ \A n \in Node : Bounded(rows[n]) /\ Bounded(synced[n])

LEMMA RowAtType ==
  ASSUME NEW l \in Seq(Command), NEW E, E \subseteq 1 .. Len(l)
  PROVE  /\ {RowAt(l, i) : i \in E} \subseteq Row
         /\ Bounded({RowAt(l, i) : i \in E})
<1>1. ASSUME NEW i \in E
      PROVE  RowAt(l, i) \in Row /\ RowAt(l, i).idx <= Len(l)
  <2>1. l[i] \in Command /\ i \in Nat /\ i <= Len(l)
    OBVIOUS
  <2> QED
    BY <2>1 DEF RowAt, Row, Command
<1> QED
  BY <1>1 DEF Bounded

\* Inserting rows of the log keeps the type of the tables.
LEMMA InsertRowsType ==
  ASSUME TypeInv, NEW n \in Node, NEW E, E \subseteq 1 .. Len(log),
         rows' = [rows EXCEPT ![n] =
                    InsertOrIgnore(@, {RowAt(log, i) : i \in E})]
  PROVE  /\ rows' \in [Node -> SUBSET Row]
         /\ \A m \in Node : Bounded(rows'[m])
<1> DEFINE F == {RowAt(log, i) : i \in E}
<1>1. F \subseteq Row /\ Bounded(F)
  BY RowAtType DEF TypeInv, TypeOK
<1>2. rows[n] \subseteq Row /\ Bounded(rows[n])
  BY DEF TypeInv, TypeOK
<1> HIDE DEF F
<1>3. /\ InsertOrIgnore(rows[n], F) \subseteq Row
      /\ Bounded(InsertOrIgnore(rows[n], F))
  BY <1>1, <1>2, InsertType
<1> QED
  BY <1>3 DEF TypeInv, TypeOK, F

LEMMA SpendType ==
  ASSUME spent \in [Disturbance -> Nat], NEW d \in Disturbance, Spend(d)
  PROVE  spent' \in [Disturbance -> Nat]
  BY DEF Spend

\* FSM.Restore keeps the types, from any map it merges into.
LEMMA RestoreType ==
  ASSUME TypeInv, NEW n \in Node, NEW map \in Map,
         NEW s \in [idx : 0 .. Len(log), data : Map],
         Restore(n, map, s)
  PROVE  /\ applied' \in [Node -> 0 .. Len(log)]
         /\ kv' \in [Node -> Map]
         /\ rows' \in [Node -> SUBSET Row]
         /\ snap' \in [Node -> [idx : 0 .. Len(log), data : Map]]
         /\ \A m \in Node : Bounded(rows'[m])
<1>1. PICK R \in ReplaceAll(s.data) : rows' = [rows EXCEPT ![n] = R]
  BY DEF Restore
<1>2. R \subseteq Row /\ Bounded(R)
  BY ReplaceAllType
<1>3. Merge(map, s.data) \in Map
  BY MergeType
<1> QED
  BY <1>1, <1>2, <1>3 DEF Restore, TypeInv, TypeOK

LEMMA TypeInit == Init => TypeInv
<1> SUFFICES ASSUME Init
             PROVE  TypeInv
  OBVIOUS
<1>1. EmptyMap \in Map
  BY DEF EmptyMap, Map
<1>2. NoSnapshot \in [idx : 0 .. 0, data : Map]
  BY <1>1 DEF NoSnapshot
<1>3. Bounded({})
  BY DEF Bounded
<1> QED
  BY <1>1, <1>2, <1>3 DEF Init, TypeInv, TypeOK

LEMMA TypeStep == TypeInv /\ [Next]_vars => TypeInv'
<1> SUFFICES ASSUME TypeInv, [Next]_vars
             PROVE  TypeInv'
  OBVIOUS
<1> USE DEF TypeInv, TypeOK
<1>1. ASSUME NEW c \in Command, Commit(c)
      PROVE  TypeInv'
  <2>1. log' \in Seq(Command) /\ Len(log') = Len(log) + 1
    BY <1>1, AppendProperties DEF Commit
  <2>2. 0 .. Len(log) \subseteq 0 .. Len(log') /\ 1 .. Len(log) \subseteq 1 .. Len(log')
    BY <2>1
  <2> QED
    BY <1>1, <2>1, <2>2 DEF Commit
<1>2. ASSUME NEW n \in Node, ApplyDuplicate(n)
      PROVE  TypeInv'
  BY <1>2 DEF ApplyDuplicate
<1>3. ASSUME NEW n \in Node, ApplyFresh(n)
      PROVE  TypeInv'
  <2> DEFINE i == applied[n] + 1
  <2>1. i \in 1 .. Len(log) /\ log[i] \in Command
    BY <1>3 DEF ApplyFresh
  <2>2. applied' \in [Node -> 0 .. Len(log)]
    BY <1>3, <2>1 DEF ApplyFresh
  <2>3. kv' \in [Node -> Map]
    <3>1. [kv[n] EXCEPT ![log[i].key] = log[i].val] \in Map
      BY <2>1 DEF Map, Command
    <3>2. kv' = [kv EXCEPT ![n] = [kv[n] EXCEPT ![log[i].key] = log[i].val]]
      BY <1>3 DEF ApplyFresh
    <3> QED
      BY <3>1, <3>2
  <2>4. seen' \in [Node -> SUBSET (1 .. Len(log))]
    BY <1>3, <2>1 DEF ApplyFresh
  <2>5. /\ queue' \in [Node -> SUBSET (1 .. Len(log))]
        /\ rows' \in [Node -> SUBSET Row]
        /\ \A m \in Node : Bounded(rows'[m])
        /\ spent' \in [Disturbance -> Nat]
    <3>1. CASE Enqueue(n, i)
      BY <2>1, <3>1 DEF Enqueue
    <3>2. CASE SyncInsert(n, i)
      <4> DEFINE E == {i}
      <4>1. rows' = [rows EXCEPT ![n] =
                       InsertOrIgnore(@, {RowAt(log, j) : j \in E})]
        BY <3>2 DEF SyncInsert
      <4>2. E \subseteq 1 .. Len(log)
        BY <2>1
      <4> HIDE DEF E
      <4>3. /\ rows' \in [Node -> SUBSET Row]
            /\ \A m \in Node : Bounded(rows'[m])
        BY <4>1, <4>2, InsertRowsType
      <4> QED
        BY <3>2, <4>3 DEF SyncInsert
    <3>3. CASE SyncInsertFails(n)
      BY <3>3, SpendType DEF SyncInsertFails, Disturbance
    <3> QED
      BY <1>3, <3>1, <3>2, <3>3 DEF ApplyFresh, Send
  <2> QED
    BY <1>3, <2>2, <2>3, <2>4, <2>5 DEF ApplyFresh
<1>4. ASSUME NEW n \in Node, Flush(n)
      PROVE  TypeInv'
  <2>1. PICK i \in queue[n] :
          /\ rows' = [rows EXCEPT ![n] =
                        InsertOrIgnore(@, {RowAt(log, j) : j \in Batch(n, i)})]
          /\ queue' = [queue EXCEPT ![n] = @ \ Batch(n, i)]
    BY <1>4 DEF Flush
  <2>2. Batch(n, i) \subseteq 1 .. Len(log)
    BY DEF Batch
  <2>3. /\ rows' \in [Node -> SUBSET Row]
        /\ \A m \in Node : Bounded(rows'[m])
    BY <2>1, <2>2, InsertRowsType
  <2> QED
    BY <1>4, <2>1, <2>3 DEF Flush
<1>5. ASSUME NEW n \in Node, FlushFails(n)
      PROVE  TypeInv'
  BY <1>5, SpendType DEF FlushFails, Disturbance
<1>6. ASSUME NEW n \in Node, Evict(n)
      PROVE  TypeInv'
  BY <1>6, SpendType DEF Evict, Disturbance
<1>7. ASSUME NEW n \in Node, Snapshot(n)
      PROVE  TypeInv'
  <2>1. Replay(rows[n]) \in Map
    BY ReplayType
  <2>2. spent' \in [Disturbance -> Nat]
    BY <1>7, SpendType DEF Snapshot, Disturbance
  <2> QED
    BY <1>7, <2>1, <2>2 DEF Snapshot
<1>8. ASSUME NEW m \in Node, NEW n \in Node, InstallSnapshot(m, n)
      PROVE  TypeInv'
  <2>1. spent' \in [Disturbance -> Nat]
    BY <1>8, SpendType DEF InstallSnapshot, Disturbance
  <2> QED
    BY <1>8, <2>1, RestoreType DEF InstallSnapshot
<1>9. ASSUME NEW n \in Node, Crash(n) \/ PowerLoss(n)
      PROVE  TypeInv'
  <2>1. spent' \in [Disturbance -> Nat]
    BY <1>9, SpendType DEF Crash, PowerLoss, Disturbance
  <2>2. EmptyMap \in Map
    BY DEF EmptyMap, Map
  <2>3. /\ rows' \in [Node -> SUBSET Row]
        /\ \A m \in Node : Bounded(rows'[m])
    BY <1>9 DEF Crash, PowerLoss
  <2>4. Die(n) /\ UNCHANGED <<log, synced, snap>>
    BY <1>9 DEF Crash, PowerLoss
  <2>5. /\ up' \in [Node -> BOOLEAN]
        /\ applied' \in [Node -> 0 .. Len(log)]
        /\ kv' \in [Node -> Map]
        /\ queue' \in [Node -> SUBSET (1 .. Len(log))]
        /\ seen' \in [Node -> SUBSET (1 .. Len(log))]
    BY <2>2, <2>4 DEF Die
  <2> QED
    BY <2>1, <2>3, <2>4, <2>5
<1>10. ASSUME NEW n \in Node, Restart(n)
       PROVE  TypeInv'
  <2>1. Replay(rows[n]) \in Map
    BY ReplayType
  <2>2. CASE snap[n].idx > 0
    BY <1>10, <2>1, <2>2, RestoreType DEF Restart
  <2>3. CASE ~(snap[n].idx > 0)
    BY <1>10, <2>1, <2>3 DEF Restart
  <2> QED
    BY <2>2, <2>3
<1>11. ASSUME NEW m \in Node, NEW n \in Node, InstallFails(m, n)
       PROVE  TypeInv'
  BY <1>11, SpendType DEF InstallFails, Disturbance
<1>12. ASSUME NEW n \in Node, Sync(n)
       PROVE  TypeInv'
  BY <1>12 DEF Sync
<1>13. CASE UNCHANGED vars
  BY <1>13 DEF vars
<1> QED
  BY <1>1, <1>2, <1>3, <1>4, <1>5, <1>6, <1>7, <1>8, <1>9, <1>10, <1>11,
     <1>12, <1>13
  DEF Next, NodeStep, Apply, FlushNothing

\* Every reachable state has its type: in particular a table never holds
\* more than rows with an index, a key and a value, and no applied index,
\* queued index or snapshot is ahead of the committed log (fsm.go Apply,
\* Snapshot and Restore).
THEOREM TypeCorrect == Spec => []TypeOK
<1>1. TypeInv => TypeOK
  BY DEF TypeInv
<1> QED
  BY <1>1, TypeInit, TypeStep, PTL DEF Spec

===========================================================================
