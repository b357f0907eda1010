-------------------------- MODULE Snapshots_proofs --------------------------
(***************************************************************************)
(* Proofs about snapshots: the snapshot of a quiet node is exact, and a    *)
(* node that restores snapshots, whole, half or after a crash, is never    *)
(* behind its applied index while the snapshots can be trusted; and what is*)
(* true of three claims that the code does not keep in general.            *)
(***************************************************************************)
EXTENDS ReplicatedKV_agreement

---------------------------------------------------------------------------
(* The states of the log.                                                  *)

\* A key that has a value keeps having one.
LEMMA StatePersists ==
  ASSUME NEW l \in Seq(Command), NEW a \in Nat, NEW b \in Nat, a <= b,
         b <= Len(l), NEW k \in Key, StateAt(l, a)[k] # NoVal
  PROVE  StateAt(l, b)[k] # NoVal
<1>1. Writes(l, k, a) # {}
  BY DEF StateAt
<1>2. Writes(l, k, b) # {}
  BY <1>1 DEF Writes
<1>3. PICK i \in 1 .. Len(l) : i = Last(Writes(l, k, b))
  <2>1. Last(Writes(l, k, b)) \in Writes(l, k, b)
    BY <1>2, LastIsMember
  <2>2. \A i \in Writes(l, k, b) : i \in 1 .. Len(l)
    BY DEF Writes
  <2> QED
    BY <2>1, <2>2
<1>4. l[Last(Writes(l, k, b))].val \in Value
  <2>1. l[i] \in Command
    OBVIOUS
  <2> QED
    BY <1>3, <2>1 DEF Command
<1> QED
  BY <1>2, <1>4, NoValAssumption DEF StateAt

LEMMA StateAtZero ==
  ASSUME NEW l, NEW k \in Key
  PROVE  StateAt(l, 0)[k] = NoVal
BY DEF StateAt, Writes

\* An effective write decides its key.
LEMMA StateAtOwn ==
  ASSUME NEW l \in Seq(Command), NEW i \in 1 .. Len(l), Effective(l, i)
  PROVE  l[i].key \in Key /\ StateAt(l, i)[l[i].key] = l[i].val
<1> DEFINE a == i - 1
<1>1. a \in Nat /\ a + 1 = i /\ l[i] \in Command
  OBVIOUS
<1>2. l[i].key \in Key
  BY <1>1 DEF Command
<1>3. a + 1 <= Len(l) /\ Effective(l, a + 1)
  BY <1>1
<1> HIDE DEF a
<1>4. StateAt(l, a + 1)[l[i].key] =
        IF l[i].key = l[a + 1].key THEN l[a + 1].val ELSE StateAt(l, a)[l[i].key]
  BY <1>1, <1>2, <1>3, StateAtEffective
<1> QED
  BY <1>1, <1>2, <1>4

---------------------------------------------------------------------------
(* A quiet node.                                                           *)

\* The table of a node that has caught up, with an empty writer and no
\* failed insert, replays to the state of the log.
LEMMA QuietTable ==
  ASSUME IInv, Undisturbed, NEW n \in Node, spent["fail"] = 0,
         CaughtUp(n), queue[n] = {}
  PROVE  Replay(rows[n]) = StateAt(log, applied[n])
<1> DEFINE a == applied[n]
           R == rows[n]
<1>1. /\ RowsInv(n) /\ StoredInv(n) /\ a \in Nat /\ a <= Len(log)
      /\ R \subseteq Row /\ Bounded(R) /\ log \in Seq(Command)
  BY DEF IInv, SafeInv, NodeInv, TypeInv, TypeOK
<1>2. ASSUME NEW r \in R
      PROVE  r.idx \in Fresh(n) /\ r = RowAt(log, r.idx)
  BY <1>1 DEF RowsInv, Fresh, CaughtUp
<1>3. ASSUME NEW i \in Fresh(n)
      PROVE  RowAt(log, i) \in R
  BY <1>1 DEF StoredInv
<1>4. ASSUME NEW k \in Key
      PROVE  Replay(R)[k] = StateAt(log, a)[k]
  <2> DEFINE W == Writes(log, k, a)
  <2>1. \A i \in W : RowAt(log, i) \in RowsOf(R, k) /\ RowAt(log, i).idx = i
    BY <1>3 DEF Writes, Fresh, RowsOf, RowAt
  <2>2. \A r \in RowsOf(R, k) : r.idx \in W /\ r = RowAt(log, r.idx)
    BY <1>2 DEF Writes, Fresh, RowsOf, RowAt
  <2>3. CASE W = {}
    <3>1. RowsOf(R, k) = {}
      BY <2>2, <2>3
    <3> QED
      BY <2>3, <3>1 DEF Replay, StateAt
  <2>4. CASE W # {}
    <3> DEFINE r == Latest(RowsOf(R, k))
               i == Last(W)
    <3>1. RowsOf(R, k) # {}
      BY <2>1, <2>4
    <3>2. i \in W /\ \A j \in W : j <= i
      <4>1. W \subseteq Nat /\ \A x \in W : x <= a
        BY <1>1 DEF Writes
      <4>2. \E x \in W : \A j \in W : j <= x
        <5> HIDE DEF W, a
        <5> QED
          BY <1>1, <2>4, <4>1, BoundedSetHasMax
      <4> HIDE DEF W
      <4> QED
        BY <4>2 DEF Last
    <3>3. \A s \in RowsOf(R, k) : s.idx <= RowAt(log, i).idx
      BY <2>1, <2>2, <3>2
    <3>4. r \in RowsOf(R, k) /\ \A s \in RowsOf(R, k) : s.idx <= r.idx
      BY <2>1, <3>2, <3>3 DEF Latest
    <3>5. W \subseteq Nat
      BY DEF Writes
    <3> HIDE DEF r, i, W
    <3>6. r.idx = i
      BY <2>1, <2>2, <3>2, <3>4, <3>5
    <3>7. r.val = log[i].val
      BY <2>2, <3>4, <3>6 DEF RowAt
    <3> QED
      BY <2>4, <3>1, <3>7 DEF Replay, StateAt, r, i, W
  <2> QED
    BY <2>3, <2>4
<1> QED
  BY <1>4 DEF Replay, StateAt

\* The snapshot of a node that never restored one, has caught up, lost no
\* insert and has an empty writer is exact (fsm.go Snapshot).
THEOREM QuietSnapshotIsExactCorrect == Spec => QuietSnapshotIsExact
<1> DEFINE Quietly(n) ==
             /\ snap'[n].idx > snap[n].idx
             /\ applied'[n] = applied[n]
             /\ Undisturbed
             /\ spent["fail"] = 0
             /\ CaughtUp(n)
             /\ queue[n] = {}
<1>1. ASSUME IInv, Next, NEW n \in Node, Quietly(n)
      PROVE  snap'[n].data = StateAt(log, snap'[n].idx)
  <2>1. /\ \A m \in Node : snap[m].idx = 0
        /\ snap \in [Node -> [idx : 0 .. Len(log), data : Map]]
        /\ applied \in [Node -> 0 .. Len(log)]
    BY <1>1 DEF IInv, SafeInv, NodeInv, TypeInv, TypeOK
  <2>2. snap' # snap
    BY <1>1, <2>1
  <2>3. PICK m \in Node : Snapshot(m) \/ Restart(m)
    <3>1. ASSUME NEW p \in Node, NEW m \in Node,
                 InstallSnapshot(p, m) \/ InstallFails(p, m)
          PROVE  FALSE
      BY <2>1, <3>1 DEF InstallSnapshot, InstallFails
    <3>2. ASSUME NEW m \in Node, NodeStep(m)
          PROVE  Snapshot(m) \/ Restart(m)
      BY <2>2, <3>2
      DEF NodeStep, Apply, ApplyDuplicate, ApplyFresh, Flush, FlushFails,
          FlushNothing, Evict, Sync, Crash, PowerLoss, vars
    <3>3. ASSUME NEW c \in Command, Commit(c)
          PROVE  FALSE
      BY <2>2, <3>3 DEF Commit
    <3> QED
      BY <1>1, <3>1, <3>2, <3>3 DEF Next
  <2>4. Snapshot(m) /\ m = n
    BY <1>1, <2>1, <2>3 DEF Snapshot, Restart
  <2>5. snap'[n] = [idx |-> applied[n], data |-> Replay(rows[n])]
    BY <2>1, <2>4 DEF Snapshot
  <2> QED
    BY <1>1, <2>5, QuietTable
<1>2. IInv /\ [Next]_vars =>
        [\A n \in Node : Quietly(n) => snap'[n].data = StateAt(log, snap'[n].idx)]_vars
  BY <1>1
<1> QED
  BY <1>2, Inductive, PTL DEF Spec, QuietSnapshotIsExact

---------------------------------------------------------------------------
(* Restoring.                                                              *)

\* Until one expires the marks cover what was applied and no snapshot
\* contains.
CoveredInv(n) ==
    /\ seen[n] \subseteq 1 .. applied[n]
    /\ spent["evict"] = 0 =>
         \A j \in 1 .. applied[n] :
           Effective(log, j) => j \in seen[n] \/ \E s \in taken : j <= s.idx

\* No retry waits in the writer.
WriterInv(n) == \A i \in queue[n] : Effective(log, i)

\* A row, real or synthetic, is a value its key had in some state.
TableInv(n) ==
    \A r \in rows[n] \cup synced[n] :
        \E i \in 1 .. Len(log) : StateAt(log, i)[r.key] = r.val

RestoreInv(n) ==
    CoveredInv(n) /\ WriterInv(n) /\ TableInv(n) /\ (up[n] => NotBehind(n))

\* The history holds every snapshot.
TakenInv ==
    /\ taken \subseteq [idx : 0 .. Len(log), data : Map]
    /\ \A n \in Node : snap[n] \in taken

SnapshotInv ==
    /\ IInv /\ TakenInv
    /\ Trustworthy => \A n \in Node : RestoreInv(n)

\* No step forgets a snapshot or an expiry.
HistoryGrows ==
    /\ taken \subseteq taken'
    /\ spent'["evict"] = 0 => spent["evict"] = 0

\* A retry is recognised, by its mark or because there is none.
LEMMA FreshIsEffective ==
  ASSUME IInv, Trustworthy, NEW n \in Node, CoveredInv(n),
         applied[n] + 1 <= Len(log),
         ~IsDuplicate(n, log[applied[n] + 1].idem)
  PROVE  Effective(log, applied[n] + 1)
<1> DEFINE i == applied[n] + 1
<1> SUFFICES ASSUME NEW h \in 1 .. i - 1, log[h].idem = log[i].idem
             PROVE  FALSE
  BY DEF Effective
<1>1. applied[n] \in Nat /\ i \in 1 .. Len(log) /\ log \in Seq(Command)
  BY DEF IInv, TypeInv, TypeOK
<1>2. h \in 1 .. Len(log)
  BY <1>1
<1>3. PICK j \in 1 .. h : Effective(log, j) /\ log[j].idem = log[h].idem
  BY <1>1, <1>2, FirstOccurrence
<1>4. j \in 1 .. applied[n] /\ j # i
  BY <1>1, <1>2
<1>5. CASE NoRetries
  BY <1>1, <1>5 DEF NoRetries, Effective
<1>6. CASE j \in seen[n]
  BY <1>3, <1>6 DEF IsDuplicate
<1>7. ASSUME NEW s \in taken, j <= s.idx
      PROVE  FALSE
  <2>1. j \in 1 .. s.idx
    BY <1>4, <1>7, <1>1
  <2> QED
    BY <1>1, <1>3, <1>4, <2>1 DEF Trustworthy, NoRetryOf
<1> QED
  BY <1>3, <1>4, <1>5, <1>6, <1>7 DEF CoveredInv, Trustworthy

LEMMA DuplicateIsNotEffective ==
  ASSUME IInv, NEW n \in Node, seen[n] \subseteq 1 .. applied[n],
         applied[n] + 1 <= Len(log),
         IsDuplicate(n, log[applied[n] + 1].idem)
  PROVE  ~Effective(log, applied[n] + 1)
<1>1. applied[n] \in Nat
  BY DEF IInv, TypeInv, TypeOK
<1> QED
  BY <1>1 DEF IsDuplicate, Effective

\* What an exact snapshot is merged into ends up not behind it, if its
\* values come from states of the log.
LEMMA MergeIsSound ==
  ASSUME log \in Seq(Command), NEW map \in Map,
         NEW s \in [idx : 0 .. Len(log), data : Map], Exact(s),
         NEW k \in Key,
         \E i \in 0 .. Len(log) : map[k] = StateAt(log, i)[k]
  PROVE  \E i \in s.idx .. Len(log) : Merge(map, s.data)[k] = StateAt(log, i)[k]
<1>1. PICK i \in 0 .. Len(log) : map[k] = StateAt(log, i)[k]
  OBVIOUS
<1>2. /\ s.idx \in Nat /\ s.idx <= Len(log) /\ s.idx \in s.idx .. Len(log)
      /\ s.data[k] = StateAt(log, s.idx)[k]
  BY DEF Exact
<1>3. CASE s.data[k] # NoVal
  BY <1>2, <1>3 DEF Merge
<1>4. CASE s.data[k] = NoVal
  <2>1. Merge(map, s.data)[k] = map[k]
    BY <1>4 DEF Merge
  <2>2. CASE map[k] = NoVal
    BY <1>2, <1>4, <2>1, <2>2
  <2>3. CASE map[k] # NoVal
    <3>1. i \in Nat /\ ~(i <= s.idx)
      <4> DEFINE b == s.idx
      <4>1. b \in Nat /\ b <= Len(log) /\ StateAt(log, b)[k] = NoVal
        BY <1>2, <1>4
      <4>2. i \in Nat /\ StateAt(log, i)[k] # NoVal
        BY <1>1, <2>3
      <4> HIDE DEF b
      <4>3. ~(i <= b)
        BY <4>1, <4>2, StatePersists
      <4> QED
        BY <4>2, <4>3 DEF b
    <3>2. i \in s.idx .. Len(log)
      BY <1>2, <3>1
    <3> QED
      BY <1>1, <2>1, <3>2
  <2> QED
    BY <2>2, <2>3
<1> QED
  BY <1>3, <1>4

LEMMA ReplayFromLog ==
  ASSUME IInv, NEW n \in Node, TableInv(n), NEW k \in Key
  PROVE  \E i \in 0 .. Len(log) : Replay(rows[n])[k] = StateAt(log, i)[k]
<1> DEFINE R == rows[n]
<1>1. R \subseteq Row /\ Bounded(R) /\ log \in Seq(Command)
  BY DEF IInv, TypeInv, TypeOK
<1>2. CASE RowsOf(R, k) = {}
  <2>1. Replay(R)[k] = StateAt(log, 0)[k] /\ 0 \in 0 .. Len(log)
    BY <1>1, <1>2, StateAtZero DEF Replay
  <2> QED
    BY <2>1
<1>3. CASE RowsOf(R, k) # {}
  <2>1. PICK r \in RowsOf(R, k) : r = Latest(RowsOf(R, k))
    BY <1>1, <1>3, LatestIsRow
  <2>2. PICK i \in 1 .. Len(log) : StateAt(log, i)[r.key] = r.val
    BY DEF TableInv, RowsOf
  <2>3. Replay(R)[k] = r.val /\ r.key = k
    BY <1>3, <2>1 DEF Replay, RowsOf
  <2> QED
    BY <2>2, <2>3
<1> QED
  BY <1>2, <1>3

\* The rows that ReplaceAll writes hold the values of the snapshot.
LEMMA ReplaceAllRows ==
  ASSUME NEW data \in Map, NEW R \in ReplaceAll(data), NEW r \in R
  PROVE  r.key \in Key /\ r.val = data[r.key] /\ r.val # NoVal
<1> DEFINE present == {k \in Key : data[k] # NoVal}
           slots == 0 .. Cardinality(present) - 1
<1>1. PICK o \in [present -> slots] :
        R = {[idx |-> o[k], key |-> k, val |-> data[k]] : k \in present}
  BY DEF ReplaceAll
<1>2. PICK k \in present : r = [idx |-> o[k], key |-> k, val |-> data[k]]
  BY <1>1
<1> QED
  BY <1>2

\* FSM.Restore of a trusted snapshot, from any map with values of the log.
\* A step that applies nothing on a node and leaves its marks.
LEMMA CoveredFrame ==
  ASSUME NEW n \in Node, CoveredInv(n), HistoryGrows, log' = log,
         applied'[n] = applied[n], seen'[n] = seen[n]
  PROVE  CoveredInv(n)'
<1>1. ASSUME spent'["evict"] = 0, NEW j \in 1 .. applied[n], Effective(log, j)
      PROVE  j \in seen[n] \/ \E s \in taken' : j <= s.idx
  BY <1>1 DEF CoveredInv, HistoryGrows
<1> QED
  BY <1>1 DEF CoveredInv

LEMMA RestoreKeepsInv ==
  ASSUME IInv, NEW n \in Node, NEW map \in Map,
         NEW s \in [idx : 0 .. Len(log), data : Map], Exact(s), s.idx > 0,
         s \in taken', applied[n] <= s.idx, HistoryGrows,
         UNCHANGED <<log, synced, queue, seen>>, Restore(n, map, s),
         \A k \in Key : \E i \in 0 .. Len(log) : map[k] = StateAt(log, i)[k],
         RestoreInv(n)
  PROVE  RestoreInv(n)'
<1> USE DEF RestoreInv
<1>1. /\ log \in Seq(Command) /\ applied'[n] = s.idx
      /\ kv'[n] = Merge(map, s.data)
      /\ \E R \in ReplaceAll(s.data) : rows'[n] = R
      /\ applied[n] \in Nat /\ s.idx \in 1 .. Len(log)
  BY DEF Restore, IInv, TypeInv, TypeOK
<1>2. CoveredInv(n)'
  BY <1>1 DEF CoveredInv, HistoryGrows
<1>3. WriterInv(n)'
  BY DEF WriterInv
<1>4. TableInv(n)'
  <2>1. PICK R \in ReplaceAll(s.data) : rows'[n] = R
    BY <1>1
  <2>2. ASSUME NEW r \in R
        PROVE  \E i \in 1 .. Len(log) : StateAt(log, i)[r.key] = r.val
    BY <1>1, ReplaceAllRows DEF Exact
  <2> QED
    BY <2>1, <2>2 DEF TableInv
<1>5. NotBehind(n)'
  BY <1>1, MergeIsSound DEF NotBehind
<1> QED
  BY <1>2, <1>3, <1>4, <1>5

LEMMA CommitKeepsInv ==
  ASSUME IInv, NEW m \in Node, RestoreInv(m), NEW c \in Command, Commit(c),
         HistoryGrows
  PROVE  RestoreInv(m)'
<1> USE DEF RestoreInv
<1>1. /\ log' = Append(log, c) /\ log \in Seq(Command)
      /\ Len(log') = Len(log) + 1 /\ Len(log) \in Nat
      /\ UNCHANGED <<up, applied, kv, rows, synced, queue, seen, snap>>
  BY AppendProperties DEF Commit, IInv, TypeInv, TypeOK
<1>2. /\ \A i \in 1 .. Len(log) : Effective(log', i) <=> Effective(log, i)
      /\ \A i \in 0 .. Len(log) : StateAt(log', i) = StateAt(log, i)
  BY <1>1, EffectiveAppend, StateAtAppend
<1>3. /\ applied[m] \in 0 .. Len(log)
      /\ seen[m] \subseteq 1 .. Len(log) /\ queue[m] \subseteq 1 .. Len(log)
  BY DEF IInv, TypeInv, TypeOK
<1>4. CoveredInv(m)'
  <2>1. \A j \in 1 .. applied[m] : j \in 1 .. Len(log)
    BY <1>1, <1>3
  <2> QED
    BY <1>1, <1>2, <2>1 DEF CoveredInv, HistoryGrows
<1>5. WriterInv(m)'
  BY <1>1, <1>2, <1>3 DEF WriterInv
<1>6. TableInv(m)'
  BY <1>1, <1>2 DEF TableInv
<1>7. up[m] => NotBehind(m)'
  BY <1>1, <1>2, <1>3 DEF NotBehind
<1> QED
  BY <1>1, <1>4, <1>5, <1>6, <1>7

LEMMA ApplyDuplicateKeepsInv ==
  ASSUME IInv, NEW n \in Node, RestoreInv(n), ApplyDuplicate(n),
         HistoryGrows
  PROVE  RestoreInv(n)'
<1> USE DEF RestoreInv
<1> DEFINE a == applied[n]
<1>1. /\ a \in Nat /\ a + 1 <= Len(log) /\ applied'[n] = a + 1
      /\ log \in Seq(Command) /\ up[n]
      /\ UNCHANGED <<log, up, kv, rows, synced, queue, seen>>
  BY DEF ApplyDuplicate, IInv, TypeInv, TypeOK
<1>2. ~Effective(log, a + 1)
  BY <1>1, DuplicateIsNotEffective DEF ApplyDuplicate, CoveredInv
<1>3. StateAt(log, a + 1) = StateAt(log, a)
  BY <1>1, <1>2, StateAtRetry
<1> HIDE DEF a
<1>4. CoveredInv(n)'
  <2>1. \A j \in 1 .. a + 1 : j \in 1 .. a \/ j = a + 1
    BY <1>1
  <2> QED
    BY <1>1, <1>2, <2>1 DEF CoveredInv, HistoryGrows, a
<1>5. NotBehind(n)'
  <2> SUFFICES ASSUME NEW k \in Key
               PROVE  \E i \in a + 1 .. Len(log) : kv[n][k] = StateAt(log, i)[k]
    BY <1>1 DEF NotBehind
  <2>1. PICK i \in a .. Len(log) : kv[n][k] = StateAt(log, i)[k]
    BY <1>1 DEF NotBehind, a
  <2>2. CASE i = a
    BY <1>1, <1>3, <2>1, <2>2
  <2>3. CASE i # a
    BY <1>1, <2>1, <2>3
  <2> QED
    BY <2>2, <2>3
<1> QED
  BY <1>1, <1>4, <1>5 DEF WriterInv, TableInv

LEMMA ApplyFreshKeepsInv ==
  ASSUME IInv, Trustworthy, NEW n \in Node, RestoreInv(n), ApplyFresh(n),
         HistoryGrows
  PROVE  RestoreInv(n)'
<1> USE DEF RestoreInv
<1> DEFINE a == applied[n]
           i == a + 1
<1>1. /\ a \in Nat /\ i <= Len(log) /\ applied'[n] = i /\ i \in 1 .. Len(log)
      /\ log \in Seq(Command) /\ up[n]
      /\ kv'[n] = [kv[n] EXCEPT ![log[i].key] = log[i].val]
      /\ seen'[n] = seen[n] \cup {i}
      /\ UNCHANGED <<log, up, synced>>
      /\ rows'[n] \subseteq rows[n] \cup {RowAt(log, i)}
      /\ queue'[n] \subseteq queue[n] \cup {i}
  BY DEF ApplyFresh, Send, Enqueue, SyncInsert, SyncInsertFails,
         InsertOrIgnore, IInv, TypeInv, TypeOK
<1>2. Effective(log, i)
  BY <1>1, FreshIsEffective DEF ApplyFresh
<1>3. log[i].key \in Key /\ StateAt(log, i)[log[i].key] = log[i].val
  BY <1>1, <1>2, StateAtOwn
<1>4. CoveredInv(n)'
  <2>1. \A j \in 1 .. i : j \in 1 .. a \/ j = i
    BY <1>1
  <2>2. 1 .. a \subseteq 1 .. i
    BY <1>1
  <2> QED
    BY <1>1, <2>1, <2>2 DEF CoveredInv, HistoryGrows
<1>5. WriterInv(n)'
  BY <1>1, <1>2 DEF WriterInv
<1>6. TableInv(n)'
  <2>1. RowAt(log, i).key = log[i].key /\ RowAt(log, i).val = log[i].val
    BY DEF RowAt
  <2> QED
    BY <1>1, <1>3, <2>1 DEF TableInv
<1>7. NotBehind(n)'
  <2> SUFFICES ASSUME NEW k \in Key
               PROVE  \E j \in i .. Len(log) : kv'[n][k] = StateAt(log, j)[k]
    BY <1>1 DEF NotBehind
  <2>1. kv[n] \in Map
    BY DEF IInv, TypeInv, TypeOK
  <2>2. CASE k = log[i].key
    <3>1. kv'[n][k] = StateAt(log, i)[k]
      BY <1>1, <1>3, <2>1, <2>2 DEF Map
    <3> QED
      BY <1>1, <3>1
  <2>3. CASE k # log[i].key
    <3>1. kv'[n][k] = kv[n][k]
      BY <1>1, <2>1, <2>3 DEF Map
    <3>2. StateAt(log, i)[k] = StateAt(log, a)[k]
      BY <1>1, <1>2, <2>3, StateAtEffective
    <3>3. PICK j \in a .. Len(log) : kv[n][k] = StateAt(log, j)[k]
      BY <1>1 DEF NotBehind
    <3>4. CASE j = a
      BY <1>1, <3>1, <3>2, <3>3, <3>4
    <3>5. CASE j # a
      <4>1. j \in i .. Len(log)
        BY <1>1, <3>5
      <4> QED
        BY <3>1, <3>3, <4>1
    <3> QED
      BY <3>4, <3>5
  <2> QED
    BY <2>2, <2>3
<1> QED
  BY <1>4, <1>5, <1>6, <1>7

LEMMA FlushKeepsInv ==
  ASSUME IInv, NEW n \in Node, RestoreInv(n),
         Flush(n) \/ FlushFails(n) \/ Sync(n), HistoryGrows
  PROVE  RestoreInv(n)'
<1> USE DEF RestoreInv
<1>1. /\ queue'[n] \subseteq queue[n]
      /\ rows'[n] \cup synced'[n] \subseteq
           rows[n] \cup synced[n] \cup {RowAt(log, j) : j \in queue[n]}
      /\ UNCHANGED <<log, up, applied, kv, seen>>
  BY DEF Flush, FlushFails, Sync, Batch, InsertOrIgnore, IInv, TypeInv, TypeOK
<1>2. TableInv(n)'
  <2>1. ASSUME NEW j \in queue[n]
        PROVE  /\ j \in 1 .. Len(log)
               /\ StateAt(log, j)[RowAt(log, j).key] = RowAt(log, j).val
    <3>1. j \in 1 .. Len(log) /\ log \in Seq(Command) /\ Effective(log, j)
      BY DEF WriterInv, IInv, TypeInv, TypeOK
    <3> QED
      BY <3>1, StateAtOwn DEF RowAt
  <2> QED
    BY <1>1, <2>1 DEF TableInv
<1> QED
  BY <1>1, <1>2 DEF CoveredInv, HistoryGrows, WriterInv, NotBehind

LEMMA EvictKeepsInv ==
  ASSUME IInv, NEW n \in Node, RestoreInv(n), Evict(n), spent'["evict"] # 0
  PROVE  RestoreInv(n)'
<1>1. /\ seen'[n] \subseteq seen[n]
      /\ UNCHANGED <<log, up, applied, kv, rows, synced, queue>>
  BY DEF Evict, IInv, TypeInv, TypeOK
<1> QED
  BY <1>1 DEF RestoreInv, CoveredInv, WriterInv, TableInv, NotBehind

LEMMA DiesKeepsInv ==
  ASSUME IInv, NEW n \in Node, RestoreInv(n), Crash(n) \/ PowerLoss(n)
  PROVE  RestoreInv(n)'
<1>1. /\ ~up'[n] /\ applied'[n] = 0 /\ queue'[n] = {} /\ seen'[n] = {}
      /\ rows'[n] = rows[n] \/ rows'[n] = synced[n]
      /\ UNCHANGED <<log, synced>>
  BY DEF Crash, PowerLoss, Die, IInv, TypeInv, TypeOK
<1> QED
  BY <1>1 DEF RestoreInv, CoveredInv, WriterInv, TableInv

LEMMA RestartKeepsInv ==
  ASSUME IInv, TakenInv, Trustworthy, NEW n \in Node, RestoreInv(n),
         Restart(n), HistoryGrows
  PROVE  RestoreInv(n)'
<1>1. /\ applied[n] = 0 /\ Replay(rows[n]) \in Map
      /\ snap[n] \in [idx : 0 .. Len(log), data : Map] /\ snap[n] \in taken
      /\ Exact(snap[n])
  BY ReplayType DEF Restart, IInv, DownInv, TypeInv, TypeOK, TakenInv, Trustworthy
<1>2. \A k \in Key : \E i \in 0 .. Len(log) : Replay(rows[n])[k] = StateAt(log, i)[k]
  BY ReplayFromLog DEF RestoreInv
<1>3. CASE snap[n].idx > 0
  <2>1. Restore(n, Replay(rows[n]), snap[n])
    BY <1>3 DEF Restart
  <2>2. UNCHANGED <<log, synced, queue, seen>> /\ applied[n] <= snap[n].idx
    BY <1>1, <1>3 DEF Restart
  <2> QED
    BY <1>1, <1>2, <1>3, <2>1, <2>2, RestoreKeepsInv DEF HistoryGrows
<1>4. CASE ~(snap[n].idx > 0)
  <2>1. /\ kv'[n] = Replay(rows[n])
        /\ UNCHANGED <<log, applied, rows, synced, queue, seen>>
    BY <1>4 DEF Restart, IInv, TypeInv, TypeOK
  <2>2. CoveredInv(n)'
    BY <2>1, CoveredFrame DEF RestoreInv
  <2> QED
    BY <1>1, <1>2, <2>1, <2>2 DEF RestoreInv, WriterInv, TableInv, NotBehind
<1> QED
  BY <1>3, <1>4

LEMMA InstallKeepsInv ==
  ASSUME IInv, TakenInv, Trustworthy, NEW m \in Node, NEW n \in Node,
         RestoreInv(n), InstallSnapshot(m, n), HistoryGrows
  PROVE  RestoreInv(n)'
<1>1. /\ snap[m] \in [idx : 0 .. Len(log), data : Map] /\ snap[m] \in taken
      /\ Exact(snap[m]) /\ kv[n] \in Map
      /\ applied[n] \in Nat /\ snap[m].idx \in Nat
  BY DEF IInv, TypeInv, TypeOK, TakenInv, Trustworthy
<1>2. /\ up[n] /\ snap[m].idx > applied[n] /\ Restore(n, kv[n], snap[m])
      /\ UNCHANGED <<log, synced, queue, seen>>
  BY DEF InstallSnapshot
<1>3. \A k \in Key : \E i \in 0 .. Len(log) : kv[n][k] = StateAt(log, i)[k]
  <2>1. applied[n] .. Len(log) \subseteq 0 .. Len(log)
    BY <1>1
  <2> QED
    BY <1>2, <2>1 DEF RestoreInv, NotBehind
<1>4. snap[m].idx > 0 /\ applied[n] <= snap[m].idx
  BY <1>1, <1>2
<1> QED
  BY <1>1, <1>2, <1>3, <1>4, RestoreKeepsInv DEF HistoryGrows

\* A step that does not touch a node keeps its invariant.
LEMMA RestoreFrame ==
  ASSUME NEW m \in Node, RestoreInv(m), log' = log, HistoryGrows,
         up'[m] = up[m], applied'[m] = applied[m], kv'[m] = kv[m],
         rows'[m] = rows[m], synced'[m] = synced[m],
         queue'[m] = queue[m], seen'[m] = seen[m]
  PROVE  RestoreInv(m)'
<1>1. CoveredInv(m)'
  BY CoveredFrame DEF RestoreInv
<1> QED
  BY <1>1 DEF RestoreInv, WriterInv, TableInv, NotBehind

---------------------------------------------------------------------------
(* The invariant is inductive.                                             *)

LEMMA TakenStep ==
  ASSUME IInv, IInv', TakenInv, [Next]_vars
  PROVE  TakenInv' /\ taken \subseteq taken' /\ (log' = log \/ Commits)
<1>1. /\ taken' \subseteq taken \cup {snap'[n] : n \in Node}
      /\ taken \subseteq taken'
      /\ \A n \in Node : snap'[n] \in taken'
  <2>1. \/ UNCHANGED <<snap, taken>>
        \/ \E n \in Node : Snapshot(n)
        \/ \E m, n \in Node : snap' = [snap EXCEPT ![n] = snap[m]] /\ taken' = taken
    BY DEF Next, NodeStep, Commit, Apply, ApplyDuplicate, ApplyFresh, Flush,
       FlushFails, FlushNothing, Evict, InstallSnapshot, InstallFails, Restore,
       Sync, Crash, PowerLoss, Restart, vars
  <2>2. snap \in [Node -> [idx : 0 .. Len(log), data : Map]]
    BY DEF IInv, TypeInv, TypeOK
  <2>3. CASE \E n \in Node : Snapshot(n)
    BY <2>2, <2>3 DEF Snapshot, TakenInv
  <2>4. CASE ~\E n \in Node : Snapshot(n)
    BY <2>1, <2>2, <2>4 DEF TakenInv
  <2> QED
    BY <2>3, <2>4
<1>2. log' = log \/ Commits
  BY DEF Next, NodeStep, Apply, ApplyDuplicate, ApplyFresh, Flush,
     FlushFails, FlushNothing, Evict, Snapshot, InstallSnapshot, InstallFails,
     Sync, Crash, PowerLoss, Restart, vars, Commits
<1>3. 0 .. Len(log) \subseteq 0 .. Len(log')
  <2>1. CASE Commits
    <3>1. PICK c \in Command : log' = Append(log, c) /\ log \in Seq(Command)
      BY <2>1 DEF Commits, Commit, IInv, TypeInv, TypeOK
    <3>2. Len(log') = Len(log) + 1 /\ Len(log) \in Nat
      BY <3>1, AppendProperties
    <3> QED
      BY <3>2
  <2> QED
    BY <1>2, <2>1
<1>4. taken' \subseteq [idx : 0 .. Len(log'), data : Map]
  <2>1. \A n \in Node : snap'[n] \in [idx : 0 .. Len(log'), data : Map]
    BY DEF IInv, TypeInv, TypeOK
  <2>2. \A s \in taken : s \in [idx : 0 .. Len(log'), data : Map]
    BY <1>3 DEF TakenInv
  <2> QED
    BY <1>1, <2>1, <2>2
<1> QED
  BY <1>1, <1>2, <1>4 DEF TakenInv

LEMMA EvictIsCounted ==
  TypeInv /\ [Next]_vars /\ spent'["evict"] = 0 =>
      spent["evict"] = 0 /\ \A n \in Node : ~Evict(n)
<1> SUFFICES ASSUME TypeInv, [Next]_vars, spent'["evict"] = 0
             PROVE  spent["evict"] = 0 /\ \A n \in Node : ~Evict(n)
  OBVIOUS
<1>1. spent' = spent \/ \E d \in Disturbance : Spend(d)
  BY DEF Next, NodeStep, Commit, Apply, ApplyDuplicate, ApplyFresh, Send,
         Enqueue, SyncInsert, SyncInsertFails, Flush, FlushFails, Evict,
         Snapshot, InstallSnapshot, InstallFails, Sync, Crash, PowerLoss,
         Restart, FlushNothing, vars, Disturbance
<1>2. "evict" \in Disturbance
  BY DEF Disturbance
<1> QED
  BY <1>1, <1>2, SpendOnce DEF Evict

\* What can be trusted could be trusted before.
LEMMA TrustStep ==
  ASSUME IInv, IInv', TakenInv, [Next]_vars, Trustworthy'
  PROVE  Trustworthy /\ HistoryGrows
<1>1. taken \subseteq taken' /\ (log' = log \/ Commits)
  BY TakenStep
<1>2. /\ spent'["evict"] = 0 => spent["evict"] = 0
      /\ NoRetries' => NoRetries
  <2>1. TypeInv
    BY DEF IInv
  <2> QED
    BY <2>1, EvictIsCounted, NoRetriesStep
<1>3. ASSUME NEW s \in taken
      PROVE  Exact(s) /\ NoRetryOf(s)
  <2>1. /\ s.idx \in 0 .. Len(log) /\ log \in Seq(Command)
        /\ s.data = StateAt(log', s.idx)
        /\ \A j \in 1 .. s.idx, i \in 1 .. Len(log') :
             log'[i].idem = log'[j].idem => i = j
    BY <1>1 DEF TakenInv, IInv, TypeInv, TypeOK, Trustworthy, Exact, NoRetryOf
  <2>2. CASE Commits
    <3>1. PICK c \in Command : log' = Append(log, c)
      BY <2>2 DEF Commits, Commit
    <3>2. StateAt(log', s.idx) = StateAt(log, s.idx)
      BY <2>1, <3>1, StateAtAppend
    <3>3. /\ Len(log) \in Nat /\ Len(log') = Len(log) + 1
          /\ \A i \in 1 .. Len(log) : log'[i] = log[i] /\ i \in 1 .. Len(log')
          /\ \A j \in 1 .. s.idx : j \in 1 .. Len(log)
      BY <2>1, <3>1, AppendProperties
    <3> QED
      BY <2>1, <3>2, <3>3 DEF Exact, NoRetryOf
  <2> QED
    BY <1>1, <2>1, <2>2 DEF Exact, NoRetryOf
<1> QED
  BY <1>1, <1>2, <1>3 DEF Trustworthy, HistoryGrows

LEMMA RestoreStep ==
  ASSUME SnapshotInv, IInv', [Next]_vars, Trustworthy',
         NEW m \in Node
  PROVE  RestoreInv(m)'
<1> USE DEF SnapshotInv
<1>1. Trustworthy /\ HistoryGrows /\ \A n \in Node : RestoreInv(n)
  BY TrustStep
<1> DEFINE Untouched ==
             /\ log' = log
             /\ up'[m] = up[m] /\ applied'[m] = applied[m] /\ kv'[m] = kv[m]
             /\ rows'[m] = rows[m] /\ synced'[m] = synced[m]
             /\ queue'[m] = queue[m] /\ seen'[m] = seen[m]
<1>2. Untouched => RestoreInv(m)'
  BY <1>1, RestoreFrame
<1>3. ASSUME NEW c \in Command, Commit(c)
      PROVE  RestoreInv(m)'
  BY <1>1, <1>3, CommitKeepsInv
<1>4. ASSUME NEW n \in Node, Apply(n)
      PROVE  RestoreInv(m)'
  <2>1. n # m => Untouched
    BY <1>4 DEF Apply, ApplyDuplicate, ApplyFresh, Send, Enqueue, SyncInsert,
                SyncInsertFails, IInv, TypeInv, TypeOK
  <2> QED
    BY <1>1, <1>2, <1>4, <2>1, ApplyDuplicateKeepsInv, ApplyFreshKeepsInv DEF Apply
<1>5. ASSUME NEW n \in Node, Flush(n) \/ FlushFails(n) \/ Sync(n)
      PROVE  RestoreInv(m)'
  <2>1. n # m => Untouched
    BY <1>5 DEF Flush, FlushFails, Sync, IInv, TypeInv, TypeOK
  <2> QED
    BY <1>1, <1>2, <1>5, <2>1, FlushKeepsInv
<1>6. ASSUME NEW n \in Node, Crash(n) \/ PowerLoss(n)
      PROVE  RestoreInv(m)'
  <2>1. n # m => Untouched
    BY <1>6 DEF Crash, PowerLoss, Die, IInv, TypeInv, TypeOK
  <2> QED
    BY <1>1, <1>2, <1>6, <2>1, DiesKeepsInv
<1>7. ASSUME NEW n \in Node, Restart(n)
      PROVE  RestoreInv(m)'
  <2>1. n # m => Untouched
    <3>1. /\ kv' = [kv EXCEPT ![n] = kv'[n]]
          /\ applied' = applied \/ applied' = [applied EXCEPT ![n] = snap[n].idx]
          /\ rows' = rows \/ \E R : rows' = [rows EXCEPT ![n] = R]
      <4>1. CASE snap[n].idx > 0
        BY <1>7, <4>1 DEF Restart, Restore, IInv, TypeInv, TypeOK
      <4>2. CASE ~(snap[n].idx > 0)
        BY <1>7, <4>2 DEF Restart, IInv, TypeInv, TypeOK
      <4> QED
        BY <4>1, <4>2
    <3>2. /\ up' = [up EXCEPT ![n] = TRUE]
          /\ UNCHANGED <<log, synced, queue, seen>>
      BY <1>7 DEF Restart
    <3> QED
      BY <3>1, <3>2 DEF IInv, TypeInv, TypeOK
  <2> QED
    BY <1>1, <1>2, <1>7, <2>1, RestartKeepsInv
<1>8. ASSUME NEW p \in Node, NEW n \in Node, InstallSnapshot(p, n)
      PROVE  RestoreInv(m)'
  <2>1. n # m => Untouched
    BY <1>8 DEF InstallSnapshot, Restore, IInv, TypeInv, TypeOK
  <2> QED
    BY <1>1, <1>2, <1>8, <2>1, InstallKeepsInv
<1>9. ASSUME NEW p \in Node, NEW n \in Node, InstallFails(p, n) \/ Snapshot(n)
       PROVE  RestoreInv(m)'
  <2>1. Untouched
    BY <1>9 DEF InstallFails, Snapshot
  <2> QED
    BY <1>2, <2>1
<1>10. ASSUME NEW n \in Node, Evict(n)
       PROVE  RestoreInv(m)'
  <2>1. n # m => Untouched
    BY <1>10 DEF Evict, IInv, TypeInv, TypeOK
  <2>2. spent'["evict"] # 0
    BY <1>10, EvictIsCounted DEF IInv
  <2> QED
    BY <1>1, <1>2, <1>10, <2>1, <2>2, EvictKeepsInv
<1>11. CASE UNCHANGED vars
  <2>1. Untouched
    BY <1>11 DEF vars
  <2> QED
    BY <1>2, <2>1
<1> QED
  BY <1>1, <1>3, <1>4, <1>5, <1>6, <1>7, <1>8, <1>9, <1>10,
     <1>11
  DEF Next, NodeStep, FlushNothing

LEMMA SnapshotInvInit == Init /\ IInv => SnapshotInv
<1> SUFFICES ASSUME Init, IInv  PROVE SnapshotInv
  OBVIOUS
<1>1. TakenInv
  BY DEF Init, TakenInv, IInv, TypeInv, TypeOK, NoSnapshot, EmptyMap, Map
<1>2. ASSUME NEW n \in Node
      PROVE  RestoreInv(n)
  <2>1. NotBehind(n)
    <3>1. \A k \in Key : kv[n][k] = StateAt(log, 0)[k]
      BY StateAtZero DEF Init, EmptyMap
    <3>2. applied[n] = 0 /\ 0 \in 0 .. Len(log)
      BY DEF Init
    <3> QED
      BY <3>1, <3>2 DEF NotBehind
  <2> QED
    BY <2>1 DEF Init, RestoreInv, CoveredInv, WriterInv, TableInv
<1> QED
  BY <1>1, <1>2 DEF SnapshotInv

LEMMA SnapshotInvariance == Spec => []SnapshotInv
<1>1. Init /\ IInv => SnapshotInv
  BY SnapshotInvInit
<1>2. SnapshotInv /\ IInv' /\ [Next]_vars => SnapshotInv'
  <2> SUFFICES ASSUME SnapshotInv, IInv', [Next]_vars
               PROVE  SnapshotInv'
    OBVIOUS
  <2>1. TakenInv'
    BY TakenStep DEF SnapshotInv
  <2> QED
    BY <2>1, RestoreStep DEF SnapshotInv
<1> QED
  BY <1>1, <1>2, Inductive, PTL DEF Spec

\* However many snapshots are taken, installed on nodes that lag, installed
\* by half or restored after a crash, none of them leaves a key behind its
\* node's applied index, as long as all so far were exact, none of their
\* writes is sent again and no mark of a log with retries has expired
\* (fsm.go Restore, sqlite.go ReplaceAll, main.go).
THEOREM RestoreIsSoundCorrect == Spec => []RestoreIsSound
<1>1. SnapshotInv => RestoreIsSound
  BY DEF SnapshotInv, RestoreInv, RestoreIsSound
<1> QED
  BY <1>1, SnapshotInvariance, PTL

---------------------------------------------------------------------------
(* What is true of the claims that the code does not keep.                 *)

\* Every node that runs and has applied the whole log holds the state that
\* the log defines, whatever it restored on the way: where Converges ends,
\* and why replicas that have stopped lagging agree (fsm.go 9-10).
THEOREM AppliedAllIsState ==
  Spec => [](Trustworthy =>
               \A n \in Node : up[n] /\ applied[n] = Len(log) =>
                                kv[n] = StateAt(log, Len(log)))
<1>1. IInv /\ RestoreIsSound =>
        (Trustworthy =>
           \A n \in Node : up[n] /\ applied[n] = Len(log) =>
                            kv[n] = StateAt(log, Len(log)))
  <2> SUFFICES ASSUME IInv, RestoreIsSound, Trustworthy, NEW n \in Node,
                      up[n], applied[n] = Len(log)
               PROVE  kv[n] = StateAt(log, Len(log))
    OBVIOUS
  <2>1. kv[n] \in Map /\ Len(log) \in Nat
    BY DEF IInv, TypeInv, TypeOK
  <2>2. \A i \in Len(log) .. Len(log) : i = Len(log)
    BY <2>1
  <2>3. \A k \in Key : kv[n][k] = StateAt(log, Len(log))[k]
    BY <2>2 DEF RestoreIsSound, NotBehind
  <2> QED
    BY <2>1, <2>3 DEF Map, StateAt
<1> QED
  BY <1>1, Inductive, RestoreIsSoundCorrect, PTL

\* A retry repeats its PUT: it is for the same key.
OneKeyPerRetry ==
    \A i, j \in 1 .. Len(log) :
        log[i].idem = log[j].idem => log[i].key = log[j].key

\* The claim refuted in KV_snapshot_loss (fsm.go 101, no data is lost) is
\* true of snapshots that can be trusted, however often nodes crash, lose
\* power, or are sent snapshots: no key ever written is missing.
THEOREM NoDataLostWhenTrustworthy ==
  Spec => [](Trustworthy /\ OneKeyPerRetry => NoDataLost)
<1>1. ASSUME IInv, OneKeyPerRetry,
             \A n \in Node : up[n] /\ applied[n] = Len(log) =>
                              kv[n] = StateAt(log, Len(log))
      PROVE  NoDataLost
  <2> SUFFICES ASSUME NEW n \in Node, up[n], applied[n] = Len(log),
                      NEW i \in 1 .. Len(log)
               PROVE  kv[n][log[i].key] # NoVal
    BY DEF NoDataLost
  <2>1. log \in Seq(Command) /\ Len(log) \in Nat
    BY <1>1 DEF IInv, TypeInv, TypeOK
  <2> DEFINE l == log
  <2>2. PICK j \in 1 .. i : Effective(l, j) /\ l[j].idem = l[i].idem
    BY <2>1, FirstOccurrence
  <2>3. j \in 1 .. Len(l) /\ j <= Len(l) /\ l[j].key = l[i].key
    <3>1. j \in 1 .. Len(l) /\ i \in 1 .. Len(l)
      BY <2>1
    <3>2. l[j].idem = l[i].idem => l[j].key = l[i].key
      BY ONLY <1>1, <3>1 DEF OneKeyPerRetry
    <3> QED
      BY <2>1, <2>2, <3>1, <3>2
  <2>4. l[j].key \in Key /\ StateAt(l, j)[l[j].key] = l[j].val
    BY <2>1, <2>2, <2>3, StateAtOwn
  <2>5. l[j] \in Command /\ l[j].val \in Value
    <3>1. l[j] \in Command
      BY <2>1, <2>3
    <3> QED
      BY <3>1 DEF Command
  <2>6. StateAt(l, j)[l[j].key] # NoVal
    BY <2>4, <2>5, NoValAssumption
  <2> HIDE DEF l
  <2>7. StateAt(l, Len(l))[l[j].key] # NoVal
    <3> DEFINE k == l[j].key
               b == Len(l)
    <3>1. /\ l \in Seq(Command) /\ b \in Nat /\ b <= Len(l)
          /\ k \in Key /\ j \in Nat /\ j <= b /\ StateAt(l, j)[k] # NoVal
      BY <2>1, <2>3, <2>4, <2>6 DEF l
    <3> HIDE DEF k, b
    <3>2. StateAt(l, b)[k] # NoVal
      BY <3>1, StatePersists
    <3> QED
      BY <3>2 DEF k, b
  <2> QED
    BY <1>1, <2>3, <2>7 DEF l
<1>2. /\ IInv
      /\ Trustworthy => \A n \in Node : up[n] /\ applied[n] = Len(log) =>
                                         kv[n] = StateAt(log, Len(log))
      => (Trustworthy /\ OneKeyPerRetry => NoDataLost)
  BY <1>1
<1> QED
  BY <1>2, Inductive, AppliedAllIsState, PTL

\* The claim refuted in KV_stale_queue (sqlite.go 127-130) is true until the
\* first snapshot: once a node has caught up and its writer is empty, a
\* restart would replay exactly the map it serves, unless an insert failed.
THEOREM TableMirrorsMapUndisturbed ==
  Spec => [](Undisturbed /\ spent["fail"] = 0 =>
               \A n \in Node : CaughtUp(n) /\ queue[n] = {} =>
                                Replay(rows[n]) = kv[n])
<1>1. IInv /\ CaughtUpAgrees =>
        (Undisturbed /\ spent["fail"] = 0 =>
           \A n \in Node : CaughtUp(n) /\ queue[n] = {} =>
                            Replay(rows[n]) = kv[n])
  BY QuietTable DEF CaughtUpAgrees
<1> QED
  BY <1>1, Inductive, CaughtUpCorrect, PTL

============================================================================
