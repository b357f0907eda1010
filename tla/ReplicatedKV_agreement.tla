----------------------- MODULE ReplicatedKV_agreement -----------------------
(***************************************************************************)
(* Proofs that replicas agree with the committed log, and that their       *)
(* tables hold every write exactly once, up to the first snapshot and, in  *)
(* a log with retries, the first expired idempotency mark, for any number  *)
(* of crashes, power failures, restarts and failed inserts; and that the   *)
(* replicas readers see then implement ReplicatedMap.                      *)
(***************************************************************************)
EXTENDS ReplicatedKV_proofs

---------------------------------------------------------------------------
(* The meaning of the log.                                                 *)

LEMMA EffectiveAppend ==
  ASSUME NEW l \in Seq(Command), NEW c \in Command, NEW i \in 1 .. Len(l)
  PROVE  Effective(Append(l, c), i) <=> Effective(l, i)
<1>1. \A j \in 1 .. i : Append(l, c)[j] = l[j]
  BY AppendProperties
<1> QED
  BY <1>1 DEF Effective

\* Every command has the idempotency key of some effective command that is
\* not after it.
LEMMA FirstOccurrence ==
  ASSUME NEW l \in Seq(Command), NEW i \in 1 .. Len(l)
  PROVE  \E j \in 1 .. i : Effective(l, j) /\ l[j].idem = l[i].idem
<1> DEFINE T == {j \in 1 .. i : l[j].idem = l[i].idem}
<1>1. i \in T /\ T \subseteq Nat
  OBVIOUS
<1>2. PICK m \in T : \A x \in T : m <= x
  <2> HIDE DEF T
  <2> QED
    BY <1>1, NonEmptySetHasMin
<1>3. ASSUME NEW j \in 1 .. m - 1, l[j].idem = l[m].idem
      PROVE  FALSE
  <2>1. j \in T
    BY <1>3
  <2> QED
    BY <1>2, <2>1
<1> QED
  BY <1>2, <1>3 DEF Effective

LEMMA LastIsMember ==
  ASSUME NEW l, NEW k, NEW a \in Nat, Writes(l, k, a) # {}
  PROVE  Last(Writes(l, k, a)) \in Writes(l, k, a)
<1>1. Writes(l, k, a) \subseteq Nat /\ \A i \in Writes(l, k, a) : i <= a
  BY DEF Writes
<1>2. \E i \in Writes(l, k, a) : \A j \in Writes(l, k, a) : j <= i
  BY <1>1, BoundedSetHasMax
<1> QED
  BY <1>2 DEF Last

LEMMA StateAtAppend ==
  ASSUME NEW l \in Seq(Command), NEW c \in Command, NEW a \in 0 .. Len(l)
  PROVE  StateAt(Append(l, c), a) = StateAt(l, a)
<1>1. \A i \in 1 .. a : Append(l, c)[i] = l[i]
  BY AppendProperties
<1>2. ASSUME NEW k \in Key
      PROVE  Writes(Append(l, c), k, a) = Writes(l, k, a)
  BY <1>1, EffectiveAppend DEF Writes
<1>3. ASSUME NEW k \in Key, Writes(l, k, a) # {}
      PROVE  Append(l, c)[Last(Writes(l, k, a))] = l[Last(Writes(l, k, a))]
  <2>1. Last(Writes(l, k, a)) \in Writes(l, k, a)
    BY <1>3, LastIsMember
  <2> QED
    BY <1>1, <2>1 DEF Writes
<1> QED
  BY <1>2, <1>3 DEF StateAt

\* An effective command overwrites its key and nothing else.
LEMMA StateAtEffective ==
  ASSUME NEW l \in Seq(Command), NEW a \in Nat, a + 1 <= Len(l),
         Effective(l, a + 1), NEW k \in Key
  PROVE  StateAt(l, a + 1)[k] =
           IF k = l[a + 1].key THEN l[a + 1].val ELSE StateAt(l, a)[k]
<1>1. CASE k = l[a + 1].key
  <2> DEFINE W == Writes(l, k, a + 1)
  <2>1. a + 1 \in W /\ \A j \in W : j \in Nat /\ j <= a + 1
    BY <1>1 DEF Writes
  <2>2. Last(W) \in W /\ \A j \in W : j <= Last(W)
    <3> HIDE DEF W
    <3> QED
      BY <2>1 DEF Last
  <2>3. Last(W) = a + 1
    <3> HIDE DEF W
    <3> QED
      BY <2>1, <2>2
  <2> QED
    BY <1>1, <2>1, <2>3 DEF StateAt
<1>2. CASE k # l[a + 1].key
  <2>1. Writes(l, k, a + 1) = Writes(l, k, a)
    BY <1>2 DEF Writes
  <2> QED
    BY <1>2, <2>1 DEF StateAt
<1> QED
  BY <1>1, <1>2

LEMMA StateAtRetry ==
  ASSUME NEW l \in Seq(Command), NEW a \in Nat, a + 1 <= Len(l),
         ~Effective(l, a + 1)
  PROVE  StateAt(l, a + 1) = StateAt(l, a)
<1>1. \A k \in Key : Writes(l, k, a + 1) = Writes(l, k, a)
  BY DEF Writes
<1> QED
  BY <1>1 DEF StateAt

---------------------------------------------------------------------------
(* The inductive invariant.                                                *)

\* The effective entries applied since the start.
Fresh(n) == {i \in 1 .. applied[n] : Effective(log, i)}

\* The marks are theirs, less those that have expired.
MarksInv(n) ==
    seen[n] \subseteq Fresh(n) /\ (spent["evict"] = 0 => seen[n] = Fresh(n))

\* Only they wait in the writer.
QueueInv(n) == queue[n] \subseteq Fresh(n)

\* A row is an effective entry of the log, under its own index, and so is a
\* row of the table that a power failure would bring back.
RowsInv(n) ==
    \A r \in rows[n] \cup synced[n] :
        r.idx \in 1 .. Len(log) /\ Effective(log, r.idx) /\ r = RowAt(log, r.idx)

\* Without failed inserts an entry leaves the writer for the table only.
StoredInv(n) ==
    spent["fail"] = 0 =>
        \A i \in Fresh(n) : i \in queue[n] \/ RowAt(log, i) \in rows[n]

\* A key has the value of the log at the applied index, or the table holds
\* a write to it that is still to be re-applied.
MapInv(n) ==
    up[n] =>
        \A k \in Key :
            \/ kv[n][k] = StateAt(log, applied[n])[k]
            \/ \E r \in rows[n] : r.key = k /\ r.idx > applied[n]

NodeInv(n) ==
    /\ snap[n].idx = 0
    /\ MarksInv(n)
    /\ QueueInv(n)
    /\ RowsInv(n)
    /\ StoredInv(n)
    /\ MapInv(n)

SafeInv == Undisturbed => \A n \in Node : NodeInv(n)

\* A node that is down has applied nothing yet.
DownInv == \A n \in Node : ~up[n] => applied[n] = 0

IInv == TypeInv /\ DownInv /\ SafeInv

---------------------------------------------------------------------------
(* Steps.                                                                  *)

\* The dedup set answers exactly whether the entry is a retry.
LEMMA DuplicateIsRetry ==
  ASSUME TypeInv, NEW n \in Node, MarksInv(n), applied[n] + 1 <= Len(log),
         Undisturbed
  PROVE  IsDuplicate(n, log[applied[n] + 1].idem)
           <=> ~Effective(log, applied[n] + 1)
<1> DEFINE i == applied[n] + 1
<1>1. applied[n] \in Nat /\ i \in 1 .. Len(log) /\ log \in Seq(Command)
  BY DEF TypeInv, TypeOK
<1>2. ASSUME IsDuplicate(n, log[i].idem)
      PROVE  ~Effective(log, i)
  <2>1. PICK j \in seen[n] : log[j].idem = log[i].idem
    BY <1>2 DEF IsDuplicate
  <2>2. j \in 1 .. i - 1
    BY <1>1, <2>1 DEF MarksInv, Fresh
  <2> QED
    BY <2>1, <2>2 DEF Effective
<1>3. ASSUME ~Effective(log, i)
      PROVE  IsDuplicate(n, log[i].idem)
  <2>1. PICK h \in 1 .. i - 1 : log[h].idem = log[i].idem
    BY <1>3 DEF Effective
  <2>2. h \in 1 .. Len(log)
    BY <1>1
  <2>3. PICK j \in 1 .. h : Effective(log, j) /\ log[j].idem = log[h].idem
    BY <1>1, <2>2, FirstOccurrence
  <2>5. spent["evict"] = 0
    BY <1>1, <1>3 DEF Undisturbed, NoRetries
  <2>4. j \in seen[n]
    BY <1>1, <2>3, <2>5 DEF MarksInv, Fresh
  <2> QED
    BY <2>1, <2>3, <2>4 DEF IsDuplicate
<1> QED
  BY <1>2, <1>3

\* INSERT OR IGNORE of entries of the log leaves exactly those rows added,
\* whatever part of them the table already held.
LEMMA InsertRows ==
  ASSUME NEW n \in Node, RowsInv(n), NEW E
  PROVE  InsertOrIgnore(rows[n], {RowAt(log, i) : i \in E})
           = rows[n] \cup {RowAt(log, i) : i \in E}
<1>1. ASSUME NEW i \in E, NEW r \in rows[n], r.idx = RowAt(log, i).idx
      PROVE  r = RowAt(log, i)
  BY <1>1 DEF RowsInv, RowAt
<1> QED
  BY <1>1 DEF InsertOrIgnore

LEMMA SpendOnce ==
  ASSUME TypeInv, NEW d \in Disturbance, Spend(d)
  PROVE  /\ spent'[d] # 0
         /\ \A e \in Disturbance : spent'[e] = 0 => spent[e] = 0
  BY DEF Spend, TypeInv, TypeOK

\* A step that does not touch a node keeps its invariant.
LEMMA Frame ==
  ASSUME NEW m \in Node, NodeInv(m), log' = log,
         up'[m] = up[m], applied'[m] = applied[m], kv'[m] = kv[m],
         rows'[m] = rows[m], synced'[m] = synced[m],
         queue'[m] = queue[m], seen'[m] = seen[m], snap'[m] = snap[m],
         spent'["fail"] = 0 => spent["fail"] = 0,
         spent'["evict"] = 0 => spent["evict"] = 0
  PROVE  NodeInv(m)'
  BY DEF NodeInv, MarksInv, Fresh, QueueInv, RowsInv, StoredInv, MapInv

LEMMA CommitStep ==
  ASSUME TypeInv, NEW m \in Node, NodeInv(m), NEW c \in Command, Commit(c)
  PROVE  NodeInv(m)'
<1> USE DEF NodeInv
<1>1. /\ log' = Append(log, c)
      /\ log \in Seq(Command)
      /\ Len(log') = Len(log) + 1
      /\ \A i \in 1 .. Len(log) : /\ log'[i] = log[i]
                                  /\ Effective(log', i) <=> Effective(log, i)
                                  /\ RowAt(log', i) = RowAt(log, i)
  BY AppendProperties, EffectiveAppend DEF Commit, TypeInv, TypeOK, RowAt
<1>2. applied[m] \in 0 .. Len(log) /\ seen[m] \subseteq 1 .. Len(log)
  BY DEF TypeInv, TypeOK
<1>3. StateAt(log', applied[m]) = StateAt(log, applied[m])
  BY <1>1, <1>2, StateAtAppend
<1>4. UNCHANGED <<up, applied, kv, rows, synced, queue, seen, snap, spent>>
  BY DEF Commit
<1>5. Fresh(m)' = Fresh(m)
  BY <1>1, <1>2, <1>4 DEF Fresh
<1>6. RowsInv(m)'
  BY <1>1, <1>4 DEF RowsInv
<1>7. StoredInv(m)'
  <2>1. Fresh(m) \subseteq 1 .. Len(log)
    BY <1>2 DEF Fresh
  <2> QED
    BY <1>1, <1>4, <1>5, <2>1 DEF StoredInv
<1>8. MapInv(m)'
  BY <1>3, <1>4 DEF MapInv
<1> QED
  BY <1>4, <1>5, <1>6, <1>7, <1>8 DEF MarksInv, QueueInv

\* A retry is skipped: the log's state does not move either, and no row can
\* be waiting at its index.
LEMMA ApplyDuplicateStep ==
  ASSUME TypeInv, Undisturbed, NEW n \in Node, NodeInv(n), ApplyDuplicate(n)
  PROVE  NodeInv(n)'
<1> USE DEF NodeInv
<1> DEFINE a == applied[n]
<1>1. a \in Nat /\ a + 1 <= Len(log) /\ log \in Seq(Command)
  BY DEF ApplyDuplicate, TypeInv, TypeOK
<1>2. ~Effective(log, a + 1)
  BY <1>1, DuplicateIsRetry DEF ApplyDuplicate
<1>3. StateAt(log, a + 1) = StateAt(log, a)
  BY <1>1, <1>2, StateAtRetry
<1>4. /\ applied'[n] = a + 1
      /\ UNCHANGED <<log, up, kv, rows, synced, queue, seen, snap, spent>>
  BY DEF ApplyDuplicate, TypeInv, TypeOK
<1>5. Fresh(n)' = Fresh(n)
  BY <1>1, <1>2, <1>4 DEF Fresh
<1>6. MapInv(n)'
  <2> SUFFICES ASSUME up[n], NEW k \in Key
               PROVE  \/ kv[n][k] = StateAt(log, a + 1)[k]
                      \/ \E r \in rows[n] : r.key = k /\ r.idx > a + 1
    BY <1>4 DEF MapInv
  <2>1. ASSUME NEW r \in rows[n], r.idx > a
        PROVE  r.idx > a + 1
    BY <1>1, <1>2, <2>1 DEF RowsInv
  <2> QED
    BY <1>3, <2>1 DEF MapInv
<1> QED
  BY <1>4, <1>5, <1>6 DEF MarksInv, QueueInv, RowsInv, StoredInv

\* A first write enters the map, the marks, and the writer or the table.
LEMMA ApplyFreshStep ==
  ASSUME TypeInv, Undisturbed, NEW n \in Node, NodeInv(n), ApplyFresh(n)
  PROVE  NodeInv(n)'
<1> USE DEF NodeInv
<1> DEFINE a == applied[n]
           i == a + 1
<1>1. a \in Nat /\ i <= Len(log) /\ i \in 1 .. Len(log) /\ log \in Seq(Command)
  BY DEF ApplyFresh, TypeInv, TypeOK
<1>2. Effective(log, i)
  BY <1>1, DuplicateIsRetry DEF ApplyFresh
<1>3. /\ applied'[n] = i
      /\ kv'[n] = [kv[n] EXCEPT ![log[i].key] = log[i].val]
      /\ seen'[n] = seen[n] \cup {i}
      /\ UNCHANGED <<log, up, synced, snap>>
  BY DEF ApplyFresh, TypeInv, TypeOK
<1>4. Fresh(n)' = Fresh(n) \cup {i}
  BY <1>1, <1>2, <1>3 DEF Fresh
<1>5. /\ rows'[n] = rows[n] \/ rows'[n] = rows[n] \cup {RowAt(log, i)}
      /\ queue'[n] \subseteq queue[n] \cup {i}
      /\ queue[n] \subseteq queue'[n]
      /\ spent'["fail"] = 0 =>
           /\ spent["fail"] = 0
           /\ i \in queue'[n] \/ RowAt(log, i) \in rows'[n]
      /\ spent'["evict"] = 0 => spent["evict"] = 0
  <2>1. CASE Enqueue(n, i)
    BY <2>1 DEF Enqueue, TypeInv, TypeOK
  <2>2. CASE SyncInsert(n, i)
    <3> DEFINE E == {i}
    <3>1. rows'[n] = InsertOrIgnore(rows[n], {RowAt(log, j) : j \in E})
      BY <2>2 DEF SyncInsert, TypeInv, TypeOK
    <3>2. rows'[n] = rows[n] \cup {RowAt(log, j) : j \in E}
      <4> HIDE DEF E
      <4> QED
        BY <3>1, InsertRows
    <3> QED
      BY <2>2, <3>2 DEF SyncInsert
  <2>3. CASE SyncInsertFails(n)
    BY <2>3, SpendOnce DEF SyncInsertFails, Disturbance
  <2> QED
    BY <2>1, <2>2, <2>3 DEF ApplyFresh, Send
<1>6. QueueInv(n)'
  BY <1>4, <1>5 DEF QueueInv
<1>7. RowsInv(n)'
  <2>1. /\ RowAt(log, i).idx = i
        /\ RowAt(log, i).key = log[i].key
    BY DEF RowAt
  <2> QED
    BY <1>1, <1>2, <1>3, <1>5, <2>1 DEF RowsInv
<1>8. StoredInv(n)'
  BY <1>3, <1>4, <1>5 DEF StoredInv
<1>10. MarksInv(n)'
  BY <1>3, <1>4, <1>5 DEF MarksInv
<1>9. MapInv(n)'
  <2> SUFFICES ASSUME up[n], NEW k \in Key
               PROVE  \/ kv'[n][k] = StateAt(log, i)[k]
                      \/ \E r \in rows'[n] : r.key = k /\ r.idx > i
    BY <1>3 DEF MapInv
  <2>1. kv[n] \in Map /\ log[i] \in Command
    BY <1>1 DEF TypeInv, TypeOK
  <2>2. CASE k = log[i].key
    <3>1. kv'[n][k] = log[i].val
      BY <1>3, <2>1, <2>2 DEF Map
    <3>2. StateAt(log, i)[k] = log[i].val
      BY <1>1, <1>2, <2>2, StateAtEffective
    <3> QED
      BY <3>1, <3>2
  <2>3. CASE k # log[i].key
    <3>1. kv'[n][k] = kv[n][k]
      BY <1>3, <2>1, <2>3 DEF Map
    <3>2. StateAt(log, i)[k] = StateAt(log, a)[k]
      BY <1>1, <1>2, <2>3, StateAtEffective
    <3>3. ASSUME NEW r \in rows[n], r.key = k, r.idx > a
          PROVE  r \in rows'[n] /\ r.idx > i
      <4>1. r.idx \in Nat /\ r.key = log[r.idx].key
        BY DEF RowsInv, RowAt
      <4> QED
        BY <1>1, <1>5, <2>3, <3>3, <4>1
    <3> QED
      BY <3>1, <3>2, <3>3 DEF MapInv
  <2> QED
    BY <2>2, <2>3
<1> QED
  BY <1>3, <1>6, <1>7, <1>8, <1>9, <1>10

LEMMA FlushStep ==
  ASSUME TypeInv, NEW n \in Node, NodeInv(n), Flush(n)
  PROVE  NodeInv(n)'
<1> USE DEF NodeInv
<1>1. PICK i \in queue[n] :
        /\ rows'[n] = InsertOrIgnore(rows[n], {RowAt(log, j) : j \in Batch(n, i)})
        /\ queue'[n] = queue[n] \ Batch(n, i)
  BY DEF Flush, TypeInv, TypeOK
<1>2. rows'[n] = rows[n] \cup {RowAt(log, j) : j \in Batch(n, i)}
  BY <1>1, InsertRows
<1>3. Batch(n, i) \subseteq Fresh(n)
  BY DEF Batch, QueueInv
<1>4. UNCHANGED <<log, up, applied, kv, synced, seen, snap, spent>>
  BY DEF Flush
<1>5. RowsInv(n)'
  <2>1. ASSUME NEW j \in Fresh(n)
        PROVE  /\ j \in 1 .. Len(log) /\ Effective(log, j)
               /\ RowAt(log, j).idx = j
    BY <2>1 DEF Fresh, TypeInv, TypeOK, RowAt
  <2> QED
    BY <1>2, <1>3, <1>4, <2>1 DEF RowsInv
<1>6. StoredInv(n)'
  BY <1>1, <1>2, <1>4 DEF StoredInv, Fresh
<1>7. MapInv(n)'
  BY <1>2, <1>4 DEF MapInv
<1> QED
  BY <1>1, <1>4, <1>5, <1>6, <1>7 DEF MarksInv, Fresh, QueueInv

LEMMA FlushFailsStep ==
  ASSUME TypeInv, NEW n \in Node, NodeInv(n), FlushFails(n)
  PROVE  NodeInv(n)'
<1>1. /\ queue'[n] \subseteq queue[n]
      /\ UNCHANGED <<log, up, applied, kv, rows, synced, seen, snap>>
  BY DEF FlushFails, TypeInv, TypeOK
<1>2. spent'["fail"] # 0 /\ (spent'["evict"] = 0 => spent["evict"] = 0)
  BY SpendOnce DEF FlushFails, Disturbance
<1> QED
  BY <1>1, <1>2
  DEF NodeInv, MarksInv, Fresh, QueueInv, RowsInv, StoredInv, MapInv

\* The marks that expire are no longer counted on.
LEMMA EvictStep ==
  ASSUME TypeInv, NEW n \in Node, NodeInv(n), Evict(n)
  PROVE  NodeInv(n)'
<1>1. /\ seen'[n] \subseteq seen[n]
      /\ UNCHANGED <<log, up, applied, kv, rows, synced, queue, snap>>
  BY DEF Evict, TypeInv, TypeOK
<1>2. spent'["evict"] # 0 /\ (spent'["fail"] = 0 => spent["fail"] = 0)
  BY SpendOnce DEF Evict, Disturbance
<1> QED
  BY <1>1, <1>2
  DEF NodeInv, MarksInv, Fresh, QueueInv, RowsInv, StoredInv, MapInv

\* The table a power failure would bring back is one the node had.
LEMMA SyncStep ==
  ASSUME TypeInv, NEW n \in Node, NodeInv(n), Sync(n)
  PROVE  NodeInv(n)'
<1>1. /\ synced'[n] = rows[n]
      /\ UNCHANGED <<log, up, applied, kv, rows, queue, seen, snap, spent>>
  BY DEF Sync, TypeInv, TypeOK
<1> QED
  BY <1>1 DEF NodeInv, MarksInv, Fresh, QueueInv, RowsInv, StoredInv, MapInv

LEMMA CrashStep ==
  ASSUME TypeInv, NEW n \in Node, NodeInv(n), Crash(n) \/ PowerLoss(n)
  PROVE  NodeInv(n)'
<1>1. /\ ~up'[n] /\ applied'[n] = 0 /\ queue'[n] = {} /\ seen'[n] = {}
      /\ rows'[n] = rows[n] \/ rows'[n] = synced[n]
      /\ UNCHANGED <<log, synced, snap>>
  BY DEF Crash, PowerLoss, Die, TypeInv, TypeOK
<1> QED
  BY <1>1 DEF NodeInv, MarksInv, Fresh, QueueInv, RowsInv, StoredInv, MapInv

\* Replaying the table: every key it holds is still to be re-applied.
LEMMA RestartStep ==
  ASSUME TypeInv, NEW n \in Node, NodeInv(n), Restart(n),
         applied[n] = 0
  PROVE  NodeInv(n)'
<1> USE DEF NodeInv
<1>1. /\ kv'[n] = Replay(rows[n])
      /\ UNCHANGED <<log, applied, rows, synced, queue, seen, snap, spent>>
  BY DEF Restart, TypeInv, TypeOK
<1>2. MapInv(n)'
  <2> SUFFICES ASSUME NEW k \in Key
               PROVE  \/ Replay(rows[n])[k] = StateAt(log, 0)[k]
                      \/ \E r \in rows[n] : r.key = k /\ r.idx > 0
    BY <1>1 DEF MapInv
  <2>1. StateAt(log, 0)[k] = NoVal
    BY DEF StateAt, Writes
  <2>2. CASE RowsOf(rows[n], k) = {}
    BY <2>1, <2>2 DEF Replay
  <2>3. CASE RowsOf(rows[n], k) # {}
    BY <2>3 DEF RowsOf, RowsInv
  <2> QED
    BY <2>2, <2>3
<1> QED
  BY <1>1, <1>2 DEF MarksInv, Fresh, QueueInv, RowsInv, StoredInv

LEMMA DownStep == TypeInv /\ DownInv /\ [Next]_vars => DownInv'
  BY DEF TypeInv, TypeOK, DownInv, Next, NodeStep, Commit, Apply,
         ApplyDuplicate, ApplyFresh, Flush, FlushFails, Evict, Snapshot,
         InstallSnapshot, InstallFails, Restore, Sync, Crash, PowerLoss, Die,
         Restart, FlushNothing, vars

\* Commands that are retries stay retries.
LEMMA NoRetriesStep == TypeInv /\ [Next]_vars /\ NoRetries' => NoRetries
<1> SUFFICES ASSUME TypeInv, [Next]_vars, NoRetries'
             PROVE  NoRetries
  OBVIOUS
<1>1. log \in Seq(Command)
  BY DEF TypeInv, TypeOK
<1>2. CASE log' = log
  BY <1>2 DEF NoRetries
<1>3. ASSUME NEW c \in Command, Commit(c)
      PROVE  NoRetries
  <2>1. log' = Append(log, c) /\ Len(log') = Len(log) + 1
    BY <1>1, <1>3, AppendProperties DEF Commit
  <2>2. \A i \in 1 .. Len(log) : Effective(log', i) <=> Effective(log, i)
    BY <1>1, <2>1, EffectiveAppend
  <2> QED
    BY <1>1, <2>1, <2>2 DEF NoRetries
<1> QED
  BY <1>2, <1>3
  DEF Next, NodeStep, Apply, ApplyDuplicate, ApplyFresh, Flush, FlushFails,
      Evict, Snapshot, InstallSnapshot, InstallFails, Sync, Crash, PowerLoss,
      Restart, FlushNothing, vars

LEMMA UndisturbedStep ==
  TypeInv /\ [Next]_vars /\ Undisturbed' =>
      /\ Undisturbed
      /\ \A n \in Node : ~Snapshot(n)
      /\ spent'["fail"] = 0 => spent["fail"] = 0
      /\ spent'["evict"] = 0 => spent["evict"] = 0
<1> SUFFICES ASSUME TypeInv, [Next]_vars, Undisturbed'
             PROVE  /\ Undisturbed
                    /\ \A n \in Node : ~Snapshot(n)
                    /\ spent'["fail"] = 0 => spent["fail"] = 0
                    /\ spent'["evict"] = 0 => spent["evict"] = 0
  OBVIOUS
<1>1. spent' = spent \/ \E d \in Disturbance : Spend(d)
  BY DEF Next, NodeStep, Commit, Apply, ApplyDuplicate, ApplyFresh, Send,
         Enqueue, SyncInsert, SyncInsertFails, Flush, FlushFails, Evict,
         Snapshot, InstallSnapshot, InstallFails, Sync, Crash, PowerLoss,
         Restart, FlushNothing, vars, Disturbance
<1>2. \A d \in Disturbance : spent'[d] = 0 => spent[d] = 0
  BY <1>1, SpendOnce
<1>3. ASSUME NEW n \in Node
      PROVE  ~Snapshot(n)
  BY SpendOnce DEF Snapshot, Undisturbed, Disturbance
<1> QED
  BY <1>2, <1>3, NoRetriesStep DEF Undisturbed, Disturbance

LEMMA SafeStep == IInv /\ [Next]_vars => SafeInv'
<1> SUFFICES ASSUME IInv, [Next]_vars, Undisturbed', NEW m \in Node
             PROVE  NodeInv(m)'
  BY DEF SafeInv
<1> USE DEF IInv
<1>1. /\ NodeInv(m)
      /\ \A n \in Node : NodeInv(n)
      /\ \A n \in Node : ~Snapshot(n)
      /\ spent'["fail"] = 0 => spent["fail"] = 0
      /\ spent'["evict"] = 0 => spent["evict"] = 0
      /\ Undisturbed
  BY UndisturbedStep DEF SafeInv
<1>2. ASSUME NEW c \in Command, Commit(c)
      PROVE  NodeInv(m)'
  BY <1>1, <1>2, CommitStep
\* A step of another node than m.
<1> DEFINE Untouched ==
             /\ log' = log
             /\ up'[m] = up[m] /\ applied'[m] = applied[m]
             /\ kv'[m] = kv[m] /\ rows'[m] = rows[m] /\ synced'[m] = synced[m]
             /\ queue'[m] = queue[m] /\ seen'[m] = seen[m]
             /\ snap'[m] = snap[m]
<1>3. Untouched => NodeInv(m)'
  BY <1>1, Frame
<1>4. ASSUME NEW n \in Node, Apply(n)
      PROVE  NodeInv(m)'
  <2>1. n # m => Untouched
    BY <1>4 DEF Apply, ApplyDuplicate, ApplyFresh, Send, Enqueue, SyncInsert,
                SyncInsertFails, TypeInv, TypeOK
  <2> QED
    BY <1>1, <1>3, <1>4, <2>1, ApplyDuplicateStep, ApplyFreshStep DEF Apply
<1>5. ASSUME NEW n \in Node, Flush(n)
      PROVE  NodeInv(m)'
  <2>1. n # m => Untouched
    BY <1>5 DEF Flush, TypeInv, TypeOK
  <2> QED
    BY <1>1, <1>3, <1>5, <2>1, FlushStep
<1>6. ASSUME NEW n \in Node, FlushFails(n)
      PROVE  NodeInv(m)'
  <2>1. n # m => Untouched
    BY <1>6 DEF FlushFails, TypeInv, TypeOK
  <2> QED
    BY <1>1, <1>3, <1>6, <2>1, FlushFailsStep
<1>7. ASSUME NEW n \in Node, Crash(n) \/ PowerLoss(n)
      PROVE  NodeInv(m)'
  <2>1. n # m => Untouched
    BY <1>7 DEF Crash, PowerLoss, Die, TypeInv, TypeOK
  <2> QED
    BY <1>1, <1>3, <1>7, <2>1, CrashStep
<1>8. ASSUME NEW n \in Node, Restart(n)
      PROVE  NodeInv(m)'
  <2>1. snap[n].idx = 0
    BY <1>1 DEF NodeInv
  <2>2. n # m => Untouched
    <3>1. /\ up' = [up EXCEPT ![n] = TRUE]
          /\ kv' = [kv EXCEPT ![n] = Replay(rows[n])]
          /\ UNCHANGED <<log, applied, rows, synced, queue, seen, snap>>
      BY <1>8, <2>1 DEF Restart
    <3> QED
      BY <3>1 DEF TypeInv, TypeOK
  <2>3. applied[n] = 0
    BY <1>8 DEF DownInv, Restart
  <2> QED
    BY <1>1, <1>3, <1>8, <2>2, <2>3, RestartStep
<1>9. ASSUME NEW p \in Node, NEW n \in Node,
             InstallSnapshot(p, n) \/ InstallFails(p, n)
      PROVE  FALSE
  BY <1>1, <1>9 DEF InstallSnapshot, InstallFails, NodeInv, TypeInv, TypeOK
<1>10. ASSUME NEW n \in Node, Sync(n)
       PROVE  NodeInv(m)'
  <2>1. n # m => Untouched
    BY <1>10 DEF Sync, TypeInv, TypeOK
  <2> QED
    BY <1>1, <1>3, <1>10, <2>1, SyncStep
<1>11. ASSUME NEW n \in Node, Evict(n)
       PROVE  NodeInv(m)'
  <2>1. n # m => Untouched
    BY <1>11 DEF Evict, TypeInv, TypeOK
  <2> QED
    BY <1>1, <1>3, <1>11, <2>1, EvictStep
<1>12. CASE UNCHANGED vars
  <2>1. Untouched
    BY <1>12 DEF vars
  <2> QED
    BY <1>3, <2>1
<1> QED
  BY <1>1, <1>2, <1>4, <1>5, <1>6, <1>7, <1>8, <1>9, <1>10, <1>11, <1>12
  DEF Next, NodeStep, FlushNothing

LEMMA SafeInit == Init => DownInv /\ SafeInv
<1> SUFFICES ASSUME Init
             PROVE  DownInv /\ SafeInv
  OBVIOUS
<1>1. ASSUME NEW n \in Node
      PROVE  NodeInv(n)
  <2>1. \A k \in Key : StateAt(log, 0)[k] = NoVal
    BY DEF StateAt, Writes
  <2> QED
    BY <2>1 DEF Init, NoSnapshot, EmptyMap, NodeInv, MarksInv, Fresh, QueueInv,
                RowsInv, StoredInv, MapInv
<1> QED
  BY <1>1 DEF Init, DownInv, SafeInv

LEMMA Inductive == Spec => []IInv
<1>1. Init => IInv
  BY TypeInit, SafeInit DEF IInv
<1>2. IInv /\ [Next]_vars => IInv'
  BY TypeStep, DownStep, SafeStep DEF IInv
<1> QED
  BY <1>1, <1>2, PTL DEF Spec

---------------------------------------------------------------------------
(* Theorems.                                                               *)

\* A node that has caught up serves exactly the state the log defines at
\* its applied index (fsm.go Apply, main.go replay on startup).
THEOREM CaughtUpCorrect == Spec => []CaughtUpAgrees
<1>1. IInv => CaughtUpAgrees
  <2> SUFFICES ASSUME IInv, Undisturbed, NEW n \in Node, CaughtUp(n)
               PROVE  kv[n] = StateAt(log, applied[n])
    BY DEF CaughtUpAgrees
  <2>1. \A k \in Key : kv[n][k] = StateAt(log, applied[n])[k]
    <3>1. \A r \in rows[n] : r.idx \in Nat /\ r.idx <= applied[n]
      BY DEF CaughtUp, IInv, TypeInv, TypeOK, Row
    <3>2. applied[n] \in Nat /\ up[n] /\ MapInv(n)
      BY DEF CaughtUp, IInv, SafeInv, NodeInv, TypeInv, TypeOK
    <3>3. \A r \in rows[n] : ~(r.idx > applied[n])
      BY <3>1, <3>2
    <3> QED
      BY <3>2, <3>3 DEF MapInv
  <2>2. kv[n] \in Map
    BY DEF IInv, TypeInv, TypeOK
  <2> QED
    BY <2>1, <2>2 DEF Map, StateAt
<1> QED
  BY <1>1, Inductive, PTL

\* Each effective write is in a table at most once, under its own index,
\* and no retry ever is (dedup.go, INSERT OR IGNORE in batch.go).
THEOREM ExactlyOnceCorrect == Spec => []RowsExactlyOnce
<1>1. IInv => RowsExactlyOnce
  BY DEF IInv, SafeInv, NodeInv, RowsInv, RowsExactlyOnce
<1> QED
  BY <1>1, Inductive, PTL

\* Until an insert fails, an applied write is in the writer or the table
\* (batch.go Send, insertBatch, insertOne).
THEOREM StoredOrQueuedCorrect == Spec => []StoredOrQueued
<1>1. IInv => StoredOrQueued
  BY DEF IInv, SafeInv, NodeInv, Fresh, StoredInv, StoredOrQueued
<1> QED
  BY <1>1, Inductive, PTL

\* Replicas at one applied index that have caught up hold the same map.
THEOREM ReplicasAgreeUndisturbed == Spec => [](Undisturbed => ReplicasAgree)
<1>1. CaughtUpAgrees => (Undisturbed => ReplicasAgree)
  BY DEF CaughtUpAgrees, ReplicasAgree
<1> QED
  BY <1>1, CaughtUpCorrect, PTL

---------------------------------------------------------------------------
(* The replicas implement ReplicatedMap.                                   *)

\* Rows are only added, and a new row is no later than the applied index.
RowsGrow ==
    \A n \in Node :
        /\ rows[n] \subseteq rows'[n]
        /\ \A r \in rows'[n] : r \in rows[n] \/ r.idx <= applied'[n]

\* The steps as a reader sees them.
Commits == \E c \in Command : Commit(c)

Quiet == UNCHANGED <<log, up, applied, kv>> /\ RowsGrow

Applies(n) ==
    LET i == applied[n] + 1 IN
    /\ up[n] /\ i <= Len(log)
    /\ applied' = [applied EXCEPT ![n] = i]
    /\ \E v \in {kv[n], [kv[n] EXCEPT ![log[i].key] = log[i].val]} :
          kv' = [kv EXCEPT ![n] = v]
    /\ UNCHANGED <<log, up>> /\ RowsGrow

Dies(n) ==
    /\ up' = [up EXCEPT ![n] = FALSE]
    /\ applied' = [applied EXCEPT ![n] = 0]
    /\ kv' = [kv EXCEPT ![n] = EmptyMap]
    /\ log' = log
    /\ \A m \in Node : m # n => rows'[m] = rows[m]

Returns(n) ==
    /\ ~up[n] /\ applied[n] = 0
    /\ up' = [up EXCEPT ![n] = TRUE]
    /\ kv' = [kv EXCEPT ![n] = Replay(rows[n])]
    /\ UNCHANGED <<log, applied, rows>>

LEMMA WorkSteps ==
  ASSUME IInv, Undisturbed, NEW n \in Node,
         \/ Apply(n) \/ Flush(n) \/ FlushFails(n) \/ FlushNothing(n)
         \/ Evict(n) \/ Sync(n) \/ Restart(n)
  PROVE  Applies(n) \/ Returns(n) \/ Quiet
<1> USE DEF IInv
<1>1. /\ NodeInv(n)
      /\ rows \in [Node -> SUBSET Row] /\ applied \in [Node -> 0 .. Len(log)]
  BY DEF SafeInv, TypeInv, TypeOK
<1>2. ASSUME UNCHANGED <<log, up, applied, kv, rows>>
      PROVE  Quiet
  BY <1>2 DEF Quiet, RowsGrow
<1>3. ASSUME ApplyDuplicate(n)
      PROVE  Applies(n)
  <2>1. kv' = [kv EXCEPT ![n] = kv[n]] /\ rows' = rows
    BY <1>3 DEF ApplyDuplicate, TypeInv, TypeOK
  <2> QED
    BY <1>3, <2>1 DEF ApplyDuplicate, Applies, RowsGrow
<1>4. ASSUME ApplyFresh(n)
      PROVE  Applies(n)
  <2> DEFINE i == applied[n] + 1
  <2>1. kv' = [kv EXCEPT ![n] = [kv[n] EXCEPT ![log[i].key] = log[i].val]]
    BY <1>4 DEF ApplyFresh
  <2>2. RowsGrow
    <3>1. applied'[n] = i
      BY <1>1, <1>4 DEF ApplyFresh
    <3>2. rows' = rows \/ rows' = [rows EXCEPT ![n] = InsertOrIgnore(@, {RowAt(log, i)})]
      BY <1>4 DEF ApplyFresh, Send, Enqueue, SyncInsert, SyncInsertFails
    <3>3. RowAt(log, i).idx = i /\ i \in Int
      BY <1>1 DEF RowAt
    <3> QED
      BY <1>1, <3>1, <3>2, <3>3 DEF RowsGrow, InsertOrIgnore
  <2> QED
    BY <1>4, <2>1, <2>2 DEF ApplyFresh, Applies
<1>5. ASSUME Flush(n)
      PROVE  Quiet
  <2>1. PICK i \in queue[n] :
          rows' = [rows EXCEPT ![n] =
                     InsertOrIgnore(@, {RowAt(log, j) : j \in Batch(n, i)})]
    BY <1>5 DEF Flush
  <2>2. ASSUME NEW j \in Batch(n, i)
        PROVE  RowAt(log, j).idx <= applied[n]
    BY <1>1 DEF Batch, NodeInv, QueueInv, Fresh, RowAt
  <2>3. UNCHANGED <<log, up, applied, kv>>
    BY <1>5 DEF Flush
  <2>4. RowsGrow
    BY <1>1, <2>1, <2>2, <2>3 DEF RowsGrow, InsertOrIgnore
  <2> QED
    BY <2>3, <2>4 DEF Quiet
<1>6. ASSUME Restart(n)
      PROVE  Returns(n)
  BY <1>1, <1>6 DEF Restart, NodeInv, DownInv, Returns
<1>7. ASSUME FlushFails(n) \/ Evict(n) \/ Sync(n) \/ FlushNothing(n)
      PROVE  Quiet
  BY <1>2, <1>7 DEF FlushFails, Evict, Sync, FlushNothing, vars
<1> QED
  BY <1>3, <1>4, <1>5, <1>6, <1>7 DEF Apply

LEMMA ReaderSteps ==
  ASSUME IInv, [Next]_vars, Undisturbed'
  PROVE  \/ Commits
         \/ \E n \in Node : Applies(n) \/ Dies(n) \/ Returns(n)
         \/ Quiet
<1> USE DEF IInv
<1>1. /\ Undisturbed
      /\ \A n \in Node : NodeInv(n) /\ ~Snapshot(n)
  BY UndisturbedStep DEF SafeInv
<1>2. ASSUME NEW n \in Node, Crash(n) \/ PowerLoss(n)
      PROVE  Dies(n)
  BY <1>1, <1>2 DEF Crash, PowerLoss, Die, Dies, TypeInv, TypeOK
<1>3. ASSUME NEW p \in Node, NEW n \in Node,
             InstallSnapshot(p, n) \/ InstallFails(p, n)
      PROVE  FALSE
  BY <1>1, <1>3 DEF InstallSnapshot, InstallFails, NodeInv, TypeInv, TypeOK
<1>4. CASE UNCHANGED vars
  BY <1>4 DEF vars, Quiet, RowsGrow
<1> QED
  BY <1>1, <1>2, <1>3, <1>4, WorkSteps DEF Next, NodeStep, Commits

---------------------------------------------------------------------------
\* A node serves only what was committed, and nothing while it is down.
ServedInv ==
    /\ \A n \in Node : ~up[n] => kv[n] = EmptyMap
    /\ Undisturbed => \A n \in Node : kv[n] \in Replicas!CommittedMaps(log)

\* A value of a key is one that the log holds for it.
CommittedTo(l, k, v) == \E i \in 1 .. Len(l) : l[i].key = k /\ l[i].val = v

LEMMA CommittedMap ==
  ASSUME NEW l, NEW m \in Map
  PROVE  m \in Replicas!CommittedMaps(l)
           <=> \A k \in Key : m[k] = NoVal \/ CommittedTo(l, k, m[k])
BY DEF Replicas!CommittedMaps, Replicas!Map, Map, CommittedTo

LEMMA ReplayCommitted ==
  ASSUME TypeInv, NEW n \in Node, RowsInv(n)
  PROVE  Replay(rows[n]) \in Replicas!CommittedMaps(log)
<1> DEFINE R == rows[n]
<1>1. R \subseteq Row /\ Bounded(R)
  BY DEF TypeInv, TypeOK
<1>2. ASSUME NEW k \in Key, RowsOf(R, k) # {}
      PROVE  CommittedTo(log, k, Latest(RowsOf(R, k)).val)
  <2>1. Latest(RowsOf(R, k)) \in R /\ Latest(RowsOf(R, k)).key = k
    BY <1>1, <1>2, LatestIsRow DEF RowsOf
  <2>2. PICK r \in R : r = Latest(RowsOf(R, k))
    BY <2>1
  <2> QED
    BY <2>1, <2>2 DEF RowsInv, RowAt, CommittedTo
<1>3. Replay(R) \in Map
  BY <1>1, ReplayType
<1>4. \A k \in Key : Replay(R)[k] = NoVal \/ CommittedTo(log, k, Replay(R)[k])
  BY <1>2 DEF Replay
<1> QED
  BY <1>3, <1>4, CommittedMap

LEMMA ServedStep == IInv /\ ServedInv /\ [Next]_vars => ServedInv'
<1> SUFFICES ASSUME IInv, ServedInv, [Next]_vars  PROVE ServedInv'
  OBVIOUS
<1> USE DEF IInv
<1>0. TypeInv'
  BY TypeStep
<1>1. \A n \in Node : ~up'[n] => kv'[n] = EmptyMap
  BY DEF ServedInv, TypeInv, TypeOK, Next, NodeStep, Commit, Apply,
         ApplyDuplicate, ApplyFresh, Flush, FlushFails, Evict, Snapshot,
         InstallSnapshot, InstallFails, Restore, Sync, Crash, PowerLoss, Die,
         Restart, FlushNothing, vars
<1>2. ASSUME Undisturbed', NEW n \in Node
      PROVE  kv'[n] \in Replicas!CommittedMaps(log')
  <2>1. /\ Undisturbed /\ NodeInv(n) /\ kv[n] \in Map /\ kv'[n] \in Map
        /\ kv \in [Node -> Map] /\ log \in Seq(Command)
    BY <1>0, <1>2, UndisturbedStep DEF SafeInv, TypeInv, TypeOK
  <2>2. \A k \in Key : kv[n][k] = NoVal \/ CommittedTo(log, k, kv[n][k])
    BY <2>1, CommittedMap DEF ServedInv
  <2>3. CASE Commits
    <3>1. PICK c \in Command : log' = Append(log, c) /\ kv' = kv
      BY <2>3 DEF Commits, Commit
    <3>2. \A k \in Key : \A v : CommittedTo(log, k, v) => CommittedTo(log', k, v)
      BY <2>1, <3>1, AppendProperties DEF CommittedTo
    <3> QED
      BY <2>1, <2>2, <3>1, <3>2, CommittedMap
  <2>4. ASSUME log' = log, kv'[n] = kv[n]
        PROVE  kv'[n] \in Replicas!CommittedMaps(log')
    BY <2>1, <2>4 DEF ServedInv
  <2>5. ASSUME NEW m \in Node, Applies(m)
        PROVE  kv'[n] \in Replicas!CommittedMaps(log')
    <3>1. CASE kv'[n] = kv[n]
      BY <2>4, <2>5, <3>1 DEF Applies
    <3>2. CASE kv'[n] # kv[n]
      <4> DEFINE i == applied[n] + 1
      <4>1. /\ i \in 1 .. Len(log) /\ log' = log
            /\ kv'[n] = [kv[n] EXCEPT ![log[i].key] = log[i].val]
        <5>1. m = n
          BY <2>1, <2>5, <3>2 DEF Applies
        <5>2. i \in 1 .. Len(log) /\ log' = log
          BY <2>5, <5>1 DEF Applies, TypeInv, TypeOK
        <5> QED
          BY <2>1, <2>5, <3>2, <5>1, <5>2 DEF Applies
      <4>2. \A k \in Key : kv'[n][k] = NoVal \/ CommittedTo(log, k, kv'[n][k])
        BY <2>1, <2>2, <4>1 DEF CommittedTo, Map
      <4> QED
        BY <2>1, <4>1, <4>2, CommittedMap
    <3> QED
      BY <3>1, <3>2
  <2>6. ASSUME NEW m \in Node, Dies(m)
        PROVE  kv'[n] \in Replicas!CommittedMaps(log')
    <3>1. kv'[n] = kv[n] \/ kv'[n] = EmptyMap
      BY <2>1, <2>6 DEF Dies
    <3>2. log' = log /\ (kv'[n] = EmptyMap => \A k \in Key : kv'[n][k] = NoVal)
      BY <2>6 DEF Dies, EmptyMap
    <3> QED
      BY <2>1, <2>4, <3>1, <3>2, CommittedMap
  <2>7. ASSUME NEW m \in Node, Returns(m)
        PROVE  kv'[n] \in Replicas!CommittedMaps(log')
    <3>1. log' = log /\ (kv'[n] = kv[n] \/ kv'[n] = Replay(rows[n]))
      BY <2>1, <2>7 DEF Returns
    <3> QED
      BY <2>1, <2>4, <3>1, ReplayCommitted DEF NodeInv
  <2>8. CASE Quiet
    BY <2>4, <2>8 DEF Quiet
  <2> QED
    BY <1>2, <2>3, <2>5, <2>6, <2>7, <2>8, ReaderSteps
<1> QED
  BY <1>1, <1>2 DEF ServedInv

\* What the reader sees of a node.
Face == [n \in Node |-> ReplicaMode(n)]

LEMMA SameStateAt ==
  ASSUME NEW l, NEW a
  PROVE  Replicas!StateAt(l, a) = StateAt(l, a)
BY DEF Replicas!StateAt, Replicas!Writes, Replicas!Effective, Replicas!Last,
       StateAt, Writes, Effective, Last

\* A node that applies nothing keeps its face.
LEMMA FaceKept ==
  ASSUME TypeInv, RowsGrow, NEW n \in Node,
         up'[n] = up[n], applied'[n] = applied[n]
  PROVE  Face'[n] = Face[n]
<1>1. CaughtUp(n)' <=> CaughtUp(n)
  BY DEF RowsGrow, CaughtUp
<1> QED
  BY <1>1 DEF Face, ReplicaMode

\* A step of one node is a step of one replica.
LEMMA ServeStep ==
  ASSUME TypeInv, TypeInv', NEW n \in Node, log' = log,
         CaughtUp(n)' => kv'[n] = StateAt(log, applied'[n]),
         \A m \in Node : m # n => /\ applied'[m] = applied[m]
                                  /\ kv'[m] = kv[m]
                                  /\ Face'[m] = Face[m]
  PROVE  Replicas!Serve(n, Face'[n], applied'[n], kv'[n])
<1>1. Face' = [Face EXCEPT ![n] = Face'[n]]
  BY DEF Face
<1>2. /\ applied' = [applied EXCEPT ![n] = applied'[n]]
      /\ kv' = [kv EXCEPT ![n] = kv'[n]]
  BY DEF TypeInv, TypeOK
<1>3. Face'[n] = "live" => kv'[n] = Replicas!StateAt(log, applied'[n])
  <2>1. Face'[n] = "live" => CaughtUp(n)'
    BY DEF Face, ReplicaMode
  <2> QED
    BY <2>1, SameStateAt
<1> QED
  BY <1>1, <1>2, <1>3 DEF Replicas!Serve, Face

LEMMA AppliesRefines ==
  ASSUME TypeInv, TypeInv', CaughtUpAgrees', Undisturbed', ServedInv',
         NEW n \in Node, Applies(n)
  PROVE  Replicas!Advance(n) \/ Replicas!CatchUp(n)
<1>1. /\ up[n] /\ up'[n] /\ applied'[n] = applied[n] + 1 /\ log' = log
      /\ applied[n] < Len(log)
  BY DEF Applies, TypeInv, TypeOK
<1>2. CaughtUp(n)' => kv'[n] = StateAt(log, applied'[n])
  BY <1>1 DEF CaughtUpAgrees
<1>3. Replicas!Serve(n, Face'[n], applied'[n], kv'[n])
  <2>1. ASSUME NEW m \in Node, m # n
        PROVE  /\ applied'[m] = applied[m] /\ kv'[m] = kv[m]
               /\ Face'[m] = Face[m]
    <3>1. up'[m] = up[m] /\ applied'[m] = applied[m] /\ kv'[m] = kv[m]
      BY <2>1 DEF Applies, TypeInv, TypeOK
    <3> QED
      BY <3>1, FaceKept DEF Applies
  <2> QED
    BY <1>1, <1>2, <2>1, ServeStep
<1>4. CASE CaughtUp(n)
  <2>1. CaughtUp(n)'
    <3>1. ASSUME NEW r \in rows'[n]  PROVE r.idx <= applied'[n]
      <4>1. r \in rows[n] => r.idx \in Int /\ r.idx <= applied[n]
        BY <1>4 DEF CaughtUp, TypeInv, TypeOK, Row
      <4>2. applied[n] \in Int /\ (r \in rows[n] \/ r.idx <= applied'[n])
        BY DEF Applies, RowsGrow, TypeInv, TypeOK
      <4> QED
        BY <1>1, <4>1, <4>2
    <3> QED
      BY <1>1, <3>1 DEF CaughtUp
  <2>2. Face[n] = "live" /\ Face'[n] = "live"
    BY <1>1, <1>4, <2>1 DEF Face, ReplicaMode
  <2>3. kv'[n] = Replicas!StateAt(log, applied[n] + 1)
    BY <1>1, <1>2, <2>1, SameStateAt
  <2> QED
    BY <1>1, <1>3, <2>2, <2>3 DEF Replicas!Advance, Face
<1>5. CASE ~CaughtUp(n)
  <2>1. Face[n] = "recovering" /\ Face'[n] \in {"recovering", "live"}
    BY <1>1, <1>5 DEF Face, ReplicaMode
  <2>2. kv'[n] \in Replicas!CommittedMaps(log)
    BY <1>1 DEF ServedInv
  <2> QED
    BY <1>1, <1>3, <2>1, <2>2 DEF Replicas!CatchUp, Face
<1> QED
  BY <1>4, <1>5

LEMMA DiesRefines ==
  ASSUME TypeInv, TypeInv', DownInv, ServedInv, NEW n \in Node, Dies(n)
  PROVE  [Replicas!Fail(n)]_(Replicas!vars)
<1>1. /\ ~up'[n] /\ applied'[n] = 0 /\ kv'[n] = EmptyMap /\ log' = log
      /\ ~CaughtUp(n)'
  BY DEF Dies, TypeInv, TypeOK, CaughtUp
<1>2. ASSUME NEW m \in Node, m # n
      PROVE  /\ applied'[m] = applied[m] /\ kv'[m] = kv[m]
             /\ Face'[m] = Face[m]
  <2>1. /\ up'[m] = up[m] /\ applied'[m] = applied[m] /\ kv'[m] = kv[m]
        /\ rows'[m] = rows[m]
    BY <1>2 DEF Dies, TypeInv, TypeOK
  <2> QED
    BY <2>1 DEF Face, ReplicaMode, CaughtUp
<1>3. Face'[n] = "down"
  BY <1>1 DEF Face, ReplicaMode
<1>4. CASE up[n]
  <2>1. Replicas!Serve(n, Face'[n], applied'[n], kv'[n])
    BY <1>1, <1>2, ServeStep
  <2>2. Face[n] # "down"
    BY <1>4 DEF Face, ReplicaMode
  <2> QED
    BY <1>1, <1>3, <2>1, <2>2 DEF Replicas!Fail, Replicas!EmptyMap, EmptyMap, Face
<1>5. CASE ~up[n]
  <2>1. Face[n] = "down" /\ applied[n] = 0 /\ kv[n] = EmptyMap
    <3>1. Face[n] = "down"
      BY <1>5 DEF Face, ReplicaMode, CaughtUp
    <3> QED
      BY <1>5, <3>1 DEF DownInv, ServedInv
  <2>2. applied' = applied /\ kv' = kv
    BY <1>1, <1>2, <2>1 DEF TypeInv, TypeOK
  <2>3. Face' = Face
    BY <1>2, <1>3, <2>1 DEF Face
  <2> QED
    BY <1>1, <2>2, <2>3 DEF Replicas!vars, Face
<1> QED
  BY <1>4, <1>5

LEMMA ReturnsRefines ==
  ASSUME TypeInv, TypeInv', CaughtUpAgrees', Undisturbed', ServedInv',
         NEW n \in Node, Returns(n)
  PROVE  Replicas!Recover(n)
<1>1. /\ ~up[n] /\ up'[n] /\ applied'[n] = 0 /\ log' = log
  BY DEF Returns, TypeInv, TypeOK
<1>2. ASSUME NEW m \in Node, m # n
      PROVE  /\ applied'[m] = applied[m] /\ kv'[m] = kv[m]
             /\ Face'[m] = Face[m]
  <2>1. /\ up'[m] = up[m] /\ applied'[m] = applied[m] /\ kv'[m] = kv[m]
        /\ rows'[m] = rows[m]
    BY <1>2 DEF Returns, TypeInv, TypeOK
  <2> QED
    BY <2>1 DEF Face, ReplicaMode, CaughtUp
<1>3. CaughtUp(n)' => kv'[n] = StateAt(log, applied'[n])
  BY <1>1 DEF CaughtUpAgrees
<1>4. Replicas!Serve(n, Face'[n], applied'[n], kv'[n])
  BY <1>1, <1>2, <1>3, ServeStep
<1>5. Face[n] = "down" /\ Face'[n] \in {"recovering", "live"}
  <2>1. Face[n] = "down"
    BY <1>1 DEF Face, ReplicaMode, CaughtUp
  <2>2. Face'[n] \in {"recovering", "live"}
    BY <1>1 DEF Face, ReplicaMode
  <2> QED
    BY <2>1, <2>2
<1>6. kv'[n] \in Replicas!CommittedMaps(log)
  BY <1>1 DEF ServedInv
<1> QED
  BY <1>1, <1>4, <1>5, <1>6 DEF Replicas!Recover, Face

LEMMA StepRefines ==
  ASSUME IInv, ServedInv, [Next]_vars, IInv', ServedInv', CaughtUpAgrees',
         Undisturbed'
  PROVE  [Replicas!Next]_(Replicas!vars)
<1>1. TypeInv /\ TypeInv' /\ DownInv
  BY DEF IInv
<1>2. CASE Commits
  <2>1. PICK c \in Command : log' = Append(log, c)
    BY <1>2 DEF Commits, Commit
  <2>2. UNCHANGED <<up, applied, kv, rows>>
    BY <1>2 DEF Commits, Commit
  <2>3. Face' = Face
    BY <2>2 DEF Face, ReplicaMode, CaughtUp
  <2>4. Replicas!Commit(c)
    BY <2>1, <2>2, <2>3 DEF Replicas!Commit, Face
  <2> QED
    BY <2>4 DEF Replicas!Next, Replicas!Command, Command
<1>3. CASE Quiet
  <2>1. Face' = Face
    BY <1>1, <1>3, FaceKept DEF Quiet, Face
  <2> QED
    BY <1>3, <2>1 DEF Quiet, Replicas!vars, Face
<1>4. ASSUME NEW n \in Node, Applies(n) \/ Dies(n) \/ Returns(n)
      PROVE  [Replicas!Next]_(Replicas!vars)
  <2>1. \/ Replicas!Advance(n) \/ Replicas!CatchUp(n)
        \/ [Replicas!Fail(n)]_(Replicas!vars) \/ Replicas!Recover(n)
    BY <1>1, <1>4, AppliesRefines, DiesRefines, ReturnsRefines
  <2> QED
    BY <2>1 DEF Replicas!Next
<1> QED
  BY <1>2, <1>3, <1>4, ReaderSteps

LEMMA InitRefines == Init => Replicas!Init /\ ServedInv
<1> SUFFICES ASSUME Init  PROVE Replicas!Init /\ ServedInv
  OBVIOUS
<1>1. Face = [n \in Node |-> "live"]
  BY DEF Init, Face, ReplicaMode, CaughtUp
<1>2. EmptyMap \in Map /\ \A k \in Key : EmptyMap[k] = NoVal
  BY DEF EmptyMap, Map
<1>3. EmptyMap \in Replicas!CommittedMaps(log)
  BY <1>2, CommittedMap
<1> QED
  BY <1>1, <1>3 DEF Init, ServedInv, Replicas!Init, Replicas!EmptyMap, EmptyMap, Face

\* Without snapshots and, in a log with retries, without expired marks, the
\* replicas that readers see implement ReplicatedMap: a live replica moves
\* through the states of the log one entry at a time, and one that comes
\* back shows only values committed to their keys (fsm.go Apply, main.go).
THEOREM ReplicasImplementReplicatedMap ==
  Spec /\ []Undisturbed => ImplementsReplicatedMap
<1>1. IInv /\ ServedInv /\ [Next]_vars /\ IInv' /\ ServedInv' /\ CaughtUpAgrees'
        /\ Undisturbed' => [Replicas!Next]_(Replicas!vars)
  BY StepRefines
<1>2. Spec => []ServedInv
  <2>1. Init => ServedInv
    BY InitRefines
  <2> QED
    BY <2>1, ServedStep, Inductive, PTL DEF Spec
<1>3. Init => Replicas!Init
  BY InitRefines
<1> QED
  BY <1>1, <1>2, <1>3, Inductive, CaughtUpCorrect, PTL
  DEF Spec, ImplementsReplicatedMap, Replicas!Spec

=============================================================================
