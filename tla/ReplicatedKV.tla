--------------------------- MODULE ReplicatedKV ---------------------------
(***************************************************************************)
(* A cluster of nodes, each applying the log that raft commits to an       *)
(* in-memory map, a table of rows in SQLite and a deduplication set        *)
(* (fsm/fsm.go, store/, dedup/, and the startup order of main.go).         *)
(*                                                                         *)
(* Raft itself is hashicorp/raft and external: one committed log, handed   *)
(* in order to the FSM of every node by a single goroutine; applied        *)
(* positions are volatile; a restart restores the node's newest snapshot   *)
(* and re-applies the committed entries after it.  Indices count the       *)
(* commands only, as raft's own no-op entries never reach FSM.Apply.       *)
(*                                                                         *)
(* queue[n] holds the indices waiting in the BatchWriter: its current      *)
(* batch and its channel together.  Both are first-in first-out and fed in *)
(* index order, so a set of indices determines them but for the place of   *)
(* the boundary, which the actions leave open (module BatchWriter models   *)
(* it).                                                                    *)
(***************************************************************************)
EXTENDS SqliteLog

CONSTANTS Node,       \* the servers
          ChanSize,   \* BATCH_CHAN_SIZE: capacity of the writer's channel
          FlushSize,  \* BATCH_SIZE: rows per transaction
          MaxLog,     \* bound: commands committed
          Budget      \* bounds: how often each kind of disturbance happens

Disturbance == {"crash", "power", "snapshot", "install", "evict", "fail"}

ASSUME SizesAssumption ==
    /\ ChanSize \in Nat \ {0}
    /\ FlushSize \in Nat \ {0}
    /\ MaxLog \in Nat
    /\ Budget \in [Disturbance -> Nat]

VARIABLES log,      \* the committed commands (raft)
          up,       \* up[n]: the process runs
          applied,  \* applied[n]: index of the last entry given to Apply
          kv,       \* kv[n]: the in-memory map
          rows,     \* rows[n]: the SQLite table (survives a crash)
          synced,   \* synced[n]: the table that a power failure would leave
          queue,    \* queue[n]: indices waiting in the BatchWriter
          seen,     \* seen[n]: indices whose idempotency key is marked
          snap,     \* snap[n]: newest snapshot in the node's snapshot store
          spent,    \* spent[d]: disturbances of kind d so far
          taken     \* history: NoSnapshot and every snapshot ever taken

vars == <<log, up, applied, kv, rows, synced, queue, seen, snap, spent, taken>>

NoSnapshot == [idx |-> 0, data |-> EmptyMap]

\* Mutant: the index of the entry before.
RowAtPreviousIndex(l, i) == [idx |-> i - 1, key |-> l[i].key, val |-> l[i].val]

\* The LogEntry that Apply sends for log index i.
RowAt(l, i) == [idx |-> i, key |-> l[i].key, val |-> l[i].val]

---------------------------------------------------------------------------
\* Mutant: keys the map already has keep their value.
MergeKeepsOld(map, data) ==
    [k \in Key |-> IF map[k] # NoVal THEN map[k] ELSE data[k]]

\* kv.Set for every key of the snapshot: keys it does not mention stay.
Merge(map, data) ==
    [k \in Key |-> IF data[k] # NoVal THEN data[k] ELSE map[k]]

Spend(d) ==
    /\ spent[d] < Budget[d]
    /\ spent' = [spent EXCEPT ![d] = @ + 1]

Init ==
    /\ log = <<>>
    /\ up = [n \in Node |-> TRUE]
    /\ applied = [n \in Node |-> 0]
    /\ kv = [n \in Node |-> EmptyMap]
    /\ rows = [n \in Node |-> {}]
    /\ synced = [n \in Node |-> {}]
    /\ queue = [n \in Node |-> {}]
    /\ seen = [n \in Node |-> {}]
    /\ snap = [n \in Node |-> NoSnapshot]
    /\ spent = [d \in Disturbance |-> 0]
    /\ taken = {NoSnapshot}

\* raft commits a command some leader proposed; a client's retry is a
\* further command with the same idempotency key.
Commit(c) ==
    /\ Len(log) < MaxLog
    /\ log' = Append(log, c)
    /\ UNCHANGED <<up, applied, kv, rows, synced, queue, seen, snap, spent, taken>>

\* Mutant: no deduplication.
NeverDuplicate(n, idem) == FALSE

\* Mutant: a retry counts as one only while its first write is in the writer.
IsDuplicateWhileQueued(n, idem) ==
    \E i \in seen[n] \cap queue[n] : log[i].idem = idem

IsDuplicate(n, idem) == \E i \in seen[n] : log[i].idem = idem

\* BatchWriter.Send.  There is room while the channel is not full.  An
\* entry that found it full for 100ms is inserted synchronously, which may
\* fail (the error is logged and the entry goes nowhere).  By the time of
\* the insert the worker may have flushed, and SQLite may have synced, so
\* how many entries wait then says nothing about the channel before.

\* Mutant: the entry is queued under the next index.
EnqueueNextIndex(n, i) ==
    /\ Cardinality(queue[n]) < ChanSize + FlushSize
    /\ queue' = [queue EXCEPT ![n] = @ \cup {i + 1}]
    /\ UNCHANGED <<rows, spent>>

Enqueue(n, i) ==
    /\ Cardinality(queue[n]) < ChanSize + FlushSize
    /\ queue' = [queue EXCEPT ![n] = @ \cup {i}]
    /\ UNCHANGED <<rows, spent>>

\* Mutant: an entry that finds the channel full is dropped.
DropWhenFull(n, i) ==
    /\ Cardinality(queue[n]) >= ChanSize
    /\ UNCHANGED <<rows, queue, spent>>

SyncInsert(n, i) ==
    /\ rows' = [rows EXCEPT ![n] = InsertOrIgnore(@, {RowAt(log, i)})]
    /\ UNCHANGED <<queue, spent>>

SyncInsertFails(n) ==
    /\ Spend("fail")
    /\ UNCHANGED <<rows, queue>>

Send(n, i) == Enqueue(n, i) \/ SyncInsert(n, i) \/ SyncInsertFails(n)

\* Mutant: the applied index stays at a duplicate.
StopAtDuplicate(n) ==
    /\ up[n]
    /\ applied[n] < Len(log)
    /\ IsDuplicate(n, log[applied[n] + 1].idem)
    /\ UNCHANGED vars

\* FSM.Apply on an entry whose idempotency key is marked: no effect.
ApplyDuplicate(n) ==
    LET i == applied[n] + 1 IN
    /\ up[n]
    /\ i <= Len(log)
    /\ IsDuplicate(n, log[i].idem)
    /\ applied' = [applied EXCEPT ![n] = i]
    /\ UNCHANGED <<log, up, kv, rows, synced, queue, seen, snap, spent, taken>>

\* FSM.Apply on a fresh entry: kv.Set, batchWriter.Send, dedup.MarkSeen.
ApplyFresh(n) ==
    LET i == applied[n] + 1 IN
    /\ up[n]
    /\ i <= Len(log)
    /\ ~IsDuplicate(n, log[i].idem)
    /\ applied' = [applied EXCEPT ![n] = i]
    /\ kv' = [kv EXCEPT ![n][log[i].key] = log[i].val]
    /\ Send(n, i)
    /\ seen' = [seen EXCEPT ![n] = @ \cup {i}]
    /\ UNCHANGED <<log, up, synced, snap, taken>>

Apply(n) == ApplyDuplicate(n) \/ ApplyFresh(n)

\* The batch a flush writes: the oldest waiting entries up to index i.
Batch(n, i) == {j \in queue[n] : j <= i}

IsBatch(n, i) == i \in queue[n] /\ Cardinality(Batch(n, i)) <= FlushSize

\* The worker's flush: the batch goes to SQLite in one transaction and
\* leaves the writer.
Flush(n) ==
    /\ up[n]
    /\ \E i \in queue[n] :
         /\ IsBatch(n, i)
         /\ rows' = [rows EXCEPT ![n] =
                       InsertOrIgnore(@, {RowAt(log, j) : j \in Batch(n, i)})]
         /\ queue' = [queue EXCEPT ![n] = @ \ Batch(n, i)]
    /\ UNCHANGED <<log, up, applied, kv, synced, seen, snap, spent, taken>>

\* The same when the transaction fails: the batch is emptied all the same.
FlushFails(n) ==
    /\ up[n]
    /\ Spend("fail")
    /\ \E i \in queue[n] :
         /\ IsBatch(n, i)
         /\ queue' = [queue EXCEPT ![n] = @ \ Batch(n, i)]
    /\ UNCHANGED <<log, up, applied, kv, rows, synced, seen, snap, taken>>

\* The dedup cleaner evicts the marks older than the TTL: marks are set in
\* index order, so the expired ones are those up to some index c.
Evict(n) ==
    /\ up[n]
    /\ Spend("evict")
    /\ \E c \in seen[n] : seen' = [seen EXCEPT ![n] = {i \in @ : i > c}]
    /\ UNCHANGED <<log, up, applied, kv, rows, synced, queue, snap, taken>>

\* raft asks the FSM for a snapshot: what SQLite replays to, filed under
\* the index applied so far.  raft takes none when nothing is new.
Snapshot(n) ==
    /\ up[n]
    /\ applied[n] > snap[n].idx
    /\ Spend("snapshot")
    /\ snap' = [snap EXCEPT ![n] = [idx |-> applied[n], data |-> Replay(rows[n])]]
    /\ taken' = taken \cup {snap'[n]}
    /\ UNCHANGED <<log, up, applied, kv, rows, synced, queue, seen>>

\* FSM.Restore: the table is replaced, the map merged, and neither the
\* writer's queue nor the dedup marks are touched.
Restore(n, map, s) ==
    /\ \E R \in ReplaceAll(s.data) : rows' = [rows EXCEPT ![n] = R]
    /\ kv' = [kv EXCEPT ![n] = Merge(map, s.data)]
    /\ applied' = [applied EXCEPT ![n] = s.idx]
    /\ snap' = [snap EXCEPT ![n] = s]

\* Leader m sends follower n its snapshot in place of log entries that m
\* has compacted and n still lacks.
InstallSnapshot(m, n) ==
    /\ up[m] /\ up[n]
    /\ snap[m].idx > applied[n]
    /\ Spend("install")
    /\ Restore(n, kv[n], snap[m])
    /\ UNCHANGED <<log, up, synced, queue, seen, taken>>

\* The same when ReplaceAll fails: raft has filed the snapshot by then, and
\* FSM.Restore returns before it touches the map.
InstallFails(m, n) ==
    /\ up[m] /\ up[n]
    /\ snap[m].idx > applied[n]
    /\ Spend("fail")
    /\ snap' = [snap EXCEPT ![n] = snap[m]]
    /\ UNCHANGED <<log, up, applied, kv, rows, synced, queue, seen, taken>>

\* SQLite's write-ahead log reaches the disk at checkpoints only
\* (synchronous=NORMAL).
Sync(n) ==
    /\ up[n]
    /\ spent["power"] < Budget["power"]
    /\ synced' = [synced EXCEPT ![n] = rows[n]]
    /\ UNCHANGED <<log, up, applied, kv, rows, queue, seen, snap, spent, taken>>

\* What the process holds in memory is gone.
Die(n) ==
    /\ up' = [up EXCEPT ![n] = FALSE]
    /\ applied' = [applied EXCEPT ![n] = 0]
    /\ kv' = [kv EXCEPT ![n] = EmptyMap]
    /\ queue' = [queue EXCEPT ![n] = {}]
    /\ seen' = [seen EXCEPT ![n] = {}]

\* The process dies: SQLite and raft's own stores keep all they were given.
Crash(n) ==
    /\ up[n]
    /\ Spend("crash")
    /\ Die(n)
    /\ UNCHANGED <<log, rows, synced, snap, taken>>

\* The machine dies: transactions since the last checkpoint are gone too,
\* while raft's stores sync every write.
PowerLoss(n) ==
    /\ Spend("power")
    /\ Die(n)
    /\ rows' = [rows EXCEPT ![n] = synced[n]]
    /\ UNCHANGED <<log, synced, snap, taken>>

\* main(): replay SQLite into the map; raft.NewRaft then restores the
\* newest local snapshot, if there is one, before it returns.
Restart(n) ==
    /\ ~up[n]
    /\ up' = [up EXCEPT ![n] = TRUE]
    /\ IF snap[n].idx > 0
         THEN Restore(n, Replay(rows[n]), snap[n])
         ELSE /\ kv' = [kv EXCEPT ![n] = Replay(rows[n])]
              /\ UNCHANGED <<applied, rows, snap>>
    /\ UNCHANGED <<log, synced, queue, seen, spent, taken>>

\* The worker's ticker finds an empty batch: flush returns at once.
FlushNothing(n) ==
    /\ up[n]
    /\ queue[n] = {}
    /\ UNCHANGED vars

NodeStep(n) ==
    \/ Apply(n) \/ Flush(n) \/ FlushFails(n) \/ FlushNothing(n) \/ Evict(n)
    \/ Snapshot(n) \/ Sync(n) \/ Crash(n) \/ PowerLoss(n) \/ Restart(n)

Next ==
    \/ \E c \in Command : Commit(c)
    \/ \E n \in Node : NodeStep(n)
    \/ \E m, n \in Node : InstallSnapshot(m, n) \/ InstallFails(m, n)

Spec == Init /\ [][Next]_vars

\* The FSM goroutine takes the next committed entry and the worker's ticker
\* flushes a waiting batch, for ever, on a node that runs.
Fairness == \A n \in Node : WF_vars(Apply(n)) /\ WF_vars(Flush(n))

FairSpec == Spec /\ Fairness

---------------------------------------------------------------------------
(* Properties.                                                             *)

TypeOK ==
    /\ log \in Seq(Command)
    /\ up \in [Node -> BOOLEAN]
    /\ applied \in [Node -> 0 .. Len(log)]
    /\ kv \in [Node -> Map]
    /\ rows \in [Node -> SUBSET Row]
    /\ synced \in [Node -> SUBSET Row]
    /\ queue \in [Node -> SUBSET (1 .. Len(log))]
    /\ seen \in [Node -> SUBSET (1 .. Len(log))]
    /\ snap \in [Node -> [idx : 0 .. Len(log), data : Map]]
    /\ spent \in [Disturbance -> Nat]

\* No command is a retry of an earlier one.
NoRetries == \A i \in 1 .. Len(log) : Effective(log, i)

\* No snapshot was taken so far, and no idempotency mark has expired in a
\* log that has retries.
Undisturbed == spent["snapshot"] = 0 /\ (spent["evict"] = 0 \/ NoRetries)

\* The node has re-applied everything its table already held.
CaughtUp(n) == up[n] /\ \A r \in rows[n] : r.idx <= applied[n]

\* A node that has caught up serves exactly the state that the log defines
\* at its applied index, whatever was replayed from SQLite, applied again,
\* flushed late, written out of order or lost before (fsm.go Apply,
\* main.go startup).
CaughtUpAgrees ==
    Undisturbed =>
        \A n \in Node : CaughtUp(n) => kv[n] = StateAt(log, applied[n])

\* SQLite holds each write once, at its own index, and never the retry of
\* a write, although entries are applied again after every restart and the
\* dedup set is empty then.
RowsExactlyOnce ==
    Undisturbed =>
        \A n \in Node : \A r \in rows[n] :
            /\ r.idx \in 1 .. Len(log)
            /\ Effective(log, r.idx)
            /\ r = RowAt(log, r.idx)

\* As long as no insert failed, every write applied on a running node is in
\* its table or still waiting in its writer (batch.go: entries are never
\* silently dropped).
StoredOrQueued ==
    Undisturbed /\ spent["fail"] = 0 =>
        \A n \in Node : \A i \in 1 .. applied[n] :
            Effective(log, i) => i \in queue[n] \/ RowAt(log, i) \in rows[n]

\* The replicas that readers see implement ReplicatedMap: a node is live
\* from the moment it has caught up until it crashes.
ReplicaMode(n) ==
    CASE ~up[n] -> "down"
      [] CaughtUp(n) -> "live"
      [] OTHER -> "recovering"

Replicas ==
    INSTANCE ReplicatedMap WITH mode <- [n \in Node |-> ReplicaMode(n)],
                                pos <- applied, store <- kv

ImplementsReplicatedMap == Replicas!Spec

\* A node that stays up ends with the state of the whole log in its map,
\* and with every write in its table if no insert failed.
Converges ==
    \A n \in Node :
        <>[]up[n] => <>[](/\ applied[n] = Len(log)
                          /\ kv[n] = StateAt(log, Len(log)))
Drains ==
    \A n \in Node :
        <>[]up[n] => <>[](/\ queue[n] = {}
                          /\ spent["fail"] = 0 =>
                               \A i \in 1 .. Len(log) :
                                 Effective(log, i) => RowAt(log, i) \in rows[n])

(* Snapshots.                                                              *)

Exact(s) == s.data = StateAt(log, s.idx)

\* A snapshot of a node that never restored one, has caught up, lost no
\* insert and has nothing left in its writer is exact.
QuietSnapshotIsExact ==
    [][\A n \in Node :
         /\ snap'[n].idx > snap[n].idx
         /\ applied'[n] = applied[n]
         /\ Undisturbed
         /\ spent["fail"] = 0
         /\ CaughtUp(n)
         /\ queue[n] = {}
         => snap'[n].data = StateAt(log, snap'[n].idx)]_vars

\* No write that snapshot s contains is sent again: the dedup set, which
\* snapshots do not carry, could not tell.
NoRetryOf(s) ==
    \A j \in 1 .. s.idx, i \in 1 .. Len(log) :
        log[i].idem = log[j].idem => i = j

\* Every snapshot so far was exact, none of its writes is sent again, and
\* no mark has expired in a log that has retries.  Snapshots that have been
\* replaced count too: the rows they left in a table outlive them.
Trustworthy ==
    /\ \A s \in taken : Exact(s) /\ NoRetryOf(s)
    /\ spent["evict"] = 0 \/ NoRetries

\* No key is behind the node's applied index; one that was replayed from
\* SQLite may be ahead of it.
NotBehind(n) ==
    \A k \in Key : \E i \in applied[n] .. Len(log) : kv[n][k] = StateAt(log, i)[k]

\* fsm.go 140-142 and sqlite.go 127-130: restoring a snapshot, on a follower
\* that lags, after a restart, or after an install that failed half way,
\* never leaves a key behind, as long as the snapshots can be trusted.
RestoreIsSound == Trustworthy => \A n \in Node : up[n] => NotBehind(n)

(* Claims of the repository that the code does not keep.                   *)

\* fsm.go 101: "On crash, raft will re-apply from BoltDB so no data is
\* lost."  A node that has applied the whole log serves every key written.
NoDataLost ==
    \A n \in Node : up[n] /\ applied[n] = Len(log) =>
        \A i \in 1 .. Len(log) : kv[n][log[i].key] # NoVal

\* fsm.go 9-10: "Every node runs the SAME FSM code on the SAME entries in the
\* SAME order.  That's how all three nodes end up with identical state."
\* Nodes at one index, with nothing left to re-apply, hold the same map.
ReplicasAgree ==
    \A m, n \in Node :
        CaughtUp(m) /\ CaughtUp(n) /\ applied[m] = applied[n] => kv[m] = kv[n]

\* sqlite.go 127-130: ReplaceAll is there so that a node that installs a
\* snapshot never replays "a stale SQLite log instead of the authoritative
\* snapshot state".  With exact snapshots and an empty writer, the table
\* replays to the map the node serves.
TableMirrorsMap ==
    \A n \in Node :
        (\A m \in Node : Exact(snap[m])) /\ up[n] /\ queue[n] = {} =>
            Replay(rows[n]) = kv[n]

===========================================================================
