# A TLA+ specification of the replicated key-value store

This directory specifies the program in `src/`: a key-value store replicated
over `hashicorp/raft`, with an in-memory map, a SQLite log written in batches,
idempotency keys that expire, and HTTP nodes that forward writes to the leader.
TLC checks small instances; TLAPS proves every safety property that a passing
run checks, all refinements among them, for every number of nodes, keys and
values.

    tlc -workers 2 -config KV_core.cfg MCReplicatedKV.tla     # one run
    tlapm ReplicatedKV_agreement.tla                          # one set of proofs

## 1. Inventory

| component | state | operations | talks to |
|---|---|---|---|
| FSM (`fsm/fsm.go`) | none of its own | `Apply`, `Snapshot`, `Restore`, `Persist` | called by raft's FSM goroutine; calls KV, dedup, batch writer, SQLite |
| KV (`store/kv.go`) | the map | `Set`, `Get` | FSM and startup write, GET handlers read |
| SQLite log (`store/sqlite.go`) | table `kv_log`, keyed by log index | `Replay`, `ReplaceAll`, `INSERT OR IGNORE`, `Close` | one connection, shared by worker, synchronous fallback, snapshot |
| Batch writer (`store/batch.go`) | channel, the worker's batch | `Send`, `Stop`, the worker `run` | FSM goroutine sends, worker writes SQLite, `main` stops it |
| Dedup (`dedup/dedup.go`) | map from idempotency key to time | `IsDuplicate`, `MarkSeen`, `evict`, `Stop` | FSM goroutine and cleaner goroutine |
| Raft wrapper (`cluster/raft.go`) | raft's own | `IsLeader`, `LeaderHTTPAddr`, `Apply` | HTTP handlers; `hashicorp/raft` calls the FSM |
| PUT path (`server/http.go`, `forward.go`) | a semaphore; one goroutine per request | `handlePut`, `applyAsLeader`, `forwardWithRetry`, `forwardToLeader` | handlers of other nodes over HTTP, raft |
| read-only handlers (`server/http.go`) | none | `handleGet`, `handleStatus`, `handleHealth`, `handleMetrics` | KV, raft, metrics |
| startup and shutdown (`main.go`) | none | replay, start raft; stop writer, stop raft, close | all of the above |
| metrics (`metrics/metrics.go`) | latency ring, counters, throughput window | `Record`, `Percentiles`, ... | every component |

What is hard here, and what has to hold all the same:

- **Crash and re-application.** Raft's applied index is volatile, so a restart
  hands the whole log (or what follows the newest snapshot) to `Apply` again,
  on top of a map replayed from SQLite and with an empty dedup set. No write
  may be lost, repeated or reordered by that.
- **A write is visible before it is durable.** `Apply` sets the map and marks
  the key; the row waits in a channel, can be written out of order by the
  synchronous fallback, and a failed batch is emptied all the same. With
  `synchronous=NORMAL` a power failure even takes committed rows back.
- **Snapshots** are read from SQLite, behind the applied index; restoring one
  replaces the table under synthetic indices, merges the map, and leaves the
  writer's queue and the dedup set alone.
- **One PUT can be committed several times**, also after its client was told of
  a failure or has given up, and after another client's later write to the same
  key was acknowledged. What clients read must not show it.
- **Eviction by the wall clock**, on each node separately, inside what should
  be a deterministic state machine.
- **Leadership moves** between any two steps of a PUT; forwards nest, time out
  and leave handlers behind, and every handler holds a slot of a bounded
  semaphore while it waits.
- **Shutdown** stops the writer before raft stops feeding it.

`PROJECT.json` lists the components, the hazards line by line with the
properties aimed at them, and the source lines of every definition.

## 2. Modules

| module | what it is |
|---|---|
| `CommittedLog` | commands; `StateAt(log, a)`, the map a prefix of the log defines: of the commands with one idempotency key only the first counts, the last effective write decides a key |
| `SqliteLog` | the table as a set of rows: `Replay`, `InsertOrIgnore`, `ReplaceAll` |
| `ReplicatedKV` | the core: all nodes with map, table, writer queue, dedup marks, snapshots; crash and restart |
| `ReplicatedMap` | abstract specification of what readers see |
| `BatchWriter` | the writer's goroutines and `main`'s shutdown, step by step |
| `AsyncLog` | abstract specification of the writer |
| `PutPath` | a PUT from the client's request to its answer, over several nodes |
| `PutService` | abstract specification of the PUT path: what a client may rely on |
| `Service` | clients and the PUT path, as `PutService` leaves it, composed with `ReplicatedKV`: what a GET answers after a PUT |
| `Dedup` | the marks in discrete time, with the cleaner |
| `LatencyRing` | the latency ring buffer and its percentiles |
| `Metrics` | the latency ring and the throughput window |
| `MCReplicatedKV`, `MCPutPath`, `MCService` | constants, bounds and symmetry for TLC |
| `ReplicatedKV_proofs`, `ReplicatedKV_agreement` | type correctness of the core; its invariants and its refinement |
| `Snapshots_proofs`, `Service_proofs` | theorems about snapshots and about clients, both on top of `ReplicatedKV_agreement` |
| `PutPath_proofs`, `BatchWriter_proofs`, `Dedup_proofs`, `Metrics_proofs` | theorems about these modules; the last one about `LatencyRing` too |

How the code appears in them:

- **Raft is external.** `log` is the committed log; one goroutine hands it to
  each node in order; applied positions start again at the newest local
  snapshot after a restart. Indices count commands only: raft's own entries
  never reach `Apply`. In `PutPath` a term has one leader, a node's view only
  moves to newer terms, only the newest term's leader commits, and an `Apply`
  that fails with anything but `ErrNotLeader` may still commit later.
- **One handler, one action.** `ApplyFresh` is the whole of `FSM.Apply` on a
  fresh entry: `kv.Set`, `Send`, `MarkSeen`. `Restore` is the whole of
  `FSM.Restore`. In `ReplicatedKV` the writer is a set of waiting indices,
  since channel and batch together are a queue in index order;
  `BatchWriter` checks that the real writer behaves like that (`AsyncLog`).
  `SyncInsert` is possible whatever waits: the boundary between channel and
  batch is not part of the state, and between the time-out in `Send` and the
  insert the worker may have flushed all of it and SQLite may have synced.
- **A crash and a power failure** differ in the table they leave. `Crash` ends
  the process: SQLite keeps every committed transaction. `PowerLoss` leaves the
  table of the last `Sync`, which can happen after any step, so that any prefix
  of the transactions since may be gone: in WAL mode with `synchronous=NORMAL`
  the log is synced at checkpoints only. raft's own stores sync every write.
- **A snapshot that fails to install** (`InstallFails`): raft has filed it when
  it calls `FSM.Restore`, which returns at the failed `ReplaceAll`; the map and
  the table keep what they had, and the next restart restores the snapshot.
- **Dedup marks** are kept in `ReplicatedKV` as the log indices that set them.
  Eviction drops the marks up to some index, because marks are set in index
  order and keys expire oldest first, which `Dedup` checks
  (`OldestExpireFirst`).
- The `idempotency_key` column is written and never read by the program, so
  rows have none. `SQLiteLog.Append` is never called.
- **Handlers of PUTs** are records in `PutPath`, with the caller they serve
  and the handler that serves their own POST. `tries` is the loop of
  `forwardToLeader`, `attempt` that of `forwardWithRetry`. `Admit` is one step
  although the code asks `IsLeader` some time after it took the slot: the answer
  is as stale in the next step as it would be in that one, since leadership can
  move between `Admit` and `Apply`. `GiveUp` is a client whose time-out, or the
  server's `WriteTimeout`, has closed the connection; the handler goes on.
- **Service** keeps of the PUT path that copies of any PUT that was sent may be
  proposed at any time and any number of times, which is what `PutService`
  allows and `PutPath` implements. A handler answers after its own node has
  applied the entry, as raft's future resolves then. `before` records which
  PUTs were over when another was first sent, so that `ReadsAreCurrent` can
  tell an old value from a concurrent one.
- **`taken`** is a history variable of `ReplicatedKV`: every snapshot ever taken.
  No action reads it. `RestoreIsSound` asks whether each of them was exact, not
  only the ones that the nodes hold now: rows that an inexact snapshot left in a
  follower's table outlive it.
- **Metrics** counts time in ticks. The window moves only when `/metrics` is
  read, so readings and writes come in any order; `pending` is a history
  variable that counts writes independently of the tracker's subtraction.

Operators commented *Mutant* are not part of any specification. Each is a form
that a plausible bug would give the definition after it (a dropped reset, an
off-by-one, a missing case); `mutants` in `PROJECT.json` names the property that
TLC finds violated when it takes that definition's place. So every property of
a passing run is known to notice at least one bug.

## 3. Runs

Each passing run ends with no error; each violation run finds a counterexample
to a statement of the repository.

| run | shows |
|---|---|
| `KV_core` | `CaughtUpAgrees`, `RowsExactlyOnce`, `StoredOrQueued` over two crashes, a power failure, a failed insert and an expiry of marks |
| `KV_snapshot` | `RestoreIsSound`, `QuietSnapshotIsExact`: what snapshots do right |
| `Service` | an acknowledged PUT is read back (`ReadsAreCurrent`, `AckerReadsItsWrites`); the nodes implement `ReplicatedMap`; `Converges`, `Drains` |
| `BW` | nothing dropped or reordered, `Send` returns, what waits is settled, the writer implements `AsyncLog` |
| `Put` | 200 means committed; the path implements `PutService`; forwards follow terms; handlers only move forward (`HandlersAdvance`); every PUT is answered; all handlers end |
| `Dedup` | the retry window is kept to the tick, marks expire in bounded time, oldest first |
| `Metrics` | the ring holds the newest samples; percentiles are nearest-rank; a rate counts the writes of its own window |
| `KV_snapshot_loss` | `NoDataLost` fails (`fsm.go:101`) |
| `KV_evict_diverge` | `ReplicasAgree` fails (`fsm.go:9-10`) |
| `KV_stale_queue` | `TableMirrorsMap` fails (`sqlite.go:127-130`) |
| `BW_shutdown` | `ShutdownStoresAll` fails (`main.go:144-147`) |
| `Put_retry` | `RetryAsksForLeader` fails (`forward.go:34-36`) |

The largest passing run is `KV_snapshot` with 1.6 million distinct states, about
two minutes with two workers; `KV_core` has 520,000, `Put` 360,000,
`Metrics` 230,000, `Service` 215,000, `BW` 47,000 and `Dedup` 30,000.

Bounds, and why they are enough:

- `KV_core` has one node: without snapshots nodes share nothing but the log, so
  a second one only multiplies states; the theorems cover any number. Channel
  of one, batch of two: with a queue of three the channel is full, and not,
  and a flush can take part of the queue. Three commands over two keys, two
  values and three idempotency keys give two writes to one key with a retry
  before, between or after them. Two crashes and a power failure: one of them
  can hit the re-application that follows another.
- `KV_snapshot` has two nodes, two snapshots, an install, a crash, a failed
  insert or install. The second snapshot, taken on top of a restored one or
  replacing it, is only taken of a log of up to two commands (`SmallHistory`, a
  state constraint). Two keys, because with one key a snapshot and a later row
  always speak of the same key and a key that the snapshot lacks never occurs;
  three idempotency keys for three commands, so that logs with and without a
  retry arise. No mark expires in it: `KV_evict_diverge` shows what that does.
- `Service` has clients that choose a new idempotency key for every PUT, as the
  repository's README asks of them (`ServiceAssumption`): with a shared key one
  of two PUTs is dropped as a retry of the other, and what is then read back is
  not what was acknowledged. It has two PUTs to one key, one after the other or
  concurrent, and a log of three: room for one late copy of either. One node
  leads (`Leader`, a bound), the other only follows; who proposed an entry is of
  no consequence to any replica but the one that waits for it, so a second
  leader repeats these cases. A crash and a failed insert at any point, also
  while no one leads. Liveness allows no symmetry, which keeps this run the
  smallest in data.
- `BW` sends six entries through a channel of two and a batch of two, so both
  fill and wrap while two inserts fail, with the shutdown at any point.
- `Put` has two nodes and terms 1 and 2, either node leading either; three
  handlers are a forward of a forward; one slot per node makes a node that
  forwards to itself wait for its own slot. Two instead of three attempts and
  tries leave a first, a last and no middle one, which is treated as the first.
  One client, one request sent once: the nodes' own retries multiply it. That
  the path stays a `PutService` when a client sends its PUT again is covered by
  the theorem only; what the replicas then serve is `Service`'s subject, where
  copies are unlimited but for the log.
- `Dedup` runs for four TTLs with a TTL that is not a multiple of the cleaning
  interval. It follows one process from start to end; that a restart empties
  the marks is `ReplicatedKV`'s subject. `Metrics` has a ring of three and five samples, so it wraps and
  overwrites; six ticks hold up to five windows of two ticks or one that is much
  longer, with three writes to spread over them.

`CHECK_DEADLOCK FALSE` is set for `Dedup` only: there the clock ends at its
bound. Elsewhere the system idles by
steps of its own (the ticker finds nothing to flush, no request is under way,
the process has exited, `/metrics` is read).

`ReplicatedKV`'s properties say under which circumstances they hold.
`Undisturbed` is: no snapshot was taken so far, and no mark has expired in a log
that contains a retry. Both halves are needed: the runs `KV_snapshot_loss`,
`KV_stale_queue` and `KV_evict_diverge` show what happens otherwise. For the
same reason `Service` has no snapshots and no expiry of marks. `RestoreIsSound`
assumes that all snapshots so far were exact and that no write contained in one
is sent again, because a snapshot carries no idempotency keys, and that no mark
has expired in a log that contains a retry (`Trustworthy`); retries of other
writes are in. `AckerReadsItsWrites` has no condition on how far the node has
come: the node that answered 200 has applied the entry, and keeps serving it, or
a later one, until it goes down. After a restart that is not so until it has
caught up again (`ReplicatedMap`'s mode "recovering").

### Fairness

- `ReplicatedKV`: weak fairness of `Apply(n)` (raft's FSM goroutine takes the
  next committed entry) and of `Flush(n)` (the worker's ticker, every
  `FLUSH_INTERVAL_MS`). Nothing forces a commit or a restart: `Converges` and
  `Drains` speak of a node that stays up. `Service` adds no fairness: clients
  need not come back and handlers need not answer.
- `BatchWriter`: weak fairness of the FSM goroutine in `Send`, of the worker,
  and of `main` once it shuts down. A transaction ends; neither new entries nor
  the signal are guaranteed. The worker as a whole is fair, not each `case` of
  its `select`: Go chooses at random, which no property needs.
- `PutPath`: each handler takes a step when it can; its sleeps and time-outs
  end, and raft resolves every `Apply`. No election is guaranteed, so the
  liveness holds without a leader too.

## 4. Proofs

Each theorem holds for every set of nodes, keys, values, idempotency keys and
requests and every size and bound. The assumptions are on constants only, and
TLC evaluates them in every run of their module: sizes are positive, bounds are
natural numbers; `Key` is finite (`KeyAssumption`, for the number of rows of a
restored snapshot); `NoVal` is no value; in `Dedup` the cleaner's lag is less
than its interval; in `Service` each PUT has its own idempotency key.

| module | theorems |
|---|---|
| `ReplicatedKV_proofs` | `TypeCorrect` |
| `ReplicatedKV_agreement` | `CaughtUpCorrect`, `ExactlyOnceCorrect`, `StoredOrQueuedCorrect`, `ReplicasAgreeUndisturbed`, `ReplicasImplementReplicatedMap` |
| `Snapshots_proofs` | `QuietSnapshotIsExactCorrect`, `RestoreIsSoundCorrect`, `AppliedAllIsState`, `NoDataLostWhenTrustworthy`, `TableMirrorsMapUndisturbed` |
| `Service_proofs` | `ServiceImplementsReplicatedMap`, `ReadsAreCurrentCorrect`, `AckerReadsItsWritesCorrect` |
| `PutPath_proofs` | `PutTypeCorrect`, `ForwardsFollowTermsCorrect`, `PutPathImplementsPutService`, `OkIsCommittedCorrect`, `HandlersAdvanceCorrect`, `WaitingClientsHaveOneHandler`, `SlotsAreKept`, `ForwardsAreBounded` |
| `BatchWriter_proofs` | `WriterTypeCorrect`, `WriterIsBoundedCorrect`, `NeverDroppedCorrect`, `WaitingInOrderCorrect`, `BatchWriterImplementsAsyncLog`, `WriterKeepsTheLimits`, `DatabaseOutlivesSend`, `ShutdownLosesOnlyWhatWaits` |
| `Dedup_proofs` | `DedupTypeCorrect`, `MarksExpireCorrect`, `RetryWindowKeptCorrect`, `OldestExpireFirstCorrect` |
| `Metrics_proofs` | `RankIsNearest`, `RingTypeCorrect`, `RingHoldsNewestCorrect`, `PercentilesCorrect`, `MetricsRingCorrect`, `RatesCountTheirWindowCorrect` |

Every safety property that a passing run checks, invariant, action property or
refinement, is the statement of one of these theorems.

### The core

- `TypeOK` is not inductive: that `Replay` yields a map needs a row with the
  largest index for every key it finds. `TypeInv` adds that the indices in
  each table are bounded, which a synchronous insert, a flush and `ReplaceAll`
  preserve.
- `CaughtUpAgrees` speaks of caught-up nodes only, and a node on its way there
  has a map that mixes newer and older writes. `SafeInv` says, while
  `Undisturbed`, of every node (`NodeInv`): the marks are exactly the effective
  indices applied since the start (`MarksInv`); only those wait in the writer
  (`QueueInv`); every row is an effective write at its own index (`RowsInv`);
  without failed inserts each marked index waits or is stored (`StoredInv`);
  and each key has the value the log gives it at the applied index, or the
  table holds a later write to it that is still to be re-applied (`MapInv`).
  After a power failure the same holds of what `Sync` saved, so `RowsInv` covers
  both tables. In a log without retries marks may expire: then `MarksInv` says
  only that marks are effective indices, which is all that is needed there.
  `Apply` keeps `MapInv`: it gives one key its value at the next index, and a
  row at that very index, which no longer counts as still to come, is that
  entry's own. `DownInv` says that a stopped node has applied nothing, so a
  restart begins at index 0 with an empty dedup set.
- `CaughtUpCorrect`, `ExactlyOnceCorrect` and `StoredOrQueuedCorrect` follow
  from `IInv`; `ReplicasAgreeUndisturbed` follows from the first: the claim of
  `fsm.go:9-10` is true as long as the log is `Undisturbed`.
- `ReplicasImplementReplicatedMap` has `[]Undisturbed` as a premise, since the
  claim is false without it. `ServedInv` adds that even a mixed map consists of
  committed values only. Then each step is sorted by what a reader can see of it
  (`WorkSteps`): an entry is committed; a node applies one, dies or returns; or
  all nodes keep map, index and mode (`Quiet`). The work is in showing
  that a caught-up node stays caught up: rows only appear at indices
  that the node has applied (`RowsGrow`).

### Snapshots

`RestoreIsSound` needs all snapshots there ever were: the first wording asked
only that the snapshots which the nodes hold now are exact. That is not
enough. An inexact snapshot can be installed on a follower, leave its rows and
its map there, and then be replaced by a later, exact one whose install failed;
nothing inexact is left but the follower's table. Such a history takes two
snapshots, an install and a failed install, one snapshot more than the run had.
So `taken` was added to `ReplicatedKV`, and a second snapshot to the run.

`SnapshotInv` says, while `Trustworthy`, of every node (`RestoreInv`): until one
expires, its marks cover all that it applied and that no snapshot contains
(`CoveredInv`), so the retry of a write is recognised by its mark, or there is
none because a snapshot has the write; no retry waits in its writer
(`WriterInv`); each row of its two tables, also a synthetic one, has a value its
key had in some state of the log (`TableInv`), which is why a map replayed from
rows of different age is never behind index 0; and the map is not behind the
applied index (`NotBehind`). `Merge` keeps that because it overwrites every key
with a value, and a key that has none in an exact snapshot had none before.

Three statements of the repository are false in general and refuted by runs.
What is true of them is proved in the module's last section.
`AppliedAllIsState`: while `Trustworthy`, a running node that has applied the
whole log holds the state of the log, since nothing in its map can be newer
than that; this is where `Converges` ends. `NoDataLostWhenTrustworthy` is then a
matter of the log alone: a retry is for the key of its PUT (`OneKeyPerRetry`),
so every key in the log has an effective write. `TableMirrorsMapUndisturbed`:
until the first snapshot, and without failed inserts, the table of a caught-up
node with an empty queue has a row for every effective write it applied, and
replays to the map.

### Clients

`ClientInv` relates what clients know to the log: entries are copies of PUTs that
were asked for; an acknowledged index holds a copy of its PUT; every copy of a
PUT that was sent after another one's acknowledgement lies behind that
acknowledged copy (`OrderInv`); a handler that waits for an entry is on a node
whose table, up to that entry, has been re-applied or lies behind
(`WaitingInv`), so that the node has caught up when it answers (`AckerInv`). The
node then serves the last effective write to the key. By
`CaughtUpAgrees` this write is not before the first copy of the acknowledged
PUT, and if it were of a PUT that was over when the acknowledged one was sent,
it would be a later copy of it and not effective. The refinement needs no
premise here: `ServiceNext` takes no snapshot and lets no mark expire.

### The PUT path

`IInv` says of each handler what its program counter implies (`OwnInv`); that a
handler and the one that answers its POST belong together, for the same PUT, on
the node it forwards to, and that once the second has found that its node does
not lead, this node no longer leads the first one's term, and it forwards to the
leader of a newer one (`ChildInv`); that no two handlers answer one client
(`ClientInv`); and that the leader of a term knows it (`TermInv`), which is what
rules out a circle: the node forwarded to knows the forwarder's term, so
whatever other leader it takes up is one of a newer term. The step that takes
most is `Crash`, which ends all handlers of a node, answers some of their
clients and leaves the callers of others alone. In the refinement each step
asks, commits, acknowledges, refuses a set of clients or changes nothing that a
client sees.

`PutIsAnswered` and `HandlersEnd` themselves are out of the prover's reach, but
fairness is all that is missing. A client that waits has exactly one handler
that owes it an answer (`WaitingClientsHaveOneHandler`). A handler that arrives
can be admitted or turned away, because no more than `maxConcurrent` slots are
ever taken (`SlotsAreKept`); at every other place the guards of its steps leave
no gap. And each of its steps ends it or lowers `StepsLeft`, a number between 0
and a bound (`StepsLeftRange`), which nothing else raises
(`HandlersAdvanceCorrect`, from `Forward`, what any step may do to the handlers
that run). The multiplication by the steps per attempt is kept behind `LeftFrom`
and its four facts, so that the lemma of each action is linear arithmetic.
`ForwardsAreBounded` adds up `ForwardsFollowTerms` along a chain of callers: the
terms rise from 1, by a least counterexample, and end at the newest.

### The writer, dedup and metrics

- `BatchWriter`: batch and channel are treated as one sequence (`Line`) that
  grows at the end and is emptied from the front; `NeverDropped` and
  `WaitingInOrder` are inductive together, with `ShapeInv` for the sizes. A
  step of the worker between the two is a stutter of `AsyncLog`, the end of a
  transaction is `Store` or `Lose` of all indices up to the batch's last.
  `WriterKeepsTheLimits` adds the sizes that `Enqueue` and `Flush` of
  `ReplicatedKV` assume: what waits fits into channel and batch, and what leaves
  in a step is the batch.  It ends where the shutdown begins, since a drained
  batch can outgrow the flush size.
  `StopInv` adds that the worker drains only once the shutdown has begun and
  returns with an empty batch, and that nobody is in `Send` once raft is down. With `NeverDropped` that settles what a shutdown
  can leave out, the entries still in channel or batch, and that the fallback
  insert never meets a closed database.
- `Dedup`: `MarkInv` ties the marks to the history of writes, `ScheduleInv` the
  age of the oldest mark to the cleaner's last tick. A pass that has computed its
  cutoff and waits for the lock is covered: while it waits its cutoff only gets
  more cautious.
- `LatencyRing`: `RingInv` says which sample each slot holds on either side of
  the head; `Metrics` inherits it, since its other steps leave the ring alone.
  `TrackerInv`: the count of the open window is what was written since. `Rank` is
  proved to be the nearest rank; the code computes `ceil(pct/100*n)` in floating
  point, and the integer form agrees with it for the three percentages and every
  `n` the ring can hold. `PercentilesCorrect` needs no more of the sort than its
  promise: `Sorted` chooses an ordering among the rearrangements, and one exists
  (`SortExists`): the samples are ranked by value and, among equals, by place,
  and a rank counts the samples before it. A rearrangement has as many samples
  up to any value as the ring (`CountOfRearrangement`), so the rank counted in
  the sorted samples is the rank in the ring.

### Model-checked only

- Liveness: `Converges`, `Drains`, `SendComesBack`, `WaitingIsSettled`,
  `PutIsAnswered`, `HandlersEnd`. It rests on fairness and `ENABLED`, which are
  out of TLAPS' reach; so are the fairness conjuncts of specifications, which
  the theorems do not use.
- The violated claims: a counterexample needs no proof.

## 5. What the checks found

Four places where the code does not do what it says, each with a run
(`findings` in `PROJECT.json`): a snapshot that misses queued entries loses them
at the next crash; eviction by local clocks lets replicas diverge; a batch
flushed after `Restore` overrules the snapshot in SQLite; a graceful shutdown
does not wait for the drain. One comment is ahead of the code: the retry loop
in `forwardToLeader` never asks for the leader again, so a retry can go to one
server while the node knows that another one leads (`RetryAsksForLeader` compares
the servers, not the terms: one server may lead both).

Some documentation is simply outdated and no run is spent on it: the
repository's README describes the dedup set as an unbounded `map[string]bool`,
and says that after a restart a retry could be applied twice. Without a
snapshot it cannot: re-application from index 0 rebuilds the marks
(`RowsExactlyOnce`, proved).

## 6. Not modelled

- The inside of `hashicorp/raft`, SQLite and `net/http`. Raft's fallback to the
  older of the two snapshots it keeps, when the newest cannot be restored, is left
  out: a restart that fails to restore any snapshot ends the process.
- Draining of HTTP requests before the shutdown: `Shutdown` waits up to ten
  seconds and `main` goes on, which for a handler is a crash of its node at any
  point, as `PutPath` has it.
- Request validation (answered before anything changes), `handleStatus` and
  `handleHealth` (they format what raft reports), configuration, Swagger.
- The counters other than `totalWrites` and the two gauges: nothing reads them.
- Wall-clock time in `PutPath`: every time-out can fire whenever it is armed.
- Power failures together with snapshots, and clients above either: the
  instances grow past what TLC finishes.

## 7. Plan

Done: the core with crashes, power failures and failed installs, its abstract
specification, the writer, the PUT path and what it promises, clients over the
replicas, dedup, the metrics; and the theorems of section 4. Next:

1. compose `BatchWriter` and `ReplicatedKV`: the steps and sizes of the writer
   are proved to be those the core assumes (`WriterKeepsTheLimits`), but one
   node's FSM on top of the real writer is not yet a module of its own;
2. the same for `PutService` and `Service`: that every history of PUTs and
   answers that `PutService` has is one of `Service`'s clients;
3. power failures in the runs with snapshots, once the instances allow it (the
   theorems have them already).
