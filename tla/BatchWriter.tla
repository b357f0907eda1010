---------------------------- MODULE BatchWriter ----------------------------
(***************************************************************************)
(* The asynchronous SQLite writer of store/batch.go with the goroutines    *)
(* around it: raft's FSM goroutine calling Send, the worker goroutine in   *)
(* run, and main() shutting the process down (main.go).                    *)
(*                                                                         *)
(* Only the index of an entry matters here.  The database has a single     *)
(* connection (SetMaxOpenConns(1)): a synchronous insert waits while the   *)
(* worker's transaction holds it.                                          *)
(***************************************************************************)
EXTENDS Integers, Sequences, Functions

CONSTANTS ChanSize,   \* BATCH_CHAN_SIZE
          FlushSize,  \* BATCH_SIZE
          MaxEntry,   \* bound: entries that raft delivers
          MaxFail     \* bound: inserts that fail while the database is open

ASSUME WriterAssumption ==
    /\ ChanSize \in Nat \ {0}
    /\ FlushSize \in Nat \ {0}
    /\ MaxEntry \in Nat
    /\ MaxFail \in Nat

VARIABLES sent,      \* entries for which Apply has called Send
          sender,    \* where the FSM goroutine is in Send
          ch,        \* the channel
          batch,     \* the worker's batch
          worker,    \* where the worker is in run
          draining,  \* the worker has seen stop
          rows,      \* the indices in the table
          lost,      \* the indices whose insert failed
          fails,     \* failed inserts so far
          main       \* how far main() is in its shutdown

senderVars == <<sent, sender, ch>>
workerVars == <<batch, worker, draining>>
tableVars == <<rows, lost, fails>>
vars == <<senderVars, workerVars, tableVars, main>>

SenderPc == {"idle", "select", "blocked", "fallback"}
WorkerPc == {"select", "flush", "tx", "exited"}
MainPc == {"serving", "stopped", "raftDown", "dbClosed", "exited"}

Running == main # "exited"
DbOpen == main \notin {"dbClosed", "exited"}

Init ==
    /\ sent = 0
    /\ sender = "idle"
    /\ ch = <<>>
    /\ batch = <<>>
    /\ worker = "select"
    /\ draining = FALSE
    /\ rows = {}
    /\ lost = {}
    /\ fails = 0
    /\ main = "serving"

---------------------------------------------------------------------------
(* The FSM goroutine in Send.                                              *)

\* raft delivers the next entry; it does so until its shutdown is over.
CallSend ==
    /\ main \in {"serving", "stopped"} /\ sender = "idle"
    /\ sent < MaxEntry
    /\ sent' = sent + 1
    /\ sender' = "select"
    /\ UNCHANGED <<ch, workerVars, tableVars, main>>

\* Mutant: the index of the entry before is queued.
EntryBefore == sent - 1

\* The entry that Send was called with.
Entry == sent

\* case bw.ch <- e: there is room.
SendQueues ==
    /\ sender = "select" /\ Len(ch) < ChanSize
    /\ ch' = Append(ch, Entry)
    /\ sender' = "idle"
    /\ UNCHANGED <<sent, workerVars, tableVars, main>>

\* No case is ready: the goroutine waits for room or for its timer.
SendBlocks ==
    /\ sender = "select" /\ Len(ch) = ChanSize
    /\ sender' = "blocked"
    /\ UNCHANGED <<sent, ch, workerVars, tableVars, main>>

\* Mutant: after the timeout Send tries the channel again.
TryAgain == "select"

AfterTimeout == "fallback"

\* case <-time.After(100ms): the channel stayed full.
SendTimesOut ==
    /\ sender = "blocked"
    /\ sender' = AfterTimeout
    /\ UNCHANGED <<sent, ch, workerVars, tableVars, main>>

\* Mutant: after the timeout the entry is dropped.
Drop(e) == rows

InsertOne(e) == rows \cup {e}

\* insertOne, once the worker does not hold the connection.
SyncInsert ==
    /\ sender = "fallback" /\ worker # "tx" /\ DbOpen
    /\ rows' = InsertOne(Entry)
    /\ sender' = "idle"
    /\ UNCHANGED <<sent, ch, workerVars, lost, fails, main>>

SyncInsertFails ==
    /\ sender = "fallback" /\ worker # "tx"
    /\ fails < MaxFail
    /\ fails' = fails + 1
    /\ lost' = lost \cup {Entry}
    /\ sender' = "idle"
    /\ UNCHANGED <<sent, ch, workerVars, rows, main>>

---------------------------------------------------------------------------
(* The worker goroutine in run.                                            *)

\* Mutant: the newest entry goes first.
PutFirst(b, e) == <<e>> \o b

PutLast(b, e) == Append(b, e)

\* e := <-bw.ch.  A sender blocked on the full channel gets the freed slot
\* in the same step, as Go's runtime hands it over.
TakeFromChannel ==
    /\ ch # <<>>
    /\ batch' = PutLast(batch, Head(ch))
    /\ IF sender = "blocked"
         THEN ch' = Append(Tail(ch), Entry) /\ sender' = "idle"
         ELSE ch' = Tail(ch) /\ UNCHANGED sender

\* Mutant: off by one.
IsOverfull(b) == Len(b) > FlushSize

IsFull(b) == Len(b) >= FlushSize

WorkerReceives ==
    /\ worker = "select" /\ ~draining
    /\ TakeFromChannel
    /\ worker' = IF IsFull(batch') THEN "flush" ELSE "select"
    /\ UNCHANGED <<sent, draining, tableVars, main>>

\* Mutant: only a full batch is flushed.
FullBatchWaits == IsFull(batch)

BatchWaits == batch # <<>>

\* case <-ticker.C; a flush of an empty batch returns at once.
WorkerTicks ==
    /\ worker = "select" /\ ~draining
    /\ BatchWaits
    /\ worker' = "flush"
    /\ UNCHANGED <<senderVars, batch, draining, tableVars, main>>

\* case <-bw.stop, possible as soon as Stop has closed the channel.
WorkerSeesStop ==
    /\ worker = "select" /\ ~draining /\ main # "serving"
    /\ draining' = TRUE
    /\ UNCHANGED <<senderVars, batch, worker, tableVars, main>>

\* The drain loop batches without regard to flushSize.
WorkerDrains ==
    /\ worker = "select" /\ draining
    /\ TakeFromChannel
    /\ UNCHANGED <<sent, worker, draining, tableVars, main>>

\* The channel is empty at this moment: last flush, then return.
WorkerLeavesDrain ==
    /\ worker = "select" /\ draining /\ ch = <<>>
    /\ worker' = IF batch = <<>> THEN "exited" ELSE "flush"
    /\ UNCHANGED <<senderVars, batch, draining, tableVars, main>>

\* bw.db.Begin() takes the connection.
WorkerBegins ==
    /\ worker = "flush" /\ DbOpen
    /\ worker' = "tx"
    /\ UNCHANGED <<senderVars, batch, draining, tableVars, main>>

\* Mutant: the batch is not reset.
KeptBatch == batch

\* batch = batch[:0]
ResetBatch == <<>>

\* Whatever became of its rows, the batch is over.
EndFlush ==
    /\ batch' = ResetBatch
    /\ worker' = IF draining THEN "exited" ELSE "select"
    /\ UNCHANGED <<senderVars, draining, main>>

\* tx.Commit(); a transaction that has begun may end after db.Close().
WorkerCommits ==
    /\ worker = "tx"
    /\ rows' = rows \cup Range(batch)
    /\ EndFlush
    /\ UNCHANGED <<lost, fails>>

\* insertBatch returns an error: Begin on a closed database, or any failure
\* while it is open.
WorkerInsertFails ==
    /\ \/ worker = "flush" /\ ~DbOpen /\ UNCHANGED fails
       \/ worker \in {"flush", "tx"} /\ fails < MaxFail /\ fails' = fails + 1
    /\ lost' = lost \cup Range(batch)
    /\ EndFlush
    /\ UNCHANGED rows

---------------------------------------------------------------------------
(* main() after the shutdown signal.                                       *)

\* batchWriter.Stop(): closes the stop channel and does not wait.
StopWriter == main = "serving" /\ main' = "stopped"

\* Raft.Shutdown().Error(): waits for raft's goroutines to return, the one
\* that runs the FSM included.
ShutdownRaft == main = "stopped" /\ sender = "idle" /\ main' = "raftDown"

CloseDb == main = "raftDown" /\ main' = "dbClosed"

\* main returns: the other goroutines die where they are.
Exit == main = "dbClosed" /\ main' = "exited"

Terminated == main = "exited" /\ UNCHANGED vars

---------------------------------------------------------------------------
SendReturns ==
    /\ Running
    /\ SendQueues \/ SendBlocks \/ SendTimesOut \/ SyncInsert \/ SyncInsertFails

Worker ==
    /\ Running
    /\ \/ WorkerReceives \/ WorkerTicks \/ WorkerSeesStop \/ WorkerDrains
       \/ WorkerLeavesDrain \/ WorkerBegins \/ WorkerCommits
       \/ WorkerInsertFails

Shutdown(step) == step /\ UNCHANGED <<senderVars, workerVars, tableVars>>

ShutdownProceeds == Shutdown(ShutdownRaft \/ CloseDb \/ Exit)

Next == CallSend \/ SendReturns \/ Worker \/ Shutdown(StopWriter)
          \/ ShutdownProceeds \/ Terminated

Spec == Init /\ [][Next]_vars

\* A goroutine that can run does, and a transaction ends.  Whether entries
\* arrive and whether the shutdown signal comes is left open.
Fairness ==
    WF_vars(SendReturns) /\ WF_vars(Worker) /\ WF_vars(ShutdownProceeds)

FairSpec == Spec /\ Fairness

---------------------------------------------------------------------------
(* Properties.                                                             *)

TypeOK ==
    /\ sent \in 0 .. MaxEntry
    /\ sender \in SenderPc
    /\ ch \in Seq(1 .. MaxEntry)
    /\ batch \in Seq(1 .. MaxEntry)
    /\ worker \in WorkerPc
    /\ draining \in BOOLEAN
    /\ rows \subseteq 1 .. MaxEntry
    /\ lost \subseteq 1 .. MaxEntry
    /\ fails \in Nat
    /\ main \in MainPc

\* The entries that Send has dealt with, and those that wait in memory.
Accepted == IF sender = "idle" THEN sent ELSE sent - 1
Waiting == Range(ch) \cup Range(batch)

\* batch.go 23 and 79, "NEVER drop the entry": while the process runs an
\* entry that Send has dealt with waits, is stored, or had its insert fail
\* with an error, and exactly one of these.
NeverDropped ==
    /\ 1 .. Accepted = rows \cup lost \cup (1 .. Accepted \cap Waiting)
    /\ Waiting \subseteq 1 .. Accepted
    /\ rows \cap lost = {} /\ Waiting \cap (rows \cup lost) = {}

\* The worker writes entries in the order in which raft applied them: what
\* waits is in order across the batch and the channel.
WaitingInOrder ==
    LET w == batch \o ch IN \A i, j \in DOMAIN w : i < j => w[i] < w[j]

\* Before the drain no transaction carries more than flushSize rows, so no
\* more than chanSize + flushSize entries ever wait (ReplicatedKV relies on
\* both).
WriterIsBounded ==
    /\ Len(ch) <= ChanSize
    /\ ~draining => Len(batch) <= FlushSize

\* The whole writer is an AsyncLog for the FSM.
Writer ==
    INSTANCE AsyncLog WITH accepted <- Accepted,
                           waiting <- IF Running THEN Waiting ELSE {},
                           stored <- rows, running <- Running

ImplementsAsyncLog == Writer!Spec

\* batch.go 81-84: Send always comes back, so the writer cannot stall raft.
SendComesBack == sender # "idle" ~> sender = "idle"

\* A waiting entry is settled, unless the process ends first.
WaitingIsSettled ==
    \A i \in 1 .. MaxEntry :
        i \in Waiting ~> i \in rows \cup lost \/ ~Running

(* A claim of the repository that the code does not keep.                  *)

\* main.go 144-147 and batch.go 103-104: a graceful shutdown flushes the
\* remaining entries to SQLite.
ShutdownStoresAll == main = "exited" => \A i \in 1 .. sent : i \in rows

===========================================================================
