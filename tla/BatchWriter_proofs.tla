------------------------- MODULE BatchWriter_proofs -------------------------
(***************************************************************************)
(* Proofs about the asynchronous SQLite writer, for a channel and a batch  *)
(* of any size and any number of entries and failures: no entry is ever    *)
(* dropped or written twice, entries stay in order, memory is bounded, the *)
(* writer implements AsyncLog within the limits that ReplicatedKV gives    *)
(* it, and a shutdown leaves out only what waits.                          *)
(***************************************************************************)
EXTENDS BatchWriter, FiniteSetTheorems, SequenceTheorems, TLAPS

---------------------------------------------------------------------------
(* The inductive invariant.                                                *)

\* Send is only under way for an entry, and a batch that the worker still
\* fills has room.
RoomInv ==
    /\ sender # "idle" => sent > 0
    /\ worker = "select" /\ ~draining => Len(batch) < FlushSize

ShapeInv == TypeOK /\ WriterIsBounded /\ RoomInv

IInv == ShapeInv /\ NeverDropped /\ WaitingInOrder

---------------------------------------------------------------------------
(* The entries that wait, as one sequence across batch and channel.        *)

Line == batch \o ch

Increasing(s) == \A i, j \in DOMAIN s : i < j => s[i] < s[j]

LEMMA Constants ==
  /\ ChanSize \in Nat \ {0} /\ FlushSize \in Nat \ {0}
  /\ MaxEntry \in Nat /\ MaxFail \in Nat
BY WriterAssumption

LEMMA LineFacts ==
  ASSUME NEW b \in Seq(1 .. MaxEntry), NEW c \in Seq(1 .. MaxEntry)
  PROVE  /\ b \o c \in Seq(1 .. MaxEntry) /\ b \o c \in Seq(Nat)
         /\ b \in Seq(Nat) /\ c \in Seq(Nat)
         /\ Range(b \o c) = Range(c) \cup Range(b)
<1> DEFINE S == 1 .. MaxEntry
<1>1. S \subseteq Nat /\ b \in Seq(S) /\ c \in Seq(S)
  OBVIOUS
<1> HIDE DEF S
<1>2. b \o c \in Seq(S) /\ Range(b \o c) = Range(b) \cup Range(c)
  BY <1>1, ConcatProperties, RangeConcatenation
<1>3. b \in Seq(Nat) /\ c \in Seq(Nat) /\ b \o c \in Seq(Nat)
  BY <1>1, <1>2, SeqMonotonic
<1> QED
  BY <1>2, <1>3 DEF S

\* Moving the head of the channel to the end of the batch leaves the line as
\* it is.
LEMMA MoveOne ==
  ASSUME NEW S, NEW b \in Seq(S), NEW c \in Seq(S), c # <<>>
  PROVE  Append(b, Head(c)) \o Tail(c) = b \o c
<1> DEFINE l == Append(b, Head(c)) \o Tail(c)
           r == b \o c
<1>1. /\ Head(c) = c[1] /\ Head(c) \in S /\ Tail(c) \in Seq(S)
      /\ Len(Tail(c)) = Len(c) - 1 /\ Len(c) \in Nat \ {0} /\ Len(b) \in Nat
      /\ \A i \in 1 .. Len(Tail(c)) : Tail(c)[i] = c[i + 1]
  BY HeadTailProperties, EmptySeq
<1>2. /\ Append(b, Head(c)) \in Seq(S) /\ Len(Append(b, Head(c))) = Len(b) + 1
      /\ \A i \in 1 .. Len(b) : Append(b, Head(c))[i] = b[i]
      /\ Append(b, Head(c))[Len(b) + 1] = c[1]
  BY <1>1, AppendProperties
<1>3. /\ l \in Seq(S) /\ Len(l) = Len(b) + Len(c)
      /\ \A i \in 1 .. Len(b) + Len(c) :
           l[i] = IF i <= Len(b) + 1 THEN Append(b, Head(c))[i]
                                     ELSE Tail(c)[i - (Len(b) + 1)]
  BY <1>1, <1>2, ConcatProperties
<1>4. /\ r \in Seq(S) /\ Len(r) = Len(b) + Len(c)
      /\ \A i \in 1 .. Len(b) + Len(c) :
           r[i] = IF i <= Len(b) THEN b[i] ELSE c[i - Len(b)]
  BY <1>1, ConcatProperties
<1> HIDE DEF l, r
<1>5. ASSUME NEW i \in 1 .. Len(b) + Len(c)
      PROVE  l[i] = r[i]
  <2>1. CASE i <= Len(b)
    BY <1>1, <1>2, <1>3, <1>4, <2>1
  <2>2. CASE i = Len(b) + 1
    BY <1>1, <1>2, <1>3, <1>4, <2>2
  <2>3. CASE i > Len(b) + 1
    <3> DEFINE k == i - (Len(b) + 1)
    <3>1. k \in 1 .. Len(Tail(c)) /\ k + 1 = i - Len(b)
      BY <1>1, <2>3
    <3>2. l[i] = Tail(c)[k] /\ r[i] = c[i - Len(b)]
      BY <1>1, <1>3, <1>4, <2>3
    <3> HIDE DEF k
    <3> QED
      BY <1>1, <3>1, <3>2
  <2> QED
    BY <1>1, <2>1, <2>2, <2>3
<1>6. l = r
  BY <1>3, <1>4, <1>5, SeqEqual
<1> QED
  BY <1>6 DEF l, r

\* A new entry at the end of the channel is at the end of the line.
LEMMA AppendToLine ==
  ASSUME NEW S, NEW b \in Seq(S), NEW c \in Seq(S), NEW e \in S
  PROVE  b \o Append(c, e) = Append(b \o c, e)
<1>1. Append(c, e) = c \o <<e>> /\ <<e>> \in Seq(S)
  BY AppendIsConcat
<1>2. b \o c \in Seq(S) /\ Append(b \o c, e) = (b \o c) \o <<e>>
  BY ConcatProperties, AppendIsConcat
<1> QED
  BY <1>1, <1>2, ConcatAssociative

LEMMA RangeOfAppend ==
  ASSUME NEW s \in Seq(Nat), NEW e \in Nat
  PROVE  Range(Append(s, e)) = Range(s) \cup {e}
<1>1. /\ DOMAIN s = 1 .. Len(s) /\ Len(s) \in Nat
      /\ DOMAIN Append(s, e) = 1 .. Len(s) + 1
      /\ \A i \in 1 .. Len(s) : Append(s, e)[i] = s[i]
      /\ Append(s, e)[Len(s) + 1] = e
  BY AppendProperties, LenProperties
<1>2. 1 .. Len(s) + 1 = 1 .. Len(s) \cup {Len(s) + 1}
  BY <1>1
<1> QED
  BY <1>1, <1>2 DEF Range

\* A line stays in order when its newest entry goes to its end.
LEMMA AppendKeepsOrder ==
  ASSUME NEW s \in Seq(Nat), NEW e \in Nat, Increasing(s),
         \A x \in Range(s) : x < e
  PROVE  Increasing(Append(s, e))
<1>1. /\ DOMAIN s = 1 .. Len(s) /\ Len(s) \in Nat
      /\ DOMAIN Append(s, e) = 1 .. Len(s) + 1
      /\ \A i \in 1 .. Len(s) : Append(s, e)[i] = s[i] /\ s[i] < e
      /\ Append(s, e)[Len(s) + 1] = e
  BY AppendProperties, LenProperties DEF Range
<1> QED
  BY <1>1 DEF Increasing

\* Of a line in order, what the batch holds is older than what the channel
\* holds.
LEMMA SplitKeepsOrder ==
  ASSUME NEW b \in Seq(Nat), NEW c \in Seq(Nat), Increasing(b \o c)
  PROVE  /\ Increasing(b) /\ Increasing(c)
         /\ \A x \in Range(b), y \in Range(c) : x < y
<1> DEFINE s == b \o c
<1>1. /\ Len(b) \in Nat /\ Len(c) \in Nat
      /\ DOMAIN b = 1 .. Len(b) /\ DOMAIN c = 1 .. Len(c)
      /\ DOMAIN s = 1 .. Len(b) + Len(c)
      /\ \A i \in 1 .. Len(b) : s[i] = b[i]
  BY ConcatProperties, LenProperties
<1>2. ASSUME NEW i \in 1 .. Len(c)
      PROVE  Len(b) + i \in DOMAIN s /\ s[Len(b) + i] = c[i]
  <2>1. /\ Len(b) + i \in 1 .. Len(b) + Len(c)
        /\ ~(Len(b) + i <= Len(b)) /\ Len(b) + i - Len(b) = i
    BY <1>1
  <2> QED
    BY <1>1, <2>1, ConcatProperties
<1>3. Increasing(s)
  OBVIOUS
<1> HIDE DEF s
<1>4. Increasing(b)
  BY <1>1, <1>3 DEF Increasing
<1>5. Increasing(c)
  <2>1. ASSUME NEW i \in DOMAIN c, NEW j \in DOMAIN c, i < j
        PROVE  c[i] < c[j]
    <3>1. Len(b) + i < Len(b) + j
      BY <1>1, <2>1
    <3> QED
      BY <1>1, <1>2, <1>3, <3>1 DEF Increasing
  <2> QED
    BY <2>1 DEF Increasing
<1>6. ASSUME NEW i \in DOMAIN b, NEW j \in DOMAIN c
      PROVE  b[i] < c[j]
  <2>1. i \in DOMAIN s /\ s[i] = b[i] /\ i < Len(b) + j
    BY <1>1
  <2> QED
    BY <1>1, <1>2, <1>3, <2>1 DEF Increasing
<1> QED
  BY <1>4, <1>5, <1>6 DEF Range

---------------------------------------------------------------------------
(* What the steps do to the line, the table and the lost entries.          *)

\* Nothing moves in or out.
Keeps ==
    /\ Line' = Line /\ Accepted' = Accepted
    /\ UNCHANGED <<rows, lost, Running>>

\* Send's entry goes to the end of the line.
Queues ==
    /\ Running /\ sender # "idle"
    /\ Line' = Append(Line, sent) /\ Accepted' = sent
    /\ UNCHANGED <<rows, lost, Running>>

\* Send's entry is inserted past the line, or lost.
Settles ==
    /\ Running /\ sender # "idle"
    /\ Line' = Line /\ Accepted' = sent
    /\ \/ rows' = rows \cup {sent} /\ UNCHANGED lost
       \/ lost' = lost \cup {sent} /\ UNCHANGED rows
    /\ UNCHANGED Running

\* The batch goes to the table, or is lost.
Flushes ==
    /\ Running
    /\ batch' = <<>> /\ ch' = ch /\ Accepted' = Accepted
    /\ \/ rows' = rows \cup Range(batch) /\ UNCHANGED lost
       \/ lost' = lost \cup Range(batch) /\ UNCHANGED rows
    /\ UNCHANGED Running

Exits ==
    /\ Running /\ ~Running'
    /\ Line' = Line /\ Accepted' = Accepted
    /\ UNCHANGED <<rows, lost>>

LineStep == Keeps \/ Queues \/ Settles \/ Flushes \/ Exits

LEMMA CallSendShape ==
  ASSUME ShapeInv, CallSend
  PROVE  ShapeInv' /\ LineStep
<1>1. /\ sender = "idle" /\ sender' = "select" /\ sent' = sent + 1
      /\ sent \in 0 .. MaxEntry /\ sent < MaxEntry
      /\ UNCHANGED <<ch, batch, worker, draining, rows, lost, fails, main>>
  BY DEF CallSend, ShapeInv, TypeOK, workerVars, tableVars
<1>2. TypeOK'
  BY <1>1, Constants DEF ShapeInv, TypeOK, SenderPc
<1>3. WriterIsBounded' /\ RoomInv'
  BY <1>1 DEF ShapeInv, WriterIsBounded, RoomInv
<1>4. Keeps
  BY <1>1 DEF Keeps, Line, Accepted, Running
<1> QED
  BY <1>2, <1>3, <1>4 DEF ShapeInv, LineStep

LEMMA SendQueuesShape ==
  ASSUME ShapeInv, Running, SendQueues
  PROVE  ShapeInv' /\ LineStep
<1>1. /\ sender = "select" /\ sender' = "idle" /\ ch' = Append(ch, sent)
      /\ Len(ch) < ChanSize
      /\ UNCHANGED <<sent, batch, worker, draining, rows, lost, fails, main>>
  BY DEF SendQueues, Entry, workerVars, tableVars
<1>2. /\ ch \in Seq(1 .. MaxEntry) /\ batch \in Seq(1 .. MaxEntry)
      /\ sent \in 1 .. MaxEntry
  BY <1>1 DEF ShapeInv, TypeOK, RoomInv
<1>3. ch' \in Seq(1 .. MaxEntry) /\ Len(ch') = Len(ch) + 1
  BY <1>1, <1>2, AppendProperties
<1>4. TypeOK'
  BY <1>1, <1>3 DEF ShapeInv, TypeOK, SenderPc
<1>5. WriterIsBounded' /\ RoomInv'
  BY <1>1, <1>2, <1>3, Constants DEF ShapeInv, WriterIsBounded, RoomInv
<1>6. Queues
  BY <1>1, <1>2, AppendToLine DEF Queues, Line, Accepted, Running
<1> QED
  BY <1>4, <1>5, <1>6 DEF ShapeInv, LineStep

LEMMA SendWaitsShape ==
  ASSUME ShapeInv, SendBlocks \/ SendTimesOut
  PROVE  ShapeInv' /\ LineStep
<1>1. /\ sender # "idle" /\ sender' \in {"blocked", "fallback"}
      /\ UNCHANGED <<sent, ch, batch, worker, draining, rows, lost, fails, main>>
  BY DEF SendBlocks, SendTimesOut, AfterTimeout, workerVars, tableVars
<1>2. TypeOK'
  BY <1>1 DEF ShapeInv, TypeOK, SenderPc
<1>3. WriterIsBounded' /\ RoomInv'
  BY <1>1 DEF ShapeInv, WriterIsBounded, RoomInv
<1>4. Keeps
  BY <1>1 DEF Keeps, Line, Accepted, Running
<1> QED
  BY <1>2, <1>3, <1>4 DEF ShapeInv, LineStep

LEMMA SyncInsertShape ==
  ASSUME ShapeInv, Running, SyncInsert \/ SyncInsertFails
  PROVE  ShapeInv' /\ LineStep
<1>1. /\ sender = "fallback" /\ sender' = "idle"
      /\ \/ rows' = rows \cup {sent} /\ UNCHANGED <<lost, fails>>
         \/ lost' = lost \cup {sent} /\ fails' = fails + 1 /\ UNCHANGED rows
      /\ UNCHANGED <<sent, ch, batch, worker, draining, main>>
  BY DEF SyncInsert, SyncInsertFails, InsertOne, Entry, workerVars
<1>2. sent \in 1 .. MaxEntry
  BY <1>1 DEF ShapeInv, TypeOK, RoomInv
<1>3. TypeOK'
  <2>1. rows' \subseteq 1 .. MaxEntry /\ lost' \subseteq 1 .. MaxEntry
    BY <1>1, <1>2 DEF ShapeInv, TypeOK
  <2>2. fails' \in Nat
    BY <1>1 DEF ShapeInv, TypeOK
  <2> QED
    BY <1>1, <2>1, <2>2 DEF ShapeInv, TypeOK, SenderPc
<1>4. WriterIsBounded' /\ RoomInv'
  BY <1>1 DEF ShapeInv, WriterIsBounded, RoomInv
<1>5. Settles
  BY <1>1 DEF Settles, Line, Accepted, Running
<1> QED
  BY <1>3, <1>4, <1>5 DEF ShapeInv, LineStep

\* The worker takes the oldest entry of the channel, and with it may let a
\* blocked sender in.
LEMMA TakeFacts ==
  ASSUME ShapeInv, Running, TakeFromChannel,
         UNCHANGED <<sent, draining, rows, lost, fails, main>>
  PROVE  /\ batch' \in Seq(1 .. MaxEntry) /\ Len(batch') = Len(batch) + 1
         /\ ch' \in Seq(1 .. MaxEntry) /\ Len(ch') <= Len(ch)
         /\ sender' \in {sender, "idle"}
         /\ Keeps \/ Queues
<1> DEFINE S == 1 .. MaxEntry
<1>1. /\ ch \in Seq(S) /\ ch # <<>> /\ batch \in Seq(S)
      /\ batch' = Append(batch, Head(ch))
  BY DEF TakeFromChannel, PutLast, ShapeInv, TypeOK
<1>2. /\ Head(ch) \in S /\ Tail(ch) \in Seq(S)
      /\ Len(Tail(ch)) = Len(ch) - 1 /\ Len(ch) \in Nat
  BY <1>1, HeadTailProperties, LenProperties
<1>3. batch' \in Seq(S) /\ Len(batch') = Len(batch) + 1
  BY <1>1, <1>2, AppendProperties
<1>4. batch' \o Tail(ch) = Line
  BY <1>1, MoveOne DEF Line
<1>5. CASE sender = "blocked"
  <2>1. /\ ch' = Append(Tail(ch), sent) /\ sender' = "idle"
        /\ sent \in S
    BY <1>5 DEF TakeFromChannel, Entry, ShapeInv, TypeOK, RoomInv
  <2>2. ch' \in Seq(S) /\ Len(ch') = Len(ch)
    BY <1>2, <2>1, AppendProperties
  <2>3. Line' = Append(Line, sent)
    BY <1>2, <1>3, <1>4, <2>1, AppendToLine DEF Line
  <2>4. Queues
    BY <1>5, <2>1, <2>3 DEF Queues, Accepted, Running
  <2> QED
    BY <1>2, <1>3, <2>1, <2>2, <2>4
<1>6. CASE sender # "blocked"
  <2>1. ch' = Tail(ch) /\ sender' = sender
    BY <1>6 DEF TakeFromChannel
  <2>2. Keeps
    BY <1>4, <2>1 DEF Keeps, Line, Accepted, Running
  <2> QED
    BY <1>2, <1>3, <2>1, <2>2
<1> QED
  BY <1>5, <1>6

LEMMA WorkerReceivesShape ==
  ASSUME ShapeInv, Running, WorkerReceives
  PROVE  ShapeInv' /\ LineStep
<1>1. /\ worker = "select" /\ ~draining /\ TakeFromChannel
      /\ worker' = IF Len(batch') >= FlushSize THEN "flush" ELSE "select"
      /\ UNCHANGED <<sent, draining, rows, lost, fails, main>>
  BY DEF WorkerReceives, IsFull, tableVars
<1>2. /\ batch' \in Seq(1 .. MaxEntry) /\ Len(batch') = Len(batch) + 1
      /\ ch' \in Seq(1 .. MaxEntry) /\ Len(ch') <= Len(ch)
      /\ sender' \in {sender, "idle"}
      /\ Keeps \/ Queues
  BY <1>1, TakeFacts
<1>3. TypeOK'
  BY <1>1, <1>2 DEF ShapeInv, TypeOK, SenderPc, WorkerPc
<1>4. /\ Len(batch) \in Nat /\ Len(ch) \in Nat /\ Len(ch') \in Nat
      /\ Len(batch) < FlushSize
  BY <1>1, <1>2, LenProperties DEF ShapeInv, TypeOK, RoomInv
<1>5. WriterIsBounded' /\ RoomInv'
  BY <1>1, <1>2, <1>4, Constants DEF ShapeInv, WriterIsBounded, RoomInv
<1> QED
  BY <1>2, <1>3, <1>5 DEF ShapeInv, LineStep

LEMMA WorkerDrainsShape ==
  ASSUME ShapeInv, Running, WorkerDrains
  PROVE  ShapeInv' /\ LineStep
<1>1. /\ draining /\ TakeFromChannel
      /\ UNCHANGED <<sent, worker, draining, rows, lost, fails, main>>
  BY DEF WorkerDrains, tableVars
<1>2. /\ batch' \in Seq(1 .. MaxEntry)
      /\ ch' \in Seq(1 .. MaxEntry) /\ Len(ch') <= Len(ch)
      /\ sender' \in {sender, "idle"}
      /\ Keeps \/ Queues
  BY <1>1, TakeFacts
<1>3. TypeOK'
  BY <1>1, <1>2 DEF ShapeInv, TypeOK, SenderPc
<1>4. Len(ch) \in Nat /\ Len(ch') \in Nat
  BY <1>2, LenProperties DEF ShapeInv, TypeOK
<1>5. WriterIsBounded' /\ RoomInv'
  BY <1>1, <1>2, <1>4, Constants DEF ShapeInv, WriterIsBounded, RoomInv
<1> QED
  BY <1>2, <1>3, <1>5 DEF ShapeInv, LineStep

\* The worker goes on without touching the line.
LEMMA WorkerGoesOnShape ==
  ASSUME ShapeInv, Running,
         WorkerTicks \/ WorkerSeesStop \/ WorkerLeavesDrain \/ WorkerBegins
  PROVE  ShapeInv' /\ LineStep
<1>1. /\ UNCHANGED <<sent, sender, ch, batch, rows, lost, fails, main>>
      /\ worker' \in WorkerPc /\ draining' \in BOOLEAN
      /\ draining => draining'
      /\ worker' = "select" /\ ~draining' => worker = "select"
  BY DEF WorkerTicks, WorkerSeesStop, WorkerLeavesDrain, WorkerBegins,
         WorkerPc, senderVars, tableVars, ShapeInv, TypeOK
<1>2. TypeOK'
  BY <1>1 DEF ShapeInv, TypeOK
<1>3. WriterIsBounded' /\ RoomInv'
  BY <1>1 DEF ShapeInv, WriterIsBounded, RoomInv
<1>4. Keeps
  BY <1>1 DEF Keeps, Line, Accepted, Running
<1> QED
  BY <1>2, <1>3, <1>4 DEF ShapeInv, LineStep

LEMMA WorkerFlushesShape ==
  ASSUME ShapeInv, Running, WorkerCommits \/ WorkerInsertFails
  PROVE  ShapeInv' /\ LineStep
<1>1. /\ UNCHANGED <<sent, sender, ch, draining, main>>
      /\ batch' = <<>>
      /\ worker' = IF draining THEN "exited" ELSE "select"
      /\ fails' \in Nat
      /\ \/ rows' = rows \cup Range(batch) /\ UNCHANGED lost
         \/ lost' = lost \cup Range(batch) /\ UNCHANGED rows
  BY DEF WorkerCommits, WorkerInsertFails, EndFlush, ResetBatch, senderVars,
         ShapeInv, TypeOK
<1>2. Range(batch) \subseteq 1 .. MaxEntry
  BY RangeOfSeq DEF ShapeInv, TypeOK
<1>3. TypeOK'
  <2>1. rows' \subseteq 1 .. MaxEntry /\ lost' \subseteq 1 .. MaxEntry
    BY <1>1, <1>2 DEF ShapeInv, TypeOK
  <2>2. batch' \in Seq(1 .. MaxEntry)
    BY <1>1
  <2> QED
    BY <1>1, <2>1, <2>2 DEF ShapeInv, TypeOK, WorkerPc
<1>4. WriterIsBounded' /\ RoomInv'
  BY <1>1, Constants DEF ShapeInv, WriterIsBounded, RoomInv
<1>5. Flushes
  BY <1>1 DEF Flushes, Accepted, Running
<1> QED
  BY <1>3, <1>4, <1>5 DEF ShapeInv, LineStep

LEMMA ShutdownShape ==
  ASSUME ShapeInv, Shutdown(StopWriter) \/ ShutdownProceeds
  PROVE  ShapeInv' /\ LineStep
<1>1. /\ UNCHANGED <<sent, sender, ch, batch, worker, draining, rows, lost, fails>>
      /\ main' \in MainPc /\ main # "exited"
  BY DEF Shutdown, ShutdownProceeds, StopWriter, ShutdownRaft, CloseDb, Exit,
         MainPc, senderVars, workerVars, tableVars
<1>2. TypeOK'
  BY <1>1 DEF ShapeInv, TypeOK
<1>3. WriterIsBounded' /\ RoomInv'
  BY <1>1 DEF ShapeInv, WriterIsBounded, RoomInv
<1>4. Keeps \/ Exits
  BY <1>1 DEF Keeps, Exits, Line, Accepted, Running
<1> QED
  BY <1>2, <1>3, <1>4 DEF ShapeInv, LineStep

\* Every step of the model is one of the five for the line.
LEMMA NextShape ==
  ASSUME ShapeInv, [Next]_vars
  PROVE  ShapeInv' /\ LineStep
<1>1. CASE UNCHANGED vars
  <2>1. Keeps
    BY <1>1 DEF vars, senderVars, workerVars, tableVars, Keeps, Line, Accepted, Running
  <2> QED
    BY <1>1, <2>1 DEF vars, senderVars, workerVars, tableVars, ShapeInv, TypeOK,
                      WriterIsBounded, RoomInv, LineStep
<1>2. CASE CallSend
  BY <1>2, CallSendShape
<1>3. CASE SendReturns
  BY <1>3, SendQueuesShape, SendWaitsShape, SyncInsertShape DEF SendReturns
<1>4. CASE Worker
  BY <1>4, WorkerReceivesShape, WorkerDrainsShape, WorkerGoesOnShape,
     WorkerFlushesShape DEF Worker
<1>5. CASE Shutdown(StopWriter) \/ ShutdownProceeds
  BY <1>5, ShutdownShape
<1> QED
  BY <1>1, <1>2, <1>3, <1>4, <1>5 DEF Next, Terminated

---------------------------------------------------------------------------
(* No entry is dropped or settled twice, and the line stays in order.      *)

\* While Send is under way its entry comes next.
LEMMA NextEntry ==
  ASSUME ShapeInv, sender # "idle"
  PROVE  /\ sent \in 1 .. MaxEntry /\ Accepted = sent - 1
         /\ 1 .. sent = (1 .. Accepted) \cup {sent} /\ sent \notin 1 .. Accepted
BY DEF ShapeInv, TypeOK, RoomInv, Accepted

LEMMA LineStepInv ==
  ASSUME IInv, ShapeInv', LineStep
  PROVE  NeverDropped' /\ WaitingInOrder'
<1> DEFINE W == Range(Line)
<1>1. Line \in Seq(Nat) /\ Waiting = W /\ Waiting' = Range(Line')
  BY LineFacts DEF IInv, ShapeInv, TypeOK, Line, Waiting
<1>2. /\ Increasing(Line) /\ W \subseteq 1 .. Accepted
      /\ 1 .. Accepted = rows \cup lost \cup (1 .. Accepted \cap W)
      /\ rows \cap lost = {} /\ W \cap (rows \cup lost) = {}
  BY <1>1 DEF IInv, WaitingInOrder, NeverDropped, Increasing, Line
<1>3. SUFFICES /\ 1 .. Accepted' = rows' \cup lost' \cup (1 .. Accepted' \cap Range(Line'))
               /\ Range(Line') \subseteq 1 .. Accepted'
               /\ rows' \cap lost' = {} /\ Range(Line') \cap (rows' \cup lost') = {}
               /\ Increasing(Line')
  BY <1>1 DEF WaitingInOrder, NeverDropped, Increasing, Line
<1>4. CASE Keeps \/ Exits
  BY <1>2, <1>4 DEF Keeps, Exits
<1>5. CASE Queues
  <2>1. /\ sent \in 1 .. MaxEntry /\ Accepted = sent - 1 /\ Accepted' = sent
        /\ 1 .. sent = (1 .. Accepted) \cup {sent} /\ sent \notin 1 .. Accepted
        /\ Line' = Append(Line, sent)
    BY <1>5, NextEntry DEF Queues, IInv
  <2>2. Range(Line') = W \cup {sent}
    BY <1>1, <2>1, RangeOfAppend
  <2>3. Increasing(Line')
    <3>1. \A x \in W : x < sent
      BY <1>2, <2>1
    <3> QED
      BY <1>1, <1>2, <2>1, <3>1, AppendKeepsOrder
  <2> HIDE DEF W
  <2> QED
    BY <1>2, <1>5, <2>1, <2>2, <2>3 DEF Queues
<1>6. CASE Settles
  <2>1. /\ Accepted' = sent
        /\ 1 .. sent = (1 .. Accepted) \cup {sent} /\ sent \notin 1 .. Accepted
    BY <1>6, NextEntry DEF Settles, IInv
  <2>2. Line' = Line
    BY <1>6 DEF Settles
  <2> HIDE DEF W
  <2> QED
    BY <1>2, <1>6, <2>1, <2>2 DEF Settles, W
<1>7. CASE Flushes
  <2>1. batch \in Seq(1 .. MaxEntry) /\ ch \in Seq(1 .. MaxEntry)
    BY DEF IInv, ShapeInv, TypeOK
  <2>2. Line' = ch
    BY <1>7, <2>1, ConcatEmptySeq DEF Flushes, Line
  <2>3. W = Range(batch) \cup Range(ch)
    BY <2>1, LineFacts DEF Line
  <2>4. batch \in Seq(Nat) /\ ch \in Seq(Nat)
    BY <2>1, LineFacts
  <2>5. /\ Increasing(ch)
        /\ \A x \in Range(batch), y \in Range(ch) : x < y
    BY <1>2, <2>4, SplitKeepsOrder DEF Line
  <2>6. Range(batch) \cap Range(ch) = {}
    <3>1. Range(batch) \subseteq Nat
      BY <2>4, RangeOfSeq
    <3> QED
      BY <2>5, <3>1
  <2> HIDE DEF W
  <2> QED
    BY <1>2, <1>7, <2>2, <2>3, <2>5, <2>6 DEF Flushes
<1> QED
  BY <1>4, <1>5, <1>6, <1>7 DEF LineStep

LEMMA InitInv == Init => IInv
<1> SUFFICES ASSUME Init  PROVE IInv
  OBVIOUS
<1>1. TypeOK
  <2>1. <<>> \in Seq(1 .. MaxEntry) /\ 0 \in 0 .. MaxEntry
    BY Constants
  <2> QED
    BY <2>1 DEF Init, TypeOK, SenderPc, WorkerPc, MainPc
<1>2. WriterIsBounded /\ RoomInv
  BY Constants DEF Init, WriterIsBounded, RoomInv
<1>3. Line = <<>> /\ Waiting = {} /\ Accepted = 0
  BY DEF Init, Line, Waiting, Range, Accepted
<1>4. NeverDropped /\ WaitingInOrder
  BY <1>3 DEF Init, NeverDropped, WaitingInOrder, Line
<1> QED
  BY <1>1, <1>2, <1>4 DEF IInv, ShapeInv

LEMMA Invariance == Spec => []IInv
<1>1. IInv /\ [Next]_vars => IInv'
  BY NextShape, LineStepInv DEF IInv
<1> QED
  BY InitInv, <1>1, PTL DEF Spec

\* Every variable keeps its type (batch.go BatchWriter).
THEOREM WriterTypeCorrect == Spec => []TypeOK
BY Invariance, PTL DEF IInv, ShapeInv

\* Memory stays bounded: the channel by its capacity and, before the drain,
\* the batch by flushSize (batch.go run).
THEOREM WriterIsBoundedCorrect == Spec => []WriterIsBounded
BY Invariance, PTL DEF IInv, ShapeInv

\* Every entry that Send was given is in the table, waiting, in the hands of
\* Send, or counted as a failed insert (batch.go Send, flush, run's drain).
THEOREM NeverDroppedCorrect == Spec => []NeverDropped
BY Invariance, PTL DEF IInv

\* The batch and, behind it, the channel hold entries in the order in which
\* they were sent (batch.go Send, run).
THEOREM WaitingInOrderCorrect == Spec => []WaitingInOrder
BY Invariance, PTL DEF IInv

---------------------------------------------------------------------------
(* The shutdown.                                                           *)

\* The worker only drains when told to stop and returns with an empty batch,
\* and once raft is down nobody is in Send.
StopInv ==
    /\ draining => main # "serving"
    /\ worker = "exited" => batch = <<>>
    /\ main \notin {"serving", "stopped"} => sender = "idle"

LEMMA WorkerStopInv ==
  ASSUME StopInv, Worker
  PROVE  StopInv'
<1>1. /\ main' = main /\ sender' \in {sender, "idle"}
      /\ draining' => draining \/ main # "serving"
  BY DEF Worker, WorkerReceives, WorkerTicks, WorkerSeesStop, WorkerDrains,
         WorkerLeavesDrain, WorkerBegins, WorkerCommits, WorkerInsertFails,
         EndFlush, TakeFromChannel, senderVars
<1>2. CASE WorkerReceives \/ WorkerTicks \/ WorkerSeesStop \/ WorkerDrains \/ WorkerBegins
  <2>1. worker' # "exited"
    BY <1>2 DEF WorkerReceives, WorkerTicks, WorkerSeesStop, WorkerDrains, WorkerBegins
  <2> QED
    BY <1>1, <2>1 DEF StopInv
<1>3. CASE WorkerLeavesDrain
  BY <1>1, <1>3 DEF WorkerLeavesDrain, StopInv
<1>4. CASE WorkerCommits \/ WorkerInsertFails
  BY <1>1, <1>4 DEF WorkerCommits, WorkerInsertFails, EndFlush, ResetBatch, StopInv
<1> QED
  BY <1>2, <1>3, <1>4 DEF Worker

LEMMA NextStopInv ==
  ASSUME StopInv, [Next]_vars
  PROVE  StopInv'
<1>1. CASE UNCHANGED vars
  BY <1>1 DEF vars, senderVars, workerVars, StopInv
<1>2. CASE CallSend
  BY <1>2 DEF CallSend, workerVars, StopInv
<1>3. CASE SendReturns
  BY <1>3 DEF SendReturns, SendQueues, SendBlocks, SendTimesOut, SyncInsert,
              SyncInsertFails, workerVars, StopInv
<1>4. CASE Worker
  BY <1>4, WorkerStopInv
<1>5. CASE Shutdown(StopWriter) \/ ShutdownProceeds
  BY <1>5 DEF ShutdownProceeds, Shutdown, StopWriter, ShutdownRaft, CloseDb,
              Exit, senderVars, workerVars, StopInv
<1> QED
  BY <1>1, <1>2, <1>3, <1>4, <1>5 DEF Next, Terminated

LEMMA StopInvariance == Spec => []StopInv
<1>1. Init => StopInv
  BY DEF Init, StopInv
<1>2. StopInv /\ [Next]_vars => StopInv'
  BY NextStopInv
<1> QED
  BY <1>1, <1>2, PTL DEF Spec

\* main.go 176-187: the database outlives every Send, since raft's goroutine
\* is waited for first, so that the fallback insert never meets a closed
\* database.  The last batches of the worker may.
THEOREM DatabaseOutlivesSend == Spec => [](sender # "idle" => DbOpen)
<1>1. StopInv => (sender # "idle" => DbOpen)
  BY DEF StopInv, DbOpen
<1> QED
  BY StopInvariance, <1>1, PTL

\* main.go 176-187: what a shutdown can leave out of the table.  Once the
\* process is gone an entry is stored, its insert failed, or it was still in
\* the channel or in the batch.  So the claim that BW_shutdown refutes does
\* hold when the worker got to its end, nobody queued an entry after it, and
\* no insert failed; nothing in main() waits for the first.
THEOREM ShutdownLosesOnlyWhatWaits ==
  Spec => [](main = "exited" =>
               /\ (1 .. sent) \ rows = lost \cup Waiting
               /\ worker = "exited" /\ ch = <<>> /\ lost = {} => ShutdownStoresAll)
<1>1. ASSUME IInv, StopInv, main = "exited"
      PROVE  /\ (1 .. sent) \ rows = lost \cup Waiting
             /\ worker = "exited" /\ ch = <<>> /\ lost = {} => ShutdownStoresAll
  <2>1. Accepted = sent
    BY <1>1 DEF StopInv, Accepted
  <2>2. /\ 1 .. sent = rows \cup lost \cup (1 .. sent \cap Waiting)
        /\ Waiting \subseteq 1 .. sent
        /\ rows \cap lost = {} /\ Waiting \cap (rows \cup lost) = {}
    BY <1>1, <2>1 DEF IInv, NeverDropped
  <2>3. (1 .. sent) \ rows = lost \cup Waiting
    BY <2>2
  <2>4. ASSUME worker = "exited", ch = <<>>, lost = {}
        PROVE  ShutdownStoresAll
    <3>1. Waiting = {}
      BY <1>1, <2>4 DEF StopInv, Waiting, Range
    <3>2. 1 .. sent \subseteq rows
      BY <2>3, <2>4, <3>1
    <3> QED
      BY <3>2 DEF ShutdownStoresAll
  <2> QED
    BY <2>3, <2>4
<1> QED
  BY Invariance, StopInvariance, <1>1, PTL

---------------------------------------------------------------------------
(* The writer implements AsyncLog.                                         *)

LEMMA InitRefines == Init => Writer!Init
<1> SUFFICES ASSUME Init  PROVE Writer!Init
  OBVIOUS
<1>1. Waiting = {} /\ Accepted = 0 /\ Running
  BY DEF Init, Waiting, Range, Accepted, Running
<1> QED
  BY <1>1 DEF Init, Writer!Init

\* Each of the five kinds of steps is one of AsyncLog's, or none.
LEMMA LineStepRefines ==
  ASSUME IInv, ShapeInv', LineStep
  PROVE  [Writer!Next]_(Writer!vars)
<1>1. /\ Line \in Seq(Nat) /\ Waiting = Range(Line) /\ Waiting' = Range(Line')
  BY LineFacts DEF IInv, ShapeInv, TypeOK, Line, Waiting
<1>2. CASE Keeps
  <2>1. Line' = Line
    BY <1>2 DEF Keeps
  <2>2. Waiting' = Waiting
    BY <1>1, <2>1
  <2> QED
    BY <1>2, <2>2 DEF Keeps, Writer!vars
<1>3. CASE Queues
  <2>1. sent \in Nat /\ sent = Accepted + 1 /\ Accepted' = Accepted + 1
    BY <1>3, NextEntry DEF Queues, IInv
  <2>2. Line' = Append(Line, sent)
    BY <1>3 DEF Queues
  <2>3. Waiting' = Waiting \cup {Accepted + 1}
    BY <1>1, <2>1, <2>2, RangeOfAppend
  <2>4. Running /\ Running'
    BY <1>3 DEF Queues
  <2>5. Writer!Queue
    BY <1>3, <2>1, <2>3, <2>4 DEF Queues, Writer!Queue
  <2> QED
    BY <2>5 DEF Writer!Next
<1>4. CASE Settles
  <2>1. sent = Accepted + 1 /\ Accepted' = Accepted + 1
    BY <1>4, NextEntry DEF Settles, IInv
  <2>2. Line' = Line
    BY <1>4 DEF Settles
  <2>3. Waiting' = Waiting /\ Running /\ Running'
    BY <1>1, <1>4, <2>2 DEF Settles
  <2>4. Writer!StoreDirectly \/ Writer!LoseDirectly
    BY <1>4, <2>1, <2>3 DEF Settles, Writer!StoreDirectly, Writer!LoseDirectly
  <2> QED
    BY <2>4 DEF Writer!Next
<1>5. CASE Flushes
  <2>1. /\ batch \in Seq(Nat) /\ ch \in Seq(Nat)
        /\ Waiting = Range(ch) \cup Range(batch)
    BY LineFacts DEF IInv, ShapeInv, TypeOK, Waiting
  <2>2. Running /\ Running' /\ Accepted' = Accepted
    BY <1>5 DEF Flushes
  <2>3. Waiting' = Range(ch)
    BY <1>5 DEF Flushes, Waiting, Range
  <2>4. CASE batch = <<>>
    <3>1. Range(batch) = {}
      BY <2>4 DEF Range
    <3> QED
      BY <1>5, <2>1, <2>2, <2>3, <3>1 DEF Flushes, Writer!vars
  <2>5. CASE batch # <<>>
    <3> DEFINE last == batch[Len(batch)]
               UpToLast == {j \in Waiting : j <= last}
    <3>1. /\ last \in Range(batch) /\ Range(batch) \subseteq Nat
          /\ Range(ch) \subseteq Nat
          /\ DOMAIN batch = 1 .. Len(batch) /\ Len(batch) \in Nat \ {0}
      BY <2>1, <2>5, EmptySeq, LenProperties, RangeOfSeq DEF Range
    <3>2. Increasing(batch) /\ \A x \in Range(batch), y \in Range(ch) : x < y
      BY <2>1, SplitKeepsOrder DEF IInv, WaitingInOrder, Increasing
    <3>3. \A x \in Range(batch) : x <= last
      BY <2>1, <3>1, <3>2, ElementOfSeq DEF Increasing, Range
    <3>4. UpToLast = Range(batch) /\ last \in Waiting
      BY <2>1, <3>1, <3>2, <3>3
    <3>5. Waiting' = Waiting \ UpToLast
      BY <2>1, <2>3, <3>1, <3>2, <3>4
    <3> HIDE DEF last
    <3>6. UpToLast = Writer!UpTo(last)
      BY <2>2 DEF Writer!UpTo
    <3> HIDE DEF UpToLast
    <3>7. Writer!Store \/ Writer!Lose
      BY <1>5, <2>2, <3>4, <3>5, <3>6 DEF Flushes, Writer!Store, Writer!Lose
    <3> QED
      BY <3>7 DEF Writer!Next
  <2> QED
    BY <2>4, <2>5
<1>6. CASE Exits
  <2>1. Writer!Exit
    BY <1>6 DEF Exits, Writer!Exit
  <2> QED
    BY <2>1 DEF Writer!Next
<1> QED
  BY <1>2, <1>3, <1>4, <1>5, <1>6 DEF LineStep

\* For the FSM the writer, with its channel, batches, timeouts, fallback,
\* failures and shutdown, is an AsyncLog (batch.go).
THEOREM BatchWriterImplementsAsyncLog == Spec => ImplementsAsyncLog
<1>1. IInv /\ [Next]_vars => [Writer!Next]_(Writer!vars)
  BY NextShape, LineStepRefines DEF IInv
<1> QED
  BY Invariance, InitRefines, <1>1, PTL DEF Spec, ImplementsAsyncLog, Writer!Spec

---------------------------------------------------------------------------
(* The limits that ReplicatedKV gives its abstract writer.                 *)

LEMMA RangeIsSmall ==
  ASSUME NEW S, NEW s \in Seq(S)
  PROVE  IsFiniteSet(Range(s)) /\ Cardinality(Range(s)) <= Len(s)
<1>1. IsFiniteSet(1 .. Len(s)) /\ Cardinality(1 .. Len(s)) = Len(s)
  <2>1. Len(s) \in Nat /\ Len(s) \in Int /\ 1 \in Int
    BY LenProperties
  <2>2. ASSUME NEW m \in Nat
        PROVE  IsFiniteSet(1 .. m) /\ Cardinality(1 .. m) = m
    <3>1. /\ IsFiniteSet(1 .. m)
          /\ Cardinality(1 .. m) = IF 1 > m THEN 0 ELSE m - 1 + 1
      BY FS_Interval
    <3> QED
      BY <3>1
  <2> QED
    BY <2>1, <2>2
<1>2. s \in Surjection(1 .. Len(s), Range(s))
  BY LenProperties DEF Surjection, Range
<1> QED
  BY <1>1, <1>2, FS_Surjection

LEMMA WaitingIsSmall ==
  ASSUME ShapeInv, ~draining
  PROVE  IsFiniteSet(Waiting) /\ Cardinality(Waiting) <= ChanSize + FlushSize
<1>1. /\ batch \o ch \in Seq(1 .. MaxEntry) /\ Waiting = Range(batch \o ch)
      /\ batch \in Seq(1 .. MaxEntry) /\ ch \in Seq(1 .. MaxEntry)
  BY LineFacts DEF ShapeInv, TypeOK, Waiting
<1>2. Len(batch \o ch) = Len(batch) + Len(ch) /\ Len(batch) \in Nat /\ Len(ch) \in Nat
  BY <1>1, ConcatProperties, LenProperties
<1>3. IsFiniteSet(Waiting) /\ Cardinality(Waiting) <= Len(batch \o ch)
  BY <1>1, RangeIsSmall
<1>4. Cardinality(Waiting) \in Nat
  BY <1>3, FS_CardinalityType
<1> QED
  BY <1>2, <1>3, <1>4, Constants DEF ShapeInv, WriterIsBounded

\* What leaves the writer in one step is the batch, or nothing.
LEMMA LeavingIsBatch ==
  ASSUME IInv, ShapeInv', LineStep
  PROVE  Waiting \ Waiting' \subseteq Range(batch)
<1>1. Line \in Seq(Nat) /\ Waiting = Range(Line) /\ Waiting' = Range(Line')
  BY LineFacts DEF IInv, ShapeInv, TypeOK, Line, Waiting
<1>2. CASE Keeps \/ Settles \/ Exits
  BY <1>1, <1>2 DEF Keeps, Settles, Exits
<1>3. CASE Queues
  <2>1. sent \in Nat /\ Line' = Append(Line, sent)
    BY <1>3, NextEntry DEF Queues, IInv
  <2> QED
    BY <1>1, <2>1, RangeOfAppend
<1>4. CASE Flushes
  BY <1>4 DEF Flushes, Waiting
<1> QED
  BY <1>2, <1>3, <1>4 DEF LineStep

\* batch.go 79-101 and 110-150: until the shutdown begins each step of the
\* real writer is one of those that ReplicatedKV gives its queue: one of
\* AsyncLog's, after which no more than ChanSize + FlushSize entries wait
\* (Enqueue) and in which no more than FlushSize leave together (Flush).
THEOREM WriterKeepsTheLimits ==
  Spec => [][main = "serving" =>
               /\ [Writer!Next]_(Writer!vars)
               /\ Cardinality(Waiting') <= ChanSize + FlushSize
               /\ Cardinality(Waiting \ Waiting') <= FlushSize]_vars
<1>1. ASSUME IInv, IInv', StopInv, StopInv', [Next]_vars, main = "serving"
      PROVE  /\ [Writer!Next]_(Writer!vars)
             /\ Cardinality(Waiting') <= ChanSize + FlushSize
             /\ Cardinality(Waiting \ Waiting') <= FlushSize
  <2>1. ShapeInv /\ ShapeInv' /\ LineStep
    BY <1>1, NextShape DEF IInv
  <2>2. ~draining /\ ~draining'
    <3>1. ~draining
      BY <1>1 DEF StopInv
    <3>2. CASE Shutdown(StopWriter) \/ ShutdownProceeds
      BY <3>1, <3>2 DEF Shutdown, ShutdownProceeds, workerVars
    <3>3. CASE CallSend \/ SendReturns
      BY <3>1, <3>3 DEF CallSend, SendReturns, SendQueues, SendBlocks, SendTimesOut,
                        SyncInsert, SyncInsertFails, workerVars
    <3>4. CASE Worker
      BY <1>1, <3>1, <3>4 DEF Worker, WorkerReceives, WorkerTicks, WorkerSeesStop,
         WorkerDrains, WorkerLeavesDrain, WorkerBegins, WorkerCommits,
         WorkerInsertFails, EndFlush
    <3>5. CASE UNCHANGED vars
      BY <3>1, <3>5 DEF vars, workerVars
    <3> QED
      BY <1>1, <3>1, <3>2, <3>3, <3>4, <3>5 DEF Next, Terminated
  <2>3. [Writer!Next]_(Writer!vars)
    BY <1>1, <2>1, LineStepRefines
  <2>4. Cardinality(Waiting') <= ChanSize + FlushSize
    <3>1. (ShapeInv /\ ~draining => Cardinality(Waiting) <= ChanSize + FlushSize)'
      BY WaitingIsSmall, PTL
    <3> QED
      BY <2>1, <2>2, <3>1
  <2>5. Cardinality(Waiting \ Waiting') <= FlushSize
    <3>1. batch \in Seq(1 .. MaxEntry) /\ Len(batch) <= FlushSize /\ Len(batch) \in Nat
      BY <2>1, <2>2, LenProperties DEF ShapeInv, TypeOK, WriterIsBounded
    <3>2. IsFiniteSet(Range(batch)) /\ Cardinality(Range(batch)) <= Len(batch)
      BY <3>1, RangeIsSmall
    <3>3. Waiting \ Waiting' \subseteq Range(batch)
      BY <1>1, <2>1, LeavingIsBatch
    <3>4. /\ Cardinality(Waiting \ Waiting') <= Cardinality(Range(batch))
          /\ Cardinality(Waiting \ Waiting') \in Nat /\ Cardinality(Range(batch)) \in Nat
      BY <3>2, <3>3, FS_Subset, FS_CardinalityType
    <3> QED
      BY <3>1, <3>2, <3>4, Constants
  <2> QED
    BY <2>3, <2>4, <2>5
<1> QED
  BY Invariance, StopInvariance, <1>1, PTL DEF Spec

===========================================================================
