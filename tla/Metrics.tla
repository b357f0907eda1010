------------------------------ MODULE Metrics ------------------------------
(***************************************************************************)
(* The metrics package: the latency ring and, beside it, the throughput    *)
(* tracker.  The tracker has no clock of its own: a window is closed by    *)
(* the first GET /metrics that comes a second or more after it was opened. *)
(***************************************************************************)
EXTENDS LatencyRing

CONSTANTS Second,     \* ticks of the clock in a second
          MaxTime,    \* bound: the clock
          MaxWrites   \* bound: writes counted

ASSUME MetricsAssumption ==
    /\ Second \in Nat \ {0}
    /\ MaxTime \in Nat /\ MaxWrites \in Nat

VARIABLES now,          \* the clock
          totalWrites,
          windowStart,  \* 0 is the zero time.Time: no window yet
          startCount,   \* totalWrites when the window was opened
          lastWPS,      \* writes and ticks whose quotient was reported last
          pending       \* history: writes since a window was opened

trackerVars == <<now, totalWrites, windowStart, startCount, lastWPS, pending>>
metricsVars == <<samples, head, full, recorded, trackerVars>>

NoRate == [writes |-> 0, ticks |-> 0]

MetricsInit ==
    /\ Init
    /\ now = 1 /\ totalWrites = 0
    /\ windowStart = 0 /\ startCount = 0
    /\ lastWPS = NoRate /\ pending = 0

RecordLatency ==
    /\ \E ns \in Sample : Record(ns)
    /\ UNCHANGED trackerVars

Tick ==
    /\ now < MaxTime
    /\ now' = now + 1
    /\ UNCHANGED <<vars, totalWrites, windowStart, startCount, lastWPS, pending>>

RecordWrite ==
    /\ totalWrites < MaxWrites
    /\ totalWrites' = totalWrites + 1
    /\ pending' = pending + 1
    /\ UNCHANGED <<vars, now, windowStart, startCount, lastWPS>>

\* Mutant: the count is not moved along with the time.
OpenWindowKeepingCount ==
    /\ windowStart' = now
    /\ startCount' = IF windowStart = 0 THEN totalWrites ELSE startCount
    /\ pending' = 0

OpenWindow ==
    /\ windowStart' = now
    /\ startCount' = totalWrites
    /\ pending' = 0

FirstCall ==
    /\ windowStart = 0
    /\ OpenWindow
    /\ UNCHANGED lastWPS

CloseWindow ==
    /\ windowStart # 0
    /\ now - windowStart >= Second
    /\ lastWPS' = [writes |-> totalWrites - startCount, ticks |-> now - windowStart]
    /\ OpenWindow

WithinWindow ==
    /\ windowStart # 0
    /\ now - windowStart < Second
    /\ UNCHANGED <<windowStart, startCount, lastWPS, pending>>

\* GET /metrics, of which WritesPerSecond is all that changes state.
WritesPerSecond ==
    /\ FirstCall \/ CloseWindow \/ WithinWindow
    /\ UNCHANGED <<vars, now, totalWrites>>

MetricsNext == RecordLatency \/ Tick \/ RecordWrite \/ WritesPerSecond

MetricsSpec == MetricsInit /\ [][MetricsNext]_metricsVars

---------------------------------------------------------------------------
(* Properties.                                                             *)

\* metrics.go WritesPerSecond: however irregularly /metrics is read, a rate
\* that is reported counts the writes since the last window was opened, no
\* write of an earlier window and none twice, over a second or more.  Read
\* rarely, it averages over much more than the second that metrics.go 59
\* and 71 speak of.
RatesCountTheirWindow ==
    [][windowStart # 0 /\ windowStart' # windowStart =>
         lastWPS'.writes = pending /\ lastWPS'.ticks >= Second]_metricsVars

============================================================================
