---------------------------- MODULE LatencyRing ----------------------------
(***************************************************************************)
(* The latency tracker of metrics/metrics.go: a ring buffer of the newest  *)
(* samples and the percentiles read from it.  Record and the copy in       *)
(* Percentiles run under one mutex, so each is one step.  The code scales  *)
(* and rounds what it reports; the order of the samples is what counts.    *)
(***************************************************************************)
EXTENDS Integers, Sequences, FiniteSets, Functions

CONSTANTS Cap,        \* capacity (2,000 in the program)
          Sample,     \* latencies
          MaxSamples  \* bound: samples recorded

ASSUME RingAssumption ==
    /\ Cap \in Nat \ {0}
    /\ Sample \subseteq Nat
    /\ MaxSamples \in Nat

VARIABLES samples,  \* the buffer, indexed from 0
          head,     \* where the next sample goes
          full,     \* the buffer has wrapped
          recorded  \* history: every sample so far

vars == <<samples, head, full, recorded>>

Init ==
    /\ samples = [i \in 0 .. Cap - 1 |-> 0]
    /\ head = 0
    /\ full = FALSE
    /\ recorded = <<>>

\* Mutant: no wrap-around.
NextHeadUnwrapped == head + 1

NextHead == (head + 1) % Cap

Record(ns) ==
    /\ Len(recorded) < MaxSamples
    /\ samples' = [samples EXCEPT ![head] = ns]
    /\ head' = NextHead
    /\ full' = (full \/ NextHead = 0)
    /\ recorded' = Append(recorded, ns)

Next == \E ns \in Sample : Record(ns)

Spec == Init /\ [][Next]_vars

---------------------------------------------------------------------------
(* Percentiles.                                                            *)

\* Mutant: the wrap is forgotten.
HeldBeforeHead == head

\* How many slots hold a sample.
Held == IF full THEN Cap ELSE head

Snap == [i \in 1 .. Held |-> samples[i - 1]]

\* Mutant: rounded down.
RankRoundedDown(pct, n) ==
    LET i == (pct * n) \div 100 - 1 IN IF i < 0 THEN 0 ELSE i

\* ceil(pct / 100 * n) - 1, at least 0: an index from 0.
Rank(pct, n) ==
    LET i == (pct * n + 99) \div 100 - 1 IN IF i < 0 THEN 0 ELSE i

\* What sort.Slice leaves: s in ascending order.  Where it puts equal
\* samples does not show.
Sorted(s) ==
    LET ordered(p) == \A i, j \in DOMAIN s : i <= j => s[p[i]] <= s[p[j]]
        order == CHOOSE p \in Bijection(DOMAIN s, DOMAIN s) : ordered(p)
    IN [i \in DOMAIN s |-> s[order[i]]]

Percentile(pct) ==
    IF Held = 0 THEN 0 ELSE Sorted(Snap)[Rank(pct, Held) + 1]

---------------------------------------------------------------------------
(* Properties.                                                             *)

TypeOK ==
    /\ samples \in [0 .. Cap - 1 -> Sample \cup {0}]
    /\ head \in 0 .. Cap - 1
    /\ full \in BOOLEAN
    /\ recorded \in Seq(Sample)

\* The newest samples, at most Cap of them.
Newest ==
    LET n == IF Len(recorded) < Cap THEN Len(recorded) ELSE Cap
    IN SubSeq(recorded, Len(recorded) - n + 1, Len(recorded))

Count(s, ns) == Cardinality({i \in DOMAIN s : s[i] = ns})

\* The buffer holds the newest Cap samples, each as often as it was
\* recorded, before and after it wraps.
RingHoldsNewest ==
    \A ns \in Sample \cup {0} : Count(Snap, ns) = Count(Newest, ns)

NotAbove(ns) == Cardinality({i \in DOMAIN Newest : Newest[i] <= ns})

\* Each reported percentile is the smallest of the newest samples that at
\* least pct percent of them do not exceed.
PercentilesAreNearestRank ==
    Newest # <<>> =>
        \A pct \in {50, 95, 99} :
            LET v == Percentile(pct) IN
            /\ 100 * NotAbove(v) >= pct * Len(Newest)
            /\ \A i \in DOMAIN Newest :
                 Newest[i] < v => 100 * NotAbove(Newest[i]) < pct * Len(Newest)

============================================================================
