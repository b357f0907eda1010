--------------------------- MODULE Metrics_proofs ---------------------------
(***************************************************************************)
(* Proofs about the metrics package, for a ring of any capacity and any    *)
(* number of samples: the ring holds the newest samples, the percentiles   *)
(* are the nearest ranks of these, and a reported rate counts the writes of*)
(* its window.                                                             *)
(***************************************************************************)
EXTENDS Metrics, FiniteSetTheorems, SequenceTheorems, TLAPS

LEMMA Constants ==
  /\ Cap \in Nat \ {0} /\ Sample \subseteq Nat /\ MaxSamples \in Nat
  /\ Second \in Nat \ {0} /\ MaxTime \in Nat /\ MaxWrites \in Nat
BY RingAssumption, MetricsAssumption

---------------------------------------------------------------------------
(* The rank.                                                               *)

\* For every percentage and every number of samples (metrics.go idx) the
\* rank is an index of the sorted samples, at least pct percent of them are
\* at or before it, and no smaller index has that property.
THEOREM RankIsNearest ==
  ASSUME NEW pct \in 1 .. 100, NEW n \in Nat, n > 0
  PROVE  /\ Rank(pct, n) \in 0 .. n - 1
         /\ 100 * (Rank(pct, n) + 1) >= pct * n
         /\ 100 * Rank(pct, n) < pct * n
<1> DEFINE m == pct * n
           q == (m + 99) \div 100
<1>1. m \in Nat /\ m >= 1 /\ m <= 100 * n
  <2>1. ASSUME NEW a \in Nat, a >= 1, a <= 100
        PROVE  a * n \in Nat /\ a * n >= 1 /\ a * n <= 100 * n
    BY <2>1
  <2> QED
    BY <2>1
<1> HIDE DEF m
<1>2. q \in Nat /\ 100 * q <= m + 99 /\ m + 99 < 100 * q + 100
  BY <1>1
<1> HIDE DEF q
<1>3. q >= 1 /\ q <= n
  BY <1>1, <1>2
<1>4. Rank(pct, n) = q - 1
  BY <1>3, <1>2 DEF Rank, q, m
<1> QED
  BY <1>1, <1>2, <1>3, <1>4 DEF m

---------------------------------------------------------------------------
(* The ring.                                                               *)

\* Before head lie the newest samples, from head on the ones before them.
RingInv ==
    LET n == Len(recorded) IN
    /\ IF full THEN n >= Cap ELSE n = head
    /\ \A i \in 0 .. head - 1 : samples[i] = recorded[n - head + 1 + i]
    /\ full => \A i \in head .. Cap - 1 :
                   samples[i] = recorded[n - head + 1 + i - Cap]

IInv == TypeOK /\ RingInv

LEMMA RecordInv ==
  ASSUME IInv, NEW ns \in Sample, Record(ns)
  PROVE  IInv'
<1> DEFINE n == Len(recorded)
<1>1. /\ samples \in [0 .. Cap - 1 -> Sample \cup {0}] /\ head \in 0 .. Cap - 1
      /\ full \in BOOLEAN /\ recorded \in Seq(Sample) /\ n \in Nat
  BY LenProperties DEF IInv, TypeOK
<1>2. /\ samples' = [samples EXCEPT ![head] = ns]
      /\ head' = IF head + 1 = Cap THEN 0 ELSE head + 1
      /\ full' <=> full \/ head + 1 = Cap
      /\ recorded' = Append(recorded, ns)
  <2>1. (head + 1) % Cap = IF head + 1 = Cap THEN 0 ELSE head + 1
    BY <1>1, Constants
  <2>2. head' = NextHead /\ (full' <=> full \/ NextHead = 0)
    BY <1>1 DEF Record
  <2>3. NextHead = 0 <=> head + 1 = Cap
    BY <1>1, <2>1, Constants DEF NextHead
  <2> QED
    BY <2>1, <2>2, <2>3 DEF Record, NextHead
<1>3. /\ recorded' \in Seq(Sample) /\ Len(recorded') = n + 1
      /\ recorded'[n + 1] = ns
      /\ \A j \in 1 .. n : recorded'[j] = recorded[j]
  BY <1>1, <1>2, AppendProperties
<1>4. samples'[head] = ns /\ \A i \in 0 .. Cap - 1 : i # head => samples'[i] = samples[i]
  BY <1>1, <1>2
<1>5. TypeOK'
  <2>1. head' \in 0 .. Cap - 1 /\ samples' \in [0 .. Cap - 1 -> Sample \cup {0}]
    BY <1>1, <1>2, Constants
  <2>2. full' \in BOOLEAN
    BY DEF Record
  <2> QED
    BY <1>3, <2>1, <2>2 DEF TypeOK
<1>6. /\ IF full THEN n >= Cap ELSE n = head
      /\ \A i \in 0 .. head - 1 : samples[i] = recorded[n - head + 1 + i]
      /\ full => \A i \in head .. Cap - 1 : samples[i] = recorded[n - head + 1 + i - Cap]
  BY DEF IInv, RingInv
<1> HIDE DEF n
<1>7. head \in Nat /\ n >= head
  BY <1>1, <1>6, Constants
<1>8. CASE head + 1 # Cap
  <2>1. head' = head + 1 /\ (full' <=> full) /\ Len(recorded') = n + 1
    BY <1>2, <1>3, <1>8
  <2>2. IF full' THEN n + 1 >= Cap ELSE n + 1 = head'
    BY <1>1, <1>6, <2>1, Constants
  <2>3. ASSUME NEW i \in 0 .. head
        PROVE  samples'[i] = recorded'[n + 1 - head' + 1 + i]
    <3>1. n + 1 - head' + 1 + i = n - head + 1 + i /\ i \in 0 .. Cap - 1
      BY <1>1, <1>7, <2>1, Constants
    <3>2. CASE i = head
      BY <1>1, <1>3, <1>4, <3>1, <3>2
    <3>3. CASE i # head
      <4>1. n - head + 1 + i \in 1 .. n
        BY <1>1, <1>7, <3>3
      <4> QED
        BY <1>1, <1>3, <1>4, <1>6, <3>1, <3>3, <4>1
    <3> QED
      BY <3>2, <3>3
  <2>4. ASSUME full, NEW i \in head + 1 .. Cap - 1
        PROVE  samples'[i] = recorded'[n + 1 - head' + 1 + i - Cap]
    <3>1. /\ n + 1 - head' + 1 + i - Cap = n - head + 1 + i - Cap
          /\ i \in head .. Cap - 1 /\ i # head
          /\ n - head + 1 + i - Cap \in 1 .. n
      BY <1>1, <1>6, <2>1, <2>4, Constants
    <3> QED
      BY <1>1, <1>3, <1>4, <1>6, <2>4, <3>1
  <2> QED
    BY <1>1, <1>5, <2>1, <2>2, <2>3, <2>4 DEF IInv, RingInv
<1>9. CASE head + 1 = Cap
  <2>1. head' = 0 /\ full' /\ Len(recorded') = n + 1 /\ n + 1 >= Cap
    BY <1>1, <1>2, <1>3, <1>6, <1>9
  <2>2. ASSUME NEW i \in 0 .. Cap - 1
        PROVE  samples'[i] = recorded'[n + 1 - head' + 1 + i - Cap]
    <3>1. n + 1 - head' + 1 + i - Cap = n - head + 1 + i
      BY <1>1, <1>9, <2>1, Constants
    <3>2. CASE i = head
      BY <1>1, <1>3, <1>4, <3>1, <3>2
    <3>3. CASE i # head
      <4>1. n - head + 1 + i \in 1 .. n /\ i \in 0 .. head - 1
        BY <1>1, <1>6, <1>9, <3>3
      <4> QED
        BY <1>1, <1>3, <1>4, <1>6, <3>1, <3>3, <4>1
    <3> QED
      BY <3>2, <3>3
  <2> QED
    BY <1>1, <1>5, <2>1, <2>2 DEF IInv, RingInv
<1> QED
  BY <1>8, <1>9

LEMMA RingInvariance == Spec => []IInv
<1>1. Init => IInv
  <2> SUFFICES ASSUME Init  PROVE IInv
    OBVIOUS
  <2>1. recorded \in Seq(Sample) /\ Len(recorded) = 0
    BY EmptySeq DEF Init
  <2>2. head = 0 /\ full = FALSE /\ 0 \in 0 .. Cap - 1
    BY Constants DEF Init
  <2>3. samples \in [0 .. Cap - 1 -> Sample \cup {0}]
    BY DEF Init
  <2>4. TypeOK
    BY <2>1, <2>2, <2>3 DEF TypeOK
  <2>5. RingInv
    BY <2>1, <2>2 DEF RingInv
  <2> QED
    BY <2>4, <2>5 DEF IInv
<1>2. IInv /\ [Next]_vars => IInv'
  <2> SUFFICES ASSUME IInv, [Next]_vars  PROVE IInv'
    OBVIOUS
  <2>1. CASE UNCHANGED vars
    BY <2>1 DEF vars, IInv, TypeOK, RingInv
  <2> QED
    BY <2>1, RecordInv DEF Next
<1> QED
  BY <1>1, <1>2, PTL DEF Spec

\* The buffer, head and full stay in their ranges.
THEOREM RingTypeCorrect == Spec => []TypeOK
<1>1. IInv => TypeOK
  BY DEF IInv
<1> QED
  BY <1>1, RingInvariance, PTL

\* t is s, of length m, with its first h elements moved to the end.
Rotated(s, t, m, h) ==
    /\ m \in Nat /\ h \in 0 .. m
    /\ DOMAIN s = 1 .. m /\ DOMAIN t = 1 .. m
    /\ \A i \in 1 .. h : s[i] = t[i + (m - h)]
    /\ \A i \in h + 1 .. m : s[i] = t[i - h]

\* s is t with its elements in another order.
Rearranged(s, t, m) ==
    /\ m \in Nat /\ DOMAIN s = 1 .. m /\ DOMAIN t = 1 .. m
    /\ \E f \in Bijection(1 .. m, 1 .. m) : \A i \in 1 .. m : s[i] = t[f[i]]

\* How many elements of s are in V.
CountIn(s, V) == Cardinality({i \in DOMAIN s : s[i] \in V})

\* As many elements of a sequence are in a set after it is rearranged as
\* before.
LEMMA CountOfRearrangement ==
  ASSUME NEW s, NEW t, NEW m, NEW V, Rearranged(s, t, m)
  PROVE  CountIn(s, V) = CountIn(t, V)
<1> DEFINE S == {i \in 1 .. m : s[i] \in V}
           T == {i \in 1 .. m : t[i] \in V}
<1>1. PICK f \in Bijection(1 .. m, 1 .. m) : \A i \in 1 .. m : s[i] = t[f[i]]
  BY DEF Rearranged
<1>2. /\ f \in [1 .. m -> 1 .. m]
      /\ \A i, j \in 1 .. m : f[i] = f[j] => i = j
      /\ \A k \in 1 .. m : \E i \in 1 .. m : f[i] = k
  BY DEF Bijection, Injection, Surjection, IsInjective
<1> DEFINE g == [i \in S |-> f[i]]
<1>3. g \in Bijection(S, T)
  <2>1. g \in [S -> T]
    BY <1>1, <1>2
  <2>2. IsInjective(g)
    BY <1>2 DEF IsInjective
  <2>3. ASSUME NEW k \in T  PROVE \E i \in S : g[i] = k
    BY <1>1, <1>2
  <2> QED
    BY <2>1, <2>2, <2>3 DEF Bijection, Injection, Surjection
<1>4. ExistsBijection(S, T)
  BY <1>3 DEF ExistsBijection
<1>5. IsFiniteSet(S)
  BY FS_Interval, FS_Subset DEF Rearranged
<1>6. Cardinality(T) = Cardinality(S)
  BY <1>4, <1>5, FS_Bijection
<1>7. DOMAIN s = 1 .. m /\ DOMAIN t = 1 .. m
  BY DEF Rearranged
<1> QED
  BY <1>6, <1>7 DEF CountIn

LEMMA RotationRearranges ==
  ASSUME NEW s, NEW t, NEW m, NEW h, Rotated(s, t, m, h)
  PROVE  Rearranged(s, t, m)
<1>0. /\ m \in Nat /\ h \in 0 .. m
      /\ DOMAIN s = 1 .. m /\ DOMAIN t = 1 .. m
      /\ \A i \in 1 .. h : s[i] = t[i + (m - h)]
      /\ \A i \in h + 1 .. m : s[i] = t[i - h]
  BY DEF Rotated
<1> DEFINE move(i) == IF i <= h THEN i + (m - h) ELSE i - h
           f == [i \in 1 .. m |-> move(i)]
<1>1. \A i \in 1 .. m : move(i) \in 1 .. m /\ t[move(i)] = s[i]
  BY <1>0
<1>2. \A i, j \in 1 .. m : move(i) = move(j) => i = j
  BY <1>0
<1>3. ASSUME NEW k \in 1 .. m  PROVE \E i \in 1 .. m : move(i) = k
  <2>1. CASE k <= m - h
    <3>1. k + h \in 1 .. m /\ move(k + h) = k
      BY <1>0, <2>1
    <3> QED
      BY <3>1
  <2>2. CASE k > m - h
    <3>1. k - (m - h) \in 1 .. m /\ move(k - (m - h)) = k
      BY <1>0, <2>2
    <3> QED
      BY <3>1
  <2> QED
    BY <1>0, <2>1, <2>2
<1> HIDE DEF move
<1>4. f \in Bijection(1 .. m, 1 .. m)
  <2>1. f \in [1 .. m -> 1 .. m]
    BY <1>1
  <2>2. IsInjective(f)
    BY <1>2 DEF IsInjective
  <2>3. ASSUME NEW k \in 1 .. m  PROVE \E i \in 1 .. m : f[i] = k
    BY <1>3
  <2> QED
    BY <2>1, <2>2, <2>3 DEF Bijection, Injection, Surjection
<1> QED
  BY <1>0, <1>1, <1>4 DEF Rearranged

\* The slots that hold a sample hold the newest ones, in the order a ring
\* has them.
LEMMA SnapIsNewest ==
  ASSUME IInv
  PROVE  Rearranged(Snap, Newest, Held)
<1> DEFINE n == Len(recorded)
<1>1. /\ head \in 0 .. Cap - 1 /\ full \in BOOLEAN
      /\ recorded \in Seq(Sample) /\ n \in Nat
  BY LenProperties DEF IInv, TypeOK
<1>2. /\ IF full THEN n >= Cap ELSE n = head
      /\ \A i \in 0 .. head - 1 : samples[i] = recorded[n - head + 1 + i]
      /\ full => \A i \in head .. Cap - 1 : samples[i] = recorded[n - head + 1 + i - Cap]
  BY DEF IInv, RingInv
<1>3. /\ Held \in Nat /\ Held <= n /\ head \in 0 .. Held
      /\ Held = IF n < Cap THEN n ELSE Cap
      /\ ~full => Held = head
      /\ full => Held = Cap
  BY <1>1, <1>2, Constants DEF Held
<1>4. DOMAIN Snap = 1 .. Held /\ \A i \in 1 .. Held : Snap[i] = samples[i - 1]
  BY DEF Snap
<1>5. /\ DOMAIN Newest = 1 .. Held
      /\ \A i \in 1 .. Held : Newest[i] = recorded[n - Held + i]
  <2>1. Newest = SubSeq(recorded, n - Held + 1, n)
    BY <1>3 DEF Newest
  <2> DEFINE a == n - Held + 1
  <2>2. a \in Int /\ a >= 1 /\ n - a + 1 = Held /\ (IF a <= n THEN n - a + 1 ELSE 0) = Held
    BY <1>1, <1>3
  <2>3. \A i \in a .. n : recorded[i] \in Sample
    BY <1>1, <2>2, ElementOfSeq
  <2>4. /\ SubSeq(recorded, a, n) \in Seq(Sample)
        /\ Len(SubSeq(recorded, a, n)) = Held
        /\ \A i \in 1 .. Held : SubSeq(recorded, a, n)[i] = recorded[a + i - 1]
    BY <1>1, <2>2, <2>3, SubSeqProperties
  <2>5. \A i \in 1 .. Held : a + i - 1 = n - Held + i
    BY <1>1, <1>3
  <2> HIDE DEF a
  <2>6. DOMAIN SubSeq(recorded, a, n) = 1 .. Held
    BY <2>4, LenProperties
  <2> QED
    BY <2>1, <2>4, <2>5, <2>6 DEF a
<1> HIDE DEF n
<1>6. ASSUME NEW i \in 1 .. head  PROVE Snap[i] = Newest[i + (Held - head)]
  <2>1. /\ i \in 1 .. Held /\ i - 1 \in 0 .. head - 1
        /\ i + (Held - head) \in 1 .. Held
        /\ n - head + 1 + (i - 1) = n - Held + (i + (Held - head))
    BY <1>1, <1>3
  <2> QED
    BY <1>2, <1>4, <1>5, <2>1
<1>7. ASSUME NEW i \in head + 1 .. Held  PROVE Snap[i] = Newest[i - head]
  <2>1. /\ i \in 1 .. Held /\ full /\ Held = Cap /\ i - 1 \in head .. Cap - 1
        /\ i - head \in 1 .. Held
        /\ n - head + 1 + (i - 1) - Cap = n - Held + (i - head)
    BY <1>1, <1>3, Constants
  <2> QED
    BY <1>2, <1>4, <1>5, <2>1
<1>8. Rotated(Snap, Newest, Held, head)
  BY <1>3, <1>4, <1>5, <1>6, <1>7 DEF Rotated
<1> QED
  BY <1>8, RotationRearranges

LEMMA NewestType ==
  ASSUME IInv
  PROVE  /\ Newest \in Seq(Sample) /\ Len(Newest) = Held
         /\ \A i \in 1 .. Held : Newest[i] \in Int
<1> DEFINE n == Len(recorded)
           a == n - (IF n < Cap THEN n ELSE Cap) + 1
<1>1. recorded \in Seq(Sample) /\ n \in Nat
  BY LenProperties DEF IInv, TypeOK
<1>2. a \in Int /\ a >= 1
  BY <1>1, Constants
<1>3. Newest = SubSeq(recorded, a, n)
  BY DEF Newest
<1>4. \A i \in a .. n : recorded[i] \in Sample
  BY <1>1, <1>2, ElementOfSeq
<1> HIDE DEF a, n
<1>5. Newest \in Seq(Sample)
  BY <1>1, <1>2, <1>3, <1>4, SubSeqProperties
<1>6. DOMAIN Newest = 1 .. Held /\ Held \in Nat
  BY SnapIsNewest DEF Rearranged
<1>7. Len(Newest) = Held
  BY <1>5, <1>6, LenProperties
<1>8. \A i \in 1 .. Held : Newest[i] \in Sample
  BY <1>5, <1>7, ElementOfSeq
<1>9. \A i \in 1 .. Held : Newest[i] \in Int
  <2>1. \A x \in Sample : x \in Int
    BY Constants
  <2> QED
    BY <1>8, <2>1
<1> QED
  BY <1>5, <1>7, <1>9

LEMMA HeldIsNewest ==
  ASSUME IInv, NEW ns
  PROVE  Count(Snap, ns) = Count(Newest, ns)
<1>1. Rearranged(Snap, Newest, Held)
  BY SnapIsNewest
<1>2. CountIn(Snap, {ns}) = CountIn(Newest, {ns})
  BY <1>1, CountOfRearrangement
<1>3. ASSUME NEW s  PROVE Count(s, ns) = CountIn(s, {ns})
  <2>1. {i \in DOMAIN s : s[i] = ns} = {i \in DOMAIN s : s[i] \in {ns}}
    OBVIOUS
  <2> QED
    BY <2>1 DEF Count, CountIn
<1> QED
  BY <1>2, <1>3

\* However many samples are recorded, before and after the buffer wraps, it
\* holds the newest Cap of them, each as often as it was recorded.
THEOREM RingHoldsNewestCorrect == Spec => []RingHoldsNewest
<1>1. IInv => RingHoldsNewest
  BY HeldIsNewest DEF RingHoldsNewest
<1> QED
  BY <1>1, RingInvariance, PTL

---------------------------------------------------------------------------
(* The sorted snapshot.                                                    *)

\* Every sequence of numbers can be put in ascending order: its i-th element
\* goes to the position that counts the elements before it, a smaller one or
\* an equal one further left.  What Sorted chooses therefore exists.
LEMMA SortExists ==
  ASSUME NEW m \in Nat, NEW s, DOMAIN s = 1 .. m, \A i \in 1 .. m : s[i] \in Int
  PROVE  \E p \in Bijection(1 .. m, 1 .. m) :
            \A i, j \in 1 .. m : i <= j => s[p[i]] <= s[p[j]]
<1> DEFINE before(i) == {j \in 1 .. m : s[j] < s[i] \/ (s[j] = s[i] /\ j <= i)}
           r == [i \in 1 .. m |-> Cardinality(before(i))]
<1>1. IsFiniteSet(1 .. m) /\ Cardinality(1 .. m) = m
  BY FS_Interval
<1>2. ASSUME NEW i \in 1 .. m
      PROVE  /\ IsFiniteSet(before(i)) /\ i \in before(i)
             /\ Cardinality(before(i)) \in 1 .. m
  <2>1. before(i) \in SUBSET (1 .. m) /\ i \in before(i)
    OBVIOUS
  <2>2. /\ IsFiniteSet(before(i)) /\ Cardinality(before(i)) <= m
    BY <1>1, <2>1, FS_Subset
  <2>3. Cardinality(before(i)) \in Nat /\ Cardinality(before(i)) # 0
    BY <2>1, <2>2, FS_CardinalityType, FS_EmptySet
  <2> QED
    BY <2>1, <2>2, <2>3
<1>3. ASSUME NEW i \in 1 .. m, NEW j \in 1 .. m, i # j,
             s[j] < s[i] \/ (s[j] = s[i] /\ j < i)
      PROVE  r[j] < r[i]
  <2>1. before(j) \in SUBSET before(i)
    BY <1>3
  <2>2. i \notin before(j)
    BY <1>3
  <2>3. before(j) # before(i)
    BY <1>2, <2>2
  <2>4. Cardinality(before(j)) <= Cardinality(before(i))
        /\ Cardinality(before(i)) # Cardinality(before(j))
    BY <1>2, <2>1, <2>3, FS_Subset
  <2> HIDE DEF before
  <2>5. Cardinality(before(i)) \in Int /\ Cardinality(before(j)) \in Int
    BY <1>2
  <2> QED
    BY <2>4, <2>5
<1>4. r \in [1 .. m -> 1 .. m]
  BY <1>2
<1> HIDE DEF r
<1>5. r \in Injection(1 .. m, 1 .. m)
  <2>1. ASSUME NEW i \in 1 .. m, NEW j \in 1 .. m, i # j  PROVE r[i] # r[j]
    <3>1. r[j] < r[i] \/ r[i] < r[j]
      BY <1>3, <2>1
    <3> QED
      BY <1>4, <3>1
  <2> QED
    BY <1>4, <2>1 DEF Injection, IsInjective
<1>6. \A k \in 1 .. m : \E i \in 1 .. m : r[i] = k
  <2>1. r \in Surjection(1 .. m, 1 .. m)
    BY <1>1, <1>5, FS_Injection
  <2> QED
    BY <2>1 DEF Surjection
<1> DEFINE p == [k \in 1 .. m |-> CHOOSE i \in 1 .. m : r[i] = k]
<1>7. p \in [1 .. m -> 1 .. m] /\ \A k \in 1 .. m : r[p[k]] = k
  BY <1>6
<1>8. \A i \in 1 .. m : p[r[i]] = i
  BY <1>4, <1>5, <1>7 DEF Injection, IsInjective
<1> HIDE DEF p
<1>9. p \in Bijection(1 .. m, 1 .. m)
  <2>1. IsInjective(p)
    BY <1>7 DEF IsInjective
  <2>2. \A k \in 1 .. m : \E i \in 1 .. m : p[i] = k
    BY <1>4, <1>8
  <2> QED
    BY <1>7, <2>1, <2>2 DEF Bijection, Injection, Surjection
<1>10. ASSUME NEW i \in 1 .. m, NEW j \in 1 .. m, i <= j
       PROVE  s[p[i]] <= s[p[j]]
  <2>1. p[i] \in 1 .. m /\ p[j] \in 1 .. m /\ r[p[i]] = i /\ r[p[j]] = j
    BY <1>7
  <2>2. SUFFICES ASSUME s[p[j]] < s[p[i]]  PROVE FALSE
    BY <2>1
  <2>3. r[p[j]] < r[p[i]]
    BY <1>3, <2>1, <2>2
  <2> QED
    BY <1>10, <2>1, <2>3
<1> QED
  BY <1>9, <1>10

LEMMA SortedProperties ==
  ASSUME NEW m \in Nat, NEW s, DOMAIN s = 1 .. m, \A i \in 1 .. m : s[i] \in Int
  PROVE  /\ Rearranged(Sorted(s), s, m)
         /\ \A i \in 1 .. m : Sorted(s)[i] \in Int
         /\ \A i, j \in 1 .. m : i <= j => Sorted(s)[i] <= Sorted(s)[j]
<1> DEFINE ordered(p) == \A i, j \in 1 .. m : i <= j => s[p[i]] <= s[p[j]]
           order == CHOOSE p \in Bijection(1 .. m, 1 .. m) : ordered(p)
<1>1. order \in Bijection(1 .. m, 1 .. m) /\ ordered(order)
  <2>1. \E p \in Bijection(1 .. m, 1 .. m) : ordered(p)
    BY SortExists
  <2> HIDE DEF ordered
  <2> QED
    BY <2>1
<1>2. Sorted(s) = [i \in 1 .. m |-> s[order[i]]]
  BY DEF Sorted
<1> HIDE DEF order
<1>3. order \in [1 .. m -> 1 .. m]
  BY <1>1 DEF Bijection, Injection
<1> QED
  BY <1>1, <1>2, <1>3 DEF Rearranged

\* How many elements of t do not exceed x.
NotAboveIn(t, x) == Cardinality({i \in DOMAIN t : t[i] <= x})

\* In an ascending sequence at least k elements do not exceed the k-th, and
\* fewer than k do not exceed any smaller number.
LEMMA AscendingCount ==
  ASSUME NEW m \in Nat, NEW t, DOMAIN t = 1 .. m,
         \A i \in 1 .. m : t[i] \in Int,
         \A i, j \in 1 .. m : i <= j => t[i] <= t[j],
         NEW k \in 1 .. m
  PROVE  /\ \A x \in Int : NotAboveIn(t, x) \in Nat
         /\ NotAboveIn(t, t[k]) >= k
         /\ \A x \in Int : x < t[k] => NotAboveIn(t, x) < k
<1> DEFINE below(x) == {i \in 1 .. m : t[i] <= x}
<1>1. ASSUME NEW x \in Int
      PROVE  /\ IsFiniteSet(below(x)) /\ Cardinality(below(x)) \in Nat
             /\ NotAboveIn(t, x) = Cardinality(below(x))
  <2>1. IsFiniteSet(1 .. m) /\ below(x) \in SUBSET (1 .. m)
    BY FS_Interval
  <2>2. IsFiniteSet(below(x)) /\ Cardinality(below(x)) \in Nat
    BY <2>1, FS_Subset, FS_CardinalityType
  <2> QED
    BY <2>2 DEF NotAboveIn
<1>2. Cardinality(below(t[k])) >= k
  <2>1. 1 .. k \in SUBSET below(t[k])
    OBVIOUS
  <2>2. Cardinality(1 .. k) = k
    BY FS_Interval
  <2>3. t[k] \in Int
    OBVIOUS
  <2>4. Cardinality(1 .. k) <= Cardinality(below(t[k]))
    BY <1>1, <2>1, <2>3, FS_Subset
  <2> HIDE DEF below
  <2> QED
    BY <1>1, <2>2, <2>3, <2>4
<1>3. ASSUME NEW x \in Int, x < t[k]  PROVE Cardinality(below(x)) < k
  <2>1. below(x) \in SUBSET (1 .. k - 1)
    <3>1. SUFFICES ASSUME NEW i \in 1 .. m, t[i] <= x, i >= k  PROVE FALSE
      OBVIOUS
    <3>2. t[k] <= t[i] /\ t[k] \in Int /\ t[i] \in Int
      BY <3>1
    <3> QED
      BY <1>3, <3>1, <3>2
  <2>2. IsFiniteSet(1 .. k - 1) /\ Cardinality(1 .. k - 1) = k - 1
    <3>1. k - 1 \in Nat
      OBVIOUS
    <3> QED
      BY <3>1, FS_Interval
  <2>3. Cardinality(below(x)) <= k - 1
    BY <2>1, <2>2, FS_Subset
  <2> HIDE DEF below
  <2> QED
    BY <1>1, <2>3
<1> HIDE DEF below
<1> QED
  BY <1>1, <1>2, <1>3

\* However many samples are recorded, before and after the buffer wraps,
\* each percentile that Percentiles reports is the nearest rank among the
\* newest Cap samples.
THEOREM PercentilesCorrect == Spec => []PercentilesAreNearestRank
<1>1. IInv => PercentilesAreNearestRank
  <2> SUFFICES ASSUME IInv, Newest # <<>>, NEW pct \in {50, 95, 99}
               PROVE  LET v == Percentile(pct) IN
                      /\ 100 * NotAbove(v) >= pct * Len(Newest)
                      /\ \A i \in DOMAIN Newest :
                           Newest[i] < v =>
                             100 * NotAbove(Newest[i]) < pct * Len(Newest)
    BY DEF PercentilesAreNearestRank
  <2> DEFINE t == Sorted(Snap)
             v == Percentile(pct)
  <2>1. /\ Rearranged(Snap, Newest, Held)
        /\ Held \in Nat /\ DOMAIN Snap = 1 .. Held /\ DOMAIN Newest = 1 .. Held
    BY SnapIsNewest DEF Rearranged
  <2>2. \A i \in 1 .. Held : Snap[i] \in Int
    <3>1. \A i \in 1 .. Held : Snap[i] = samples[i - 1] /\ i - 1 \in 0 .. Cap - 1
      BY Constants DEF IInv, TypeOK, Snap, Held
    <3>2. \A i \in 0 .. Cap - 1 : samples[i] \in Int
      BY Constants DEF IInv, TypeOK
    <3> QED
      BY <3>1, <3>2
  <2>3. /\ Rearranged(t, Snap, Held) /\ DOMAIN t = 1 .. Held
        /\ \A i \in 1 .. Held : t[i] \in Int
        /\ \A i, j \in 1 .. Held : i <= j => t[i] <= t[j]
    <3>1. /\ Rearranged(t, Snap, Held)
          /\ \A i \in 1 .. Held : t[i] \in Int
          /\ \A i, j \in 1 .. Held : i <= j => t[i] <= t[j]
      BY <2>1, <2>2, SortedProperties
    <3> QED
      BY <3>1 DEF Rearranged
  <2>4. Len(Newest) = Held /\ Held # 0 /\ \A i \in 1 .. Held : Newest[i] \in Int
    <3>1. Held # 0
      BY NewestType, EmptySeq
    <3> QED
      BY <3>1, NewestType
  <2>5. v = t[Rank(pct, Held) + 1]
    BY <2>4 DEF Percentile
  <2> HIDE DEF t, v
  <2>6. /\ v \in Int
        /\ 100 * NotAboveIn(t, v) >= pct * Held
        /\ \A x \in Int : x < v => 100 * NotAboveIn(t, x) < pct * Held
    <3> DEFINE m == Held
               k == Rank(pct, m) + 1
               need == pct * m
    <3>1. m \in Nat /\ m > 0 /\ pct \in 1 .. 100
      BY <2>1, <2>4
    <3> HIDE DEF m
    <3>2. k \in 1 .. m /\ 100 * k >= need /\ 100 * (k - 1) < need /\ need \in Int
      <4>1. /\ Rank(pct, m) \in 0 .. m - 1
            /\ 100 * (Rank(pct, m) + 1) >= need
            /\ 100 * Rank(pct, m) < need
        BY <3>1, RankIsNearest
      <4>2. need \in Int
        BY <3>1
      <4> HIDE DEF need
      <4> QED
        BY <3>1, <4>1, <4>2
    <3>3. v = t[k]
      BY <2>5 DEF m
    <3> HIDE DEF k, need
    <3>4. /\ \A x \in Int : NotAboveIn(t, x) \in Nat
          /\ NotAboveIn(t, t[k]) >= k
          /\ \A x \in Int : x < t[k] => NotAboveIn(t, x) < k
      BY <2>3, <3>1, <3>2, AscendingCount DEF m
    <3>5. v \in Int
      BY <2>3, <3>2, <3>3 DEF m
    <3>6. 100 * NotAboveIn(t, v) >= need
      <4> DEFINE c == NotAboveIn(t, v)
      <4>1. c \in Nat /\ c >= k
        BY <3>3, <3>4, <3>5
      <4> HIDE DEF c
      <4>2. 100 * c >= need
        BY <3>2, <4>1
      <4> QED
        BY <4>2 DEF c
    <3>7. ASSUME NEW x \in Int, x < v  PROVE 100 * NotAboveIn(t, x) < need
      <4> DEFINE c == NotAboveIn(t, x)
      <4>1. c \in Nat /\ c < k
        BY <3>3, <3>4, <3>7
      <4> HIDE DEF c
      <4>2. 100 * c < need
        BY <3>2, <4>1
      <4> QED
        BY <4>2 DEF c
    <3> QED
      BY <3>5, <3>6, <3>7 DEF m, need
  <2>7. ASSUME NEW x \in Int  PROVE NotAbove(x) = NotAboveIn(t, x)
    <3> DEFINE V == {y \in Int : y <= x}
    <3>1. CountIn(t, V) = CountIn(Snap, V) /\ CountIn(Snap, V) = CountIn(Newest, V)
      BY <2>1, <2>3, CountOfRearrangement
    <3>2. {i \in DOMAIN t : t[i] \in V} = {i \in DOMAIN t : t[i] <= x}
      BY <2>3
    <3>3. {i \in DOMAIN Newest : Newest[i] \in V} = {i \in DOMAIN Newest : Newest[i] <= x}
      BY <2>1, <2>4
    <3> QED
      BY <3>1, <3>2, <3>3 DEF CountIn, NotAbove, NotAboveIn
  <2> QED
    BY <2>1, <2>4, <2>6, <2>7 DEF v
<1> QED
  BY <1>1, RingInvariance, PTL

---------------------------------------------------------------------------
(* The ring beside the tracker.                                            *)

LEMMA MetricsImplementsRing == MetricsSpec => Spec
<1>1. MetricsInit => Init
  BY DEF MetricsInit
<1>2. [MetricsNext]_metricsVars => [Next]_vars
  BY DEF MetricsNext, RecordLatency, Tick, RecordWrite, WritesPerSecond,
         metricsVars, vars, Next
<1> QED
  BY <1>1, <1>2, PTL DEF MetricsSpec, Spec

\* The tracker's operations and the clock leave the ring alone, so what is
\* true of the ring is true of the whole package.
THEOREM MetricsRingCorrect ==
  MetricsSpec => [](TypeOK /\ RingHoldsNewest /\ PercentilesAreNearestRank)
BY MetricsImplementsRing, RingTypeCorrect, RingHoldsNewestCorrect,
   PercentilesCorrect, PTL

---------------------------------------------------------------------------
(* The throughput tracker.                                                 *)

\* A window that is open has counted what was written since it was opened.
TrackerInv ==
    /\ now \in Nat \ {0} /\ totalWrites \in Nat
    /\ windowStart \in Nat /\ startCount \in Nat
    /\ windowStart # 0 => pending = totalWrites - startCount

LEMMA TrackerInvariance == MetricsSpec => []TrackerInv
<1>1. MetricsInit => TrackerInv
  BY DEF MetricsInit, TrackerInv
<1>2. TrackerInv /\ [MetricsNext]_metricsVars => TrackerInv'
  <2> SUFFICES ASSUME TrackerInv, [MetricsNext]_metricsVars  PROVE TrackerInv'
    OBVIOUS
  <2> USE DEF TrackerInv
  <2>1. CASE RecordLatency
    BY <2>1 DEF RecordLatency, trackerVars
  <2>2. CASE Tick
    BY <2>2 DEF Tick
  <2>3. CASE RecordWrite
    BY <2>3 DEF RecordWrite
  <2>4. CASE WritesPerSecond
    BY <2>4 DEF WritesPerSecond, FirstCall, CloseWindow, WithinWindow, OpenWindow
  <2>5. CASE UNCHANGED metricsVars
    BY <2>5 DEF metricsVars, trackerVars
  <2> QED
    BY <2>1, <2>2, <2>3, <2>4, <2>5 DEF MetricsNext
<1> QED
  BY <1>1, <1>2, PTL DEF MetricsSpec

\* However irregularly /metrics is read, a reported rate counts the writes
\* since the last window was opened, over a second or more.
THEOREM RatesCountTheirWindowCorrect == MetricsSpec => RatesCountTheirWindow
<1> DEFINE Rate == windowStart # 0 /\ windowStart' # windowStart =>
                     lastWPS'.writes = pending /\ lastWPS'.ticks >= Second
<1>1. TrackerInv /\ [MetricsNext]_metricsVars => [Rate]_metricsVars
  <2> SUFFICES ASSUME TrackerInv, MetricsNext, windowStart # 0,
                      windowStart' # windowStart
               PROVE  lastWPS'.writes = pending /\ lastWPS'.ticks >= Second
    OBVIOUS
  <2>1. CloseWindow
    BY DEF MetricsNext, RecordLatency, trackerVars, Tick, RecordWrite,
           WritesPerSecond, FirstCall, WithinWindow
  <2> QED
    BY <2>1 DEF CloseWindow, TrackerInv
<1> QED
  BY <1>1, TrackerInvariance, PTL DEF MetricsSpec, RatesCountTheirWindow

=============================================================================
