--------------------------- MODULE Service_proofs ---------------------------
(***************************************************************************)
(* Proofs about the service end to end: the replicas that clients read     *)
(* implement ReplicatedMap, and a client that was told that its write is   *)
(* done reads it, or a later one.  They rest on the inductive invariant of *)
(* ReplicatedKV_agreement and on ClientInv below.                          *)
(***************************************************************************)
EXTENDS Service, ReplicatedKV_agreement

---------------------------------------------------------------------------
(* What clients and handlers know of the log.                              *)

\* Nothing is asked or acknowledged but requests.
ClientTypes ==
    /\ asked \subseteq Request
    /\ acked \in [Request -> Nat]
    /\ before \subseteq Request \X Request
    /\ waiting \subseteq Node \X Request \X Nat
    /\ acker \subseteq Node \X Request

\* No snapshot is taken and no mark expires.
Calm == spent["snapshot"] = 0 /\ spent["evict"] = 0

\* Entry i is a copy of q.
CopyOf(i, q) == i \in 1 .. Len(log) /\ log[i] = cmd[q]

LogInv == \A i \in 1 .. Len(log) : \E q \in asked : log[i] = cmd[q]

AckedInv == \A q \in Acknowledged : CopyOf(acked[q], q)

\* A PUT sent after p was acknowledged has copies only behind p's.
OrderInv ==
    \A p, q \in Request : <<p, q>> \in before =>
        /\ acked[p] # 0 /\ q \in asked
        /\ \A i \in 1 .. Len(log) : log[i] = cmd[q] => acked[p] < i

\* What a table held before the entry was proposed is behind it.
WaitingInv ==
    \A n \in Node, q \in Request, i \in Nat : <<n, q, i>> \in waiting =>
        /\ CopyOf(i, q) /\ up[n]
        /\ \A r \in rows[n] : r.idx <= i \/ r.idx <= applied[n]

\* A node that has acknowledged a PUT has caught up, and applied a copy.
AckerInv ==
    \A n \in Node, q \in Request : <<n, q>> \in acker =>
        CaughtUp(n) /\ \E i \in 1 .. applied[n] : log[i] = cmd[q]

ClientInv ==
    /\ ClientTypes /\ Calm /\ LogInv /\ AckedInv
    /\ OrderInv /\ WaitingInv /\ AckerInv

LEMMA CalmIsUndisturbed == Calm => Undisturbed
BY DEF Calm, Undisturbed

\* A step of the service is a step of the replicas, or leaves them alone.
LEMMA ServiceSteps == TypeInv /\ [ServiceNext]_serviceVars => [Next]_vars
<1> SUFFICES ASSUME TypeInv, [ServiceNext]_serviceVars  PROVE [Next]_vars
  OBVIOUS
<1>1. ASSUME NEW q \in Request, Put(q)
      PROVE  UNCHANGED vars
  BY <1>1 DEF Put
<1>2. ASSUME NEW q \in Request, NEW n \in Leader, Propose(n, q)
      PROVE  Next
  BY <1>2, ServiceAssumption DEF Propose, Next
<1>3. ASSUME NEW w \in waiting, Acknowledge(w[1], w[2], w[3])
      PROVE  UNCHANGED vars
  BY <1>3 DEF Acknowledge
<1>4. ASSUME NEW n \in Node, NodeWorks(n)
      PROVE  Next
  BY <1>4 DEF NodeWorks, Next, NodeStep
<1>5. ASSUME NEW n \in Node, NodeDies(n)
      PROVE  Next
  BY <1>5 DEF NodeDies, Next, NodeStep
<1>6. CASE UNCHANGED serviceVars
  BY <1>6 DEF serviceVars, vars
<1> QED
  BY <1>1, <1>2, <1>3, <1>4, <1>5, <1>6 DEF ServiceNext

LEMMA ServiceIsReplicas == ServiceSpec => Spec
<1>1. ServiceInit => Init
  BY DEF ServiceInit
<1>2. TypeInv /\ [ServiceNext]_serviceVars => [Next]_vars
  BY ServiceSteps
<1>3. TypeInv /\ [Next]_vars => TypeInv'
  BY TypeStep
<1>4. Init => TypeInv
  BY TypeInit
<1> QED
  BY <1>1, <1>2, <1>3, <1>4, PTL DEF ServiceSpec, Spec

---------------------------------------------------------------------------
(* ClientInv is inductive.                                                 *)

LEMMA ClientInit == ServiceInit => ClientInv
  BY DEF ServiceInit, Init, ClientInv, ClientTypes, Calm, LogInv, AckedInv,
         Acknowledged, OrderInv, WaitingInv, AckerInv, Disturbance

LEMMA PutStep ==
  ASSUME IInv, ClientInv, NEW q \in Request, Put(q)
  PROVE  ClientInv'
<1> USE DEF ClientInv
<1>1. UNCHANGED vars /\ UNCHANGED <<waiting, acked, acker>>
  BY DEF Put
<1>2. ClientTypes' /\ Calm'
  BY <1>1 DEF Put, ClientTypes, Calm, Acknowledged, vars
<1>3. LogInv' /\ AckedInv'
  BY <1>1 DEF Put, LogInv, AckedInv, Acknowledged, CopyOf, vars
<1>4. \A i \in 1 .. Len(log) : log[i] # cmd[q]
  BY ServiceAssumption DEF Put, LogInv, ClientTypes
<1>5. OrderInv'
  BY <1>1, <1>4 DEF Put, OrderInv, Acknowledged, vars
<1>6. WaitingInv' /\ AckerInv'
  BY <1>1 DEF WaitingInv, AckerInv, CopyOf, CaughtUp, vars
<1> QED
  BY <1>2, <1>3, <1>5, <1>6

LEMMA ProposeStep ==
  ASSUME IInv, ClientInv, NEW n \in Node, NEW q \in Request, Propose(n, q)
  PROVE  ClientInv'
<1> USE DEF ClientInv
<1> DEFINE i == Len(log) + 1
<1>1. /\ log' = Append(log, cmd[q]) /\ waiting' = waiting \cup {<<n, q, Len(log')>>}
      /\ UNCHANGED <<up, applied, rows, spent, asked, before, acked, acker>>
      /\ q \in asked /\ up[n] /\ log \in Seq(Command) /\ cmd[q] \in Command
      /\ applied \in [Node -> 0 .. Len(log)]
  BY ServiceAssumption DEF Propose, Commit, IInv, TypeInv, TypeOK
<1>2. /\ Len(log') = i /\ log'[i] = cmd[q]
      /\ \A j \in 1 .. Len(log) : log'[j] = log[j]
      /\ Len(log) \in Nat
  BY <1>1, AppendProperties
<1>3. ClientTypes' /\ Calm'
  BY <1>1, <1>2 DEF ClientTypes, Calm
<1>4. \A j \in 1 .. Len(log') : j \in 1 .. Len(log) \/ j = i
  BY <1>2
<1>5. LogInv'
  BY <1>1, <1>2, <1>4 DEF LogInv
<1>6. \A j, p : CopyOf(j, p) => CopyOf(j, p)'
  BY <1>2 DEF CopyOf
<1>7. AckedInv'
  BY <1>1, <1>6 DEF AckedInv, Acknowledged
<1>8. OrderInv'
  <2> SUFFICES ASSUME NEW p \in Request, NEW r \in Request, <<p, r>> \in before
               PROVE  /\ acked[p] # 0 /\ r \in asked
                      /\ \A j \in 1 .. Len(log') : log'[j] = cmd[r] => acked[p] < j
    BY <1>1 DEF OrderInv
  <2>1. acked[p] # 0 /\ r \in asked /\ acked[p] \in 1 .. Len(log)
    BY DEF OrderInv, AckedInv, Acknowledged, CopyOf
  <2>2. \A j \in 1 .. Len(log) : log'[j] = cmd[r] => acked[p] < j
    BY <1>2 DEF OrderInv
  <2> QED
    BY <1>2, <1>4, <2>1, <2>2
<1>9. WaitingInv'
  <2> SUFFICES ASSUME NEW m \in Node, NEW r \in Request, NEW j \in Nat,
                      <<m, r, j>> \in waiting'
               PROVE  /\ CopyOf(j, r)' /\ up'[m]
                      /\ \A s \in rows'[m] : s.idx <= j \/ s.idx <= applied'[m]
    BY DEF WaitingInv
  <2>1. CASE <<m, r, j>> \in waiting
    BY <1>1, <1>6, <2>1 DEF WaitingInv
  <2>2. CASE m = n /\ r = q /\ j = i
    <3>1. CopyOf(j, r)'
      BY <1>2, <2>2 DEF CopyOf
    <3>2. \A s \in rows[n] : s.idx \in 1 .. Len(log)
      BY CalmIsUndisturbed DEF IInv, SafeInv, NodeInv, RowsInv
    <3> QED
      BY <1>1, <1>2, <2>2, <3>1, <3>2
  <2>3. <<m, r, j>> \in waiting \/ (m = n /\ r = q /\ j = i)
    BY <1>1, <1>2
  <2> QED
    BY <2>1, <2>2, <2>3
<1>10. AckerInv'
  <2> SUFFICES ASSUME NEW m \in Node, NEW r \in Request, <<m, r>> \in acker
               PROVE  CaughtUp(m)' /\ \E j \in 1 .. applied[m] : log'[j] = cmd[r]
    BY <1>1 DEF AckerInv
  <2>1. CaughtUp(m) /\ \E j \in 1 .. applied[m] : log[j] = cmd[r]
    BY DEF AckerInv
  <2> QED
    BY <1>1, <1>2, <2>1 DEF CaughtUp
<1> QED
  BY <1>3, <1>5, <1>7, <1>8, <1>9, <1>10

LEMMA AcknowledgeStep ==
  ASSUME IInv, ClientInv, NEW n \in Node, NEW q \in Request, NEW i \in Nat,
         <<n, q, i>> \in waiting, Acknowledge(n, q, i)
  PROVE  ClientInv'
<1> USE DEF ClientInv
<1>1. /\ applied[n] >= i /\ waiting' \subseteq waiting
      /\ acked' = [acked EXCEPT ![q] = IF acked[q] = 0 THEN i ELSE acked[q]]
      /\ acker' = acker \cup {<<n, q>>}
      /\ UNCHANGED <<log, up, applied, rows, spent, asked, before>>
  BY DEF Acknowledge, HasResponse, vars
<1>2. /\ acked \in [Request -> Nat]
      /\ \A p \in Request : acked[p] # 0 => acked'[p] = acked[p]
      /\ \A p \in Request : acked'[p] # acked[p] => p = q /\ acked'[p] = i
  BY <1>1 DEF ClientTypes
<1>3. /\ CopyOf(i, q) /\ up[n]
      /\ \A r \in rows[n] : r.idx <= i \/ r.idx <= applied[n]
  BY DEF WaitingInv
<1>4. ClientTypes' /\ Calm' /\ LogInv'
  BY <1>1 DEF ClientTypes, Calm, LogInv
<1>5. AckedInv'
  BY <1>1, <1>2, <1>3 DEF AckedInv, Acknowledged, CopyOf
<1>6. OrderInv'
  BY <1>1, <1>2 DEF OrderInv
<1>7. WaitingInv'
  BY <1>1 DEF WaitingInv, CopyOf
<1>8. AckerInv'
  <2>1. CaughtUp(n)
    <3>1. ASSUME NEW r \in rows[n]  PROVE r.idx <= applied[n]
      <4>1. r.idx \in Nat /\ applied[n] \in Nat
        BY DEF IInv, TypeInv, TypeOK, Row
      <4> QED
        BY <1>1, <1>3, <4>1
    <3> QED
      BY <1>3, <3>1 DEF CaughtUp
  <2>2. i \in 1 .. applied[n] /\ log[i] = cmd[q]
    BY <1>1, <1>3 DEF CopyOf, IInv, TypeInv, TypeOK
  <2>3. \A m \in Node : CaughtUp(m) => CaughtUp(m)'
    BY <1>1 DEF CaughtUp
  <2> QED
    BY <1>1, <2>1, <2>2, <2>3 DEF AckerInv
<1> QED
  BY <1>4, <1>5, <1>6, <1>7, <1>8

\* What stays true of clients when no client moves.
LEMMA ClientFrame ==
  ASSUME ClientInv, log' = log, Calm', ClientTypes',
         UNCHANGED <<asked, before, acked>>,
         waiting' \subseteq waiting, acker' \subseteq acker
  PROVE  (WaitingInv /\ AckerInv)' => ClientInv'
BY DEF ClientInv, LogInv, AckedInv, Acknowledged, OrderInv, CopyOf

LEMMA WorksStep ==
  ASSUME IInv, IInv', ClientInv, NEW n \in Node, NodeWorks(n)
  PROVE  ClientInv'
<1> USE DEF ClientInv
<1>1. UNCHANGED clientVars
  BY DEF NodeWorks
<1>2. Calm' /\ log' = log
  <2>1. spent' = spent \/ Spend("fail")
    BY DEF NodeWorks, Apply, ApplyDuplicate, ApplyFresh, Send, Enqueue,
           SyncInsert, SyncInsertFails, Flush, FlushFails, FlushNothing,
           Restart, vars
  <2>2. log' = log
    BY DEF NodeWorks, Apply, ApplyDuplicate, ApplyFresh, Flush, FlushFails,
           FlushNothing, Restart, vars
  <2> QED
    BY <2>1, <2>2 DEF Calm, Spend, IInv, TypeInv, TypeOK, Disturbance
<1>3. Applies(n) \/ Returns(n) \/ Quiet
  BY CalmIsUndisturbed, WorkSteps DEF NodeWorks
<1>4. applied \in [Node -> Int] /\ applied' \in [Node -> Int] /\ up \in [Node -> BOOLEAN]
  BY DEF IInv, TypeInv, TypeOK
<1>5. /\ RowsGrow
      /\ \A m \in Node : up[m] => up'[m] /\ applied[m] <= applied'[m]
  BY <1>3, <1>4 DEF Applies, Returns, Quiet, RowsGrow
<1>6. \A m \in Node : \A r \in rows[m] : r.idx \in Int
  BY DEF IInv, TypeInv, TypeOK, Row
<1>7. WaitingInv'
  <2> SUFFICES ASSUME NEW m \in Node, NEW q \in Request, NEW i \in Nat,
                      <<m, q, i>> \in waiting
               PROVE  /\ CopyOf(i, q)' /\ up'[m]
                      /\ \A r \in rows'[m] : r.idx <= i \/ r.idx <= applied'[m]
    BY <1>1 DEF WaitingInv, clientVars
  <2>1. /\ CopyOf(i, q) /\ up[m]
        /\ \A r \in rows[m] : r.idx <= i \/ r.idx <= applied[m]
    BY DEF WaitingInv
  <2> QED
    BY <1>2, <1>4, <1>5, <1>6, <2>1 DEF CopyOf, RowsGrow
<1>8. AckerInv'
  <2> SUFFICES ASSUME NEW m \in Node, NEW q \in Request, <<m, q>> \in acker
               PROVE  CaughtUp(m)' /\ \E i \in 1 .. applied'[m] : log[i] = cmd[q]
    BY <1>1, <1>2 DEF AckerInv, clientVars
  <2>1. CaughtUp(m) /\ \E i \in 1 .. applied[m] : log[i] = cmd[q]
    BY DEF AckerInv
  <2>2. up'[m] /\ applied[m] <= applied'[m]
    BY <1>5, <2>1 DEF CaughtUp
  <2>3. CaughtUp(m)'
    BY <1>4, <1>5, <1>6, <2>1, <2>2 DEF CaughtUp, RowsGrow
  <2> QED
    BY <1>4, <2>1, <2>2, <2>3
<1>9. ClientTypes'
  BY <1>1 DEF clientVars, ClientTypes
<1> QED
  BY <1>1, <1>2, <1>7, <1>8, <1>9, ClientFrame DEF clientVars

LEMMA DiesStep ==
  ASSUME IInv, ClientInv, NEW n \in Node, NodeDies(n)
  PROVE  ClientInv'
<1> USE DEF ClientInv
<1>1. /\ waiting' = {w \in waiting : w[1] # n}
      /\ acker' = {a \in acker : a[1] # n}
      /\ UNCHANGED <<log, rows, asked, before, acked>>
      /\ Spend("crash")
  BY DEF NodeDies, Crash
<1>2. Calm'
  BY <1>1 DEF Calm, Spend, IInv, TypeInv, TypeOK, Disturbance
<1>3. \A m \in Node : m # n => up'[m] = up[m] /\ applied'[m] = applied[m]
  BY DEF NodeDies, Crash, Die, IInv, TypeInv, TypeOK
<1>4. WaitingInv'
  <2>1. ASSUME NEW m \in Node, NEW q \in Request, NEW i \in Nat,
               <<m, q, i>> \in waiting'
        PROVE  m # n /\ <<m, q, i>> \in waiting
    BY <1>1, <2>1
  <2> QED
    BY <1>1, <1>3, <2>1 DEF WaitingInv, CopyOf
<1>5. AckerInv'
  <2>1. ASSUME NEW m \in Node, NEW q \in Request, <<m, q>> \in acker'
        PROVE  m # n /\ <<m, q>> \in acker
    BY <1>1, <2>1
  <2> QED
    BY <1>1, <1>3, <2>1 DEF AckerInv, CaughtUp
<1>6. ClientTypes'
  BY <1>1 DEF ClientTypes
<1> QED
  BY <1>1, <1>2, <1>4, <1>5, <1>6, ClientFrame

LEMMA ClientStep ==
  IInv /\ IInv' /\ ClientInv /\ [ServiceNext]_serviceVars => ClientInv'
<1> SUFFICES ASSUME IInv, IInv', ClientInv, [ServiceNext]_serviceVars
             PROVE  ClientInv'
  OBVIOUS
<1>1. ASSUME NEW w \in waiting, Acknowledge(w[1], w[2], w[3])
      PROVE  ClientInv'
  <2>1. w[1] \in Node /\ w[2] \in Request /\ w[3] \in Nat /\ w = <<w[1], w[2], w[3]>>
    BY DEF ClientInv, ClientTypes
  <2> QED
    BY <1>1, <2>1, AcknowledgeStep
<1>2. CASE UNCHANGED serviceVars
  BY <1>2 DEF serviceVars, ClientInv, ClientTypes, Calm, LogInv, AckedInv, CopyOf,
              Acknowledged, OrderInv, WaitingInv, AckerInv, CaughtUp
<1>3. ASSUME NEW q \in Request, NEW n \in Leader, Propose(n, q)
      PROVE  ClientInv'
  BY <1>3, ProposeStep, ServiceAssumption
<1> QED
  BY <1>1, <1>2, <1>3, PutStep, WorksStep, DiesStep DEF ServiceNext

LEMMA ClientInvariance == ServiceSpec => [](IInv /\ ClientInv)
BY ServiceIsReplicas, Inductive, ClientInit, ClientStep, PTL DEF ServiceSpec

---------------------------------------------------------------------------
(* Theorems.                                                               *)

\* Whatever clients, handlers, crashes and failed inserts do, a live replica
\* serves the states of the log one after another, and one that comes back
\* only values that were committed to their keys (fsm.go Apply, main.go).
\* Service has no snapshots, power failures or expiry of marks, so that its
\* logs stay Undisturbed.
THEOREM ServiceImplementsReplicatedMap == ServiceSpec => ImplementsReplicatedMap
<1>1. ClientInv => Undisturbed
  BY CalmIsUndisturbed DEF ClientInv
<1> QED
  BY <1>1, ServiceIsReplicas, ClientInvariance, ReplicasImplementReplicatedMap, PTL

\* A node that has caught up and applied a copy of q answers with q or with
\* a PUT that was not over when q was sent: the last effective write to the
\* key is not before the first copy of q, and each copy of a PUT that was
\* over is.
LEMMA ReadsAfterCopy ==
  ASSUME IInv, ClientInv, NEW n \in Node, NEW q \in Request, CaughtUp(n),
         NEW i \in 1 .. applied[n], log[i] = cmd[q], CaughtUpAgrees
  PROVE  ReadsAtLeast(n, q)
<1> USE DEF ClientInv
<1> DEFINE k == cmd[q].key
           W == Writes(log, k, applied[n])
           l == Last(W)
<1>1. /\ applied[n] \in 0 .. Len(log) /\ log \in Seq(Command)
      /\ k \in Key /\ i \in 1 .. Len(log)
  BY ServiceAssumption DEF IInv, TypeInv, TypeOK, Command
<1>2. kv[n] = StateAt(log, applied[n])
  BY CalmIsUndisturbed DEF CaughtUpAgrees
<1>3. PICK j \in 1 .. i : Effective(log, j) /\ log[j].idem = log[i].idem
  BY <1>1, FirstOccurrence
<1>4. log[j] = cmd[q]
  <2>1. j \in 1 .. Len(log)
    BY <1>1
  <2>2. PICK p \in asked : log[j] = cmd[p]
    BY <2>1 DEF LogInv
  <2> QED
    BY <1>3, <2>2, ServiceAssumption DEF ClientTypes
<1>5. j \in W
  BY <1>1, <1>3, <1>4 DEF Writes
<1>6. l \in W /\ j <= l
  <2>1. W \subseteq Nat /\ \A x \in W : x <= applied[n]
    BY <1>1 DEF Writes
  <2>2. \E x \in W : \A y \in W : y <= x
    <3>1. applied[n] \in Nat /\ W # {}
      BY <1>1, <1>5
    <3> HIDE DEF W
    <3> QED
      BY <2>1, <3>1, BoundedSetHasMax
  <2> HIDE DEF W
  <2> QED
    BY <1>5, <2>2 DEF Last
<1> HIDE DEF l
<1>7. /\ l \in 1 .. Len(log) /\ log[l].key = k /\ Effective(log, l)
      /\ kv[n][k] = log[l].val
  <2>1. kv[n][k] = log[l].val
    BY <1>1, <1>2, <1>6 DEF StateAt, l
  <2> QED
    BY <1>1, <1>6, <2>1 DEF Writes
<1>8. PICK r \in asked : log[l] = cmd[r]
  BY <1>7 DEF LogInv
<1>9. <<r, q>> \notin before
  <2> SUFFICES ASSUME <<r, q>> \in before  PROVE FALSE
    OBVIOUS
  <2>1. r \in Request /\ acked[r] # 0 /\ acked[r] < j
    BY <1>1, <1>4 DEF OrderInv, ClientTypes
  <2>2. acked[r] \in 1 .. Len(log) /\ log[acked[r]] = cmd[r]
    BY <2>1 DEF AckedInv, Acknowledged, CopyOf
  <2>3. acked[r] \in 1 .. l - 1
    BY <1>6, <1>7, <2>1, <2>2
  <2> QED
    BY <1>7, <1>8, <2>2, <2>3 DEF Effective
<1> QED
  BY <1>7, <1>8, <1>9 DEF ReadsAtLeast, Get

\* Whoever was told that a write is done reads it, or a later one, from
\* every node that has caught up with the acknowledged index (raft.go Apply,
\* fsm.go Apply, http.go handleGet), for any number of nodes, clients,
\* retries, crashes and failed inserts.
THEOREM ReadsAreCurrentCorrect == ServiceSpec => []ReadsAreCurrent
<1>1. IInv /\ ClientInv /\ CaughtUpAgrees => ReadsAreCurrent
  <2> SUFFICES ASSUME IInv, ClientInv, CaughtUpAgrees,
                      NEW n \in Node, NEW q \in Acknowledged,
                      CaughtUp(n), applied[n] >= acked[q]
               PROVE  ReadsAtLeast(n, q)
    BY DEF ReadsAreCurrent
  <2>1. q \in Request /\ acked[q] \in 1 .. applied[n] /\ log[acked[q]] = cmd[q]
    BY DEF Acknowledged, ClientInv, AckedInv, CopyOf, IInv, TypeInv, TypeOK
  <2> QED
    BY <2>1, ReadsAfterCopy
<1> QED
  BY <1>1, ServiceIsReplicas, ClientInvariance, CaughtUpCorrect, PTL

\* The node that answered 200 serves the write until it goes down, with no
\* condition on what it has caught up with (raft.go Apply: the answer waits
\* for the node's own FSM).
THEOREM AckerReadsItsWritesCorrect == ServiceSpec => []AckerReadsItsWrites
<1>1. IInv /\ ClientInv /\ CaughtUpAgrees => AckerReadsItsWrites
  <2> SUFFICES ASSUME IInv, ClientInv, CaughtUpAgrees, NEW a \in acker
               PROVE  ReadsAtLeast(a[1], a[2])
    BY DEF AckerReadsItsWrites
  <2>1. a[1] \in Node /\ a[2] \in Request /\ <<a[1], a[2]>> \in acker
    BY DEF ClientInv, ClientTypes
  <2>2. CaughtUp(a[1]) /\ \E i \in 1 .. applied[a[1]] : log[i] = cmd[a[2]]
    BY <2>1 DEF ClientInv, AckerInv
  <2> QED
    BY <2>1, <2>2, ReadsAfterCopy
<1> QED
  BY <1>1, ServiceIsReplicas, ClientInvariance, CaughtUpCorrect, PTL

=============================================================================
