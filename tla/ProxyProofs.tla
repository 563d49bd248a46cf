---------------------------- MODULE ProxyProofs ----------------------------
(***************************************************************************)
(* Proofs about Proxy as a whole, for every number of threads: the safety  *)
(* properties of Lifecycle, and the bound of QueueMetric, for every        *)
(* queue_size.                                                             *)
(***************************************************************************)
EXTENDS Lifecycle, QueueMetric, TLAPS

-----------------------------------------------------------------------------
(* Lifecycle                                                               *)

\* Where main is tells how far the loop of Proxy has come: one entry of _queues for
\* each thread, and one more between the two statements of the loop's body.
LoopInv ==
  /\ main = "preparing" => i = 0 /\ queues = 0
  /\ main = "growing"   => i < ThreadsCount /\ queues = i
  /\ main = "spawning"  => i < ThreadsCount /\ queues = i + 1
  /\ i <= queues
  /\ \A t \in 1..ThreadsCount : worker[t] # "none" => t <= i

\* Where main is tells what can be there of the process and of the thread of Stats.
StageInv ==
  /\ process \in {"exited", "failed", "aborted"} => main = "done"
  /\ main \in {"preparing", "growing", "spawning", "stats"} => stats = "none"

LifecycleInv == LifecycleTypeOK /\ LoopInv /\ StageInv /\ NothingUsedAfterDestruction /\ WaitsOnlyForStopped

\* The invariant holds at the start.
LEMMA InitLifecycleInv == LifecycleInit => LifecycleInv
  <1> SUFFICES ASSUME LifecycleInit PROVE LifecycleInv
    OBVIOUS
  <1> USE ThreadsAssumption DEF LifecycleInit
  <1>1. 0 \in 0..ThreadsCount
    OBVIOUS
  <1>2. LifecycleTypeOK
    BY <1>1 DEF LifecycleTypeOK
  <1>3. LoopInv
    BY DEF LoopInv
  <1>4. StageInv /\ NothingUsedAfterDestruction /\ WaitsOnlyForStopped
    BY DEF StageInv, NothingUsedAfterDestruction, WaitsOnlyForStopped
  <1> QED BY <1>2, <1>3, <1>4 DEF LifecycleInv

\* The steps of main keep the types.
LEMMA MainStepTypeOK ==
  ASSUME LifecycleTypeOK, LoopInv, MainStep
  PROVE  LifecycleTypeOK'
  <1> USE ThreadsAssumption DEF LifecycleTypeOK, LoopInv, MainAt, LoopTest
  <1>1. CASE PrepareFails BY <1>1 DEF PrepareFails
  <1>2. CASE Prepare BY <1>2 DEF Prepare
  <1>3. CASE Grow BY <1>3 DEF Grow
  <1>4. CASE Spawn BY <1>4 DEF Spawn
  <1>5. CASE SpawnFails BY <1>5 DEF SpawnFails
  <1>6. CASE SpawnStats BY <1>6 DEF SpawnStats
  <1>7. CASE SpawnStatsFails BY <1>7 DEF SpawnStatsFails
  <1>8. CASE HandleSignal BY <1>8 DEF HandleSignal
  <1>9. CASE JoinStats BY <1>9 DEF JoinStats
  <1>10. CASE JoinWorkers BY <1>10 DEF JoinWorkers
  <1> QED BY <1>1, <1>2, <1>3, <1>4, <1>5, <1>6, <1>7, <1>8, <1>9, <1>10 DEF MainStep

\* The steps of main keep the invariant.
LEMMA MainStepInv ==
  ASSUME LifecycleInv, MainStep
  PROVE  LoopInv' /\ StageInv' /\ NothingUsedAfterDestruction' /\ WaitsOnlyForStopped'
  <1> USE ThreadsAssumption DEF LifecycleInv, LifecycleTypeOK, LoopInv, StageInv, MainAt, LoopTest, Alive,
          NothingUsedAfterDestruction, WaitsOnlyForStopped
  <1>1. CASE PrepareFails BY <1>1 DEF PrepareFails
  <1>2. CASE Prepare BY <1>2 DEF Prepare
  <1>3. CASE Grow BY <1>3 DEF Grow
  <1>4. CASE Spawn BY <1>4 DEF Spawn
  <1>5. CASE SpawnFails BY <1>5 DEF SpawnFails
  <1>6. CASE SpawnStats BY <1>6 DEF SpawnStats
  <1>7. CASE SpawnStatsFails BY <1>7 DEF SpawnStatsFails
  <1>8. CASE HandleSignal BY <1>8 DEF HandleSignal
  <1>9. CASE JoinStats BY <1>9 DEF JoinStats
  <1>10. CASE JoinWorkers BY <1>10 DEF JoinWorkers
  <1> QED BY <1>1, <1>2, <1>3, <1>4, <1>5, <1>6, <1>7, <1>8, <1>9, <1>10 DEF MainStep

\* The steps of a worker keep it.
LEMMA WorkerStepInv ==
  ASSUME LifecycleInv, NEW t \in 1..ThreadsCount, WorkerStep(t)
  PROVE  LifecycleInv'
  <1> USE DEF LifecycleInv, LifecycleTypeOK, LoopInv, StageInv, WorkerAt, Alive,
          NothingUsedAfterDestruction, WaitsOnlyForStopped
  <1>1. CASE Bind(t) BY <1>1 DEF Bind
  <1>2. CASE BindFails(t) BY <1>2 DEF BindFails
  <1>3. CASE PublishSize(t)
    <2>1. process' \in {"alive", "crashed"}
      BY <1>3 DEF PublishSize
    <2> QED BY <1>3, <2>1 DEF PublishSize
  <1>4. CASE WorkerStops(t) BY <1>4 DEF WorkerStops
  <1> QED BY <1>1, <1>2, <1>3, <1>4 DEF WorkerStep

\* The signal and the thread of Stats keep it.
LEMMA OtherStepInv ==
  ASSUME LifecycleInv, StatsRuns \/ StatsStops \/ Signal \/ UNCHANGED lifecycleVars
  PROVE  LifecycleInv'
  <1> USE DEF LifecycleInv, LifecycleTypeOK, LoopInv, StageInv, StatsAt, Alive,
          NothingUsedAfterDestruction, WaitsOnlyForStopped
  <1>1. CASE StatsRuns BY <1>1 DEF StatsRuns
  <1>2. CASE StatsStops BY <1>2 DEF StatsStops
  <1>3. CASE Signal BY <1>3 DEF Signal
  <1>4. CASE UNCHANGED lifecycleVars BY <1>4 DEF lifecycleVars
  <1> QED BY <1>1, <1>2, <1>3, <1>4

\* The invariant is inductive.
LEMMA LifecycleInductive == LifecycleSpec => []LifecycleInv
  <1>1. LifecycleInv /\ [LifecycleNext]_lifecycleVars => LifecycleInv'
    <2> SUFFICES ASSUME LifecycleInv, [LifecycleNext]_lifecycleVars PROVE LifecycleInv'
      OBVIOUS
    <2>1. CASE MainStep BY <2>1, MainStepTypeOK, MainStepInv DEF LifecycleInv
    <2>2. CASE \E t \in 1..ThreadsCount : WorkerStep(t) BY <2>2, WorkerStepInv
    <2>3. CASE StatsRuns \/ StatsStops \/ Signal \/ UNCHANGED lifecycleVars BY <2>3, OtherStepInv
    <2> QED BY <2>1, <2>2, <2>3 DEF LifecycleNext, Over
  <1> QED BY InitLifecycleInv, <1>1, PTL DEF LifecycleSpec

-----------------------------------------------------------------------------

\* _queues never holds more entries than there are threads.
THEOREM LifecycleTypeCorrect == LifecycleSpec => []LifecycleTypeOK
  <1>1. LifecycleInv => LifecycleTypeOK BY DEF LifecycleInv
  <1> QED BY LifecycleInductive, <1>1, PTL

\* A worker never indexes an entry of _queues that is not there yet, although it runs
\* while the constructor of Proxy still adds entries for the others.
THEOREM QueueBeforeThread == LifecycleSpec => []WorkerFindsItsQueue
  <1>1. LifecycleInv => WorkerFindsItsQueue
    BY ThreadsAssumption DEF LifecycleInv, LifecycleTypeOK, LoopInv, WorkerFindsItsQueue
  <1> QED BY LifecycleInductive, <1>1, PTL

\* On every way out of main that destroys them, by a signal or by an exception at any
\* point of the start, the objects the threads use outlive the threads.
THEOREM ObjectsOutliveThreads == LifecycleSpec => []NothingUsedAfterDestruction
  <1>1. LifecycleInv => NothingUsedAfterDestruction BY DEF LifecycleInv
  <1> QED BY LifecycleInductive, <1>1, PTL

\* main joins threads that nobody has told to stop only when Stats could not start.
THEOREM JoinsAreTold == LifecycleSpec => []WaitsOnlyForStopped
  <1>1. LifecycleInv => WaitsOnlyForStopped BY DEF LifecycleInv
  <1> QED BY LifecycleInductive, <1>1, PTL

\* For every number of threads and every order of starts, failures and ends: no thread
\* uses what is not there yet, or not any more, and main waits for none in vain.
THEOREM LifetimesAreHeld == LifecycleSpec => []LifetimesHold
  <1>1. WorkerFindsItsQueue /\ NothingUsedAfterDestruction /\ WaitsOnlyForStopped => LifetimesHold
    BY DEF LifetimesHold
  <1> QED BY QueueBeforeThread, ObjectsOutliveThreads, JoinsAreTold, <1>1, PTL

-----------------------------------------------------------------------------
(* QueueMetric: arithmetic of the limit                                    *)

Share == _thread_queue_size + 1

\* The shares of all threads, each one transaction above its limit, come to no more
\* than queue_size and one transaction per thread.
LEMMA SharesFit == _thread_queue_size \in Nat /\ N * Share <= QueueSize + N
<1>1. N \in Nat \ {0} /\ QueueSize \in Nat
  BY MetricAssumption
<1>2. _thread_queue_size \in Nat
  BY <1>1 DEF _thread_queue_size
<1>3. N * (QueueSize \div N) <= QueueSize
  BY <1>1
<1>4. N * Share = N * _thread_queue_size + N
  BY <1>1, <1>2 DEF Share
<1> QED
  BY <1>1, <1>2, <1>3, <1>4 DEF _thread_queue_size

\* One more thread is one more share.
LEMMA OneMoreShare == \A n \in Nat : (n + 1) * Share = n * Share + Share
BY SharesFit DEF Share

\* More threads have no fewer shares.
LEMMA SharesGrow == \A n \in Nat : n <= N => n * Share <= N * Share
<1> SUFFICES ASSUME NEW n \in Nat, n <= N PROVE n * Share <= N * Share
  OBVIOUS
<1>1. PICK d \in Nat : N = n + d
  BY MetricAssumption
<1>2. N * Share = n * Share + d * Share /\ d * Share \in Nat /\ n * Share \in Nat
  BY <1>1, SharesFit DEF Share
<1> QED
  BY <1>2

-----------------------------------------------------------------------------
(* The inductive invariant                                                 *)

\* MetricWithinQueueSize speaks of sums only.  What bounds a sum is that every addend
\* does not exceed a share, whenever it was published, and that a half-made sum has at
\* most a share for every thread it has passed.
WithinShares ==
  _thread_queue_size # 0 =>
    /\ \A t \in Threads : pending[t] <= Share /\ _queues[t] <= Share
    /\ size <= (next - 1) * Share
    /\ queue <= N * Share
    /\ metric <= N * Share

MetricInv == TypeOK /\ WithinShares

\* The invariant holds at the start.
LEMMA InitMetricInv == Init => MetricInv
<1> SUFFICES ASSUME Init PROVE MetricInv
  OBVIOUS
<1>1. TypeOK
  BY MetricAssumption DEF Init, TypeOK
<1>2. (1 - 1) * Share = 0 /\ 0 <= N * Share /\ 0 <= Share
  BY SharesFit, SharesGrow, MetricAssumption DEF Share
<1>3. WithinShares
  BY <1>2 DEF Init, WithinShares
<1> QED
  BY <1>1, <1>3 DEF MetricInv

\* Every step keeps the types; the loop over _queues stops behind the last thread.
LEMMA StepMetricTypeOK == TypeOK /\ [Next]_vars => TypeOK'
<1> SUFFICES ASSUME TypeOK, [Next]_vars PROVE TypeOK'
  OBVIOUS
<1> USE MetricAssumption DEF TypeOK, Threads
<1>1. ASSUME NEW t \in Threads, Accept(t) \/ Settle(t) \/ Publish(t) PROVE TypeOK'
  <2>1. pending[t] \in Nat
    OBVIOUS
  <2>2. CASE Accept(t)
    BY <2>1, <2>2 DEF Accept
  <2>3. CASE Settle(t)
    BY <2>1, <2>3 DEF Settle
  <2>4. CASE Publish(t)
    BY <2>1, <2>4 DEF Publish
  <2> QED
    BY <1>1, <2>2, <2>3, <2>4
<1>2. CASE AddQueue
  <2>1. next \in Threads /\ _queues[next] \in Nat /\ next + 1 \in 1..N + 1
    BY <1>2 DEF AddQueue
  <2> QED
    BY <1>2, <2>1 DEF AddQueue
<1>3. CASE StoreSum \/ Report
  <2>1. 1 \in 1..N + 1
    OBVIOUS
  <2>2. CASE StoreSum
    BY <2>1, <2>2 DEF StoreSum
  <2>3. CASE Report
    BY <2>3 DEF Report
  <2> QED
    BY <1>3, <2>2, <2>3
<1>4. ASSUME NEW t \in 0..N + 1, End(t) PROVE TypeOK'
  BY <1>4 DEF End
<1>5. CASE AllEnded \/ UNCHANGED vars
  BY <1>5 DEF AllEnded, vars
<1> QED
  BY <1>1, <1>2, <1>3, <1>4, <1>5 DEF Next

\* Every step keeps the numbers within their shares.
LEMMA StepWithinShares == MetricInv /\ [Next]_vars => WithinShares'
<1> SUFFICES ASSUME TypeOK, WithinShares, [Next]_vars, _thread_queue_size # 0
             PROVE  /\ \A t \in Threads : pending'[t] <= Share /\ _queues'[t] <= Share
                    /\ size' <= (next' - 1) * Share
                    /\ queue' <= N * Share
                    /\ metric' <= N * Share
  BY DEF MetricInv, WithinShares
<1>0. Share \in Nat /\ _thread_queue_size \in Nat /\ N \in Nat \ {0}
  BY SharesFit, MetricAssumption DEF Share
<1> USE DEF WithinShares
<1>1. ASSUME NEW t \in Threads, Accept(t)
      PROVE  \A u \in Threads : pending'[u] <= Share
  BY <1>0, <1>1 DEF Accept, TypeOK, Share
<1>2. ASSUME NEW t \in Threads, Settle(t)
      PROVE  \A u \in Threads : pending'[u] <= Share
  BY <1>0, <1>2 DEF Settle, TypeOK
<1>3. ASSUME NEW t \in Threads, Publish(t)
      PROVE  \A u \in Threads : _queues'[u] <= Share
  BY <1>3 DEF Publish, TypeOK
<1>4. CASE AddQueue
  <2>1. next \in Threads /\ next - 1 \in Nat /\ next' - 1 = (next - 1) + 1
    BY <1>0, <1>4 DEF AddQueue, TypeOK, Threads
  <2>2. (next' - 1) * Share = (next - 1) * Share + Share
    BY <2>1, OneMoreShare
  <2>3. (next - 1) * Share \in Nat /\ _queues[next] \in Nat /\ size \in Nat
    BY <1>0, <2>1 DEF TypeOK
  <2>4. size' <= (next' - 1) * Share
    BY <1>0, <1>4, <2>1, <2>2, <2>3 DEF AddQueue
  <2> QED
    BY <1>4, <2>4 DEF AddQueue
<1>5. CASE StoreSum
  <2>1. next - 1 = N /\ next' - 1 = 0 /\ 0 * Share = 0
    BY <1>0, <1>5 DEF StoreSum
  <2> QED
    BY <1>5, <2>1 DEF StoreSum
<1>6. CASE Report
  BY <1>6 DEF Report
<1>7. ASSUME NEW t \in 0..N + 1, End(t) PROVE UNCHANGED <<pending, _queues, next, size, queue, metric>>
  BY <1>7 DEF End
<1>8. CASE AllEnded \/ UNCHANGED vars
  BY <1>8 DEF AllEnded, vars
<1>9. ASSUME NEW t \in Threads, Accept(t) \/ Settle(t)
      PROVE  UNCHANGED <<_queues, next, size, queue, metric>>
  BY <1>9 DEF Accept, Settle
<1>10. ASSUME NEW t \in Threads, Publish(t)
       PROVE  UNCHANGED <<pending, next, size, queue, metric>>
  BY <1>10 DEF Publish
<1> QED
  BY <1>1, <1>2, <1>3, <1>4, <1>5, <1>6, <1>7, <1>8, <1>9, <1>10 DEF Next

-----------------------------------------------------------------------------
(* QueueMetric: theorems                                                   *)

\* The invariant is inductive.
THEOREM MetricInvariance == Spec => []MetricInv
<1>1. MetricInv /\ [Next]_vars => MetricInv'
  BY StepMetricTypeOK, StepWithinShares DEF MetricInv
<1> QED
  BY InitMetricInv, <1>1, PTL DEF Spec

\* Every variable keeps its type.
THEOREM MetricTypeCorrect == Spec => []TypeOK
<1>1. MetricInv => TypeOK
  BY DEF MetricInv
<1> QED
  BY MetricInvariance, <1>1, PTL

\* For every number of threads and every queue_size, no report shows more than
\* queue_size and one transaction for every thread.
THEOREM MetricBounded == Spec => []MetricWithinQueueSize
<1>1. MetricInv => MetricWithinQueueSize
  <2> SUFFICES ASSUME MetricInv, _thread_queue_size # 0 PROVE queue <= QueueSize + N /\ metric <= QueueSize + N
    BY DEF MetricWithinQueueSize
  <2>1. queue \in Nat /\ metric \in Nat /\ N * Share \in Nat /\ QueueSize + N \in Nat
    BY SharesFit, MetricAssumption DEF MetricInv, TypeOK, Share
  <2> QED
    BY <2>1, SharesFit DEF MetricInv, WithinShares
<1> QED
  BY MetricInvariance, <1>1, PTL

=============================================================================
