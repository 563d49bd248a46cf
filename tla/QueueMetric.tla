---------------------------- MODULE QueueMetric ----------------------------
(***************************************************************************)
(* How the number of pending transactions gets into the reports.           *)
(*                                                                         *)
(* Every worker publishes its own number in *_queues[thread_num]; a timer  *)
(* of main adds the published numbers up (Proxy::queue_size), one atomic   *)
(* load after the other, and stores the sum in GlobalCounters; the thread  *)
(* of Stats copies it into a report.  Nothing synchronises the three: the  *)
(* workers go on between two loads, and a sum need not be the number of    *)
(* pending transactions at any one moment.                                 *)
(*                                                                         *)
(* A worker is reduced to what module Worker shows of it: at most one more *)
(* transaction at a time, and only while no more are pending than its      *)
(* share of the limit.                                                     *)
(***************************************************************************)
EXTENDS Naturals, FiniteSetsExt

CONSTANTS
  N,           \* worker threads: the length of _queues
  QueueSize    \* queue_size of the configuration; 0: no limit

ASSUME MetricAssumption == N \in Nat \ {0} /\ QueueSize \in Nat

Threads == 1..N

\* Slip: the rest of the division is given to every thread.
_thread_queue_size_RoundedUp == (QueueSize + N - 1) \div N + 1

\* The share of the limit every thread gets.
_thread_queue_size == QueueSize \div N

VARIABLES
  pending,    \* per thread: counters.queue + out_queue.size()
  _queues,    \* per thread: what it has published
  next,       \* the thread whose number the loop of queue_size() loads next
  size,       \* the sum so far
  queue,      \* GlobalCounters::queue
  metric,     \* the number in the last report
  ended       \* the threads that have left their loops; 0 is main, N + 1 Stats

vars == <<pending, _queues, next, size, queue, metric, ended>>

Init == /\ pending = [t \in Threads |-> 0]
        /\ _queues = [t \in Threads |-> 0]
        /\ next = 1
        /\ size = 0
        /\ queue = 0
        /\ metric = 0
        /\ ended = {}

-----------------------------------------------------------------------------
(* Slips the properties must catch.                                        *)

\* <= for < in the loop over _queues.
AddQueue_OneMore ==
  /\ next <= N + 1
  /\ next = 1 => 0 \notin ended
  /\ size' = size + (IF next <= N THEN _queues[next] ELSE 0)
  /\ next' = next + 1
  /\ UNCHANGED <<pending, _queues, queue, metric, ended>>

\* The report takes the number as it takes the counters, by exchange(0).
Report_Exchange ==
  /\ N + 1 \notin ended
  /\ metric' = queue
  /\ queue' = 0
  /\ UNCHANGED <<pending, _queues, next, size, ended>>

-----------------------------------------------------------------------------
(* A worker                                                                *)

Accept(t) ==
  /\ t \notin ended
  /\ _thread_queue_size = 0 \/ pending[t] <= _thread_queue_size
  /\ pending' = [pending EXCEPT ![t] = @ + 1]
  /\ UNCHANGED <<_queues, next, size, queue, metric, ended>>

Settle(t) ==
  /\ t \notin ended
  /\ pending[t] > 0
  /\ pending' = [pending EXCEPT ![t] = @ - 1]
  /\ UNCHANGED <<_queues, next, size, queue, metric, ended>>

\* The store in timer_update_counters.
Publish(t) ==
  /\ t \notin ended
  /\ _queues' = [_queues EXCEPT ![t] = pending[t]]
  /\ UNCHANGED <<pending, next, size, queue, metric, ended>>

-----------------------------------------------------------------------------
(* main and Stats                                                          *)

\* One turn of the loop in Proxy::queue_size.
AddQueue ==
  /\ next <= N
  /\ next = 1 => 0 \notin ended
  /\ size' = size + _queues[next]
  /\ next' = next + 1
  /\ UNCHANGED <<pending, _queues, queue, metric, ended>>

\* counters->queue = proxy.queue_size() in timer_queue_size
StoreSum ==
  /\ next = N + 1
  /\ queue' = size
  /\ next' = 1
  /\ size' = 0
  /\ UNCHANGED <<pending, _queues, metric, ended>>

\* The report only reads queue: the counters before it are set to zero.
Report ==
  /\ N + 1 \notin ended
  /\ metric' = queue
  /\ UNCHANGED <<pending, _queues, next, size, queue, ended>>

\* A loop ends between two callbacks; what a worker published stays.
End(t) ==
  /\ t \notin ended
  /\ t = 0 => next = 1
  /\ ended' = ended \cup {t}
  /\ UNCHANGED <<pending, _queues, next, size, queue, metric>>

AllEnded == ended = 0..N + 1 /\ UNCHANGED vars

-----------------------------------------------------------------------------

Next == \/ \E t \in Threads : Accept(t) \/ Settle(t) \/ Publish(t)
        \/ AddQueue \/ StoreSum \/ Report
        \/ \E t \in 0..N + 1 : End(t)
        \/ AllEnded

Spec == Init /\ [][Next]_vars

\* Timers of a running loop fire again and again, and callbacks run to their end.
FairSpec == /\ Spec
            /\ \A t \in Threads : WF_vars(Publish(t))
            /\ WF_vars(AddQueue) /\ WF_vars(StoreSum) /\ WF_vars(Report)

-----------------------------------------------------------------------------
(* Properties                                                              *)

\* Every variable has its type.
TypeOK == /\ pending \in [Threads -> Nat]
          /\ _queues \in [Threads -> Nat]
          /\ next \in 1..N + 1
          /\ size \in Nat /\ queue \in Nat /\ metric \in Nat
          /\ ended \subseteq 0..N + 1

\* With a share of the limit for every thread (SendQueueBound of Worker: one more than
\* the share), no report shows more than queue_size plus one transaction for every
\* thread, although a sum mixes numbers of different moments.
MetricWithinQueueSize ==
  _thread_queue_size # 0 => /\ queue <= QueueSize + N
               /\ metric <= QueueSize + N

\* A quiet peer is reported as it is: when no transaction comes or goes any more, the
\* reports show the number of pending transactions, and go on showing it (in contrast
\* to the counters, a report does not set it to zero).
MetricCatchesUp ==
  <>[][pending' = pending]_vars
    => <>[](metric = MapThenSumSet(LAMBDA t : pending[t], Threads) \/ ended # {})

=============================================================================
