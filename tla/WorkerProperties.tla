-------------------------- MODULE WorkerProperties --------------------------
(***************************************************************************)
(* What must hold of one worker thread, and that it keeps the promise of   *)
(* module Delivery.                                                        *)
(***************************************************************************)
EXTENDS Worker

\* Every variable has its type; queue, a signed 64-bit counter that three
\* callbacks change, never goes below zero, and out_queue holds requests only.
TypeOK ==
  /\ answer \in [Requests -> Answers]
  /\ counters \in [Charged -> Nat]
  /\ queue \in Nat
  /\ inflight \subseteq Requests
  /\ generation \in [Requests -> 0..GenerationCap]
  /\ out_queue \in Seq(Requests)
  /\ delivered \subseteq Requests
  /\ lost \subseteq Requests
  /\ drain \in [active : BOOLEAN, i : Nat, size : Nat]
  /\ merged \in [Charged -> Nat]
  /\ published \in Nat
  /\ stopped \in BOOLEAN
  /\ loop \in {"running", "breaking", "exited"}

-----------------------------------------------------------------------------
(* Transactions                                                            *)

\* counters.queue is the number of requests http_client holds: the ++ and -- of
\* the request callback, the client callback and timer_out_queue match.
QueueCountsInFlight == queue = Cardinality(inflight)

Accepted == {r \in Requests : answer[r] = "Ok"}

\* A transaction that was answered ok is in exactly one place: held by
\* http_client, waiting in out_queue (once), delivered, or given up; and no other
\* request ever gets to any of these.
OnePlace ==
  /\ \A i, j \in 1..Len(out_queue) : out_queue[i] = out_queue[j] => i = j
  /\ inflight \cap Parked = {}
  /\ delivered \cap (inflight \cup Parked) = {}
  /\ lost \cap (inflight \cup Parked) = {}
  /\ delivered \cap lost = {}
  /\ inflight \cup Parked \cup delivered \cup lost = Accepted

\* No transaction the peer said ok to is lost sight of, and the counter that the limit
\* is tested with is right, whatever callback came last.
TransactionsKept == QueueCountsInFlight /\ OnePlace

\* With a limit set, at most one transaction more than the limit is pending,
\* however sends fail, are retried, parked and drained (the test of the request
\* callback is made before the send and uses >).
SendQueueBound == Limit # 0 => Pending <= Limit + 1

\* Only a newly accepted transaction makes the backlog grow: retries, parking and
\* draining move transactions between http_client and out_queue one for one.
BacklogGrowsOnlyByAccept ==
  [][Pending' > Pending => Accepted' # Accepted]_vars

\* One pass of timer_out_queue takes OutBatch requests or half of them, rounded
\* up, whichever is less: the loop bound shrinks with the queue it pops.
LesserOf(m, n) == IF m < n THEN m ELSE n

DrainTakesHalf ==
  [][drain.active /\ ~drain'.active =>
       Len(out_queue) = drain.size - LesserOf(OutBatch, (drain.size + 1) \div 2)]_vars

\* What callbacks and timers do to the backlog: only acceptance adds to it, and a pass
\* of timer_out_queue takes its share, although the bound of its loop moves.
BacklogMoves == BacklogGrowsOnlyByAccept /\ DrainTakesHalf

\* peer.conf: "queue_size = 10000000; // Maximum size of send queue. 0 - no limit"
QueueWithinLimit == Limit # 0 => Pending <= Limit

-----------------------------------------------------------------------------
(* Counters                                                                *)

Counted(c) == merged[c] + counters[c]

Answered(as) == Cardinality({r \in Requests : answer[r] \in as})

\* The answers each counter stands for.  getinfo counts as trash, and a bad signature by
\* itself, although its reply says the same as that of an invalid transaction.
CountedUnder(c) ==
  CASE c = "total"    -> Answers \ {"none"}
    [] c = "success"  -> {"Ok", "Test"}
    [] c = "trash"    -> {"EmptyPostData", "JsonParseError", "UnsupportedVersion", "GetInfo"}
    [] c = "no_req"   -> {"UnsupportedParamsType", "NoRequiredParams"}
    [] c = "inv"      -> {"UnsupportedMethod", "InvalidTransaction"}
    [] c = "inv_sign" -> {"VerificationFailed"}

\* Over the handover to GlobalCounters nothing is lost, counted twice or moved to another
\* counter: each of the six is the number of requests answered as it says, so every error
\* is in total and in the one counter of its verdict, and a refused request in total alone.
CountersBalance == \A c \in Charged : Counted(c) = Answered(CountedUnder(c))

\* timer_update_counters looks at total alone: with total at zero there is
\* nothing in the other counters that it would hold back.
MergeGateSafe == counters["total"] = 0 => counters = Zero

\* Every request is counted once and under its verdict, and the gate of the timer holds
\* back none of it (merge_counters and clear_counters in timer_update_counters).
CountersKept == CountersBalance /\ MergeGateSafe

-----------------------------------------------------------------------------
(* Progress                                                                *)

\* A request waiting in out_queue gets its turn, unless the loop is stopped,
\* although a pass takes only half of the queue and others join behind.
ParkedIsResent == \A r \in Requests : r \in Parked ~> (r \notin Parked \/ loop # "running")

\* When no more requests come, the published size becomes right and stays so.
PublishedCatchesUp == <>[](published = Pending \/ loop # "running")

\* Every answered request reaches GlobalCounters unless the loop is stopped first.
CountersReachGlobal ==
  \A n \in 1..Cardinality(Requests) :
    (Answered(Answers \ {"none"}) >= n) ~> (merged["total"] >= n \/ loop # "running")

\* Both halves of timer_update_counters reach who waits for them: the size that main
\* adds up is stored whether or not something was counted, the counters when something
\* was.
TimersCatchUp == PublishedCatchesUp /\ CountersReachGlobal

\* The stop signal ends the loop, whatever nodes and clients do.
StopEndsLoop == stopped ~> loop = "exited"

\* If the network does not answer a request badly for ever, every accepted
\* transaction is delivered or given up, unless the loop is stopped.
AcceptedIsSettled ==
  NetworkFairness =>
    \A r \in Requests :
      answer[r] = "Ok" ~> (r \in delivered \cup lost \/ loop # "running")

-----------------------------------------------------------------------------
(* The worker implements Delivery.                                         *)

Standing(r) ==
  CASE answer[r] = "none"              -> "new"
    [] answer[r] = "TooManyRequests"   -> "refused"
    [] r \in inflight \cup Parked      -> "pending"
    [] r \in delivered                 -> "delivered"
    [] r \in lost                      -> "lost"
    [] OTHER                           -> "answered"

Promise == INSTANCE Delivery WITH status <- [r \in Requests |-> Standing(r)], Capacity <- Limit

\* With retries, parking, draining and counting hidden, a worker behaves as
\* Delivery: it refuses exactly while more than Limit transactions are pending,
\* and an accepted transaction ends once, delivered or lost.
KeepsPromise == Promise!Spec

-----------------------------------------------------------------------------
(* The worker is one of the threads of QueueMetric.                        *)

Metric == INSTANCE QueueMetric
            WITH N <- 1, QueueSize <- Limit, pending <- [t \in 1..1 |-> Pending], _queues <- [t \in 1..1 |-> published],
                 next <- 1, size <- 0, queue <- 0, metric <- 0,
                 ended <- IF loop = "exited" THEN {1} ELSE {}

\* What QueueMetric assumes of a thread: no callback adds more than one pending
\* transaction, none is added beyond the limit, one at a time is settled, and what is
\* published is the number of that moment, never one from the middle of a callback.
ActsAsThread == Metric!Spec

=============================================================================
