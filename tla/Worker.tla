------------------------------- MODULE Worker -------------------------------
(***************************************************************************)
(* One worker thread of the peer (Proxy::worker): an event loop whose      *)
(* callbacks run one at a time.                                            *)
(*                                                                         *)
(*   http_server's request callback   TooManyRequests, RejectRequest,      *)
(*                                    AcceptTest, AcceptTransaction        *)
(*   http_client's callback           Acknowledged, Resend, Abandon, Park  *)
(*   timer_update_counters            UpdateCounters                       *)
(*   timer_out_queue                  DrainStart, DrainStep, DrainEnd      *)
(*   timer_stop                       BreakLoop; LoopExit ends loop->run() *)
(*                                                                         *)
(* A transaction is named by the request that brought it.  http_client is  *)
(* the set of requests it holds: send() puts one in or returns false, and  *)
(* later the callback runs once with the answer or its time-out.  The pass *)
(* over out_queue is modelled turn by turn, since its bound is read again  *)
(* on every turn; no other callback runs in between.                       *)
(***************************************************************************)
EXTENDS Intake, Integers, Sequences, FiniteSets

CONSTANTS
  Requests,            \* the HTTP requests that may arrive, each once
  Bodies,              \* the bodies they may have
  Limit,               \* _thread_queue_size; 0: no limit
  Retries,             \* _http_post_retries
  OutBatch,            \* the 200 in timer_out_queue
  FirstGeneration,     \* generation() of a request at its first answer
  GenerationCap        \* bound: where the model stops counting generations

ASSUME WorkerAssumption ==
  /\ IsFiniteSet(Requests)
  /\ Bodies \subseteq Body
  /\ Limit \in Nat
  /\ Retries \in Nat
  /\ OutBatch \in Nat \ {0}
  /\ FirstGeneration \in Nat
  \* only generation < Retries is ever tested, so no behaviour is lost
  /\ GenerationCap \in Nat /\ GenerationCap >= Retries /\ GenerationCap >= FirstGeneration

VARIABLES
  answer,       \* per request: "none", the verdict replied, or "TooManyRequests"
  counters,     \* LocalCounters but for queue
  queue,        \* LocalCounters::queue
  inflight,     \* requests http_client holds
  generation,   \* per request: generation()
  out_queue,    \* deque of requests to be sent again
  delivered,    \* history: answered 200 by a node
  lost,         \* history: given up because send() returned false
  drain,        \* the pass of timer_out_queue over out_queue
  merged,       \* what this worker has added to GlobalCounters so far
  published,    \* the atomic *_queues[thread_num]
  stopped,      \* threads::Stop
  loop          \* "running", "breaking" after break_loop, "exited"

clientVars == <<inflight, generation, delivered, lost>>
loopVars   == <<stopped, loop>>
vars == <<answer, counters, queue, clientVars, out_queue, drain, merged, published, loopVars>>

-----------------------------------------------------------------------------
(* State                                                                   *)

Charged == {"total", "trash", "no_req", "inv", "inv_sign", "success"}

Zero == [c \in Charged |-> 0]

Codes == {"EmptyPostData", "JsonParseError", "UnsupportedVersion", "GetInfo",
          "UnsupportedMethod", "UnsupportedParamsType", "NoRequiredParams",
          "InvalidTransaction", "VerificationFailed"}

Answers == Codes \cup {"none", "TooManyRequests", "Test", "Ok"}

Idle == [active |-> FALSE, i |-> 0, size |-> 0]

Parked == {out_queue[i] : i \in 1..Len(out_queue)}

\* What the limit is compared with, and what is published.
Pending == queue + Len(out_queue)

Init == /\ answer = [r \in Requests |-> "none"]
        /\ counters = Zero
        /\ queue = 0
        /\ inflight = {}
        /\ generation = [r \in Requests |-> 0]
        /\ out_queue = <<>>
        /\ delivered = {}
        /\ lost = {}
        /\ drain = Idle
        /\ merged = Zero
        /\ published = 0
        /\ stopped = FALSE
        /\ loop = "running"

\* A callback may run: the loop has not ended and no other callback is at work.
\* break_loop lets the callbacks already due run before loop->run() returns.
Ready == loop # "exited" /\ ~drain.active

-----------------------------------------------------------------------------
(* http_client                                                             *)

\* send() of a request seen for the first time, and of one it had before.
FirstSend(r) == /\ inflight' = inflight \cup {r}
                /\ generation' = [generation EXCEPT ![r] = FirstGeneration]
                /\ UNCHANGED <<delivered, lost>>

SendAgain(r) == /\ inflight' = inflight \cup {r}
                /\ generation' = [generation EXCEPT ![r] =
                                    IF @ < GenerationCap THEN @ + 1 ELSE @]
                /\ UNCHANGED <<delivered, lost>>

\* send() returned false: nobody holds the request any more.
SendFailed(r) == /\ inflight' = inflight \ {r}
                 /\ lost' = lost \cup {r}
                 /\ UNCHANGED <<generation, delivered>>

-----------------------------------------------------------------------------
(* Slips the properties must catch: what some of the definitions below     *)
(* would be after a plausible mistake in the code.                         *)

\* total++ moved behind the checks that may reject the request.
Charges_TotalLate(a) ==
  CASE a = "none"            -> {}
    [] a = "TooManyRequests" -> {"total"}
    [] a \in {"Ok", "Test"}  -> {"total", "success"}
    [] OTHER                 -> {Charge(a)}

\* The limit without the requests waiting in out_queue; and with >= for >.
Overloaded_QueueOnly == Limit # 0 /\ queue > Limit
Overloaded_Eager     == Limit # 0 /\ queue + Len(out_queue) >= Limit

\* No early return after a second send; queue-- only on code 200.
Resend_FallsThrough(r) ==
  /\ Ready /\ r \in inflight /\ generation[r] < Retries
  /\ SendAgain(r)
  /\ queue' = queue - 1
  /\ UNCHANGED <<answer, counters, out_queue, drain, merged, published, loopVars>>

Park_StillCounted(r) ==
  /\ Ready /\ r \in inflight /\ generation[r] >= Retries
  /\ out_queue' = Append(out_queue, r)
  /\ inflight' = inflight \ {r}
  /\ UNCHANGED <<answer, counters, queue, generation, delivered, lost, drain, merged,
                 published, loopVars>>

\* clear_counters without inv_sign; the gate on success; publishing inside the gate.
Update(publish, gate, left) ==
  /\ Ready
  /\ published' = IF publish THEN queue + Len(out_queue) ELSE published
  /\ IF gate THEN /\ merged' = [c \in Charged |-> merged[c] + counters[c]]
                  /\ counters' = left
             ELSE UNCHANGED <<merged, counters>>
  /\ UNCHANGED <<answer, queue, clientVars, out_queue, drain, loopVars>>

\* What is published without the requests waiting in out_queue.
UpdateCounters_QueueOnly ==
  /\ Ready
  /\ published' = queue
  /\ UNCHANGED <<answer, counters, queue, clientVars, out_queue, drain, merged, loopVars>>

UpdateCounters_KeepsInvSign ==
  Update(TRUE, counters["total"] # 0, [Zero EXCEPT !["inv_sign"] = counters["inv_sign"]])
UpdateCounters_GateSuccess  == Update(TRUE, counters["success"] # 0, Zero)
UpdateCounters_PublishGated == Update(counters["total"] # 0, counters["total"] # 0, Zero)

\* The bound of the pass read once; and one too small.
DrainMore_SizeAtStart == drain.i < OutBatch /\ drain.i < drain.size
DrainMore_OneShort    == drain.i < OutBatch /\ drain.i + 1 < Len(out_queue)

\* A request sent again and not counted; one lost and not popped.
DrainStep_Uncounted ==
  /\ drain.active /\ drain.i < OutBatch /\ drain.i < Len(out_queue)
  /\ SendAgain(Head(out_queue)) \/ SendFailed(Head(out_queue))
  /\ out_queue' = Tail(out_queue)
  /\ drain' = [drain EXCEPT !.i = @ + 1]
  /\ UNCHANGED <<answer, counters, queue, merged, published, loopVars>>

DrainStep_KeepsFailed ==
  /\ drain.active /\ drain.i < OutBatch /\ drain.i < Len(out_queue)
  /\ \/ SendAgain(Head(out_queue)) /\ queue' = queue + 1 /\ out_queue' = Tail(out_queue)
     \/ SendFailed(Head(out_queue)) /\ UNCHANGED <<queue, out_queue>>
  /\ drain' = [drain EXCEPT !.i = @ + 1]
  /\ UNCHANGED <<answer, counters, merged, published, loopVars>>

\* A loop that waits for its requests before it stops.
BreakLoop_Graceful ==
  /\ Ready /\ stopped /\ loop = "running"
  /\ queue + Len(out_queue) = 0
  /\ loop' = "breaking"
  /\ UNCHANGED <<answer, counters, queue, clientVars, out_queue, drain, merged, published, stopped>>

-----------------------------------------------------------------------------
(* The request callback                                                    *)

\* The counters a request answered this way has been added to.
Charges(a) ==
  CASE a = "none"            -> {}
    [] a = "TooManyRequests" -> {"total"}
    [] a \in {"Ok", "Test"}  -> {"total", "success"}
    [] OTHER                 -> {"total", Charge(a)}

Reply(r, a) == /\ answer[r] = "none"
               /\ answer' = [answer EXCEPT ![r] = a]
               /\ counters' = [c \in Charged |->
                                 IF c \in Charges(a) THEN counters[c] + 1 ELSE counters[c]]

Overloaded == Limit # 0 /\ queue + Len(out_queue) > Limit

TooManyRequests(r) ==
  /\ Ready
  /\ Overloaded
  /\ Reply(r, "TooManyRequests")
  /\ UNCHANGED <<queue, clientVars, out_queue, drain, merged, published, loopVars>>

RejectRequest(r, body) ==
  /\ Ready
  /\ ~Overloaded
  /\ Judge(body) # "Ok"
  /\ Reply(r, Judge(body))
  /\ UNCHANGED <<queue, clientVars, out_queue, drain, merged, published, loopVars>>

AcceptTest(r, body) ==
  /\ Ready
  /\ ~Overloaded
  /\ Judge(body) = "Ok"
  /\ is_test_ransaction(body)
  /\ Reply(r, "Test")
  /\ UNCHANGED <<queue, clientVars, out_queue, drain, merged, published, loopVars>>

\* The reply says ok before the transaction is handed to http_client; nothing
\* takes it back when send() then returns false.
AcceptTransaction(r, body) ==
  /\ Ready
  /\ ~Overloaded
  /\ Judge(body) = "Ok"
  /\ ~is_test_ransaction(body)
  /\ Reply(r, "Ok")
  /\ \/ FirstSend(r) /\ queue' = queue + 1
     \/ SendFailed(r) /\ UNCHANGED queue
  /\ UNCHANGED <<out_queue, drain, merged, published, loopVars>>

Request(r) == \/ TooManyRequests(r)
              \/ \E body \in Bodies : \/ RejectRequest(r, body)
                                      \/ AcceptTest(r, body)
                                      \/ AcceptTransaction(r, body)

-----------------------------------------------------------------------------
(* The client callback                                                     *)

\* Code 200.
Acknowledged(r) ==
  /\ Ready
  /\ r \in inflight
  /\ inflight' = inflight \ {r}
  /\ delivered' = delivered \cup {r}
  /\ queue' = queue - 1
  /\ UNCHANGED <<answer, counters, generation, lost, out_queue, drain, merged, published, loopVars>>

\* Any other code: another try, and early return if http_client takes it.
Resend(r) ==
  /\ Ready
  /\ r \in inflight
  /\ generation[r] < Retries
  /\ SendAgain(r)
  /\ UNCHANGED <<answer, counters, queue, out_queue, drain, merged, published, loopVars>>

Abandon(r) ==
  /\ Ready
  /\ r \in inflight
  /\ generation[r] < Retries
  /\ SendFailed(r)
  /\ queue' = queue - 1
  /\ UNCHANGED <<answer, counters, out_queue, drain, merged, published, loopVars>>

Park(r) ==
  /\ Ready
  /\ r \in inflight
  /\ generation[r] >= Retries
  /\ out_queue' = Append(out_queue, r)
  /\ inflight' = inflight \ {r}
  /\ queue' = queue - 1
  /\ UNCHANGED <<answer, counters, generation, delivered, lost, drain, merged, published, loopVars>>

ClientCallback(r) == Acknowledged(r) \/ Resend(r) \/ Abandon(r) \/ Park(r)

-----------------------------------------------------------------------------
(* The timers                                                              *)

UpdateCounters ==
  /\ Ready
  /\ published' = queue + Len(out_queue)
  /\ IF counters["total"] # 0
     THEN /\ merged' = [c \in Charged |-> merged[c] + counters[c]]
          /\ counters' = Zero
     ELSE UNCHANGED <<merged, counters>>
  /\ UNCHANGED <<answer, queue, clientVars, out_queue, drain, loopVars>>

DrainStart ==
  /\ Ready
  /\ out_queue # <<>>
  /\ drain' = [active |-> TRUE, i |-> 0, size |-> Len(out_queue)]
  /\ UNCHANGED <<answer, counters, queue, clientVars, out_queue, merged, published, loopVars>>

\* i < std::min(200ul, out_queue.size()), with the size out_queue has now.
DrainMore == drain.i < OutBatch /\ drain.i < Len(out_queue)

DrainStep ==
  /\ drain.active
  /\ DrainMore
  /\ \/ SendAgain(Head(out_queue)) /\ queue' = queue + 1
     \/ SendFailed(Head(out_queue)) /\ UNCHANGED queue
  /\ out_queue' = Tail(out_queue)
  /\ drain' = [drain EXCEPT !.i = @ + 1]
  /\ UNCHANGED <<answer, counters, merged, published, loopVars>>

DrainEnd ==
  /\ drain.active
  /\ ~DrainMore
  /\ drain' = Idle
  /\ UNCHANGED <<answer, counters, queue, clientVars, out_queue, merged, published, loopVars>>

BreakLoop ==
  /\ Ready
  /\ stopped
  /\ loop = "running"
  /\ loop' = "breaking"
  /\ UNCHANGED <<answer, counters, queue, clientVars, out_queue, drain, merged, published, stopped>>

LoopExit ==
  /\ Ready
  /\ loop = "breaking"
  /\ loop' = "exited"
  /\ UNCHANGED <<answer, counters, queue, clientVars, out_queue, drain, merged, published, stopped>>

\* main's stop_signal, in another thread: at any moment.
StopSignal ==
  /\ ~stopped
  /\ stopped' = TRUE
  /\ UNCHANGED <<answer, counters, queue, clientVars, out_queue, drain, merged, published, loop>>

\* The thread has ended; anything else that cannot go on is a deadlock.
Terminated == loop = "exited" /\ stopped /\ UNCHANGED vars

-----------------------------------------------------------------------------

Next == \/ \E r \in Requests : Request(r) \/ ClientCallback(r)
        \/ UpdateCounters
        \/ DrainStart \/ DrainStep \/ DrainEnd
        \/ BreakLoop \/ LoopExit \/ StopSignal \/ Terminated

Spec == Init /\ [][Next]_vars

\* libev runs every callback that is due before it waits again, so a timer is
\* never passed over forever; a callback at work is finished; http_client calls
\* back for every request it holds, at the latest when response_timeout is up.
LoopFairness == /\ SF_vars(UpdateCounters)
                /\ SF_vars(DrainStart)
                /\ WF_vars(DrainStep)
                /\ WF_vars(DrainEnd)
                /\ SF_vars(BreakLoop)
                /\ SF_vars(LoopExit)
                /\ \A r \in Requests : SF_vars(ClientCallback(r))

FairSpec == Spec /\ LoopFairness

\* What only some networks give: no request is answered badly for ever.
NetworkFairness == \A r \in Requests : SF_vars(Acknowledged(r))

=============================================================================
