---------------------------- MODULE CounterFlow ----------------------------
(***************************************************************************)
(* How the counts of the worker threads reach the statistics server.       *)
(*                                                                         *)
(* Each worker adds its local counters to GlobalCounters, one atomic +=    *)
(* after the other (merge_counters), and clears them; the thread of Stats  *)
(* meanwhile takes the global counters one atomic exchange(0) after the    *)
(* other and posts the report.  Module Worker has the merge as one step:   *)
(* here it is a step per counter, interleaved with the other threads.      *)
(***************************************************************************)
EXTENDS Naturals, Sequences, FiniteSets, Functions

CONSTANTS
  Threads,       \* the worker threads
  StatsSend,     \* _stats_send of the configuration
  Kinds,         \* which counters one request raises: subsets of Charged
  RequestCap     \* bound: how many requests are counted

Charged == {"total", "trash", "no_req", "inv", "inv_sign", "success"}

ASSUME FlowAssumption ==
  /\ IsFiniteSet(Threads)
  /\ StatsSend \in BOOLEAN
  \* every request is in total, and in at most one other counter
  /\ \A k \in Kinds : \E c \in Charged : k = {"total", c}
  /\ RequestCap \in Nat

VARIABLES
  local,      \* per thread: its LocalCounters
  at,         \* per thread: how many of them merge_counters has added so far
  global,     \* GlobalCounters
  pos,        \* how many of them the report being written holds
  report,     \* the values in that report
  posted,     \* history: the values of all reports handed to http_client
  dropped,    \* history: of those that were not
  seen,       \* history: what the requests were counted as
  stopped,    \* threads::Stop
  ended       \* the threads that have left their loops

vars == <<local, at, global, pos, report, posted, dropped, seen, stopped, ended>>

Stats == "stats"

Zero == [c \in Charged |-> 0]

Plus(f, g) == [c \in Charged |-> f[c] + g[c]]

\* Slip: total is merged last.
MergeOrder_TotalLast == <<"trash", "no_req", "inv", "inv_sign", "success", "total">>

\* The order of the statements of merge_counters, and of the exchanges of Stats.
MergeOrder  == <<"total", "trash", "no_req", "inv", "inv_sign", "success">>
ReportOrder == <<"total", "trash", "no_req", "inv", "inv_sign", "success">>

Init == /\ local = [t \in Threads |-> Zero]
        /\ at = [t \in Threads |-> 0]
        /\ global = Zero
        /\ pos = 0
        /\ report = Zero
        /\ posted = Zero
        /\ dropped = Zero
        /\ seen = Zero
        /\ stopped = FALSE
        /\ ended = {}

-----------------------------------------------------------------------------
(* A worker thread                                                         *)

\* The request callback; none runs inside timer_update_counters.
Count(t, kind) ==
  /\ t \notin ended /\ at[t] = 0
  /\ seen["total"] < RequestCap
  /\ LET one == [c \in Charged |-> IF c \in kind THEN 1 ELSE 0]
     IN  /\ local' = [local EXCEPT ![t] = Plus(@, one)]
         /\ seen' = Plus(seen, one)
  /\ UNCHANGED <<at, global, pos, report, posted, dropped, stopped, ended>>

\* Slip: a merge is made only of successes.
Merging_OfSuccess(t) == at[t] > 0 \/ (t \notin ended /\ local[t]["success"] # 0)

\* timer_update_counters fires when total is not zero, and runs to its end.
Merging(t) == at[t] > 0 \/ (t \notin ended /\ local[t]["total"] # 0)

\* Slip: one += too many before the local counters are cleared.
MergeStep_OneMore(t) ==
  /\ Merging(t)
  /\ LET c == MergeOrder[at[t] + 1] IN global' = [global EXCEPT ![c] = @ + local[t][c]]
  /\ IF at[t] + 1 <= Len(MergeOrder)
     THEN at' = [at EXCEPT ![t] = @ + 1] /\ UNCHANGED local
     ELSE at' = [at EXCEPT ![t] = 0] /\ local' = [local EXCEPT ![t] = Zero]
  /\ UNCHANGED <<pos, report, posted, dropped, seen, stopped, ended>>

\* clear_counters touches nothing another thread reads: it goes with the last +=.
MergeStep(t) ==
  /\ Merging(t)
  /\ LET c == MergeOrder[at[t] + 1] IN global' = [global EXCEPT ![c] = @ + local[t][c]]
  /\ IF at[t] + 1 < Len(MergeOrder)
     THEN at' = [at EXCEPT ![t] = @ + 1] /\ UNCHANGED local
     ELSE at' = [at EXCEPT ![t] = 0] /\ local' = [local EXCEPT ![t] = Zero]
  /\ UNCHANGED <<pos, report, posted, dropped, seen, stopped, ended>>

-----------------------------------------------------------------------------
(* The thread of Stats                                                     *)

\* Slip: a load and a later store(0) at the end of the report, for exchange(0).
TakeCounter_Load(c) == /\ report' = [report EXCEPT ![c] = global[c]]
                       /\ global' = IF c = "success" THEN Zero ELSE global

TakeCounter(c) == /\ report' = [report EXCEPT ![c] = global[c]]
                  /\ global' = [global EXCEPT ![c] = 0]

\* timer_stats fires in every interval, also when nothing was counted.
ReportStep ==
  /\ pos < Len(ReportOrder)
  /\ pos = 0 => Stats \notin ended
  /\ TakeCounter(ReportOrder[pos + 1])
  /\ pos' = pos + 1
  /\ UNCHANGED <<local, at, posted, dropped, seen, stopped, ended>>

\* A report that is not to be sent, or that post() does not take, is gone: its
\* counters have been set to zero already.
SendReport ==
  /\ pos = Len(ReportOrder)
  /\ \/ StatsSend /\ posted' = Plus(posted, report) /\ UNCHANGED dropped
     \/ dropped' = Plus(dropped, report) /\ UNCHANGED posted
  /\ report' = Zero
  /\ pos' = 0
  /\ UNCHANGED <<local, at, global, seen, stopped, ended>>

-----------------------------------------------------------------------------
(* The stop signal                                                         *)

StopSignal == /\ ~stopped
              /\ stopped' = TRUE
              /\ UNCHANGED <<local, at, global, pos, report, posted, dropped, seen, ended>>

\* break_loop and the end of loop->run().  A loop ends between two callbacks, with whatever it has not handed on.
WorkerEnds(t) == /\ stopped /\ t \notin ended /\ at[t] = 0
                 /\ ended' = ended \cup {t}
                 /\ UNCHANGED <<local, at, global, pos, report, posted, dropped, seen, stopped>>

StatsEnds == /\ stopped /\ Stats \notin ended /\ pos = 0
             /\ ended' = ended \cup {Stats}
             /\ UNCHANGED <<local, at, global, pos, report, posted, dropped, seen, stopped>>

AllEnded == ended = Threads \cup {Stats} /\ UNCHANGED vars

-----------------------------------------------------------------------------

Next == \/ \E t \in Threads : \/ \E kind \in Kinds : Count(t, kind)
                              \/ MergeStep(t)
                              \/ WorkerEnds(t)
        \/ ReportStep \/ SendReport
        \/ StopSignal \/ StatsEnds \/ AllEnded

Spec == Init /\ [][Next]_vars

\* Timers of a running loop fire again and again, and callbacks run to their end.
FairSpec == /\ Spec
            /\ \A t \in Threads : WF_vars(MergeStep(t))
            /\ WF_vars(ReportStep) /\ WF_vars(SendReport)

-----------------------------------------------------------------------------
(* Properties                                                              *)

\* Counters are natural numbers, at and pos stay within the two orders.
TypeOK == /\ local \in [Threads -> [Charged -> Nat]]
          /\ at \in [Threads -> 0..Len(MergeOrder) - 1]
          /\ {global, report, posted, dropped, seen} \subseteq [Charged -> Nat]
          /\ pos \in 0..Len(ReportOrder)
          /\ stopped \in BOOLEAN
          /\ ended \subseteq Threads \cup {Stats}

\* What thread t still has to add of counter c.
Left(t, c) == IF \E i \in 1..at[t] : MergeOrder[i] = c THEN 0 ELSE local[t][c]

Taken(c) == report[c] + posted[c] + dropped[c]

\* Workers merge and Stats reports without a lock: however their steps fall,
\* every count is in exactly one of a thread, GlobalCounters, or a report.
NothingLost ==
  TypeOK /\ \A c \in Charged :
    seen[c] = SumFunction([t \in Threads |-> Left(t, c)]) + global[c] + Taken(c)

\* total is merged first: no count of a kind has got to GlobalCounters or to the
\* reports whose request is not there in total, so the totals of the reports and of
\* GlobalCounters together are never less than the sum of the kinds.
TotalLeads ==
  global["total"] + Taken("total") >=
    SumFunction([c \in Charged \ {"total"} |-> global[c] + Taken(c)])

\* What was counted ends in a report, unless the peer is stopped first.
EverythingReported ==
  \A n \in 1..RequestCap :
    seen["total"] >= n ~> (posted["total"] + dropped["total"] >= n \/ stopped)

=============================================================================
