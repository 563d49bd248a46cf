----------------------------- MODULE Lifecycle -----------------------------
(***************************************************************************)
(* Start and stop of the peer: main, the constructors and destructors of   *)
(* Proxy and Stats, and the threads they start and join.                   *)
(*                                                                         *)
(* main counts as being at one of these points:                            *)
(*   "preparing"    Config, Key, the self-test of Proxy                    *)
(*   "growing"      Proxy's loop, inside _queues.emplace_back              *)
(*   "spawning"     Proxy's loop, before _workers.emplace_back             *)
(*   "stats"        before the constructor of Stats                        *)
(*   "running"      loop->run()                                            *)
(*   "joinStats"    ~Stats                                                 *)
(*   "joinWorkers"  ~Proxy                                                 *)
(*   "done"         main has returned                                      *)
(***************************************************************************)
EXTENDS Naturals

CONSTANT ThreadsCount   \* _config.threads_count()

ASSUME ThreadsAssumption == ThreadsCount \in Nat

VARIABLES
  main,       \* where main is
  i,          \* workers that Proxy's loop has started
  queues,     \* entries of Proxy::_queues
  worker,     \* per worker thread: "none", "starting", "running", "ended"
  stats,      \* the thread of Stats: the same, or "failed": it could not be started
  signal,     \* SIGINT or SIGTERM has arrived
  stopped,    \* threads::Stop
  process     \* "alive", "exited", "failed", "aborted" or "crashed"

lifecycleVars == <<main, i, queues, worker, stats, signal, stopped, process>>

Alive == process = "alive"

LifecycleInit == /\ main = "preparing"
                 /\ i = 0
                 /\ queues = 0
                 /\ worker = [t \in 1..ThreadsCount |-> "none"]
                 /\ stats = "none"
                 /\ signal = FALSE
                 /\ stopped = FALSE
                 /\ process = "alive"

-----------------------------------------------------------------------------
(* main                                                                    *)

MainAt(point) == Alive /\ main = point

\* A missing argument, an exception of Config, Key or the self-test: main returns.
PrepareFails == /\ MainAt("preparing")
                /\ main' = "done"
                /\ process' = "failed"
                /\ UNCHANGED <<i, queues, worker, stats, signal, stopped>>

\* Slip: the loop of Proxy runs once too often.
LoopTest_OneMore(started) == IF started <= ThreadsCount THEN "growing" ELSE "stats"

\* i < threads_count()
LoopTest(started) == IF started < ThreadsCount THEN "growing" ELSE "stats"

Prepare == /\ MainAt("preparing")
           /\ main' = LoopTest(0)
           /\ UNCHANGED <<i, queues, worker, stats, signal, stopped, process>>

\* Slip: room for the entry, but no entry.
Grow_Reserves == /\ MainAt("growing")
                 /\ main' = "spawning"
                 /\ UNCHANGED <<i, queues, worker, stats, signal, stopped, process>>

Grow == /\ MainAt("growing")
        /\ queues' = queues + 1
        /\ main' = "spawning"
        /\ UNCHANGED <<i, worker, stats, signal, stopped, process>>

Spawn == /\ MainAt("spawning")
         /\ worker' = [worker EXCEPT ![i + 1] = "starting"]
         /\ i' = i + 1
         /\ main' = LoopTest(i + 1)
         /\ UNCHANGED <<queues, stats, signal, stopped, process>>

\* std::thread throws.  Unwinding the constructor destroys _workers: with a thread
\* in it, which is joinable until it is joined, that is std::terminate.
SpawnFails == /\ MainAt("spawning")
              /\ main' = "done"
              /\ process' = IF i = 0 THEN "failed" ELSE "aborted"
              /\ UNCHANGED <<i, queues, worker, stats, signal, stopped>>

SpawnStats == /\ MainAt("stats")
              /\ stats' = "starting"
              /\ main' = "running"
              /\ UNCHANGED <<i, queues, worker, signal, stopped, process>>

\* The exception leaves the block of main through ~Proxy.
SpawnStatsFails == /\ MainAt("stats")
                   /\ stats' = "failed"
                   /\ main' = "joinWorkers"
                   /\ UNCHANGED <<i, queues, worker, signal, stopped, process>>

\* Slip: the loop of main is broken, the flag for the others not set.
HandleSignal_LoopOnly == /\ MainAt("running")
                         /\ signal
                         /\ main' = "joinStats"
                         /\ UNCHANGED <<i, queues, worker, stats, signal, stopped, process>>

\* stop_signal is a callback of main's loop: a signal that comes before run() waits.
HandleSignal == /\ MainAt("running")
                /\ signal
                /\ stopped' = TRUE
                /\ main' = "joinStats"
                /\ UNCHANGED <<i, queues, worker, stats, signal, process>>

JoinStats == /\ MainAt("joinStats")
             /\ stats = "ended"
             /\ main' = "joinWorkers"
             /\ UNCHANGED <<i, queues, worker, stats, signal, stopped, process>>

\* Slip: the workers are detached.
JoinWorkers_Detach == /\ MainAt("joinWorkers")
                      /\ main' = "done"
                      /\ process' = IF stats = "failed" THEN "failed" ELSE "exited"
                      /\ UNCHANGED <<i, queues, worker, stats, signal, stopped>>

\* Behind the joins Proxy's members, key and configuration are destroyed.
JoinWorkers == /\ MainAt("joinWorkers")
               /\ \A t \in 1..ThreadsCount : worker[t] \in {"none", "ended"}
               /\ main' = "done"
               /\ process' = IF stats = "failed" THEN "failed" ELSE "exited"
               /\ UNCHANGED <<i, queues, worker, stats, signal, stopped>>

-----------------------------------------------------------------------------
(* The worker threads                                                      *)

WorkerAt(t, point) == Alive /\ worker[t] = point

\* make_loop and bind; worker_noexcept swallows the exception when one fails.
Bind(t) == /\ WorkerAt(t, "starting")
           /\ worker' = [worker EXCEPT ![t] = "running"]
           /\ UNCHANGED <<main, i, queues, stats, signal, stopped, process>>

BindFails(t) == /\ WorkerAt(t, "starting")
                /\ worker' = [worker EXCEPT ![t] = "ended"]
                /\ UNCHANGED <<main, i, queues, stats, signal, stopped, process>>

\* emplace_back moves the vector when it is full: at the powers of two.
Reallocates == main = "growing" /\ (queues = 0 \/ \E k \in 0..queues : queues = 2 ^ k)

\* timer_update_counters reads _queues[t], harmless but for a reallocation in main at
\* the same time: then it may read freed memory (sigsegv_handler: exit(1)).
PublishSize(t) == /\ WorkerAt(t, "running")
                  /\ process' \in IF Reallocates THEN {"alive", "crashed"} ELSE {"alive"}
                  /\ UNCHANGED <<main, i, queues, worker, stats, signal, stopped>>

WorkerStops(t) == /\ WorkerAt(t, "running")
                  /\ stopped
                  /\ worker' = [worker EXCEPT ![t] = "ended"]
                  /\ UNCHANGED <<main, i, queues, stats, signal, stopped, process>>

-----------------------------------------------------------------------------
(* The thread of Stats, and the signals                                    *)

StatsAt(point) == Alive /\ stats = point

StatsRuns == /\ StatsAt("starting")
             /\ stats' \in {"running", "ended"}      \* "ended": make_loop failed
             /\ UNCHANGED <<main, i, queues, worker, signal, stopped, process>>

StatsStops == /\ StatsAt("running")
              /\ stopped
              /\ stats' = "ended"
              /\ UNCHANGED <<main, i, queues, worker, signal, stopped, process>>

Signal == /\ Alive
          /\ ~signal
          /\ signal' = TRUE
          /\ UNCHANGED <<main, i, queues, worker, stats, stopped, process>>

Over == ~Alive /\ UNCHANGED lifecycleVars

-----------------------------------------------------------------------------

MainStep == \/ PrepareFails \/ Prepare
            \/ Grow \/ Spawn \/ SpawnFails
            \/ SpawnStats \/ SpawnStatsFails
            \/ HandleSignal \/ JoinStats \/ JoinWorkers

WorkerStep(t) == Bind(t) \/ BindFails(t) \/ PublishSize(t) \/ WorkerStops(t)

LifecycleNext == \/ MainStep
                 \/ \E t \in 1..ThreadsCount : WorkerStep(t)
                 \/ StatsRuns \/ StatsStops
                 \/ Signal \/ Over

LifecycleSpec == LifecycleInit /\ [][LifecycleNext]_lifecycleVars

\* Every thread goes on as long as it can; no signal need come.  A worker's timers
\* fire again and again, so that publishing does not keep it from stopping.
LifecycleFairSpec == /\ LifecycleSpec
                     /\ WF_lifecycleVars(MainStep)
                     /\ \A t \in 1..ThreadsCount : WF_lifecycleVars(Bind(t) \/ BindFails(t)) /\ WF_lifecycleVars(WorkerStops(t))
                     /\ WF_lifecycleVars(StatsRuns) /\ WF_lifecycleVars(StatsStops)

-----------------------------------------------------------------------------
(* Properties                                                              *)

\* _queues never holds more entries than there are threads.
LifecycleTypeOK ==
  /\ main \in {"preparing", "growing", "spawning", "stats", "running", "joinStats",
               "joinWorkers", "done"}
  /\ i \in 0..ThreadsCount
  /\ queues \in 0..ThreadsCount
  /\ worker \in [1..ThreadsCount -> {"none", "starting", "running", "ended"}]
  /\ stats \in {"none", "starting", "running", "ended", "failed"}
  /\ signal \in BOOLEAN
  /\ stopped \in BOOLEAN
  /\ process \in {"alive", "exited", "failed", "aborted", "crashed"}

\* A worker runs while Proxy is still being built, but its own entry of _queues
\* was there before it was started.
WorkerFindsItsQueue == \A t \in 1..ThreadsCount : worker[t] # "none" => t <= queues

\* Neither the members of Proxy nor the key and configuration that the threads hold
\* references to are destroyed while one of them runs; Stats' thread ends first.
NothingUsedAfterDestruction ==
  /\ process \in {"exited", "failed"} => \A t \in 1..ThreadsCount : worker[t] \in {"none", "ended"}
  /\ process \in {"exited", "failed"} \/ main = "joinWorkers" =>
       stats \in {"none", "ended", "failed"}

\* main waits for workers that nobody has told to stop in one case only: Stats
\* could not be started.
WaitsOnlyForStopped == main \in {"joinStats", "joinWorkers"} /\ ~stopped => stats = "failed"

\* The order of construction and destruction: what a thread uses is there before it and
\* after it, and main waits for no thread that nobody stops (Proxy and Stats in main).
LifetimesHold == WorkerFindsItsQueue /\ NothingUsedAfterDestruction /\ WaitsOnlyForStopped

\* A stop signal, at whatever moment it comes, ends the process, unless Stats could
\* not be started: then main sits in ~Proxy, and no loop hears the signal.
SignalEndsProcess == signal ~> (~Alive \/ stats = "failed")

=============================================================================
