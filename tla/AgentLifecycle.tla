---------------------------- MODULE AgentLifecycle ----------------------------
(***************************************************************************)
(* Runner::run: the main thread starts the parts of the agent, runs the    *)
(* event loop until a signal ends it, and stops the parts one by one.      *)
(* Beside it run the source thread (start() of the gRPC source), the       *)
(* watcher thread (the loop of Kubernetes::Watcher) and the two threads of *)
(* the pool, which take the tasks of the host source.                      *)
(*                                                                         *)
(* The event loop, the pool, the gRPC server and the metric SDK are        *)
(* libraries, modelled from how they are used: Shutdown makes Wait return, *)
(* a one-shot timer fires on the main thread while it loops, each thread   *)
(* of the pool takes its tasks in order, RemoveCallback removes every      *)
(* registration of a callback.  Two things the use does not show are left  *)
(* open: the stop of the pool is not assumed to wait for a task that runs, *)
(* nor is a thread of the pool assumed to catch an exception or not to.    *)
(***************************************************************************)
EXTENDS Naturals, Sequences

CONSTANTS
    Modules,      \* the parts a configuration may enable
    BuildFails    \* whether the server may fail to listen

ASSUME LifecycleAssumption ==
    /\ Modules \subseteq {"trace", "http", "host", "kubernetes"}
    /\ BuildFails \in BOOLEAN

VARIABLES
    enabled,         \* the parts the configuration enables
    alive,           \* neither a null pointer nor an exception has ended the process
    main,            \* where the main thread is
    signal,          \* SIGTERM has come
    server,          \* the gRPC server
    source_thread,   \* where the source thread is
    timers,          \* of the topology processor: flush and clear
    latch,           \* countDownLatch
    http,            \* the HTTP server runs
    watcher_thread,  \* where the watcher thread is
    is_shutdown_,    \* the flag of the watcher
    pool,            \* the pool runs
    count,           \* the counter that picks a thread of the pool
    tasks,           \* what each thread of the pool has been given
    running,         \* the task each thread is in
    timer_,          \* the collection timer of the host source
    callbacks        \* the registrations of the callback of each metric

traceVars == <<server, source_thread, timers, latch>>
watchVars == <<watcher_thread, is_shutdown_>>
hostVars  == <<pool, count, tasks, running, timer_, callbacks>>
vars      == <<enabled, alive, main, signal, traceVars, http, watchVars,
               hostVars>>

Worker == 0..1
Metric == {"gpu", "oltp", "cpu", "network"}
Task   == {"basic", "collect"}
Call   == {"service", "endpoints", "pods"}

Boot == {"init_trace", "start_trace", "http", "pool", "init_host",
         "start_host", "kubernetes"}
Stop == {"stop_flush", "stop_clear", "shutdown", "join_source", "await_latch",
         "stop_host", "stop_http", "stop_watcher", "join_watcher", "cleanup",
         "stop_pool", "stopped"}

TypeOK ==
    /\ enabled \subseteq Modules
    /\ alive \in BOOLEAN /\ signal \in BOOLEAN /\ http \in BOOLEAN
    /\ main \in Boot \union {"loop"} \union Stop
    /\ server \in {"none", "failed", "serving", "shutdown"}
    /\ source_thread \in {"none", "started", "flush_made", "clear_made",
                          "flush_enabled", "waiting", "returned", "ended"}
    /\ timers \in [{"flush", "clear"} -> {"null", "idle", "enabled"}]
    /\ latch \in 0..1
    /\ watcher_thread \in [at : {"none", "loop", "test", "watching", "ended"},
                          call : Call]
    /\ is_shutdown_ \in BOOLEAN
    /\ pool \in {"none", "running", "stopped"} /\ count \in 0..255
    /\ tasks \in [Worker -> UNION {[1..n -> Task] : n \in 0..2}]
    /\ running \in [Worker -> Task \union {"none", "thrown"}]
    /\ timer_ \in {"null", "idle", "enabled"}
    /\ callbacks \in [Metric -> 0..4]

Place(at, call) == [at |-> at, call |-> call]

Init ==
    /\ enabled \in SUBSET Modules
    /\ alive = TRUE /\ main = "init_trace" /\ signal = FALSE
    /\ server = "none" /\ source_thread = "none"
    /\ timers = [t \in {"flush", "clear"} |-> "null"] /\ latch = 1
    /\ http = FALSE
    /\ watcher_thread = Place("none", "service") /\ is_shutdown_ = FALSE
    /\ pool = "none" /\ count = 0
    /\ tasks = [w \in Worker |-> <<>>] /\ running = [w \in Worker |-> "none"]
    /\ timer_ = "null" /\ callbacks = [m \in Metric |-> 0]

\* The main thread goes from one place to the next; a part that is not enabled
\* is passed over.
Goto(from, to) == alive /\ main = from /\ main' = to

Skip(module, from, to) ==
    /\ module \notin enabled
    /\ Goto(from, to)
    /\ UNCHANGED <<enabled, alive, signal, traceVars, http, watchVars,
                   hostVars>>

Crash ==
    /\ alive' = FALSE
    /\ UNCHANGED <<enabled, main, signal, traceVars, http, watchVars, hostVars>>

-----------------------------------------------------------------------------
(* The start.                                                              *)

\* Source::init: BuildAndStart returns null if it cannot listen.
InitTrace ==
    /\ "trace" \in enabled
    /\ Goto("init_trace", "start_trace")
    /\ server' \in {"serving"} \union (IF BuildFails THEN {"failed"} ELSE {})
    /\ UNCHANGED <<enabled, alive, signal, source_thread, timers, latch, http,
                   watchVars, hostVars>>

StartTrace ==
    /\ Goto("start_trace", "http")
    /\ source_thread' = "started"
    /\ UNCHANGED <<enabled, alive, signal, server, timers, latch, http,
                   watchVars, hostVars>>

StartHttp ==
    /\ Goto("http", "pool")
    /\ http' = ("http" \in enabled)
    /\ UNCHANGED <<enabled, alive, signal, traceVars, watchVars, hostVars>>

StartPool ==
    /\ Goto("pool", "init_host")
    /\ pool' = "running"
    /\ UNCHANGED <<enabled, alive, signal, traceVars, http, watchVars, count,
                   tasks, running, timer_, callbacks>>

\* threadPool->task: the thread is picked by a counter that is never changed.
Thread == count % 2

Give(task) == tasks' = [tasks EXCEPT ![Thread] = Append(@, task)]

\* The metrics of the network are installed twice, those of the disks never.
NetworkMetrics == 2

InitHost ==
    /\ "host" \in enabled
    /\ Goto("init_host", "start_host")
    /\ Give("basic")
    /\ timer_' = "idle"
    /\ UNCHANGED <<enabled, alive, signal, traceVars, http, watchVars, pool,
                   count, running, callbacks>>

StartHost ==
    /\ Goto("start_host", "kubernetes")
    /\ timer_' = "enabled"
    /\ callbacks' = [callbacks EXCEPT !["gpu"] = 1, !["oltp"] = 1,
                                      !["network"] = NetworkMetrics]
    /\ UNCHANGED <<enabled, alive, signal, traceVars, http, watchVars, pool,
                   count, tasks, running>>

StartKubernetes ==
    /\ "kubernetes" \in enabled
    /\ Goto("kubernetes", "loop")
    /\ watcher_thread' = Place("loop", "service")
    /\ UNCHANGED <<enabled, alive, signal, traceVars, http, is_shutdown_,
                   hostVars>>

Start ==
    \/ InitTrace \/ StartTrace \/ StartHttp \/ StartPool
    \/ InitHost \/ StartHost \/ StartKubernetes
    \/ Skip("trace", "init_trace", "http")
    \/ Skip("host", "init_host", "kubernetes")
    \/ Skip("kubernetes", "kubernetes", "loop")

-----------------------------------------------------------------------------
(* The event loop.                                                         *)

Signal ==
    /\ alive /\ ~signal
    /\ signal' = TRUE
    /\ UNCHANGED <<enabled, alive, main, traceVars, http, watchVars, hostVars>>

\* onstop quits the loop.
Quit ==
    /\ signal
    /\ Goto("loop", IF "trace" \in enabled THEN "stop_flush" ELSE "stop_host")
    /\ UNCHANGED <<enabled, alive, signal, traceVars, http, watchVars,
                   hostVars>>

\* Mutant: the timer enables itself, as those of the topology do.
TimerFiresAgain ==
    /\ alive /\ main = "loop" /\ timer_ = "enabled"
    /\ Len(tasks[Thread]) < 2
    /\ Give("collect")
    /\ UNCHANGED <<enabled, alive, main, signal, traceVars, http, watchVars,
                   pool, count, running, timer_, callbacks>>

\* The collection timer gives its task to the pool.
TimerFires ==
    /\ alive /\ main = "loop" /\ timer_ = "enabled"
    /\ timer_' = "idle"
    /\ Give("collect")
    /\ UNCHANGED <<enabled, alive, main, signal, traceVars, http, watchVars,
                   pool, count, running, callbacks>>

-----------------------------------------------------------------------------
(* The source thread: Source::start.                                       *)

At(from, to) == alive /\ source_thread = from /\ source_thread' = to

MakeFlushTimer ==
    /\ At("started", "flush_made")
    /\ timers' = [timers EXCEPT !["flush"] = "idle"]
    /\ UNCHANGED <<enabled, alive, main, signal, server, latch, http,
                   watchVars, hostVars>>

\* Mutant: the second timer is forgotten.
MakeNothing ==
    /\ At("flush_made", "clear_made")
    /\ UNCHANGED <<enabled, alive, main, signal, server, timers, latch, http,
                   watchVars, hostVars>>

MakeClearTimer ==
    /\ At("flush_made", "clear_made")
    /\ timers' = [timers EXCEPT !["clear"] = "idle"]
    /\ UNCHANGED <<enabled, alive, main, signal, server, latch, http,
                   watchVars, hostVars>>

EnableFlushTimer ==
    /\ At("clear_made", "flush_enabled")
    /\ timers' = [timers EXCEPT !["flush"] = "enabled"]
    /\ UNCHANGED <<enabled, alive, main, signal, server, latch, http,
                   watchVars, hostVars>>

EnableClearTimer ==
    /\ At("flush_enabled", "waiting")
    /\ timers' = [timers EXCEPT !["clear"] = "enabled"]
    /\ UNCHANGED <<enabled, alive, main, signal, server, latch, http,
                   watchVars, hostVars>>

\* start() waits for the server without a test that there is one.
WaitNothing ==
    /\ alive /\ source_thread = "waiting" /\ server = "failed"
    /\ Crash

WaitReturns ==
    /\ server = "shutdown"
    /\ At("waiting", "returned")
    /\ UNCHANGED <<enabled, alive, main, signal, server, timers, latch, http,
                   watchVars, hostVars>>

LatchDown ==
    /\ At("returned", "ended")
    /\ latch' = latch - 1
    /\ UNCHANGED <<enabled, alive, main, signal, server, timers, http,
                   watchVars, hostVars>>

SourceThread ==
    \/ MakeFlushTimer \/ MakeClearTimer \/ EnableFlushTimer \/ EnableClearTimer
    \/ WaitNothing \/ WaitReturns \/ LatchDown

-----------------------------------------------------------------------------
(* The watcher thread: the loop of Watcher::start.                         *)

\* The calls are made in turn; after the last the loop tests the flag again.
After(call) == CASE call = "service"   -> Place("test", "endpoints")
                 [] call = "endpoints" -> Place("test", "pods")
                 [] call = "pods"      -> Place("loop", "service")

LoopTest ==
    /\ alive /\ watcher_thread.at = "loop"
    /\ watcher_thread' = Place(IF is_shutdown_ THEN "ended" ELSE "test", "service")
    /\ UNCHANGED <<enabled, alive, main, signal, traceVars, http, is_shutdown_,
                   hostVars>>

\* watch_list_service and the other two: they watch if the flag is set.
WatchTest(call) ==
    /\ alive /\ watcher_thread = Place("test", call)
    /\ watcher_thread' = IF is_shutdown_ THEN Place("watching", call) ELSE After(call)
    /\ UNCHANGED <<enabled, alive, main, signal, traceVars, http, is_shutdown_,
                   hostVars>>

\* my_watch_progress_func ends a watch if the flag is set; otherwise it times out.
WatchEnds(call) ==
    /\ alive /\ watcher_thread = Place("watching", call)
    /\ watcher_thread' = After(call)
    /\ UNCHANGED <<enabled, alive, main, signal, traceVars, http, is_shutdown_,
                   hostVars>>

WatcherThread ==
    LoopTest \/ \E call \in Call : WatchTest(call) \/ WatchEnds(call)

-----------------------------------------------------------------------------
(* The pool.                                                               *)

TakeTask(w) ==
    /\ alive /\ pool = "running" /\ running[w] = "none" /\ tasks[w] # <<>>
    /\ running' = [running EXCEPT ![w] = Head(tasks[w])]
    /\ tasks' = [tasks EXCEPT ![w] = Tail(@)]
    /\ UNCHANGED <<enabled, alive, main, signal, traceVars, http, watchVars,
                   pool, count, timer_, callbacks>>

\* The task of init() ends with the start of the CPU metric...
EndBasic(w) ==
    /\ alive /\ running[w] = "basic"
    /\ running' = [running EXCEPT ![w] = "none"]
    /\ callbacks' = [callbacks EXCEPT !["cpu"] = @ + 1]
    /\ UNCHANGED <<enabled, alive, main, signal, traceVars, http, watchVars,
                   pool, count, tasks, timer_>>

\* ... unless the walk over the groups throws, for a directory that is removed
\* while it is listed (cgroup_collector.cc:433).  Nothing in the task catches
\* that: the report is not sent and the metric not started.  If the thread does
\* not catch it either, the process ends.
BasicThrows(w) ==
    /\ alive /\ running[w] = "basic"
    /\ \/ running' = [running EXCEPT ![w] = "thrown"] /\ alive' = FALSE
       \/ running' = [running EXCEPT ![w] = "none"] /\ UNCHANGED alive
    /\ UNCHANGED <<enabled, main, signal, traceVars, http, watchVars,
                   pool, count, tasks, timer_, callbacks>>

\* Mutant: the timer is not enabled again.
EndCollectOnce(w) ==
    /\ alive /\ running[w] = "collect"
    /\ running' = [running EXCEPT ![w] = "none"]
    /\ UNCHANGED <<enabled, alive, main, signal, traceVars, http, watchVars,
                   pool, count, tasks, timer_, callbacks>>

\* The collection task ends with the timer, also after the source has stopped.
EndCollect(w) ==
    /\ alive /\ running[w] = "collect"
    /\ running' = [running EXCEPT ![w] = "none"]
    /\ timer_' = "enabled"
    /\ UNCHANGED <<enabled, alive, main, signal, traceVars, http, watchVars,
                   pool, count, tasks, callbacks>>

PoolThread(w) == TakeTask(w) \/ EndBasic(w) \/ BasicThrows(w) \/ EndCollect(w)

-----------------------------------------------------------------------------
(* The stop.                                                               *)

\* Processor::stop disables two timers that start() makes on the source thread.
Disable(t, from, to) ==
    /\ alive /\ main = from
    /\ IF timers[t] = "null"
       THEN Crash
       ELSE /\ main' = to
            /\ timers' = [timers EXCEPT ![t] = "idle"]
            /\ UNCHANGED <<enabled, alive, signal, server, source_thread,
                           latch, http, watchVars, hostVars>>

\* Mutant: the thread is joined and the server is not told to stop.
ShutdownNothing ==
    /\ Goto("shutdown", "join_source")
    /\ UNCHANGED <<enabled, alive, signal, traceVars, http, watchVars,
                   hostVars>>

ShutdownServer ==
    /\ Goto("shutdown", "join_source")
    /\ server' = IF server = "serving" THEN "shutdown" ELSE server
    /\ UNCHANGED <<enabled, alive, signal, source_thread, timers, latch, http,
                   watchVars, hostVars>>

JoinSource ==
    /\ source_thread = "ended"
    /\ Goto("join_source", "await_latch")
    /\ UNCHANGED <<enabled, alive, signal, traceVars, http, watchVars,
                   hostVars>>

AwaitLatch ==
    /\ latch = 0
    /\ Goto("await_latch", "stop_host")
    /\ UNCHANGED <<enabled, alive, signal, traceVars, http, watchVars,
                   hostVars>>

\* The stop of the network collector starts its metrics again.
StopHost ==
    /\ "host" \in enabled
    /\ Goto("stop_host", "stop_http")
    /\ timer_' = "idle"
    /\ callbacks' = [callbacks EXCEPT !["gpu"] = 0, !["oltp"] = 0, !["cpu"] = 0,
                                      !["network"] = @ + NetworkMetrics]
    /\ UNCHANGED <<enabled, alive, signal, traceVars, http, watchVars, pool,
                   count, tasks, running>>

StopHttp ==
    /\ Goto("stop_http", "stop_watcher")
    /\ http' = FALSE
    /\ UNCHANGED <<enabled, alive, signal, traceVars, watchVars, hostVars>>

StopWatcher ==
    /\ "kubernetes" \in enabled
    /\ Goto("stop_watcher", "join_watcher")
    /\ is_shutdown_' = TRUE
    /\ UNCHANGED <<enabled, alive, signal, traceVars, http, watcher_thread,
                   hostVars>>

\* Mutant: nobody waits for the watcher thread.
JoinNothing ==
    /\ Goto("join_watcher", "cleanup")
    /\ UNCHANGED <<enabled, alive, signal, traceVars, http, watchVars,
                   hostVars>>

JoinWatcher ==
    /\ watcher_thread.at = "ended"
    /\ Goto("join_watcher", "cleanup")
    /\ UNCHANGED <<enabled, alive, signal, traceVars, http, watchVars,
                   hostVars>>

\* cleanupMetrics: the provider goes; the registrations are the instruments'.
CleanupMetrics ==
    /\ Goto("cleanup", "stop_pool")
    /\ UNCHANGED <<enabled, alive, signal, traceVars, http, watchVars,
                   hostVars>>

\* The threads of the pool take no more tasks; one that is in a task may go on.
StopPool ==
    /\ Goto("stop_pool", "stopped")
    /\ pool' = "stopped"
    /\ UNCHANGED <<enabled, alive, signal, traceVars, http, watchVars, count,
                   tasks, running, timer_, callbacks>>

Shutdown ==
    \/ Disable("flush", "stop_flush", "stop_clear")
    \/ Disable("clear", "stop_clear", "shutdown")
    \/ ShutdownServer \/ JoinSource \/ AwaitLatch
    \/ StopHost \/ Skip("host", "stop_host", "stop_http")
    \/ StopHttp
    \/ StopWatcher \/ JoinWatcher \/ Skip("kubernetes", "stop_watcher", "cleanup")
    \/ CleanupMetrics \/ StopPool

Main == Start \/ Quit \/ Shutdown

Next ==
    \/ Signal \/ Main \/ TimerFires
    \/ SourceThread \/ WatcherThread
    \/ \E w \in Worker : PoolThread(w)

Spec == Init /\ [][Next]_vars

\* Every thread goes on, and an enabled timer fires while the loop runs; a
\* signal need not come.
Fairness ==
    /\ WF_vars(Main) /\ WF_vars(TimerFires)
    /\ WF_vars(SourceThread) /\ WF_vars(WatcherThread)
    /\ \A w \in Worker : WF_vars(PoolThread(w))

FairSpec == Spec /\ Fairness

-----------------------------------------------------------------------------

Stopping == main \in Stop

\* Once the loop has ended, the parts are stopped one after the other, and no
\* stop ends the process instead (onstop: after the main thread has run, the
\* shutdown of every module runs in turn and so stops all services, in Chinese).
StoppedInTurn == Stopping => alive

\* What the start and the stop of the parts can end the process by: a stop that
\* overtook the start of the topology timers on the source thread, a server that
\* could not listen and is waited for, or the exception of the first task.  Of
\* the endings that a trace may cause (an id too short, a span of two
\* references) nothing is said here: spans are not part of this module.
CrashOnlyEarly ==
    ~alive => \/ server = "failed" \/ source_thread \in {"started", "flush_made"}
              \/ \E w \in Worker : running[w] = "thrown"

\* When run() returns, the two threads that it starts itself, for the gRPC source
\* and for the watcher, have ended.  It says nothing of the threads of the pool:
\* see TasksEnded.
ThreadsJoined ==
    main = "stopped" => /\ source_thread \in {"none", "ended"}
                        /\ watcher_thread.at \in {"none", "ended"}

\* The collections of the host source, timed or given to the pool or running.
Collections ==
    {c \in Worker \X (0..2) :
        \/ c[2] = 0 /\ running[c[1]] = "collect"
        \/ c[2] \in DOMAIN tasks[c[1]] /\ tasks[c[1]][c[2]] = "collect"}
    \union {<<2, 0>> : t \in {timer_} \ {"null", "idle"}}

\* There is never more than one: the timer is enabled by the end of the task it
\* gave to the pool.
OneCollection == \A c, d \in Collections : c = d

\* No two tasks run at once: they share the report and the collectors, which
\* have no lock, and only the counter that stands still keeps them apart.
TasksApart == running[0] = "none" \/ running[1] = "none"

\* What the tasks of the host source share is safe from other tasks, and what the
\* two threads of run() use is safe from its end: the state is well typed, there
\* is one collection, no task runs beside it, and both threads are joined.
TaskInv == TypeOK /\ OneCollection /\ TasksApart /\ ThreadsJoined

\* When run() returns no task runs either (onstop: the shutdown of every module
\* stops all services).  Only a pool whose stop waits would see to it, for the
\* stop of the host source does not.
TasksEnded == main = "stopped" => \A w \in Worker : running[w] = "none"

\* After the stop of the host source its metrics are not collected any more.
MetricsStopped ==
    main = "stopped" => \A m \in Metric \ {"cpu"} : callbacks[m] = 0

\* Nor is that of the CPU, which the task of init() starts on the pool.
CpuMetricStopped == main = "stopped" => callbacks["cpu"] = 0

\* A signal stops the agent: no thread waits for ever for another.
ShutdownEnds == signal ~> (main = "stopped" \/ ~alive)

\* While no signal comes, the host source collects again and again.
CollectsAgain ==
    "host" \in enabled =>
       <>(signal \/ ~alive) \/ []<>(\E w \in Worker : running[w] = "collect")

\* While no signal comes, the watcher watches (watcher.h: "Watch for 30 seconds").
WatchesWhileRunning ==
    "kubernetes" \in enabled =>
       <>(signal \/ \E call \in Call : watcher_thread = Place("watching", call))
=============================================================================
