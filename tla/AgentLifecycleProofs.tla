------------------------- MODULE AgentLifecycleProofs -------------------------
(***************************************************************************)
(* For every configuration: what the tasks of the host source share is     *)
(* safe from other tasks, the source and the watcher thread are joined     *)
(* before run() returns, and what the start, the stop and the first task   *)
(* can end the process by.                                                 *)
(***************************************************************************)
EXTENDS AgentLifecycle, SequenceTheorems, TLAPS

\* Where the main thread is while the loop and the stop of a part are to come.
BeforeTrace == {"init_trace", "start_trace"}
BeforeHost  == BeforeTrace \union {"http", "pool", "init_host"}
BeforeWatch == BeforeHost \union {"start_host", "kubernetes"}
BeforeStop  == BeforeWatch \union {"loop", "stop_flush", "stop_clear", "shutdown",
                                   "join_source", "await_latch", "stop_host"}
AfterSource == {"await_latch", "stop_host", "stop_http", "stop_watcher", "join_watcher",
                "cleanup", "stop_pool", "stopped"}
AfterWatch  == {"cleanup", "stop_pool", "stopped"}

MainInv ==
    /\ enabled \subseteq Modules
    /\ alive \in BOOLEAN /\ signal \in BOOLEAN /\ http \in BOOLEAN
    /\ main \in Boot \union {"loop"} \union Stop
    /\ main \in {"start_trace", "stop_flush", "stop_clear", "shutdown", "join_source",
                 "await_latch"} => "trace" \in enabled
    /\ main = "start_host" => "host" \in enabled

\* The source thread makes the timers of the topology before it enables them,
\* and runs from the start of the traces until the stop has joined it.
TraceInv ==
    /\ server \in {"none", "failed", "serving", "shutdown"}
    /\ source_thread \in {"none", "started", "flush_made", "clear_made",
                          "flush_enabled", "waiting", "returned", "ended"}
    /\ timers \in [{"flush", "clear"} -> {"null", "idle", "enabled"}]
    /\ latch \in 0..1
    /\ source_thread # "ended" => latch = 1
    /\ timers["flush"] = "null" => source_thread \in {"none", "started"}
    /\ timers["clear"] = "null" => source_thread \in {"none", "started", "flush_made"}
    /\ source_thread = "none" <=> ("trace" \notin enabled \/ main \in BeforeTrace)
    /\ main \in AfterSource => source_thread \in {"none", "ended"}

\* So does the watcher thread, if there is one.
WatchInv ==
    /\ watcher_thread \in [at : {"none", "loop", "test", "watching", "ended"}, call : Call]
    /\ is_shutdown_ \in BOOLEAN
    /\ watcher_thread.at = "none" <=> ("kubernetes" \notin enabled \/ main \in BeforeWatch)
    /\ main \in AfterWatch => watcher_thread.at \in {"none", "ended"}

\* What the first thread of the pool has yet to do: the task of init() comes
\* before any collection.
Queue == {<<>>, <<"basic">>, <<"collect">>, <<"basic", "collect">>}
WithBasic == {<<"basic">>, <<"basic", "collect">>}
WithCollect == {<<"collect">>, <<"basic", "collect">>}

\* All tasks go to the first thread; the first task comes once, and a collection
\* is given out by a timer that only its end enables.
HostInv ==
    /\ pool \in {"none", "running", "stopped"} /\ count = 0
    /\ tasks \in [Worker -> Queue] /\ tasks[1] = <<>>
    /\ running \in [Worker -> Task \union {"none", "thrown"}] /\ running[1] = "none"
    /\ timer_ \in {"null", "idle", "enabled"}
    /\ callbacks \in [Metric -> 0..4]
    /\ main \in BeforeHost => /\ tasks[0] = <<>> /\ running[0] = "none"
                              /\ timer_ = "null" /\ callbacks["cpu"] = 0
    /\ main \in BeforeWatch => tasks[0] \notin WithCollect /\ running[0] # "collect"
    /\ tasks[0] \in WithBasic => running[0] = "none" /\ callbacks["cpu"] = 0
    /\ running[0] = "basic" => callbacks["cpu"] = 0
    /\ running[0] = "collect" => tasks[0] = <<>>
    /\ tasks[0] \in WithCollect \/ running[0] = "collect" => timer_ # "enabled"
    /\ callbacks["cpu"] <= 1
    /\ main \in BeforeStop => callbacks["network"] <= 2

IInv == MainInv /\ TraceInv /\ WatchInv /\ HostInv

-----------------------------------------------------------------------------

\* The queue of tasks is that of a bounded length.
LEMMA Queues ==
    /\ \A q \in Queue : \E n \in 0..2 : q \in [1..n -> Task]
    /\ \A q \in Queue : q # <<>> => Head(q) \in Task /\ Tail(q) \in Queue
    /\ \A q \in WithBasic : Head(q) = "basic" /\ Tail(q) \in {<<>>, <<"collect">>}
    /\ Head(<<"collect">>) = "collect" /\ Tail(<<"collect">>) = <<>>
    /\ Append(<<>>, "basic") = <<"basic">>
    /\ Append(<<>>, "collect") = <<"collect">>
    /\ Append(<<"basic">>, "collect") = <<"basic", "collect">>
<1>1. /\ <<>> \in [1..0 -> Task] /\ <<"basic">> \in [1..1 -> Task]
      /\ <<"collect">> \in [1..1 -> Task] /\ <<"basic", "collect">> \in [1..2 -> Task]
  BY DEF Task
<1>2. ASSUME NEW q \in Queue PROVE \E n \in 0..2 : q \in [1..n -> Task]
  <2>1. q \in [1..0 -> Task] \/ q \in [1..1 -> Task] \/ q \in [1..2 -> Task]
    BY <1>1 DEF Queue
  <2>. QED
    BY <2>1
<1>3. /\ Head(<<"basic">>) = "basic" /\ Tail(<<"basic">>) = <<>>
      /\ Head(<<"collect">>) = "collect" /\ Tail(<<"collect">>) = <<>>
      /\ Head(<<"basic", "collect">>) = "basic"
      /\ Tail(<<"basic", "collect">>) = <<"collect">>
  OBVIOUS
<1>4. /\ Append(<<>>, "basic") = <<"basic">>
      /\ Append(<<>>, "collect") = <<"collect">>
      /\ Append(<<"basic">>, "collect") = <<"basic", "collect">>
  <2>. DEFINE S == {"basic", "collect"}
  <2>1. /\ <<>> \in Seq(S) /\ <<"basic">> \in Seq(S) /\ <<"collect">> \in Seq(S)
        /\ <<"basic", "collect">> \in Seq(S)
    OBVIOUS
  <2>2. ASSUME NEW e \in S PROVE Append(<<>>, e) = <<e>>
    <3>1. Append(<<>>, e) \in Seq(S) /\ <<e>> \in Seq(S)
      BY <2>1, AppendProperties
    <3>2. Len(Append(<<>>, e)) = 1 /\ Append(<<>>, e)[1] = e
      OBVIOUS
    <3>3. Len(<<e>>) = 1 /\ <<e>>[1] = e
      OBVIOUS
    <3>4. \A i \in 1..1 : i = 1
      OBVIOUS
    <3>. HIDE DEF S
    <3>5. QED
      BY <3>1, <3>2, <3>3, <3>4, SeqEqual
  <2>3. Append(<<"basic">>, "collect") = <<"basic", "collect">>
    <3>1. Append(<<"basic">>, "collect") \in Seq(S)
      BY <2>1, AppendProperties
    <3>2. /\ Len(Append(<<"basic">>, "collect")) = 2
          /\ Append(<<"basic">>, "collect")[1] = "basic"
          /\ Append(<<"basic">>, "collect")[2] = "collect"
      OBVIOUS
    <3>3. /\ Len(<<"basic", "collect">>) = 2 /\ <<"basic", "collect">>[1] = "basic"
          /\ <<"basic", "collect">>[2] = "collect"
      OBVIOUS
    <3>4. \A i \in 1..2 : i = 1 \/ i = 2
      OBVIOUS
    <3>. HIDE DEF S
    <3>5. QED
      BY <2>1, <3>1, <3>2, <3>3, <3>4, SeqEqual
  <2>4. QED
    BY <2>2, <2>3
<1>5. QED
  BY <1>2, <1>3, <1>4 DEF Queue, WithBasic, Task

\* The elements of the queues.
LEMMA QueueElements ==
    ASSUME NEW q \in Queue, NEW n \in DOMAIN q, q[n] = "collect"
    PROVE  q \in WithCollect /\ n = Len(q) /\ n \in 1..2
<1>1. CASE q = <<>>
  BY <1>1
<1>2. CASE q = <<"basic">>
  BY <1>2
<1>3. CASE q = <<"collect">>
  BY <1>3 DEF WithCollect
<1>4. CASE q = <<"basic", "collect">>
  BY <1>4 DEF WithCollect
<1>5. QED
  BY <1>1, <1>2, <1>3, <1>4 DEF Queue

-----------------------------------------------------------------------------

\* The invariant says all that the tasks have to be safe from.
LEMMA OneAtATime == IInv => OneCollection /\ TasksApart /\ ThreadsJoined
<1>. SUFFICES ASSUME IInv PROVE OneCollection /\ TasksApart /\ ThreadsJoined
  OBVIOUS
<1>1. TasksApart
  BY DEF IInv, HostInv, TasksApart
<1>2. ThreadsJoined
  BY DEF IInv, TraceInv, WatchInv, AfterSource, AfterWatch, ThreadsJoined
<1>3. OneCollection
  <2>. DEFINE Pooled == {c \in Worker \X (0..2) :
                          \/ c[2] = 0 /\ running[c[1]] = "collect"
                          \/ c[2] \in DOMAIN tasks[c[1]] /\ tasks[c[1]][c[2]] = "collect"}
              Timed  == {<<2, 0>> : t \in {timer_} \ {"null", "idle"}}
  <2>1. ASSUME NEW c \in Pooled
        PROVE  /\ c \in Worker \X (0..2) /\ c[1] = 0
               /\ \/ c[2] = 0 /\ running[0] = "collect"
                  \/ c[2] = Len(tasks[0]) /\ c[2] # 0 /\ tasks[0] \in WithCollect
    <3>1. c[1] \in Worker /\ c[2] \in 0..2
      OBVIOUS
    <3>2. c[1] = 0
      <4>1. c[1] # 1
        BY DEF IInv, HostInv
      <4>2. QED
        BY <3>1, <4>1 DEF Worker
    <3>3. CASE c[2] = 0 /\ running[c[1]] = "collect"
      BY <3>2, <3>3
    <3>4. CASE c[2] \in DOMAIN tasks[c[1]] /\ tasks[c[1]][c[2]] = "collect"
      <4>1. tasks[0] \in Queue
        BY DEF IInv, HostInv, Worker
      <4>2. tasks[0] \in WithCollect /\ c[2] = Len(tasks[0]) /\ c[2] \in 1..2
        BY <3>2, <3>4, <4>1, QueueElements
      <4>3. QED
        BY <3>2, <4>2
    <3>5. QED
      BY <3>3, <3>4
  <2>2. ASSUME NEW c \in Timed PROVE c = <<2, 0>> /\ timer_ = "enabled"
    BY DEF IInv, HostInv
  <2>3. ASSUME NEW c \in Pooled, NEW d \in Pooled PROVE c = d
    <3>1. ~(running[0] = "collect" /\ tasks[0] \in WithCollect)
      <4>1. <<>> \notin WithCollect
        BY DEF WithCollect
      <4>2. QED
        BY <4>1 DEF IInv, HostInv
    <3>2. c[1] = d[1] /\ c[2] = d[2]
      BY <2>1, <3>1
    <3>3. QED
      BY <3>2
  <2>4. ASSUME NEW c \in Pooled, NEW d \in Timed PROVE FALSE
    BY <2>1, <2>2 DEF IInv, HostInv
  <2>5. ASSUME NEW c \in Timed, NEW d \in Timed PROVE c = d
    BY <2>2
  <2>6. Collections = Pooled \union Timed
    BY DEF Collections
  <2>. HIDE DEF Pooled, Timed
  <2>7. QED
    BY <2>3, <2>4, <2>5, <2>6 DEF OneCollection
<1>4. QED
  BY <1>1, <1>2, <1>3

LEMMA Typed == IInv => TypeOK
<1>. SUFFICES ASSUME IInv PROVE TypeOK
  OBVIOUS
<1>1. tasks \in [Worker -> UNION {[1..n -> Task] : n \in 0..2}]
  BY Queues DEF IInv, HostInv
<1>2. QED
  BY <1>1 DEF IInv, MainInv, TraceInv, WatchInv, HostInv, TypeOK

-----------------------------------------------------------------------------
(* The initial states, and the steps of each thread.                       *)

LEMMA InitInv == Init => IInv
<1>. SUFFICES ASSUME Init PROVE IInv
  OBVIOUS
<1>1. MainInv
  BY DEF Init, MainInv, Boot, Stop
<1>2. TraceInv
  BY DEF Init, TraceInv, BeforeTrace, AfterSource
<1>3. WatchInv
  BY DEF Init, WatchInv, BeforeTrace, BeforeHost, BeforeWatch, AfterWatch, Place, Call
<1>4. HostInv
  BY DEF Init, HostInv, Queue, WithBasic, WithCollect, Worker, Metric, Task,
         BeforeTrace, BeforeHost, BeforeWatch, BeforeStop
<1>5. QED
  BY <1>1, <1>2, <1>3, <1>4 DEF IInv

\* The steps of the main thread that start the parts.
LEMMA StartStep == ASSUME IInv, Start PROVE IInv'
<1>. USE DEF IInv
<1>1. CASE InitTrace
  <2>1. MainInv'
    BY <1>1 DEF MainInv, Boot, Stop, InitTrace, Goto
  <2>2. TraceInv'
    BY <1>1 DEF MainInv, TraceInv, BeforeTrace, AfterSource,
       traceVars, InitTrace, Goto
  <2>3. WatchInv'
    BY <1>1 DEF MainInv, WatchInv, BeforeTrace, BeforeHost, BeforeWatch, AfterWatch,
       watchVars, InitTrace, Goto
  <2>4. HostInv'
    BY <1>1 DEF HostInv, BeforeTrace, BeforeHost, BeforeWatch, BeforeStop, hostVars,
       InitTrace, Goto
  <2>5. QED
    BY <2>1, <2>2, <2>3, <2>4
<1>2. CASE StartTrace
  <2>1. MainInv'
    BY <1>2 DEF MainInv, Boot, Stop, StartTrace, Goto
  <2>2. TraceInv'
    BY <1>2 DEF MainInv, TraceInv, BeforeTrace, AfterSource,
       traceVars, StartTrace, Goto
  <2>3. WatchInv'
    BY <1>2 DEF MainInv, WatchInv, BeforeTrace, BeforeHost, BeforeWatch, AfterWatch,
       watchVars, StartTrace, Goto
  <2>4. HostInv'
    BY <1>2 DEF HostInv, BeforeTrace, BeforeHost, BeforeWatch, BeforeStop, hostVars,
       StartTrace, Goto
  <2>5. QED
    BY <2>1, <2>2, <2>3, <2>4
<1>3. CASE StartHttp
  <2>1. MainInv'
    BY <1>3 DEF MainInv, Boot, Stop, StartHttp, Goto
  <2>2. TraceInv'
    BY <1>3 DEF MainInv, TraceInv, BeforeTrace, AfterSource,
       traceVars, StartHttp, Goto
  <2>3. WatchInv'
    BY <1>3 DEF MainInv, WatchInv, BeforeTrace, BeforeHost, BeforeWatch, AfterWatch,
       watchVars, StartHttp, Goto
  <2>4. HostInv'
    BY <1>3 DEF HostInv, BeforeTrace, BeforeHost, BeforeWatch, BeforeStop, hostVars,
       StartHttp, Goto
  <2>5. QED
    BY <2>1, <2>2, <2>3, <2>4
<1>4. CASE StartPool
  <2>1. MainInv'
    BY <1>4 DEF MainInv, Boot, Stop, StartPool, Goto
  <2>2. TraceInv'
    BY <1>4 DEF MainInv, TraceInv, BeforeTrace, AfterSource,
       traceVars, StartPool, Goto
  <2>3. WatchInv'
    BY <1>4 DEF MainInv, WatchInv, BeforeTrace, BeforeHost, BeforeWatch, AfterWatch,
       watchVars, StartPool, Goto
  <2>4. HostInv'
    BY <1>4 DEF HostInv, BeforeTrace, BeforeHost, BeforeWatch, BeforeStop, hostVars,
       StartPool, Goto
  <2>5. QED
    BY <2>1, <2>2, <2>3, <2>4
<1>5. CASE InitHost
  <2>1. MainInv'
    BY <1>5 DEF MainInv, Boot, Stop, InitHost, Goto
  <2>2. TraceInv'
    BY <1>5 DEF MainInv, TraceInv, BeforeTrace, AfterSource,
       traceVars, InitHost, Goto
  <2>3. WatchInv'
    BY <1>5 DEF MainInv, WatchInv, BeforeTrace, BeforeHost, BeforeWatch, AfterWatch,
       watchVars, InitHost, Goto
  <2>4. HostInv'
    <3>1. Thread = 0
      BY DEF HostInv, Thread
    <3>2. tasks[0] = <<>> /\ Append(tasks[0], "basic") = <<"basic">>
      BY <1>5, Queues DEF HostInv, InitHost, Goto, BeforeHost
    <3>3. tasks' = [tasks EXCEPT ![0] = <<"basic">>]
      BY <1>5, <3>1, <3>2 DEF InitHost, Give
    <3>4. /\ tasks' \in [Worker -> Queue] /\ tasks'[0] = <<"basic">> /\ tasks'[1] = <<>>
          /\ <<"basic">> \notin WithCollect
      BY <3>3 DEF HostInv, Queue, Worker, WithCollect
    <3>5. QED
      BY <1>5, <3>4 DEF HostInv, BeforeTrace, BeforeHost, BeforeWatch, BeforeStop,
         hostVars, InitHost, Goto
  <2>5. QED
    BY <2>1, <2>2, <2>3, <2>4
<1>6. CASE StartHost
  <2>1. MainInv'
    BY <1>6 DEF MainInv, Boot, Stop, StartHost, Goto
  <2>2. TraceInv'
    BY <1>6 DEF MainInv, TraceInv, BeforeTrace, AfterSource,
       traceVars, StartHost, Goto
  <2>3. WatchInv'
    BY <1>6 DEF MainInv, WatchInv, BeforeTrace, BeforeHost, BeforeWatch, AfterWatch,
       watchVars, StartHost, Goto
  <2>4. HostInv'
    BY <1>6 DEF HostInv, BeforeTrace, BeforeHost, BeforeWatch, BeforeStop, hostVars,
       StartHost, Goto, NetworkMetrics, Metric
  <2>5. QED
    BY <2>1, <2>2, <2>3, <2>4
<1>7. CASE StartKubernetes
  <2>1. MainInv'
    BY <1>7 DEF MainInv, Boot, Stop, StartKubernetes, Goto
  <2>2. TraceInv'
    BY <1>7 DEF MainInv, TraceInv, BeforeTrace, AfterSource,
       traceVars, StartKubernetes, Goto
  <2>3. WatchInv'
    BY <1>7 DEF MainInv, WatchInv, BeforeTrace, BeforeHost, BeforeWatch, AfterWatch,
       watchVars, StartKubernetes, Goto, Place, Call
  <2>4. HostInv'
    BY <1>7 DEF HostInv, BeforeTrace, BeforeHost, BeforeWatch, BeforeStop, hostVars,
       StartKubernetes, Goto
  <2>5. QED
    BY <2>1, <2>2, <2>3, <2>4
<1>8. CASE Skip("trace", "init_trace", "http")
  <2>1. MainInv'
    BY <1>8 DEF MainInv, Boot, Stop, Skip, Goto
  <2>2. TraceInv'
    BY <1>8 DEF MainInv, TraceInv, BeforeTrace, AfterSource,
       traceVars, Skip, Goto
  <2>3. WatchInv'
    BY <1>8 DEF MainInv, WatchInv, BeforeTrace, BeforeHost, BeforeWatch, AfterWatch,
       watchVars, Skip, Goto
  <2>4. HostInv'
    BY <1>8 DEF HostInv, BeforeTrace, BeforeHost, BeforeWatch, BeforeStop, hostVars,
       Skip, Goto
  <2>5. QED
    BY <2>1, <2>2, <2>3, <2>4
<1>9. CASE Skip("host", "init_host", "kubernetes")
  <2>1. MainInv'
    BY <1>9 DEF MainInv, Boot, Stop, Skip, Goto
  <2>2. TraceInv'
    BY <1>9 DEF MainInv, TraceInv, BeforeTrace, AfterSource,
       traceVars, Skip, Goto
  <2>3. WatchInv'
    BY <1>9 DEF MainInv, WatchInv, BeforeTrace, BeforeHost, BeforeWatch, AfterWatch,
       watchVars, Skip, Goto
  <2>4. HostInv'
    BY <1>9 DEF HostInv, BeforeTrace, BeforeHost, BeforeWatch, BeforeStop, hostVars,
       Skip, Goto
  <2>5. QED
    BY <2>1, <2>2, <2>3, <2>4
<1>10. CASE Skip("kubernetes", "kubernetes", "loop")
  <2>1. MainInv'
    BY <1>10 DEF MainInv, Boot, Stop, Skip, Goto
  <2>2. TraceInv'
    BY <1>10 DEF MainInv, TraceInv, BeforeTrace, AfterSource,
       traceVars, Skip, Goto
  <2>3. WatchInv'
    BY <1>10 DEF MainInv, WatchInv, BeforeTrace, BeforeHost, BeforeWatch,
       AfterWatch, watchVars, Skip, Goto
  <2>4. HostInv'
    BY <1>10 DEF HostInv, BeforeTrace, BeforeHost, BeforeWatch, BeforeStop,
       hostVars, Skip, Goto
  <2>5. QED
    BY <2>1, <2>2, <2>3, <2>4
<1>11. QED
  BY <1>1, <1>2, <1>3, <1>4, <1>5, <1>6, <1>7, <1>8, <1>9, <1>10 DEF Start

\* The signal, the end of the loop and the timer.
LEMMA LoopStep == ASSUME IInv, Signal \/ Quit \/ TimerFires PROVE IInv'
<1>. USE DEF IInv
<1>1. CASE Signal
  <2>1. MainInv'
    BY <1>1 DEF MainInv, Boot, Stop, Signal
  <2>2. TraceInv'
    BY <1>1 DEF MainInv, TraceInv, BeforeTrace, AfterSource,
       traceVars, Signal
  <2>3. WatchInv'
    BY <1>1 DEF MainInv, WatchInv, BeforeTrace, BeforeHost, BeforeWatch, AfterWatch,
       watchVars, Signal
  <2>4. HostInv'
    BY <1>1 DEF HostInv, BeforeTrace, BeforeHost, BeforeWatch, BeforeStop, hostVars,
       Signal
  <2>5. QED
    BY <2>1, <2>2, <2>3, <2>4
<1>2. CASE Quit
  <2>1. MainInv'
    BY <1>2 DEF MainInv, Boot, Stop, Quit, Goto
  <2>2. TraceInv'
    BY <1>2 DEF MainInv, TraceInv, BeforeTrace, AfterSource,
       traceVars, Quit, Goto
  <2>3. WatchInv'
    BY <1>2 DEF MainInv, WatchInv, BeforeTrace, BeforeHost, BeforeWatch, AfterWatch,
       watchVars, Quit, Goto
  <2>4. HostInv'
    BY <1>2 DEF HostInv, BeforeTrace, BeforeHost, BeforeWatch, BeforeStop, hostVars,
       Quit, Goto
  <2>5. QED
    BY <2>1, <2>2, <2>3, <2>4
<1>3. CASE TimerFires
  <2>1. MainInv'
    BY <1>3 DEF MainInv, Boot, Stop, TimerFires
  <2>2. TraceInv'
    BY <1>3 DEF MainInv, TraceInv, BeforeTrace, AfterSource,
       traceVars, TimerFires
  <2>3. WatchInv'
    BY <1>3 DEF MainInv, WatchInv, BeforeTrace, BeforeHost, BeforeWatch, AfterWatch,
       watchVars, TimerFires
  <2>4. HostInv'
    <3>1. Thread = 0 /\ 0 \in Worker
      BY DEF HostInv, Thread, Worker
    <3>2. tasks[0] \in {<<>>, <<"basic">>} /\ running[0] # "collect"
      BY <1>3, <3>1 DEF HostInv, TimerFires, Queue, WithCollect
    <3>3. CASE tasks[0] = <<>>
      <4>1. tasks' = [tasks EXCEPT ![0] = <<"collect">>]
        BY <1>3, <3>1, <3>3, Queues DEF TimerFires, Give
      <4>2. /\ tasks' \in [Worker -> Queue] /\ tasks'[0] = <<"collect">> /\ tasks'[1] = <<>>
            /\ <<"collect">> \notin WithBasic
        BY <4>1 DEF HostInv, Queue, Worker, WithBasic
      <4>3. QED
        BY <1>3, <3>2, <4>2 DEF HostInv, TimerFires, BeforeTrace, BeforeHost,
           BeforeWatch, BeforeStop
    <3>4. CASE tasks[0] = <<"basic">>
      <4>1. tasks' = [tasks EXCEPT ![0] = <<"basic", "collect">>]
        BY <1>3, <3>1, <3>4, Queues DEF TimerFires, Give
      <4>2. /\ tasks' \in [Worker -> Queue] /\ tasks'[0] = <<"basic", "collect">>
            /\ tasks'[1] = <<>> /\ tasks[0] \in WithBasic
        BY <3>4, <4>1 DEF HostInv, Queue, Worker, WithBasic
      <4>3. QED
        BY <1>3, <3>2, <4>2 DEF HostInv, TimerFires, BeforeTrace, BeforeHost,
           BeforeWatch, BeforeStop
    <3>5. QED
      BY <3>2, <3>3, <3>4
  <2>5. QED
    BY <2>1, <2>2, <2>3, <2>4
<1>4. QED
  BY <1>1, <1>2, <1>3

\* The steps of the main thread that stop the parts.
LEMMA ShutdownStep == ASSUME IInv, Shutdown PROVE IInv'
<1>. USE DEF IInv
<1>1. CASE Disable("flush", "stop_flush", "stop_clear")
  <2>1. MainInv'
    BY <1>1 DEF MainInv, Boot, Stop, Disable, Crash
  <2>2. TraceInv'
    BY <1>1 DEF MainInv, TraceInv, BeforeTrace, AfterSource,
       traceVars, Disable, Crash
  <2>3. WatchInv'
    BY <1>1 DEF MainInv, WatchInv, BeforeTrace, BeforeHost, BeforeWatch, AfterWatch,
       watchVars, Disable, Crash
  <2>4. HostInv'
    BY <1>1 DEF HostInv, BeforeTrace, BeforeHost, BeforeWatch, BeforeStop, hostVars,
       Disable, Crash
  <2>5. QED
    BY <2>1, <2>2, <2>3, <2>4
<1>2. CASE Disable("clear", "stop_clear", "shutdown")
  <2>1. MainInv'
    BY <1>2 DEF MainInv, Boot, Stop, Disable, Crash
  <2>2. TraceInv'
    BY <1>2 DEF MainInv, TraceInv, BeforeTrace, AfterSource,
       traceVars, Disable, Crash
  <2>3. WatchInv'
    BY <1>2 DEF MainInv, WatchInv, BeforeTrace, BeforeHost, BeforeWatch, AfterWatch,
       watchVars, Disable, Crash
  <2>4. HostInv'
    BY <1>2 DEF HostInv, BeforeTrace, BeforeHost, BeforeWatch, BeforeStop, hostVars,
       Disable, Crash
  <2>5. QED
    BY <2>1, <2>2, <2>3, <2>4
<1>3. CASE ShutdownServer
  <2>1. MainInv'
    BY <1>3 DEF MainInv, Boot, Stop, ShutdownServer, Goto
  <2>2. TraceInv'
    BY <1>3 DEF MainInv, TraceInv, BeforeTrace, AfterSource,
       traceVars, ShutdownServer, Goto
  <2>3. WatchInv'
    BY <1>3 DEF MainInv, WatchInv, BeforeTrace, BeforeHost, BeforeWatch, AfterWatch,
       watchVars, ShutdownServer, Goto
  <2>4. HostInv'
    BY <1>3 DEF HostInv, BeforeTrace, BeforeHost, BeforeWatch, BeforeStop, hostVars,
       ShutdownServer, Goto
  <2>5. QED
    BY <2>1, <2>2, <2>3, <2>4
<1>4. CASE JoinSource
  <2>1. MainInv'
    BY <1>4 DEF MainInv, Boot, Stop, JoinSource, Goto
  <2>2. TraceInv'
    BY <1>4 DEF MainInv, TraceInv, BeforeTrace, AfterSource,
       traceVars, JoinSource, Goto
  <2>3. WatchInv'
    BY <1>4 DEF MainInv, WatchInv, BeforeTrace, BeforeHost, BeforeWatch, AfterWatch,
       watchVars, JoinSource, Goto
  <2>4. HostInv'
    BY <1>4 DEF HostInv, BeforeTrace, BeforeHost, BeforeWatch, BeforeStop, hostVars,
       JoinSource, Goto
  <2>5. QED
    BY <2>1, <2>2, <2>3, <2>4
<1>5. CASE AwaitLatch
  <2>1. MainInv'
    BY <1>5 DEF MainInv, Boot, Stop, AwaitLatch, Goto
  <2>2. TraceInv'
    BY <1>5 DEF MainInv, TraceInv, BeforeTrace, AfterSource,
       traceVars, AwaitLatch, Goto
  <2>3. WatchInv'
    BY <1>5 DEF MainInv, WatchInv, BeforeTrace, BeforeHost, BeforeWatch, AfterWatch,
       watchVars, AwaitLatch, Goto
  <2>4. HostInv'
    BY <1>5 DEF HostInv, BeforeTrace, BeforeHost, BeforeWatch, BeforeStop, hostVars,
       AwaitLatch, Goto
  <2>5. QED
    BY <2>1, <2>2, <2>3, <2>4
<1>6. CASE StopHost
  <2>1. MainInv'
    BY <1>6 DEF MainInv, Boot, Stop, StopHost, Goto
  <2>2. TraceInv'
    BY <1>6 DEF MainInv, TraceInv, BeforeTrace, AfterSource,
       traceVars, StopHost, Goto
  <2>3. WatchInv'
    BY <1>6 DEF MainInv, WatchInv, BeforeTrace, BeforeHost, BeforeWatch, AfterWatch,
       watchVars, StopHost, Goto
  <2>4. HostInv'
    BY <1>6 DEF HostInv, BeforeTrace, BeforeHost, BeforeWatch, BeforeStop, hostVars,
       StopHost, Goto, NetworkMetrics, Metric
  <2>5. QED
    BY <2>1, <2>2, <2>3, <2>4
<1>7. CASE Skip("host", "stop_host", "stop_http")
  <2>1. MainInv'
    BY <1>7 DEF MainInv, Boot, Stop, Skip, Goto
  <2>2. TraceInv'
    BY <1>7 DEF MainInv, TraceInv, BeforeTrace, AfterSource,
       traceVars, Skip, Goto
  <2>3. WatchInv'
    BY <1>7 DEF MainInv, WatchInv, BeforeTrace, BeforeHost, BeforeWatch, AfterWatch,
       watchVars, Skip, Goto
  <2>4. HostInv'
    BY <1>7 DEF HostInv, BeforeTrace, BeforeHost, BeforeWatch, BeforeStop, hostVars,
       Skip, Goto
  <2>5. QED
    BY <2>1, <2>2, <2>3, <2>4
<1>8. CASE StopHttp
  <2>1. MainInv'
    BY <1>8 DEF MainInv, Boot, Stop, StopHttp, Goto
  <2>2. TraceInv'
    BY <1>8 DEF MainInv, TraceInv, BeforeTrace, AfterSource,
       traceVars, StopHttp, Goto
  <2>3. WatchInv'
    BY <1>8 DEF MainInv, WatchInv, BeforeTrace, BeforeHost, BeforeWatch, AfterWatch,
       watchVars, StopHttp, Goto
  <2>4. HostInv'
    BY <1>8 DEF HostInv, BeforeTrace, BeforeHost, BeforeWatch, BeforeStop, hostVars,
       StopHttp, Goto
  <2>5. QED
    BY <2>1, <2>2, <2>3, <2>4
<1>9. CASE StopWatcher
  <2>1. MainInv'
    BY <1>9 DEF MainInv, Boot, Stop, StopWatcher, Goto
  <2>2. TraceInv'
    BY <1>9 DEF MainInv, TraceInv, BeforeTrace, AfterSource,
       traceVars, StopWatcher, Goto
  <2>3. WatchInv'
    BY <1>9 DEF MainInv, WatchInv, BeforeTrace, BeforeHost, BeforeWatch, AfterWatch,
       watchVars, StopWatcher, Goto
  <2>4. HostInv'
    BY <1>9 DEF HostInv, BeforeTrace, BeforeHost, BeforeWatch, BeforeStop, hostVars,
       StopWatcher, Goto
  <2>5. QED
    BY <2>1, <2>2, <2>3, <2>4
<1>10. CASE JoinWatcher
  <2>1. MainInv'
    BY <1>10 DEF MainInv, Boot, Stop, JoinWatcher, Goto
  <2>2. TraceInv'
    BY <1>10 DEF MainInv, TraceInv, BeforeTrace, AfterSource,
       traceVars, JoinWatcher, Goto
  <2>3. WatchInv'
    BY <1>10 DEF MainInv, WatchInv, BeforeTrace, BeforeHost, BeforeWatch,
       AfterWatch, watchVars, JoinWatcher, Goto
  <2>4. HostInv'
    BY <1>10 DEF HostInv, BeforeTrace, BeforeHost, BeforeWatch, BeforeStop,
       hostVars, JoinWatcher, Goto
  <2>5. QED
    BY <2>1, <2>2, <2>3, <2>4
<1>11. CASE Skip("kubernetes", "stop_watcher", "cleanup")
  <2>1. MainInv'
    BY <1>11 DEF MainInv, Boot, Stop, Skip, Goto
  <2>2. TraceInv'
    BY <1>11 DEF MainInv, TraceInv, BeforeTrace, AfterSource,
       traceVars, Skip, Goto
  <2>3. WatchInv'
    BY <1>11 DEF MainInv, WatchInv, BeforeTrace, BeforeHost, BeforeWatch,
       AfterWatch, watchVars, Skip, Goto
  <2>4. HostInv'
    BY <1>11 DEF HostInv, BeforeTrace, BeforeHost, BeforeWatch, BeforeStop,
       hostVars, Skip, Goto
  <2>5. QED
    BY <2>1, <2>2, <2>3, <2>4
<1>12. CASE CleanupMetrics
  <2>1. MainInv'
    BY <1>12 DEF MainInv, Boot, Stop, CleanupMetrics, Goto
  <2>2. TraceInv'
    BY <1>12 DEF MainInv, TraceInv, BeforeTrace, AfterSource,
       traceVars, CleanupMetrics, Goto
  <2>3. WatchInv'
    BY <1>12 DEF MainInv, WatchInv, BeforeTrace, BeforeHost, BeforeWatch,
       AfterWatch, watchVars, CleanupMetrics, Goto
  <2>4. HostInv'
    BY <1>12 DEF HostInv, BeforeTrace, BeforeHost, BeforeWatch, BeforeStop,
       hostVars, CleanupMetrics, Goto
  <2>5. QED
    BY <2>1, <2>2, <2>3, <2>4
<1>13. CASE StopPool
  <2>1. MainInv'
    BY <1>13 DEF MainInv, Boot, Stop, StopPool, Goto
  <2>2. TraceInv'
    BY <1>13 DEF MainInv, TraceInv, BeforeTrace, AfterSource,
       traceVars, StopPool, Goto
  <2>3. WatchInv'
    BY <1>13 DEF MainInv, WatchInv, BeforeTrace, BeforeHost, BeforeWatch,
       AfterWatch, watchVars, StopPool, Goto
  <2>4. HostInv'
    BY <1>13 DEF HostInv, BeforeTrace, BeforeHost, BeforeWatch, BeforeStop,
       hostVars, StopPool, Goto
  <2>5. QED
    BY <2>1, <2>2, <2>3, <2>4
<1>14. QED
  BY <1>1, <1>2, <1>3, <1>4, <1>5, <1>6, <1>7, <1>8, <1>9, <1>10, <1>11, <1>12,
     <1>13 DEF Shutdown

\* The source thread changes nothing but what the traces use.
LEMMA SourceStep == ASSUME IInv, SourceThread PROVE IInv'
<1>. USE DEF IInv
<1>1. MakeFlushTimer => TraceInv'
  BY DEF MainInv, TraceInv, BeforeTrace, AfterSource,
     MakeFlushTimer, At
<1>2. MakeClearTimer => TraceInv'
  BY DEF MainInv, TraceInv, BeforeTrace, AfterSource,
     MakeClearTimer, At
<1>3. EnableFlushTimer => TraceInv'
  BY DEF MainInv, TraceInv, BeforeTrace, AfterSource,
     EnableFlushTimer, At
<1>4. EnableClearTimer => TraceInv'
  BY DEF MainInv, TraceInv, BeforeTrace, AfterSource,
     EnableClearTimer, At
<1>5. WaitNothing => TraceInv'
  BY DEF MainInv, TraceInv, BeforeTrace, AfterSource, WaitNothing,
     Crash, traceVars
<1>6. WaitReturns => TraceInv'
  BY DEF MainInv, TraceInv, BeforeTrace, AfterSource, WaitReturns,
     At
<1>7. LatchDown => TraceInv'
  BY DEF MainInv, TraceInv, BeforeTrace, AfterSource, LatchDown, At
<1>8. MainInv' /\ WatchInv' /\ HostInv'
  <2>1. MainInv'
    BY DEF SourceThread, MakeFlushTimer, MakeClearTimer, EnableFlushTimer,
       EnableClearTimer, WaitNothing, WaitReturns, LatchDown, At, Crash, MainInv
  <2>2. UNCHANGED <<enabled, main, watchVars, hostVars>>
    BY DEF SourceThread, MakeFlushTimer, MakeClearTimer, EnableFlushTimer,
       EnableClearTimer, WaitNothing, WaitReturns, LatchDown, At, Crash
  <2>3. QED
    BY <2>1, <2>2 DEF WatchInv, HostInv, watchVars, hostVars
<1>9. QED
  BY <1>1, <1>2, <1>3, <1>4, <1>5, <1>6, <1>7, <1>8 DEF SourceThread

\* The watcher thread changes nothing but its place.
LEMMA WatcherStep == ASSUME IInv, WatcherThread PROVE IInv'
<1>. USE DEF IInv
<1>1. LoopTest => WatchInv'
  BY DEF WatchInv, MainInv, AfterWatch, LoopTest, Place, Call
<1>2. ASSUME NEW call \in Call PROVE WatchTest(call) => WatchInv'
  BY DEF WatchInv, AfterWatch, WatchTest, After, Place, Call
<1>3. ASSUME NEW call \in Call PROVE WatchEnds(call) => WatchInv'
  BY DEF WatchInv, AfterWatch, WatchEnds, After, Place, Call
<1>4. MainInv' /\ TraceInv' /\ HostInv'
  BY DEF WatcherThread, LoopTest, WatchTest, WatchEnds, MainInv, TraceInv,
         HostInv, traceVars, hostVars
<1>5. QED
  BY <1>1, <1>2, <1>3, <1>4 DEF WatcherThread

\* A thread of the pool changes nothing but what the tasks share.
LEMMA PoolStep == ASSUME IInv, NEW w \in Worker, PoolThread(w) PROVE IInv'
<1>. USE DEF IInv
<1>1. w = 0
  BY DEF PoolThread, TakeTask, EndBasic, BasicThrows, EndCollect, HostInv, Worker
<1>2. CASE TakeTask(w)
  <2>1. /\ tasks[0] \in Queue /\ tasks[0] # <<>> /\ running[0] = "none"
        /\ running' = [running EXCEPT ![0] = Head(tasks[0])]
        /\ tasks' = [tasks EXCEPT ![0] = Tail(tasks[0])]
        /\ UNCHANGED <<main, pool, count, timer_, callbacks>>
    BY <1>1, <1>2 DEF TakeTask, HostInv, Worker
  <2>2. main \notin BeforeHost
    BY <2>1 DEF HostInv
  <2>3. ASSUME tasks[0] \in WithBasic PROVE HostInv'
    <3>1. /\ running'[0] = "basic" /\ running'[1] = "none"
          /\ tasks'[0] \in {<<>>, <<"collect">>} /\ tasks'[1] = <<>>
          /\ running' \in [Worker -> Task \union {"none", "thrown"}] /\ tasks' \in [Worker -> Queue]
      BY <2>1, <2>3, Queues DEF HostInv, Worker, Task, Queue
    <3>2. tasks'[0] \in WithCollect => tasks[0] \in WithCollect
      <4>1. tasks[0] = <<"basic">> => tasks'[0] = <<>>
        BY <2>1, Queues DEF HostInv, Worker
      <4>2. QED
        BY <2>3, <3>1, <4>1 DEF WithBasic, WithCollect
    <3>3. tasks'[0] \notin WithBasic
      <4>1. <<>> \notin WithBasic /\ <<"collect">> \notin WithBasic
        BY DEF WithBasic
      <4>2. QED
        BY <3>1, <4>1
    <3>4. running[0] = "none" /\ callbacks["cpu"] = 0
      BY <2>3 DEF HostInv
    <3>5. main \in BeforeWatch => tasks'[0] \notin WithCollect
      BY <3>2 DEF HostInv
    <3>6. tasks'[0] \in WithCollect => timer_ # "enabled"
      BY <3>2 DEF HostInv
    <3>7. /\ running'[0] # "collect" /\ callbacks'["cpu"] = 0
          /\ callbacks' \in [Metric -> 0..4]
          /\ main' \in BeforeStop => callbacks'["network"] <= 2
      BY <2>1, <3>1, <3>4 DEF HostInv
    <3>8. /\ pool' \in {"none", "running", "stopped"} /\ count' = 0
          /\ timer_' \in {"null", "idle", "enabled"}
          /\ main' \notin BeforeHost /\ callbacks'["cpu"] <= 1
      BY <2>1, <2>2, <3>7 DEF HostInv
    <3>9. /\ main' \in BeforeWatch => tasks'[0] \notin WithCollect
          /\ tasks'[0] \in WithCollect => timer_' # "enabled"
      BY <2>1, <3>5, <3>6
    <3>10. QED
      BY ONLY <3>1, <3>3, <3>7, <3>8, <3>9 DEF HostInv
  <2>4. ASSUME tasks[0] = <<"collect">> PROVE HostInv'
    <3>1. /\ running'[0] = "collect" /\ running'[1] = "none" /\ tasks'[0] = <<>> /\ tasks'[1] = <<>>
          /\ running' \in [Worker -> Task \union {"none", "thrown"}] /\ tasks' \in [Worker -> Queue]
      BY <2>1, <2>4, Queues DEF HostInv, Worker, Task, Queue
    <3>2. tasks[0] \in WithCollect /\ <<>> \notin WithCollect /\ <<>> \notin WithBasic
      BY <2>4 DEF WithCollect, WithBasic
    <3>3. QED
      BY <2>1, <2>2, <3>1, <3>2 DEF HostInv
  <2>5. HostInv'
    BY <2>1, <2>3, <2>4 DEF Queue, WithBasic
  <2>6. QED
    BY <1>2, <2>5 DEF TakeTask, MainInv, TraceInv, WatchInv, traceVars, watchVars
<1>3. CASE EndBasic(w)
  <2>1. HostInv'
    BY <1>1, <1>3 DEF EndBasic, HostInv, Worker, Task, Metric
  <2>2. QED
    BY <1>3, <2>1 DEF EndBasic, MainInv, TraceInv, WatchInv, traceVars, watchVars
<1>4. CASE EndCollect(w)
  <2>1. tasks[0] = <<>> /\ <<>> \notin WithCollect
    BY <1>1, <1>4 DEF EndCollect, HostInv, WithCollect
  <2>2. main \notin BeforeHost
    BY <1>1, <1>4 DEF EndCollect, HostInv
  <2>3. HostInv'
    BY <1>1, <1>4, <2>1, <2>2 DEF EndCollect, HostInv, Worker, Task
  <2>4. QED
    BY <1>4, <2>3 DEF EndCollect, MainInv, TraceInv, WatchInv, traceVars, watchVars
<1>5. CASE BasicThrows(w)
  <2>1. HostInv'
    BY <1>1, <1>5 DEF BasicThrows, HostInv, Worker, Task
  <2>2. QED
    <3>1. alive' \in BOOLEAN
      BY <1>5 DEF BasicThrows, MainInv
    <3>2. UNCHANGED <<enabled, main, signal, traceVars, http, watchVars>>
      BY <1>5 DEF BasicThrows
    <3>3. QED
      BY <2>1, <3>1, <3>2 DEF MainInv, TraceInv, WatchInv, traceVars, watchVars
<1>6. QED
  BY <1>2, <1>3, <1>4, <1>5 DEF PoolThread

-----------------------------------------------------------------------------

LEMMA NextInv == ASSUME IInv, [Next]_vars PROVE IInv'
<1>1. CASE Next
  BY <1>1, StartStep, LoopStep, ShutdownStep, SourceStep, WatcherStep, PoolStep DEF Next, Main
<1>2. CASE UNCHANGED vars
  BY <1>2 DEF vars, traceVars, watchVars, hostVars, IInv, MainInv, TraceInv,
              WatchInv, HostInv
<1>3. QED
  BY <1>1, <1>2

LEMMA Inductive == Spec => []IInv
<1>1. QED
  BY InitInv, NextInv, PTL DEF Spec

\* The process ends in a step of the stop that finds a timer not yet made, of the
\* source thread that finds no server, or of the first task; afterwards nothing
\* moves any more.
LEMMA EndingStep == ASSUME IInv, CrashOnlyEarly, [Next]_vars PROVE CrashOnlyEarly'
<1>1. CASE ~alive
  <2>1. UNCHANGED vars
    BY <1>1 DEF Next, Signal, Main, Start, InitTrace, StartTrace, StartHttp, StartPool,
       InitHost, StartHost, StartKubernetes, Skip, Quit, TimerFires, Shutdown, Disable,
       ShutdownServer, JoinSource, AwaitLatch, StopHost, StopHttp, StopWatcher, JoinWatcher,
       CleanupMetrics, StopPool, Goto, SourceThread, MakeFlushTimer, MakeClearTimer,
       EnableFlushTimer, EnableClearTimer, WaitNothing, WaitReturns, LatchDown, At,
       WatcherThread, LoopTest, WatchTest, WatchEnds, PoolThread, TakeTask, EndBasic,
       BasicThrows, EndCollect
  <2>2. QED
    BY <2>1 DEF CrashOnlyEarly, vars, traceVars, hostVars
<1>2. CASE alive
  <2>1. CASE WaitNothing
    BY <2>1 DEF WaitNothing, Crash, traceVars, CrashOnlyEarly
  <2>2. ASSUME \/ Disable("flush", "stop_flush", "stop_clear")
               \/ Disable("clear", "stop_clear", "shutdown"),
               ~alive'
        PROVE  CrashOnlyEarly'
    <3>1. /\ timers["flush"] = "null" \/ timers["clear"] = "null"
          /\ main \in {"stop_flush", "stop_clear"} /\ UNCHANGED source_thread
      BY <1>2, <2>2 DEF Disable, Crash, traceVars
    <3>2. source_thread # "none"
      BY <3>1 DEF IInv, MainInv, TraceInv, BeforeTrace
    <3>3. source_thread \in {"none", "started", "flush_made"}
      BY <3>1 DEF IInv, TraceInv
    <3>4. QED
      BY <3>1, <3>2, <3>3 DEF CrashOnlyEarly
  <2>3. ASSUME NEW w \in Worker, BasicThrows(w), ~alive' PROVE CrashOnlyEarly'
    <3>1. running' = [running EXCEPT ![w] = "thrown"]
      BY <1>2, <2>3 DEF BasicThrows
    <3>2. running'[w] = "thrown"
      BY <3>1 DEF IInv, HostInv
    <3>3. QED
      BY <3>2 DEF CrashOnlyEarly
  <2>4. CASE alive'
    BY <2>4 DEF CrashOnlyEarly
  <2>5. \/ WaitNothing \/ alive'
        \/ Disable("flush", "stop_flush", "stop_clear")
        \/ Disable("clear", "stop_clear", "shutdown")
        \/ \E w \in Worker : BasicThrows(w)
    <3>1. CASE Start \/ Quit \/ Signal \/ TimerFires
      BY <1>2, <3>1 DEF Start, InitTrace, StartTrace, StartHttp, StartPool, InitHost,
         StartHost, StartKubernetes, Skip, Signal, Quit, TimerFires
    <3>2. CASE Shutdown
      BY <1>2, <3>2 DEF Shutdown, ShutdownServer, JoinSource, AwaitLatch, StopHost, Skip,
         StopHttp, StopWatcher, JoinWatcher, CleanupMetrics, StopPool
    <3>3. CASE SourceThread
      BY <1>2, <3>3 DEF SourceThread, MakeFlushTimer, MakeClearTimer, EnableFlushTimer,
         EnableClearTimer, WaitReturns, LatchDown
    <3>4. CASE WatcherThread
      BY <1>2, <3>4 DEF WatcherThread, LoopTest, WatchTest, WatchEnds
    <3>5. CASE \E w \in Worker : PoolThread(w)
      BY <1>2, <3>5 DEF PoolThread, TakeTask, EndBasic, EndCollect
    <3>6. CASE UNCHANGED vars
      BY <1>2, <3>6 DEF vars
    <3>7. QED
      BY <3>1, <3>2, <3>3, <3>4, <3>5, <3>6 DEF Next, Main
  <2>6. QED
    BY <2>1, <2>2, <2>3, <2>4, <2>5
<1>3. QED
  BY <1>1, <1>2

\* No task of the host source runs beside another or shares a collection with it,
\* and the source thread and the watcher thread have ended when run() returns,
\* whatever the configuration and whenever the signal comes.  The theorem says
\* nothing of a task that the pool runs while the agent stops.
THEOREM TasksSafe == Spec => []TaskInv
<1>1. IInv => TaskInv
  BY Typed, OneAtATime DEF TaskInv
<1>2. QED
  BY <1>1, Inductive, PTL

\* Of all that the start and the stop of the parts and the first task of the host
\* source do, only these can end the process: a stop that overtakes the start of
\* the topology timers, the wait for a server that could not listen, and the
\* exception of the walk over the groups.  What spans can end it by is not part
\* of the specification.
THEOREM CrashesKnown == Spec => []CrashOnlyEarly
<1>1. Init => CrashOnlyEarly
  BY DEF Init, CrashOnlyEarly
<1>2. IInv /\ CrashOnlyEarly /\ [Next]_vars => CrashOnlyEarly'
  BY EndingStep
<1>3. QED
  BY <1>1, <1>2, Inductive, PTL DEF Spec
=============================================================================
