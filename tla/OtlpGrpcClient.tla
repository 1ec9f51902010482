---------------------------- MODULE OtlpGrpcClient ----------------------------
(***************************************************************************)
(* The client that exports traces (App::Common::Opentelemetry::            *)
(* OtlpGrpcClient, called by the trace Sink).  Exports come one at a time, *)
(* under the mutex of the trace pipeline; the thread that stops the agent  *)
(* calls Shutdown, which waits in ForceFlush; the callbacks of the calls   *)
(* run on gRPC threads.  Only the counters are shared atomics: the pointer *)
(* to the data they are in is read and set without a lock.                 *)
(***************************************************************************)
EXTENDS Naturals, FiniteSets

CONSTANTS
    Call,          \* the calls that can be made, for model checking
    MaxRequests    \* max_concurrent_requests

ASSUME ClientAssumption ==
    /\ IsFiniteSet(Call)
    /\ MaxRequests \in Nat \ {0}

VARIABLES
    async_data_,   \* the shared data is allocated
    is_shutdown_,
    start,         \* start_request_counter
    running,       \* running_requests
    finished,      \* finished_request_counter
    exporter,      \* where Export is
    calls,         \* the state of each call
    stopper,       \* where Shutdown is
    request_counter,   \* its snapshot of start
    result,        \* what it returned
    during,        \* history: a call was counted since the snapshot
    awaited        \* history: the calls running at the snapshot

counters == <<start, running, finished>>
flush    == <<stopper, request_counter, result, during, awaited>>
vars     == <<async_data_, is_shutdown_, counters, exporter, calls, flush>>

CallState == {"unused", "started", "returning", "done"}

TypeOK ==
    /\ async_data_ \in BOOLEAN
    /\ is_shutdown_ \in BOOLEAN
    /\ start \in Nat /\ running \in Nat /\ finished \in Nat
    /\ exporter \in {"idle", "checked", "allowed", "counted", "ready"}
    /\ calls \in [Call -> CallState]
    /\ stopper \in {"idle", "flush", "wait", "returned", "destroyed"}
    /\ request_counter \in Nat
    /\ result \in {"none", "no_data", "flushed", "woken"}
    /\ during \in BOOLEAN
    /\ awaited \subseteq Call

Init ==
    /\ async_data_ = FALSE /\ is_shutdown_ = FALSE
    /\ start = 0 /\ running = 0 /\ finished = 0
    /\ exporter = "idle"
    /\ calls = [c \in Call |-> "unused"]
    /\ stopper = "idle" /\ request_counter = 0 /\ result = "none"
    /\ during = FALSE /\ awaited = {}

In(s) == {c \in Call : calls[c] = s}

Unfinished == In("started") \union In("returning")

-----------------------------------------------------------------------------
(* Export.                                                                 *)

\* checkRunStatus: nothing is exported after a shutdown; the shared data is
\* allocated by the first export.
ExportRefused ==
    /\ exporter = "idle" /\ is_shutdown_ /\ stopper # "destroyed"
    /\ UNCHANGED vars

\* Mutant: an export does not look at is_shutdown_.
CheckUnguarded ==
    /\ exporter = "idle" /\ In("unused") # {} /\ stopper # "destroyed"
    /\ async_data_' = TRUE
    /\ exporter' = "checked"
    /\ UNCHANGED <<is_shutdown_, counters, calls, flush>>

Check ==
    /\ exporter = "idle" /\ In("unused") # {} /\ stopper # "destroyed"
    /\ ~is_shutdown_
    /\ async_data_' = TRUE
    /\ exporter' = "checked"
    /\ UNCHANGED <<is_shutdown_, counters, calls, flush>>

\* Mutant: the limit of the topology sink.
AtLimitOver == running > MaxRequests

AtLimit == running >= MaxRequests

ExportFull ==
    /\ exporter = "checked" /\ AtLimit
    /\ exporter' = "idle"
    /\ UNCHANGED <<async_data_, is_shutdown_, counters, calls, flush>>

ExportAllowed ==
    /\ exporter = "checked" /\ ~AtLimit
    /\ exporter' = "allowed"
    /\ UNCHANGED <<async_data_, is_shutdown_, counters, calls, flush>>

CountStart ==
    /\ exporter = "allowed"
    /\ start' = start + 1
    /\ exporter' = "counted"
    /\ during' = TRUE
    /\ UNCHANGED <<async_data_, is_shutdown_, running, finished, calls, stopper,
                   request_counter, result, awaited>>

CountRunning ==
    /\ exporter = "counted"
    /\ running' = running + 1
    /\ exporter' = "ready"
    /\ UNCHANGED <<async_data_, is_shutdown_, start, finished, calls, flush>>

StartCall ==
    /\ exporter = "ready"
    /\ \E c \in In("unused") : calls' = [calls EXCEPT ![c] = "started"]
    /\ exporter' = "idle"
    /\ UNCHANGED <<async_data_, is_shutdown_, counters, flush>>

-----------------------------------------------------------------------------
(* The callback of a call: two counters, one after the other.              *)

CallbackRunning(c) ==
    /\ calls[c] = "started"
    /\ running' = running - 1
    /\ calls' = [calls EXCEPT ![c] = "returning"]
    /\ UNCHANGED <<async_data_, is_shutdown_, start, finished, exporter, flush>>

\* Mutant: the second counter is left alone.
CallbackUncounted(c) ==
    /\ calls[c] = "returning"
    /\ calls' = [calls EXCEPT ![c] = "done"]
    /\ UNCHANGED <<async_data_, is_shutdown_, counters, exporter, flush>>

CallbackFinished(c) ==
    /\ calls[c] = "returning"
    /\ finished' = finished + 1
    /\ calls' = [calls EXCEPT ![c] = "done"]
    /\ UNCHANGED <<async_data_, is_shutdown_, start, running, exporter, flush>>

-----------------------------------------------------------------------------
(* Shutdown and ForceFlush.                                                *)

\* Without shared data Shutdown returns and sets nothing.
ShutdownUnused ==
    /\ stopper = "idle" /\ ~async_data_
    /\ stopper' = "returned" /\ result' = "no_data"
    /\ UNCHANGED <<async_data_, is_shutdown_, counters, exporter, calls,
                   request_counter, during, awaited>>

Shutdown ==
    /\ stopper = "idle" /\ async_data_
    /\ is_shutdown_' = TRUE
    /\ stopper' = "flush"
    /\ UNCHANGED <<async_data_, counters, exporter, calls, request_counter,
                   result, during, awaited>>

\* The snapshot of the calls to wait for.
ForceFlush ==
    /\ stopper = "flush"
    /\ request_counter' = start
    /\ during' = FALSE
    /\ awaited' = Unfinished
    /\ stopper' = "wait"
    /\ UNCHANGED <<async_data_, is_shutdown_, counters, exporter, calls, result>>

\* Mutant: calls that have left running_requests are taken for finished.
FlushDoneEarly == running = 0

FlushDone == request_counter <= finished

ForceFlushDone ==
    /\ stopper = "wait" /\ FlushDone
    /\ stopper' = "returned" /\ result' = "flushed"
    /\ UNCHANGED <<async_data_, is_shutdown_, counters, exporter, calls,
                   request_counter, during, awaited>>

\* wait_for timed out: the loop goes on, for there is no limit to it.
ForceFlushTimeout == stopper = "wait" /\ ~FlushDone /\ UNCHANGED vars

\* wait_for returned without a timeout, as a condition variable may though
\* nothing notifies it: the loop is left, whatever is running.
ForceFlushWoken ==
    /\ stopper = "wait" /\ ~FlushDone
    /\ stopper' = "returned" /\ result' = "woken"
    /\ UNCHANGED <<async_data_, is_shutdown_, counters, exporter, calls,
                   request_counter, during, awaited>>

\* Mutant: the destructor waits for one timeout only.
DestroyOnce ==
    /\ stopper = "returned" /\ exporter = "idle"
    /\ async_data_' = FALSE
    /\ stopper' = "destroyed"
    /\ UNCHANGED <<is_shutdown_, counters, exporter, calls, request_counter,
                   result, during, awaited>>

\* The destructor gives up the shared data and waits until nothing runs, however
\* long; the calls keep the data they count in.  Nobody exports to the client
\* any more, for its sink goes with it.
Destroy ==
    /\ stopper = "returned" /\ exporter = "idle"
    /\ running = 0
    /\ async_data_' = FALSE
    /\ stopper' = "destroyed"
    /\ UNCHANGED <<is_shutdown_, counters, exporter, calls, request_counter,
                   result, during, awaited>>

Export == ExportFull \/ ExportAllowed \/ CountStart \/ CountRunning \/ StartCall

Callback(c) == CallbackRunning(c) \/ CallbackFinished(c)

Flush == Shutdown \/ ShutdownUnused \/ ForceFlush \/ ForceFlushDone \/ Destroy

Next ==
    \/ ExportRefused \/ Check \/ Export
    \/ \E c \in Call : Callback(c)
    \/ Flush \/ ForceFlushTimeout \/ ForceFlushWoken

\* An export that has begun and a stop that has begun go on, and every call
\* ends: its context has a deadline of five seconds.
Fairness ==
    /\ WF_vars(Export)
    /\ \A c \in Call : WF_vars(Callback(c))
    /\ WF_vars(stopper # "idle" /\ Flush)

Spec == Init /\ [][Next]_vars

FairSpec == Spec /\ Fairness

-----------------------------------------------------------------------------
(* Properties.                                                             *)

\* Both counters are exact: every call started is counted running until its
\* callback runs, and finished after that.
CountersExact ==
    /\ running = Cardinality(In("started"))
                 + (IF exporter = "ready" THEN 1 ELSE 0)
    /\ finished = Cardinality(In("done"))
    /\ start = Cardinality(Unfinished) + Cardinality(In("done"))
               + (IF exporter \in {"counted", "ready"} THEN 1 ELSE 0)

\* Never more calls than max_concurrent_requests: nothing can come between the
\* test and the increment of the one thread that exports.
\* (otlp_grpc_client.cc:91: "this is used to limit the number of concurrent
\* requests").
Limited == running <= MaxRequests

\* When the client is gone, each call that it has counted has ended, or its
\* callback runs and is between the counters: it may still finish, with the data
\* that it keeps (otlp_grpc_client.cc:315).
CalledBack ==
    stopper = "destroyed" =>
        In("started") = {} /\ start = finished + Cardinality(In("returning"))

\* What the counters promise: they are exact, the limit holds, and the destructor
\* returns when the callback of every call has begun.
ClientInv == CountersExact /\ Limited /\ CalledBack

\* A flush that was not cut short by a wake has seen as many calls end as had
\* been started before it; and if no export began meanwhile, all of them.
FlushedQuietly ==
    result = "flushed" /\ ~during =>
        Unfinished = {} /\ exporter \notin {"counted", "ready"}

\* Once the flag is set, the export that was under way is the last one.
AtMostOneMore ==
    [][is_shutdown_ => ~(exporter = "idle" /\ exporter' # "idle")]_vars

\* Shutdown returns, without a timeout of its own, and the destructor does.
ShutdownReturns == stopper # "idle" ~> stopper = "destroyed"

\* otlp_grpc_client.cc:235 "Wait for all the sessions to finish": when the loop
\* of ForceFlush has ended by itself, the calls that it found running have
\* ended.  It compares two numbers, and one of a later call counts as well.
AllSessionsFinished == result = "flushed" => awaited \intersect Unfinished = {}

\* otlp_grpc_client.h:85 "Stores if this gRPC client had its Shutdown() method
\* called".
ShutdownStored == stopper = "returned" => is_shutdown_
=============================================================================
