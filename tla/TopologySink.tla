---------------------------- MODULE TopologySink ----------------------------
(***************************************************************************)
(* The client that reports the topology to the collector                   *)
(* (App::Sink::Topology::Sink).  Its four methods run the same code on     *)
(* different messages: load running_requests, return if it is over the     *)
(* limit, increment it, start an asynchronous call whose callback          *)
(* decrements it and deletes the call.  Loading and incrementing are two   *)
(* atomic operations, so threads in between overshoot the limit together.  *)
(*                                                                         *)
(* The callers are the gRPC server threads that push traces, one at a time *)
(* under the mutex of the trace pipeline, and the event loop thread that   *)
(* runs the flush timer.                                                   *)
(***************************************************************************)
EXTENDS Naturals, FiniteSets

CONSTANTS
    Thread,       \* the threads that call the sink
    Call,         \* the AsyncUnaryCall objects that can be allocated
    MaxRequests   \* max_concurrent_requests

\* The limit the code enforces.  The test lets a call through at the limit,
\* and every thread between its load and its increment adds one more.
HardLimit == MaxRequests + Cardinality(Thread)

\* The heap never runs out of calls.
ASSUME SinkAssumption ==
    /\ IsFiniteSet(Thread)
    /\ IsFiniteSet(Call)
    /\ MaxRequests \in Nat
    /\ Cardinality(Call) >= HardLimit

VARIABLES
    running,   \* running_requests
    pc,        \* where a thread is in the method it runs
    calls      \* the calls that are started and whose callback has not run

sinkVars == <<running, pc, calls>>

Location == {"idle", "passed", "counted"}

SinkTypeOK ==
    /\ running \in Nat
    /\ pc \in [Thread -> Location]
    /\ calls \subseteq Call

At(l) == {t \in Thread : pc[t] = l}

SinkInit ==
    /\ running = 0
    /\ pc = [t \in Thread |-> "idle"]
    /\ calls = {}

NeverFull == FALSE  \* mutant: no limit

\* running_requests.load() > max_concurrent_requests: the message is dropped.
Full == running > MaxRequests

Drop(t) ==
    /\ pc[t] = "idle"
    /\ Full
    /\ UNCHANGED sinkVars

Pass(t) ==
    /\ pc[t] = "idle"
    /\ ~Full
    /\ pc' = [pc EXCEPT ![t] = "passed"]
    /\ UNCHANGED <<running, calls>>

\* ++running_requests
Count(t) ==
    /\ pc[t] = "passed"
    /\ running' = running + 1
    /\ pc' = [pc EXCEPT ![t] = "counted"]
    /\ UNCHANGED calls

\* new AsyncUnaryCall, Swap of the message into it, StartCall
Start(t) ==
    /\ pc[t] = "counted"
    /\ \E c \in Call \ calls : calls' = calls \union {c}
    /\ pc' = [pc EXCEPT ![t] = "idle"]
    /\ UNCHANGED running

\* Mutant: the callback does not give the slot back.
EndCallUncounted(c) ==
    /\ c \in calls
    /\ calls' = calls \ {c}
    /\ UNCHANGED <<running, pc>>

\* The callback, on an answer, an error or the deadline.
EndCall(c) ==
    /\ c \in calls
    /\ running' = running - 1
    /\ calls' = calls \ {c}
    /\ UNCHANGED pc

SinkNext ==
    \/ \E t \in Thread : Drop(t) \/ Pass(t) \/ Count(t) \/ Start(t)
    \/ \E c \in Call : EndCall(c)

\* A thread inside a method goes on, and the five seconds deadline set on the
\* context of every call ends it; whether a thread calls at all is its choice.
SinkFairness ==
    /\ \A t \in Thread : WF_sinkVars(Count(t)) /\ WF_sinkVars(Start(t))
    /\ \A c \in Call : WF_sinkVars(EndCall(c))

SinkSpec == SinkInit /\ [][SinkNext]_sinkVars

FairSinkSpec == SinkSpec /\ SinkFairness

-----------------------------------------------------------------------------

\* The counter is exact: it counts the calls in flight and those about to be
\* started, so that no callback wraps it below zero and none is forgotten.
CountExact == running = Cardinality(calls) + Cardinality(At("counted"))

\* No more than HardLimit calls are in flight, whatever the interleaving of
\* the loads, the increments and the callbacks.
Limited == running <= HardLimit

\* What the counter promises: it is exact and bounded.
SinkInv == CountExact /\ Limited

Pool == INSTANCE SlotPool
          WITH used <- running, Capacity <- HardLimit, Threshold <- MaxRequests

\* The sink is a pool of HardLimit slots, and slots are always given back.
ImplementsPool == Pool!FairPoolSpec
=============================================================================
