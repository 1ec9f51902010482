------------------------------- MODULE Ingestion -------------------------------
(***************************************************************************)
(* The services of the SkyWalking source and the pipelines behind them.    *)
(* Every stream of segments, stream of logs and call with JVM metrics has  *)
(* a thread of the server.  A stream of segments reads one, pushes it into *)
(* the pipeline of traces, and reads on: under the lock of the pipeline    *)
(* the segment becomes a batch of one event, the conversion makes spans of *)
(* it, the topology analysis (RpcAnalysis.tla) reads them and the sink     *)
(* makes a request of them and frees them.                                 *)
(*                                                                         *)
(* Agents send MaxMessages in all.  IsInitialized is true of every message *)
(* of this protocol, so that no segment is skipped and every collection of *)
(* JVM metrics is.                                                         *)
(***************************************************************************)
EXTENDS TraceConversion

CONSTANTS
    Stream,         \* the calls of agents
    Token,          \* what they authenticate with, or "" for nothing
    Segment,        \* what streams of segments send
    Log,            \* what streams of logs send
    Collection,     \* what calls with JVM metrics send
    None,           \* no stream, or nothing read
    MaxMessages

ASSUME IngestionAssumption ==
    /\ None \notin Stream /\ None \notin Segment \union Log
    /\ MaxMessages \in Nat
    /\ \A m \in Segment :
          /\ m.spans \in Seq(ToSet(m.spans))
          /\ \A i \in DOMAIN m.spans :
                /\ m.spans[i].tags \in Seq(STRING \X STRING)
                /\ m.spans[i].refs \in Seq(ToSet(m.spans[i].refs))
    /\ \A c \in Collection :
          /\ c.samples \in Seq(ToSet(c.samples))
          /\ \A i \in DOMAIN c.samples :
                /\ c.samples[i].memory \in Seq(ToSet(c.samples[i].memory))
                /\ c.samples[i].pools \in Seq(ToSet(c.samples[i].pools))
                /\ c.samples[i].gc \in Seq(ToSet(c.samples[i].gc))

M == INSTANCE MetricConversion

VARIABLES
    kind,       \* what a stream carries
    token,      \* what it came with
    pc,         \* where its thread is
    held,       \* what it has read and not yet pushed on
    request,    \* the member the streams of logs read into
    lock,       \* who holds the mutex of the pipeline of traces
    batch,      \* the events of its batch
    resources,  \* the resources allocated, and their attributes
    made,       \* how many there ever were
    lost,       \* history: those no recordable owns
    requests,   \* history: the requests given to the client
    refused,    \* history: the messages that made none, and why
    read,       \* history: what a stream has sent
    logged,     \* history: the events pushed into the pipeline of logs
    acked,      \* history: the collections that were acknowledged
    stopped,    \* whether the sink has been shut down
    down        \* whether the program has ended

trace == <<batch, resources, made, lost, requests, refused>>
ingestion_vars == <<kind, token, pc, held, request, lock, trace, read, logged, acked, stopped,
                    down>>

\* What the threads of streams of segments do not touch, and the others do not.
fixed == <<kind, token, stopped>>

IngestionInit ==
    /\ kind \in [Stream -> {"segments", "logs", "metrics"}]
    /\ token \in [Stream -> Token \union {""}]
    /\ pc = [s \in Stream |-> "reading"]
    /\ held = [s \in Stream |-> None]
    /\ request = None /\ lock = None
    /\ batch = <<>> /\ resources = <<>> /\ made = 0 /\ lost = {}
    /\ requests = {} /\ refused = {}
    /\ read = [s \in Stream |-> <<>>]
    /\ logged = [s \in Stream |-> 0]
    /\ acked = {} /\ stopped = FALSE /\ down = FALSE

At(s, k, label) == kind[s] = k /\ pc[s] = label /\ ~down
Goto(s, label) == pc' = [pc EXCEPT ![s] = label]

\* The client has sent all, or the server is shut down: Read returns false.
Close(s) ==
    /\ pc[s] = "reading" /\ ~down
    /\ Goto(s, "closed")
    /\ UNCHANGED <<fixed, held, request, lock, trace, read, logged, acked, down>>

-----------------------------------------------------------------------------
(* Streams of segments (TraceServer::collect).                             *)

MayRead(s, m) ==
    /\ FoldFunction(LAMBDA sent, n : Len(sent) + n, 0, read) < MaxMessages
    /\ read' = [read EXCEPT ![s] = Append(@, m)]

\* Read, and the copy that is pushed on.
Read(s, m) ==
    /\ At(s, "segments", "reading")
    /\ MayRead(s, m)
    /\ held' = [held EXCEPT ![s] = m]
    /\ Goto(s, "push")
    /\ UNCHANGED <<fixed, request, lock, trace, logged, acked, down>>

\* Pipeline::push, up to flushBatch: the buffer is full with one event, and is
\* swapped into the batch, whose events of before are destroyed.
Push(s) ==
    /\ At(s, "segments", "push")
    /\ lock = None
    /\ lock' = s
    /\ batch' = <<>>
    /\ Goto(s, "intercept")
    /\ UNCHANGED <<fixed, held, request, resources, made, lost, requests, refused, read, logged,
                   acked, down>>

Message(s) == [stream |-> s, number |-> Len(read[s])]

\* Mutant: the recordable of every span frees the resource they share.
EventsAllFree(s, keptTrace, keptLinks) ==
    LET spans == Spans(held[s], token[s], keptTrace, keptLinks)
    IN  [i \in DOMAIN spans |-> [resource |-> made + 1, frees |-> TRUE, span |-> spans[i]]]

\* The events the conversion makes: the recordable of the first span is to free
\* the resource.
EventsOf(s, keptTrace, keptLinks) ==
    LET spans == Spans(held[s], token[s], keptTrace, keptLinks)
    IN  [i \in DOMAIN spans |-> [resource |-> made + 1, frees |-> i = 1, span |-> spans[i]]]

\* The resources, with a new one of the segment of a stream.
Allocated(s) ==
    [r \in DOMAIN resources \union {made + 1} |->
        IF r = made + 1 THEN Resource(held[s], token[s]) ELSE resources[r]]

\* The conversion of a segment into spans.
Convert(s) ==
    /\ At(s, "segments", "intercept")
    /\ End(held[s]) = "spans"
    /\ made' = made + 1
    /\ resources' = Allocated(s)
    /\ \E keptTrace, keptLinks \in BOOLEAN : batch' = EventsOf(s, keptTrace, keptLinks)
    /\ Goto(s, "consume")
    /\ UNCHANGED <<fixed, held, request, lock, lost, requests, refused, read, logged, acked, down>>

\* The conversion of one without spans or without a trace id, into nothing.
ConvertNothing(s) ==
    /\ At(s, "segments", "intercept")
    /\ End(held[s]) = "nothing"
    /\ batch' = <<>>
    /\ Goto(s, "consume")
    /\ UNCHANGED <<fixed, held, request, lock, resources, made, lost, requests, refused, read,
                   logged, acked, down>>

\* Mutant: the exception leaves the mutex locked.
ThrowLocked(s) ==
    /\ At(s, "segments", "intercept")
    /\ End(held[s]) = "throws"
    /\ refused' = refused \union {[message |-> Message(s), why |-> "throws"]}
    /\ held' = [held EXCEPT ![s] = None]
    /\ Goto(s, "failed")
    /\ UNCHANGED <<fixed, request, lock, batch, resources, made, lost, requests, read, logged,
                   acked, down>>

\* An id that is no number makes the conversion throw.  The guard releases the
\* mutex, the server catches the exception, and the stream fails.  The resource
\* goes with the recordable of the first span, if it got as far.
Throw(s) ==
    /\ At(s, "segments", "intercept")
    /\ End(held[s]) = "throws"
    /\ made' = IF MakesResource(held[s]) THEN made + 1 ELSE made
    /\ IF LosesResource(held[s])
       THEN /\ resources' = Allocated(s)
            /\ lost' = lost \union {made + 1}
       ELSE UNCHANGED <<resources, lost>>
    /\ refused' = refused \union {[message |-> Message(s), why |-> "throws"]}
    /\ lock' = None
    /\ held' = [held EXCEPT ![s] = None]
    /\ Goto(s, "failed")
    /\ UNCHANGED <<fixed, request, batch, requests, read, logged, acked, down>>

\* An id that is too short ends the program.
Terminate(s) ==
    /\ At(s, "segments", "intercept")
    /\ End(held[s]) = "terminates"
    /\ down' = TRUE
    /\ UNCHANGED <<fixed, pc, held, request, lock, trace, read, logged, acked>>

\* What the consumer does when it has the spans and the mutex in the end.
Return(s) ==
    /\ lock' = None
    /\ held' = [held EXCEPT ![s] = None]
    /\ Goto(s, "reading")
    /\ UNCHANGED <<fixed, request, batch, made, lost, read, logged, acked, down>>

\* Sink::Consume without events.
ConsumeNothing(s) ==
    /\ At(s, "segments", "consume")
    /\ batch = <<>>
    /\ refused' = refused \union {[message |-> Message(s), why |-> "nothing"]}
    /\ Return(s)
    /\ UNCHANGED <<resources, requests>>

\* The resources, without those the recordables of the batch free.
Unfreed ==
    LET freed == {batch[i].resource : i \in {j \in DOMAIN batch : batch[j].frees}}
    IN  [r \in (DOMAIN resources) \ freed |-> resources[r]]

\* Mutant: a batch of one event is taken for an empty one.
ConsumeMany(s) ==
    /\ At(s, "segments", "consume")
    /\ batch # <<>>
    /\ resources' = Unfreed
    /\ IF Len(batch) > 1
       THEN requests' = requests \union
               {[message |-> Message(s), segment |-> held[s],
                 groups |-> PopulateRequest(batch, resources)]}
       ELSE UNCHANGED requests
    /\ Return(s)
    /\ UNCHANGED refused

\* Sink::Consume: the request is made, the recordables are destroyed, and the
\* request goes to the client, which drops it once it has been shut down.
Consume(s) ==
    /\ At(s, "segments", "consume")
    /\ batch # <<>>
    /\ resources' = Unfreed
    /\ \/ /\ requests' = requests \union
               {[message |-> Message(s), segment |-> held[s],
                 groups |-> PopulateRequest(batch, resources)]}
          /\ UNCHANGED refused
       \/ /\ stopped
          /\ refused' = refused \union {[message |-> Message(s), why |-> "stopped"]}
          /\ UNCHANGED requests
    /\ Return(s)

-----------------------------------------------------------------------------
(* Streams of logs (LogReportServer::collect) and calls with JVM metrics.  *)

\* A stream without a token is answered at once.
RefuseLogs(s) ==
    /\ At(s, "logs", "reading")
    /\ token[s] = ""
    /\ Goto(s, "closed")
    /\ UNCHANGED <<fixed, held, request, lock, trace, read, logged, acked, down>>

\* Read, into the member that all streams share.
ReadLog(s, m) ==
    /\ At(s, "logs", "reading")
    /\ token[s] # ""
    /\ MayRead(s, m)
    /\ request' = m
    /\ Goto(s, "copy")
    /\ UNCHANGED <<fixed, held, lock, trace, logged, acked, down>>

\* The copy of that member, whichever stream has read into it since; it is
\* moved twice, so that the event has no body.  The processor and the sink of
\* logs do nothing.
PushLog(s) ==
    /\ At(s, "logs", "copy")
    /\ logged' = [logged EXCEPT ![s] = @ + 1]
    /\ Goto(s, "reading")
    /\ UNCHANGED <<fixed, held, request, lock, trace, read, acked, down>>

\* JvmMetricReportServer::collect returns before it pushes.
CollectMetrics(s, c) ==
    /\ At(s, "metrics", "reading")
    /\ MayRead(s, c)
    /\ acked' = acked \union {c}
    /\ Goto(s, "closed")
    /\ UNCHANGED <<fixed, held, request, lock, trace, logged, down>>

\* The stop of the pipeline of traces shuts the client of its sink down.
Stop ==
    /\ ~stopped /\ ~down
    /\ stopped' = TRUE
    /\ UNCHANGED <<kind, token, pc, held, request, lock, trace, read, logged, acked, down>>

Step(s) ==
    \/ Push(s) \/ Convert(s) \/ ConvertNothing(s) \/ Throw(s) \/ Terminate(s)
    \/ ConsumeNothing(s) \/ Consume(s) \/ PushLog(s)

IngestionNext ==
    \/ Stop
    \/ \E s \in Stream :
          \/ Step(s) \/ Close(s) \/ RefuseLogs(s)
          \/ \E m \in Segment : Read(s, m)
          \/ \E m \in Log : ReadLog(s, m)
          \/ \E c \in Collection : CollectMetrics(s, c)

\* Threads of the server run, and the mutex is let go by who holds it.
IngestionFairness == \A s \in Stream : WF_ingestion_vars(Step(s))

IngestionSpec == IngestionInit /\ [][IngestionNext]_ingestion_vars /\ IngestionFairness

-----------------------------------------------------------------------------

InPipeline(s) == pc[s] \in {"intercept", "consume"}

\* The state between the threads: the holder of the mutex is the only stream in
\* the pipeline, and every thread has what it works on.
PipelineInv ==
    /\ \A s \in Stream : InPipeline(s) <=> lock = s
    /\ \A s \in Stream : pc[s] \in {"push", "intercept", "consume"} <=> held[s] # None
    /\ \A s \in Stream : kind[s] = "logs" =>
          Len(read[s]) = logged[s] + (IF pc[s] = "copy" THEN 1 ELSE 0)

\* Every resource that is allocated is that of the batch, freed by the recordable
\* of just one of its spans, or one that an exception left to nobody
\* (skyrecordable.h, processor.cc).
Owners(r) == {i \in DOMAIN batch : batch[i].resource = r /\ batch[i].frees}

ResourcesOwned ==
    /\ PipelineInv
    /\ lost \subseteq DOMAIN resources
    /\ \A r \in (DOMAIN resources) \ lost : Cardinality(Owners(r)) = 1
    /\ (\A s \in Stream : pc[s] # "consume") => DOMAIN resources = lost

\* What goes to the collector under the token of a stream is what that stream
\* has sent, one segment to a request, however streams take turns, and every
\* span and the resource carry that token and no other, but what an agent itself
\* has tagged a span with (trace_server.cc).
Tokens(attributes) == {a.value.value : a \in {b \in attributes : b.key = "token"}}

TagTokens(span) == {span.tags[j][2] : j \in {k \in DOMAIN span.tags : span.tags[k][1] = "token"}}

TokenOfStream ==
    \A r \in requests :
        LET s == r.message.stream
            own == IF token[s] = "" THEN {} ELSE {token[s]}
        IN  /\ r.segment = read[s][r.message.number]
            /\ \A g \in r.groups :
                  /\ Tokens(g.resource) = own
                  /\ \A i \in DOMAIN g.spans :
                        Tokens(ToSet(g.spans[i].attributes)) =
                            own \union TagTokens(r.segment.spans[i])

\* Every segment that was read and is not under way made one request or was
\* refused for what it is or for the stop, and none of both: none is lost by an
\* exception in another stream, and none is sent twice.
Done(s) == {n \in 1..Len(read[s]) : held[s] # None => n # Len(read[s])}

AnsweredOnce ==
    \A s \in {t \in Stream : kind[t] = "segments"} :
        LET sent == {r \in requests : r.message.stream = s}
            not == {r \in refused : r.message.stream = s}
        IN  /\ Cardinality(sent) + Cardinality(not) = Cardinality(Done(s))
            /\ {r.message.number : r \in sent \union not} = Done(s)
            /\ \A r \in not : \/ r.why = "stopped" /\ stopped
                             \/ r.why = End(read[s][r.message.number])

\* The spans of a request are a tree as those of the segment were, also across
\* segments and streams: ids differ, the parent of a span is the id under which
\* the span that called it was or will be sent, and a span that has one
\* reference links to its parent.  That is so of segments with spans numbered
\* as agents do, and an id of a form that has the number of a span in it: under
\* other ids (dashed ones, say) all their spans are span zero.
Numbered(segment) ==
    /\ segment.id.form \in {"digits", "hex", "java"}
    /\ \A i, j \in DOMAIN segment.spans :
            segment.spans[i].number = segment.spans[j].number => i = j
    /\ \A i \in DOMAIN segment.spans :
            \/ IsRoot(segment.spans[i])
            \/ \E j \in DOMAIN segment.spans :
                    segment.spans[j].number = segment.spans[i].parent

SpanTree ==
    \A r \in {q \in requests : Numbered(q.segment)} : \A g \in r.groups :
        LET spans == r.segment.spans
        IN  /\ DOMAIN g.spans = DOMAIN spans
            /\ \A i, j \in DOMAIN spans : g.spans[i].span_id = g.spans[j].span_id => i = j
            /\ \A i \in DOMAIN spans :
                  /\ ~IsRoot(spans[i]) =>
                        \E j \in DOMAIN spans : /\ spans[j].number = spans[i].parent
                                               /\ g.spans[i].parent_id = g.spans[j].span_id
                  /\ IsRoot(spans[i]) /\ Len(spans[i].refs) = 1 =>
                        /\ g.spans[i].links[1].span_id = g.spans[i].parent_id
                        /\ \A q \in requests : \A h \in q.groups : \A j \in DOMAIN h.spans :
                              /\ q.segment.id = spans[i].refs[1].segment
                              /\ q.segment.spans[j].number = spans[i].refs[1].span
                              => h.spans[j].span_id = g.spans[i].parent_id

\* What was sent and what was refused is what was read, once and by its stream,
\* with its spans as they were.
RequestsExact == TokenOfStream /\ AnsweredOnce /\ SpanTree

\* A collection of JVM metrics would be exported with three metrics for each
\* sample, and under each of them the figures of all areas and pools of the
\* memory, none of them mixed up; limits, collections of garbage, cpu, threads
\* and classes are made into metrics and left out (metric processor.cc).
Figures(points) == [v \in {points[i].value : i \in DOMAIN points} |->
                       Cardinality({i \in DOMAIN points : points[i].value = v})]

Exports(request_, name) ==
    FlattenSeq([i \in DOMAIN request_.metrics |->
        IF request_.metrics[i].name = name THEN request_.metrics[i].data.points ELSE <<>>])

Reported(collection, figure) ==
    FlattenSeq([i \in DOMAIN collection.samples |->
        LET parts == collection.samples[i].memory \o collection.samples[i].pools
        IN  [j \in DOMAIN parts |-> [value |-> parts[j][figure]]]])

MetricsFaithful ==
    \A c \in acked :
        LET r == M!MetricsRequest(c)
            names == [used |-> "jvm.memory.used", committed |-> "jvm.memory.committed",
                      init |-> "jvm.memory.init"]
        IN  /\ Len(r.metrics) = 3 * Len(c.samples)
            /\ \A f \in DOMAIN names : Figures(Exports(r, names[f])) = Figures(Reported(c, f))
            /\ \A i \in DOMAIN c.samples : \A m \in M!Made(c.samples[i]) :
                  M!OtlpMetric(m).data.kind =
                      CASE m.points = <<>> -> "none"
                        [] m.points # <<>> /\ m.instrument = "Histogram" -> "histogram"
                        [] OTHER -> "gauge"

\* A stream that has read a segment gets it through the pipeline, whatever the
\* other streams send, unless the program ends: no exception leaves the mutex
\* locked (pipeline.cc push).
StreamsReturn ==
    \A s \in Stream : pc[s] \in {"push", "intercept", "consume"} ~>
                         (pc[s] \in {"reading", "closed", "failed"} \/ down)
=============================================================================
