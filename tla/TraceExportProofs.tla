--------------------------- MODULE TraceExportProofs ---------------------------
(***************************************************************************)
(* The way of a trace out of the agent, for every number of streams,       *)
(* segments, calls and every limit.  First the client (OtlpGrpcClient):    *)
(* its three counters are exact, the limit holds, a flush that no export   *)
(* disturbed returns when nothing is running, and the destructor when the  *)
(* callback of every call has begun.  Then the streams and the pipeline    *)
(* before it (Ingestion): a resource is freed once, and the requests are   *)
(* the segments that were sent, each once and under the token of its       *)
(* stream.  Last the conversion of a collection of JVM metrics             *)
(* (MetricConversion).                                                     *)
(***************************************************************************)
EXTENDS OtlpGrpcClient, Ingestion, SequenceTheorems, FiniteSetTheorems, FunctionTheorems,
        WellFoundedInduction, TLAPS

-----------------------------------------------------------------------------
(* The client.                                                             *)

\* An export that passed the test has a slot that nobody else takes.
Reserved ==
    /\ running <= MaxRequests
    /\ exporter \in {"allowed", "counted"} => running < MaxRequests

\* While nothing is started, the snapshot is still the number of calls.
Snapshot ==
    /\ (stopper = "wait" \/ result = "flushed") /\ ~during => start = request_counter
    /\ result = "flushed" => stopper \in {"returned", "destroyed"} /\ request_counter <= finished

\* When the client is gone nothing is counted running, and nothing will be.
DestroyedQuietly == stopper = "destroyed" => running = 0 /\ exporter = "idle"

IInv == TypeOK /\ CountersExact /\ Reserved /\ Snapshot /\ DestroyedQuietly

-----------------------------------------------------------------------------

\* The calls in a state are finitely many.
LEMMA InFinite ==
    ASSUME NEW s
    PROVE  IsFiniteSet(In(s)) /\ Cardinality(In(s)) \in Nat
<1>1. In(s) \subseteq Call
  BY DEF In
<1>2. IsFiniteSet(In(s))
  BY <1>1, ClientAssumption, FS_Subset
<1>3. QED
  BY <1>2, FS_CardinalityType

\* The unfinished calls are those started and those returning.
LEMMA UnfinishedCount ==
    /\ IsFiniteSet(Unfinished)
    /\ Cardinality(Unfinished) =
          Cardinality(In("started")) + Cardinality(In("returning"))
<1>1. In("started") \intersect In("returning") = {}
  BY DEF In
<1>2. Cardinality(In("started") \intersect In("returning")) = 0
  BY <1>1, FS_EmptySet
<1>3. /\ IsFiniteSet(In("started")) /\ Cardinality(In("started")) \in Nat
      /\ IsFiniteSet(In("returning")) /\ Cardinality(In("returning")) \in Nat
  BY InFinite
<1>4. /\ IsFiniteSet(Unfinished)
      /\ Cardinality(Unfinished) =
            Cardinality(In("started")) + Cardinality(In("returning"))
            - Cardinality(In("started") \intersect In("returning"))
  BY <1>3, FS_Union DEF Unfinished
<1>5. QED
  BY <1>2, <1>3, <1>4

\* The same in the next state.
LEMMA UnfinishedCountNext ==
    Cardinality(Unfinished') =
        Cardinality(In("started")') + Cardinality(In("returning")')
<1>1. In("started")' \intersect In("returning")' = {}
  BY DEF In
<1>2. Cardinality(In("started")' \intersect In("returning")') = 0
  BY <1>1, FS_EmptySet
<1>3. In("started")' \subseteq Call /\ In("returning")' \subseteq Call
  BY DEF In
<1>4. IsFiniteSet(In("started")') /\ IsFiniteSet(In("returning")')
  BY <1>3, ClientAssumption, FS_Subset
<1>5. Cardinality(In("started")') \in Nat /\ Cardinality(In("returning")') \in Nat
  BY <1>4, FS_CardinalityType
<1>6. Unfinished' = In("started")' \union In("returning")'
  BY DEF Unfinished
<1>7. Cardinality(In("started")' \union In("returning")') =
          Cardinality(In("started")') + Cardinality(In("returning")')
          - Cardinality(In("started")' \intersect In("returning")')
  BY <1>4, FS_Union
<1>8. QED
  BY <1>2, <1>5, <1>6, <1>7

\* A call that changes its state leaves one and joins the other.
LEMMA Moves ==
    ASSUME TypeOK, NEW c \in Call, NEW from \in CallState, NEW to \in CallState,
           calls[c] = from, from # to, calls' = [calls EXCEPT ![c] = to]
    PROVE  /\ Cardinality(In(to)') = Cardinality(In(to)) + 1
           /\ Cardinality(In(from)') = Cardinality(In(from)) - 1
           /\ \A s \in CallState \ {from, to} : In(s)' = In(s)
<1> USE DEF TypeOK
<1>1. In(to)' = In(to) \union {c} /\ c \notin In(to)
  BY DEF In
<1>2. In(from)' = In(from) \ {c} /\ c \in In(from)
  BY DEF In
<1>3. Cardinality(In(to)') = Cardinality(In(to)) + 1
  BY <1>1, InFinite, FS_AddElement
<1>4. Cardinality(In(from)') = Cardinality(In(from)) - 1
  <2>1. IsFiniteSet(In(from)) /\ c \in In(from)
    BY <1>2, InFinite
  <2>2. Cardinality(In(from) \ {c}) = Cardinality(In(from)) - 1
    BY ONLY <2>1, FS_RemoveElement
  <2>3. QED
    BY ONLY <1>2, <2>2
<1>5. \A s \in CallState \ {from, to} : In(s)' = In(s)
  BY DEF In
<1>6. QED
  BY ONLY <1>3, <1>4, <1>5, Zenon

\* The counters in terms of the states of the calls.
LEMMA CountersByState ==
    CountersExact <=>
      /\ running = Cardinality(In("started"))
                   + (IF exporter = "ready" THEN 1 ELSE 0)
      /\ finished = Cardinality(In("done"))
      /\ start = Cardinality(In("started")) + Cardinality(In("returning"))
                 + Cardinality(In("done"))
                 + (IF exporter \in {"counted", "ready"} THEN 1 ELSE 0)
BY UnfinishedCount DEF CountersExact

-----------------------------------------------------------------------------

\* Nothing is counted and nothing runs initially.
LEMMA InitIInv == Init => IInv
<1> SUFFICES ASSUME Init PROVE IInv
  OBVIOUS
<1>1. TypeOK
  BY DEF Init, TypeOK, CallState
<1>2. In("started") = {} /\ In("returning") = {} /\ In("done") = {}
  BY DEF Init, In
<1>3. CountersExact
  BY <1>2, FS_EmptySet, CountersByState DEF Init
<1>4. Reserved /\ Snapshot /\ DestroyedQuietly
  BY ClientAssumption DEF Init, Reserved, Snapshot, DestroyedQuietly
<1>5. QED
  BY <1>1, <1>3, <1>4 DEF IInv

\* The steps of Export up to the start of the call, and those of Shutdown,
\* leave the calls alone.
LEMMA CallsKept ==
    ASSUME calls' = calls
    PROVE  \A s : In(s)' = In(s)
BY DEF In

\* Export before the call is started.
LEMMA ExportIInv ==
    ASSUME IInv, Check \/ ExportFull \/ ExportAllowed \/ CountStart \/ CountRunning
    PROVE  IInv'
<1> USE DEF IInv
<1>1. calls' = calls /\ Unfinished' = Unfinished /\ \A s : In(s)' = In(s)
  BY CallsKept DEF Check, ExportFull, ExportAllowed, CountStart, CountRunning,
                   Unfinished
<1>2. CASE Check \/ ExportFull \/ ExportAllowed
  <2>1. UNCHANGED <<start, running, finished, stopper, request_counter, result,
                    during, awaited, is_shutdown_>>
    BY <1>2 DEF Check, ExportFull, ExportAllowed, counters, flush
  <2>2. exporter \in {"idle", "checked"} /\ exporter' \in {"idle", "checked", "allowed"}
    BY <1>2 DEF Check, ExportFull, ExportAllowed
  <2>3. exporter' = "allowed" => ~(running >= MaxRequests)
    BY <1>2 DEF Check, ExportFull, ExportAllowed, AtLimit
  <2>4. TypeOK'
    BY <2>1, <2>2, <1>1, <1>2 DEF TypeOK, Check, ExportFull, ExportAllowed
  <2>5. CountersExact'
    BY <2>1, <2>2, <1>1 DEF CountersExact
  <2>6. Reserved'
    BY <2>1, <2>2, <2>3, ClientAssumption DEF Reserved, TypeOK
  <2>7. Snapshot' /\ DestroyedQuietly'
    BY <2>1, <1>2 DEF Snapshot, DestroyedQuietly, Check, ExportFull, ExportAllowed
  <2>8. QED
    BY <2>4, <2>5, <2>6, <2>7
<1>3. CASE CountStart
  <2>1. /\ exporter = "allowed" /\ exporter' = "counted" /\ start' = start + 1
        /\ during' = TRUE
        /\ UNCHANGED <<async_data_, is_shutdown_, running, finished, stopper,
                       request_counter, result, awaited>>
    BY <1>3 DEF CountStart
  <2>2. TypeOK'
    BY <2>1, <1>1 DEF TypeOK
  <2>3. CountersExact'
    BY <2>1, <1>1, InFinite, UnfinishedCount DEF CountersExact
  <2>4. Reserved' /\ Snapshot' /\ DestroyedQuietly'
    BY <2>1 DEF Reserved, Snapshot, DestroyedQuietly
  <2>5. QED
    BY <2>2, <2>3, <2>4
<1>4. CASE CountRunning
  <2>1. /\ exporter = "counted" /\ exporter' = "ready" /\ running' = running + 1
        /\ UNCHANGED <<async_data_, is_shutdown_, start, finished, stopper,
                       request_counter, result, during, awaited>>
    BY <1>4 DEF CountRunning, flush
  <2>2. TypeOK'
    BY <2>1, <1>1 DEF TypeOK
  <2>3. CountersExact'
    BY <2>1, <1>1, InFinite DEF CountersExact
  <2>4. Reserved' /\ Snapshot' /\ DestroyedQuietly'
    BY <2>1, ClientAssumption DEF Reserved, Snapshot, DestroyedQuietly, TypeOK
  <2>5. QED
    BY <2>2, <2>3, <2>4
<1>5. QED
  BY <1>2, <1>3, <1>4

\* The call takes over what Export counted for it.
LEMMA StartIInv == ASSUME IInv, StartCall PROVE IInv'
<1> USE DEF IInv
<1>1. PICK c \in In("unused") : calls' = [calls EXCEPT ![c] = "started"]
  BY DEF StartCall
<1>2. /\ exporter = "ready" /\ exporter' = "idle"
      /\ UNCHANGED <<async_data_, is_shutdown_, start, running, finished, stopper,
                     request_counter, result, during, awaited>>
  BY DEF StartCall, counters, flush
<1>3. c \in Call /\ calls[c] = "unused"
  BY DEF In
<1>4. TypeOK'
  BY <1>1, <1>2, <1>3 DEF TypeOK, CallState
<1>5. /\ Cardinality(In("started")') = Cardinality(In("started")) + 1
      /\ In("returning")' = In("returning") /\ In("done")' = In("done")
  BY <1>1, <1>3, Moves DEF CallState
<1>6. CountersExact'
  <2>1. Cardinality(Unfinished') = Cardinality(In("started")') + Cardinality(In("returning")')
    BY UnfinishedCountNext
  <2>2. QED
    BY <2>1, <1>2, <1>5, InFinite, CountersByState DEF CountersExact
<1>7. Reserved' /\ Snapshot' /\ DestroyedQuietly'
  BY <1>2 DEF Reserved, Snapshot, DestroyedQuietly
<1>8. QED
  BY <1>4, <1>6, <1>7

\* A callback moves its call from one counter to the other in two steps.
LEMMA CallbackIInv ==
    ASSUME IInv, NEW c \in Call, Callback(c)
    PROVE  IInv'
<1> USE DEF IInv
<1>0. Cardinality(Unfinished') = Cardinality(In("started")') + Cardinality(In("returning")')
  BY UnfinishedCountNext
<1>1. CASE CallbackRunning(c)
  <2>1. /\ calls[c] = "started" /\ calls' = [calls EXCEPT ![c] = "returning"]
        /\ running' = running - 1
        /\ UNCHANGED <<async_data_, is_shutdown_, start, finished, exporter, stopper,
                       request_counter, result, during, awaited>>
    BY <1>1 DEF CallbackRunning, flush
  <2>2. /\ Cardinality(In("started")') = Cardinality(In("started")) - 1
        /\ Cardinality(In("returning")') = Cardinality(In("returning")) + 1
        /\ In("done")' = In("done")
    BY <2>1, Moves DEF CallState
  <2>3. Cardinality(In("started")) >= 1
    <3>1. In("started") # {}
      BY <2>1 DEF In
    <3>2. QED
      BY <3>1, InFinite, FS_EmptySet
  <2>4. CountersExact'
    BY <1>0, <2>1, <2>2, InFinite, CountersByState DEF CountersExact, TypeOK
  <2>5. running >= 1
    BY <2>3, InFinite DEF CountersExact
  <2>6. TypeOK'
    BY <2>1, <2>5 DEF TypeOK, CallState
  <2>7. Reserved' /\ Snapshot' /\ DestroyedQuietly'
    BY <2>1, <2>5, ClientAssumption DEF Reserved, Snapshot, DestroyedQuietly, TypeOK
  <2>8. QED
    BY <2>4, <2>6, <2>7
<1>2. CASE CallbackFinished(c)
  <2>1. /\ calls[c] = "returning" /\ calls' = [calls EXCEPT ![c] = "done"]
        /\ finished' = finished + 1
        /\ UNCHANGED <<async_data_, is_shutdown_, start, running, exporter, stopper,
                       request_counter, result, during, awaited>>
    BY <1>2 DEF CallbackFinished, flush
  <2>2. /\ Cardinality(In("returning")') = Cardinality(In("returning")) - 1
        /\ Cardinality(In("done")') = Cardinality(In("done")) + 1
        /\ In("started")' = In("started")
    BY <2>1, Moves DEF CallState
  <2>3. CountersExact'
    BY <1>0, <2>1, <2>2, InFinite, CountersByState DEF CountersExact, TypeOK
  <2>4. TypeOK'
    BY <2>1 DEF TypeOK, CallState
  <2>5. Reserved' /\ Snapshot' /\ DestroyedQuietly'
    BY <2>1 DEF Reserved, Snapshot, DestroyedQuietly, TypeOK
  <2>6. QED
    BY <2>3, <2>4, <2>5
<1>3. QED
  BY <1>1, <1>2 DEF Callback

\* Shutdown and ForceFlush take the snapshot and compare it.
LEMMA FlushIInv ==
    ASSUME IInv, Flush \/ ForceFlushWoken
    PROVE  IInv'
<1> USE DEF IInv
<1> USE DEF Flush, Shutdown, ShutdownUnused, ForceFlush, ForceFlushDone,
            ForceFlushWoken, Destroy, counters
<1>1. calls' = calls /\ UNCHANGED <<start, running, finished, exporter>>
  OBVIOUS
<1>2. Unfinished' = Unfinished /\ \A s : In(s)' = In(s)
  BY <1>1, CallsKept DEF Unfinished
<1>3. TypeOK'
  BY DEF TypeOK, Unfinished, In
<1>4. CountersExact' /\ Reserved'
  BY <1>1, <1>2 DEF CountersExact, Reserved
<1>5. Snapshot' /\ DestroyedQuietly'
  BY DEF Snapshot, DestroyedQuietly, FlushDone, TypeOK
<1>6. QED
  BY <1>3, <1>4, <1>5

-----------------------------------------------------------------------------

\* Every step keeps the inductive invariant.
LEMMA NextIInv == IInv /\ [Next]_vars => IInv'
<1> SUFFICES ASSUME IInv, [Next]_vars PROVE IInv'
  OBVIOUS
<1>1. CASE UNCHANGED vars
  <2>1. /\ UNCHANGED <<async_data_, is_shutdown_, start, running, finished, exporter, calls>>
        /\ UNCHANGED <<stopper, request_counter, result, during, awaited>>
    BY <1>1 DEF vars, counters, flush
  <2>2. Unfinished' = Unfinished /\ \A s : In(s)' = In(s)
    BY <2>1, CallsKept DEF Unfinished
  <2>3. TypeOK'
    BY <2>1 DEF IInv, TypeOK
  <2>4. CountersExact' /\ Reserved'
    BY <2>1, <2>2 DEF IInv, CountersExact, Reserved
  <2>5. Snapshot' /\ DestroyedQuietly'
    BY <2>1 DEF IInv, Snapshot, DestroyedQuietly
  <2>6. QED
    BY <2>3, <2>4, <2>5 DEF IInv
<1>2. CASE Check \/ Export
  BY <1>2, ExportIInv, StartIInv DEF Export
<1>3. CASE \E c \in Call : Callback(c)
  BY <1>3, CallbackIInv
<1>4. CASE Flush \/ ForceFlushWoken
  BY <1>4, FlushIInv
<1>5. QED
  BY <1>1, <1>2, <1>3, <1>4 DEF Next, ExportRefused, ForceFlushTimeout

\* The inductive invariant holds of every behaviour.
THEOREM Invariance == Spec => []IInv
BY InitIInv, NextIInv, PTL DEF Spec

\* The client's state is well typed; no counter wraps below zero.
THEOREM TypeCorrect == Spec => []TypeOK
BY Invariance, PTL DEF IInv

\* Every call is counted exactly: started, then running, then finished.
THEOREM Exactness == Spec => []CountersExact
BY Invariance, PTL DEF IInv

\* No more than max_concurrent_requests calls run.
THEOREM LimitHolds == Spec => []Limited
<1>1. IInv => Limited
  BY DEF IInv, Reserved, Limited
<1>2. QED
  BY <1>1, Invariance, PTL

\* The counters are exact, the limit holds, and when the client is gone every
\* call has ended or is in its callback (OtlpGrpcClient::~OtlpGrpcClient).
THEOREM ClientCorrect == Spec => []ClientInv
<1>1. IInv => CalledBack
  <2> SUFFICES ASSUME IInv, stopper = "destroyed"
               PROVE  In("started") = {} /\ start = finished + Cardinality(In("returning"))
    BY DEF CalledBack
  <2>1. running = 0 /\ exporter = "idle" /\ CountersExact
    BY DEF IInv, DestroyedQuietly
  <2>2. /\ running = Cardinality(In("started")) /\ finished = Cardinality(In("done"))
        /\ start = Cardinality(In("started")) + Cardinality(In("returning"))
                   + Cardinality(In("done"))
    BY <2>1, CountersByState, InFinite
  <2>3. In("started") = {}
    BY <2>1, <2>2, InFinite, FS_EmptySet
  <2>4. QED
    BY <2>1, <2>2, <2>3, InFinite
<1>2. QED
  BY <1>1, Invariance, Exactness, LimitHolds, PTL DEF ClientInv

\* A flush that no export disturbed returns when nothing is running.
THEOREM QuietFlush == Spec => []FlushedQuietly
<1>1. IInv => FlushedQuietly
  <2> SUFFICES ASSUME IInv, result = "flushed", ~during
               PROVE  Unfinished = {} /\ exporter \notin {"counted", "ready"}
    BY DEF FlushedQuietly
  <2>1. start <= finished
    BY DEF IInv, Snapshot
  <2>2. /\ finished = Cardinality(In("done"))
        /\ start = Cardinality(Unfinished) + Cardinality(In("done"))
                   + (IF exporter \in {"counted", "ready"} THEN 1 ELSE 0)
    BY DEF IInv, CountersExact
  <2>3. Cardinality(Unfinished) \in Nat /\ Cardinality(In("done")) \in Nat
    BY UnfinishedCount, FS_CardinalityType, InFinite
  <2>4. Cardinality(Unfinished) = 0 /\ exporter \notin {"counted", "ready"}
    BY <2>1, <2>2, <2>3
  <2>5. QED
    BY <2>4, UnfinishedCount, FS_EmptySet
<1>2. QED
  BY <1>1, Invariance, PTL

\* After the flag is set no export begins.
THEOREM NoExportAfterShutdown == Spec => AtMostOneMore
<1>1. [Next]_vars => (is_shutdown_ => ~(exporter = "idle" /\ exporter' # "idle"))
  BY DEF Next, Export, ExportRefused, Check, ExportFull, ExportAllowed, CountStart,
         CountRunning, StartCall, Callback, CallbackRunning, CallbackFinished,
         Flush, Shutdown, ShutdownUnused, ForceFlush, ForceFlushDone,
         ForceFlushTimeout, ForceFlushWoken, Destroy, vars
<1>2. QED
  BY <1>1, PTL DEF Spec, AtMostOneMore

-----------------------------------------------------------------------------
(* Streams and pipeline.  What the inductive invariant is made of.         *)

\* What the threads hold, and where they are.
StreamTypes ==
    /\ kind \in [Stream -> {"segments", "logs", "metrics"}]
    /\ pc \in [Stream -> {"reading", "push", "intercept", "consume", "copy", "closed", "failed"}]
    /\ held \in [Stream -> Segment \union {None}]
    /\ read \in [Stream -> Seq(Segment \union Log \union Collection)]
    /\ logged \in [Stream -> Nat] /\ made \in Nat /\ stopped \in BOOLEAN

\* A thread holds the segment read last, and is where its kind of stream leads.
StreamFits ==
    \A s \in Stream :
        /\ held[s] # None => Len(read[s]) # 0 /\ held[s] = read[s][Len(read[s])]
        /\ pc[s] \in {"push", "intercept", "consume", "failed"} => kind[s] = "segments"
        /\ pc[s] = "copy" => kind[s] = "logs"

\* The batch of a stream whose segment is converted: nothing of a segment that is
\* skipped, or the spans with the resource made last.
BatchFits(s) ==
    IF batch = <<>> THEN End(held[s]) = "nothing" /\ DOMAIN resources = lost
    ELSE /\ made \notin lost /\ DOMAIN resources = lost \union {made}
         /\ resources[made] = Resource(held[s], token[s])
         /\ \E keptTrace, keptLinks \in BOOLEAN :
                LET spans == Spans(held[s], token[s], keptTrace, keptLinks)
                IN  batch = [i \in 1..Len(held[s].spans) |->
                                [resource |-> made, frees |-> i = 1, span |-> spans[i]]]

\* The resources that nobody owns, and the one under way.
ResourcesFit ==
    /\ lost \subseteq 1..made
    /\ \A s \in Stream : pc[s] = "consume" => BatchFits(s)
    /\ (\A s \in Stream : pc[s] # "consume") => DOMAIN resources = lost

\* A message a stream has sent and does not hold any more.
Answered(message) ==
    /\ message.stream \in Stream /\ kind[message.stream] = "segments"
    /\ message.number \in Done(message.stream)
    /\ message = [stream |-> message.stream, number |-> message.number]

\* A request is the conversion of the segment it is made of.
RequestFits(r) ==
    LET s == r.message.stream
    IN  /\ Answered(r.message)
        /\ r.segment \in Segment /\ r.segment = read[s][r.message.number]
        /\ \E keptTrace, keptLinks \in BOOLEAN :
              r.groups = {[resource |-> Resource(r.segment, token[s]),
                           spans |-> Spans(r.segment, token[s], keptTrace, keptLinks)]}

RefusalFits(r) ==
    /\ Answered(r.message)
    /\ \/ r.why = "stopped" /\ stopped
       \/ r.why = End(read[r.message.stream][r.message.number])

\* The answers are those of the messages, one of each.
AnswersFit ==
    /\ \A r \in requests : RequestFits(r)
    /\ \A r \in refused : RefusalFits(r)
    /\ \A r, q \in requests : r.message = q.message => r = q
    /\ \A r, q \in refused : r.message = q.message => r = q
    /\ \A r \in requests : \A q \in refused : r.message # q.message
    /\ \A s \in Stream : kind[s] = "segments" =>
          \A n \in Done(s) : \E r \in requests \union refused :
                r.message = [stream |-> s, number |-> n]

\* The inductive invariant of the pipeline and its streams.
IngestionIInv ==
    StreamTypes /\ StreamFits /\ PipelineInv /\ ResourcesFit /\ AnswersFit

-----------------------------------------------------------------------------
(* The conversion.                                                         *)

\* An attribute of a resource.
LEMMA StoredIs ==
    ASSUME NEW key, NEW v
    PROVE  Stored(key, v).key = key /\ Stored(key, v).value.value = v
BY DEF Stored, OwnedValue, Scalar, Integral

\* A string is one of the attributes of a span.
LEMMA AttributeIs ==
    ASSUME NEW key, NEW v
    PROVE  /\ Attribute(key, "string_view", v).key = key
           /\ Attribute(key, "string_view", v).value.value = v
           /\ Attribute(key, "int", v).key = key
BY DEF Attribute, ViewValue, Scalar, Integral

\* No tag is called a token in a resource.
LEMMA NoTagIsToken ==
    ASSUME NEW spans
    PROVE  \A a \in TagsOfResource(spans) : a.key # "token"
<1> SUFFICES ASSUME NEW a \in TagsOfResource(spans) PROVE a.key # "token"
  OBVIOUS
<1> DEFINE tags == Merged(FlattenSeq([i \in DOMAIN spans |-> spans[i].tags]))
<1> HIDE DEF tags
<1>1. PICK t \in DOMAIN tags \intersect DOMAIN otSpanTagsMapping :
         a = Stored(otSpanTagsMapping[t], tags[t])
  BY DEF TagsOfResource, tags
<1>2. t \in {"url", "status_code", "db.type", "db.instance", "mq.broker"}
  BY <1>1 DEF otSpanTagsMapping
<1>3. otSpanTagsMapping[t] # "token"
  BY <1>2 DEF otSpanTagsMapping
<1>4. a.key = otSpanTagsMapping[t]
  BY <1>1, StoredIs
<1>5. QED
  BY <1>3, <1>4

\* A resource has the token of its stream.
LEMMA TokensOfResource ==
    ASSUME NEW segment, NEW t
    PROVE  Tokens(Resource(segment, t)) = IF t = "" THEN {} ELSE {t}
<1> DEFINE names == {Stored("service.name", segment.service),
                     Stored("service.instance.id", segment.instance),
                     Stored("sw8.trace_id", segment.trace.name)}
           own == IF t = "" THEN {} ELSE {Stored("token", t)}
<1>1. Resource(segment, t) = TagsOfResource(segment.spans) \union names \union own
  BY DEF Resource
<1>2. \A a \in TagsOfResource(segment.spans) : a.key # "token"
  BY NoTagIsToken
<1>3. \A a \in names : a.key # "token"
  <2>1. \A key, v : Stored(key, v).key = key
    BY StoredIs
  <2>2. QED
    BY <2>1
<1>4. \A a \in own : a.key = "token" /\ a.value.value = t
  <2>2. Stored("token", t).key = "token" /\ Stored("token", t).value.value = t
    BY StoredIs
  <2>3. \A a \in own : a = Stored("token", t)
    OBVIOUS
  <2> HIDE DEF own
  <2>4. QED
    BY <2>2, <2>3
<1> HIDE DEF names
<1>5. {a \in Resource(segment, t) : a.key = "token"} = own
  <2> HIDE DEF own
  <2>1. QED
    BY <1>1, <1>2, <1>3, <1>4
<1>6. Tokens(Resource(segment, t)) = {a.value.value : a \in own}
  BY <1>5 DEF Tokens
<1>7. QED
  BY <1>4, <1>6

\* The elements of short lists, and of two lists one after the other.
LEMMA ShortLists ==
    /\ \A S : <<>> \in Seq(S) /\ ToSet(<<>>) = {}
    /\ \A a : <<a>> \in Seq({a}) /\ ToSet(<<a>>) = {a}
    /\ \A a, b, c, d : /\ <<a, b, c, d>> \in Seq({a, b, c, d})
                        /\ ToSet(<<a, b, c, d>>) = {a, b, c, d}
<1>1. \A S : <<>> \in Seq(S) /\ ToSet(<<>>) = {}
  BY EmptySeq DEF ToSet
<1>2. ASSUME NEW a PROVE <<a>> \in Seq({a}) /\ ToSet(<<a>>) = {a}
  <2>1. DOMAIN <<a>> = {1} /\ <<a>>[1] = a
    OBVIOUS
  <2>2. QED
    BY <2>1 DEF ToSet
<1>3. ASSUME NEW a, NEW b, NEW c, NEW d
      PROVE  <<a, b, c, d>> \in Seq({a, b, c, d}) /\ ToSet(<<a, b, c, d>>) = {a, b, c, d}
  <2> DEFINE s == <<a, b, c, d>>
  <2>1. DOMAIN s = {1, 2, 3, 4} /\ s[1] = a /\ s[2] = b /\ s[3] = c /\ s[4] = d
    OBVIOUS
  <2>2. s \in Seq({a, b, c, d})
    OBVIOUS
  <2> HIDE DEF s
  <2>3. ToSet(s) = {a, b, c, d}
    BY <2>1 DEF ToSet
  <2>4. QED
    BY <2>2, <2>3 DEF s
<1>4. QED
  BY <1>1, <1>2, <1>3

\* A list after another has the elements of both.
LEMMA ToSetConcat ==
    ASSUME NEW S, NEW s \in Seq(S), NEW t \in Seq(S)
    PROVE  s \o t \in Seq(S) /\ ToSet(s \o t) = ToSet(s) \union ToSet(t)
<1> DEFINE c == s \o t
<1>1. /\ c \in Seq(S) /\ Len(c) = Len(s) + Len(t)
      /\ \A i \in 1..(Len(s) + Len(t)) : c[i] = IF i <= Len(s) THEN s[i] ELSE t[i - Len(s)]
  BY ConcatProperties
<1>2. /\ DOMAIN c = 1..Len(c) /\ DOMAIN s = 1..Len(s) /\ DOMAIN t = 1..Len(t)
      /\ Len(s) \in Nat /\ Len(t) \in Nat
  BY <1>1, LenProperties
<1> HIDE DEF c
<1>3. ASSUME NEW i \in DOMAIN c PROVE c[i] \in ToSet(s) \union ToSet(t)
  <2>1. CASE i <= Len(s)
    <3>1. i \in DOMAIN s /\ c[i] = s[i]
      BY <1>1, <1>2, <2>1
    <3>2. QED
      BY <3>1 DEF ToSet
  <2>2. CASE ~(i <= Len(s))
    <3>1. i - Len(s) \in DOMAIN t /\ c[i] = t[i - Len(s)]
      BY <1>1, <1>2, <2>2
    <3>2. QED
      BY <3>1 DEF ToSet
  <2>3. QED
    BY <2>1, <2>2
<1>4. ASSUME NEW i \in DOMAIN s PROVE s[i] \in ToSet(c)
  <2>1. i \in DOMAIN c /\ c[i] = s[i]
    BY <1>1, <1>2
  <2>2. QED
    BY <2>1 DEF ToSet
<1>5. ASSUME NEW i \in DOMAIN t PROVE t[i] \in ToSet(c)
  <2>1. i + Len(s) \in DOMAIN c /\ c[i + Len(s)] = t[i]
    BY <1>1, <1>2
  <2>2. QED
    BY <2>1 DEF ToSet
<1>6. ToSet(c) \subseteq ToSet(s) \union ToSet(t)
  BY <1>3 DEF ToSet
<1>7. ToSet(s) \subseteq ToSet(c) /\ ToSet(t) \subseteq ToSet(c)
  BY <1>4, <1>5 DEF ToSet
<1>8. QED
  BY <1>1, <1>6, <1>7 DEF c

\* A span has the token of its stream, and those it is tagged with.
LEMMA TokensOfSpan ==
    ASSUME NEW segment, NEW span, span.tags \in Seq(STRING \X STRING), NEW t
    PROVE  Tokens(ToSet(Attributes(segment, span, t))) =
              (IF t = "" THEN {} ELSE {t}) \union TagTokens(span)
<1> DEFINE tag(i) == Attribute(span.tags[i][1], "string_view", span.tags[i][2])
           tagged == [i \in DOMAIN span.tags |-> tag(i)]
           a1 == Attribute("sw8.segment_id", "string_view", segment.id.name)
           a2 == Attribute("sw8.span_id", "int", span.number)
           a3 == Attribute("sw8.parent_span_id", "int", span.parent)
           a4 == Attribute("sw8.layer", "int", span.layer)
           a5 == Attribute("token", "string_view", t)
           own == IF t = "" THEN <<>> ELSE <<a5>>
           A == ToSet(tagged) \union {a1, a2, a3, a4, a5}
           all == Attributes(segment, span, t)
<1>1. all = tagged \o <<a1, a2, a3, a4>> \o own
  BY DEF Attributes
<1>2. /\ a1.key # "token" /\ a2.key # "token" /\ a3.key # "token" /\ a4.key # "token"
      /\ a5.key = "token" /\ a5.value.value = t
      /\ \A i \in DOMAIN span.tags : /\ tag(i).key = span.tags[i][1]
                                     /\ tag(i).value.value = span.tags[i][2]
  <2>1. \A key, v : /\ Attribute(key, "string_view", v).key = key
                    /\ Attribute(key, "string_view", v).value.value = v
    BY AttributeIs
  <2>2. \A key, v : Attribute(key, "int", v).key = key
    BY AttributeIs
  <2>3. QED
    BY <2>1, <2>2
<1> HIDE DEF a1, a2, a3, a4, a5, tag
<1>3. tagged \in Seq(A) /\ ToSet(tagged) = {tag(i) : i \in DOMAIN span.tags}
  <2>1. DOMAIN span.tags = 1..Len(span.tags) /\ Len(span.tags) \in Nat
    BY LenProperties
  <2>2. ToSet(tagged) = {tag(i) : i \in DOMAIN span.tags}
    BY DEF ToSet
  <2>3. \A i \in 1..Len(span.tags) : tag(i) \in A
    BY <2>1, <2>2
  <2>4. tagged = [i \in 1..Len(span.tags) |-> tag(i)]
    BY <2>1
  <2> HIDE DEF A, tagged
  <2>5. tagged \in Seq(A)
    BY <2>1, <2>3, <2>4, IsASeq
  <2>6. QED
    BY <2>2, <2>5 DEF tagged
<1> DEFINE four == <<a1, a2, a3, a4>>
           ownSet == IF t = "" THEN {} ELSE {a5}
<1>4. four \in Seq(A) /\ ToSet(four) = {a1, a2, a3, a4}
  <2>1. four \in Seq({a1, a2, a3, a4}) /\ {a1, a2, a3, a4} \subseteq A
    BY ShortLists
  <2>2. QED
    BY <2>1, ShortLists
<1>5. own \in Seq(A) /\ ToSet(own) = ownSet
  <2>1. CASE t = ""
    <3>1. own = <<>> /\ ownSet = {}
      BY <2>1
    <3>2. QED
      BY <3>1, ShortLists
  <2>2. CASE t # ""
    <3>1. own = <<a5>> /\ ownSet = {a5} /\ {a5} \subseteq A
      BY <2>2
    <3>2. <<a5>> \in Seq({a5}) /\ ToSet(<<a5>>) = {a5}
      BY ShortLists
    <3> HIDE DEF own, ownSet, A
    <3>3. QED
      BY <3>1, <3>2
  <2>3. QED
    BY <2>1, <2>2
<1>6. ToSet(all) = {tag(i) : i \in DOMAIN span.tags} \union {a1, a2, a3, a4} \union ownSet
  <2> DEFINE front == tagged \o four
  <2>1. all = front \o own
    BY <1>1
  <2> HIDE DEF tagged, own, A, four, all, ownSet
  <2>2. front \in Seq(A) /\ ToSet(front) = ToSet(tagged) \union ToSet(four)
    BY <1>3, <1>4, ToSetConcat
  <2> HIDE DEF front
  <2>3. ToSet(all) = ToSet(front) \union ToSet(own)
    BY <1>5, <2>1, <2>2, ToSetConcat
  <2>4. QED
    BY <1>3, <1>4, <1>5, <2>2, <2>3
<1> DEFINE places == {k \in DOMAIN span.tags : span.tags[k][1] = "token"}
<1>7. {b \in ToSet(all) : b.key = "token"} = {tag(i) : i \in places} \union ownSet
  <2>1. \A i \in DOMAIN span.tags : tag(i).key = "token" <=> i \in places
    BY <1>2
  <2>2. \A b \in ownSet : b.key = "token"
    BY <1>2
  <2> HIDE DEF all, ownSet, places
  <2>3. ASSUME NEW b \in ToSet(all), b.key = "token"
        PROVE  b \in {tag(i) : i \in places} \union ownSet
    BY <1>2, <1>6, <2>1, <2>3
  <2>4. \A i \in places : i \in DOMAIN span.tags
    BY DEF places
  <2>5. ASSUME NEW b \in {tag(i) : i \in places} \union ownSet
        PROVE  b \in ToSet(all) /\ b.key = "token"
    BY <1>6, <2>1, <2>2, <2>4, <2>5
  <2>6. QED
    BY <2>3, <2>5
<1>8. /\ \A b \in ownSet : b.value.value = t
      /\ \A i \in places : tag(i).value.value = span.tags[i][2]
  BY <1>2
<1> DEFINE found == {b.value.value : b \in {tag(i) : i \in places} \union ownSet}
           said == {span.tags[i][2] : i \in places}
           token_ == IF t = "" THEN {} ELSE {t}
<1> HIDE DEF places
<1>9. found = said \union token_
  <2>1. ASSUME NEW v \in found PROVE v \in said \union token_
    <3>1. PICK b \in {tag(i) : i \in places} \union ownSet : v = b.value.value
      OBVIOUS
    <3>2. CASE b \in ownSet
      <4>1. v = t /\ t # ""
        BY <1>8, <3>1, <3>2
      <4>2. QED
        BY <4>1
    <3>3. CASE b \in {tag(i) : i \in places}
      <4>1. PICK i \in places : b = tag(i)
        BY <3>3
      <4>2. v = span.tags[i][2]
        BY <1>8, <3>1, <4>1
      <4>3. QED
        BY <4>2
    <3>4. QED
      BY <3>1, <3>2, <3>3
  <2>2. ASSUME NEW v \in said PROVE v \in found
    <3>1. PICK i \in places : v = span.tags[i][2]
      OBVIOUS
    <3>2. v = tag(i).value.value /\ tag(i) \in {tag(k) : k \in places} \union ownSet
      BY <1>8, <3>1
    <3> HIDE DEF ownSet
    <3>3. QED
      BY <3>2
  <2>3. ASSUME NEW v \in token_ PROVE v \in found
    <3>1. a5 \in ownSet /\ v = a5.value.value
      BY <1>2
    <3> HIDE DEF ownSet
    <3>2. QED
      BY <3>1
  <2> HIDE DEF found, said, token_
  <2>4. QED
    BY <2>1, <2>2, <2>3
<1>10. QED
  BY <1>7, <1>9 DEF Tokens, TagTokens, places

\* The spans of a segment, one for each of its own.
LEMMA SpansAre ==
    ASSUME NEW segment, NEW t, NEW keptTrace, NEW keptLinks
    PROVE  LET spans == Spans(segment, t, keptTrace, keptLinks)
           IN  /\ DOMAIN spans = DOMAIN segment.spans
               /\ spans = [i \in DOMAIN segment.spans |-> spans[i]]
               /\ \A i \in DOMAIN segment.spans :
                     /\ spans[i].span_id = SpanId(segment.id, segment.spans[i].number)
                     /\ spans[i].parent_id = ParentId(segment, segment.spans[i])
                     /\ spans[i].attributes = Attributes(segment, segment.spans[i], t)
                     /\ spans[i].links = Links(segment, segment.spans[i],
                                               TraceId(segment.trace, keptTrace), keptLinks)
BY DEF Spans, Recordable

\* A request is one group.
LEMMA GroupOfRequest ==
    ASSUME NEW r, RequestFits(r), NEW g \in r.groups
    PROVE  /\ r.message.stream \in Stream /\ r.message.number \in Done(r.message.stream)
           /\ r.segment \in Segment /\ r.segment = read[r.message.stream][r.message.number]
           /\ g.resource = Resource(r.segment, token[r.message.stream])
           /\ \E keptTrace, keptLinks \in BOOLEAN :
                 g.spans = Spans(r.segment, token[r.message.stream], keptTrace, keptLinks)
<1>1. /\ r.message.stream \in Stream /\ r.message.number \in Done(r.message.stream)
      /\ r.segment \in Segment /\ r.segment = read[r.message.stream][r.message.number]
  BY Zenon DEF RequestFits, Answered
<1>2. PICK keptTrace \in BOOLEAN, keptLinks \in BOOLEAN :
        r.groups = {[resource |-> Resource(r.segment, token[r.message.stream]),
                     spans |-> Spans(r.segment, token[r.message.stream], keptTrace, keptLinks)]}
  BY Zenon DEF RequestFits
<1>3. g = [resource |-> Resource(r.segment, token[r.message.stream]),
           spans |-> Spans(r.segment, token[r.message.stream], keptTrace, keptLinks)]
  BY ONLY <1>2, g \in r.groups, Zenon
<1>4. /\ g.resource = Resource(r.segment, token[r.message.stream])
      /\ g.spans = Spans(r.segment, token[r.message.stream], keptTrace, keptLinks)
  BY ONLY <1>3
<1>5. QED
  BY <1>1, <1>4, Zenon

\* What is sent under the token of a stream is of that stream.
LEMMA TokenOfStreamHolds == AnswersFit => TokenOfStream
<1> SUFFICES ASSUME AnswersFit, NEW r \in requests
             PROVE  LET s == r.message.stream
                        own == IF token[s] = "" THEN {} ELSE {token[s]}
                    IN  /\ r.segment = read[s][r.message.number]
                        /\ \A g \in r.groups :
                              /\ Tokens(g.resource) = own
                              /\ \A i \in DOMAIN g.spans :
                                    Tokens(ToSet(g.spans[i].attributes)) =
                                        own \union TagTokens(r.segment.spans[i])
  BY DEF TokenOfStream
<1> DEFINE s == r.message.stream
           own == IF token[s] = "" THEN {} ELSE {token[s]}
<1>1. RequestFits(r)
  BY DEF AnswersFit
<1>2. ASSUME NEW g \in r.groups
      PROVE  /\ Tokens(g.resource) = own
             /\ \A i \in DOMAIN g.spans :
                   Tokens(ToSet(g.spans[i].attributes)) = own \union TagTokens(r.segment.spans[i])
  <2>1. r.segment \in Segment /\ g.resource = Resource(r.segment, token[s])
    BY <1>1, GroupOfRequest
  <2>2. PICK kT \in BOOLEAN, kL \in BOOLEAN : g.spans = Spans(r.segment, token[s], kT, kL)
    BY <1>1, GroupOfRequest
  <2>3. Tokens(g.resource) = own
    BY <2>1, TokensOfResource
  <2>4. /\ DOMAIN g.spans = DOMAIN r.segment.spans
        /\ \A i \in DOMAIN g.spans :
              g.spans[i].attributes = Attributes(r.segment, r.segment.spans[i], token[s])
    BY <2>2, SpansAre
  <2>5. \A i \in DOMAIN r.segment.spans : r.segment.spans[i].tags \in Seq(STRING \X STRING)
    BY <2>1, IngestionAssumption
  <2>6. \A i \in DOMAIN r.segment.spans :
           Tokens(ToSet(Attributes(r.segment, r.segment.spans[i], token[s]))) =
               own \union TagTokens(r.segment.spans[i])
    BY <2>5, TokensOfSpan
  <2> HIDE DEF own
  <2>7. QED
    BY <2>3, <2>4, <2>6
<1>3. r.segment = read[s][r.message.number]
  BY <1>1 DEF RequestFits
<1>4. QED
  BY <1>2, <1>3

\* Ids of the usual forms tell the spans of a segment apart.
LEMMA SpanIdsDiffer ==
    ASSUME NEW id, id.form \in {"digits", "hex", "java"}, NEW m, NEW n,
           SpanId(id, m) = SpanId(id, n)
    PROVE  m = n
<1>1. SpanId(id, m) = Uuid(id, m) /\ SpanId(id, n) = Uuid(id, n)
  BY DEF SpanId, StringToUUID
<1>2. Uuid(id, m).extra = m /\ Uuid(id, n).extra = n
  BY DEF Uuid
<1>3. QED
  BY <1>1, <1>2

\* The spans of a request are the tree of those of its segment.
LEMMA SpanTreeHolds == AnswersFit => SpanTree
<1> SUFFICES ASSUME AnswersFit, NEW r \in requests, Numbered(r.segment), NEW g \in r.groups
             PROVE  LET spans == r.segment.spans
                    IN  /\ DOMAIN g.spans = DOMAIN spans
                        /\ \A i, j \in DOMAIN spans :
                              g.spans[i].span_id = g.spans[j].span_id => i = j
                        /\ \A i \in DOMAIN spans :
                              /\ ~IsRoot(spans[i]) =>
                                    \E j \in DOMAIN spans :
                                        /\ spans[j].number = spans[i].parent
                                        /\ g.spans[i].parent_id = g.spans[j].span_id
                              /\ IsRoot(spans[i]) /\ Len(spans[i].refs) = 1 =>
                                    /\ g.spans[i].links[1].span_id = g.spans[i].parent_id
                                    /\ \A q \in requests : \A h \in q.groups :
                                       \A j \in DOMAIN h.spans :
                                          /\ q.segment.id = spans[i].refs[1].segment
                                          /\ q.segment.spans[j].number = spans[i].refs[1].span
                                          => h.spans[j].span_id = g.spans[i].parent_id
  BY DEF SpanTree
<1> DEFINE spans == r.segment.spans
<1>1. ASSUME NEW q \in requests, NEW h \in q.groups
      PROVE  /\ DOMAIN h.spans = DOMAIN q.segment.spans
             /\ \A i \in DOMAIN h.spans :
                   /\ h.spans[i].span_id = SpanId(q.segment.id, q.segment.spans[i].number)
                   /\ h.spans[i].parent_id = ParentId(q.segment, q.segment.spans[i])
                   /\ \E id, kept :
                         h.spans[i].links = Links(q.segment, q.segment.spans[i], id, kept)
  <2>1. RequestFits(q)
    BY DEF AnswersFit
  <2>2. PICK kT \in BOOLEAN, kL \in BOOLEAN :
           h.spans = Spans(q.segment, token[q.message.stream], kT, kL)
    BY <2>1, GroupOfRequest
  <2>3. QED
    BY <2>2, SpansAre
<1>2. /\ DOMAIN g.spans = DOMAIN spans
      /\ \A i \in DOMAIN spans :
            /\ g.spans[i].span_id = SpanId(r.segment.id, spans[i].number)
            /\ g.spans[i].parent_id = ParentId(r.segment, spans[i])
            /\ \E id, kept : g.spans[i].links = Links(r.segment, spans[i], id, kept)
  BY <1>1
<1>3. /\ r.segment.id.form \in {"digits", "hex", "java"}
      /\ \A i, j \in DOMAIN spans : spans[i].number = spans[j].number => i = j
      /\ \A i \in DOMAIN spans :
            IsRoot(spans[i]) \/ \E j \in DOMAIN spans : spans[j].number = spans[i].parent
  BY DEF Numbered
<1>4. ASSUME NEW i \in DOMAIN spans, NEW j \in DOMAIN spans,
             g.spans[i].span_id = g.spans[j].span_id
      PROVE  i = j
  <2>1. SpanId(r.segment.id, spans[i].number) = SpanId(r.segment.id, spans[j].number)
    BY <1>2, <1>4
  <2>2. spans[i].number = spans[j].number
    BY <1>3, <2>1, SpanIdsDiffer
  <2>3. QED
    BY <1>3, <2>2
<1>5. ASSUME NEW i \in DOMAIN spans, ~IsRoot(spans[i])
      PROVE  \E j \in DOMAIN spans : /\ spans[j].number = spans[i].parent
                                     /\ g.spans[i].parent_id = g.spans[j].span_id
  <2>1. PICK j \in DOMAIN spans : spans[j].number = spans[i].parent
    BY <1>3, <1>5
  <2>2. ParentId(r.segment, spans[i]) = SpanId(r.segment.id, spans[i].parent)
    <3>1. \A span : ~IsRoot(span) =>
              ParentId(r.segment, span) = SpanId(r.segment.id, span.parent)
      BY DEF ParentId
    <3>2. QED
      BY <1>5, <3>1
  <2>3. g.spans[i].parent_id = g.spans[j].span_id
    BY <1>2, <2>1, <2>2
  <2>4. QED
    BY <2>1, <2>3
<1>6. ASSUME NEW i \in DOMAIN spans, IsRoot(spans[i]), Len(spans[i].refs) = 1
      PROVE  /\ g.spans[i].links[1].span_id = g.spans[i].parent_id
             /\ \A q \in requests : \A h \in q.groups : \A j \in DOMAIN h.spans :
                   /\ q.segment.id = spans[i].refs[1].segment
                   /\ q.segment.spans[j].number = spans[i].refs[1].span
                   => h.spans[j].span_id = g.spans[i].parent_id
  <2> DEFINE ref == spans[i].refs[1]
  <2>1. g.spans[i].parent_id = SpanId(ref.segment, ref.span)
    <3>1. \A span : IsRoot(span) /\ Len(span.refs) = 1 =>
              ParentId(r.segment, span) = SpanId(span.refs[1].segment, span.refs[1].span)
      BY DEF ParentId
    <3>2. QED
      BY <1>2, <1>6, <3>1
  <2>2. PICK id, kept : g.spans[i].links = Links(r.segment, spans[i], id, kept)
    BY <1>2
  <2>3. spans[i].refs # <<>> /\ 1 \in DOMAIN spans[i].refs
    <3>1. RequestFits(r)
      BY DEF AnswersFit
    <3>2. r.segment \in Segment
      BY <3>1, GroupOfRequest
    <3>3. spans[i].refs \in Seq(ToSet(spans[i].refs))
      BY <3>2, IngestionAssumption
    <3>4. DOMAIN spans[i].refs = 1..1
      BY ONLY <1>6, <3>3, LenProperties
    <3>5. 1 \in DOMAIN spans[i].refs
      BY ONLY <3>4
    <3>6. spans[i].refs # <<>>
      <4>1. DOMAIN <<>> = {}
        OBVIOUS
      <4>2. QED
        BY ONLY <3>5, <4>1
    <3>7. QED
      BY ONLY <3>5, <3>6
  <2>4. g.spans[i].links[1].span_id = SpanId(ref.segment, ref.span)
    <3>1. \A segment, span, trace_, kept_ : span.refs # <<>> /\ 1 \in DOMAIN span.refs =>
              Links(segment, span, trace_, kept_)[1].span_id =
                  SpanId(span.refs[1].segment, span.refs[1].span)
      BY DEF Links
    <3>2. QED
      BY <2>2, <2>3, <3>1
  <2>5. ASSUME NEW q \in requests, NEW h \in q.groups, NEW j \in DOMAIN h.spans,
               q.segment.id = ref.segment, q.segment.spans[j].number = ref.span
        PROVE  h.spans[j].span_id = g.spans[i].parent_id
    BY <1>1, <2>1, <2>5
  <2>6. QED
    BY <2>1, <2>4, <2>5
<1>7. QED
  BY <1>2, <1>4, <1>5, <1>6

\* Things told apart by a number are as many as their numbers.
LEMMA Counted ==
    ASSUME NEW S, NEW T, IsFiniteSet(T), NEW f \in [S -> T],
           \A x, y \in S : f[x] = f[y] => x = y, \A n \in T : \E x \in S : f[x] = n
    PROVE  Cardinality(S) = Cardinality(T)
<1>1. f \in Injection(S, T) /\ f \in Surjection(S, T)
  BY Fun_IsInj, Fun_IsSurj
<1>2. QED
  BY <1>1, FS_Injection

\* The messages a stream is done with are finitely many.
LEMMA DoneFinite ==
    ASSUME StreamTypes, NEW s \in Stream
    PROVE  /\ IsFiniteSet(Done(s)) /\ Cardinality(Done(s)) \in Nat
           /\ Len(read[s]) \in Nat
           /\ \A n \in Done(s) : n \in 1..Len(read[s])
<1>1. Len(read[s]) \in Nat
  BY LenProperties DEF StreamTypes
<1>2. Done(s) \subseteq 1..Len(read[s])
  BY DEF Done
<1>3. IsFiniteSet(1..Len(read[s]))
  BY <1>1, FS_Interval
<1>4. IsFiniteSet(Done(s))
  BY <1>2, <1>3, FS_Subset
<1>5. QED
  BY <1>1, <1>2, <1>4, FS_CardinalityType

\* Every message is answered once.
LEMMA AnsweredOnceHolds == StreamTypes /\ AnswersFit => AnsweredOnce
<1> SUFFICES ASSUME StreamTypes, AnswersFit, NEW s \in Stream, kind[s] = "segments"
             PROVE  LET sent == {r \in requests : r.message.stream = s}
                        not == {r \in refused : r.message.stream = s}
                    IN  /\ Cardinality(sent) + Cardinality(not) = Cardinality(Done(s))
                        /\ {r.message.number : r \in sent \union not} = Done(s)
                        /\ \A r \in not : \/ r.why = "stopped" /\ stopped
                                         \/ r.why = End(read[s][r.message.number])
  BY DEF AnsweredOnce
<1> DEFINE sent == {r \in requests : r.message.stream = s}
           not == {r \in refused : r.message.stream = s}
           sentNumbers == {n \in Done(s) : \E r \in sent : r.message.number = n}
           notNumbers == {n \in Done(s) : \E r \in not : r.message.number = n}
<1>1. \A r \in sent \union not : /\ r.message = [stream |-> s, number |-> r.message.number]
                                 /\ r.message.number \in Done(s)
  <2>1. \A r \in sent : Answered(r.message) /\ r.message.stream = s
    BY DEF AnswersFit, RequestFits
  <2>2. \A r \in not : Answered(r.message) /\ r.message.stream = s
    BY DEF AnswersFit, RefusalFits
  <2> HIDE DEF sent, not
  <2>3. QED
    BY <2>1, <2>2 DEF Answered
<1>2. \A n \in Done(s) : \E r \in sent \union not : r.message.number = n
  <2> SUFFICES ASSUME NEW n \in Done(s) PROVE \E r \in sent \union not : r.message.number = n
    OBVIOUS
  <2>1. PICK r \in requests \union refused : r.message = [stream |-> s, number |-> n]
    BY DEF AnswersFit
  <2>2. r.message.stream = s /\ r.message.number = n
    BY <2>1
  <2>3. QED
    BY <2>2
<1>3. IsFiniteSet(Done(s)) /\ IsFiniteSet(sentNumbers) /\ IsFiniteSet(notNumbers)
  <2>1. sentNumbers \subseteq Done(s) /\ notNumbers \subseteq Done(s)
    OBVIOUS
  <2>2. QED
    BY <2>1, DoneFinite, FS_Subset
<1>4. sentNumbers \union notNumbers = Done(s)
  <2> HIDE DEF sent, not
  <2>1. QED
    BY <1>2
<1>5. sentNumbers \intersect notNumbers = {}
  <2> SUFFICES ASSUME NEW n \in sentNumbers, n \in notNumbers PROVE FALSE
    OBVIOUS
  <2>1. PICK r \in sent, q \in not : r.message.number = n /\ q.message.number = n
    OBVIOUS
  <2>2. r.message = q.message
    <3>1. /\ r.message = [stream |-> s, number |-> r.message.number]
          /\ q.message = [stream |-> s, number |-> q.message.number]
      BY <1>1
    <3> HIDE DEF sent, not
    <3>2. QED
      BY <2>1, <3>1
  <2>3. QED
    BY <2>2 DEF AnswersFit
<1>6. Cardinality(sent) = Cardinality(sentNumbers)
  <2> DEFINE f == [r \in sent |-> r.message.number]
  <2>1. f \in [sent -> sentNumbers]
    BY <1>1
  <2>2. \A x, y \in sent : f[x] = f[y] => x = y
    <3> SUFFICES ASSUME NEW x \in sent, NEW y \in sent, x.message.number = y.message.number
                 PROVE  x = y
      OBVIOUS
    <3>1. x.message = y.message
      BY <1>1
    <3>2. QED
      BY <3>1 DEF AnswersFit
  <2>3. \A n \in sentNumbers : \E x \in sent : f[x] = n
    OBVIOUS
  <2> HIDE DEF f, sent, sentNumbers
  <2>4. QED
    BY <1>3, <2>1, <2>2, <2>3, Counted
<1>7. Cardinality(not) = Cardinality(notNumbers)
  <2> DEFINE f == [r \in not |-> r.message.number]
  <2>1. f \in [not -> notNumbers]
    BY <1>1
  <2>2. \A x, y \in not : f[x] = f[y] => x = y
    <3> SUFFICES ASSUME NEW x \in not, NEW y \in not, x.message.number = y.message.number
                 PROVE  x = y
      OBVIOUS
    <3>1. x.message = y.message
      BY <1>1
    <3>2. QED
      BY <3>1 DEF AnswersFit
  <2>3. \A n \in notNumbers : \E x \in not : f[x] = n
    OBVIOUS
  <2> HIDE DEF f, not, notNumbers
  <2>4. QED
    BY <1>3, <2>1, <2>2, <2>3, Counted
<1>8. Cardinality(sentNumbers) + Cardinality(notNumbers) = Cardinality(Done(s))
  <2> HIDE DEF sentNumbers, notNumbers
  <2>1. Cardinality(sentNumbers \intersect notNumbers) = 0
    BY <1>5, FS_EmptySet
  <2>2. Cardinality(sentNumbers) \in Nat /\ Cardinality(notNumbers) \in Nat
    BY <1>3, FS_CardinalityType
  <2>3. Cardinality(sentNumbers \union notNumbers) =
           Cardinality(sentNumbers) + Cardinality(notNumbers)
           - Cardinality(sentNumbers \intersect notNumbers)
    BY <1>3, FS_Union
  <2>4. Cardinality(sentNumbers \union notNumbers) = Cardinality(Done(s))
    BY <1>4
  <2>5. QED
    BY <2>1, <2>2, <2>3, <2>4
<1>9. {r.message.number : r \in sent \union not} = Done(s)
  <2> HIDE DEF sent, not
  <2>1. QED
    BY <1>1, <1>2
<1>10. \A r \in not : \/ r.why = "stopped" /\ stopped
                      \/ r.why = End(read[s][r.message.number])
  BY DEF AnswersFit, RefusalFits
<1>11. QED
  BY <1>6, <1>7, <1>8, <1>9, <1>10

\* The first recordable of a batch is the one that owns its resource.
LEMMA OwnersOf ==
    ASSUME NEW n \in Nat \ {0}, NEW r, NEW spans,
           batch = [i \in 1..n |-> [resource |-> r, frees |-> i = 1, span |-> spans[i]]]
    PROVE  Owners(r) = {1}
<1>1. DOMAIN batch = 1..n /\ 1 \in 1..n
  OBVIOUS
<1>2. \A i \in 1..n : batch[i].resource = r /\ (batch[i].frees <=> i = 1)
  OBVIOUS
<1>3. QED
  BY <1>1, <1>2 DEF Owners

\* A segment has a number of spans.
LEMMA SpansOfSegment ==
    ASSUME NEW segment \in Segment
    PROVE  /\ DOMAIN segment.spans = 1..Len(segment.spans)
           /\ Len(segment.spans) \in Nat
           /\ segment.spans # <<>> => Len(segment.spans) # 0
<1>1. segment.spans \in Seq(ToSet(segment.spans))
  BY IngestionAssumption
<1>2. QED
  BY <1>1, LenProperties, EmptySeq

\* Every resource is freed once.
LEMMA ResourcesOwnedHolds == IngestionIInv => ResourcesOwned
<1> SUFFICES ASSUME IngestionIInv PROVE ResourcesOwned
  OBVIOUS
<1>1. CASE \A s \in Stream : pc[s] # "consume"
  <2>1. DOMAIN resources = lost
    BY <1>1 DEF IngestionIInv, ResourcesFit
  <2>2. QED
    BY <2>1 DEF IngestionIInv, ResourcesOwned
<1>2. CASE \E s \in Stream : pc[s] = "consume"
  <2>1. PICK s \in Stream : pc[s] = "consume"
    BY <1>2
  <2>2. BatchFits(s)
    BY <2>1 DEF IngestionIInv, ResourcesFit
  <2>3. CASE batch = <<>>
    BY <1>2, <2>2, <2>3 DEF BatchFits, IngestionIInv, ResourcesOwned
  <2>4. CASE batch # <<>>
    <3>1. made \notin lost /\ DOMAIN resources = lost \union {made}
      BY <2>2, <2>4 DEF BatchFits
    <3>2. PICK kT \in BOOLEAN, kL \in BOOLEAN :
             batch = [i \in 1..Len(held[s].spans) |->
                         [resource |-> made, frees |-> i = 1,
                          span |-> Spans(held[s], token[s], kT, kL)[i]]]
      BY <2>2, <2>4 DEF BatchFits
    <3>3. held[s] \in Segment
      BY <2>1 DEF IngestionIInv, StreamTypes, PipelineInv
    <3>4. Len(held[s].spans) \in Nat \ {0}
      <4>1. Len(held[s].spans) \in Nat
        BY <3>3, SpansOfSegment
      <4>2. Len(held[s].spans) # 0
        BY <2>4, <3>2, EmptySeq
      <4>3. QED
        BY <4>1, <4>2
    <3>5. Owners(made) = {1}
      BY <3>2, <3>4, OwnersOf
    <3>6. Cardinality(Owners(made)) = 1
      BY <3>5, FS_Singleton
    <3>7. QED
      BY <1>2, <3>1, <3>6 DEF IngestionIInv, ResourcesOwned
  <2>5. QED
    BY <2>3, <2>4
<1>3. QED
  BY <1>1, <1>2

-----------------------------------------------------------------------------
(* The inductive invariant.                                                *)

\* At first nothing is read, held or answered.
LEMMA InitIngestionIInv == IngestionInit => IngestionIInv
<1> SUFFICES ASSUME IngestionInit PROVE IngestionIInv
  OBVIOUS
<1>1. StreamTypes
  <2>1. <<>> \in Seq(Segment \union Log \union Collection)
    BY EmptySeq
  <2>2. QED
    BY <2>1 DEF IngestionInit, StreamTypes
<1>2. \A s \in Stream : read[s] = <<>> /\ Len(read[s]) = 0 /\ held[s] = None /\ pc[s] = "reading"
  <2>1. Len(<<>>) = 0
    BY EmptySeq
  <2>2. QED
    BY <2>1 DEF IngestionInit
<1>3. StreamFits
  BY <1>2 DEF StreamFits
<1>4. PipelineInv
  <2>1. \A s \in Stream : ~InPipeline(s) /\ lock # s
    BY <1>2, IngestionAssumption DEF IngestionInit, InPipeline
  <2>2. \A s \in Stream : logged[s] = 0
    BY DEF IngestionInit
  <2>3. QED
    BY <1>2, <2>1, <2>2 DEF PipelineInv
<1>5. ResourcesFit
  <2>1. DOMAIN <<>> = {}
    OBVIOUS
  <2>2. QED
    BY <1>2, <2>1 DEF IngestionInit, ResourcesFit
<1>6. \A s \in Stream : Done(s) = {}
  BY <1>2 DEF Done
<1>7. AnswersFit
  BY <1>6 DEF IngestionInit, AnswersFit
<1>8. QED
  BY <1>1, <1>3, <1>4, <1>5, <1>7 DEF IngestionIInv

\* Answers stay what they are while no message is answered.
LEMMA AnswersStay ==
    ASSUME AnswersFit, UNCHANGED <<kind, token, requests, refused>>, stopped => stopped',
           \A s \in Stream : kind[s] = "segments" =>
              Done(s)' = Done(s) /\ \A n \in Done(s) : read'[s][n] = read[s][n]
    PROVE  AnswersFit'
<1>1. ASSUME NEW message, Answered(message)
      PROVE  /\ Answered(message)'
             /\ read'[message.stream][message.number] = read[message.stream][message.number]
  BY <1>1 DEF Answered
<1>2. ASSUME NEW r \in requests PROVE RequestFits(r)'
  <2>1. RequestFits(r)
    BY DEF AnswersFit
  <2>2. QED
    BY <1>1, <2>1 DEF RequestFits
<1>3. ASSUME NEW r \in refused PROVE RefusalFits(r)'
  <2>1. RefusalFits(r)
    BY DEF AnswersFit
  <2>2. QED
    BY <1>1, <2>1 DEF RefusalFits
<1>4. \A s \in Stream : kind'[s] = "segments" =>
         \A n \in Done(s)' : \E r \in requests \union refused :
            r.message = [stream |-> s, number |-> n]
  BY DEF AnswersFit
<1>5. QED
  BY <1>2, <1>3, <1>4 DEF AnswersFit

\* What is answered next.
LEMMA DoneAdded ==
    ASSUME StreamTypes, NEW s \in Stream, held[s] # None, Len(read[s]) # 0,
           held' = [held EXCEPT ![s] = None], read' = read
    PROVE  /\ Done(s)' = Done(s) \union {Len(read[s])} /\ Len(read[s]) \notin Done(s)
           /\ \A q \in Stream : q # s => Done(q)' = Done(q)
<1>1. Len(read[s]) \in Nat
  BY DoneFinite
<1>2. held'[s] = None /\ \A q \in Stream : q # s => held'[q] = held[q]
  BY DEF StreamTypes
<1>3. Done(s) = 1..Len(read[s]) \ {Len(read[s])}
  BY <1>1 DEF Done
<1>4. Done(s)' = 1..Len(read[s])
  BY <1>2 DEF Done
<1>5. Len(read[s]) \in 1..Len(read[s])
  BY <1>1
<1>6. Done(s)' = Done(s) \union {Len(read[s])} /\ Len(read[s]) \notin Done(s)
  BY <1>3, <1>4, <1>5
<1>7. \A q \in Stream : q # s => Done(q)' = Done(q)
  BY <1>2 DEF Done
<1>8. QED
  BY <1>6, <1>7

\* Answers stay what they are when another message is answered.
LEMMA EarlierAnswers ==
    ASSUME AnswersFit, NEW s \in Stream, UNCHANGED <<kind, token, read, stopped>>,
           Done(s)' = Done(s) \union {Len(read[s])}, Len(read[s]) \notin Done(s),
           \A q \in Stream : q # s => Done(q)' = Done(q)
    PROVE  /\ \A r \in requests : RequestFits(r)' /\ r.message # Message(s)
           /\ \A r \in refused : RefusalFits(r)' /\ r.message # Message(s)
<1>1. ASSUME NEW message, Answered(message)
      PROVE  Answered(message)' /\ message # Message(s)
  <2>1. \A q \in Stream : \A n \in Done(q) : n \in Done(q)'
    OBVIOUS
  <2>2. Answered(message)'
    BY <1>1, <2>1 DEF Answered
  <2>3. message # Message(s)
    <3>1. Message(s).stream = s /\ Message(s).number = Len(read[s])
      BY DEF Message
    <3>2. message.number \in Done(message.stream)
      BY <1>1 DEF Answered
    <3>3. QED
      BY <3>1, <3>2
  <2>4. QED
    BY <2>2, <2>3
<1>2. ASSUME NEW r \in requests PROVE RequestFits(r)' /\ r.message # Message(s)
  <2>1. RequestFits(r)
    BY DEF AnswersFit
  <2>2. QED
    BY <1>1, <2>1 DEF RequestFits
<1>3. ASSUME NEW r \in refused PROVE RefusalFits(r)' /\ r.message # Message(s)
  <2>1. RefusalFits(r)
    BY DEF AnswersFit
  <2>2. QED
    BY <1>1, <2>1 DEF RefusalFits
<1>4. QED
  BY <1>2, <1>3

\* The message a stream holds is answered next.
LEMMA NextAnswered ==
    ASSUME StreamTypes, NEW s \in Stream, kind[s] = "segments",
           UNCHANGED <<kind, read>>, Done(s)' = Done(s) \union {Len(read[s])}
    PROVE  /\ Answered(Message(s))'
           /\ Message(s)' = Message(s) /\ Message(s).stream = s
           /\ Message(s).number = Len(read[s])
<1>1. /\ Message(s).stream = s /\ Message(s).number = Len(read[s])
      /\ Message(s) = [stream |-> s, number |-> Len(read[s])]
      /\ Message(s)' = Message(s)
  BY DEF Message
<1>2. QED
  BY <1>1 DEF Answered

\* A request answers the message that a stream holds.
LEMMA RequestAdded ==
    ASSUME StreamTypes, StreamFits, AnswersFit, NEW s \in Stream, kind[s] = "segments",
           held[s] # None, held' = [held EXCEPT ![s] = None],
           UNCHANGED <<kind, token, read, stopped, refused>>,
           NEW keptTrace \in BOOLEAN, NEW keptLinks \in BOOLEAN,
           requests' = requests \union
              {[message |-> Message(s), segment |-> held[s],
                groups |-> {[resource |-> Resource(held[s], token[s]),
                             spans |-> Spans(held[s], token[s], keptTrace, keptLinks)]}]}
    PROVE  AnswersFit'
<1>1. Len(read[s]) # 0 /\ held[s] = read[s][Len(read[s])] /\ held[s] \in Segment
  BY DEF StreamFits, StreamTypes
<1>2. /\ Done(s)' = Done(s) \union {Len(read[s])} /\ Len(read[s]) \notin Done(s)
      /\ \A q \in Stream : q # s => Done(q)' = Done(q)
  BY <1>1, DoneAdded
<1>3. /\ \A r \in requests : RequestFits(r)' /\ r.message # Message(s)
      /\ \A r \in refused : RefusalFits(r)' /\ r.message # Message(s)
  BY <1>2, EarlierAnswers
<1>4. /\ Answered(Message(s))' /\ Message(s)' = Message(s)
      /\ Message(s).stream = s /\ Message(s).number = Len(read[s])
  BY <1>2, NextAnswered
<1>5. PICK new : /\ new.message = Message(s) /\ new.segment = held[s]
                 /\ new.groups = {[resource |-> Resource(held[s], token[s]),
                                   spans |-> Spans(held[s], token[s], keptTrace, keptLinks)]}
                 /\ requests' = requests \union {new}
  <2> DEFINE added == [message |-> Message(s), segment |-> held[s],
                       groups |-> {[resource |-> Resource(held[s], token[s]),
                                    spans |-> Spans(held[s], token[s], keptTrace, keptLinks)]}]
  <2>1. /\ added.message = Message(s) /\ added.segment = held[s]
        /\ added.groups = {[resource |-> Resource(held[s], token[s]),
                            spans |-> Spans(held[s], token[s], keptTrace, keptLinks)]}
        /\ requests' = requests \union {added}
    OBVIOUS
  <2> HIDE DEF added
  <2>2. QED
    BY <2>1
<1>6. requests' = requests \union {new} /\ refused' = refused
  BY <1>5
<1>7. RequestFits(new)'
  <2>1. new.segment = read'[s][Len(read[s])] /\ new.segment \in Segment
    BY <1>1, <1>5
  <2>2. new.groups = {[resource |-> Resource(new.segment, token'[s]),
                       spans |-> Spans(new.segment, token'[s], keptTrace, keptLinks)]}
    BY <1>5
  <2>3. Answered(new.message)'
    BY <1>4, <1>5 DEF Answered
  <2>4. new.message.stream = s /\ new.message.number = Len(read[s])
    BY <1>4, <1>5
  <2>5. QED
    BY <2>1, <2>2, <2>3, <2>4 DEF RequestFits
<1>8. /\ \A r \in requests' : RequestFits(r)'
      /\ \A r \in refused' : RefusalFits(r)'
  BY <1>3, <1>6, <1>7
<1>9. /\ \A r, q \in requests' : r.message = q.message => r = q
      /\ \A r, q \in refused' : r.message = q.message => r = q
      /\ \A r \in requests' : \A q \in refused' : r.message # q.message
  BY <1>3, <1>5, <1>6 DEF AnswersFit
<1>10. \A q \in Stream : kind'[q] = "segments" =>
          \A n \in Done(q)' : \E r \in requests' \union refused' :
             r.message = [stream |-> q, number |-> n]
  <2>1. new.message = [stream |-> s, number |-> Len(read[s])]
    BY <1>5 DEF Message
  <2>2. ASSUME NEW q \in Stream, kind[q] = "segments", NEW n \in Done(q)
        PROVE  \E r \in requests \union refused : r.message = [stream |-> q, number |-> n]
    BY <2>2 DEF AnswersFit
  <2>3. QED
    BY <1>2, <1>6, <2>1, <2>2
<1>11. QED
  BY <1>8, <1>9, <1>10 DEF AnswersFit

\* A refusal does.
LEMMA RefusalAdded ==
    ASSUME StreamTypes, StreamFits, AnswersFit, NEW s \in Stream, kind[s] = "segments",
           held[s] # None, held' = [held EXCEPT ![s] = None],
           UNCHANGED <<kind, token, read, stopped, requests>>,
           NEW why, why = End(held[s]) \/ (why = "stopped" /\ stopped),
           refused' = refused \union {[message |-> Message(s), why |-> why]}
    PROVE  AnswersFit'
<1>1. Len(read[s]) # 0 /\ held[s] = read[s][Len(read[s])]
  BY DEF StreamFits
<1>2. /\ Done(s)' = Done(s) \union {Len(read[s])} /\ Len(read[s]) \notin Done(s)
      /\ \A q \in Stream : q # s => Done(q)' = Done(q)
  BY <1>1, DoneAdded
<1>3. /\ \A r \in requests : RequestFits(r)' /\ r.message # Message(s)
      /\ \A r \in refused : RefusalFits(r)' /\ r.message # Message(s)
  BY <1>2, EarlierAnswers
<1>4. /\ Answered(Message(s))' /\ Message(s)' = Message(s)
      /\ Message(s).stream = s /\ Message(s).number = Len(read[s])
  BY <1>2, NextAnswered
<1>5. PICK new : /\ new.message = Message(s) /\ new.why = why
                 /\ refused' = refused \union {new}
  <2> DEFINE added == [message |-> Message(s), why |-> why]
  <2>1. /\ added.message = Message(s) /\ added.why = why
        /\ refused' = refused \union {added}
    OBVIOUS
  <2> HIDE DEF added
  <2>2. QED
    BY <2>1
<1>6. refused' = refused \union {new} /\ requests' = requests
  BY <1>5
<1>7. RefusalFits(new)'
  <2>1. Answered(new.message)'
    BY <1>4, <1>5 DEF Answered
  <2>2. new.message.stream = s /\ new.message.number = Len(read[s])
    BY <1>4, <1>5
  <2>3. \/ new.why = "stopped" /\ stopped'
        \/ new.why = End(read'[new.message.stream][new.message.number])
    BY <1>1, <1>5, <2>2
  <2>4. QED
    BY <2>1, <2>3 DEF RefusalFits
<1>8. /\ \A r \in requests' : RequestFits(r)'
      /\ \A r \in refused' : RefusalFits(r)'
  BY <1>3, <1>6, <1>7
<1>9. /\ \A r, q \in requests' : r.message = q.message => r = q
      /\ \A r, q \in refused' : r.message = q.message => r = q
      /\ \A r \in requests' : \A q \in refused' : r.message # q.message
  BY <1>3, <1>5, <1>6 DEF AnswersFit
<1>10. \A q \in Stream : kind'[q] = "segments" =>
          \A n \in Done(q)' : \E r \in requests' \union refused' :
             r.message = [stream |-> q, number |-> n]
  <2>1. new.message = [stream |-> s, number |-> Len(read[s])]
    BY <1>5 DEF Message
  <2>2. ASSUME NEW q \in Stream, kind[q] = "segments", NEW n \in Done(q)
        PROVE  \E r \in requests \union refused : r.message = [stream |-> q, number |-> n]
    BY <2>2 DEF AnswersFit
  <2>3. QED
    BY <1>2, <1>6, <2>1, <2>2
<1>11. QED
  BY <1>8, <1>9, <1>10 DEF AnswersFit

\* The resources stay what they are while the conversion and the sink rest.
LEMMA ResourcesStay ==
    ASSUME ResourcesFit, UNCHANGED <<token, batch, resources, made, lost>>,
           \A s \in Stream : /\ pc'[s] = "consume" <=> pc[s] = "consume"
                             /\ pc[s] = "consume" => held'[s] = held[s]
    PROVE  ResourcesFit'
<1>1. ASSUME NEW s \in Stream, pc'[s] = "consume" PROVE BatchFits(s)'
  <2>1. BatchFits(s) /\ held'[s] = held[s]
    BY <1>1 DEF ResourcesFit
  <2>2. QED
    BY <2>1 DEF BatchFits
<1>2. QED
  BY <1>1 DEF ResourcesFit

\* The thread of a stream leaves the batch and the resources alone, and nothing
\* is answered.
LEMMA StreamSteps ==
    ASSUME IngestionIInv, NEW s \in Stream, UNCHANGED <<fixed, trace>>,
           pc[s] # "consume", pc'[s] # "consume",
           \A q \in Stream : q # s => /\ pc'[q] = pc[q] /\ held'[q] = held[q]
                                      /\ read'[q] = read[q],
           kind[s] = "segments" =>
              Done(s)' = Done(s) /\ \A n \in Done(s) : read'[s][n] = read[s][n]
    PROVE  ResourcesFit' /\ AnswersFit'
<1>1. ResourcesFit'
  BY ResourcesStay DEF IngestionIInv, fixed, trace
<1>2. \A q \in Stream : q # s => Done(q)' = Done(q)
  BY DEF Done
<1>3. AnswersFit'
  BY <1>2, AnswersStay DEF IngestionIInv, fixed, trace
<1>4. QED
  BY <1>1, <1>3

\* Close and RefuseLogs.
LEMMA EndIngestionIInv ==
    ASSUME IngestionIInv, NEW s \in Stream, Close(s) \/ RefuseLogs(s)
    PROVE  IngestionIInv'
<1>1. /\ pc[s] = "reading" /\ pc' = [pc EXCEPT ![s] = "closed"]
      /\ UNCHANGED <<fixed, held, lock, trace, read, logged>>
  BY DEF Close, RefuseLogs, At, Goto
<1>2. pc'[s] = "closed" /\ \A q \in Stream : q # s => pc'[q] = pc[q]
  BY <1>1 DEF IngestionIInv, StreamTypes
<1>3. StreamTypes'
  BY <1>1 DEF IngestionIInv, StreamTypes, fixed, trace
<1>4. StreamFits'
  BY <1>1, <1>2 DEF IngestionIInv, StreamFits, fixed
<1>5. PipelineInv'
  BY <1>1, <1>2 DEF IngestionIInv, PipelineInv, InPipeline, fixed
<1>6. Done(s)' = Done(s)
  BY <1>1 DEF Done
<1>7. ResourcesFit' /\ AnswersFit'
  BY <1>1, <1>2, <1>6, StreamSteps
<1>8. QED
  BY <1>3, <1>4, <1>5, <1>7 DEF IngestionIInv

\* What has been read is as before, and one longer.
LEMMA ReadMore ==
    ASSUME StreamTypes, NEW s \in Stream, NEW m \in Segment \union Log \union Collection,
           MayRead(s, m)
    PROVE  /\ read' \in [Stream -> Seq(Segment \union Log \union Collection)]
           /\ Len(read[s]) \in Nat /\ Len(read'[s]) = Len(read[s]) + 1
           /\ read'[s][Len(read[s]) + 1] = m
           /\ \A n \in 1..Len(read[s]) : read'[s][n] = read[s][n]
           /\ \A q \in Stream : q # s => read'[q] = read[q]
<1>1. read' = [read EXCEPT ![s] = Append(@, m)]
  BY DEF MayRead
<1>2. read[s] \in Seq(Segment \union Log \union Collection)
  BY DEF StreamTypes
<1>3. /\ Append(read[s], m) \in Seq(Segment \union Log \union Collection)
      /\ Len(Append(read[s], m)) = Len(read[s]) + 1
      /\ \A i \in 1..Len(read[s]) : Append(read[s], m)[i] = read[s][i]
      /\ Append(read[s], m)[Len(read[s]) + 1] = m
  BY <1>2, AppendProperties
<1>4. Len(read[s]) \in Nat
  BY <1>2, LenProperties
<1>5. read'[s] = Append(read[s], m) /\ \A q \in Stream : q # s => read'[q] = read[q]
  BY <1>1 DEF StreamTypes
<1>6. read' \in [Stream -> Seq(Segment \union Log \union Collection)]
  BY <1>1, <1>3 DEF StreamTypes
<1>7. QED
  BY <1>3, <1>4, <1>5, <1>6

\* A stream reads a segment, which it has not answered.
LEMMA ReadIngestionIInv ==
    ASSUME IngestionIInv, NEW s \in Stream, NEW m \in Segment, Read(s, m)
    PROVE  IngestionIInv'
<1>1. /\ kind[s] = "segments" /\ pc[s] = "reading" /\ MayRead(s, m)
      /\ held' = [held EXCEPT ![s] = m] /\ pc' = [pc EXCEPT ![s] = "push"]
      /\ UNCHANGED <<fixed, lock, trace, logged>>
  BY DEF Read, At, Goto
<1>2. /\ pc'[s] = "push" /\ held'[s] = m
      /\ \A q \in Stream : q # s => pc'[q] = pc[q] /\ held'[q] = held[q]
  BY <1>1 DEF IngestionIInv, StreamTypes
<1>3. /\ read' \in [Stream -> Seq(Segment \union Log \union Collection)]
      /\ Len(read[s]) \in Nat /\ Len(read'[s]) = Len(read[s]) + 1
      /\ read'[s][Len(read[s]) + 1] = m
      /\ \A n \in 1..Len(read[s]) : read'[s][n] = read[s][n]
      /\ \A q \in Stream : q # s => read'[q] = read[q]
  BY <1>1, ReadMore DEF IngestionIInv
<1>4. m # None
  BY IngestionAssumption
<1>5. StreamTypes'
  BY <1>1, <1>3 DEF IngestionIInv, StreamTypes, fixed, trace
<1>6. StreamFits'
  <2>1. held'[s] # None => Len(read'[s]) # 0 /\ held'[s] = read'[s][Len(read'[s])]
    BY <1>2, <1>3
  <2>2. QED
    BY <1>1, <1>2, <1>3, <2>1 DEF IngestionIInv, StreamFits, fixed
<1>7. PipelineInv'
  <2>1. \A q \in Stream : InPipeline(q)' <=> lock' = q
    BY <1>1, <1>2 DEF IngestionIInv, PipelineInv, InPipeline
  <2>2. \A q \in Stream : pc'[q] \in {"push", "intercept", "consume"} <=> held'[q] # None
    BY <1>1, <1>2, <1>4 DEF IngestionIInv, PipelineInv
  <2>3. \A q \in Stream : kind'[q] = "logs" =>
           Len(read'[q]) = logged'[q] + (IF pc'[q] = "copy" THEN 1 ELSE 0)
    <3>1. kind' = kind /\ logged' = logged /\ kind[s] # "logs"
      BY <1>1 DEF fixed
    <3>2. \A q \in Stream : kind[q] = "logs" =>
             Len(read[q]) = logged[q] + (IF pc[q] = "copy" THEN 1 ELSE 0)
      BY DEF IngestionIInv, PipelineInv
    <3>3. QED
      BY ONLY <1>2, <1>3, <3>1, <3>2
  <2>4. QED
    BY <2>1, <2>2, <2>3 DEF PipelineInv
<1>8. Done(s)' = Done(s) /\ Done(s) = 1..Len(read[s])
  <2>1. held[s] = None
    BY <1>1 DEF IngestionIInv, PipelineInv
  <2>2. Done(s) = 1..Len(read[s])
    BY <2>1 DEF Done
  <2>3. Done(s)' = {n \in 1..(Len(read[s]) + 1) : n # Len(read[s]) + 1}
    BY <1>2, <1>3, <1>4 DEF Done
  <2>4. \A k \in Nat : {n \in 1..(k + 1) : n # k + 1} = 1..k
    OBVIOUS
  <2>5. QED
    BY ONLY <1>3, <2>2, <2>3, <2>4
<1>9. ResourcesFit' /\ AnswersFit'
  BY <1>1, <1>2, <1>3, <1>8, StreamSteps
<1>10. QED
  BY <1>5, <1>6, <1>7, <1>9 DEF IngestionIInv

\* A stream of logs reads one, or a call with metrics.
LEMMA ReadOtherIngestionIInv ==
    ASSUME IngestionIInv, NEW s \in Stream, NEW m \in Log \union Collection,
           (m \in Log /\ ReadLog(s, m)) \/ (m \in Collection /\ CollectMetrics(s, m))
    PROVE  IngestionIInv'
<1>1. /\ \/ kind[s] = "logs" /\ pc' = [pc EXCEPT ![s] = "copy"]
         \/ kind[s] = "metrics" /\ pc' = [pc EXCEPT ![s] = "closed"]
      /\ pc[s] = "reading" /\ MayRead(s, m)
      /\ UNCHANGED <<fixed, held, lock, trace, logged>>
  BY DEF ReadLog, CollectMetrics, At, Goto
<1>2. /\ \/ kind[s] = "logs" /\ pc'[s] = "copy"
         \/ kind[s] = "metrics" /\ pc'[s] = "closed"
      /\ \A q \in Stream : q # s => pc'[q] = pc[q]
      /\ pc' \in [Stream -> {"reading", "push", "intercept", "consume", "copy", "closed",
                             "failed"}]
  BY <1>1 DEF IngestionIInv, StreamTypes
<1>3. /\ read' \in [Stream -> Seq(Segment \union Log \union Collection)]
      /\ Len(read[s]) \in Nat /\ Len(read'[s]) = Len(read[s]) + 1
      /\ \A q \in Stream : q # s => read'[q] = read[q]
  BY <1>1, ReadMore DEF IngestionIInv
<1>4. held[s] = None
  BY <1>1 DEF IngestionIInv, PipelineInv
<1>5. StreamTypes'
  BY <1>1, <1>2, <1>3 DEF IngestionIInv, StreamTypes, fixed, trace
<1>6. StreamFits'
  BY <1>1, <1>2, <1>3, <1>4 DEF IngestionIInv, StreamFits, fixed
<1>7. PipelineInv'
  <2>1. \A q \in Stream : InPipeline(q)' <=> lock' = q
    BY <1>1, <1>2 DEF IngestionIInv, PipelineInv, InPipeline
  <2>2. \A q \in Stream : pc'[q] \in {"push", "intercept", "consume"} <=> held'[q] # None
    BY <1>1, <1>2, <1>4 DEF IngestionIInv, PipelineInv
  <2>3. \A q \in Stream : kind'[q] = "logs" =>
           Len(read'[q]) = logged'[q] + (IF pc'[q] = "copy" THEN 1 ELSE 0)
    <3>1. kind[s] = "logs" => Len(read[s]) = logged[s]
      BY <1>1 DEF IngestionIInv, PipelineInv, StreamTypes
    <3>2. QED
      BY <1>1, <1>2, <1>3, <3>1 DEF IngestionIInv, PipelineInv, fixed
  <2>4. QED
    BY <2>1, <2>2, <2>3 DEF PipelineInv
<1>8. kind[s] # "segments"
  BY <1>1
<1>9. ResourcesFit' /\ AnswersFit'
  BY <1>1, <1>2, <1>3, <1>8, StreamSteps
<1>10. QED
  BY <1>5, <1>6, <1>7, <1>9 DEF IngestionIInv

\* A log is pushed.
LEMMA PushLogIngestionIInv ==
    ASSUME IngestionIInv, NEW s \in Stream, PushLog(s)
    PROVE  IngestionIInv'
<1>1. /\ kind[s] = "logs" /\ pc[s] = "copy"
      /\ logged' = [logged EXCEPT ![s] = @ + 1] /\ pc' = [pc EXCEPT ![s] = "reading"]
      /\ UNCHANGED <<fixed, held, lock, trace, read>>
  BY DEF PushLog, At, Goto
<1>2. /\ pc'[s] = "reading" /\ logged'[s] = logged[s] + 1
      /\ \A q \in Stream : q # s => pc'[q] = pc[q] /\ logged'[q] = logged[q]
      /\ logged[s] \in Nat /\ logged' \in [Stream -> Nat]
  BY <1>1 DEF IngestionIInv, StreamTypes
<1>3. StreamTypes'
  BY <1>1, <1>2 DEF IngestionIInv, StreamTypes, fixed, trace
<1>4. StreamFits'
  BY <1>1, <1>2 DEF IngestionIInv, StreamFits, fixed
<1>5. PipelineInv'
  <2>1. \A q \in Stream : InPipeline(q)' <=> lock' = q
    BY <1>1, <1>2 DEF IngestionIInv, PipelineInv, InPipeline
  <2>2. \A q \in Stream : pc'[q] \in {"push", "intercept", "consume"} <=> held'[q] # None
    BY <1>1, <1>2 DEF IngestionIInv, PipelineInv
  <2>3. \A q \in Stream : kind'[q] = "logs" =>
           Len(read'[q]) = logged'[q] + (IF pc'[q] = "copy" THEN 1 ELSE 0)
    <3>1. Len(read[s]) = logged[s] + 1
      BY <1>1 DEF IngestionIInv, PipelineInv
    <3>2. QED
      BY <1>1, <1>2, <3>1 DEF IngestionIInv, PipelineInv, fixed
  <2>4. QED
    BY <2>1, <2>2, <2>3 DEF PipelineInv
<1>6. kind[s] # "segments"
  BY <1>1
<1>7. ResourcesFit' /\ AnswersFit'
  BY <1>1, <1>2, <1>6, StreamSteps
<1>8. QED
  BY <1>3, <1>4, <1>5, <1>7 DEF IngestionIInv

\* What the stop and the end of the program leave alone.
LEMMA StopIngestionIInv ==
    ASSUME IngestionIInv, stopped => stopped', stopped' \in BOOLEAN,
           UNCHANGED <<kind, token, pc, held, lock, trace, read, logged>>
    PROVE  IngestionIInv'
<1>1. StreamTypes'
  BY DEF IngestionIInv, StreamTypes, trace
<1>2. StreamFits'
  BY DEF IngestionIInv, StreamFits
<1>3. PipelineInv'
  BY DEF IngestionIInv, PipelineInv, InPipeline
<1>4. ResourcesFit'
  BY ResourcesStay DEF IngestionIInv, trace
<1>5. \A s \in Stream : Done(s)' = Done(s)
  BY DEF Done
<1>6. AnswersFit'
  BY <1>5, AnswersStay DEF IngestionIInv, trace
<1>7. QED
  BY <1>1, <1>2, <1>3, <1>4, <1>6 DEF IngestionIInv

-----------------------------------------------------------------------------
(* In the pipeline.                                                        *)

\* Who is in the pipeline is alone there, and has a segment.
LEMMA AloneInPipeline ==
    ASSUME IngestionIInv, NEW s \in Stream, pc[s] \in {"intercept", "consume"}
    PROVE  /\ kind[s] = "segments" /\ held[s] \in Segment /\ held[s] # None /\ lock = s
           /\ \A q \in Stream : q # s => ~InPipeline(q)
           /\ pc[s] = "intercept" => DOMAIN resources = lost
           /\ pc[s] = "consume" => BatchFits(s)
<1>1. lock = s /\ held[s] # None /\ held[s] \in Segment /\ kind[s] = "segments"
  BY DEF IngestionIInv, PipelineInv, InPipeline, StreamTypes, StreamFits
<1>2. \A q \in Stream : q # s => ~InPipeline(q)
  BY <1>1 DEF IngestionIInv, PipelineInv
<1>3. pc[s] = "intercept" => \A q \in Stream : pc[q] # "consume"
  BY <1>2 DEF InPipeline
<1>4. QED
  BY <1>1, <1>2, <1>3 DEF IngestionIInv, ResourcesFit

\* Into the pipeline, when nobody is in it.
LEMMA PushIngestionIInv ==
    ASSUME IngestionIInv, NEW s \in Stream, Push(s)
    PROVE  IngestionIInv'
<1>1. /\ kind[s] = "segments" /\ pc[s] = "push" /\ lock = None /\ lock' = s /\ batch' = <<>>
      /\ pc' = [pc EXCEPT ![s] = "intercept"]
      /\ UNCHANGED <<fixed, held, resources, made, lost, requests, refused, read, logged>>
  BY DEF Push, At, Goto
<1>2. pc'[s] = "intercept" /\ \A q \in Stream : q # s => pc'[q] = pc[q]
  BY <1>1 DEF IngestionIInv, StreamTypes
<1>3. \A q \in Stream : ~InPipeline(q)
  <2>1. \A q \in Stream : lock # q
    BY <1>1, IngestionAssumption
  <2>2. QED
    BY <2>1 DEF IngestionIInv, PipelineInv
<1>4. StreamTypes'
  BY <1>1 DEF IngestionIInv, StreamTypes, fixed
<1>5. StreamFits'
  BY <1>1, <1>2 DEF IngestionIInv, StreamFits, fixed
<1>6. PipelineInv'
  <2>1. \A q \in Stream : InPipeline(q)' <=> lock' = q
    BY <1>1, <1>2, <1>3 DEF InPipeline
  <2>2. \A q \in Stream : pc'[q] \in {"push", "intercept", "consume"} <=> held'[q] # None
    BY <1>1, <1>2 DEF IngestionIInv, PipelineInv
  <2>3. \A q \in Stream : kind'[q] = "logs" =>
           Len(read'[q]) = logged'[q] + (IF pc'[q] = "copy" THEN 1 ELSE 0)
    BY <1>1, <1>2 DEF IngestionIInv, PipelineInv, fixed
  <2>4. QED
    BY <2>1, <2>2, <2>3 DEF PipelineInv
<1>7. ResourcesFit'
  <2>1. (\A q \in Stream : pc[q] # "consume") /\ (\A q \in Stream : pc'[q] # "consume")
    BY <1>2, <1>3 DEF InPipeline
  <2>2. QED
    BY <1>1, <2>1 DEF IngestionIInv, ResourcesFit
<1>8. \A q \in Stream : Done(q)' = Done(q)
  BY <1>1 DEF Done
<1>9. AnswersFit'
  BY <1>1, <1>8, AnswersStay DEF IngestionIInv, fixed
<1>10. QED
  BY <1>4, <1>5, <1>6, <1>7, <1>9 DEF IngestionIInv

\* A segment that ends in spans has some.
LEMMA SpansToSend ==
    ASSUME NEW segment, End(segment) = "spans"
    PROVE  segment.spans # <<>>
BY DEF End

\* From the conversion to the sink.
LEMMA ToSink ==
    ASSUME IngestionIInv, NEW s \in Stream, pc[s] = "intercept",
           pc' = [pc EXCEPT ![s] = "consume"],
           UNCHANGED <<fixed, held, lock, lost, requests, refused, read, logged>>,
           made' \in Nat, made' >= made, BatchFits(s)'
    PROVE  IngestionIInv'
<1>1. /\ kind[s] = "segments" /\ lock = s /\ \A q \in Stream : q # s => ~InPipeline(q)
  BY AloneInPipeline
<1>2. pc'[s] = "consume" /\ \A q \in Stream : q # s => pc'[q] = pc[q]
  BY DEF IngestionIInv, StreamTypes
<1>3. StreamTypes'
  BY DEF IngestionIInv, StreamTypes, fixed
<1>4. StreamFits'
  BY <1>1, <1>2 DEF IngestionIInv, StreamFits, fixed
<1>5. PipelineInv'
  <2>1. \A q \in Stream : InPipeline(q)' <=> lock' = q
    BY <1>1, <1>2 DEF InPipeline
  <2>2. \A q \in Stream : pc'[q] \in {"push", "intercept", "consume"} <=> held'[q] # None
    BY <1>2 DEF IngestionIInv, PipelineInv
  <2>3. \A q \in Stream : kind'[q] = "logs" =>
           Len(read'[q]) = logged'[q] + (IF pc'[q] = "copy" THEN 1 ELSE 0)
    BY <1>1, <1>2 DEF IngestionIInv, PipelineInv, fixed
  <2>4. QED
    BY <2>1, <2>2, <2>3 DEF PipelineInv
<1>6. ResourcesFit'
  <2>1. \A q \in Stream : pc'[q] = "consume" => q = s
    BY <1>1, <1>2 DEF InPipeline
  <2>2. lost' \subseteq 1..made'
    <3>1. lost \subseteq 1..made /\ made \in Nat
      BY DEF IngestionIInv, ResourcesFit, StreamTypes
    <3>2. QED
      BY <3>1
  <2>3. \A q \in Stream : pc'[q] = "consume" => BatchFits(q)'
    BY <2>1
  <2>4. QED
    BY <1>2, <2>2, <2>3 DEF ResourcesFit
<1>7. \A q \in Stream : Done(q)' = Done(q)
  BY DEF Done
<1>8. AnswersFit'
  BY <1>7, AnswersStay DEF IngestionIInv, fixed
<1>9. QED
  BY <1>3, <1>4, <1>5, <1>6, <1>8 DEF IngestionIInv

\* The conversion of a segment into spans.
LEMMA ConvertIngestionIInv ==
    ASSUME IngestionIInv, NEW s \in Stream, Convert(s)
    PROVE  IngestionIInv'
<1>1. /\ pc[s] = "intercept" /\ End(held[s]) = "spans"
      /\ made' = made + 1 /\ resources' = Allocated(s)
      /\ pc' = [pc EXCEPT ![s] = "consume"]
      /\ UNCHANGED <<fixed, held, lock, lost, requests, refused, read, logged>>
  BY DEF Convert, At, Goto
<1>2. PICK kT \in BOOLEAN, kL \in BOOLEAN : batch' = EventsOf(s, kT, kL)
  BY DEF Convert
<1>3. held[s] \in Segment /\ DOMAIN resources = lost
  BY <1>1, AloneInPipeline
<1>4. made \in Nat /\ lost \subseteq 1..made
  BY DEF IngestionIInv, StreamTypes, ResourcesFit
<1>5. made + 1 \notin lost
  BY <1>4
<1>6. DOMAIN resources' = lost \union {made + 1}
      /\ resources'[made + 1] = Resource(held[s], token[s])
  BY <1>1, <1>3 DEF Allocated
<1>7. /\ DOMAIN held[s].spans = 1..Len(held[s].spans) /\ Len(held[s].spans) \in Nat
      /\ Len(held[s].spans) # 0
  BY <1>1, <1>3, SpansOfSegment, SpansToSend
<1>8. batch' = [i \in 1..Len(held[s].spans) |->
                   [resource |-> made + 1, frees |-> i = 1,
                    span |-> Spans(held[s], token[s], kT, kL)[i]]]
  <2>1. DOMAIN Spans(held[s], token[s], kT, kL) = 1..Len(held[s].spans)
    BY <1>7 DEF Spans
  <2>2. QED
    BY <1>2, <2>1 DEF EventsOf
<1>9. batch' # <<>>
  <2>1. DOMAIN batch' = 1..Len(held[s].spans) /\ 1 \in 1..Len(held[s].spans)
    BY <1>7, <1>8
  <2>2. DOMAIN <<>> = {}
    OBVIOUS
  <2>3. QED
    BY <2>1, <2>2
<1>10. BatchFits(s)'
  <2>1. held'[s] = held[s] /\ token'[s] = token[s] /\ made' = made + 1 /\ lost' = lost
    BY <1>1 DEF fixed
  <2>2. \E keptTrace, keptLinks \in BOOLEAN :
           batch' = [i \in 1..Len(held'[s].spans) |->
                        [resource |-> made', frees |-> i = 1,
                         span |-> Spans(held'[s], token'[s], keptTrace, keptLinks)[i]]]
    BY <1>8, <2>1
  <2>3. QED
    BY <1>5, <1>6, <1>9, <2>1, <2>2 DEF BatchFits
<1>11. made' \in Nat /\ made' >= made
  BY <1>1, <1>4
<1>12. QED
  BY <1>1, <1>10, <1>11, ToSink

\* Or into nothing.
LEMMA ConvertNothingIngestionIInv ==
    ASSUME IngestionIInv, NEW s \in Stream, ConvertNothing(s)
    PROVE  IngestionIInv'
<1>1. /\ pc[s] = "intercept" /\ End(held[s]) = "nothing" /\ batch' = <<>>
      /\ pc' = [pc EXCEPT ![s] = "consume"]
      /\ UNCHANGED <<fixed, held, lock, resources, made, lost, requests, refused, read, logged>>
  BY DEF ConvertNothing, At, Goto
<1>2. DOMAIN resources = lost
  BY <1>1, AloneInPipeline
<1>3. BatchFits(s)'
  BY <1>1, <1>2 DEF BatchFits
<1>4. made' \in Nat /\ made' >= made
  BY <1>1 DEF IngestionIInv, StreamTypes
<1>5. QED
  BY <1>1, <1>3, <1>4, ToSink

\* Out of the pipeline, with what the segment held is answered by.
LEMMA OutOfPipeline ==
    ASSUME IngestionIInv, NEW s \in Stream, pc[s] \in {"intercept", "consume"},
           NEW label \in {"reading", "failed"}, pc' = [pc EXCEPT ![s] = label],
           held' = [held EXCEPT ![s] = None], lock' = None,
           UNCHANGED <<fixed, read, logged>>,
           made' \in Nat, lost' \subseteq 1..made', DOMAIN resources' = lost', AnswersFit'
    PROVE  IngestionIInv'
<1>1. /\ kind[s] = "segments" /\ lock = s /\ \A q \in Stream : q # s => ~InPipeline(q)
  BY AloneInPipeline
<1>2. /\ pc'[s] = label /\ held'[s] = None
      /\ \A q \in Stream : q # s => pc'[q] = pc[q] /\ held'[q] = held[q]
  BY DEF IngestionIInv, StreamTypes
<1>3. StreamTypes'
  BY DEF IngestionIInv, StreamTypes, fixed
<1>4. StreamFits'
  BY <1>1, <1>2 DEF IngestionIInv, StreamFits, fixed
<1>5. PipelineInv'
  <2>1. \A q \in Stream : ~InPipeline(q)' /\ lock' # q
    BY <1>1, <1>2, IngestionAssumption DEF InPipeline
  <2>2. \A q \in Stream : pc'[q] \in {"push", "intercept", "consume"} <=> held'[q] # None
    BY <1>2 DEF IngestionIInv, PipelineInv
  <2>3. \A q \in Stream : kind'[q] = "logs" =>
           Len(read'[q]) = logged'[q] + (IF pc'[q] = "copy" THEN 1 ELSE 0)
    BY <1>1, <1>2 DEF IngestionIInv, PipelineInv, fixed
  <2>4. QED
    BY <2>1, <2>2, <2>3 DEF PipelineInv
<1>6. ResourcesFit'
  <2>1. \A q \in Stream : pc'[q] # "consume"
    BY <1>1, <1>2 DEF InPipeline
  <2>2. QED
    BY <2>1 DEF ResourcesFit
<1>7. QED
  BY <1>3, <1>4, <1>5, <1>6 DEF IngestionIInv

\* The exception.
LEMMA ThrowIngestionIInv ==
    ASSUME IngestionIInv, NEW s \in Stream, Throw(s)
    PROVE  IngestionIInv'
<1>1. /\ pc[s] = "intercept" /\ End(held[s]) = "throws" /\ lock' = None
      /\ made' = IF MakesResource(held[s]) THEN made + 1 ELSE made
      /\ IF LosesResource(held[s])
         THEN resources' = Allocated(s) /\ lost' = lost \union {made + 1}
         ELSE UNCHANGED <<resources, lost>>
      /\ refused' = refused \union {[message |-> Message(s), why |-> "throws"]}
      /\ pc' = [pc EXCEPT ![s] = "failed"] /\ held' = [held EXCEPT ![s] = None]
      /\ UNCHANGED <<fixed, requests, read, logged>>
  BY DEF Throw, At, Goto
<1>2. /\ kind[s] = "segments" /\ held[s] # None /\ DOMAIN resources = lost
  BY <1>1, AloneInPipeline
<1>3. made \in Nat /\ lost \subseteq 1..made
  BY DEF IngestionIInv, StreamTypes, ResourcesFit
<1>4. LosesResource(held[s]) => MakesResource(held[s])
  BY DEF LosesResource
<1>5. made' \in Nat /\ lost' \subseteq 1..made' /\ DOMAIN resources' = lost'
  <2>1. CASE LosesResource(held[s])
    <3>1. made' = made + 1 /\ lost' = lost \union {made + 1} /\ resources' = Allocated(s)
      BY <1>1, <1>4, <2>1
    <3>2. DOMAIN resources' = lost \union {made + 1}
      BY <1>2, <3>1 DEF Allocated
    <3>3. QED
      BY <1>3, <3>1, <3>2
  <2>2. CASE ~LosesResource(held[s])
    <3>1. resources' = resources /\ lost' = lost /\ (made' = made \/ made' = made + 1)
      BY <1>1, <2>2
    <3>2. QED
      BY <1>2, <1>3, <3>1
  <2>3. QED
    BY <2>1, <2>2
<1>6. AnswersFit'
  BY <1>1, <1>2, RefusalAdded DEF IngestionIInv, fixed
<1>7. QED
  BY <1>1, <1>5, <1>6, OutOfPipeline

\* The sink, without events.
LEMMA ConsumeNothingIngestionIInv ==
    ASSUME IngestionIInv, NEW s \in Stream, ConsumeNothing(s)
    PROVE  IngestionIInv'
<1>1. /\ pc[s] = "consume" /\ batch = <<>> /\ lock' = None
      /\ refused' = refused \union {[message |-> Message(s), why |-> "nothing"]}
      /\ pc' = [pc EXCEPT ![s] = "reading"] /\ held' = [held EXCEPT ![s] = None]
      /\ UNCHANGED <<fixed, made, lost, resources, requests, read, logged>>
  BY DEF ConsumeNothing, Return, At, Goto
<1>2. kind[s] = "segments" /\ held[s] # None /\ BatchFits(s)
  BY <1>1, AloneInPipeline
<1>3. End(held[s]) = "nothing" /\ DOMAIN resources = lost
  BY <1>1, <1>2 DEF BatchFits
<1>4. made' \in Nat /\ lost' \subseteq 1..made' /\ DOMAIN resources' = lost'
  BY <1>1, <1>3 DEF IngestionIInv, StreamTypes, ResourcesFit
<1>5. AnswersFit'
  BY <1>1, <1>2, <1>3, RefusalAdded DEF IngestionIInv, fixed
<1>6. QED
  BY <1>1, <1>4, <1>5, OutOfPipeline

\* The sink: the request is what was converted, and the resource is freed.
LEMMA ConsumeIngestionIInv ==
    ASSUME IngestionIInv, NEW s \in Stream, Consume(s)
    PROVE  IngestionIInv'
<1> DEFINE new(groups) == [message |-> Message(s), segment |-> held[s], groups |-> groups]
<1>1. /\ pc[s] = "consume" /\ batch # <<>> /\ lock' = None /\ resources' = Unfreed
      /\ \/ /\ requests' = requests \union {new(PopulateRequest(batch, resources))}
            /\ UNCHANGED refused
         \/ /\ stopped
            /\ refused' = refused \union {[message |-> Message(s), why |-> "stopped"]}
            /\ UNCHANGED requests
      /\ pc' = [pc EXCEPT ![s] = "reading"] /\ held' = [held EXCEPT ![s] = None]
      /\ UNCHANGED <<fixed, made, lost, read, logged>>
  BY DEF Consume, Return, At, Goto
<1>2. kind[s] = "segments" /\ held[s] # None /\ held[s] \in Segment /\ BatchFits(s)
  BY <1>1, AloneInPipeline
<1>3. /\ made \notin lost /\ DOMAIN resources = lost \union {made}
      /\ resources[made] = Resource(held[s], token[s])
  BY <1>1, <1>2 DEF BatchFits
<1>4. PICK kT \in BOOLEAN, kL \in BOOLEAN :
         batch = [i \in 1..Len(held[s].spans) |->
                     [resource |-> made, frees |-> i = 1,
                      span |-> Spans(held[s], token[s], kT, kL)[i]]]
  BY <1>1, <1>2 DEF BatchFits
<1> DEFINE spans == Spans(held[s], token[s], kT, kL)
           n == Len(held[s].spans)
<1>5. DOMAIN held[s].spans = 1..n /\ n \in Nat \ {0}
  <2>1. DOMAIN held[s].spans = 1..n /\ n \in Nat
    BY <1>2, SpansOfSegment
  <2>2. n # 0
    BY <1>1, <1>4, EmptySeq
  <2>3. QED
    BY <2>1, <2>2
<1>6. spans = [i \in 1..n |-> spans[i]]
  BY <1>5, SpansAre
<1>7. PopulateRequest(batch, resources) = {[resource |-> resources[made], spans |-> spans]}
  <2> DEFINE group(q) == [resource |-> resources[q],
                          spans |-> [i \in {j \in DOMAIN batch : batch[j].resource = q} |->
                                        batch[i].span]]
  <2>1. DOMAIN batch = 1..n /\ 1 \in 1..n
    BY <1>4, <1>5
  <2>2. \A i \in DOMAIN batch : batch[i].resource = made /\ batch[i].span = spans[i]
    BY <1>4
  <2> HIDE DEF spans, n
  <2>3. {batch[i].resource : i \in DOMAIN batch} = {made}
    BY <2>1, <2>2
  <2>4. {j \in DOMAIN batch : batch[j].resource = made} = 1..n
    BY <2>1, <2>2
  <2>5. [i \in {j \in DOMAIN batch : batch[j].resource = made} |-> batch[i].span] = spans
    BY <1>6, <2>1, <2>2, <2>4
  <2>6. group(made) = [resource |-> resources[made], spans |-> spans]
    BY <2>5
  <2>7. PopulateRequest(batch, resources) =
            {group(q) : q \in {batch[i].resource : i \in DOMAIN batch}}
    BY DEF PopulateRequest
  <2> HIDE DEF group
  <2>8. PopulateRequest(batch, resources) = {group(q) : q \in {made}}
    BY <2>3, <2>7
  <2>9. {group(q) : q \in {made}} = {group(made)}
    OBVIOUS
  <2>10. QED
    BY <2>6, <2>8, <2>9
<1>8. DOMAIN resources' = lost
  <2>1. DOMAIN batch = 1..n /\ 1 \in 1..n
    BY <1>4, <1>5
  <2>2. \A i \in 1..n : batch[i].resource = made /\ (batch[i].frees <=> i = 1)
    BY <1>4
  <2> HIDE DEF n, spans
  <2>3. {j \in DOMAIN batch : batch[j].frees} = {1}
    BY <2>1, <2>2
  <2>4. {batch[i].resource : i \in {j \in DOMAIN batch : batch[j].frees}} = {made}
    BY <2>1, <2>2, <2>3
  <2>5. DOMAIN Unfreed = (DOMAIN resources) \ {made}
    BY <2>4 DEF Unfreed
  <2>6. QED
    BY <1>1, <1>3, <2>5
<1>9. made' \in Nat /\ lost' \subseteq 1..made' /\ DOMAIN resources' = lost'
  BY <1>1, <1>8 DEF IngestionIInv, StreamTypes, ResourcesFit
<1>10. AnswersFit'
  <2>1. CASE /\ requests' = requests \union {new(PopulateRequest(batch, resources))}
             /\ UNCHANGED refused
    <3>1. requests' = requests \union
             {[message |-> Message(s), segment |-> held[s],
               groups |-> {[resource |-> Resource(held[s], token[s]),
                            spans |-> Spans(held[s], token[s], kT, kL)]}]}
      BY <1>3, <1>7, <2>1
    <3>2. QED
      BY <1>1, <1>2, <2>1, <3>1, RequestAdded DEF IngestionIInv, fixed
  <2>2. CASE /\ stopped /\ UNCHANGED requests
             /\ refused' = refused \union {[message |-> Message(s), why |-> "stopped"]}
    BY <1>1, <1>2, <2>2, RefusalAdded DEF IngestionIInv, fixed
  <2>3. QED
    BY <1>1, <2>1, <2>2
<1>11. QED
  BY <1>1, <1>9, <1>10, OutOfPipeline

\* Every step keeps the invariant, whichever stream takes it.
LEMMA NextIngestionIInv == IngestionIInv /\ [IngestionNext]_ingestion_vars => IngestionIInv'
<1> SUFFICES ASSUME IngestionIInv, [IngestionNext]_ingestion_vars PROVE IngestionIInv'
  OBVIOUS
<1>1. CASE Stop
  BY <1>1, StopIngestionIInv DEF Stop
<1>2. ASSUME NEW s \in Stream, Step(s) PROVE IngestionIInv'
  <2>1. CASE Terminate(s)
    BY <2>1, StopIngestionIInv DEF Terminate, fixed, IngestionIInv, StreamTypes
  <2>2. QED
    BY <1>2, <2>1, PushIngestionIInv, ConvertIngestionIInv, ConvertNothingIngestionIInv,
       ThrowIngestionIInv, ConsumeNothingIngestionIInv, ConsumeIngestionIInv,
       PushLogIngestionIInv DEF Step
<1>3. ASSUME NEW s \in Stream, Close(s) \/ RefuseLogs(s) PROVE IngestionIInv'
  BY <1>3, EndIngestionIInv
<1>4. ASSUME NEW s \in Stream, NEW m \in Segment, Read(s, m) PROVE IngestionIInv'
  BY <1>4, ReadIngestionIInv
<1>5. ASSUME NEW s \in Stream, NEW m \in Log, ReadLog(s, m) PROVE IngestionIInv'
  BY <1>5, ReadOtherIngestionIInv
<1>6. ASSUME NEW s \in Stream, NEW m \in Collection, CollectMetrics(s, m) PROVE IngestionIInv'
  BY <1>6, ReadOtherIngestionIInv
<1>7. CASE UNCHANGED ingestion_vars
  BY <1>7, StopIngestionIInv DEF ingestion_vars, IngestionIInv, StreamTypes
<1>8. QED
  BY <1>1, <1>2, <1>3, <1>4, <1>5, <1>6, <1>7 DEF IngestionNext

\* The inductive invariant holds in every state of the pipeline and its streams.
THEOREM IngestionInvariance == IngestionSpec => []IngestionIInv
BY InitIngestionIInv, NextIngestionIInv, PTL DEF IngestionSpec

\* Every resource the conversion makes has just one recordable that frees it, or
\* was left to nobody by an exception, and the sink leaves none, however the
\* streams take turns in the pipeline.
THEOREM ResourcesCorrect == IngestionSpec => []ResourcesOwned
BY IngestionInvariance, ResourcesOwnedHolds, PTL

\* What goes to the collector is what the streams have sent: each segment once or
\* refused with a reason, under the token of its stream, its spans the same tree.
THEOREM RequestsCorrect == IngestionSpec => []RequestsExact
<1>1. IngestionIInv => RequestsExact
  BY TokenOfStreamHolds, AnsweredOnceHolds, SpanTreeHolds DEF IngestionIInv, RequestsExact
<1>2. QED
  BY <1>1, IngestionInvariance, PTL

-----------------------------------------------------------------------------
(* The metrics of the JVM.                                                 *)
\* A set of numbers has a least one.
LEMMA Least ==
    ASSUME NEW T, T \subseteq Nat, T # {}
    PROVE  \E m \in T : \A k \in T : m <= k
<1>1. IsWellFoundedOn(OpToRel(<, Nat), Nat)
  BY NatLessThanWellFounded
<1>2. PICK m \in T : \A y \in T : ~ (<<y, m>> \in OpToRel(<, Nat))
  BY <1>1, WFMin
<1>3. \A y \in T : ~ (y < m)
  BY <1>2 DEF OpToRel
<1>4. QED
  BY <1>3

\* What holds of 0, and of each number after one of which it holds, holds of all.
LEMMA Induct ==
    ASSUME NEW S, 0 \in S, \A n \in Nat : n \in S => n + 1 \in S
    PROVE  Nat \subseteq S
<1> SUFFICES ASSUME (Nat \ S) # {} PROVE FALSE
  OBVIOUS
<1>1. PICK m \in Nat \ S : \A k \in Nat \ S : m <= k
  BY Least
<1>2. m # 0 /\ m - 1 \in Nat
  BY <1>1
<1>3. m - 1 \in S
  BY <1>1, <1>2
<1>4. QED
  BY <1>1, <1>2, <1>3

\* The sequences put together so far, one more at a time.
FlattenSteps(g, seqs, n) ==
    /\ DOMAIN g = 0..n /\ g[0] = <<>>
    /\ \A i \in 1..n : g[i] = g[i - 1] \o seqs[i]

\* The conversion puts sequences together as the properties do.
LEMMA SameFlatten ==
    ASSUME NEW seqs
    PROVE  M!FlattenSeq(seqs) = FlattenSeq(seqs)
BY DEF M!FlattenSeq, FlattenSeq

\* Sequences are put together one after another.
LEMMA FlattenIs ==
    ASSUME NEW T, NEW seqs \in Seq(Seq(T))
    PROVE  \E g : /\ FlattenSteps(g, seqs, Len(seqs))
                  /\ \A i \in 0..Len(seqs) : g[i] \in Seq(T)
                  /\ FlattenSeq(seqs) = g[Len(seqs)]
<1> DEFINE N == Len(seqs)
           Each(f, i) == IF i = 1 THEN seqs[i] ELSE f[i - 1] \o seqs[i]
           Steps(f) == f = [i \in 1..N |-> Each(f, i)]
           S == {n \in Nat : n <= N => \E g : /\ FlattenSteps(g, seqs, n)
                                              /\ \A i \in 0..n : g[i] \in Seq(T)}
<1>0. N \in Nat /\ \A i \in 1..N : seqs[i] \in Seq(T)
  OBVIOUS
<1>1. 0 \in S
  <2>1. FlattenSteps([i \in 0..0 |-> <<>>], seqs, 0)
    BY DEF FlattenSteps
  <2>2. \A i \in 0..0 : [j \in 0..0 |-> <<>>][i] \in Seq(T)
    OBVIOUS
  <2>3. QED
    BY <2>1, <2>2
<1>2. ASSUME NEW n \in Nat, n \in S
      PROVE  n + 1 \in S
  <2> SUFFICES ASSUME n + 1 <= N
               PROVE  \E g : /\ FlattenSteps(g, seqs, n + 1)
                             /\ \A i \in 0..(n + 1) : g[i] \in Seq(T)
    OBVIOUS
  <2>1. PICK f : FlattenSteps(f, seqs, n) /\ \A i \in 0..n : f[i] \in Seq(T)
    BY <1>0, <1>2
  <2> DEFINE last == f[n] \o seqs[n + 1]
             g == [i \in 0..(n + 1) |-> IF i = n + 1 THEN last ELSE f[i]]
  <2>0. last \in Seq(T)
    <3>1. f[n] \in Seq(T) /\ seqs[n + 1] \in Seq(T)
      BY <1>0, <2>1
    <3>2. QED
      BY <3>1
  <2> HIDE DEF last
  <2>2. DOMAIN g = 0..(n + 1) /\ g[n + 1] = last /\ \A i \in 0..n : g[i] = f[i]
    OBVIOUS
  <2> HIDE DEF g
  <2>3. g[0] = <<>>
    BY <2>1, <2>2 DEF FlattenSteps
  <2>4. ASSUME NEW i \in 1..(n + 1)
        PROVE  g[i] = g[i - 1] \o seqs[i]
    <3>1. CASE i = n + 1
      <4>1. n \in 0..n /\ i - 1 = n
        BY <3>1
      <4>2. g[i] = last /\ g[i - 1] = f[n]
        BY <2>2, <3>1, <4>1
      <4>3. last = f[n] \o seqs[i]
        BY ONLY <3>1 DEF last
      <4>4. QED
        BY ONLY <4>2, <4>3
    <3>2. CASE i # n + 1
      <4>1. i \in 1..n /\ i \in 0..n /\ i - 1 \in 0..n
        BY <3>2
      <4>2. f[i] = f[i - 1] \o seqs[i]
        BY <2>1, <4>1 DEF FlattenSteps
      <4>3. QED
        BY <2>2, <4>1, <4>2
    <3>3. QED
      BY <3>1, <3>2
  <2>5. FlattenSteps(g, seqs, n + 1)
    BY <2>2, <2>3, <2>4 DEF FlattenSteps
  <2>6. \A i \in 0..(n + 1) : g[i] \in Seq(T)
    <3> SUFFICES ASSUME NEW i \in 0..(n + 1) PROVE g[i] \in Seq(T)
      OBVIOUS
    <3>1. i = n + 1 \/ i \in 0..n
      OBVIOUS
    <3>2. QED
      BY <2>0, <2>1, <2>2, <3>1
  <2>7. QED
    BY <2>5, <2>6
<1>3. N \in S
  <2> HIDE DEF S, N
  <2>1. QED
    BY <1>0, <1>1, <1>2, Induct
<1>4. PICK g : FlattenSteps(g, seqs, N) /\ \A i \in 0..N : g[i] \in Seq(T)
  BY <1>0, <1>3
<1>5. CASE N = 0
  <2>1. seqs = <<>>
    BY <1>5
  <2>2. FlattenSeq(seqs) = seqs
    BY <1>5 DEF FlattenSeq
  <2>3. g[N] = <<>>
    BY <1>4, <1>5 DEF FlattenSteps
  <2>4. QED
    BY <1>4, <2>1, <2>2, <2>3
<1>6. CASE N # 0
  <2> DEFINE r == [i \in 1..N |-> g[i]]
             after == CHOOSE h : Steps(h)
  <2>1. DOMAIN r = 1..N /\ \A i \in 1..N : r[i] = g[i]
    OBVIOUS
  <2>2. ASSUME NEW h, DOMAIN h = 1..N, \A i \in 1..N : h[i] = Each(h, i)
        PROVE  \A i \in 1..N : h[i] = g[i]
    <3> DEFINE E == {n \in Nat : n \in 1..N => h[n] = g[n]}
    <3>1. 0 \in E
      OBVIOUS
    <3>2. ASSUME NEW n \in Nat, n \in E PROVE n + 1 \in E
      <4> SUFFICES ASSUME n + 1 \in 1..N PROVE h[n + 1] = g[n + 1]
        OBVIOUS
      <4>0. (n + 1) - 1 = n
        OBVIOUS
      <4>1. g[n + 1] = g[n] \o seqs[n + 1]
        BY <1>4, <4>0 DEF FlattenSteps
      <4>5. h[n + 1] = Each(h, n + 1)
        BY <2>2
      <4>2. CASE n = 0
        <5>1. g[0] = <<>> /\ seqs[1] \in Seq(T)
          BY <1>0, <1>4, <4>2 DEF FlattenSteps
        <5>2. <<>> \o seqs[1] = seqs[1]
          BY <5>1
        <5>0. n + 1 = 1
          BY <4>2
        <5>3. h[1] = seqs[1] /\ g[1] = g[0] \o seqs[1]
          <6>1. h[1] = Each(h, 1)
            BY ONLY <4>5, <5>0
          <6>2. Each(h, 1) = seqs[1]
            OBVIOUS
          <6>3. g[1] = g[0] \o seqs[1]
            BY ONLY <4>1, <4>2, <5>0
          <6>4. QED
            BY ONLY <6>1, <6>2, <6>3
        <5>4. QED
          BY <4>2, <5>1, <5>2, <5>3
      <4>3. CASE n # 0
        <5>1. n \in 1..N
          BY <1>0, <4>3
        <5>2. h[n] = g[n]
          BY <3>2, <5>1
        <5>3. h[n + 1] = h[n] \o seqs[n + 1]
          <6>1. n + 1 # 1
            BY <4>3
          <6>2. Each(h, n + 1) = h[(n + 1) - 1] \o seqs[n + 1]
            BY <6>1
          <6>3. QED
            BY <4>0, <4>5, <6>2
        <5>4. QED
          BY <4>1, <5>2, <5>3
      <4>4. QED
        BY <4>2, <4>3
    <3> HIDE DEF E
    <3>3. \A n \in Nat : n \in E
      BY <3>1, <3>2, Induct
    <3>4. QED
      BY <1>0, <3>3 DEF E
  <2>3. Steps(r)
    <3>1. \A i \in 1..N : Each(r, i) = g[i]
      <4> SUFFICES ASSUME NEW i \in 1..N PROVE Each(r, i) = g[i]
        OBVIOUS
      <4>1. g[i] = g[i - 1] \o seqs[i]
        BY <1>4 DEF FlattenSteps
      <4>2. CASE i = 1
        <5>1. g[0] = <<>> /\ seqs[1] \in Seq(T)
          BY <1>0, <1>4, <4>2 DEF FlattenSteps
        <5>2. <<>> \o seqs[1] = seqs[1]
          BY <5>1
        <5>3. Each(r, i) = seqs[1] /\ g[i] = g[0] \o seqs[1]
          BY <4>1, <4>2
        <5>4. QED
          BY <5>1, <5>2, <5>3
      <4>3. CASE i # 1
        <5>1. i - 1 \in 1..N
          BY <1>0, <4>3
        <5>2. QED
          BY <2>1, <4>1, <4>3, <5>1
      <4>4. QED
        BY <4>2, <4>3
    <3>2. [i \in 1..N |-> Each(r, i)] = [i \in 1..N |-> g[i]]
      BY <3>1
    <3>3. QED
      BY <3>2
  <2>4. Steps(after)
    <3> HIDE DEF Steps, r
    <3>1. QED
      BY <2>3
  <2>5. FlattenSeq(seqs) = after[N]
    BY <1>6 DEF FlattenSeq
  <2>6. \A i \in 1..N : after[i] = g[i]
    <3> HIDE DEF after
    <3>1. DOMAIN after = 1..N /\ \A i \in 1..N : after[i] = Each(after, i)
      BY <2>4
    <3>2. QED
      BY <2>2, <3>1
  <2>7. after[N] = g[N]
    <3> HIDE DEF after
    <3>1. N \in 1..N
      BY <1>0, <1>6
    <3>2. QED
      BY <2>6, <3>1
  <2>8. QED
    BY <1>4, <2>5, <2>7
<1>7. QED
  BY <1>5, <1>6

\* Two sequences whose elements have the same values, in order.
Alike(a, b) ==
    /\ a \in Seq(ToSet(a)) /\ b \in Seq(ToSet(b)) /\ Len(a) = Len(b)
    /\ \A j \in 1..Len(a) : a[j].value = b[j].value

\* A sequence is one of its own elements.
LEMMA OfItsElements ==
    ASSUME NEW T, NEW a \in Seq(T)
    PROVE  a \in Seq(ToSet(a)) /\ ToSet(a) \subseteq T
<1>1. DOMAIN a = 1..Len(a) /\ Len(a) \in Nat /\ a = [j \in 1..Len(a) |-> a[j]]
  OBVIOUS
<1>2. \A j \in 1..Len(a) : a[j] \in ToSet(a) /\ a[j] \in T
  BY <1>1 DEF ToSet
<1>3. a \in [1..Len(a) -> ToSet(a)]
  BY <1>1, <1>2
<1>4. a \in Seq(ToSet(a))
  BY <1>1, <1>3, SeqDef
<1>5. QED
  BY <1>1, <1>2, <1>4 DEF ToSet

\* And of every set that has them.
LEMMA SeqWiden ==
    ASSUME NEW T, NEW a, a \in Seq(ToSet(a)), ToSet(a) \subseteq T
    PROVE  a \in Seq(T)
<1> DEFINE U == ToSet(a)
<1> HIDE DEF U
<1>1. a \in Seq(U) /\ U \subseteq T
  BY DEF U
<1>2. QED
  BY <1>1

\* Put behind one another, such sequences still have the same values,
LEMMA AlikeConcat ==
    ASSUME NEW a, NEW b, NEW c, NEW d, Alike(a, b), Alike(c, d)
    PROVE  Alike(a \o c, b \o d)
<1> DEFINE T == ToSet(a) \union ToSet(b) \union ToSet(c) \union ToSet(d)
<1>1. a \in Seq(T) /\ b \in Seq(T) /\ c \in Seq(T) /\ d \in Seq(T)
  BY SeqWiden DEF Alike
<1> HIDE DEF T
<1>2. a \o c \in Seq(T) /\ b \o d \in Seq(T)
  BY <1>1
<1>3. /\ a \o c \in Seq(ToSet(a \o c))
      /\ b \o d \in Seq(ToSet(b \o d))
  BY <1>2, OfItsElements
<1>4. /\ Len(a) = Len(b) /\ \A j \in 1..Len(a) : a[j].value = b[j].value
      /\ Len(c) = Len(d) /\ \A j \in 1..Len(c) : c[j].value = d[j].value
  BY DEF Alike
<1>5. /\ Len(a) \in Nat /\ Len(c) \in Nat /\ Len(a \o c) = Len(a) + Len(c)
      /\ Len(b \o d) = Len(b) + Len(d)
  BY <1>1
<1>8. Len(a \o c) = Len(b \o d)
  BY <1>4, <1>5
<1>6. ASSUME NEW j \in 1..Len(a \o c)
      PROVE  (a \o c)[j].value = (b \o d)[j].value
  <2>1. CASE j <= Len(a)
    <3>1. (a \o c)[j] = a[j] /\ (b \o d)[j] = b[j]
      BY <1>1, <1>4, <2>1
    <3>2. j \in 1..Len(a)
      BY <1>1, <2>1
    <3>3. QED
      BY <1>4, <3>1, <3>2
  <2>2. CASE j > Len(a)
    <3>1. (a \o c)[j] = c[j - Len(a)] /\ (b \o d)[j] = d[j - Len(a)]
      BY <1>1, <1>4, <2>2
    <3>2. j - Len(a) \in 1..Len(c)
      BY <1>1, <2>2
    <3>3. QED
      BY <1>4, <3>1, <3>2
  <2>3. j <= Len(a) \/ j > Len(a)
    BY <1>5
  <2>4. QED
    BY <2>1, <2>2, <2>3
<1>7. QED
  BY <1>3, <1>6, <1>8 DEF Alike

\* also with nothing behind one of them.
LEMMA AlikeEmpty ==
    ASSUME NEW a, NEW b, NEW e, e = <<>>, Alike(a, b)
    PROVE  Alike(a \o e, b)
<1>1. a \in Seq(ToSet(a))
  BY DEF Alike
<1>2. a \o <<>> = a
  <2> DEFINE T == ToSet(a)
  <2> HIDE DEF T
  <2>1. a \in Seq(T)
    BY <1>1 DEF T
  <2>2. QED
    BY <2>1
<1>3. a \o e = a
  BY ONLY <1>2, e = <<>>
<1>4. QED
  BY ONLY <1>3, Alike(a, b)

\* The same values at the same places are the same figures.
LEMMA AlikeFigures ==
    ASSUME NEW a, NEW b, Alike(a, b)
    PROVE  Figures(a) = Figures(b)
<1>1. /\ DOMAIN a = DOMAIN b
      /\ \A j \in DOMAIN a : a[j].value = b[j].value
  <2> DEFINE T == ToSet(a)
             U == ToSet(b)
  <2> HIDE DEF T, U
  <2>1. a \in Seq(T) /\ b \in Seq(U) /\ Len(a) = Len(b)
    BY DEF Alike, T, U
  <2>2. DOMAIN a = 1..Len(a) /\ DOMAIN b = 1..Len(a)
    BY <2>1
  <2>3. QED
    BY <2>2 DEF Alike
<1>2. {a[j].value : j \in DOMAIN a} = {b[j].value : j \in DOMAIN b}
  BY <1>1
<1>3. \A v : {j \in DOMAIN a : a[j].value = v} = {j \in DOMAIN b : b[j].value = v}
  BY <1>1
<1>4. QED
  BY <1>2, <1>3 DEF Figures

\* Of three sequences at a time, one that has values like another one's.
Thinned(thin, full, k) ==
    /\ thin \in Seq(Seq(UNION {ToSet(thin[j]) : j \in DOMAIN thin}))
    /\ full \in Seq(Seq(UNION {ToSet(full[j]) : j \in DOMAIN full}))
    /\ Len(thin) = 3 * Len(full)
    /\ \A i \in 1..Len(full) :
          /\ Alike(thin[3 * (i - 1) + k], full[i])
          /\ \A l \in (1..3) \ {k} : thin[3 * (i - 1) + l] = <<>>

\* They are put together into the same values.
LEMMA ThinnedFlatten ==
    ASSUME NEW thin, NEW full, NEW k \in 1..3, Thinned(thin, full, k)
    PROVE  Alike(FlattenSeq(thin), FlattenSeq(full))
<1> DEFINE TT == UNION {ToSet(thin[j]) : j \in DOMAIN thin}
           TF == UNION {ToSet(full[j]) : j \in DOMAIN full}
           N == Len(full)
<1>1. thin \in Seq(Seq(TT)) /\ full \in Seq(Seq(TF)) /\ Len(thin) = 3 * N
  BY DEF Thinned
<1> HIDE DEF TT, TF
<1>2. N \in Nat
  BY <1>1
<1>3. PICK g : /\ FlattenSteps(g, thin, 3 * N)
               /\ FlattenSeq(thin) = g[3 * N]
  BY <1>1, FlattenIs
<1>4. PICK h : /\ FlattenSteps(h, full, N)
               /\ FlattenSeq(full) = h[N]
  BY <1>1, FlattenIs
<1> HIDE DEF N
<1> DEFINE S == {n \in Nat : n <= N => Alike(g[3 * n], h[n])}
<1>5. 0 \in S
  <2>1. g[3 * 0] = <<>> /\ h[0] = <<>>
    <3>1. 3 * 0 = 0
      OBVIOUS
    <3>2. QED
      BY <1>3, <1>4, <3>1 DEF FlattenSteps
  <2>2. Alike(<<>>, <<>>)
    BY DEF Alike, ToSet
  <2>3. QED
    BY <2>1, <2>2
<1>6. ASSUME NEW n \in Nat, n \in S PROVE n + 1 \in S
  <2> SUFFICES ASSUME n + 1 <= N PROVE Alike(g[3 * (n + 1)], h[n + 1])
    OBVIOUS
  <2>1. Alike(g[3 * n], h[n])
    BY <1>2, <1>6
  <2>2. n + 1 \in 1..N /\ 3 * ((n + 1) - 1) = 3 * n /\ (n + 1) - 1 = n
    BY <1>2
  <2>3. h[n + 1] = h[n] \o full[n + 1]
    BY <1>4, <2>2 DEF FlattenSteps
  <2>4. /\ 3 * n + 1 \in 1..3 * N /\ (3 * n + 1) - 1 = 3 * n
        /\ 3 * n + 2 \in 1..3 * N /\ (3 * n + 2) - 1 = 3 * n + 1
        /\ 3 * n + 3 \in 1..3 * N /\ (3 * n + 3) - 1 = 3 * n + 2
        /\ 3 * (n + 1) = 3 * n + 3
    BY <1>2
  <2>5. /\ g[3 * n + 1] = g[3 * n] \o thin[3 * n + 1]
        /\ g[3 * n + 2] = g[3 * n + 1] \o thin[3 * n + 2]
        /\ g[3 * (n + 1)] = g[3 * n + 2] \o thin[3 * n + 3]
    BY <1>3, <2>4 DEF FlattenSteps
  <2>6. /\ Alike(thin[3 * n + k], full[n + 1])
        /\ \A l \in (1..3) \ {k} : thin[3 * n + l] = <<>>
    BY <2>2 DEF Thinned, N
  <2>7. CASE k = 1
    <3>1. /\ Alike(thin[3 * n + 1], full[n + 1])
          /\ thin[3 * n + 2] = <<>> /\ thin[3 * n + 3] = <<>>
      BY <2>6, <2>7
    <3>2. Alike(g[3 * n + 1], h[n + 1])
      BY <2>1, <2>3, <2>5, <3>1, AlikeConcat
    <3>3. Alike(g[3 * n + 2], h[n + 1])
      BY <2>5, <3>1, <3>2, AlikeEmpty
    <3>4. QED
      BY <2>5, <3>1, <3>3, AlikeEmpty
  <2>8. CASE k = 2
    <3>1. /\ Alike(thin[3 * n + 2], full[n + 1])
          /\ thin[3 * n + 1] = <<>> /\ thin[3 * n + 3] = <<>>
      BY <2>6, <2>8
    <3>2. Alike(g[3 * n + 1], h[n])
      BY <2>1, <2>5, <3>1, AlikeEmpty
    <3>3. Alike(g[3 * n + 2], h[n + 1])
      BY <2>3, <2>5, <3>1, <3>2, AlikeConcat
    <3>4. QED
      BY <2>5, <3>1, <3>3, AlikeEmpty
  <2>9. CASE k = 3
    <3>1. /\ Alike(thin[3 * n + 3], full[n + 1])
          /\ thin[3 * n + 1] = <<>> /\ thin[3 * n + 2] = <<>>
      BY <2>6, <2>9
    <3>2. Alike(g[3 * n + 1], h[n])
      BY <2>1, <2>5, <3>1, AlikeEmpty
    <3>3. Alike(g[3 * n + 2], h[n])
      BY <2>5, <3>1, <3>2, AlikeEmpty
    <3>4. QED
      BY <2>3, <2>5, <3>1, <3>3, AlikeConcat
  <2>10. QED
    BY <2>7, <2>8, <2>9
<1> HIDE DEF S
<1>7. N \in S
  BY <1>2, <1>5, <1>6, Induct
<1>8. QED
  BY <1>2, <1>3, <1>4, <1>7 DEF S

\* The elements of a sequence put behind another one.
LEMMA ConcatAt ==
    ASSUME NEW T, NEW a \in Seq(T), NEW b \in Seq(T)
    PROVE  /\ Len(a \o b) = Len(a) + Len(b)
           /\ \A j \in 1..Len(a) : (a \o b)[j] = a[j]
           /\ \A j \in 1..Len(b) : (a \o b)[Len(a) + j] = b[j]
OBVIOUS

\* The list of metrics has three of every sample, in the order of the samples.
LEMMA MetricsListed ==
    ASSUME NEW c, c.samples \in Seq(ToSet(c.samples))
    PROVE  LET metrics == M!ResourceMetrics(c).metrics
           IN  /\ DOMAIN metrics = 1..(3 * Len(c.samples)) /\ Len(metrics) = 3 * Len(c.samples)
               /\ \A i \in 1..Len(c.samples), k \in 1..3 :
                     metrics[3 * (i - 1) + k] = M!Listed(c.samples[i])[k]
<1> DEFINE metrics == M!ResourceMetrics(c).metrics
           lists == [i \in DOMAIN c.samples |-> M!Listed(c.samples[i])]
           N == Len(c.samples)
           T == UNION {ToSet(lists[i]) : i \in DOMAIN lists}
<1>1. N \in Nat /\ DOMAIN c.samples = 1..N
  <2> DEFINE U == ToSet(c.samples)
             s == c.samples
  <2> HIDE DEF U, s
  <2>1. s \in Seq(U)
    BY DEF U, s
  <2>2. Len(s) \in Nat /\ DOMAIN s = 1..Len(s)
    BY <2>1
  <2>3. QED
    BY <2>2 DEF s
<1>2. DOMAIN lists = 1..N /\ \A i \in 1..N : lists[i] = M!Listed(c.samples[i])
  BY <1>1
<1>3. \A i \in 1..N : /\ DOMAIN lists[i] = 1..3 /\ Len(lists[i]) = 3
                      /\ lists[i] \in Seq(ToSet(lists[i]))
  <2> SUFFICES ASSUME NEW i \in 1..N
               PROVE  /\ DOMAIN lists[i] = 1..3 /\ Len(lists[i]) = 3
                      /\ lists[i] \in Seq(ToSet(lists[i]))
    OBVIOUS
  <2>1. PICK x, y, z : lists[i] = <<x, y, z>>
    BY <1>2 DEF M!Listed
  <2> HIDE DEF lists
  <2>2. <<x, y, z>> \in Seq({x, y, z})
    OBVIOUS
  <2>3. <<x, y, z>> \in Seq(ToSet(<<x, y, z>>))
    BY <2>2, OfItsElements
  <2>4. QED
    BY <2>1, <2>3
<1>4. metrics = FlattenSeq(lists)
  BY SameFlatten DEF M!ResourceMetrics
<1>9. lists = [i \in 1..N |-> lists[i]]
  BY <1>2
<1> HIDE DEF lists, N
<1>5. lists \in Seq(Seq(T)) /\ Len(lists) = N
  <2>1. \A i \in 1..N : ToSet(lists[i]) \subseteq T
    BY <1>2
  <2> HIDE DEF T
  <2>2. \A i \in 1..N : lists[i] \in Seq(T)
    BY <1>3, <2>1, SeqWiden
  <2>3. lists \in [1..N -> Seq(T)]
    BY <1>9, <2>2
  <2>4. lists \in Seq(Seq(T))
    BY <1>1, <2>3, SeqDef
  <2>5. QED
    BY <1>1, <1>2, <2>4
<1> HIDE DEF T
<1>6. PICK g : /\ FlattenSteps(g, lists, N) /\ \A i \in 0..N : g[i] \in Seq(T)
               /\ FlattenSeq(lists) = g[N]
  BY <1>5, FlattenIs
<1> DEFINE Right(n) == /\ Len(g[n]) = 3 * n
                       /\ \A i \in 1..n, k \in 1..3 : g[n][3 * (i - 1) + k] = lists[i][k]
           S == {n \in Nat : n <= N => Right(n)}
<1>7. 0 \in S
  BY <1>6 DEF FlattenSteps
<1>8. ASSUME NEW n \in Nat, n \in S PROVE n + 1 \in S
  <2> SUFFICES ASSUME n + 1 <= N PROVE Right(n + 1)
    OBVIOUS
  <2>1. Right(n) /\ n \in 0..N /\ n + 1 \in 0..N /\ n + 1 \in 1..N /\ (n + 1) - 1 = n
    BY <1>1, <1>8
  <2>2. g[n + 1] = g[n] \o lists[n + 1]
    BY <1>6, <2>1 DEF FlattenSteps
  <2>3. /\ g[n] \in Seq(T) /\ lists[n + 1] \in Seq(T)
        /\ Len(g[n]) = 3 * n /\ Len(lists[n + 1]) = 3
    BY <1>3, <1>5, <1>6, <2>1
  <2> DEFINE a == g[n]
             b == lists[n + 1]
  <2>4. Len(a \o b) = 3 * n + 3
    <3> HIDE DEF a, b
    <3>1. a \in Seq(T) /\ b \in Seq(T) /\ Len(a) = 3 * n /\ Len(b) = 3
      BY <2>3 DEF a, b
    <3>2. Len(a \o b) = Len(a) + Len(b)
      BY <3>1, ConcatAt
    <3>3. QED
      BY ONLY <3>1, <3>2
  <2>5. ASSUME NEW i \in 1..(n + 1), NEW k \in 1..3
        PROVE  (a \o b)[3 * (i - 1) + k] = lists[i][k]
    <3> HIDE DEF a, b
    <3>1. a \in Seq(T) /\ b \in Seq(T) /\ Len(a) = 3 * n /\ Len(b) = 3
      BY <2>3 DEF a, b
    <3>2. CASE i = n + 1
      <4>1. 3 * (i - 1) + k = 3 * n + k
        BY <3>2
      <4>2. (a \o b)[3 * n + k] = b[k]
        <5>0. a \in Seq(T) /\ b \in Seq(T)
          BY ONLY <3>1
        <5>1. \A j \in 1..Len(b) : (a \o b)[Len(a) + j] = b[j]
          BY ONLY <5>0, ConcatAt
        <5>2. (a \o b)[Len(a) + k] = b[k]
          BY ONLY <3>1, <5>1, k \in 1..3
        <5>3. QED
          BY ONLY <3>1, <5>2
      <4>3. QED
        BY <3>2, <4>1, <4>2 DEF b
    <3>3. CASE i # n + 1
      <4>1. i \in 1..n /\ 3 * (i - 1) + k \in 1..3 * n
        BY <3>3
      <4>2. (a \o b)[3 * (i - 1) + k] = a[3 * (i - 1) + k]
        BY <3>1, <4>1, ConcatAt
      <4>3. a[3 * (i - 1) + k] = lists[i][k]
        <5>1. \A j \in 1..n, l \in 1..3 : a[3 * (j - 1) + l] = lists[j][l]
          BY ONLY <2>1 DEF a
        <5>2. QED
          BY ONLY <4>1, <5>1, k \in 1..3
      <4>4. QED
        BY <4>2, <4>3
    <3>4. QED
      BY <3>2, <3>3
  <2>6. 3 * (n + 1) = 3 * n + 3
    OBVIOUS
  <2>7. QED
    BY <2>2, <2>4, <2>5, <2>6
<1> HIDE DEF S
<1>10. N \in S
  BY <1>1, <1>7, <1>8, Induct
<1>11. Right(N)
  BY <1>1, <1>10 DEF S
<1>12. DOMAIN metrics = 1..(3 * N) /\ Len(metrics) = 3 * N
  <2>1. metrics \in Seq(T)
    BY <1>1, <1>4, <1>6
  <2>2. Len(metrics) = 3 * N
    BY <1>4, <1>6, <1>11
  <2>3. QED
    BY <2>1, <2>2
<1>13. \A i \in 1..N, k \in 1..3 : metrics[3 * (i - 1) + k] = M!Listed(c.samples[i])[k]
  <2>1. metrics = g[N]
    BY <1>4, <1>6
  <2>2. \A i \in 1..N, k \in 1..3 : g[N][3 * (i - 1) + k] = lists[i][k]
    BY ONLY <1>11
  <2> HIDE DEF metrics
  <2>3. ASSUME NEW i \in 1..N, NEW k \in 1..3
        PROVE  metrics[3 * (i - 1) + k] = M!Listed(c.samples[i])[k]
    <3>1. g[N][3 * (i - 1) + k] = lists[i][k]
      BY ONLY <2>2, i \in 1..N, k \in 1..3
    <3>2. lists[i] = M!Listed(c.samples[i])
      BY <1>2
    <3>3. QED
      BY ONLY <2>1, <3>1, <3>2
  <2>4. QED
    BY <2>3
<1> HIDE DEF metrics
<1>14. QED
  BY <1>12, <1>13 DEF N, metrics

\* What is reported of the memory and the pools of a sample.
Parts(sample) == sample.memory \o sample.pools

\* A metric of the memory has a point of each area and each pool.
LEMMA FigurePoints ==
    ASSUME NEW sample, NEW figure,
           sample.memory \in Seq(ToSet(sample.memory)), sample.pools \in Seq(ToSet(sample.pools))
    PROVE  /\ Alike(M!MemoryPoints(sample, figure),
                    [j \in DOMAIN Parts(sample) |-> [value |-> Parts(sample)[j][figure]]])
           /\ \A j \in DOMAIN M!MemoryPoints(sample, figure) :
                 M!MemoryPoints(sample, figure)[j].of = "LastValue"
<1> DEFINE areas == [i \in DOMAIN sample.memory |-> M!AreaPoint(sample.memory[i], figure)]
           pools == [i \in DOMAIN sample.pools |-> M!PoolPoint(sample.pools[i], figure)]
           V(s) == [j \in DOMAIN s |-> [value |-> s[j][figure]]]
           m == sample.memory
           p == sample.pools
           T == ToSet(m) \union ToSet(p)
<1>1. M!MemoryPoints(sample, figure) = areas \o pools
  BY DEF M!MemoryPoints
<1>2. m \in Seq(T) /\ p \in Seq(T)
  BY SeqWiden
<1> HIDE DEF T
<1>3. /\ DOMAIN areas = DOMAIN m
      /\ \A j \in DOMAIN m : areas[j].value = m[j][figure] /\ areas[j].of = "LastValue"
  BY DEF M!AreaPoint, M!Pt
<1>4. /\ DOMAIN pools = DOMAIN p
      /\ \A j \in DOMAIN p : pools[j].value = p[j][figure] /\ pools[j].of = "LastValue"
  BY DEF M!PoolPoint, M!Pt
<1>5. areas = [j \in DOMAIN m |-> areas[j]] /\ pools = [j \in DOMAIN p |-> pools[j]]
  BY <1>3, <1>4
<1> HIDE DEF areas, pools, m, p
<1>6. ASSUME NEW s \in Seq(T)
      PROVE  /\ DOMAIN V(s) = DOMAIN s /\ DOMAIN s = 1..Len(s) /\ Len(s) \in Nat
             /\ V(s) \in Seq(ToSet(V(s))) /\ Len(V(s)) = Len(s)
             /\ \A j \in 1..Len(s) : V(s)[j].value = s[j][figure]
  <2> DEFINE R == {[value |-> s[j][figure]] : j \in 1..Len(s)}
  <2>1. DOMAIN s = 1..Len(s) /\ Len(s) \in Nat
    OBVIOUS
  <2>2. V(s) \in [1..Len(s) -> R]
    BY <2>1
  <2>3. V(s) \in Seq(R) /\ Len(V(s)) = Len(s)
    <3> HIDE DEF R, V
    <3>1. QED
      BY <2>1, <2>2, SeqDef
  <2>4. V(s) \in Seq(ToSet(V(s)))
    <3> HIDE DEF R, V
    <3>1. QED
      BY <2>3, OfItsElements
  <2>5. QED
    BY <2>1, <2>3, <2>4
<1>7. ASSUME NEW s \in Seq(T), NEW pts, DOMAIN pts = DOMAIN s, pts = [j \in DOMAIN s |-> pts[j]],
             \A j \in DOMAIN s : pts[j].value = s[j][figure]
      PROVE  Alike(pts, V(s))
  <2> HIDE DEF V
  <2> DEFINE R == {pts[j] : j \in 1..Len(s)}
  <2>1. DOMAIN s = 1..Len(s) /\ Len(s) \in Nat
    OBVIOUS
  <2>2. pts \in [1..Len(s) -> R]
    BY <1>7, <2>1
  <2>3. pts \in Seq(R) /\ Len(pts) = Len(s)
    <3> HIDE DEF R
    <3>1. QED
      BY <2>1, <2>2, SeqDef
  <2>4. pts \in Seq(ToSet(pts))
    <3> HIDE DEF R
    <3>1. QED
      BY <2>3, OfItsElements
  <2>5. QED
    BY <1>6, <1>7, <2>1, <2>3, <2>4 DEF Alike
<1>8. Alike(areas, V(m)) /\ Alike(pools, V(p))
  <2> HIDE DEF V
  <2>1. Alike(areas, V(m))
    BY <1>2, <1>3, <1>5, <1>7
  <2>2. Alike(pools, V(p))
    BY <1>2, <1>4, <1>5, <1>7
  <2>3. QED
    BY <2>1, <2>2
<1>9. Alike(areas \o pools, V(m) \o V(p))
  <2> HIDE DEF V
  <2>1. QED
    BY <1>8, AlikeConcat
<1>10. ASSUME NEW a, NEW b, NEW d, Alike(a, b), d \in Seq(ToSet(d)), Len(d) = Len(b),
              \A j \in 1..Len(d) : d[j].value = b[j].value
       PROVE  Alike(a, d)
  BY <1>10 DEF Alike
<1>11. m \o p \in Seq(T)
  BY <1>2
<1>12. /\ Len(V(m \o p)) = Len(V(m) \o V(p))
       /\ \A j \in 1..Len(V(m \o p)) : V(m \o p)[j].value = (V(m) \o V(p))[j].value
  <2>0. /\ Len(m) \in Nat /\ Len(p) \in Nat
        /\ Len(m \o p) = Len(m) + Len(p)
        /\ \A j \in 1..Len(m) : (m \o p)[j] = m[j]
        /\ \A j \in 1..Len(p) : (m \o p)[Len(m) + j] = p[j]
    BY <1>2, ConcatAt
  <2>1. /\ V(m) \in Seq(ToSet(V(m))) /\ V(p) \in Seq(ToSet(V(p)))
        /\ Len(V(m)) = Len(m) /\ Len(V(p)) = Len(p) /\ Len(V(m \o p)) = Len(m \o p)
    BY <1>2, <1>6, <1>11
  <2> DEFINE U == ToSet(V(m)) \union ToSet(V(p))
  <2> HIDE DEF V
  <2>2. V(m) \in Seq(U) /\ V(p) \in Seq(U)
    BY <2>1, SeqWiden
  <2> HIDE DEF U
  <2>3. /\ Len(V(m) \o V(p)) = Len(m) + Len(p)
        /\ \A j \in 1..Len(m) : (V(m) \o V(p))[j] = V(m)[j]
        /\ \A j \in 1..Len(p) : (V(m) \o V(p))[Len(m) + j] = V(p)[j]
    <3> DEFINE x == V(m)
               y == V(p)
    <3> HIDE DEF x, y
    <3>1. x \in Seq(U) /\ y \in Seq(U)
      BY <2>2 DEF x, y
    <3>2. /\ Len(x \o y) = Len(x) + Len(y)
          /\ \A j \in 1..Len(x) : (x \o y)[j] = x[j]
          /\ \A j \in 1..Len(y) : (x \o y)[Len(x) + j] = y[j]
      BY ONLY <3>1, ConcatAt
    <3>3. Len(x) = Len(m) /\ Len(y) = Len(p)
      BY <2>1 DEF x, y
    <3>4. /\ Len(x \o y) = Len(m) + Len(p)
          /\ \A j \in 1..Len(m) : (x \o y)[j] = x[j]
          /\ \A j \in 1..Len(p) : (x \o y)[Len(m) + j] = y[j]
      BY ONLY <3>2, <3>3
    <3>5. QED
      BY ONLY <3>4 DEF x, y
  <2>4. /\ \A j \in 1..Len(m \o p) : V(m \o p)[j].value = (m \o p)[j][figure]
        /\ \A j \in 1..Len(m) : V(m)[j].value = m[j][figure]
        /\ \A j \in 1..Len(p) : V(p)[j].value = p[j][figure]
    BY <1>2, <1>6, <1>11
  <2>5. ASSUME NEW j \in 1..Len(V(m \o p))
        PROVE  V(m \o p)[j].value = (V(m) \o V(p))[j].value
    <3>1. CASE j \in 1..Len(m)
      <4>1. j \in 1..Len(m \o p)
        BY <2>1
      <4>2. /\ V(m \o p)[j].value = (m \o p)[j][figure] /\ (m \o p)[j] = m[j]
            /\ (V(m) \o V(p))[j].value = m[j][figure]
        BY <2>0, <2>3, <2>4, <3>1, <4>1
      <4>3. QED
        BY <4>2
    <3>2. CASE j \notin 1..Len(m)
      <4>1. j \in 1..Len(m \o p) /\ j - Len(m) \in 1..Len(p) /\ j = Len(m) + (j - Len(m))
        BY <2>0, <2>1, <3>2
      <4> DEFINE i == j - Len(m)
      <4> HIDE DEF i
      <4>2. i \in 1..Len(p) /\ j = Len(m) + i
        BY <4>1 DEF i
      <4>3. /\ V(m \o p)[j].value = (m \o p)[j][figure] /\ (m \o p)[j] = p[i]
            /\ (V(m) \o V(p))[j].value = p[i][figure]
        BY <2>0, <2>3, <2>4, <4>1, <4>2
      <4>4. QED
        BY <4>3
    <3>3. QED
      BY <3>1, <3>2
  <2>6. QED
    BY <2>0, <2>1, <2>3, <2>5
<1>13. Alike(areas \o pools, V(m \o p))
  <2>1. V(m \o p) \in Seq(ToSet(V(m \o p)))
    BY <1>6, <1>11
  <2> HIDE DEF V
  <2>2. QED
    BY <1>9, <1>10, <1>12, <2>1
<1>14. \A j \in DOMAIN (areas \o pools) : (areas \o pools)[j].of = "LastValue"
  <2> SUFFICES ASSUME NEW j \in DOMAIN (areas \o pools)
               PROVE  (areas \o pools)[j].of = "LastValue"
    OBVIOUS
  <2> DEFINE U == ToSet(areas) \union ToSet(pools)
  <2>1. areas \in Seq(U) /\ pools \in Seq(U)
    BY <1>8, SeqWiden DEF Alike
  <2> HIDE DEF U
  <2>2. PICK i : \/ i \in DOMAIN areas /\ (areas \o pools)[j] = areas[i]
                 \/ i \in DOMAIN pools /\ (areas \o pools)[j] = pools[i]
    <3>1. CASE j \in DOMAIN areas
      BY <2>1, <3>1
    <3>2. CASE j \notin DOMAIN areas
      <4>1. j - Len(areas) \in DOMAIN pools /\ (areas \o pools)[j] = pools[j - Len(areas)]
        BY <2>1, <3>2
      <4>2. QED
        BY <4>1
    <3>3. QED
      BY <3>1, <3>2
  <2>3. QED
    BY <1>3, <1>4, <2>2
<1>15. Parts(sample) = m \o p
  BY DEF Parts, m, p
<1>16. [j \in DOMAIN Parts(sample) |-> [value |-> Parts(sample)[j][figure]]] = V(m \o p)
  BY <1>15
<1>17. QED
  BY ONLY <1>1, <1>13, <1>14, <1>16

\* A metric with points of that kind is sent as a gauge with as many points, of
\* the same values; one without points has none.
LEMMA GaugeOf ==
    ASSUME NEW metric, NEW b, Alike(metric.points, b),
           \A j \in DOMAIN metric.points : metric.points[j].of = "LastValue"
    PROVE  /\ Alike(M!OtlpMetric(metric).data.points, b)
           /\ M!OtlpMetric(metric).name = metric.name
<1> DEFINE p == metric.points
           T == ToSet(p)
           q == M!OtlpMetric(metric).data.points
<1> HIDE DEF T
<1>1. p \in Seq(T) /\ DOMAIN p = 1..Len(p) /\ Len(p) \in Nat
  <2>1. p \in Seq(T)
    BY DEF Alike, T
  <2> HIDE DEF p
  <2>2. QED
    BY <2>1
<1>2. CASE p = <<>>
  <2>1. M!AggregationType(metric) = "Drop"
    BY <1>2 DEF M!AggregationType
  <2>2. q = <<>>
    BY <2>1 DEF M!OtlpMetric
  <2>3. q = p
    BY <1>2, <2>2
  <2>4. QED
    BY <2>3 DEF M!OtlpMetric
<1>3. CASE p # <<>>
  <2>1. 1 \in DOMAIN p
    <3> HIDE DEF p
    <3>1. QED
      BY <1>1, <1>3
  <2>2. M!AggregationType(metric) = "LastValue"
    BY <1>3, <2>1 DEF M!AggregationType
  <2>3. q = [j \in DOMAIN p |-> M!NumberPoint(metric, p[j])]
    BY <2>2 DEF M!OtlpMetric, M!Gauge
  <2>4. \A j \in DOMAIN p : M!NumberPoint(metric, p[j]).value = p[j].value
    BY DEF M!NumberPoint
  <2> DEFINE R == {M!NumberPoint(metric, p[j]) : j \in DOMAIN p}
  <2>5. q \in [1..Len(p) -> R]
    <3> HIDE DEF p, q
    <3>1. QED
      BY <1>1, <2>3
  <2>6. q \in Seq(R) /\ Len(q) = Len(p)
    <3> HIDE DEF R, p, q
    <3>1. QED
      BY <1>1, <2>5, SeqDef
  <2>7. q \in Seq(ToSet(q))
    <3> HIDE DEF R, q
    <3>1. QED
      BY <2>6, OfItsElements
  <2>8. \A j \in 1..Len(q) : q[j].value = p[j].value
    <3> HIDE DEF p, q
    <3>1. QED
      BY <1>1, <2>3, <2>4, <2>6
  <2>9. b \in Seq(ToSet(b)) /\ Len(p) = Len(b) /\ \A j \in 1..Len(p) : p[j].value = b[j].value
    BY DEF Alike
  <2>10. Alike(q, b)
    <3> HIDE DEF p, q
    <3>1. QED
      BY <2>6, <2>7, <2>8, <2>9 DEF Alike
  <2>11. QED
    BY <2>10 DEF M!OtlpMetric
<1>4. QED
  BY <1>2, <1>3

\* What a metric becomes is told by the first of its points.
Kinds(metric) ==
    M!OtlpMetric(metric).data.kind =
        CASE metric.points = <<>> -> "none"
          [] metric.points # <<>> /\ metric.instrument = "Histogram" -> "histogram"
          [] OTHER -> "gauge"

\* Without points it is none of them.
LEMMA KindOfEmpty ==
    ASSUME NEW metric, metric.points = <<>>
    PROVE  Kinds(metric)
<1>1. M!AggregationType(metric) = "Drop"
  BY DEF M!AggregationType
<1>2. M!OtlpMetric(metric).data.kind = "none"
  BY <1>1 DEF M!OtlpMetric
<1>3. QED
  BY <1>2 DEF Kinds

\* With points it is what they are.
LEMMA KindOfPoints ==
    ASSUME NEW metric, metric.points # <<>>,
           \/ metric.points[1].of = "LastValue" /\ metric.instrument # "Histogram"
           \/ metric.points[1].of = "Histogram" /\ metric.instrument = "Histogram"
    PROVE  Kinds(metric)
<1>1. M!AggregationType(metric) = metric.points[1].of
  BY DEF M!AggregationType
<1>2. CASE metric.points[1].of = "LastValue" /\ metric.instrument # "Histogram"
  <2>1. M!OtlpMetric(metric).data.kind = "gauge"
    BY <1>1, <1>2 DEF M!OtlpMetric, M!Gauge
  <2>2. QED
    BY <1>2, <2>1 DEF Kinds
<1>3. CASE metric.points[1].of = "Histogram" /\ metric.instrument = "Histogram"
  <2>1. M!OtlpMetric(metric).data.kind = "histogram"
    BY <1>1, <1>3 DEF M!OtlpMetric, M!Histogram
  <2>2. QED
    BY <1>3, <2>1 DEF Kinds
<1>4. QED
  BY <1>2, <1>3

\* All metrics of a sample, those that are left out among them.
LEMMA KindsOfSample ==
    ASSUME NEW sample, sample.memory \in Seq(ToSet(sample.memory)),
           sample.pools \in Seq(ToSet(sample.pools)), sample.gc \in Seq(ToSet(sample.gc)),
           NEW metric \in M!Made(sample)
    PROVE  Kinds(metric)
<1>1. ASSUME NEW figure, metric.points = M!MemoryPoints(sample, figure),
             metric.instrument = "UpDownCounter"
      PROVE  Kinds(metric)
  <2> DEFINE p == M!MemoryPoints(sample, figure)
             T == ToSet(p)
  <2>1. p \in Seq(T) /\ \A j \in DOMAIN p : p[j].of = "LastValue"
    <3> DEFINE b == [j \in DOMAIN Parts(sample) |-> [value |-> Parts(sample)[j][figure]]]
    <3>1. /\ Alike(M!MemoryPoints(sample, figure), b)
          /\ \A j \in DOMAIN M!MemoryPoints(sample, figure) :
                M!MemoryPoints(sample, figure)[j].of = "LastValue"
      BY FigurePoints
    <3>2. Alike(p, b) => p \in Seq(T)
      BY DEF Alike
    <3>3. QED
      BY <3>1, <3>2
  <2>2. CASE p = <<>>
    BY <1>1, <2>2, KindOfEmpty
  <2>3. CASE p # <<>>
    <3>1. 1 \in DOMAIN p
      <4> HIDE DEF p, T
      <4>1. QED
        BY <2>1, <2>3
    <3>2. p[1].of = "LastValue"
      BY <2>1, <3>1
    <3>3. QED
      BY <1>1, <2>3, <3>2, KindOfPoints
  <2>4. QED
    BY <2>2, <2>3
<1>2. ASSUME NEW f \in DOMAIN M!MemoryMetrics(sample), metric = M!MemoryMetrics(sample)[f]
      PROVE  Kinds(metric)
  <2> DEFINE Of(name, points) == M!Metric(name, "UpDownCounter", sample, points)
             P(figure) == M!MemoryPoints(sample, figure)
  <2>1. \A name, points : /\ Of(name, points).instrument = "UpDownCounter"
                          /\ Of(name, points).points = points
    BY DEF M!Metric
  <2>2. metric \in {Of("jvm.memory.used", P("used")), Of("jvm.memory.committed", P("committed")),
                    Of("jvm.memory.init", P("init")), Of("jvm.memory.limit", P("max")),
                    Of("jvm.memory.pool.use", <<>>), Of("jvm.memory.pool.init", <<>>)}
    <3> HIDE DEF P
    <3> DEFINE used == P("used")
               committed == P("committed")
               init == P("init")
               limit == P("max")
    <3>1. metric =
             [used      |-> Of("jvm.memory.used", used),
              committed |-> Of("jvm.memory.committed", committed),
              init      |-> Of("jvm.memory.init", init),
              limit     |-> Of("jvm.memory.limit", limit),
              poolUse   |-> Of("jvm.memory.pool.use", <<>>),
              poolLimit |-> Of("jvm.memory.pool.init", <<>>),
              poolInit  |-> Of("jvm.memory.pool.init", <<>>),
              poolCommitted |-> Of("jvm.memory.pool.init", <<>>)][f]
      BY <1>2 DEF M!MemoryMetrics, P
    <3>2. f \in {"used", "committed", "init", "limit", "poolUse", "poolLimit", "poolInit",
                 "poolCommitted"}
      BY <1>2 DEF M!MemoryMetrics
    <3> HIDE DEF Of, used, committed, init, limit
    <3>3. metric \in {Of("jvm.memory.used", used), Of("jvm.memory.committed", committed),
                      Of("jvm.memory.init", init), Of("jvm.memory.limit", limit),
                      Of("jvm.memory.pool.use", <<>>), Of("jvm.memory.pool.init", <<>>)}
      BY ONLY <3>1, <3>2
    <3>4. QED
      BY <3>3 DEF used, committed, init, limit
  <2> HIDE DEF Of, P
  <2>3. /\ metric.instrument = "UpDownCounter"
        /\ metric.points = <<>> \/ \E figure : metric.points = P(figure)
    BY <2>1, <2>2
  <2>4. QED
    BY <1>1, <2>3, KindOfEmpty DEF P
<1>3. CASE metric = M!GcMetric(sample)
  <2>1. /\ metric.instrument = "Histogram" /\ DOMAIN metric.points = DOMAIN sample.gc
        /\ \A i \in DOMAIN sample.gc : metric.points[i].of = "Histogram"
    BY <1>3 DEF M!GcMetric, M!Metric
  <2>2. CASE metric.points = <<>>
    BY <2>2, KindOfEmpty
  <2>3. CASE metric.points # <<>>
    <3>1. 1 \in DOMAIN sample.gc
      <4> DEFINE gc == sample.gc
                 T == ToSet(gc)
                 At1(i) == [of |-> "Histogram", type |-> "double", count |-> 0, sum |-> 0,
                            minMax |-> TRUE,
                            attributes |-> M!Key("jvm.gc.name", M!getGCPhase(gc[i]))]
      <4>1. gc \in Seq(T) /\ metric.points = [i \in DOMAIN gc |-> At1(i)]
        BY <1>3 DEF M!GcMetric, M!Metric
      <4>2. gc # <<>>
        <5> SUFFICES ASSUME gc = <<>> PROVE FALSE
          OBVIOUS
        <5> HIDE DEF gc, T, At1
        <5>1. DOMAIN gc = {}
          OBVIOUS
        <5>2. metric.points = [i \in {} |-> At1(i)]
          BY <4>1, <5>1
        <5>3. <<>> = [i \in {} |-> At1(i)]
          OBVIOUS
        <5>4. QED
          BY <2>3, <5>2, <5>3
      <4> HIDE DEF gc, T, At1
      <4>3. 1 \in DOMAIN gc
        BY <4>1, <4>2
      <4>4. QED
        BY <4>3 DEF gc
    <3>2. QED
      BY <2>1, <2>3, <3>1, KindOfPoints
  <2>4. QED
    BY <2>2, <2>3
<1>4. CASE metric = M!CpuMetric(sample)
  <2>1. /\ metric.instrument = "UpDownCounter" /\ metric.points # <<>>
        /\ metric.points[1].of = "LastValue"
    BY <1>4 DEF M!CpuMetric, M!Metric, M!Pt
  <2>2. QED
    BY <2>1, KindOfPoints
<1>5. CASE metric = M!ThreadMetric(sample)
  <2>1. /\ metric.instrument = "UpDownCounter" /\ 1 \in DOMAIN metric.points
        /\ metric.points[1].of = "LastValue"
    BY <1>5 DEF M!ThreadMetric, M!Metric, M!Pt
  <2>2. metric.points # <<>>
    BY <2>1
  <2>3. QED
    BY <2>1, <2>2, KindOfPoints
<1>6. CASE metric \in ToSet(M!ClassMetrics(sample))
  <2> DEFINE Of(name, i) == M!Metric(name, "Counter", sample,
                                     <<M!Pt("int64_t", sample.class[i], {})>>)
  <2>1. \A name, i : /\ Of(name, i).instrument = "Counter" /\ Of(name, i).points # <<>>
                     /\ Of(name, i).points[1].of = "LastValue"
    BY DEF M!Metric, M!Pt
  <2>2. M!ClassMetrics(sample) = << Of("jvm.class.loaded", 1), Of("jvm.class.unloaded", 2),
                                    Of("jvm.class.count", 3) >>
    BY DEF M!ClassMetrics
  <2> HIDE DEF Of
  <2>3. metric \in {Of("jvm.class.loaded", 1), Of("jvm.class.unloaded", 2),
                    Of("jvm.class.count", 3)}
    BY <1>6, <2>2 DEF ToSet
  <2>4. QED
    BY <2>1, <2>3, KindOfPoints
<1>7. M!ToSet(M!ClassMetrics(sample)) = ToSet(M!ClassMetrics(sample))
  BY DEF ToSet, M!ToSet
<1>8. \/ metric \in {M!MemoryMetrics(sample)[f] : f \in DOMAIN M!MemoryMetrics(sample)}
      \/ metric \in {M!GcMetric(sample), M!CpuMetric(sample), M!ThreadMetric(sample)}
      \/ metric \in M!ToSet(M!ClassMetrics(sample))
  BY DEF M!Made
<1>9. QED
  BY <1>2, <1>3, <1>4, <1>5, <1>6, <1>7, <1>8

\* Every place in the list is that of one of the three metrics of a sample.
LEMMA Thirds ==
    ASSUME NEW n \in Nat, NEW j \in 1..(3 * n)
    PROVE  \E i \in 1..n, k \in 1..3 : j = 3 * (i - 1) + k
<1> DEFINE S == {l \in Nat : \A q \in 1..(3 * l) : \E i \in 1..l, k \in 1..3 : q = 3 * (i - 1) + k}
<1>1. 0 \in S
  OBVIOUS
<1>2. ASSUME NEW l \in Nat, l \in S PROVE l + 1 \in S
  <2> SUFFICES ASSUME NEW q \in 1..(3 * (l + 1))
               PROVE  \E i \in 1..(l + 1), k \in 1..3 : q = 3 * (i - 1) + k
    OBVIOUS
  <2>1. CASE q \in 1..(3 * l)
    <3>1. PICK i \in 1..l, k \in 1..3 : q = 3 * (i - 1) + k
      BY <1>2, <2>1
    <3>2. i \in 1..(l + 1)
      OBVIOUS
    <3>3. QED
      BY <3>1, <3>2
  <2>2. CASE q \notin 1..(3 * l)
    <3>1. q - 3 * l \in 1..3 /\ q = 3 * ((l + 1) - 1) + (q - 3 * l) /\ l + 1 \in 1..(l + 1)
      BY <2>2
    <3>2. QED
      BY <3>1
  <2>3. QED
    BY <2>1, <2>2
<1> HIDE DEF S
<1>3. n \in S
  BY <1>1, <1>2, Induct
<1>4. QED
  BY <1>3 DEF S

\* The name of each listed metric, and the figure it carries.
ListedNames == <<"jvm.memory.used", "jvm.memory.committed", "jvm.memory.init">>
ListedFigures == <<"used", "committed", "init">>

\* A listed metric is sent under its name, with the values of its figure.
LEMMA ListedMetric ==
    ASSUME NEW sample, sample.memory \in Seq(ToSet(sample.memory)),
           sample.pools \in Seq(ToSet(sample.pools)), NEW k \in 1..3
    PROVE  LET metric == M!Listed(sample)[k]
               figure == ListedFigures[k]
           IN  /\ M!OtlpMetric(metric).name = ListedNames[k]
               /\ Alike(M!OtlpMetric(metric).data.points,
                        [j \in DOMAIN Parts(sample) |-> [value |-> Parts(sample)[j][figure]]])
<1> DEFINE metric == M!Listed(sample)[k]
           figure == ListedFigures[k]
           b == [j \in DOMAIN Parts(sample) |-> [value |-> Parts(sample)[j][figure]]]
           p == M!MemoryPoints(sample, figure)
<1>1. metric = M!Metric(ListedNames[k], "UpDownCounter", sample, p)
  <2> DEFINE Of(name, f) == M!Metric(name, "UpDownCounter", sample, M!MemoryPoints(sample, f))
  <2>1. M!Listed(sample) = << Of("jvm.memory.used", "used"),
                              Of("jvm.memory.committed", "committed"),
                              Of("jvm.memory.init", "init") >>
    BY DEF M!Listed, M!MemoryMetrics
  <2> HIDE DEF Of
  <2>2. M!Listed(sample)[k] = Of(ListedNames[k], ListedFigures[k])
    BY <2>1 DEF ListedNames, ListedFigures
  <2>3. QED
    BY <2>2 DEF Of
<1>2. metric.name = ListedNames[k] /\ metric.points = p
  BY <1>1 DEF M!Metric
<1>3. Alike(p, b) /\ \A j \in DOMAIN p : p[j].of = "LastValue"
  BY FigurePoints
<1> HIDE DEF metric, b, p
<1>4. /\ Alike(M!OtlpMetric(metric).data.points, b)
      /\ M!OtlpMetric(metric).name = metric.name
  BY <1>2, <1>3, GaugeOf
<1>5. QED
  BY <1>2, <1>4 DEF metric, b

\* A collection becomes three metrics of each sample, and its figures come
\* through under each name.
LEMMA CollectionFaithful ==
    ASSUME NEW c \in Collection
    PROVE  /\ Len(M!MetricsRequest(c).metrics) = 3 * Len(c.samples)
           /\ \A k \in 1..3 :
                 Figures(Exports(M!MetricsRequest(c), ListedNames[k])) =
                 Figures(Reported(c, ListedFigures[k]))
<1> DEFINE metrics == M!ResourceMetrics(c).metrics
           sent == M!MetricsRequest(c).metrics
           N == Len(c.samples)
<1>1. /\ c.samples \in Seq(ToSet(c.samples)) /\ N \in Nat /\ DOMAIN c.samples = 1..N
      /\ \A i \in DOMAIN c.samples :
            /\ c.samples[i].memory \in Seq(ToSet(c.samples[i].memory))
            /\ c.samples[i].pools \in Seq(ToSet(c.samples[i].pools))
  <2>1. c.samples \in Seq(ToSet(c.samples))
    BY IngestionAssumption
  <2> DEFINE U == ToSet(c.samples)
             s == c.samples
  <2> HIDE DEF U, s
  <2>2. s \in Seq(U)
    BY <2>1 DEF U, s
  <2>3. Len(s) \in Nat /\ DOMAIN s = 1..Len(s)
    BY <2>2
  <2>4. QED
    BY <2>1, <2>3, IngestionAssumption DEF s
<1>2. /\ DOMAIN metrics = 1..(3 * N) /\ Len(metrics) = 3 * N
      /\ \A i \in 1..N, k \in 1..3 : metrics[3 * (i - 1) + k] = M!Listed(c.samples[i])[k]
  <2>1. c.samples \in Seq(ToSet(c.samples))
    BY ONLY <1>1
  <2>2. QED
    BY ONLY <2>1, MetricsListed
<1>3. sent = [j \in DOMAIN metrics |-> M!OtlpMetric(metrics[j])]
  BY DEF M!MetricsRequest
<1> HIDE DEF metrics, sent, N
<1>4. DOMAIN sent = 1..(3 * N) /\ Len(sent) = 3 * N
  <2> DEFINE R == {M!OtlpMetric(metrics[j]) : j \in 1..(3 * N)}
  <2>1. sent \in [1..(3 * N) -> R]
    BY <1>2, <1>3
  <2> HIDE DEF R
  <2>2. 3 * N \in Nat
    BY <1>1
  <2>3. QED
    BY <2>1, <2>2, SeqDef
<1>5. ASSUME NEW i \in 1..N, NEW k \in 1..3
      PROVE  sent[3 * (i - 1) + k] = M!OtlpMetric(M!Listed(c.samples[i])[k])
  <2> DEFINE j == 3 * (i - 1) + k
  <2>1. j \in 1..(3 * N)
    BY <1>1
  <2>2. metrics[j] = M!Listed(c.samples[i])[k]
    BY <1>2
  <2> HIDE DEF j
  <2>3. sent[j] = M!OtlpMetric(metrics[j])
    BY <1>2, <1>3, <2>1
  <2>4. QED
    BY <2>2, <2>3 DEF j
<1>6. ASSUME NEW k \in 1..3
      PROVE  Figures(Exports(M!MetricsRequest(c), ListedNames[k])) =
             Figures(Reported(c, ListedFigures[k]))
  <2> DEFINE name == ListedNames[k]
             Of(sample) == [j \in DOMAIN Parts(sample) |->
                               [value |-> Parts(sample)[j][ListedFigures[k]]]]
             thin == [j \in DOMAIN sent |->
                         IF sent[j].name = name THEN sent[j].data.points ELSE <<>>]
             full == [i \in DOMAIN c.samples |-> Of(c.samples[i])]
             TT == UNION {ToSet(thin[j]) : j \in DOMAIN thin}
             TF == UNION {ToSet(full[j]) : j \in DOMAIN full}
  <2>1. Exports(M!MetricsRequest(c), name) = FlattenSeq(thin)
    BY DEF Exports, sent
  <2>2. Reported(c, ListedFigures[k]) = FlattenSeq(full)
    BY DEF Reported, Parts
  <2>3. DOMAIN thin = 1..(3 * N) /\ DOMAIN full = 1..N
    BY <1>1, <1>4
  <2>4. \A i \in 1..N : full[i] = Of(c.samples[i])
    BY <2>3
  <2>5. \A j \in 1..(3 * N) : thin[j] = IF sent[j].name = name THEN sent[j].data.points ELSE <<>>
    BY <2>3
  <2>6. thin = [j \in 1..(3 * N) |-> thin[j]] /\ full = [j \in 1..N |-> full[j]]
    BY <2>3
  <2> HIDE DEF thin, full, Of
  <2>7. ASSUME NEW i \in 1..N, NEW l \in 1..3
        PROVE  /\ 3 * (i - 1) + l \in 1..(3 * N)
               /\ l = k => Alike(thin[3 * (i - 1) + l], full[i])
               /\ l # k => thin[3 * (i - 1) + l] = <<>>
    <3> DEFINE j == 3 * (i - 1) + l
               out == M!OtlpMetric(M!Listed(c.samples[i])[l])
    <3>1. j \in 1..(3 * N)
      BY <1>1
    <3>2. sent[j] = out
      BY <1>5
    <3>3. i \in DOMAIN c.samples
      BY <1>1
    <3>4. /\ c.samples[i].memory \in Seq(ToSet(c.samples[i].memory))
          /\ c.samples[i].pools \in Seq(ToSet(c.samples[i].pools))
      BY <1>1, <3>3
    <3>5. out.name = ListedNames[l]
      BY <3>4, ListedMetric
    <3>6. l = k => Alike(out.data.points, Of(c.samples[i]))
      BY <3>4, ListedMetric DEF Of
    <3>7. l # k => ListedNames[l] # name
      BY DEF ListedNames
    <3> HIDE DEF j, out, name
    <3>8. thin[j] = IF out.name = name THEN out.data.points ELSE <<>>
      BY <2>5, <3>1, <3>2
    <3>9. l = k => Alike(thin[j], full[i])
      BY <2>4, <3>5, <3>6, <3>8 DEF name
    <3>10. l # k => thin[j] = <<>>
      BY <3>5, <3>7, <3>8
    <3>11. QED
      BY <3>1, <3>9, <3>10 DEF j
  <2>8. ASSUME NEW j \in 1..(3 * N) PROVE thin[j] \in Seq(ToSet(thin[j]))
    <3>1. PICK i \in 1..N, l \in 1..3 : j = 3 * (i - 1) + l
      BY <1>1, Thirds
    <3>2. CASE l = k
      <4>1. Alike(thin[j], full[i])
        BY <2>7, <3>1, <3>2
      <4>2. QED
        BY <4>1 DEF Alike
    <3>3. CASE l # k
      <4>1. thin[j] = <<>>
        BY <2>7, <3>1, <3>3
      <4>2. <<>> \in Seq(ToSet(<<>>))
        OBVIOUS
      <4>3. QED
        BY <4>1, <4>2
    <3>4. QED
      BY <3>2, <3>3
  <2>9. thin \in Seq(Seq(TT)) /\ Len(thin) = 3 * N
    <3>1. \A j \in 1..(3 * N) : ToSet(thin[j]) \subseteq TT
      BY <2>3
    <3> HIDE DEF TT
    <3>2. \A j \in 1..(3 * N) : thin[j] \in Seq(TT)
      BY <2>8, <3>1, SeqWiden
    <3>3. thin \in [1..(3 * N) -> Seq(TT)]
      BY <2>6, <3>2
    <3>4. 3 * N \in Nat
      BY <1>1
    <3>5. QED
      BY <3>3, <3>4, SeqDef
  <2>10. ASSUME NEW j \in 1..N PROVE full[j] \in Seq(ToSet(full[j]))
    <3>1. Alike(thin[3 * (j - 1) + k], full[j])
      BY <2>7
    <3>2. QED
      BY <3>1 DEF Alike
  <2>11. full \in Seq(Seq(TF)) /\ Len(full) = N
    <3>1. \A j \in 1..N : ToSet(full[j]) \subseteq TF
      BY <2>3
    <3> HIDE DEF TF
    <3>2. \A j \in 1..N : full[j] \in Seq(TF)
      BY <2>10, <3>1, SeqWiden
    <3>3. full \in [1..N -> Seq(TF)]
      BY <2>6, <3>2
    <3>4. QED
      BY <1>1, <3>3, SeqDef
  <2>12. Thinned(thin, full, k)
    BY <2>7, <2>9, <2>11 DEF Thinned
  <2>13. Alike(FlattenSeq(thin), FlattenSeq(full))
    BY <2>12, ThinnedFlatten
  <2>14. Figures(FlattenSeq(thin)) = Figures(FlattenSeq(full))
    BY <2>13, AlikeFigures
  <2>15. QED
    BY <2>1, <2>2, <2>14
<1>7. QED
  BY <1>4, <1>6 DEF sent, N

\* What was acknowledged is what can be sent.
AckedFits == acked \subseteq Collection

\* Only calls with JVM metrics are acknowledged.
LEMMA AckedInvariance == IngestionSpec => []AckedFits
<1>1. IngestionInit => AckedFits
  BY DEF IngestionInit, AckedFits
<1>2. ASSUME AckedFits, [IngestionNext]_ingestion_vars
      PROVE  AckedFits'
  <2>1. \/ UNCHANGED acked
        \/ \E s \in Stream, c \in Collection : CollectMetrics(s, c)
    BY <1>2 DEF IngestionNext, Step, Stop, Close, RefuseLogs, Read, ReadLog, Push, Convert,
                ConvertNothing, Throw, Terminate, ConsumeNothing, Consume, PushLog, Return,
                ingestion_vars
  <2>2. CASE UNCHANGED acked
    BY <1>2, <2>2 DEF AckedFits
  <2>3. ASSUME NEW s \in Stream, NEW c \in Collection, CollectMetrics(s, c)
        PROVE  AckedFits'
    BY <1>2, <2>3 DEF AckedFits, CollectMetrics
  <2>4. QED
    BY <2>1, <2>2, <2>3
<1>3. QED
  BY <1>1, <1>2, PTL DEF IngestionSpec

\* Whatever collections agents send, of any number of samples, areas and pools,
\* the request that would be made of one has its figures, each as often as it
\* was reported and under the name it has (metric processor.cc).
THEOREM MetricsCorrect == IngestionSpec => []MetricsFaithful
<1>1. AckedFits => MetricsFaithful
  <2> SUFFICES ASSUME acked \subseteq Collection, NEW c \in acked
               PROVE  LET r == M!MetricsRequest(c)
                          names == [used |-> "jvm.memory.used",
                                    committed |-> "jvm.memory.committed",
                                    init |-> "jvm.memory.init"]
                      IN  /\ Len(r.metrics) = 3 * Len(c.samples)
                          /\ \A f \in DOMAIN names :
                                Figures(Exports(r, names[f])) = Figures(Reported(c, f))
                          /\ \A i \in DOMAIN c.samples : \A m \in M!Made(c.samples[i]) : Kinds(m)
    BY DEF AckedFits, MetricsFaithful, Kinds
  <2> DEFINE r == M!MetricsRequest(c)
             names == [used |-> "jvm.memory.used", committed |-> "jvm.memory.committed",
                       init |-> "jvm.memory.init"]
  <2>1. /\ Len(r.metrics) = 3 * Len(c.samples)
        /\ \A k \in 1..3 :
              Figures(Exports(r, ListedNames[k])) = Figures(Reported(c, ListedFigures[k]))
    BY CollectionFaithful
  <2> HIDE DEF r
  <2>2. ASSUME NEW f \in DOMAIN names
        PROVE  Figures(Exports(r, names[f])) = Figures(Reported(c, f))
    <3>1. PICK k \in 1..3 : f = ListedFigures[k] /\ names[f] = ListedNames[k]
      BY DEF ListedFigures, ListedNames
    <3>2. QED
      BY <2>1, <3>1
  <2>3. ASSUME NEW i \in DOMAIN c.samples, NEW m \in M!Made(c.samples[i])
        PROVE  Kinds(m)
    BY IngestionAssumption, KindsOfSample
  <2>4. QED
    BY <2>1, <2>2, <2>3 DEF r
<1>2. QED
  BY <1>1, AckedInvariance, PTL
================================================================================
