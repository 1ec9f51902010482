---------------------------- MODULE TraceConversion ----------------------------
(***************************************************************************)
(* The conversion of a SkyWalking segment into OpenTelemetry spans, as     *)
(* operators: Processor::process, the forms of ids that agents send, what  *)
(* a Recordable writes, and how the recordables of a batch are grouped     *)
(* into a request.  Ingestion.tla has the state.                           *)
(***************************************************************************)
EXTENDS OtlpAttributes, FiniteSets, SequencesExt

-----------------------------------------------------------------------------
(* Ids.  An id is a name in one of the forms that the code tells apart:    *)
(*   fewdigits  digits, less than 32        digits  digits, 32 to 40       *)
(*   short      other, less than 32         hex     32 hexadecimal digits  *)
(*   dashed     a uuid with dashes          java    hex.number.number      *)
(*   words      hex.x.y, not both numbers   other   longer, without dots   *)

\* swStringToUUID: whether it returns true, false or throws.
StringToUUID(id) ==
    CASE id.form \in {"hex", "java"} -> "true"
      [] id.form = "words"           -> "throws"
      [] OTHER                       -> "false"

Uuid(id, extra) == [is |-> "id", of |-> id.name, extra |-> extra]
NoUuid(why) == [is |-> why]

\* swTraceIdToTraceId.  The bytes of digits and of dashed ids are in an array
\* that is gone when they are read: kept says whether they still are there.
TraceId(id, kept) ==
    CASE id.form \in {"digits", "fewdigits", "dashed"} ->
            IF kept THEN Uuid(id, 0) ELSE NoUuid("undefined")
      [] StringToUUID(id) = "true"   -> Uuid(id, 0)
      [] StringToUUID(id) = "throws" -> NoUuid("throws")
      [] OTHER                       -> NoUuid("null")

\* segmentIDToSpanID: the number of the span is mixed into the bytes of the
\* segment.  A segment id that is too short makes a span of eight bytes from
\* sixteen, which terminates the program; one without dots gives zeros.
SpanId(id, number) ==
    CASE id.form \in {"short", "fewdigits"} -> NoUuid("terminates")
      [] id.form = "digits"                 -> Uuid(id, number)
      [] StringToUUID(id) = "true"          -> Uuid(id, number)
      [] StringToUUID(id) = "throws"        -> NoUuid("throws")
      [] OTHER                              -> NoUuid("zero")

\* A span without a number of its own is the span zero of no segment.
NoParent == NoUuid("zero")

-----------------------------------------------------------------------------
(* One span.                                                               *)

IsRoot(span) == span.parent = -1

\* Mutant: a reference is looked up in the segment it is in.
ParentIdHere(segment, span) ==
    CASE ~IsRoot(span)                         -> SpanId(segment.id, span.parent)
      [] IsRoot(span) /\ Len(span.refs) = 1    -> SpanId(segment.id, span.refs[1].span)
      [] OTHER                                 -> NoParent

\* The parent is in the segment, or in that of the one reference.
ParentId(segment, span) ==
    CASE ~IsRoot(span)                         -> SpanId(segment.id, span.parent)
      [] IsRoot(span) /\ Len(span.refs) = 1    -> SpanId(span.refs[1].segment, span.refs[1].span)
      [] OTHER                                 -> NoParent

\* The layer of message queues.
MQ == 4

\* swSpanKindToSpanKind, and the kind SetSpanKind writes, which has its name.
SpanKind(span) ==
    CASE span.type = "Entry" -> IF span.layer = MQ THEN "CONSUMER" ELSE "SERVER"
      [] span.type = "Exit"  -> IF span.layer = MQ THEN "PRODUCER" ELSE "CLIENT"
      [] OTHER               -> "INTERNAL"

\* setInternalSpanStatus; only an error has a message.
Status(span) ==
    IF span.isError THEN [code |-> "ERROR", message |-> "ERROR"]
                    ELSE [code |-> "OK", message |-> ""]

\* One key and value after another: the last one of a key stays.
Merged(kvs) ==
    [k \in {kvs[i][1] : i \in DOMAIN kvs} |->
        LET at == {i \in DOMAIN kvs : kvs[i][1] = k}
        IN  kvs[CHOOSE i \in at : \A j \in at : j <= i][2]]

\* swLogsToSpanEvents: all logs of a span are one event.
Events(span) ==
    IF span.logs = <<>> THEN <<>>
    ELSE <<[name |-> "logs", attributes |-> Merged(FlattenSeq(span.logs))]>>

\* The attributes of a span: its tags, whatever their keys, then those of the
\* conversion.  The peer and the component, which are copied alike, are left out.
Attributes(segment, span, token) ==
    [i \in DOMAIN span.tags |-> Attribute(span.tags[i][1], "string_view", span.tags[i][2])]
    \o <<Attribute("sw8.segment_id", "string_view", segment.id.name),
         Attribute("sw8.span_id", "int", span.number),
         Attribute("sw8.parent_span_id", "int", span.parent),
         Attribute("sw8.layer", "int", span.layer)>>
    \o IF token = "" THEN <<>> ELSE <<Attribute("token", "string_view", token)>>

\* swReferencesToSpanLinks, or the one link to the parent of a span without
\* references, which is to no span when that has no parent.
Links(segment, span, traceId, kept) ==
    IF span.refs # <<>>
    THEN [i \in DOMAIN span.refs |->
             [trace_id |-> TraceId(span.refs[i].trace, kept),
              span_id  |-> SpanId(span.refs[i].segment, span.refs[i].span),
              refType  |-> span.refs[i].type]]
    ELSE <<[trace_id |-> traceId, span_id |-> ParentId(segment, span), refType |-> "internal"]>>

\* A recordable: what its setters write.  A parent that is zero is not set, and
\* the end of the span is its start and its duration.
Recordable(segment, span, token, traceId, keptLinks) ==
    [name       |-> span.name,
     trace_id   |-> traceId,
     span_id    |-> SpanId(segment.id, span.number),
     parent_id  |-> ParentId(segment, span),
     start      |-> span.start,
     end        |-> span.start + (span.end - span.start),
     kind       |-> SpanKind(span),
     status     |-> Status(span),
     attributes |-> Attributes(segment, span, token),
     events     |-> Events(span),
     links      |-> Links(segment, span, traceId, keptLinks)]

-----------------------------------------------------------------------------
(* The segment.                                                            *)

\* The tags that are attributes of the resource, and what they are called.
otSpanTagsMapping ==
    [tag \in {"url", "status_code", "db.type", "db.instance", "mq.broker"} |->
        CASE tag = "url"         -> "url.full"
          [] tag = "status_code" -> "http.response.status_code"
          [] tag = "db.type"     -> "db.system"
          [] tag = "db.instance" -> "db.name"
          [] tag = "mq.broker"   -> "server.address"]

\* swTagsToInternalResource, of one span after another: the attributes of the tags.
TagsOfResource(spans) ==
    LET tags == Merged(FlattenSeq([i \in DOMAIN spans |-> spans[i].tags]))
    IN  {Stored(otSpanTagsMapping[t], tags[t]) :
            t \in DOMAIN tags \intersect DOMAIN otSpanTagsMapping}

\* The resource all spans of the segment share: no tag is called what the other
\* attributes are.
Resource(segment, token) ==
    TagsOfResource(segment.spans)
    \union {Stored("service.name", segment.service),
            Stored("service.instance.id", segment.instance),
            Stored("sw8.trace_id", segment.trace.name)}
    \union IF token = "" THEN {} ELSE {Stored("token", token)}

\* What the conversion of a span needs of ids, in the order it does: up to
\* SetResource, and after it, where a null trace id is read as an address.
IdsBefore(segment, span) == <<SpanId(segment.id, span.number), ParentId(segment, span)>>

IdsAfter(span) ==
    FlattenSeq([i \in DOMAIN span.refs |->
        << TraceId(span.refs[i].trace, TRUE), SpanId(span.refs[i].segment, span.refs[i].span)>>])

IsFault(result) == result.is \in {"throws", "terminates", "null"}

FirstFault(results) ==
    LET faults == SelectSeq(results, IsFault)
    IN  CASE faults = <<>>                                 -> "none"
          [] faults # <<>> /\ faults[1].is = "throws"      -> "throws"
          [] OTHER                                         -> "terminates"

\* How process() ends for a segment: with its spans; with none, for want of
\* spans or of a trace id; by an exception; or by the end of the program.
End(segment) ==
    LET traceId == TraceId(segment.trace, TRUE)
        ids == FlattenSeq([i \in DOMAIN segment.spans |->
                   IdsBefore(segment, segment.spans[i]) \o IdsAfter(segment.spans[i])])
    IN  CASE segment.spans = <<>> \/ traceId.is = "null"     -> "nothing"
          [] segment.spans # <<>> /\ traceId.is = "throws"   -> "throws"
          [] OTHER -> IF FirstFault(ids) = "none" THEN "spans" ELSE FirstFault(ids)

\* The resource is made once the trace id is known to be one.  The recordable
\* of the first span frees it, once it has been given the resource; nobody
\* does when an exception comes before.
MakesResource(segment) ==
    segment.spans # <<>> /\ TraceId(segment.trace, TRUE).is \notin {"throws", "null"}

LosesResource(segment) ==
    /\ MakesResource(segment)
    /\ FirstFault(IdsBefore(segment, segment.spans[1])) = "throws"

\* The recordables of a segment.
Spans(segment, token, keptTrace, keptLinks) ==
    [i \in DOMAIN segment.spans |->
        Recordable(segment, segment.spans[i], token, TraceId(segment.trace, keptTrace), keptLinks)]

\* PopulateRequest: the spans of a batch by resource, at their places in the
\* batch; the scope is always the same.
PopulateRequest(batch, resources) ==
    {[resource |-> resources[r],
      spans |-> [i \in {j \in DOMAIN batch : batch[j].resource = r} |-> batch[i].span]] :
        r \in {batch[i].resource : i \in DOMAIN batch}}
=============================================================================
