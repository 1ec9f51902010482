------------------------------ MODULE MCIngestion ------------------------------
(***************************************************************************)
(* An instance of Ingestion for TLC: segments with every form of id that   *)
(* the conversion treats in its own way, in a few trees.                   *)
(***************************************************************************)
EXTENDS Ingestion

Id(form, name) == [form |-> form, name |-> name]

Span(number, parent, type, layer, refs) ==
    [name |-> "op", number |-> number, parent |-> parent, refs |-> refs, type |-> type,
     layer |-> layer, tags |-> <<>>, logs |-> <<>>, isError |-> FALSE, start |-> 1, end |-> 3]

Ref(traceId, segmentId, span) ==
    [trace |-> traceId, segment |-> segmentId, span |-> span, type |-> 0]

Seg(traceId, segmentId, spans) ==
    [trace |-> traceId, id |-> segmentId, service |-> "service", instance |-> "instance",
     spans |-> spans]

Java == Id("java", "trace")
FrontId == Id("java", "front")

\* A server that calls another one, and what that answers.
FrontSegment ==
    Seg(Java, FrontId, << Span(0, -1, "Entry", 3, <<>>),
                        [Span(1, 0, "Exit", 4, <<>>) EXCEPT
                            !.tags = << <<"url", "a">>, <<"url", "b">>, <<"token", "tag">> >>,
                            !.logs = << << <<"event", "error">> >>, << <<"event", "stack">> >> >>,
                            !.isError = TRUE] >>)
BackSegment ==
    Seg(Java, Id("digits", "back"), << Span(0, -1, "Entry", 4, << Ref(Java, FrontId, 1) >>),
                                       Span(1, 0, "Local", 0, <<>>) >>)

\* Ids that are gone when they are read, or are zero.
DashedSegment ==
    Seg(Id("dashed", "uuid"), Id("dashed", "uuid"),
        << Span(0, -1, "Entry", 3, << Ref(Id("dashed", "uuid"), FrontId, 1) >>) >>)

\* One without spans, one that throws with its segment, and one with a reference.
EmptySegment == Seg(Java, Id("hex", "empty"), <<>>)
WordsSegment == Seg(Java, Id("words", "words"), << Span(0, -1, "Entry", 3, <<>>) >>)
WordsRef == Seg(Java, Id("hex", "hex"),
                << Span(0, -1, "Exit", 3, <<>>),
                   Span(1, -1, "Entry", 3, << Ref(Id("words", "words"), FrontId, 1), Ref(Java, FrontId, 0) >>) >>)

\* A segment whose id is too short, and a trace id that is.
ShortSegment == Seg(Java, Id("short", "short"), << Span(0, -1, "Entry", 3, <<>>) >>)
ShortTrace == Seg(Id("short", "short"), FrontId, << Span(0, -1, "Entry", 3, <<>>) >>)

MCSegment == {FrontSegment, BackSegment, DashedSegment, EmptySegment, WordsSegment, WordsRef,
              ShortSegment, ShortTrace}

Part(n) == [init |-> n, used |-> n + 1, committed |-> n + 2, max |-> n + 3]
Sample(memory, pools, gc) ==
    [time |-> 5, memory |-> memory, pools |-> pools, gc |-> gc, cpu |-> 7,
     thread |-> <<1, 2, 3, 4, 5, 6, 7>>, class |-> <<8, 9, 10>>]
Heap(n) == [isheap |-> TRUE] @@ Part(n)
Pool(n, type) == [type |-> type] @@ Part(n)

MCCollection ==
    {[service |-> "service", instance |-> "instance", samples |-> samples] :
        samples \in {<<>>,
                     << Sample(<<>>, <<>>, <<"NEW">>) >>,
                     << Sample(<<Heap(10), Heap(20)>>, <<Pool(30, "NEWGEN_USAGE")>>, <<>>),
                        Sample(<<Heap(40)>>, <<Pool(50, "other"), Pool(10, "ZHEAP_USAGE")>>,
                               <<"OLD", "PHASE">>) >>}}
=============================================================================
