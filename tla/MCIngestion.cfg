\* Two streams of any kind and two messages: every pair of segments, also on one
\* stream after another and on two at once.  A stream may end at any time.
SPECIFICATION IngestionSpec
CONSTANTS
    Stream = {s1, s2}
    Token = {"t1", "t2"}
    Segment <- MCSegment
    Collection <- MCCollection
    None = None
    Log = {l1, l2}
    MaxMessages = 2
    Int64Bits = 4
INVARIANTS ResourcesOwned RequestsExact MetricsFaithful
PROPERTIES
    StreamsReturn
CHECK_DEADLOCK FALSE
