\* The comment in ForceFlush.
SPECIFICATION FairSpec
CONSTANTS
    Call = {c1, c2, c3, c4}
    MaxRequests = 2
INVARIANTS AllSessionsFinished
CHECK_DEADLOCK FALSE
