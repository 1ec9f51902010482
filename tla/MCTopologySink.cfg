\* Three callers at a limit of one: the counter reaches the hard limit, four.
SPECIFICATION FairSinkSpec
CONSTANTS
    Thread = {t1, t2, t3}
    Call = {c1, c2, c3, c4}
    MaxRequests = 1
INVARIANTS SinkInv
PROPERTIES ImplementsPool
