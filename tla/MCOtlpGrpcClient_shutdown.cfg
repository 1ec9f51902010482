\* The comment at is_shutdown_.
SPECIFICATION FairSpec
CONSTANTS
    Call = {c1, c2, c3, c4}
    MaxRequests = 2
INVARIANTS ShutdownStored
CHECK_DEADLOCK FALSE
