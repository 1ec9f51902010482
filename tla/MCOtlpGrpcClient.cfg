\* Four calls against a limit of two, and a shutdown at any time.  When no call
\* is left and none runs, the client has nothing to do.
SPECIFICATION FairSpec
CONSTANTS
    Call = {c1, c2, c3, c4}
    MaxRequests = 2
INVARIANTS ClientInv FlushedQuietly
PROPERTIES AtMostOneMore ShutdownReturns
CHECK_DEADLOCK FALSE
