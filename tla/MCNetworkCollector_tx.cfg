\* One interface that receives.
SPECIFICATION Spec
CONSTANTS
    N = 1
    Word = 16
    UptimeRead = {TRUE}
    MaxTime = 2
    MaxCount = 1
    MaxChanges = 0
INVARIANTS TransmittedReported
