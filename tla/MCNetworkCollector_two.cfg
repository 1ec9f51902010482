\* Two interfaces in one run.
SPECIFICATION Spec
CONSTANTS
    N = 2
    Word = 16
    UptimeRead = {TRUE}
    MaxTime = 4
    MaxCount = 0
    MaxChanges = 0
INVARIANTS IntervalOfInterface
