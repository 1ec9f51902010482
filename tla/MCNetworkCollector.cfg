\* Two interfaces, one packet each way, two changes and two ticks.
SPECIFICATION FairSpec
CONSTANTS
    N = 2
    Word = 16
    UptimeRead = {TRUE}
    MaxTime = 2
    MaxCount = 1
    MaxChanges = 2
INVARIANTS RateInv
PROPERTIES ReachedWhenUp GoneHidesLater
