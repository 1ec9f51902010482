\* Two scans of the same devices.
SPECIFICATION Spec
CONSTANTS
    N = 2
    Word = 16
    MaxTime = 3
    MaxCount = 1
    MaxChanges = 0
INVARIANT PreviousSample
