\* Two devices that are plugged in or out once, three instants.
SPECIFICATION Spec
CONSTANTS
    N = 2
    Word = 16
    MaxTime = 3
    MaxCount = 1
    MaxChanges = 1
INVARIANTS ScanInv
