\* Of the container runtime: the period and the deadline of the code, a
\* container that comes and goes, and six rounds, two more than can be out.
\* Each part stops at its bound.
SPECIFICATION MCSpec
CONSTANTS
    NoLimit = NoLimit
    NoGroup = NoGroup
    Empty = Empty
    Container = {c1}
    Period = 3
    Deadline = 5
    MaxRounds = 6
    MaxChanges = 2
    Failed = Failed
    NoFile = NoFile
    NoProcess = NoProcess
    GpuEnabled = TRUE
    UintBits = 8
    Uint64Bits = 20
    Pid = {1, 2}
    Kind = {"plain", "spaced"}
    ClockTicksPerSecond = 2
    Interval = 10
    TotalMemory = 100
    PageSize = 4
    ReadsBeforeEnd = {3}
    MaxScans = 2
    GpuCount = 2
    GpuOf <- MCGpuOf
    GpuMemory <- MCGpuMemory
    GpuFailing <- MCGpuFailing
    MaxWork = 2
    MaxBirths = 2
    Gpus <- MCDevice
    MaxTime = 4
    MaxExports = 3
    List = List
    NoConn = NoConn
    DockerContainer = {c1, c2}
    IsSocket = TRUE
    MaxTicks = 6
    MaxStarts = 2
    Group <- MCGroup
    Root = "/"
    Parent <- MCParent
    File <- MCFile
    Content <- MCContent
    IntBits = 4
    Int64Bits = 8
    MaxMade = 3
    Mountable <- MCMountable
    Numbers <- MCNumbers
    NoNumbers = NoNumbers
    MaxMounts = 3
INVARIANTS ReportInv DockerInv WalkInv MountsInv
PROPERTIES ReportedOnce RatesOfPeriod GpuOfOwner ExportOfPeriod ReportReplaced
CHECK_DEADLOCK FALSE
