\* The comments at the sizes of a mount_entry and at GPUReader, when every call is
\* answered, and the numbers of each disk (with -continue, all of them).  Each fails.
SPECIFICATION MCSpec
CONSTANTS
    NoLimit = NoLimit
    NoGroup = NoGroup
    Empty = Empty
    Container = {c1}
    Period = 3
    Deadline = 5
    MaxRounds = 6
    MaxChanges = 2
    Failed = Failed
    NoFile = NoFile
    NoProcess = NoProcess
    GpuEnabled = TRUE
    UintBits = 8
    Uint64Bits = 20
    Pid = {1, 2}
    Kind = {"plain", "spaced"}
    ClockTicksPerSecond = 2
    Interval = 10
    TotalMemory = 100
    PageSize = 4
    ReadsBeforeEnd = {3}
    MaxScans = 2
    GpuCount = 2
    GpuOf <- MCGpuOf
    GpuMemory <- MCGpuMemory
    GpuFailing = {{}}
    MaxWork = 2
    MaxBirths = 2
    Gpus <- MCDevice
    MaxTime = 4
    MaxExports = 3
    List = List
    NoConn = NoConn
    DockerContainer = {c1, c2}
    IsSocket = TRUE
    MaxTicks = 6
    MaxStarts = 2
    Group <- MCGroup
    Root = "/"
    Parent <- MCParent
    File <- MCFile
    Content <- MCContent
    IntBits = 4
    Int64Bits = 8
    MaxMade = 3
    Mountable <- MCMountable
    Numbers <- MCNumbers
    NoNumbers = NoNumbers
    MaxMounts = 3
INVARIANTS OwnNumbers SizesAdd
PROPERTIES UsageOfEach
CHECK_DEADLOCK FALSE
