\* The host source alone.
SPECIFICATION Spec
CONSTANTS
    Modules = {"host"}
    BuildFails = FALSE
INVARIANT CpuMetricStopped
CHECK_DEADLOCK FALSE
