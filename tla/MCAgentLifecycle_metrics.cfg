\* The host source alone.
SPECIFICATION Spec
CONSTANTS
    Modules = {"host"}
    BuildFails = FALSE
INVARIANT MetricsStopped
CHECK_DEADLOCK FALSE
