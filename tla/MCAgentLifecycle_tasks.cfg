\* The host source alone.
SPECIFICATION Spec
CONSTANTS
    Modules = {"host"}
    BuildFails = FALSE
INVARIANT TasksEnded
CHECK_DEADLOCK FALSE
