\* The gRPC source alone, a server that listens.
SPECIFICATION Spec
CONSTANTS
    Modules = {"trace"}
    BuildFails = FALSE
INVARIANT StoppedInTurn
CHECK_DEADLOCK FALSE
