\* All configurations, a server that may fail to listen, a signal at any time. The agent
\* stops at the end.
SPECIFICATION FairSpec
CONSTANTS
    Modules = {"trace", "http", "host", "kubernetes"}
    BuildFails = TRUE
INVARIANTS TaskInv CrashOnlyEarly
PROPERTIES ShutdownEnds CollectsAgain
CHECK_DEADLOCK FALSE
