\* The watcher alone.
SPECIFICATION FairSpec
CONSTANTS
    Modules = {"kubernetes"}
    BuildFails = FALSE
PROPERTY WatchesWhileRunning
CHECK_DEADLOCK FALSE
