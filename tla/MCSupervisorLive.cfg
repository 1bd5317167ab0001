CONSTANTS
    UINT_MAX = 2
    RestartModulus = 1
    Pids = {p1}
    NoPid = NoPid
    PipeCap = 1
    Faults = {"spawn", "parse"}
    CanFork = FALSE
    policy <- MCPolicy
    Modes <- MCModes
SPECIFICATION FairSpec
INVARIANT NoStrayWorker
PROPERTIES StopAnswered WatchdogBites Recovers ImplementsContract PublishesWorker
CHECK_DEADLOCK FALSE
