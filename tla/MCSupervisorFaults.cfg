CONSTANTS
    UINT_MAX = 2
    RestartModulus = 1
    Pids = {p1, p2}
    NoPid = NoPid
    PipeCap = 1
    Faults = {"pipeline", "spawn", "clock", "poll", "read", "parse", "kill", "wait"}
    CanFork = TRUE
    policy <- MCPolicy
    Modes <- MCModes
SYMMETRY PidSymmetry
SPECIFICATION Spec
INVARIANTS SignalsOwnWorker ReturnCode PublishedAtRest
PROPERTY FailureMemory
CHECK_DEADLOCK FALSE
