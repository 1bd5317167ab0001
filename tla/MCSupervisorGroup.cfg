CONSTANTS
    UINT_MAX = 2
    RestartModulus = 1
    Pids = {p1}
    NoPid = NoPid
    PipeCap = 1
    Faults = {}
    CanFork = TRUE
    policy <- MCPolicy
    Modes <- MCModes
SPECIFICATION Spec
INVARIANT GroupStopped
CHECK_DEADLOCK FALSE
