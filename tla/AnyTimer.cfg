CONSTANTS
    JOB_MAX = 2
    Clients = {c1, c2}
    Blocks = {b1, b2}
    NULL = NULL
    MaxSec = 2
SPECIFICATION FairSpec
INVARIANTS MemorySafe CalledOrCanceled OnTime
PROPERTIES WaitsReturn Unloads
CHECK_DEADLOCK FALSE
