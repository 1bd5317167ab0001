CONSTANTS
    GW_PROGRESS_LINE_CAP = 5
    STDERR_LINE_CAP = 13
    Bytes <- MCBytes
    SourceUrl <- MCSourceUrl
    UrlCaps <- MCUrlCaps
    Outputs <- MCOutputs
    ReadSize = 3
    cps = 2
    burst = 5
    BUFSIZE = 2
    Users = {u1, u2}
    Signaled = u1
    LEFT = 7
    RIGHT = 13
    Workers = {w1, w2, w3}
    CanFail = TRUE
    THRNUM = 4
    CreateCanFail = TRUE
    N = 2
    Jobs = 5
    CallsCanFail = TRUE
    JOB_MAX = 2
    Blocks = {b1, b2, b3}
    NULL = NULL
    MaxSec = 3
SPECIFICATION Spec
INVARIANTS ReadsAsWritten EachTaskOnce
PROPERTIES RateKept FetchReturns Terminates RoundRobin Throttled FiresOnce
CHECK_DEADLOCK FALSE
