CONSTANTS
    GW_MAX_CHANNELS = 2
    Ids = {"a", "b"}
    Paths = {"x", "y"}
    Globals = {"g", "h"}
    NoChannel = NoChannel
    OneShot = TRUE
    CanFail = TRUE
    Configs <- MCConfigs
    MaxGeneration = 2
    HTTP_REQUEST_CAP = 1
SPECIFICATION Spec
INVARIANTS NeverStartedTwice ActiveThreadsExact SnapshotCurrent ConfigurationInForce OrderlyExit PathExclusive
CHECK_DEADLOCK FALSE
