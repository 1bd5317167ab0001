CONSTANTS
    GW_MAX_CHANNELS = 2
    Ids = {"a", "b"}
    Paths = {"x", "y"}
    Globals = {"g", "h"}
    NoChannel = NoChannel
    OneShot = FALSE
    CanFail = TRUE
    Configs <- MoveConfigs
    MaxGeneration = 2
    HTTP_REQUEST_CAP = 2
SPECIFICATION FairSpec
PROPERTIES StopHonoured ConnectionsEnd
CHECK_DEADLOCK FALSE
