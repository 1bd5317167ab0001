CONSTANTS
    GW_MAX_CHANNELS = 2
    Ids = {"a", "b"}
    Paths = {"x", "y"}
    Globals = {"g", "h"}
    NoChannel = NoChannel
    OneShot = TRUE
    CanFail = FALSE
    Configs <- SingleConfig
    MaxGeneration = 2
    HTTP_REQUEST_CAP = 2
SPECIFICATION FairSpec
PROPERTY StopHonoured
CHECK_DEADLOCK FALSE
