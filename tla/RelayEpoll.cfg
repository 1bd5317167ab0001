CONSTANTS
    BUFSIZE = 2
    Room = 1
    MaxTyped = 2
    CanFail = TRUE
SPECIFICATION FairSpec
PROPERTY EpollDelivered
CHECK_DEADLOCK FALSE
