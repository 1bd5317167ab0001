CONSTANTS
    BUFSIZE = 2
    Room = 1
    MaxTyped = 2
    CanFail = TRUE
SPECIFICATION FairSpec
INVARIANT CopiesInOrder
PROPERTIES Delivered Ends
CHECK_DEADLOCK FALSE
