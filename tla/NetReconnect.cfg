SPECIFICATION FairSpec
CONSTANTS
    MaxSockets = 2
    MaxRequests = 1
    MaxMessages = 3
    SendSize = 1
    RecvSize = 1
CHECK_DEADLOCK FALSE
INVARIANTS TypeOK NoPanic
PROPERTIES BackoffGrows Reconnects
