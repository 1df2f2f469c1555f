CONSTANTS
    Sockets = {s1, s2}
    AutoReconnect = TRUE
    QueueCap = 2
    MaxFrames = 4
    MaxCallbacks = 2
SPECIFICATION FairSpec
CHECK_DEADLOCK FALSE
INVARIANTS
    TypeOK
    OnePlan
    FramesInOrderOnce
PROPERTIES
    Reconnects
    OpenConnectionsJoin
