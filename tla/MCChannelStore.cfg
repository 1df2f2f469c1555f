CONSTANTS
    CacheMax = 2
    ChannelId = "room"
    Keys = {"K1", "K2"}
    FirstKey = "K1"
    Frames <- AllFrames
    MaxDeliveries = 4
    MaxEpochs = 1
SPECIFICATION MCSpec
INVARIANTS
    TypeOK
    ShownOnce
    VerifiedNicksUnique
    ImpersonationShown
    PayloadsKeepKind
CHECK_DEADLOCK FALSE
