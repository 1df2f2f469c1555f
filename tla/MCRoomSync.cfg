SPECIFICATION SyncSpec
CONSTANTS
    Pair = {"a", "b"}
    Third = "c"
    MaxSessions = 3
    Leavers = {"b"}
    Droppers = {"b"}
    Names = {"m", "n"}
    MaxRenames = 2
    MaxKey = 2
INVARIANTS
    NicksLearned
    NewcomersLearnName
    OneRoomKey
    KeyCopiesAgree
CHECK_DEADLOCK FALSE
