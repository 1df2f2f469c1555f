SPECIFICATION TabSpec
CONSTANTS
    MaxAttempts = 2
    Rooms = {"old", "first", "second"}
    OldRoom = "old"
    NewRoom <- MCNewRoom
    Texts = {"s", "u"}
    LongTexts = {"u"}
    MaxSends = 2
INVARIANTS
    NothingLeftBehind
    OrphansByTimeout
    InputReachesItsRoom
PROPERTIES
    DialogReturns
CHECK_DEADLOCK FALSE
