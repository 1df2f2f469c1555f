SPECIFICATION Spec
SYMMETRY Symmetry
CONSTANTS
    a = a
    b = b
    k = k
    Rooms = {a, b}
    Keys = {k}
    MaxOps = 2
INVARIANTS
    TypeOK
    NoStrayConnection
    StoresComplete
CHECK_DEADLOCK FALSE
