SPECIFICATION Spec
SYMMETRY Symmetry
CONSTANTS
    a = a
    b = b
    k1 = k1
    k2 = k2
    Rooms = {a, b}
    Keys = {k1, k2}
    MaxOps = 2
INVARIANTS
    SentToItsRoom
CHECK_DEADLOCK FALSE
