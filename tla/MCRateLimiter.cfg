\* A connection key and an address key whose window is three times as long,
\* through several windows of each.
CONSTANTS
    c1 = c1
    connCreate = connCreate
    ipCreateHour = ipCreateHour
    Keys = {connCreate, ipCreateHour}
    Conns = {c1}
    Limit <- MCLimit
    Dur <- MCDur
    KeysOf <- MCKeysOf
    MaxTime = 8
SPECIFICATION BurstSpec
INVARIANTS
    TypeOK
    BurstBounded
PROPERTY
    ImplementsBudget
