CONSTANTS
    Conns = {c1, c2, c3}
    ChannelIds = {r1, r2}
    MaxMembers = 2
    EmptyTTL = 1
    IdleTTL = 2
    SweepPeriod = 2
    MaxLag = 1
    MaxTime = 6
SPECIFICATION HistorySpec
SYMMETRY MCSymmetry
INVARIANTS
    TypeOK
    IndexesAgree
    WithinCapacity
    IdleRoomsSwept
    EmptyRoomsSwept
PROPERTIES
    ArrivalsProtectRooms
    ImplementsDirectory
