\* Three connections around one room of two: a third is refused when it is full.
CONSTANTS
    Conns = {c1, c2, c3}
    ChannelIds = {r1}
    MaxMembers = 2
    MaxRedraws = 0
    MaxBusy = 2
SPECIFICATION AuditSpec
CONSTRAINT FewBusy
SYMMETRY MCSymmetry
INVARIANTS
    TypeOK
    NoGhostMembers
    EveryMemberTold
PROPERTY
    RelayStaysInRoom
