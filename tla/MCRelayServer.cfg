\* Two connections, either of which may stall, and one room.
CONSTANTS
    Conns = {c1, c2}
    ChannelIds = {r1}
    MaxMembers = 2
    MaxRedraws = 1
SPECIFICATION FairSpec
PROPERTIES
    RequestsFinish
    StalledPeersLeave
