SPECIFICATION FairSpec
CONSTANTS
    r1 = r1
    r2 = r2
    s1 = s1
    s2 = s2
    a1 = a1
    a2 = a2
    u1 = u1
    u2 = u2
    None = None
    Rovers = {r1}
    Sources = {s1}
    Admins = {a1}
    Users = {u1, u2}
    UserOf <- MCUserOf
    Requests = {"kickSource", "kickClient", "disconnectUser", "update", "disconnectAll", "delete"}
    WriteQueue = 1
    Limits = {0}
    MaxPackets = 2
    MaxBatch = 2
CHECK_DEADLOCK FALSE
INVARIANTS
    SlotHolderLive
    ClosedWhenGone
PROPERTIES
    RoverLeaves
    SourceLeaves
