SPECIFICATION FairSpec
CONSTANTS
    c1 = c1
    c2 = c2
    c3 = c3
    c4 = c4
    i1 = i1
    i2 = i2
    m1 = m1
    None = None
    Conns = {c1, c2}
    IPs = {i1}
    IPOf <- MCIPOf
    Mounts = {m1}
    MaxConnPerIP = 1
    MaxClients = 1
    MountLimit = 0
CHECK_DEADLOCK FALSE
INVARIANTS
    ShutdownDrains
PROPERTIES
    HandlerEnds
    ShutdownReturns
