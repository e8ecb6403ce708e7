SPECIFICATION Spec
CONSTANTS
    c1 = c1
    c2 = c2
    c3 = c3
    c4 = c4
    i1 = i1
    i2 = i2
    m1 = m1
    None = None
    Conns = {c1, c2, c3, c4}
    IPs = {i1, i2}
    IPOf <- MCIPOf
    Mounts = {m1}
    MaxConnPerIP = 1
    MaxClients = 1
    MountLimit = 1
CHECK_DEADLOCK FALSE
SYMMETRY Symmetry
CONSTRAINT BeforeShutdown
INVARIANTS
    
    GlobalCountExact
    OvershootBounded
