SPECIFICATION Spec
CONSTANTS
    r1 = r1
    r2 = r2
    s1 = s1
    s2 = s2
    a1 = a1
    a2 = a2
    u1 = u1
    u2 = u2
    None = None
    Rovers = {r1, r2}
    Sources = {s1}
    Admins = {a1}
    Users = {u1, u2}
    UserOf <- MCUserOf
    Requests = {"kickClient", "disconnectUser"}
    WriteQueue = 1
    Limits = {0, 1}
    MaxPackets = 1
    MaxBatch = 1
CHECK_DEADLOCK FALSE
INVARIANTS
    RegistrySound
    NoForgottenConnection
