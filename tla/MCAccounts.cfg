SPECIFICATION Spec
CONSTANTS
    c1 = c1
    c2 = c2
    a1 = a1
    a2 = a2
    p1 = p1
    p2 = p2
    u1 = u1
    None = None
    Ids = {1, 2}
    Names = {u1}
    Passwords = {p1, p2}
    Roles = {"admin"}
    Conns = {c1, c2}
    Admins = {a1}
    Faults = TRUE
CHECK_DEADLOCK FALSE
SYMMETRY Symmetry
INVARIANTS
    CacheCoherent
    
