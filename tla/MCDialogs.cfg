SPECIFICATION Spec
CONSTANTS
    Users = {1}
    Mounts = {1}
    Conns <- MCConns
    MaxConn = 3
    MaxMoves = 1
    MaxOpens = 2
    MaxSends = 2
    MaxOthers = 1
CHECK_DEADLOCK FALSE
INVARIANTS
    SecretIntended
    
    
PROPERTIES
    UntouchedKept
    
