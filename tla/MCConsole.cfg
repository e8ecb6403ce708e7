SPECIFICATION FairSpec
CONSTANTS
    Users = {alice}
    Placeholder = admin
    None = None
    MaxSessions = 3
    MaxCalls = 3
    MaxLoads = 2
    MaxFaults = 1
CHECK_DEADLOCK FALSE
INVARIANTS
    CheckComesFirst
PROPERTIES
    LoginNotUndone
    LogoutEndsSession
    ThrownOutByOldCall
    
