SPECIFICATION FairSpec
CONSTANTS
    Resources = {"mountpoints", "clients", "mounts"}
    Pages = {"dashboard", "mountpoints", "connections", "map"}
    All = all
    Filters = {all, on}
    Start <- MCStart
    Limit = 1
    MaxRows = 2
    MaxChanges = 1
    MaxMoves = 3
    MaxFails = 1
CHECK_DEADLOCK FALSE
INVARIANTS
    ShownMatchesParams
    EmptyOnlyAfterShrink
    FreshWhenClosed
PROPERTIES
    
    PolledCatchUp
    ImplementsSnapshot
