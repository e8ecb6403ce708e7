SPECIFICATION FairSpec
CONSTANTS
    Bytes = {0, 4, 211}
    MaxRead = 4
    MaxStream = 12
CONSTRAINT FewOthers
CHECK_DEADLOCK FALSE
INVARIANTS
    BufferBounded
    ChunkingIrrelevant
PROPERTIES
    PushReturns
