SPECIFICATION Spec
CONSTANTS
    MaxHeight = 3
    MaxFile = 2
    FileSize = 3
    BlockChunk = 1
    UndoChunk = 1
    PruneTarget = 7
    PruneAfterHeight = 1
    Keep = 1
    CheckBlocks = 1
    Worlds <- Upset
    MaxFaults = 1
INVARIANTS
    
    DatabaseConsistent
PROPERTIES
    PruneKeepsRecent
CHECK_DEADLOCK FALSE
