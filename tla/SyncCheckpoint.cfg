SPECIFICATION SyncSpec
CONSTANTS
    Block <- ThreeBlocks
    Genesis = "g"
    NoBlock = "null"
    Parent <- ThreeParent
    Trust <- ThreeTrust
    Address <- ThreeAddress
    Idle = "idle"
    MinBlocksToKeep = 1
    Thread = {"t1", "t2"}
    Bad = {"c1"}
    Malformed = {}
    MayRefuse <- ThreeBlocks
    Commands = {}
    MaxCommands = 0
    Signed = {"a1", "b1", "b2"}
    ProcessDepth = 1
    PendingDepth = 2
CHECK_DEADLOCK FALSE
INVARIANTS
    CheckpointBinds
