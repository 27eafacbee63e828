SPECIFICATION SyncSpec
CONSTANTS
    Block <- TwoBlocks
    Genesis = "g"
    NoBlock = "null"
    Parent <- TwoParent
    Trust <- TwoTrust
    Address <- TwoAddress
    Idle = "idle"
    MinBlocksToKeep = 1
    Thread = {"t1", "t2"}
    Bad = {}
    Malformed = {}
    MayRefuse <- TwoBlocks
    Commands = {}
    MaxCommands = 0
    Signed = {"a1", "b1", "b2"}
    ProcessDepth = 2
    PendingDepth = 32
CHECK_DEADLOCK FALSE
INVARIANTS
    CheckpointStaysActive
