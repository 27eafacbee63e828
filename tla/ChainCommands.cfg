SPECIFICATION FairChainSpec
CONSTANTS
    Block <- ForkBlocks
    Genesis = "g"
    NoBlock = "null"
    Parent <- ForkParent
    Trust <- ForkTrust
    Address <- ForkAddress
    Idle = "idle"
    MinBlocksToKeep = 1
    Thread = {"t1"}
    Bad = {"a2"}
    Malformed = {}
    MayRefuse = {"b1"}
    Commands = {"invalidateblock", "reconsider_root", "preciousblock"}
    MaxCommands = 2
CHECK_DEADLOCK FALSE
INVARIANTS
    CandidatesCompleteWhenQuiet
    FailedBelowInvalid
    NoFailedActive
    BestChainActive
PROPERTIES
    BestBlockActivated
