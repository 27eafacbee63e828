SPECIFICATION FairChainSpec
CONSTANTS
    Block <- LongBlocks
    Genesis = "g"
    NoBlock = "null"
    Parent <- LongParent
    Trust <- LongTrust
    Address <- LongAddress
    Idle = "idle"
    MinBlocksToKeep = 1
    Thread = {"t1", "t2"}
    Bad = {"a2"}
    Malformed = {"c2"}
    MayRefuse = {}
    Commands = {"reconsiderblock"}
    MaxCommands = 1
INVARIANTS
    ChainTypeOK
    NothingUnlinked
    CandidatesNotWorse
    CandidatesNeverEmpty
PROPERTIES
    ActivationReturns
