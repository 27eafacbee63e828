SPECIFICATION Spec
CONSTANTS
    Name = {"a", "b"}
    Addr = {"x", "y"}
    NoAddr = ""
    Hash = {"n1", "u1", "u2", "d1", "n2", "d2"}
    Tx <- LongTx
    Blocks <- LongBlocks
    MaxHeight = 3
    MaxRestarts = 1
    MaxSize = 2
    BlocksPerDay = 1
    IntMax = 1000
    Garbage = {0, 9}
CHECK_DEADLOCK FALSE
INVARIANTS
    LastActiveChain
    OwnerContinuity
    ExpiryHonoured
PROPERTIES
    RebuildExact
