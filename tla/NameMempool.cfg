SPECIFICATION MempoolSpec
CHECK_DEADLOCK FALSE
CONSTANTS
    Name = {"a"}
    Addr = {"x"}
    NoAddr = ""
    Hash = {"n1", "u1", "u2", "r1", "p1"}
    Tx <- PoolTx
    Blocks <- PoolBlocks
    MaxHeight = 3
    MaxRestarts = 1
    MaxSize = 10
    BlocksPerDay = 1
    IntMax = 1000
    Garbage = {0}
INVARIANTS
    OneOpInPool
    PoolSpendable
