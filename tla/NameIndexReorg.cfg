SPECIFICATION Spec
CONSTANTS
    Name = {"a", "b"}
    Addr = {"x", "y"}
    NoAddr = ""
    Hash = {"n1", "u1", "u2", "d1", "n2", "n3", "p1"}
    Tx <- ReorgTx
    Blocks <- ReorgBlocks
    MaxHeight = 4
    MaxRestarts = 0
    MaxSize = 10
    BlocksPerDay = 1
    IntMax = 1000
    Garbage = {0, 9}
INVARIANTS
    TypeOK
    NoFailedAssert
    NoTakeover
    AddressIndexExact
    IndexMatchesChain
