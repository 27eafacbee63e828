SPECIFICATION UtxoSpec
CONSTANTS
    Txids <- MCTxids
    Outs <- MCOuts
    Hashes = {"g", "a1", "a2", "b2", "a3", "b3", "x3"}
    NullHash = NullHash
    RandPay = "R"
    RandPayCoins = {0}
    NoEntry = NoEntry
    Prev <- MCPrev
    Vtx <- MCVtx
    Vin <- MCVin
    Vout <- MCVout
    Coinbase = {"A", "B", "C"}
    forkHeightRange = 2
    forkCBPerBlock = 1
    NoJob = NoJob
INVARIANTS
    FlagsTrue
    NeverThrows
    UtxoExact
    UndoClean
    UndoOnDisk
PROPERTIES
    CoinsSpec
    MapsSpec
