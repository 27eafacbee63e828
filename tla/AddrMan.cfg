SPECIFICATION AddrSpec
CONSTANTS
    Addr = {"a", "b", "c"}
    Source = {"s", "t"}
    NewBuckets = 2
    BucketSize = 2
    GetNewBucket <- MCNewBucket
    GetBucketPosition <- MCPosition
    TriedSlots = {1, 2}
    TriedSlot <- MCTriedSlot
    MaxRefs = 2
    MaxIds = 5
INVARIANTS
    TablesConsistent
    RestartExact
