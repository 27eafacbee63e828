SPECIFICATION FairQueueSpec
CONSTANTS
    Workers = {w1, w2}
    Master = m
    nBatchSize = 2
    MaxChecks = 4
    MaxInterrupts = 1
INVARIANTS
    TodoExact
    IdleBetweenBlocks
    ResultExact
PROPERTY
    WaitReturns
