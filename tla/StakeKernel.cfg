SPECIFICATION KernelSpec
CONSTANTS
    BlockHash <- MCBlockHash
    SelectionHash <- MCSelectionHash
    PosShift = 4
    Rounds = 3
    Ratio = 3
    nStakeModifierInterval = 4
    nStakeMinAge = 12
    nMaxClockDrift = 2
    nMedianTimeSpan = 5
    Delays <- MCDelays
INVARIANTS
    ModifierByDefinition
    KernelModifierLatest
CHECK_DEADLOCK FALSE
