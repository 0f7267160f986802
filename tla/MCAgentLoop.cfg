CONSTANTS
    None = None
    MaxRounds = 2
    MaxAttempts = 2
    MaxTurns = 2
    MaxBtw = 1
    CompactAbove = 8
    Tools <- MCTools
    Sensitive <- MCSensitive
    Batches <- MCBatches
    Waits <- MCWaits
    Decisions <- MCDecisions
SPECIFICATION FairSpec
INVARIANTS
    TypeOK
    ToolCallsAnswered
    OneBatchPerDecision
    PausesOnDisk
PROPERTIES
    EveryTurnEnds
CHECK_DEADLOCK FALSE
