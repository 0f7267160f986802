CONSTANTS
    None = None
    MaxRounds = 2
    MaxAttempts = 2
    MaxTurns = 2
    MaxBtw = 1
    CompactAbove = 99
    Tools <- MCTools
    Sensitive <- MCSensitive
    Batches <- MCBatches
    Waits <- MCWaits
    Decisions <- MCDecisions
SPECIFICATION FairSpec
INVARIANT
    ApprovedBatchRuns
CHECK_DEADLOCK FALSE
