CONSTANTS
    None = None
    t1 = t1
    t2 = t2
    MaxRound = 1
    MaxCalls = 4
    MaxCrashes = 1
    Threads <- MCThreads
SPECIFICATION Spec
INVARIANTS
    TypeOK
    AcknowledgedSurvives
    CrashedRunRecovered
    LogSound
PROPERTIES
    FlushCovers
CHECK_DEADLOCK FALSE
SYMMETRY Symmetry
