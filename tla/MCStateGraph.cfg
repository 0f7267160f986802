CONSTANTS
    None = None
    MaxResumed = 2
    MaxActive = 2
    Nodes <- MCNodes
    Runs <- MCRuns
    ResumeNodes <- MCResumeNodes
    Graphs <- MCGraphs
SPECIFICATION FairSpec
INVARIANTS
    TypeOK
    CheckpointsHoldWholeWaves
    EndReachesFinish
PROPERTIES
    ProgressKept
    StreamsEnd
CHECK_DEADLOCK FALSE
