CONSTANTS
    None = None
    MaxResumed = 2
    MaxActive = 2
    Nodes <- MCNodes
    Runs <- MCRuns
    ResumeNodes <- MCResumeNodes
    Graphs <- MCGraphs
SPECIFICATION Spec
INVARIANT
    QueuedNodesRun
CHECK_DEADLOCK FALSE
