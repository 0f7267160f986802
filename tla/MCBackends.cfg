CONSTANTS
    None = None
    Clients <- MCClients
    Sessions <- MCSessions
    MaxEvents = 3
    Sends <- MCSends
    TaskIds <- MCTaskIds
    MaxChunks = 1
    MaxCancels = 1
    Threads <- MCThreads
    Executions <- MCExecutions
    Agents <- MCAgents
    SafeName <- MCSafeName
    Foreign <- MCForeign
    MaxCrashes = 2
    MaxFailures = 2
    Calls <- MCCalls
    Plans <- MCPlans
    MaxTime = 1
SPECIFICATION MCSpec
INVARIANTS
    ServersSafe
    StoresSafe
    LearningSound
    TextsSound
    JudgementsSound
CHECK_DEADLOCK FALSE
