CONSTANTS
    None = None
    Keys <- MCKeys
    Connects <- MCConnects
    MaxFailures = 2
    MaxFaults = 3
    Servers <- MCServers
    Flowing <- MCFlowing
    MaxTokens = 2
    MaxKeys = 2
    Workers = 3
    RoleOf <- MCRoleOf
    Modes <- MCModes
    MaxRetries = 5
    Agents <- MCAgents
    Initial = "a"
    Strangers <- MCStrangers
    ContextMode <- MCContextMode
    MaxHandoffs = 4
    SameAgentLimit = 2
    TokenBudget = 4
    CostLimit = 1
    CallIds <- MCCallIds
    MaxIterations = 4
    Policies <- MCPolicies
    SessionIds <- MCSessionIds
    MaxTime = 7
    MemoryCalls <- MCMemoryCalls
    Op <- MCOp
    History <- MCHistory
    MaxMessages = 1
    MaxWorkingMemory = 4
    Names <- MCNames
    Registrations <- MCRegistrations
    Plan <- MCPlan
    Reloads <- MCReloads
    MaxChanges = 2
    MaxSize = 2
    Disks <- MCDisks
SPECIFICATION FairSpec
INVARIANTS
    ServicesTypeOK
    ConnectionsSafe
    TeamsSafe
    RecordsSafe
PROPERTIES
    ServicesSettle
CHECK_DEADLOCK FALSE
