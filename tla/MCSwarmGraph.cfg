CONSTANTS
    None = None
    Budget = 1
    MaxRuns = 3
    Agents <- MCAgents
    Keys <- MCKeys
    Costs <- MCCosts
    Configs <- MCConfigs
SPECIFICATION FairSpec
INVARIANTS
    TypeOK
    SavedWavesFinished
    DependenciesFirst
    ContractsHold
    BudgetStopsSwarm
PROPERTIES
    NobodyLeftBehind
    SwarmEnds
CHECK_DEADLOCK FALSE
