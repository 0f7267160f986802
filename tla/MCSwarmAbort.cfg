CONSTANTS
    None = None
    Budget = 1
    MaxRuns = 3
    Agents <- MCAgents
    Keys <- MCKeys
    Costs <- MCCosts
    Configs <- MCConfigs
SPECIFICATION Spec
INVARIANT
    AbortedSwarmBreaks
CHECK_DEADLOCK FALSE
