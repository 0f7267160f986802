CONSTANTS
    k1 = k1
    k2 = k2
    w1 = w1
    w2 = w2
    w3 = w3
    d1 = d1
    d2 = d2
    t1 = t1
    None = None
    Keys <- MCKeys
    Waits <- MCWaits
    Decisions <- MCDecisions
    Tools <- MCTools
SPECIFICATION FairSpec
INVARIANTS
    TypeOK
    OpenWaitsReachable
    NoLostDecision
    OneWaitPerDecision
    ClearedDecisionsAreDead
PROPERTIES
    DisposeReleasesWaits
    TimedWaitsSettle
    ImplementsMailbox
CHECK_DEADLOCK FALSE
