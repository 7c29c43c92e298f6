SPECIFICATION FairSpec
CONSTANTS
    claude = claude
    other = other
    o1 = o1
    o2 = o2
    k1 = k1
    k2 = k2
    i1 = i1
    i2 = i2
    s1 = s1
    s2 = s2
    exited = exited
    stopped = stopped
    None = None
    Adapters <- MCAdapters
    AdapterId <- claude
    Owners <- MCOwners
    Configs <- MCConfigs
    Specs <- MCSpecs
    InvocationIds <- MCInvocationIds
    Sessions <- MCSessions
    Facts <- MCFacts
    MaxStarts = 2
INVARIANTS
    TypeOK
    StateMatchesActive
    TruthfulOutcome
PROPERTIES
    InvocationEnds
    ImplementsLifecycle
CHECK_DEADLOCK FALSE
