SPECIFICATION FairSpec
CONSTANTS
    claude = claude
    own = own
    k1 = k1
    i1 = i1
    i2 = i2
    s1 = s1
    None = None
    Adapters <- MCAdapters
    AdapterId <- claude
    Owners <- MCOwners
    Configs <- MCConfigs
    Specs <- MCSpecs
    InvocationIds <- MCInvocationIds
    Sessions <- MCSessions
    MaxStarts = 2
INVARIANTS
    OneBackendProcess
    ProcessFactsTruthful
PROPERTIES
    AdapterHonoursPort
    EndedProcessEnds
CHECK_DEADLOCK FALSE
