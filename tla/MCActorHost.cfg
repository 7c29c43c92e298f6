SPECIFICATION Spec
CONSTANTS
    claude = claude
    own = own
    foreign = foreign
    k1 = k1
    i1 = i1
    s1 = s1
    exited = exited
    c1 = c1
    None = None
    Adapters <- MCAdapters
    AdapterId <- claude
    Owners <- MCOwners
    Configs <- MCConfigs
    Specs <- MCForeignSpecs
    InvocationIds <- MCOneInvocation
    Sessions <- MCSessions
    Facts <- MCFacts
    MaxStarts = 2
    Clients <- MCOneClient
    Self <- own
    ConnectionGeneration = 1
    MaxReceived = 4
INVARIANTS
    TypeOK
    ReceiptComesFirst
    ReportsTruthful
CHECK_DEADLOCK FALSE
