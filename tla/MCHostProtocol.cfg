SPECIFICATION Spec
CONSTANTS
    claude = claude
    k1 = k1
    i1 = i1
    s1 = s1
    exited = exited
    c1 = c1
    c2 = c2
    None = None
    Project = project
    Actor = actor
    Host = host
    Adapters <- MCAdapters
    AdapterId <- claude
    Configs <- MCConfigs
    InvocationIds <- MCInvocationIds
    Sessions <- MCSessions
    Facts <- MCFacts
    Clients <- MCTwoClients
    MaxStarts = 2
    MaxCommands = 2
INVARIANTS
    PeersAgree
    ReceiptPrecedesDelivery
    AnswersMatchCommands
    ExecutedAsCommanded
    NoCommandForgotten
CHECK_DEADLOCK FALSE
SYMMETRY ClientSymmetry
