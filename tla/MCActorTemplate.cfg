SPECIFICATION Spec
CONSTANTS
    t1 = t1
    prompt = prompt
    backend = backend
    Calls = {1, 2, 3}
    RequestsOf <- MCRequestsOf
    Templates <- MCTemplates
    Bricks <- MCBricks
    KindOf <- MCKindOf
    Specs <- MCSpecs
    Changing <- MCChanging
    LongArchived = {}
    MaxRevisions = 2
INVARIANTS
    NamesMatchTemplates
    SnapshotProvenance
    AnswersTruthful
PROPERTIES
    ImplementsHistory
CHECK_DEADLOCK FALSE
