SPECIFICATION Spec
CONSTANTS
    t1 = t1
    prompt = prompt
    backend = backend
    Calls = {1, 2, 3}
    RequestsOf <- MCRequestsOf
    Templates <- MCTemplates
    Bricks <- MCBricks
    KindOf <- MCKindOf
    Specs <- MCSpecs
    Changing = {}
    LongArchived <- MCLongArchived
    MaxRevisions = 2
PROPERTIES
    NewReferencesActive
CHECK_DEADLOCK FALSE
