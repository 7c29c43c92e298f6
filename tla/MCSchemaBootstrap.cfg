SPECIFICATION Spec
CONSTANTS
    o1 = o1
    o2 = o2
    o3 = o3
    o4 = o4
    p1 = p1
    p2 = p2
    p3 = p3
    None = None
    Openers <- MCOpeners
    Processes <- MCProcesses
    ProcessOf <- MCProcessOf
    ObjectsInOrder <- MCObjectsInOrder
    OtherObjects <- MCOtherObjects
INVARIANTS
    SchemaAllOrNothing
    AnswersMatchSchema
    RaceHasAWinner
CHECK_DEADLOCK FALSE
