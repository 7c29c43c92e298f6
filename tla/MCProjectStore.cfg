SPECIFICATION Spec
CONSTANTS
    o1 = o1
    o2 = o2
    o3 = o3
    p1 = p1
    p2 = p2
    project = project
    brick = brick
    Calls = {1, 2, 3}
    OpenerOf <- WritingOpenerOf
    RequestsOf <- WritingRequestsOf
    Openers <- WritingOpeners
    Processes <- MCProcesses
    ProcessOf <- MCProcessOf
    Projects <- MCProjects
    Bricks <- MCBricks
    ProjectOf <- MCProjectOf
    Kinds = {"prompt", "backend"}
INVARIANTS
    AnswersTruthful
PROPERTIES
    ImplementsHistory
CHECK_DEADLOCK FALSE
