SPECIFICATION FairSpec
CONSTANTS
    o1 = o1
    o2 = o2
    o3 = o3
    p1 = p1
    p2 = p2
    project = project
    brick = brick
    Calls = {1, 2, 3, 4}
    OpenerOf <- ClosingOpenerOf
    RequestsOf <- ClosingRequestsOf
    Openers <- ClosingOpeners
    Processes <- MCProcesses
    ProcessOf <- MCProcessOf
    Projects <- MCProjects
    Bricks <- MCBricks
    ProjectOf <- MCProjectOf
    Kinds = {"prompt", "backend"}
INVARIANTS
    TypeOK
    NoSelfContention
PROPERTIES
    EveryCallAnswered
CHECK_DEADLOCK FALSE
