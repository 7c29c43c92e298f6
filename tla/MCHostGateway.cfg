SPECIFICATION Spec
CONSTANTS
    p1 = p1
    p2 = p2
    a1 = a1
    a2 = a2
    h1 = h1
    h2 = h2
    c1 = c1
    c2 = c2
    c3 = c3
    None = None
    Projects <- MCProjects
    Actors <- MCActors
    Hosts <- MCHosts
    Contexts <- MCContexts
    Conns <- MCConns
    MaxSeq = 1
SYMMETRY ConnSymmetry
INVARIANTS
    TypeOK
    RegistryConsistent
    WireIsContiguous
    CommandAccounting
PROPERTIES
    FailedIsFinal
CHECK_DEADLOCK FALSE
