SPECIFICATION WebSocketFairSpec
CONSTANTS
    u1 = u1
    u2 = u2
    u3 = u3
    Upgrades <- MCUpgrades
INVARIANTS
    EndedOnce
    NoHalfOpenSession
PROPERTIES
    ShutdownEnds
CHECK_DEADLOCK FALSE
