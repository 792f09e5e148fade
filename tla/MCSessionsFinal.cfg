SPECIFICATION Spec
CONSTANTS
    Clients = {c1, c2}
    Connections = {k1, k2}
    MaxSessions = 1
    ClientMayDie = FALSE
    MayShutDown = TRUE
INVARIANTS
    FinalizedClean
CHECK_DEADLOCK FALSE
