SPECIFICATION FairSpec
CONSTANTS
    Clients = {c1, c2}
    Connections = {k1, k2}
    MaxSessions = 1
    ClientMayDie = TRUE
    MayShutDown = TRUE
INVARIANTS
    RefsAreWorkers
    AttachedSessionLives
    NoUseAfterFree
    DetachAccepted
PROPERTIES
    CallReturns
    SessionEnds
CHECK_DEADLOCK FALSE
