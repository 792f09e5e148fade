SPECIFICATION FairSpec
CONSTANTS
    Clients = {p1, p2}
    Threads = {t1}
    MaxCalls = 1
    Header = 1
    MaxPayload = 1
    SeqBits = 1
    Faults = {"death"}
INVARIANTS
    OnlyConnectionLost
CHECK_DEADLOCK FALSE
