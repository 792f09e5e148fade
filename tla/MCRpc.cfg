SPECIFICATION FairSpec
CONSTANTS
    Clients = {p1}
    Threads = {t1}
    MaxCalls = 3
    Header = 2
    MaxPayload = 2
    SeqBits = 1
    Faults = {"death", "reject", "handler"}
INVARIANTS
    InStep
PROPERTIES
    CallEnds
CHECK_DEADLOCK FALSE
