SPECIFICATION Spec
CONSTANTS
    Threads = {t1, t2}
    Streams = {s1, s2}
    Segments = {1, 2}
    Capacity = 3
    TableSize = 1
    WritesMayFail = TRUE
    MapsMayFail = FALSE
INVARIANTS
    DirtyWhileWriting
CHECK_DEADLOCK FALSE
