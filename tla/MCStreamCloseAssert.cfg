SPECIFICATION Spec
CONSTANTS
    A = A
    B = B
    s1 = s1
    s2 = s2
    Segments = {s1, s2}
    NoSegment = NoSegment
    NoLink = NoLink
    NoLoc = NoLoc
    Links <- MCSqns
    KeyOf <- MCKeyOf
    EnableCache = TRUE
    Sessions = {A, B}
    AsyncSessions = {}
    NoSession = NoSession
    MaxSqn = 1
    MaxRefs = 2
    ReadAheadAmount = 1
    Existing = {0}
    SharedAppend = FALSE
    CancelLoads = FALSE
    DecodeMayFail = FALSE
    WritesMayFail = TRUE
    WithScan = TRUE
SYMMETRY MCSegmentSymmetry
INVARIANTS
    CloseOfOneReference
CHECK_DEADLOCK FALSE
