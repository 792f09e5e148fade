SPECIFICATION Spec
CONSTANTS
    A = A
    B = B
    s1 = s1
    s2 = s2
    Segments = {s1, s2}
    NoSegment = NoSegment
    NoLink = NoLink
    NoLoc = NoLoc
    Links <- MCSqns
    KeyOf <- MCKeyOf
    EnableCache = TRUE
    Sessions = {A, B}
    AsyncSessions = {B}
    NoSession = NoSession
    MaxSqn = 2
    MaxRefs = 2
    ReadAheadAmount = 1
    Existing = {0}
    SharedAppend = FALSE
    CancelLoads = TRUE
    DecodeMayFail = TRUE
    WritesMayFail = TRUE
    WithScan = TRUE
SYMMETRY MCSegmentSymmetry
INVARIANTS
    TypeOK
    SegmentOwnership
    OneOperation
    ReferencesCounted
    MappingStable
PROPERTIES
    ImplementsTraceStream
CHECK_DEADLOCK FALSE
