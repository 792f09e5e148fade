SPECIFICATION Spec
CONSTANTS
    s1 = s1
    s2 = s2
    t1 = t1
    t2 = t2
    Segments = {s1, s2}
    Threads = {t1, t2}
    NoSegment = NoSegment
    NoLink = NoLink
    NoStore = NoStore
    AllStores = AllStores
    Links <- MCLinks
    Stores <- MCStores
    Existing <- MCExisting
    KeyOf <- MCKeyOf
    StoreOf <- MCStoreOf
    EnableCache = TRUE
    MaxRetry = 2
SYMMETRY MCSymmetry
INVARIANTS
    TypeOK
    SegmentPartition
    StandbyIndexed
    FreeIsClean
    CacheFaithful
    HolderFaithful
CHECK_DEADLOCK FALSE
