SPECIFICATION Spec
CONSTANTS
    s1 = s1
    s2 = s2
    t1 = t1
    Segments = {s1, s2}
    Threads = {t1}
    NoSegment = NoSegment
    NoLink = NoLink
    NoStore = NoStore
    AllStores = AllStores
    Links <- MCLinksFolded
    Stores <- MCStoresFolded
    Existing <- MCLinksFolded
    KeyOf <- MCKeyOf
    StoreOf <- MCStoreOf
    EnableCache = TRUE
    MaxRetry = 1
INVARIANTS
    HolderFaithful
CHECK_DEADLOCK FALSE
