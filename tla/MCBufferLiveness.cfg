SPECIFICATION FairSpec
CONSTANTS
    s1 = s1
    t1 = t1
    t2 = t2
    Segments = {s1}
    Threads = {t1, t2}
    NoSegment = NoSegment
    NoLink = NoLink
    NoStore = NoStore
    AllStores = AllStores
    Links <- MCLinks
    Stores <- MCStores
    Existing <- MCExisting
    KeyOf <- MCKeyOf
    StoreOf <- MCStoreOf
    EnableCache = TRUE
    MaxRetry = 2
PROPERTIES
    RequestReturns
CHECK_DEADLOCK FALSE
