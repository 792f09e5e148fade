SPECIFICATION Spec
CONSTANTS
    a = a
    b = b
    c = c
    p1 = p1
    p2 = p2
    p3 = p3
    Sessions = {a, b, c}
    Paths = {p1, p2, p3}
    PersistentCache = 1
    MaxStores = 3
    MaxClock = 2
SYMMETRY MCSymmetry
INVARIANTS
    OneStorePerPath
    AttachedStoreLives
CHECK_DEADLOCK FALSE
