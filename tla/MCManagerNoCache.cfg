SPECIFICATION Spec
CONSTANTS
    a = a
    b = b
    c = c
    p1 = p1
    Sessions = {a, b, c}
    Paths = {p1}
    PersistentCache = 0
    MaxStores = 4
    MaxClock = 3
SYMMETRY MCSymmetry
INVARIANTS
    OneStorePerPath
CHECK_DEADLOCK FALSE
