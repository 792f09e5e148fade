SPECIFICATION Spec
CONSTANTS
    a = a
    b = b
    p1 = p1
    p2 = p2
    p3 = p3
    Sessions = {a, b}
    Paths = {p1, p2, p3}
    PersistentCache = 1
    MaxStores = 3
    MaxClock = 3
SYMMETRY MCSymmetry
PROPERTIES
    EvictsWhenFull
CHECK_DEADLOCK FALSE
