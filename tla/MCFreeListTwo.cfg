SPECIFICATION ListSpec
CONSTANTS
    t1 = t1
    t2 = t2
    t3 = t3
    Null = Null
    NumSegments = 3
    Callers = {t1, t2, t3}
    Poppers = {t1, t2}
INVARIANTS
    TakenIsFree
