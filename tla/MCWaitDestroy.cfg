SPECIFICATION Spec
CONSTANTS
    Ops = {o1, o2, o3}
INVARIANTS
    DestroyedUnused
CHECK_DEADLOCK FALSE
