SPECIFICATION FairSpec
CONSTANTS
    Ops = {o1, o2, o3}
PROPERTIES
    WaitReturns
CHECK_DEADLOCK FALSE
