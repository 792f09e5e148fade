SPECIFICATION FairSpec
CONSTANTS
    Workers = {w1, w2}
    Items <- MCItems
    Children <- MCChildren
    PriorityOf <- MCPriority
    ClosedEarly = FALSE
INVARIANTS
    ClosedMeansDone
PROPERTIES
    WorkIsDone
CHECK_DEADLOCK FALSE
