SPECIFICATION FairSpec
CONSTANTS
    Workers = {w1, w2}
    Items <- MCItemsOne
    Children <- MCChildrenOne
    PriorityOf <- MCPriorityOne
    ClosedEarly = FALSE
PROPERTIES
    CloseReturns
CHECK_DEADLOCK FALSE
