SPECIFICATION Spec
CONSTANTS
    Width = 2
    Capacity = 2
    MaxCycle = 3
    Ties = FALSE
    EncodersMayFail = TRUE
    Directions = {"next", "previous"}
INVARIANTS
    QueriesExact
    NothingSkipped
    Reloads
CHECK_DEADLOCK FALSE
