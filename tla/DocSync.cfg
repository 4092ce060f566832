CONSTANTS
    a = a
    b = b
    Client = {a, b}
    EditsOf <- TwoAndOne
    MaxEdits = 2
    MaxSockets = 3
    MaxLosses = 1
    AppendFails = FALSE
SPECIFICATION MCSpec
INVARIANTS
    LogHoldsDoc
    IdleClientInSync
    NothingPendingWhenIdle
PROPERTIES
    RefinesSharedDoc
    Convergence
CHECK_DEADLOCK FALSE
