CONSTANTS
    a = a
    b = b
    Client = {a, b}
    EditsOf <- OneWriter
    MaxEdits = 2
    MaxSockets = 2
    MaxLosses = 0
    AppendFails = TRUE
SPECIFICATION MCSpec
INVARIANT EveryUpdatePersisted
CHECK_DEADLOCK FALSE
