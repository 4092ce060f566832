CONSTANTS
    MaxCycles = 3
    MaxRetries = 2
    LocalDenials = TRUE
SPECIFICATION FairSpec
INVARIANTS
    NoOrphanSocket
PROPERTIES
    NoHotLoop
    KeepsTrying
    DisposeCompletes
CHECK_DEADLOCK FALSE
