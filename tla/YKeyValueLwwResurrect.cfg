SPECIFICATION Spec
CONSTANTS
    Replica = {a}
    Writer = {a}
    NoEntry = NoEntry
    MaxWrites = 2
    MaxTs = 2
PROPERTIES CommitMatchesReads
CHECK_DEADLOCK FALSE
