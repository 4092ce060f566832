SPECIFICATION FairSpec
CONSTANTS
    Replica = {a, b, c}
    Writer = {a, b}
    NoEntry = NoEntry
    MaxWrites = 3
    MaxTs = 2
INVARIANTS IndexFollowsArray NewestWriteKept
PROPERTIES CommitKeepsReads MapsConverge
CHECK_DEADLOCK FALSE
