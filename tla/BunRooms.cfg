CONSTANTS
    MaxSockets = 3
    MaxEntries = 3
SPECIFICATION FairSpec
INVARIANTS
    LiveSocketsServed
    CoreHoldsFile
PROPERTY EmptyRoomEvicted
CHECK_DEADLOCK FALSE
