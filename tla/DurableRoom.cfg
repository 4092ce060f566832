CONSTANTS
    Node = {a, b}
    Agent = {claude}
    NoAgent = NoAgent
    MaxSockets = 3
    Publisher = {2}
    MaxNow = 1
    Lifetime = 1
SPECIFICATION FairDurableSpec
INVARIANTS
    SweepAlarmCovers
    AttachmentsMirrorMap
    ListsExactAcrossHibernation
PROPERTIES
    ExpiredClosedAcrossHibernation
CHECK_DEADLOCK FALSE
