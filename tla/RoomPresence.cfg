CONSTANTS
    Node = {a, b, c}
    Agent = {}
    NoAgent = NoAgent
    MaxSockets = 4
    MaxNow = 1
    Lifetime = 1
SPECIFICATION FairSpec
INVARIANTS
    LiveNodesListed
    ListsExactWhenSettled
PROPERTIES
    DepartureAnnounced
CHECK_DEADLOCK FALSE
