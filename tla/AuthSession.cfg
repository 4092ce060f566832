CONSTANTS
    p = p
    q = q
    c1 = c1
    c2 = c2
    Caller = {c1, c2}
    Principal = {p, q}
    MaxGrants = 3
    MaxSignIns = 2
    MaxSignOuts = 1
    MaxFailures = 1
    MaxRestarts = 1
SPECIFICATION Spec
SYMMETRY Symmetry
INVARIANTS BearerConfirmed SignOutIsFinal CellFollowsMemory
PROPERTY NoDirectPrincipalSwitch
