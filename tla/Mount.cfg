SPECIFICATION MCSpec
CONSTANTS
    Row = {r, s}
    MaxEdits = 2
    MaxRebuilds = 1
    MaxFailures = 1
INVARIANTS RestingMirrorExact DrainedAtShutdown
PROPERTIES MirrorConverges DisposalEnds
CHECK_DEADLOCK FALSE
