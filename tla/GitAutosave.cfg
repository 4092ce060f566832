SPECIFICATION MCSpec
CONSTANTS
    r = r
    s = s
    Row = {r, s}
    Titles <- TitlesOf
    MaxEdits = 2
    MaxRebuilds = 2
    MaxFailures = 1
INVARIANTS SettledFilesExact DrainedFilesExact SettledHistoryExact
PROPERTY ChangesCommitted
CHECK_DEADLOCK FALSE
