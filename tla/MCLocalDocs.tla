---------------------------- MODULE MCLocalDocs ----------------------------
EXTENDS LocalDocs, TLC
CONSTANTS t1, t2

\* The tab that wipes opens bodies; the other one holds the root database.
OneOpens == t1 :> MaxBodies @@ t2 :> 0
============================================================================
