--------------------------- MODULE MCAuthSession ---------------------------
EXTENDS AuthSession, TLC
CONSTANTS c1, c2, p, q

Symmetry == Permutations(Caller) \cup Permutations(Principal)
============================================================================
