------------------------------ MODULE MCBunRooms ------------------------------
\* BunRooms for TLC; extending it has TLC evaluate its assumptions.  Sockets
\* are numbered in the order of their upgrades, so there is no symmetry.
EXTENDS BunRooms
=============================================================================
