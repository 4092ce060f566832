--------------------------- MODULE MCSyncSupervisor ---------------------------
\* SyncSupervisor for TLC; extending it has TLC evaluate its assumptions.
EXTENDS SyncSupervisor
=============================================================================
