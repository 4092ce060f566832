----------------------------- MODULE MCDurableRoom -----------------------------
(* An instance of DurableRoom for TLC. *)
EXTENDS DurableRoom, TLC
=============================================================================
