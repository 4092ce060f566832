----------------------------- MODULE MCYKeyValueLww -----------------------------
(* Model checking YKeyValueLww. *)
EXTENDS YKeyValueLww
=================================================================================
