---------------------------- MODULE MCRoomPresence ----------------------------
(* Instances of RoomPresence for TLC. *)
EXTENDS RoomPresence, TLC

Symmetry == Permutations(Node)
=============================================================================
