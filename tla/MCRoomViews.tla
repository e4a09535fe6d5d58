----------------------------- MODULE MCRoomViews ----------------------------
(***************************************************************************)
(* Small instances of RoomViews: two connections, of one player or of two. *)
(***************************************************************************)
EXTENDS RoomViews, TLC

Symmetry == Permutations(Conns) \cup Permutations(Players)
=============================================================================
