---------------------------- MODULE MCRoomSession ----------------------------
(* RoomSession with rooms that are interchangeable model values. *)
EXTENDS RoomSession, TLC

Symmetry == Permutations(Rooms)

=============================================================================
