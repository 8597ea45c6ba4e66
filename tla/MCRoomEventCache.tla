-------------------------- MODULE MCRoomEventCache --------------------------
(* Instances of RoomEventCache for TLC. *)
EXTENDS RoomEventCache
=============================================================================
