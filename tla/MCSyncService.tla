--------------------------- MODULE MCSyncService ---------------------------
(* Instances of SyncService for TLC. *)
EXTENDS SyncService
=============================================================================
