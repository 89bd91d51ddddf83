----------------------------- MODULE MCSyncServer -----------------------------
(* Small instances of SyncServer for TLC. *)
EXTENDS SyncServer

Clients == {"c1", "c2", "c3"}
=============================================================================
