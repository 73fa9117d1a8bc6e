--------------------------- MODULE MCSyncRunBuffer ----------------------------
(***************************************************************************)
(* Small instances of SyncRunBuffer for TLC.                               *)
(***************************************************************************)
EXTENDS SyncRunBuffer
=============================================================================
