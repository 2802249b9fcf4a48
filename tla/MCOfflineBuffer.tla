-------------------------- MODULE MCOfflineBuffer --------------------------
(* Small instances of OfflineBuffer for TLC.                               *)
EXTENDS OfflineBuffer

AllWrites == {"entry", "meta"}
=============================================================================
