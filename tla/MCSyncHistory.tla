---------------------------- MODULE MCSyncHistory ---------------------------
(* Model checking of SyncHistory, with the constants of MCSyncSession.     *)
EXTENDS MCSyncSession, SyncHistory
=============================================================================
