--------------------------- MODULE MCSyncSession ---------------------------
(* Model checking of SyncSession: the values of its constants.             *)
EXTENDS SyncSession

(* The application creates objects from complete JSON, as the chat server  *)
(* does, and from JSON with some fields missing.                           *)
MCCreateJsons == {[f \in Fields |-> v] : v \in Values \ {Default}}
                     \cup {[f \in {1} |-> Default]}

(* JSON that gives the one field a value and leaves the other out.         *)
MCPartialJsons == {[f \in {1} |-> v] : v \in Values \ {Default}}
=============================================================================
