--------------------------- MODULE MCSyncManager ---------------------------
(* Model checking of SyncManager: the values of its constants.             *)
EXTENDS SyncManager, TLC

(* Complete JSON, and JSON with one field only.                            *)
MCJsons == {[f \in Fields |-> v] : v \in Values \ {Default}}
              \cup {[f \in {1} |-> v] : v \in Values}

MCSymmetry == Permutations(Addr)
=============================================================================
