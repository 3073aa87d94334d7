-------------------------- MODULE MCClientThreads --------------------------
(* Model checking of ClientThreads: the values of its constants.           *)
EXTENDS ClientThreads

(* The chat server creates objects from complete JSON; JSON that lacks     *)
(* fields is in MCSyncSession.                                             *)
MCCreateJsons == {[f \in Fields |-> v] : v \in Values \ {Default}}
=============================================================================
