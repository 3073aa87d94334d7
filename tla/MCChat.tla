------------------------------- MODULE MCChat -------------------------------
(* Model checking of Chat: the values of its constants.                    *)
EXTENDS Chat

MCValues == ID \cup Clients \cup Texts
=============================================================================
