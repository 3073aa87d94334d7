---------------------------- MODULE MCConnection ---------------------------
(* Model checking of Connection: clients are interchangeable.              *)
EXTENDS Connection, TLC

MCSymmetry == Permutations(Clients)
=============================================================================
