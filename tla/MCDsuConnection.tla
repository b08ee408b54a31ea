--------------------------- MODULE MCDsuConnection ---------------------------
(* Instances of DsuRequests for TLC; the values of the constants are in the  *)
(* .cfg files.                                                               *)
EXTENDS DsuRequests, MCDsuWire, TLC

Symmetry == Permutations(Clients)
=============================================================================
