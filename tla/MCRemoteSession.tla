--------------------------- MODULE MCRemoteSession ---------------------------
(* Instances of RemoteSession for TLC; the values are in the .cfg files. *)
EXTENDS RemoteSession, TLC

Symmetry == Permutations(Hosts)
=============================================================================
