---------------------------- MODULE MCPyReceiver ----------------------------
(* Instances of PyReceiver for TLC; the values are in the .cfg files. *)
EXTENDS PyReceiver, TLC

Symmetry == Permutations(Threads)
=============================================================================
