---------------------------- MODULE MCServeClient ----------------------------
(* Instances of ServeClient for model checking. *)
EXTENDS ServeClient, TLC

CONSTANTS c1, c2

Symmetry == Permutations(Client)
=============================================================================
