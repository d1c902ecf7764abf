--------------------------- MODULE MCConfigGossip ---------------------------
(* Instances of ConfigGossip for model checking. *)
EXTENDS ConfigGossip

CONSTANTS n1, n2
=============================================================================
