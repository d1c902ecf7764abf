----------------------------- MODULE MCTunnels -----------------------------
(***************************************************************************)
(* Instances of Tunnels for TLC.                                           *)
(***************************************************************************)
EXTENDS Tunnels

MCScenario == {{"fail"}, {"drain"}, {"direct", "mux"}}
=============================================================================
