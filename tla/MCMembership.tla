----------------------------- MODULE MCMembership -----------------------------
(* Instances of Membership for model checking. *)
EXTENDS Membership, TLC

CONSTANTS n1, n2, n3

(* n2 is told of both others and n1 of n2; n3 starts with no peer.         *)
MCBootstrap == n1 :> {n2} @@ n2 :> {n1, n3} @@ n3 :> {}

(* n1 and n3 start with no peer and are found by n2: the first report of   *)
(* n1 is pushed to nobody unless n2 has been there before.                 *)
MCFoundByOne == n1 :> {} @@ n2 :> {n1, n3} @@ n3 :> {}
=============================================================================
