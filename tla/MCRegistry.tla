----------------------------- MODULE MCRegistry -----------------------------
(* The registry on a small instance; bodies and addresses are alike. *)
EXTENDS DiscoveryRegistry, TLC

Symmetry == Permutations(Bodies) \cup Permutations(Refs)
=============================================================================
