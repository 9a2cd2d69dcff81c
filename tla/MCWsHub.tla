-------------------------------- MODULE MCWsHub --------------------------------
(* The instances of WsHub that TLC checks. *)
EXTENDS WsHub, TLC

Symmetry == Permutations(Clients) \cup Permutations(Sources)
=============================================================================
