------------------------------- MODULE MCSimHub -------------------------------
(* The instances of SimHub that TLC checks. *)
EXTENDS SimHub, TLC

Symmetry == Permutations(Clients) \cup Permutations(Senders)
=============================================================================
