----------------------------- MODULE MCAutomation -----------------------------
(* The instances of AutomationSystem that TLC checks. *)
EXTENDS AutomationSystem, TLC

Symmetry == Permutations(Handlers) \cup Permutations(Bodies) \cup Permutations(Runs)
=============================================================================
