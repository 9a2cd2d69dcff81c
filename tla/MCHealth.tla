------------------------------- MODULE MCHealth -------------------------------
(***************************************************************************)
(* Levels at the edges of what counts as low, and a state without one.     *)
(***************************************************************************)
EXTENDS HealthPage

MCLevels == {None, 0, 10, 20}
=============================================================================
