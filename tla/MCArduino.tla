------------------------------- MODULE MCArduino -------------------------------
(* The instances of ArduinoClient that TLC checks. *)
EXTENDS ArduinoClient, TLC

Symmetry == Permutations(Subjects)
=============================================================================
