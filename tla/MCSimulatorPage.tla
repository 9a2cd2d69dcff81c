---------------------------- MODULE MCSimulatorPage ----------------------------
(***************************************************************************)
(* A lamp that exists and a blind that may come to exist.                  *)
(***************************************************************************)
EXTENDS SimulatorPage

CONSTANTS lamp, blind

MCDeviceType == [d \in {lamp, blind} |-> IF d = lamp THEN "light" ELSE "cover"]
MCInitial == [d \in {lamp, blind} |->
  IF d = lamp THEN [state |-> "off"] ELSE [state |-> "closed", position |-> 0]]
MCSettings == [brightness |-> {50}, toggle |-> {0}, stop |-> {0}]
=============================================================================
