----------------------------- MODULE MCDevicePage -----------------------------
(***************************************************************************)
(* A lamp the server knows and a heater it may come to know.               *)
(***************************************************************************)
EXTENDS DevicePage

CONSTANTS lamp, heater

On == [state |-> "on"]
Off == [state |-> "off"]
Warm(n) == [temperature |-> n]

MCDeviceType == [d \in {lamp, heater} |-> IF d = lamp THEN "light" ELSE "climate"]
MCStates == [d \in {lamp, heater} |-> IF d = lamp THEN {On} ELSE {Warm(21)}]
MCStored == [d \in {lamp} |-> [online |-> TRUE, state |-> Off]]
=============================================================================
