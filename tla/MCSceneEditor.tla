---------------------------- MODULE MCSceneEditor ----------------------------
(* The instance of SceneEditor that TLC checks: a light, a thermostat, a    *)
(* device of a type the dialog knows no controls for, and a cover the page  *)
(* does not know but one of the two stored scenes contains.                 *)
EXTENDS SceneEditor

CONSTANTS s1, s2, s3, lamp, heater, sensor, ghost

MCStored == [id \in {s1, s2} |->
  [name |-> "n1", icon |-> "fa-home",
   devices |-> [d \in IF id = s1 THEN {lamp, ghost} ELSE {heater, sensor} |->
     CASE d = lamp -> [state |-> "on", brightness |-> "50"]
       [] d = ghost -> [position |-> "50"]
       [] d = heater -> [mode |-> "heat", temperature |-> "22"]
       [] d = sensor -> Single("key", "value")]]]

MCTypeOf == [d \in Devices |-> CASE d = lamp -> "light" [] d = heater -> "climate" [] d = sensor -> "sensor" [] d = ghost -> "cover"]
MCFeatures == [d \in Devices |-> IF d = lamp THEN {"temperature"} ELSE {}]
MCNames == {"n2"}
MCIcons == {"fa-moon"}
MCPercent == {"50", "100"}
MCDegrees == {"22"}
MCColors == {"#ffffff"}
MCCustoms == {Single("key", "value"), NotObject}
MCObjs == 1..5
MCRefs == 1..7

(* Two states are alike when they differ in objects nothing refers to, or  *)
(* in what a closed dialog still holds: opening it fills it anew.          *)
Dialogue == IF open THEN <<current, deviceStates, typed>> ELSE Empty
RefsInUse ==
  UNION {Range(objs[o].devices) : o \in LiveObjs}
    \cup UNION {Range(r.refs) : r \in requests} \cup (IF open THEN Range(deviceStates) ELSE {})
View ==
  <<server, born, list, scenes, selected, Dialogue, open, requests, used, excused, mixed,
    [o \in LiveObjs |-> objs[o]], [r \in RefsInUse |-> heap[r]]>>
=============================================================================
