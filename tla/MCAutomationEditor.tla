-------------------------- MODULE MCAutomationEditor --------------------------
(* The instance of AutomationEditor that TLC checks: one stored automation, *)
(* of a type the builder draws from a field the server does not keep.       *)
EXTENDS AutomationEditor

CONSTANTS a1, a2, lamp

MCStored == [id \in {a1} |->
  [name |-> "n1", enabled |-> FALSE,
   triggers |-> <<[type |-> "time", owner |-> a1]>>,
   conditions |-> <<>>,
   actions |-> <<[type |-> "activate_scene", owner |-> a1]>>]]
MCDeviceType == [d \in Devices |-> "climate"]
MCNames == {"n1"}
MCTexts == {"7"}
MCPalette == {"timeTrigger", "sceneAction"}
MCChosen == {"time", "device_control", "delay"}
MCObjs == 1..4
Void == {}

(* Two states are alike when they differ in objects nothing refers to, or  *)
(* in what a closed modal still holds: opening it fills it anew.           *)
SelectedInUse == open \/ dialog # "none" \/ (\E r \in requests : r.op = "update")
Subject == IF SelectedInUse THEN selected ELSE Blank
InUse == ({Subject} \cup {automations[id] : id \in Ids}) \ {None, Blank}
Flows == {objs[o].flow : o \in InUse} \cup {r.data.flow : r \in {q \in requests : q.data # None}}
NodesInUse == nodes \cup UNION {f.nodes : f \in Flows \ {None}}
ListsInUse ==
  \/ open /\ body = "builder"
  \/ dialog # "none"
  \/ \E o \in InUse : objs[o].shared
  \/ \E r \in requests : r.data # None /\ r.data.shared
View ==
  <<serverVars, automations, [o \in InUse |-> objs[o]],
    [n \in NodesInUse |-> node[n]], nodes, connections, nextNodeId, Subject,
    IF ListsInUse THEN builder ELSE <<>>, IF open THEN <<body, footer>> ELSE <<>>,
    open, dialog, requests, used, historyVars>>
=============================================================================
