------------------------------ MODULE FlowNodes ------------------------------
(***************************************************************************)
(* The node types of the visual designer (simple-flow-designer.js): where  *)
(* the palette puts them, the data a new node has, the form that edits it, *)
(* and the trigger, condition or action an automation gets from it.        *)
(*                                                                         *)
(* A node's data is a function of its keys.  Values are strings; numbers,  *)
(* objects and lists stand as one too.  The types of flows older than the  *)
(* palette are left out: the server keeps no flows, so none can come back. *)
(***************************************************************************)
EXTENDS Naturals

Triggers ==
  {"deviceStateTrigger", "natsEventTrigger", "timeTrigger", "scheduleTrigger",
   "sunriseTrigger", "sunsetTrigger", "intervalTrigger", "stateChangeTrigger"}
Conditions ==
  {"deviceStateCondition", "timeCondition", "dayOfWeekCondition", "numericCondition",
   "sunCondition", "presenceCondition", "zoneCondition"}
Actions ==
  {"deviceAction", "publishEventAction", "updateStateAction", "sceneAction",
   "notificationAction", "delayAction", "scriptAction"}
Logic == {"andGate", "orGate", "notGate", "switchNode", "counterNode", "timerNode"}
StateNodes ==
  {"getStateNode", "setStateNode", "watchStateNode", "compareStateNode",
   "incrementStateNode", "appendStateNode"}

NodeTypes == Triggers \cup Conditions \cup Actions \cup Logic \cup StateNodes

(* getNodeConfig: the ports a node is drawn with. *)
Inputs(type) ==
  CASE type \in Triggers -> 0
    [] type \in {"andGate", "orGate"} -> 2
    [] OTHER -> 1

Outputs(type) ==
  CASE type \in Actions -> 0
    [] type \in Conditions -> 2
    [] type = "switchNode" -> 3
    [] OTHER -> 1

NoData == <<>>
Bucket == "automation-state"

(* initializeNodeData *)
DefaultData(type) ==
  CASE type = "deviceStateTrigger" -> [device |-> "", attribute |-> "state", from |-> "", to |-> ""]
    [] type = "natsEventTrigger" -> [subject |-> "events.", queue |-> ""]
    [] type = "timeTrigger" -> [time |-> "00:00"]
    [] type = "scheduleTrigger" -> [cron |-> "0 0 * * *"]
    [] type \in {"sunriseTrigger", "sunsetTrigger"} -> [offset |-> "0"]
    [] type = "intervalTrigger" -> [interval |-> "60", unit |-> "seconds"]
    [] type = "deviceStateCondition" ->
         [device |-> "", attribute |-> "state", operator |-> "equals", value |-> ""]
    [] type = "timeCondition" -> [after |-> "00:00", before |-> "23:59"]
    [] type = "dayOfWeekCondition" -> [days |-> "[]"]
    [] type = "numericCondition" -> [value1 |-> "", operator |-> ">", value2 |-> ""]
    [] type = "sunCondition" -> [condition |-> "above_horizon"]
    [] type = "deviceAction" -> [device |-> "", command |-> "turn_on", parameters |-> "{}"]
    [] type = "sceneAction" -> [scene |-> ""]
    [] type = "notificationAction" -> [title |-> "Alert", message |-> "", priority |-> "normal"]
    [] type = "delayAction" -> [delay |-> "5", unit |-> "seconds"]
    [] type = "publishEventAction" -> [subject |-> "events.", payload |-> "{}", headers |-> "{}"]
    [] type = "updateStateAction" -> [bucket |-> Bucket, key |-> "", value |-> "", ttl |-> "0"]
    [] type = "scriptAction" -> [script |-> ""]
    [] type = "switchNode" -> [property |-> "", rules |-> "[]"]
    [] type = "counterNode" -> [threshold |-> "5", reset |-> "true"]
    [] type = "timerNode" -> [duration |-> "60", unit |-> "seconds"]
    [] type \in {"stateChangeTrigger", "getStateNode", "watchStateNode"} ->
         [bucket |-> Bucket, key |-> ""]
    [] type \in {"setStateNode", "appendStateNode"} -> [bucket |-> Bucket, key |-> "", value |-> ""]
    [] type = "compareStateNode" ->
         [bucket |-> Bucket, key |-> "", operator |-> "equals", value |-> ""]
    [] type = "incrementStateNode" -> [bucket |-> Bucket, key |-> "", increment |-> "1"]
    [] OTHER -> NoData

(***************************************************************************)
(* editNode: the fields of a type's form, each with what it shows when the *)
(* node has nothing there.  The other types have no form.                  *)
(***************************************************************************)

TriggerForm(type) ==
  CASE type = "deviceStateTrigger" -> [device |-> "", attribute |-> "state", from |-> "", to |-> ""]
    [] type = "timeTrigger" -> [time |-> "00:00"]
    [] type = "scheduleTrigger" -> [cron |-> "0 0 * * *"]
    [] type \in {"sunriseTrigger", "sunsetTrigger"} -> [offset |-> "0"]
    [] type = "intervalTrigger" -> [interval |-> "60", unit |-> "seconds"]

ConditionForm(type) ==
  CASE type = "deviceStateCondition" ->
         [device |-> "", attribute |-> "state", operator |-> "equals", value |-> ""]
    [] type = "timeCondition" -> [after |-> "00:00", before |-> "23:59"]
    [] type = "dayOfWeekCondition" -> [days |-> "[]"]
    [] OTHER -> NoData

ActionForm(type) ==
  CASE type = "deviceAction" -> [device |-> "", command |-> "turn_on"]
    [] type = "sceneAction" -> [scene |-> ""]
    [] type = "notificationAction" -> [title |-> "Alert", message |-> "", priority |-> "normal"]
    [] type = "delayAction" -> [delay |-> "5", unit |-> "seconds"]
    [] OTHER -> NoData

NatsForm(type) ==
  CASE type = "natsEventTrigger" -> [subject |-> "events.", queue |-> ""]
    [] type = "publishEventAction" -> [subject |-> "events.", payload |-> "{}"]
    [] type \in {"stateChangeTrigger", "watchStateNode", "getStateNode"} ->
         [bucket |-> Bucket, key |-> ""]
    [] type \in {"setStateNode", "updateStateAction"} ->
         [bucket |-> Bucket, key |-> "", value |-> "", ttl |-> "0"]
    [] type = "compareStateNode" ->
         [bucket |-> Bucket, key |-> "", operator |-> "equals", value |-> ""]
    [] type = "incrementStateNode" -> [bucket |-> Bucket, key |-> "", increment |-> "1"]
    [] type = "appendStateNode" -> [bucket |-> Bucket, key |-> "", value |-> ""]

NatsTypes ==
  {"natsEventTrigger", "stateChangeTrigger", "publishEventAction", "updateStateAction"} \cup StateNodes

Form(type) ==
  CASE type \in NatsTypes -> NatsForm(type)
    [] type \in Triggers \ NatsTypes -> TriggerForm(type)
    [] type \in Conditions -> ConditionForm(type)
    [] type \in Actions \ NatsTypes -> ActionForm(type)
    [] OTHER -> NoData

Or(value, fallback) == IF value = "" THEN fallback ELSE value

(* What the form shows of a node. *)
Displayed(type, data) ==
  [k \in DOMAIN Form(type) |->
    IF k \in DOMAIN data THEN Or(data[k], Form(type)[k]) ELSE Form(type)[k]]

NumberFields == {"offset", "interval", "delay", "ttl", "increment"}

(* parseInt(text) || default: a text that is no number, and zero, give the default. *)
ReadField(type, k, text, numerals) ==
  IF k \in NumberFields /\ text \notin numerals \ {"0"} THEN Form(type)[k] ELSE text

(* saveNodeEdit: the data after a form with the texts of input is saved. *)
SavedData(type, data, input, numerals) ==
  [k \in DOMAIN data \cup DOMAIN Form(type) |->
    IF k \in DOMAIN Form(type) THEN ReadField(type, k, input[k], numerals) ELSE data[k]]

(***************************************************************************)
(* convertToAutomation: the item each node becomes.  A field the code      *)
(* leaves out when it is empty is "".  Kinds tell which of the three lists *)
(* of the automation the item goes to.                                     *)
(***************************************************************************)

Trigger(type, d) ==
  CASE type = "deviceStateTrigger" ->
         [type |-> "device_state", device_id |-> d.device,
          attribute |-> Or(d.attribute, "state"), from |-> d.from, to |-> d.to]
    [] type = "timeTrigger" -> [type |-> "time", time |-> d.time]
    [] type = "scheduleTrigger" -> [type |-> "schedule", cron |-> d.cron]
    [] type = "sunriseTrigger" -> [type |-> "sunrise", offset |-> d.offset]
    [] type = "sunsetTrigger" -> [type |-> "sunset", offset |-> d.offset]
    [] type = "intervalTrigger" -> [type |-> "interval", interval |-> d.interval, unit |-> d.unit]
    [] type = "natsEventTrigger" -> [type |-> "nats_event", subject |-> d.subject, queue |-> d.queue]
    [] type = "stateChangeTrigger" -> [type |-> "state_change", bucket |-> d.bucket, key |-> d.key]

Condition(type, d) ==
  CASE type = "deviceStateCondition" ->
         [type |-> "device_state", device_id |-> d.device, attribute |-> Or(d.attribute, "state"),
          operator |-> Or(d.operator, "equals"), value |-> d.value]
    [] type = "timeCondition" -> [type |-> "time_between", after |-> d.after, before |-> d.before]
    [] type = "dayOfWeekCondition" -> [type |-> "day_of_week", days |-> d.days]

StateItem(type, d) ==
  CASE type \in {"getStateNode", "watchStateNode"} ->
         [type |-> "state_value", bucket |-> d.bucket, key |-> d.key]
    [] type = "compareStateNode" ->
         [type |-> "state_compare", bucket |-> d.bucket, key |-> d.key,
          operator |-> d.operator, value |-> d.value]
    [] type = "setStateNode" ->
         [type |-> "set_state", bucket |-> d.bucket, key |-> d.key, value |-> d.value]
    [] type = "incrementStateNode" ->
         [type |-> "increment_state", bucket |-> d.bucket, key |-> d.key, increment |-> d.increment]
    [] type = "appendStateNode" ->
         [type |-> "append_state", bucket |-> d.bucket, key |-> d.key, value |-> d.value]

Action(type, d) ==
  CASE type = "deviceAction" ->
         [type |-> "device_command", device_id |-> d.device,
          command |-> Or(d.command, "turn_on"), parameters |-> d.parameters]
    [] type = "sceneAction" -> [type |-> "activate_scene", scene_id |-> d.scene]
    [] type = "notificationAction" ->
         [type |-> "notification", title |-> d.title, message |-> d.message,
          priority |-> Or(d.priority, "normal")]
    [] type = "delayAction" -> [type |-> "delay", delay |-> d.delay, unit |-> Or(d.unit, "seconds")]
    [] type = "publishEventAction" ->
         [type |-> "publish_event", subject |-> d.subject, payload |-> d.payload]
    [] type = "updateStateAction" ->
         [type |-> "update_state", bucket |-> d.bucket, key |-> d.key,
          value |-> d.value, ttl |-> d.ttl]

(* Nodes of these types are on the canvas only. *)
Unconverted ==
  Logic \cup {"numericCondition", "sunCondition", "presenceCondition", "zoneCondition", "scriptAction"}

Kind(type) ==
  CASE type \in Triggers -> "triggers"
    [] type \in (Conditions \ Unconverted) \cup {"getStateNode", "watchStateNode", "compareStateNode"} ->
         "conditions"
    [] type \in (Actions \ Unconverted) \cup {"setStateNode", "incrementStateNode", "appendStateNode"} ->
         "actions"
    [] OTHER -> "none"

Item(type, d) ==
  CASE type \in Triggers -> Trigger(type, d)
    [] type \in Conditions -> Condition(type, d)
    [] type \in StateNodes -> StateItem(type, d)
    [] type \in Actions -> Action(type, d)
=============================================================================
