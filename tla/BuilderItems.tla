----------------------------- MODULE BuilderItems -----------------------------
(***************************************************************************)
(* The dialogs of the form builder (automation-builder.js): what each type *)
(* of trigger, condition and action asks for, the item it makes, and what  *)
(* the builder dereferences when it draws an item.  And what the server    *)
(* keeps of an item: the fields of its Go structs (types.go).              *)
(*                                                                         *)
(* An item is a record.  The objects interval and delay of an item are     *)
(* their two fields, interval or delay and unit; other values are strings. *)
(***************************************************************************)
EXTENDS FlowNodes, Functions

CONSTANTS
  Devices,      \* the devices app.devices holds
  DeviceType,   \* their types
  Scenes,       \* the scenes app.scenes holds
  Texts,        \* what a user may enter in a field
  Numerals      \* the texts that are numbers

(* parseInt, with and without a default. *)
Integer(text, default) == IF text \in Numerals THEN text ELSE default
NaN == "null"

(***************************************************************************)
(* The dialogs: the inputs a type asks for.                                *)
(***************************************************************************)

DeviceStateInputs ==
  [device : Devices \cup {""},
   attribute : {"state", "brightness", "temperature", "humidity", "battery", "custom"},
   operator : {"equals", "not_equals", "greater_than", "less_than", "contains"},
   value : Texts]

TriggerTypes == {"device_state", "time", "sunrise", "sunset", "interval", "event"}

TriggerInputs(type) ==
  CASE type = "device_state" -> DeviceStateInputs
    [] type = "time" -> [time : Texts]
    [] type \in {"sunrise", "sunset"} -> [offset : Texts]
    [] type = "interval" -> [value : Texts, unit : {"minutes", "hours", "days"}]
    [] type = "event" -> [event_type : Texts]

ConditionTypes == {"device_state", "time_range", "day_of_week", "sun_position"}

ConditionInputs(type) ==
  CASE type = "device_state" -> DeviceStateInputs
    [] type = "time_range" -> [start : Texts, end : Texts]
    [] type = "day_of_week" -> [days : Texts \cup {"[]"}]
    [] type = "sun_position" -> [position : {"above_horizon", "below_horizon"}]

ActionTypes == {"device_control", "scene_activate", "notification", "delay", "event"}

(* onActionDeviceChange: the commands of a device; the first is preselected. *)
Commands(deviceType) ==
  CASE deviceType = "light" -> {"turn_on", "turn_off", "toggle", "set_brightness", "set_color"}
    [] deviceType = "switch" -> {"turn_on", "turn_off", "toggle"}
    [] deviceType = "climate" -> {"set_temperature", "set_mode", "turn_on", "turn_off"}
    [] OTHER -> {"custom"}

(* onDeviceActionChange: the parameter a command asks for once it has been *)
(* chosen; "custom" shows its field with the device.                       *)
Parameter(command) ==
  CASE command = "set_brightness" -> "brightness"
    [] command = "set_color" -> "color"
    [] command = "set_temperature" -> "temperature"
    [] command = "set_mode" -> "mode"
    [] command = "custom" -> "json"
    [] OTHER -> "none"

DeviceInputs ==
  {i \in [device : Devices, command : UNION {Commands(DeviceType[d]) : d \in Devices},
          parameter : Texts] :
     i.command \in Commands(DeviceType[i.device])}

ActionInputs(type) ==
  CASE type = "device_control" -> DeviceInputs
    [] type = "scene_activate" -> [scene : Scenes \cup {""}]
    [] type = "notification" -> [message : Texts, priority : {"low", "normal", "high"}]
    [] type = "delay" -> [value : Texts, unit : {"seconds", "minutes", "hours"}]
    [] type = "event" -> [event_type : Texts, data : Texts]

(***************************************************************************)
(* The items.  The field for the name of a custom attribute is never shown *)
(* and stays empty.                                                        *)
(***************************************************************************)

Attribute(in) == IF in.attribute = "custom" THEN "" ELSE in.attribute

SavedTrigger(type, in) ==
  CASE type = "device_state" ->
         [type |-> type, device_id |-> in.device, attribute |-> Attribute(in),
          operator |-> in.operator, value |-> in.value]
    [] type = "time" -> [type |-> type, time |-> in.time]
    [] type \in {"sunrise", "sunset"} -> [type |-> type, offset |-> Integer(in.offset, "0")]
    [] type = "interval" ->
         [type |-> type, interval |-> Integer(in.value, NaN), unit |-> in.unit]
    [] type = "event" -> [type |-> type, event_type |-> in.event_type]

SavedCondition(type, in) ==
  CASE type = "device_state" ->
         [type |-> type, device_id |-> in.device, attribute |-> Attribute(in),
          operator |-> in.operator, value |-> in.value]
    [] type = "time_range" -> [type |-> type, start_time |-> in.start, end_time |-> in.end]
    [] type = "day_of_week" -> [type |-> type, days |-> in.days]
    [] type = "sun_position" -> [type |-> type, position |-> in.position]

SavedAction(type, in) ==
  CASE type = "device_control" /\ Parameter(in.command) = "none" ->
         [type |-> type, device_id |-> in.device, command |-> in.command]
    [] type = "device_control" /\ Parameter(in.command) # "none" ->
         [type |-> type, device_id |-> in.device, command |-> in.command, data |-> in.parameter]
    [] type = "scene_activate" -> [type |-> type, scene_id |-> in.scene]
    [] type = "notification" -> [type |-> type, message |-> in.message, priority |-> in.priority]
    [] type = "delay" -> [type |-> type, delay |-> Integer(in.value, NaN), unit |-> in.unit]
    [] type = "event" -> [type |-> type, event_type |-> in.event_type, data |-> in.data]

(***************************************************************************)
(* Drawing.  A description that takes a field of an absent object throws.  *)
(***************************************************************************)

TriggerNeeds(item) == IF item.type = "interval" THEN {"interval"} ELSE {}
ConditionNeeds(item) == IF item.type = "day_of_week" THEN {"days"} ELSE {}
ActionNeeds(item) ==
  CASE item.type = "delay" -> {"delay"}
    [] item.type \in {"device_control", "device_command"}
         /\ item.command \in {"set_brightness", "set_color", "set_temperature"} -> {"data"}
    [] OTHER -> {}

(* renderTriggerDetails and its companions, and the same again for the preview. *)
CanDraw(triggers, conditions, actions) ==
  /\ \A i \in Range(triggers) : TriggerNeeds(i) \subseteq DOMAIN i
  /\ \A i \in Range(conditions) : ConditionNeeds(i) \subseteq DOMAIN i
  /\ \A i \in Range(actions) : ActionNeeds(i) \subseteq DOMAIN i

(***************************************************************************)
(* The server.                                                             *)
(***************************************************************************)

(* json.Decoder fills Trigger, Condition and Action and drops the rest;    *)
(* owner is the model's own: the automation an item was made for.          *)
TestedFields == {"type", "owner", "device_id", "attribute", "value", "operator"}
ActionFields == {"type", "owner", "device_id", "command", "data"}

KeptTests(items) == [n \in DOMAIN items |-> Restrict(items[n], TestedFields \cap DOMAIN items[n])]

(* Mutant: the parameters of a command are dropped too. *)
KeptActionsBare(items) ==
  [n \in DOMAIN items |-> Restrict(items[n], (ActionFields \ {"data"}) \cap DOMAIN items[n])]

KeptActions(items) == [n \in DOMAIN items |-> Restrict(items[n], ActionFields \cap DOMAIN items[n])]
=============================================================================
