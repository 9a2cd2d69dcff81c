---------------------------- MODULE DeviceControls ----------------------------
(***************************************************************************)
(* The dialog of a device (device-controls.js): the controls it offers for *)
(* a type and a state, and the command each of them sends.                 *)
(*                                                                         *)
(* A state is a function of its attributes.  A device of the server has    *)
(* neither features nor effects (types.go:9), so what a light or a fan can *)
(* do is taken from its state.                                             *)
(***************************************************************************)
EXTENDS Integers

Get(state, k, default) == IF k \in DOMAIN state THEN state[k] ELSE default

IsOn(state) == Get(state, "state", "off") = "on"

(* hasFeature, without device.features *)
Features(type, state) ==
  CASE type = "light" -> {"brightness"} \cup ({"color", "color_temp"} \cap DOMAIN state)
    [] type = "fan" -> {"oscillating", "direction"} \cap DOMAIN state
    [] OTHER -> {}

(***************************************************************************)
(* renderControls: the controls offered.                                   *)
(***************************************************************************)

LightControls(state) ==
  {"power"} \cup IF IsOn(state) THEN Features("light", state) ELSE {}

SwitchControls == {"power"}

ClimateControls(state) ==
  {"mode"} \cup IF Get(state, "mode", "unset") = "off" THEN {} ELSE {"temperature", "fan_mode"}

CoverControls(state) ==
  {"position", "stop"} \cup ({"tilt"} \cap DOMAIN state)

FanControls(state) ==
  {"power"} \cup IF IsOn(state) THEN {"speed"} \cup Features("fan", state) ELSE {}

LockControls == {"lock"}
MediaControls == {"previous", "play_pause", "next", "volume"}
GenericControls == {"custom"}

Controls(type, device) ==
  CASE ~device.online -> {}
    [] device.online /\ type = "light" -> LightControls(device.state)
    [] device.online /\ type = "switch" -> SwitchControls
    [] device.online /\ type = "climate" -> ClimateControls(device.state)
    [] device.online /\ type = "cover" -> CoverControls(device.state)
    [] device.online /\ type = "fan" -> FanControls(device.state)
    [] device.online /\ type = "lock" -> LockControls
    [] device.online /\ type = "media_player" -> MediaControls
    [] OTHER -> GenericControls

(***************************************************************************)
(* The command of a control.  Controls not listed send what the user set,  *)
(* whatever the state; the ones below read the state the dialog holds when *)
(* they are clicked.                                                       *)
(***************************************************************************)

Clamp(n) == IF n < 16 THEN 16 ELSE IF n > 30 THEN 30 ELSE n

(* Degrees in steps of one: the code's half degrees make no difference. *)
AdjustTemperature(state, delta) ==
  LET t == Get(state, "temperature", 22) IN Clamp((IF t = 0 THEN 22 ELSE t) + delta)

Steps == {-1, 1}

(* All a control may send, given the state held. *)
Commands(control, state) ==
  CASE control = "power" -> {<<"set_state", IF IsOn(state) THEN "off" ELSE "on">>}
    [] control = "temperature" -> {<<"set_temperature", AdjustTemperature(state, n)>> : n \in Steps}
    [] control = "oscillating" -> {<<"set_oscillation", ~Get(state, "oscillating", FALSE)>>}
    [] control = "lock" -> {<<IF Get(state, "state", "unlocked") = "locked" THEN "unlock" ELSE "lock">>}
    [] control = "play_pause" ->
         {<<IF Get(state, "state", "paused") = "playing" THEN "media_pause" ELSE "media_play">>}
    [] OTHER -> {<<control>>}

(* App.toggleDevice, the button of a card. *)
ToggleCommand(device) == <<IF IsOn(device.state) THEN "off" ELSE "on">>
=============================================================================
