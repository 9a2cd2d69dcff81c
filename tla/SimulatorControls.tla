--------------------------- MODULE SimulatorControls ---------------------------
(***************************************************************************)
(* The controls of a simulated device (device-simulator.js): what a card   *)
(* and the control dialog offer, what each control asks the simulator for, *)
(* and what the simulator does with it (main.go).                          *)
(*                                                                         *)
(* A state, or a change of one, is a function of attributes.               *)
(***************************************************************************)
EXTENDS Integers, TLC

Nothing == <<>>

(* The attribute, or 0, which the page takes like none at all. *)
Number(state, k) == IF k \in DOMAIN state THEN state[k] ELSE 0

(* renderQuickActions *)
QuickActions(type) ==
  CASE type \in {"light", "switch", "fan"} -> {"toggle"}
    [] type = "lock" -> {"toggle_lock"}
    [] type = "cover" -> {"toggle_cover"}
    [] OTHER -> {}

(***************************************************************************)
(* renderDeviceControls.  The colors of a light say that they are not      *)
(* implemented, and are left out.                                          *)
(***************************************************************************)

LightControls == {"toggle", "brightness"}
ThermostatControls == {"temperature", "mode"}
CoverControls == {"position", "open", "stop", "close"}
FanControls == {"toggle", "speed"}

DialogControls(type) ==
  CASE type = "light" -> LightControls
    [] type = "thermostat" -> ThermostatControls
    [] type = "cover" -> CoverControls
    [] type = "fan" -> FanControls
    [] OTHER -> {}

(***************************************************************************)
(* setupControlHandlers, toggleLock, toggleCover: the change asked for.    *)
(***************************************************************************)

Open(position) == IF position > 0 THEN "open" ELSE "closed"

Moved(position) == [position |-> position, state |-> Open(position)]

Dimmed(brightness) ==
  IF brightness > 0 THEN [brightness |-> brightness, state |-> "on"]
  ELSE [brightness |-> brightness]

Unlocked(state) ==
  [state |-> IF "state" \in DOMAIN state /\ state.state = "locked" THEN "unlocked" ELSE "locked"]

CoverToggled(state) == Moved(IF Number(state, "position") > 0 THEN 0 ELSE 100)

(* The button of power has the handler of every button too, which asks for *)
(* no change.                                                              *)
Change(control, value, state) ==
  CASE control = "brightness" -> Dimmed(value)
    [] control = "temperature" -> [target_temperature |-> value]
    [] control = "position" -> Moved(value)
    [] control = "mode" -> [mode |-> value]
    [] control = "speed" -> [speed |-> value]
    [] control = "open" -> Moved(100)
    [] control = "close" -> Moved(0)
    [] control = "stop" -> [state |-> "stopped"]
    [] control = "toggle_lock" -> Unlocked(state)
    [] control = "toggle_cover" -> CoverToggled(state)
    [] OTHER -> Nothing

(***************************************************************************)
(* The simulator.                                                          *)
(***************************************************************************)

(* handleUpdateState *)
Changed(state, change) == change @@ state

(* handleCommand: a fan is not among the types that can be toggled. *)
Toggled(type, state) ==
  IF type \notin {"light", "switch"} THEN state
  ELSE Changed(state, [state |-> IF "state" \in DOMAIN state /\ state.state = "on"
                                 THEN "off" ELSE "on"])
=============================================================================
