----------------------------- MODULE HealthMonitor -----------------------------
(***************************************************************************)
(* The health monitor (legacy/services/health-monitor/internal/monitor):   *)
(* what it knows of the devices, and the dashboards it sends to pages.     *)
(*                                                                         *)
(* Each subscription has its goroutine, and so have the sweep for devices  *)
(* that are offline, the broadcast and every page.  A device is locked on  *)
(* its own; copying them all is one step here, since nothing below relates *)
(* two devices at one time.  An update of a device is one step as well:    *)
(* when it lets go of the map in between, the device is as an announcement *)
(* leaves it.                                                              *)
(***************************************************************************)
EXTENDS Naturals, SequencesExt

CONSTANTS
  Devices,
  Levels,      \* battery levels that states have, and None where one has none
  Clients,     \* WebSocket connections
  ChannelSize, \* of a subscriber's channel
  AlertsKept,  \* handleAlert keeps as many
  None,        \* null
  MaxChanges   \* bound: changes of devices

ASSUME SizesAssumption == ChannelSize \in Nat \ {0} /\ AlertsKept \in Nat \ {0}
ASSUME NoneAssumption == None \notin Nat \cup Clients /\ Levels \subseteq Nat \cup {None}

VARIABLES
  devices,     \* Monitor.devices: [online, battery, alerts, seen] or None
  now,         \* time: the changes of devices so far
  subscribers, \* channels of dashboards, or None
  stage,       \* how far handleWebSocket is for a connection
  initial,     \* its initial data, between the copy and the write
  dashboard    \* what broadcastStatus is about to send, or None

deviceVars == <<devices, now>>
serviceVars == <<deviceVars, subscribers, stage, initial, dashboard>>

MonitorInit ==
  /\ devices = [d \in Devices |-> None]
  /\ now = 0
  /\ subscribers = [c \in Clients |-> None]
  /\ stage = [c \in Clients |-> "none"]
  /\ initial = [c \in Clients |-> None]
  /\ dashboard = None

(***************************************************************************)
(* Devices.                                                                *)
(***************************************************************************)

Change == now < MaxChanges /\ now' = now + 1

NewDevice == [online |-> FALSE, battery |-> None, alerts |-> <<>>, seen |-> None]

(* A device that is not in the map is put there, offline.                  *)
Known(d) == [devices EXCEPT ![d] = IF @ = None THEN NewDevice ELSE @]

Alert(type) == [type |-> type, at |-> now + 1]
Raised(alerts, type, raised) == IF raised THEN Append(alerts, Alert(type)) ELSE alerts

(* handleDeviceState and updateDeviceStatus.  Alerts are not counted here. *)
HandleDeviceState(d, level) ==
  /\ Change
  /\ devices' = [Known(d) EXCEPT ![d] =
       [online |-> TRUE,
        battery |-> IF level = None THEN @.battery ELSE level,
        alerts |-> Raised(@.alerts, "low_battery", level # None /\ level < 20),
        seen |-> now + 1]]

(* An announcement is no sign of life. *)
HandleDeviceAnnounce(d) ==
  /\ Change
  /\ devices' = Known(d)

(* Mutant: the first alerts are kept. *)
KeepFirst(alerts) == SubSeq(alerts, 1, IF Len(alerts) > AlertsKept THEN AlertsKept ELSE Len(alerts))

Keep(alerts) ==
  IF Len(alerts) > AlertsKept
  THEN SubSeq(alerts, Len(alerts) - AlertsKept + 1, Len(alerts))
  ELSE alerts

(* An alert of a device that is not known is dropped. *)
HandleAlert(d) ==
  /\ Change
  /\ devices[d] # None
  /\ devices' = [devices EXCEPT ![d].alerts = Keep(Append(@, Alert("reported")))]

(* checkOfflineDevices comes to d, and DeviceTimeout may have passed since *)
(* the device was last heard of, whenever that was.  The time of the sweep *)
(* was taken before: a device heard of since then is left alone.           *)
CheckOffline(d) ==
  /\ Change
  /\ devices[d] # None /\ devices[d].online
  /\ devices' = [devices EXCEPT ![d].online = FALSE,
                               ![d].alerts = Append(@, Alert("device_offline"))]

(***************************************************************************)
(* Dashboards.                                                             *)
(***************************************************************************)

DevicesOf(data) == {d \in Devices : data[d] # None}

(* Mutant: 20 is low. *)
LowBatteryIncluded(device) == device.battery # None /\ device.battery \leq 20

LowBattery(device) == device.battery # None /\ device.battery < 20

(* GetDashboardData *)
DashboardData ==
  LET known == DevicesOf(devices) IN
  [at |-> now,
   devices |-> devices,
   total |-> Cardinality(known),
   online |-> Cardinality({d \in known : devices[d].online}),
   offline |-> Cardinality({d \in known : ~devices[d].online}),
   warnings |-> Cardinality({d \in known : LowBattery(devices[d])})]

(* broadcastStatus: the data ... *)
Collect ==
  /\ dashboard = None
  /\ dashboard' = DashboardData
  /\ UNCHANGED <<deviceVars, subscribers, stage, initial>>

(* Mutant: who does not keep up is forgotten. *)
OfferOrForget(channel) ==
  IF channel = None \/ Len(channel) = ChannelSize THEN None ELSE Append(channel, dashboard)

(* A full channel misses it. *)
Offer(channel) ==
  IF channel = None \/ Len(channel) = ChannelSize THEN channel ELSE Append(channel, dashboard)

(* ... and what becomes of them. *)
Broadcast ==
  /\ dashboard # None
  /\ subscribers' = [c \in Clients |-> Offer(subscribers[c])]
  /\ dashboard' = None
  /\ UNCHANGED <<deviceVars, stage, initial>>

(***************************************************************************)
(* handleWebSocket.                                                        *)
(***************************************************************************)

(* Bound: an identifier is used again when its connection is over. *)
Subscribe(c) ==
  /\ stage[c] = "none"
  /\ stage' = [stage EXCEPT ![c] = "subscribed"]
  /\ subscribers' = [subscribers EXCEPT ![c] = <<>>]
  /\ UNCHANGED <<deviceVars, initial, dashboard>>

CollectInitial(c) ==
  /\ stage[c] = "subscribed"
  /\ stage' = [stage EXCEPT ![c] = "collected"]
  /\ initial' = [initial EXCEPT ![c] = DashboardData]
  /\ UNCHANGED <<deviceVars, subscribers, dashboard>>

WriteInitial(c) ==
  /\ stage[c] = "collected"
  /\ stage' = [stage EXCEPT ![c] = "serving"]
  /\ initial' = [initial EXCEPT ![c] = None]
  /\ UNCHANGED <<deviceVars, subscribers, dashboard>>

(* Mutant: updates are written before the initial data is, too. *)
WriteUpdateEarly(c) ==
  /\ stage[c] \in {"collected", "serving"}
  /\ subscribers[c] \notin {None, <<>>}
  /\ subscribers' = [subscribers EXCEPT ![c] = Tail(@)]
  /\ UNCHANGED <<deviceVars, stage, initial, dashboard>>

(* The next dashboard of its channel is written. *)
WriteUpdate(c) ==
  /\ stage[c] = "serving"
  /\ subscribers[c] \notin {None, <<>>}
  /\ subscribers' = [subscribers EXCEPT ![c] = Tail(@)]
  /\ UNCHANGED <<deviceVars, stage, initial, dashboard>>

(* A write or the read has failed: Unsubscribe, deferred. *)
Unsubscribe(c) ==
  /\ stage[c] \in {"collected", "serving"}
  /\ stage' = [stage EXCEPT ![c] = "none"]
  /\ initial' = [initial EXCEPT ![c] = None]
  /\ subscribers' = [subscribers EXCEPT ![c] = None]
  /\ UNCHANGED <<deviceVars, dashboard>>

(* What devices do to the monitor, and time. *)
DeviceStep ==
  /\ \/ \E d \in Devices, level \in Levels : HandleDeviceState(d, level)
     \/ \E d \in Devices : HandleDeviceAnnounce(d) \/ HandleAlert(d) \/ CheckOffline(d)
  /\ UNCHANGED <<subscribers, stage, initial, dashboard>>

(***************************************************************************)
(* Properties.                                                             *)
(***************************************************************************)

(* A device that was heard of and is offline has an alert that says so     *)
(* (monitor.go:350), later than what was last heard of it, unless as many  *)
(* alerts as handleAlert keeps (monitor.go:254) all came later than that.  *)
OfflineAlerted ==
  \A d \in DevicesOf(devices) :
    LET alerts == devices[d].alerts
        Later(i) == alerts[i].at > devices[d].seen
    IN  ~devices[d].online /\ devices[d].seen # None =>
          \/ \E i \in DOMAIN alerts : alerts[i].type = "device_offline" /\ Later(i)
          \/ Len(alerts) = AlertsKept /\ \A i \in DOMAIN alerts : Later(i)
=============================================================================
