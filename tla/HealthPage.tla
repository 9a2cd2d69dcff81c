------------------------------ MODULE HealthPage ------------------------------
(***************************************************************************)
(* The health monitor and its page (legacy/services/health-monitor/static/ *)
(* app.js).  The page shows the dashboard that came last, whatever it was, *)
(* and everything on it but the details of a device is drawn anew each     *)
(* time, so that what it shows is a function of that dashboard.  The       *)
(* details are drawn once, when they are opened, and are left out.         *)
(***************************************************************************)
EXTENDS HealthMonitor

CONSTANT MaxDrops   \* bound: connections refused or lost

VARIABLES
  socket,  \* "connecting", "open" or "closed": then the timer of onclose runs
  server,  \* the connection the server has with the page, or None
  wire,    \* messages written and not yet received
  shown,   \* the message the page shows, or None
  drops

pageVars == <<socket, server, wire, shown, drops>>
vars == <<serviceVars, pageVars>>

Init ==
  /\ MonitorInit
  /\ socket = "connecting"
  /\ server = None
  /\ wire = <<>>
  /\ shown = None
  /\ drops = 0

(***************************************************************************)
(* The connection.                                                         *)
(***************************************************************************)

(* Upgrade, Subscribe and onopen. *)
OnOpen(c) ==
  /\ socket = "connecting"
  /\ Subscribe(c)
  /\ socket' = "open"
  /\ server' = c
  /\ UNCHANGED <<wire, shown, drops>>

(* The timer is set; the page shows what it has and says that it is        *)
(* disconnected.                                                           *)
OnClose ==
  /\ socket # "closed"
  /\ drops < MaxDrops
  /\ drops' = drops + 1
  /\ socket' = "closed"
  /\ server' = None
  /\ wire' = <<>>
  /\ UNCHANGED <<serviceVars, shown>>

(* Five seconds later. *)
InitializeWebSocket ==
  /\ socket = "closed"
  /\ socket' = "connecting"
  /\ UNCHANGED <<serviceVars, server, wire, shown, drops>>

(* WriteJSON waits while nothing is taken from the connection, which holds *)
(* one message, and loses what it writes to one that is closed.            *)
Write(c, type, data) ==
  IF c = server
  THEN wire = <<>> /\ wire' = <<[type |-> type, data |-> data]>>
  ELSE UNCHANGED wire

ServeInitial(c) ==
  /\ WriteInitial(c)
  /\ Write(c, "initial", initial[c])
  /\ UNCHANGED <<socket, server, shown, drops>>

ServeUpdate(c) ==
  /\ WriteUpdate(c)
  /\ Write(c, "update", Head(subscribers[c]))
  /\ UNCHANGED <<socket, server, shown, drops>>

(* The server finds out, by a write or the read. *)
Leave(c) ==
  /\ c # server
  /\ Unsubscribe(c)
  /\ UNCHANGED pageVars

(* handleWebSocketMessage and updateDashboard *)
OnMessage ==
  /\ wire # <<>>
  /\ shown' = Head(wire)
  /\ wire' = Tail(wire)
  /\ UNCHANGED <<serviceVars, socket, server, drops>>

(***************************************************************************)
(* What is drawn.                                                          *)
(***************************************************************************)

Alerting(device) == device.alerts # <<>>

(* The filter of updateDeviceGrid, for each choice of a status.  Those of  *)
(* type and search look at what never changes and are left out.            *)
Passes(device, status) ==
  CASE status = "all" -> TRUE
    [] status = "online" -> device.online
    [] status = "offline" -> ~device.online
    [] status = "battery" -> device.battery \notin {None, 0} /\ device.battery \leq 20
    [] status = "alerts" -> Alerting(device)

(* createDeviceCard: its class, whether its battery is marked, and the     *)
(* number of alerts it shows.                                              *)
CreateDeviceCard(device) ==
  [online |-> device.online,
   low |-> device.battery # None /\ device.battery < 20,
   alerts |-> Len(device.alerts)]

(* updateDeviceGrid *)
Cards(data, status) ==
  [d \in {d \in DevicesOf(data.devices) : Passes(data.devices[d], status)} |->
    CreateDeviceCard(data.devices[d])]

(* updateCharts: the bars of the health chart. *)
Bars(data) ==
  LET Bar(P(_)) == Cardinality({d \in DevicesOf(data.devices) : P(data.devices[d])})
      Online(device) == device.online
      Offline(device) == ~device.online
      Low(device) == device.battery \notin {None, 0} /\ device.battery < 20
  IN  [online |-> Bar(Online), offline |-> Bar(Offline), low |-> Bar(Low), alerts |-> Bar(Alerting)]

(***************************************************************************)
(* The specification.                                                      *)
(***************************************************************************)

Next ==
  \/ DeviceStep /\ UNCHANGED pageVars
  \/ (Collect \/ Broadcast) /\ UNCHANGED pageVars
  \/ OnClose \/ InitializeWebSocket \/ OnMessage
  \/ \E c \in Clients :
       \/ OnOpen(c) \/ ServeInitial(c) \/ ServeUpdate(c) \/ Leave(c)
       \/ CollectInitial(c) /\ UNCHANGED pageVars

Spec == Init /\ [][Next]_vars

(* The broadcast's ticker, the goroutines of the pages and the page's      *)
(* timer run on; a server that is up accepts, and a browser takes what     *)
(* arrives.  Nothing is said of devices, of time and of drops.             *)
FairSpec ==
  /\ Spec
  /\ WF_vars((Collect \/ Broadcast) /\ UNCHANGED pageVars)
  /\ WF_vars(InitializeWebSocket) /\ WF_vars(OnMessage)
  /\ WF_vars(\E c \in Clients : OnOpen(c))
  /\ \A c \in Clients :
       /\ WF_vars(CollectInitial(c) /\ UNCHANGED pageVars)
       /\ WF_vars(ServeInitial(c)) /\ WF_vars(ServeUpdate(c)) /\ WF_vars(Leave(c))

(***************************************************************************)
(* Properties.                                                             *)
(***************************************************************************)

(* The page never goes back in time (server.go:120), through dashboards    *)
(* missed, drops and new connections, with one exception: it subscribes    *)
(* before its initial data is put together, so the first update that       *)
(* follows may be older.                                                   *)
ShownForward ==
  [][ shown # None /\ shown'.data.at < shown.data.at
      => shown.type = "initial" /\ shown'.type = "update" ]_shown

(* However many dashboards a slow page has missed (monitor.go:371) and     *)
(* however it lost its connection, once the devices rest it comes to show  *)
(* them as they are, and stays so.                                         *)
CatchesUp == <>[](shown # None /\ shown.data.devices = devices)

(* The numbers above the cards (app.js:78), which the monitor counts, are  *)
(* those of the cards drawn, of the cards under each status and of the     *)
(* chart's bars, which the page counts, each with conditions of its own.   *)
(* The exceptions: a battery at 20 is low for the filter only, and one at  *)
(* 0 for neither the filter nor the chart.                                 *)
CountsAgree ==
  shown # None =>
    LET data == shown.data
        all == Cards(data, "all")
        bars == Bars(data)
        Number(cards) == Cardinality(DOMAIN cards)
        Drawn(P(_)) == Cardinality({d \in DOMAIN all : P(all[d])})
        At(level) == \E d \in DOMAIN all : data.devices[d].battery = level
    IN  /\ data.total = Number(all)
        /\ data.online = bars.online /\ data.online = Number(Cards(data, "online"))
        /\ data.offline = bars.offline /\ data.offline = Number(Cards(data, "offline"))
        /\ data.warnings = Drawn(LAMBDA card : card.low)
        /\ data.warnings = bars.low \/ At(0)
        /\ bars.low = Number(Cards(data, "battery")) \/ At(20)
        /\ bars.alerts = Drawn(LAMBDA card : card.alerts > 0)
        /\ bars.alerts = Number(Cards(data, "alerts"))
=============================================================================
