------------------------------ MODULE DevicePage ------------------------------
(***************************************************************************)
(* The devices in the management page: app.js, device-controls.js and      *)
(* monitoring.js over one WebSocket and the HTTP API.                      *)
(*                                                                         *)
(* A device is an object that the page and the dialog may share; a live    *)
(* update changes it in place, a list or an answer puts a new object in    *)
(* its place.  Live stands for the very object app.devices has; when it is *)
(* replaced the dialog keeps the old one, and has its value instead.       *)
(* Cards, the dialog and the rows of the event table are drawn from those  *)
(* values and stay as they are until drawn again.  What is hidden and will *)
(* be drawn anew before it is seen is left out: the cards and the rows of  *)
(* another page than the current one, the body of a closed dialog.         *)
(***************************************************************************)
EXTENDS PageSocket, DeviceControls, SequencesExt

CONSTANTS
  Live,         \* the object that app.devices has
  MaxTraffic,   \* bound: requests of the page
  MaxVisits     \* bound: pages, lists and dialogs the user opens

(* The titles of the other dialogs are no devices. *)
ASSUME TitleAssumption == {"add", "discovery", "dialog"} \cap Devices = {}

(* What a device may be, and what is none. *)
Objects ==
  [online : BOOLEAN,
   state : {<<>>} \cup (UNION {States[d] : d \in Devices}) \cup {Stored[d].state : d \in DOMAIN Stored}]

(* What the dialog may have. *)
Held == [id : Devices, obj : Objects \cup {None, Live}]

ASSUME ObjectsAssumption ==
  /\ \A d \in DOMAIN Stored : Stored[d] \in Objects
  /\ {None, Live} \cap Objects = {} /\ Live # None /\ None \notin Held

VARIABLES
  devices,      \* app.devices: Devices -> [online, state] or None
  page, visits, \* app.currentPage
  cards,        \* the cards of the devices page: what each was drawn from, or None
  events, rows, \* app.events, and the rows of the event table
  controls,     \* deviceControls.device: [id, obj] or None
  open, title,  \* the device dialog is shown; what its title and buttons are for
  body,         \* the dialog's body: [kind, id, drawn]
  timers,       \* refreshDevice timers that run
  monitor,      \* the devices that monitoring.devices has
  monitoring,   \* its interval runs
  sweep,        \* refreshAll: the devices still to ask for, in order
  polling,      \* the interval that asks for the discovery's status
  requests,     \* requests and their answers in flight
  traffic,
  excused,      \* history: devices the page may show out of date
  undrawn,      \* history: cards, or "dialog", changed without being drawn
  upset,        \* history: the dialog was opened with a refresh still to come
  crossed       \* history: the event table was asked for while it was asked for

place == <<page, visits>>
dialogVars == <<controls, open, title, body, timers>>
monitorVars == <<monitor, monitoring, sweep>>
tableVars == <<events, rows, crossed>>
historyVars == <<excused, undrawn, upset>>
vars == <<socketVars, devices, place, cards, tableVars, dialogVars, monitorVars,
          polling, requests, traffic, historyVars>>

(***************************************************************************)
(* Objects.                                                                *)
(***************************************************************************)

Value(obj, d) == IF obj = Live THEN devices[d] ELSE obj

(* New objects take the places of those of ds: the dialog keeps the old one. *)
KeptControls(ds) ==
  IF controls = None \/ controls.id \notin ds THEN controls
  ELSE [controls EXCEPT !.obj = Value(@, controls.id)]

(* What a message is about. *)
About(m) ==
  CASE m.type = "initial_data" -> Devices
    [] m.type = "device_update" -> {m.device}
    [] OTHER -> {}

(* The page is about to hear of d. *)
Told(d) == \E i \in 1..Len(wire) : d \in About(wire[i])

(* History: a device that is shown as the server has it, and of which      *)
(* nothing is under way, needs no excuse.                                  *)
Excuse(ds) ==
  excused' = {d \in excused \cup ds : devices'[d] # server'[d] \/ Told(d)'}

(***************************************************************************)
(* Requests.                                                               *)
(***************************************************************************)

(* Of the same requests in flight each has its number. *)
Sent(op, d) ==
  [n |-> CHOOSE n \in 0..MaxTraffic :
           \A r \in requests : r.op = op /\ r.device = d => r.n # n,
   op |-> op, device |-> d, status |-> "sent", reply |-> None]
CanAsk == traffic < MaxTraffic
Request(op, d) ==
  /\ CanAsk
  /\ traffic' = traffic + 1
  /\ requests' = requests \cup {Sent(op, d)}

Pending(ops) == {r \in requests : r.op \in ops}

(***************************************************************************)
(* Pages.                                                                  *)
(***************************************************************************)

NoCards == [d \in Devices |-> None]

(* updateDeviceGrid *)
DrawGrid(ds) ==
  /\ cards' = ds
  /\ undrawn' = undrawn \cap {"dialog"}

(* Mutant: the cards are drawn when the page is shown, and only then. *)
UpdateDeviceDisplaysLater == UNCHANGED <<cards, undrawn>>

(* updateDeviceDisplays: the other pages draw nothing of a device's state. *)
UpdateDeviceDisplays ==
  IF page = "devices" THEN DrawGrid(devices') ELSE UNCHANGED <<cards, undrawn>>

(* Mutant: the rows are not removed. *)
UpdateEventTableBelow ==
  /\ crossed' = (Pending({"events"}) # {})
  /\ Request("events", None)
  /\ UNCHANGED <<events, rows>>

(* updateEventTable, until the answer comes. *)
UpdateEventTable ==
  /\ rows' = <<>>
  /\ crossed' = (Pending({"events"}) # {})
  /\ Request("events", None)
  /\ UNCHANGED events

(* monitoring.updateDevices: a copy of the map has the same objects. *)
UpdateDevices ==
  monitor' = {d \in Devices : devices[d] # None}

(* init the first time, later updateDisplay. *)
LoadMonitoring ==
  IF monitoring THEN UNCHANGED monitorVars
  ELSE monitoring' = TRUE /\ UpdateDevices /\ UNCHANGED sweep

Pages == {"dashboard", "devices", "events", "monitoring"}

(* loadPageData, also what the refresh button does. *)
LoadPageData(p) ==
  /\ DrawGrid(IF p = "devices" THEN devices ELSE NoCards)
  /\ IF p = "events" THEN UpdateEventTable
     ELSE rows' = <<>> /\ UNCHANGED <<events, crossed, requests, traffic>>
  /\ IF p = "monitoring" THEN LoadMonitoring ELSE UNCHANGED monitorVars

Visit == visits < MaxVisits /\ visits' = visits + 1

ShowPage(p) ==
  /\ Visit
  /\ ~open
  /\ page' = p
  /\ LoadPageData(p)
  /\ UNCHANGED <<socketVars, devices, dialogVars, polling, excused, upset>>

(* filterDevices: the cards of the devices that match. *)
FilterDevices(matching) ==
  /\ Visit
  /\ page = "devices" /\ ~open
  /\ DrawGrid([d \in Devices |-> IF d \in matching THEN devices[d] ELSE None])
  /\ UNCHANGED <<socketVars, devices, page, tableVars, dialogVars, monitorVars, polling,
                 requests, traffic, excused, upset>>

(***************************************************************************)
(* Live messages.                                                          *)
(***************************************************************************)

(* loadDevices *)
LoadDevices(list) ==
  /\ devices' = list
  /\ controls' = KeptControls(Devices)
  /\ UpdateDeviceDisplays

(* Mutant: only the page that shows devices takes their updates. *)
HandleDeviceUpdateIfShown(m) ==
  LET d == m.device IN
  IF devices[d] = None \/ page # "devices"
  THEN UNCHANGED <<devices, cards, undrawn>>
  ELSE /\ devices' = [devices EXCEPT ![d] = [online |-> TRUE, state |-> m.state]]
       /\ cards' = [cards EXCEPT ![d] = IF @ = None THEN None ELSE devices'[d]]
       /\ undrawn' = undrawn \ {d}

(* handleDeviceUpdate: the card is drawn again, the dialog is not. *)
HandleDeviceUpdate(m) ==
  LET d == m.device IN
  IF devices[d] = None
  THEN UNCHANGED <<devices, cards, undrawn>>
  ELSE /\ devices' = [devices EXCEPT ![d] = [online |-> TRUE, state |-> m.state]]
       /\ cards' = [cards EXCEPT ![d] = IF @ = None THEN None ELSE devices'[d]]
       /\ undrawn' = (undrawn \ {d}) \cup
            (IF controls # None /\ controls = [id |-> d, obj |-> Live] THEN {"dialog"} ELSE {})

(* handleEvent and addEventToLiveTable. *)
HandleLiveEvent(e) ==
  /\ events' = <<e>> \o events
  /\ rows' = IF page = "events" THEN <<e>> \o rows ELSE rows

(* handleMessage: an event is looked for in data, which it is not in. *)
HandleMessage(m) ==
  \/ /\ m.type = "initial_data"
     /\ LoadDevices(m.data)
     /\ UNCHANGED <<events, rows>>
  \/ /\ m.type = "device_update"
     /\ HandleDeviceUpdate(m)
     /\ UNCHANGED <<controls, events, rows>>
  \/ /\ m.type = "event"
     /\ IF "data" \in DOMAIN m THEN HandleLiveEvent(m.data.event) ELSE UNCHANGED <<events, rows>>
     /\ UNCHANGED <<devices, cards, undrawn, controls>>

Receive(k) ==
  /\ OnMessage(k)
  /\ IF k = 1
     THEN HandleMessage(wire[1]) /\ Excuse({})
     ELSE /\ UNCHANGED <<devices, cards, undrawn, controls, events, rows>>
          /\ Excuse(UNION {About(wire[i]) : i \in 1..k})
  /\ UNCHANGED <<place, crossed, open, title, body, timers, monitorVars, polling,
                 requests, traffic, upset>>

(***************************************************************************)
(* The dialog of a device.                                                 *)
(***************************************************************************)

Closed == ~open
NoBody == [kind |-> "none", id |-> None, drawn |-> None]
HideModal == open' = FALSE /\ title' = None /\ body' = NoBody /\ upset' = FALSE

Drawn(d, value) == [kind |-> "controls", id |-> d, drawn |-> value]
Form == [kind |-> "form", id |-> None, drawn |-> None]
Progress == [kind |-> "progress", id |-> None, drawn |-> None]

(* History: is a refresh to come that draws over a dialog for d? *)
Threatened(d) ==
  \/ \E r \in Pending({"refresh"}) : r.device # d
  \/ d \notin Devices /\ (timers > 0 \/ Pending({"click", "refresh"}) # {})

(* From a card, the recent devices, a monitor's card or one of its alerts. *)
ShowDeviceDetails(d) ==
  /\ Visit
  /\ Closed
  /\ page # "events"
  /\ devices[d] # None
  /\ controls' = [id |-> d, obj |-> Live]
  /\ body' = Drawn(d, devices[d])
  /\ title' = d
  /\ open' = TRUE
  /\ upset' = Threatened(d)
  /\ undrawn' = undrawn \ {"dialog"}
  /\ UNCHANGED <<socketVars, devices, page, cards, tableVars, timers, monitorVars,
                 polling, requests, traffic, excused>>

ShowAddDevice ==
  /\ Visit
  /\ Closed
  /\ page = "devices"
  /\ body' = Form
  /\ title' = "add"
  /\ open' = TRUE
  /\ upset' = Threatened("add")
  /\ UNCHANGED <<socketVars, devices, page, cards, tableVars, controls, timers, monitorVars,
                 polling, requests, traffic, excused, undrawn>>

CloseDialog ==
  /\ open
  /\ HideModal
  /\ UNCHANGED <<socketVars, devices, place, cards, tableVars, controls, timers, monitorVars,
                 polling, requests, traffic, excused, undrawn>>

AskOnly(op, d) ==
  /\ Request(op, d)
  /\ UNCHANGED <<socketVars, devices, place, cards, tableVars, dialogVars, monitorVars,
                 polling, historyVars>>

(* sendCommand, from any control that is drawn. *)
Click ==
  /\ open /\ body.kind = "controls"
  /\ Controls(DeviceType[body.id], body.drawn) # {}
  /\ AskOnly("click", controls.id)

RefreshDevice ==
  /\ open /\ body.kind = "controls"
  /\ AskOnly("refresh", controls.id)

(* The 500 ms after a command are over; the dialog may have moved on. *)
RefreshTimer ==
  /\ timers > 0
  /\ timers' = timers - 1
  /\ Request("refresh", controls.id)
  /\ UNCHANGED <<socketVars, devices, place, cards, tableVars, controls, open, title, body,
                 monitorVars, polling, historyVars>>

(* createDevice: the server may know the id, and overwrites that device. *)
CreateDevice(d) ==
  /\ open /\ title = "add" /\ body = Form
  /\ AskOnly("create", d)

(***************************************************************************)
(* Monitoring and discovery.                                               *)
(***************************************************************************)

(* The interval of five seconds. *)
MonitorTick ==
  /\ monitoring
  /\ UpdateDevices
  /\ UNCHANGED <<socketVars, devices, place, cards, tableVars, dialogVars, monitoring, sweep,
                 polling, requests, traffic, historyVars>>

(* refreshAll asks for one device after the other.  Bound: one at a time. *)
RefreshAll ==
  /\ page = "monitoring" /\ Closed
  /\ sweep = <<>> /\ Pending({"sweep"}) = {}
  /\ monitor # {}
  /\ \E order \in SetToSeqs(monitor) :
       /\ Request("sweep", Head(order))
       /\ sweep' = Tail(order)
  /\ UNCHANGED <<socketVars, devices, place, cards, tableVars, dialogVars, monitor, monitoring,
                 polling, historyVars>>

(* Bound: one interval, though a second discovery starts another. *)
RunDeviceDiscovery ==
  /\ page = "dashboard" /\ Closed
  /\ AskOnly("discover", None)

(* An answer of the interval of two seconds that says it is over; the       *)
(* dialog that is closed then, discovery-progress-modal, does not exist.   *)
DiscoveryComplete ==
  /\ polling
  /\ polling' = FALSE
  /\ Request("devices", None)
  /\ UNCHANGED <<socketVars, devices, place, cards, tableVars, dialogVars, monitorVars,
                 historyVars>>

(* The interval is cleared after 35 seconds. *)
FailSafe ==
  /\ polling
  /\ polling' = FALSE
  /\ UNCHANGED <<socketVars, devices, place, cards, tableVars, dialogVars, monitorVars,
                 requests, traffic, historyVars>>

(***************************************************************************)
(* The server's side of the requests.                                      *)
(***************************************************************************)

Settle(r, status, reply) ==
  requests' = (requests \ {r}) \cup {[r EXCEPT !.status = status, !.reply = reply]}

(* The others change nothing that is modelled and have no data to answer   *)
(* with: they succeed or fail.                                             *)
Commanding == {"click", "discover"}

Found(r) == server[r.device] # None

HandleGetDevices(r) ==
  /\ r.op = "devices"
  /\ Settle(r, "ok", server)
  /\ UNCHANGED server

HandleGetDevice(r) ==
  /\ r.op \in {"refresh", "sweep"}
  /\ Settle(r, IF Found(r) THEN "ok" ELSE "failed", server[r.device])
  /\ UNCHANGED server

HandleCreateDevice(r) ==
  /\ r.op = "create"
  /\ server' = [server EXCEPT ![r.device] = [online |-> TRUE, state |-> <<>>]]
  /\ Settle(r, "ok", server'[r.device])

HandleGetEvents(r) ==
  /\ r.op = "events"
  /\ Settle(r, "ok", log)
  /\ UNCHANGED server

ServerHandles(r) ==
  /\ r.status = "sent"
  /\ UNCHANGED <<log, connectionVars, drops, updates, devices, place, cards, tableVars,
                 dialogVars, monitorVars, polling, traffic, undrawn, upset>>
  /\ \/ HandleGetDevices(r) \/ HandleGetDevice(r) \/ HandleCreateDevice(r) \/ HandleGetEvents(r)
  /\ Excuse(IF r.op = "create" /\ Told(r.device) THEN {r.device} ELSE {})

(***************************************************************************)
(* The page takes an answer.                                               *)
(***************************************************************************)

(* A device the answer shows otherwise than the server has it by now. *)
Outdated(r) == IF server[r.device] = r.reply THEN {} ELSE {r.device}

(* loadInitialData, and the list after a discovery. *)
AnswerDevices(r) ==
  /\ r.op = "devices"
  /\ requests' = requests \ {r}
  /\ LoadDevices(r.reply)
  /\ Excuse({d \in Devices : r.reply[d] # server[d]})
  /\ UNCHANGED <<place, tableVars, open, title, body, timers, monitorVars, polling,
                 traffic, upset>>

(* refreshDevice: the dialog is drawn again, whatever it shows; the card   *)
(* is not.                                                                 *)
AnswerRefresh(r) ==
  /\ r.op = "refresh"
  /\ requests' = requests \ {r}
  /\ devices' = [devices EXCEPT ![r.device] = r.reply]
  /\ controls' = [id |-> r.device, obj |-> Live]
  /\ body' = IF open THEN Drawn(r.device, r.reply) ELSE NoBody
  /\ undrawn' = (undrawn \ {"dialog"}) \cup {r.device}
  /\ Excuse(Outdated(r))
  /\ UNCHANGED <<place, cards, tableVars, open, title, timers, monitorVars, polling, traffic,
                 upset>>

(* Mutant: the device of the command is asked for at once. *)
AnswerClickRefreshing(r) ==
  /\ r.op = "click"
  /\ requests' = (requests \ {r}) \cup {Sent("refresh", r.device)}
  /\ UNCHANGED <<devices, place, cards, tableVars, dialogVars, monitorVars, polling, traffic,
                 excused, undrawn, upset>>

(* sendCommand: a timer is set. *)
AnswerClick(r) ==
  /\ r.op = "click"
  /\ requests' = requests \ {r}
  /\ timers' = timers + 1
  /\ UNCHANGED <<devices, place, cards, tableVars, controls, open, title, body, monitorVars,
                 polling, traffic, excused, undrawn, upset>>

(* createDevice: the other devices keep their objects. *)
AnswerCreate(r) ==
  /\ r.op = "create"
  /\ requests' = requests \ {r}
  /\ devices' = [devices EXCEPT ![r.device] = r.reply]
  /\ controls' = KeptControls({r.device})
  /\ UpdateDeviceDisplays
  /\ HideModal
  /\ Excuse(Outdated(r))
  /\ UNCHANGED <<place, tableVars, timers, monitorVars, polling, traffic>>

(* The events 1..n, the last one first. *)
Newest(n) == [i \in 1..n |-> n + 1 - i]

(* updateEventTable: without an answer, the events the page has. *)
AnswerEvents(r) ==
  /\ r.op = "events"
  /\ requests' = requests \ {r}
  /\ events' = IF r.status = "failed" \/ r.reply = 0 THEN events ELSE Newest(r.reply)
  /\ rows' = IF page = "events" THEN rows \o events' ELSE rows
  /\ UNCHANGED <<devices, place, cards, crossed, dialogVars, monitorVars, polling, traffic,
                 excused, undrawn, upset>>

(* refreshAll: the map of the page and the monitor's get the object. *)
SweepOn(r) ==
  IF sweep = <<>>
  THEN requests' = requests \ {r} /\ UNCHANGED <<sweep, traffic>>
  ELSE /\ CanAsk
       /\ requests' = (requests \ {r}) \cup {Sent("sweep", Head(sweep))}
       /\ traffic' = traffic + 1
       /\ sweep' = Tail(sweep)

AnswerSweep(r) ==
  /\ r.op = "sweep"
  /\ SweepOn(r)
  /\ devices' = [devices EXCEPT ![r.device] = r.reply]
  /\ monitor' = monitor \cup {r.device}
  /\ controls' = KeptControls({r.device})
  /\ undrawn' = undrawn \cup {r.device}
  /\ Excuse(Outdated(r))
  /\ UNCHANGED <<place, cards, tableVars, open, title, body, timers, monitoring, polling, upset>>

(* showDiscoveryProgress, over whatever the dialog shows. *)
AnswerDiscover(r) ==
  /\ r.op = "discover"
  /\ requests' = requests \ {r}
  /\ polling' = TRUE
  /\ body' = Progress
  /\ title' = "discovery"
  /\ open' = TRUE
  /\ upset' = Threatened("discovery")
  /\ UNCHANGED <<devices, place, cards, tableVars, controls, timers, monitorVars, traffic,
                 excused, undrawn>>

(* Nothing but a message, or what the events fall back on. *)
AnswerFailed(r) ==
  /\ r.status = "failed" \/ r.op \in Commanding
  /\ \/ AnswerEvents(r)
     \/ /\ r.op = "sweep"
        /\ SweepOn(r)
        /\ UNCHANGED <<devices, place, cards, tableVars, dialogVars, monitor, monitoring, polling,
                       excused, undrawn, upset>>
     \/ /\ r.op \notin {"events", "sweep"}
        /\ requests' = requests \ {r}
        /\ UNCHANGED <<devices, place, cards, tableVars, dialogVars, monitorVars, polling,
                       traffic, excused, undrawn, upset>>

Answer(r) ==
  /\ UNCHANGED socketVars
  /\ \/ /\ r.status = "ok"
        /\ \/ AnswerDevices(r) \/ AnswerRefresh(r) \/ AnswerCreate(r) \/ AnswerEvents(r)
           \/ AnswerSweep(r)
     \/ AnswerClick(r) \/ AnswerDiscover(r)
     \/ AnswerFailed(r)

(* The network loses a request or an answer. *)
Lose(r) ==
  /\ r.status \in {"sent", "ok"} /\ r.op \notin Commanding
  /\ drops < MaxDrops
  /\ drops' = drops + 1
  /\ Settle(r, "failed", None)
  /\ UNCHANGED <<serverVars, connectionVars, updates, devices, place, cards, tableVars,
                 dialogVars, monitorVars, polling, traffic, undrawn, upset>>
  /\ Excuse(IF r.op = "create" /\ r.status = "ok" THEN {r.device} ELSE {})

(***************************************************************************)
(* The specification.                                                      *)
(***************************************************************************)

(* connect and loadInitialData have been called. *)
Init ==
  /\ SocketInit
  /\ devices = [d \in Devices |-> None]
  /\ page = "dashboard" /\ visits = 0
  /\ cards = NoCards
  /\ events = <<>> /\ rows = <<>>
  /\ controls = None /\ open = FALSE /\ title = None
  /\ body = NoBody
  /\ timers = 0
  /\ monitor = {} /\ monitoring = FALSE /\ sweep = <<>>
  /\ polling = FALSE
  /\ traffic = 1
  /\ requests = {[n |-> 0, op |-> "devices", device |-> None, status |-> "sent", reply |-> None]}
  /\ excused = DOMAIN Stored
  /\ undrawn = {} /\ upset = FALSE /\ crossed = FALSE

pageVars == <<devices, place, cards, tableVars, dialogVars, monitorVars, polling,
              requests, traffic, undrawn, upset>>

Connection ==
  /\ OnOpen \/ OnClose \/ Reconnect \/ MarshalInitialData
  /\ UNCHANGED <<pageVars, excused>>

(* History: the greeting was overtaken by what was queued before it. *)
Greet ==
  /\ SendInitialData
  /\ UNCHANGED pageVars
  /\ Excuse({d \in Devices : greeting.devices[d] # server[d]})

(* What happens to the devices; announcing and deleting is told to nobody. *)
World ==
  /\ UNCHANGED pageVars
  /\ \/ \E d \in Devices : \E s \in States[d] : HandleDeviceState(d, s) /\ Excuse({})
     \/ \E d \in Devices : (HandleDeviceAnnounce(d) \/ HandleDeleteDevice(d)) /\ Excuse({d})
     \/ HandleEvent /\ Excuse({})

User ==
  \/ \E p \in Pages : ShowPage(p)
  \/ \E ds \in SUBSET Devices : FilterDevices(ds)
  \/ \E d \in Devices : ShowDeviceDetails(d) \/ CreateDevice(d)
  \/ ShowAddDevice \/ CloseDialog \/ Click \/ RefreshDevice \/ RefreshAll
  \/ RunDeviceDiscovery

Clock == RefreshTimer \/ MonitorTick \/ DiscoveryComplete \/ FailSafe

Next ==
  \/ Connection \/ Greet \/ World \/ User \/ Clock
  \/ \E k \in 1..Len(wire) : Receive(k)
  \/ \E r \in requests : ServerHandles(r) \/ Answer(r) \/ Lose(r)

Spec == Init /\ [][Next]_vars

(* The timer fires, and the server, when it is not interrupted, accepts. *)
FairSpec ==
  /\ Spec
  /\ WF_vars(Reconnect /\ UNCHANGED <<pageVars, excused>>)
  /\ WF_vars(OnOpen /\ UNCHANGED <<pageVars, excused>>)

(***************************************************************************)
(* Properties.                                                             *)
(***************************************************************************)

(* The last thing the page is about to hear of d. *)
LastWord(i, d) == d \in About(wire[i]) /\ \A j \in i + 1 .. Len(wire) : d \notin About(wire[j])
Says(m, d) ==
  IF m.type = "initial_data" THEN m.data[d] ELSE [online |-> TRUE, state |-> m.state]
Coming(d) ==
  \/ socket # "open"
  \/ greeting.at = "due"
  \/ greeting.at = "marshalled" /\ greeting.devices[d] = server[d]
  \/ \E i \in 1..Len(wire) : LastWord(i, d) /\ Says(wire[i], d) = server[d]
  \/ \E r \in requests : r.op = "create" /\ r.device = d /\ r.status = "ok"

(* app.devices (app.js:239, app.js:279): the page holds a device as the    *)
(* server has it, or is about to be told.  The exceptions: the device was  *)
(* announced or deleted; two messages came in one frame; a list, a device  *)
(* or the initial data was overtaken by an update; the answer to a         *)
(* creation was lost.                                                      *)
DevicesAgree ==
  \A d \in Devices : devices[d] = server[d] \/ Coming(d) \/ d \in excused

(* device-controls.js:562, app.js:581: a button does what it was drawn     *)
(* for.  Its command is made from the state the page holds when it is      *)
(* clicked, which changes without a new drawing: of the dialog by a live   *)
(* update, of a card by a refresh of the dialog or of the monitor.         *)
SameCommands(d, drawn, held) ==
  \A c \in Controls(DeviceType[d], drawn) : Commands(c, drawn.state) = Commands(c, held.state)

ButtonsAsDrawn ==
  /\ open /\ body.kind = "controls" =>
       \/ "dialog" \in undrawn
       \/ SameCommands(body.id, body.drawn, Value(controls.obj, controls.id))
  /\ page = "devices" =>
       \A d \in Devices \ undrawn :
         cards[d] # None =>
           devices[d] # None /\ ToggleCommand(cards[d]) = ToggleCommand(devices[d])

(* The device dialog (device-controls.js:657): below a device's name are   *)
(* its controls, below "Add New Device" is the form, unless a refresh was  *)
(* to come when it was opened, which draws its device whatever is shown.   *)
DialogAsTitled ==
  open => \/ upset
          \/ body.kind = "controls" /\ body.id = title /\ controls.id = title
          \/ body.kind = "form" /\ title = "add"
          \/ body.kind = "progress" /\ title = "discovery"

(* The event table (app.js:518) has the events of the page, each once,     *)
(* unless it was asked for again before the answer came.                   *)
RowsAsEvents ==
  page = "events" /\ Pending({"events"}) = {} => rows = events \/ crossed

(* websocket.js:186: a page that lost its socket, or never got one, comes  *)
(* to have one again, when the server accepts it in the end.               *)
Reconnects == []<>(socket = "open")
=============================================================================
