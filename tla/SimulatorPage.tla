----------------------------- MODULE SimulatorPage -----------------------------
(***************************************************************************)
(* The page of the device simulator (device-simulator.js), and the         *)
(* simulator's side of its requests and live updates (main.go).            *)
(*                                                                         *)
(* A handler of the simulator changes a device and puts the message for    *)
(* the pages together in one step; in another the hub takes the message    *)
(* and the answer is written.  Between the two, other handlers run.  The   *)
(* page learns of a change from the message, from the answer, or twice.    *)
(* It is not told of what happens while it has no connection, nor of a     *)
(* deletion, an import, a command over NATS or a new value of a sensor.    *)
(***************************************************************************)
EXTENDS SimulatorControls, Sequences, FiniteSets

CONSTANTS
  Devices,      \* the devices there may be
  DeviceType,   \* their types
  Initial,      \* the state each has when it is created
  Stored,       \* the devices that exist at the start
  Settings,     \* what may be set with a control
  None,         \* null
  MaxRequests,  \* bound: requests of the page
  MaxMoves,     \* bound: dialogs opened, boxes and searches changed
  MaxElsewhere, \* bound: changes that others make
  MaxDrops      \* bound: connections, requests and answers lost

VARIABLES
  server,       \* the simulator's devices: Devices -> [name, state] or None
  socket,       \* the page's WebSocket: "none", "connecting", "open" or "closed"
  wire,         \* messages for the page
  ready,        \* init is over
  devices,      \* deviceSimulator.devices
  checked,      \* the boxes of the types that are checked
  filters,      \* selectedFilters
  search,       \* the devices that have what is searched for, say in their ids
  cards,        \* the cards: what each was drawn from, or None
  editing,      \* editingDevice
  form,         \* the form that is shown: None, "add" or "edit"
  controlsOf,   \* whose controls are shown
  requests,     \* requests and answers in flight
  asked, moves, elsewhere, drops,
  excused,      \* history: devices the page may show out of date
  early         \* history: a box was changed before init was over

serverVars == <<server, wire, elsewhere>>
filterVars == <<checked, filters, search, early>>
dialogVars == <<editing, form, controlsOf>>
vars == <<serverVars, socket, ready, devices, filterVars, cards, dialogVars, requests,
          asked, moves, drops, excused>>

(***************************************************************************)
(* The list of devices.                                                    *)
(***************************************************************************)

Boxes == {"all"} \cup {DeviceType[d] : d \in Devices}

(* filterDevice *)
FilterDevice(d, selected, found) ==
  d \in found /\ ("all" \in selected \/ DeviceType[d] \in selected)

Shown(held, selected, found) ==
  [d \in Devices |-> IF FilterDevice(d, selected, found) THEN held[d] ELSE None]

(* renderDevices *)
RenderDevices == cards' = Shown(devices', filters', search')

(* updateDevice *)
UpdateDevice(d, device) ==
  /\ devices' = [devices EXCEPT ![d] = device]
  /\ RenderDevices

RemoveDevice(d) ==
  /\ devices' = [devices EXCEPT ![d] = None]
  /\ RenderDevices

(* What toggleDevice and updateDeviceState do with their answers. *)
SetState(d, state) ==
  IF devices[d] = None THEN UNCHANGED <<devices, cards>>
  ELSE UpdateDevice(d, [devices[d] EXCEPT !.state = state])

(***************************************************************************)
(* History.                                                                *)
(***************************************************************************)

Told(d) == \E i \in 1..Len(wire) : wire[i].id = d
Underway(d) == Told(d) \/ \E r \in requests : r.id = d /\ r.status \in {"handled", "ok"}

Excuse(ds) == excused' = {d \in excused \cup ds : devices'[d] # server'[d] \/ Underway(d)'}

(***************************************************************************)
(* Requests.                                                               *)
(***************************************************************************)

(* Of the same requests in flight each has its number. *)
Sent(op, d, value) ==
  [n |-> CHOOSE n \in 0..MaxRequests :
           \A r \in requests : r.op = op /\ r.id = d => r.n # n,
   op |-> op, id |-> d, value |-> value, status |-> "sent", reply |-> None]

AskAll(sent) ==
  /\ asked + Cardinality(sent) <= MaxRequests
  /\ asked' = asked + Cardinality(sent)
  /\ requests' = requests \cup sent
  /\ UNCHANGED <<serverVars, socket, ready, devices, filterVars, cards, dialogVars, moves,
                 drops, excused>>

AskOnly(op, d, value) == AskAll({Sent(op, d, value)})

Replace(r, s) == requests' = (requests \ {r}) \cup {s}

(***************************************************************************)
(* Live updates.                                                           *)
(***************************************************************************)

Connected == socket = "open"

(* A connection that is being made may be there already for the hub. *)
OnOpen ==
  /\ socket = "connecting"
  /\ socket' = "open"
  /\ UNCHANGED <<serverVars, ready, devices, filterVars, cards, dialogVars, requests, asked,
                 moves, drops, excused>>

(* onclose; what was on its way is lost. *)
OnClose ==
  /\ socket \in {"connecting", "open"}
  /\ drops < MaxDrops
  /\ drops' = drops + 1
  /\ socket' = "closed"
  /\ wire' = <<>>
  /\ UNCHANGED <<server, elsewhere, ready, devices, filterVars, cards, dialogVars, requests,
                 asked, moves>>
  /\ Excuse({d \in Devices : Told(d)})

(* Three seconds later.  The list is not loaded again. *)
ConnectWebSocket ==
  /\ socket = "closed"
  /\ socket' = "connecting"
  /\ UNCHANGED <<serverVars, ready, devices, filterVars, cards, dialogVars, requests, asked,
                 moves, drops, excused>>

Broadcast(m) == wire' = IF Connected THEN Append(wire, m) ELSE wire

(* Whom a broadcast does not reach, or reaches too late. *)
Missed(m) == IF Connected /\ m.device = server[m.id] THEN {} ELSE {m.id}

(* Mutant: a device that the page does not have is not added. *)
HandleWebSocketMessageKnown(m) ==
  IF devices[m.id] = None THEN UNCHANGED <<devices, cards>> ELSE UpdateDevice(m.id, m.device)

(* handleWebSocketMessage; nothing sends device_deleted. *)
HandleWebSocketMessage(m) == UpdateDevice(m.id, m.device)

OnMessage ==
  /\ Connected /\ wire # <<>>
  /\ wire' = Tail(wire)
  /\ UNCHANGED <<server, elsewhere, socket, ready, filterVars, dialogVars, requests, asked,
                 moves, drops>>
  /\ HandleWebSocketMessage(Head(wire))
  /\ Excuse({})

(***************************************************************************)
(* The user.                                                               *)
(***************************************************************************)

Move == moves < MaxMoves /\ moves' = moves + 1
NoDialog == form = None /\ controlsOf = None

(* The box itself. *)
Flip(b) == checked' = IF b \in checked THEN checked \ {b} ELSE checked \cup {b}

(* Mutant: the filter falls back on all devices, and its box does not. *)
UncheckFilterOnly(b) ==
  /\ filters' = IF filters = {b} THEN {"all"} ELSE filters \ {b}
  /\ checked' = checked \ {b}

(* The last type's box brings the one of all devices back. *)
Uncheck(b) ==
  /\ filters' = IF filters = {b} THEN {"all"} ELSE filters \ {b}
  /\ checked' = (checked \ {b}) \cup IF filters = {b} THEN {"all"} ELSE {}

(* setupFilterHandlers *)
SetupFilterHandlers(b) ==
  CASE b = "all" /\ b \notin checked -> checked' = {"all"} /\ filters' = {"all"}
    [] b = "all" /\ b \in checked ->
         /\ filters' = filters
         /\ checked' = IF Cardinality(filters) = 1 THEN checked ELSE checked \ {b}
    [] b # "all" /\ b \notin checked ->
         /\ filters' = (filters \ {"all"}) \cup {b}
         /\ checked' = (checked \ {"all"}) \cup {b}
    [] OTHER -> Uncheck(b)

(* Before init is over a box has no handler but the one that renders. *)
ChangeBox(b) ==
  /\ Move /\ NoDialog
  /\ IF ready THEN SetupFilterHandlers(b) /\ UNCHANGED early
     ELSE Flip(b) /\ early' = TRUE /\ UNCHANGED filters
  /\ UNCHANGED <<serverVars, socket, ready, devices, search, dialogVars, requests, asked,
                 drops, excused>>
  /\ RenderDevices

SearchDevices(found) ==
  /\ Move /\ NoDialog
  /\ search' = found
  /\ UNCHANGED <<serverVars, socket, ready, devices, checked, filters, early, dialogVars,
                 requests, asked, drops, excused>>
  /\ RenderDevices

ShowAddDevice ==
  /\ Move /\ NoDialog
  /\ editing' = None /\ form' = "add"
  /\ UNCHANGED <<serverVars, socket, ready, devices, filterVars, cards, controlsOf, requests,
                 asked, drops, excused>>

EditDevice(d) ==
  /\ Move /\ NoDialog
  /\ cards[d] # None /\ devices[d] # None
  /\ editing' = d /\ form' = "edit"
  /\ UNCHANGED <<serverVars, socket, ready, devices, filterVars, cards, controlsOf, requests,
                 asked, drops, excused>>

ShowDeviceControls(d) ==
  /\ Move /\ NoDialog
  /\ cards[d] # None /\ devices[d] # None
  /\ controlsOf' = d
  /\ UNCHANGED <<serverVars, socket, ready, devices, filterVars, cards, editing, form,
                 requests, asked, drops, excused>>

CloseModal == form' = None /\ editing' = None
CloseControlModal == controlsOf' = None

CloseDialog ==
  /\ ~NoDialog
  /\ CloseModal /\ CloseControlModal
  /\ UNCHANGED <<serverVars, socket, ready, devices, filterVars, cards, requests, asked, moves,
                 drops, excused>>

(* saveDevice: the state of the form is sent too; only a creation uses it. *)
SaveDevice(d) ==
  \/ form = "edit" /\ d = editing /\ AskOnly("update", d, "new")
  \/ form = "add" /\ AskOnly("create", d, [name |-> "new", state |-> Initial[d]])

DeleteDevice(d) ==
  /\ NoDialog /\ cards[d] # None
  /\ AskOnly("delete", d, None)

(* The button on a card. *)
QuickAction(d) ==
  /\ NoDialog /\ cards[d] # None
  /\ \E control \in QuickActions(DeviceType[d]) :
       IF control = "toggle" THEN AskOnly("toggle", d, None)
       ELSE /\ devices[d] # None
            /\ AskOnly("state", d, Change(control, 0, devices[d].state))

(* A control in the dialog.  The button of power has two handlers: its own *)
(* and the one of every button, which asks for a change of nothing.        *)
UseControl(control, value) ==
  /\ controlsOf # None
  /\ control \in DialogControls(DeviceType[controlsOf])
  /\ LET change == Sent("state", controlsOf, Change(control, value, Nothing))
     IN  AskAll(IF control = "toggle" THEN {Sent("power", controlsOf, None), change}
                ELSE {change})

ImportDevices(ds) ==
  /\ NoDialog
  /\ AskOnly("import", None, ds)

(***************************************************************************)
(* The simulator.                                                          *)
(***************************************************************************)

(* The device after a request, or None. *)
Outcome(r) ==
  CASE r.op = "update" -> [server[r.id] EXCEPT !.name = r.value]
    [] r.op = "state" -> [server[r.id] EXCEPT !.state = Changed(@, r.value)]
    [] r.op \in {"toggle", "power"} -> [server[r.id] EXCEPT !.state = Toggled(DeviceType[r.id], @)]
    [] r.op = "create" -> r.value
    [] r.op = "delete" -> None

(* The handlers of one device: the change, and the message put together. *)
HandleDevice(r) ==
  /\ r.op \in {"update", "state", "toggle", "power", "create", "delete"}
  /\ IF r.op # "create" /\ server[r.id] = None
     THEN Replace(r, [r EXCEPT !.status = "failed"]) /\ UNCHANGED server
     ELSE /\ server' = [server EXCEPT ![r.id] = Outcome(r)]
          /\ Replace(r, [r EXCEPT !.status = IF r.op = "delete" THEN "ok" ELSE "handled",
                                  !.reply = server'[r.id]])
  /\ UNCHANGED wire

HandleGetDevices(r) ==
  /\ r.op = "list"
  /\ Replace(r, [r EXCEPT !.status = "ok", !.reply = server])
  /\ UNCHANGED <<server, wire>>

(* handleImportDevices: those it has are skipped. *)
HandleImportDevices(r) ==
  /\ r.op = "import"
  /\ server' = [d \in Devices |->
       IF d \in r.value /\ server[d] = None THEN [name |-> "old", state |-> Initial[d]]
       ELSE server[d]]
  /\ Replace(r, [r EXCEPT !.status = "ok"])
  /\ UNCHANGED wire

Handle(r) ==
  /\ r.status = "sent"
  /\ UNCHANGED <<elsewhere, socket, ready, devices, filterVars, cards, dialogVars, asked,
                 moves, drops>>
  /\ HandleDevice(r) \/ HandleGetDevices(r) \/ HandleImportDevices(r)
  /\ Excuse({d \in Devices : server'[d] # server[d] /\
               (r.op = "import" \/ (r.op = "delete" /\ Underway(d)))})

(* broadcastUpdate, and the answer, which has the device as it is by now,  *)
(* even one that was deleted meanwhile.                                    *)
Publish(r) ==
  /\ r.status = "handled"
  /\ LET m == [id |-> r.id, device |-> r.reply]
         now == IF server[r.id] = None THEN r.reply ELSE server[r.id]
     IN  /\ Broadcast(m)
         /\ Replace(r, [r EXCEPT !.status = "ok", !.reply = now])
         /\ UNCHANGED <<server, elsewhere, socket, ready, devices, filterVars, cards,
                        dialogVars, asked, moves, drops>>
         /\ Excuse(Missed(m))

(* Somebody else changes a device, or creates it, and all pages are told. *)
Elsewhere == elsewhere < MaxElsewhere /\ elsewhere' = elsewhere + 1

ChangeElsewhere(d) ==
  /\ Elsewhere
  /\ server' = [server EXCEPT ![d] =
       IF server[d] = None THEN [name |-> "old", state |-> Initial[d]]
       ELSE [server[d] EXCEPT !.state = Toggled(DeviceType[d], @)]]
  /\ Broadcast([id |-> d, device |-> server'[d]])
  /\ UNCHANGED <<socket, ready, devices, filterVars, cards, dialogVars, requests, asked, moves,
                 drops>>
  /\ Excuse(IF Connected THEN {} ELSE {d})

(* A command over NATS, a new value of a sensor, a deletion: no page is told. *)
ChangeUntold(d) ==
  /\ Elsewhere
  /\ server[d] # None
  /\ \/ server' = [server EXCEPT ![d].state = Toggled(DeviceType[d], @)]
     \/ server' = [server EXCEPT ![d] = None]
  /\ UNCHANGED <<wire, socket, ready, devices, filterVars, cards, dialogVars, requests, asked,
                 moves, drops>>
  /\ Excuse({d})

(***************************************************************************)
(* The page takes an answer.                                               *)
(***************************************************************************)

Outdated(d, device) == IF server[d] = device THEN {} ELSE {d}

(* loadDevices; the first time init goes on, and connects. *)
AnswerList(r) ==
  /\ r.op = "list"
  /\ IF r.status = "ok" THEN devices' = r.reply /\ RenderDevices
     ELSE UNCHANGED <<devices, cards>>
  /\ ready' = TRUE
  /\ socket' = IF ready THEN socket ELSE "connecting"
  /\ requests' = requests \ {r}
  /\ UNCHANGED <<dialogVars, asked>>
  /\ Excuse({d \in Devices : r.status # "ok" \/ r.reply[d] # server[d]})

AnswerSave(r) ==
  /\ r.op \in {"update", "create"}
  /\ UpdateDevice(r.id, r.reply)
  /\ CloseModal
  /\ requests' = requests \ {r}
  /\ UNCHANGED <<socket, ready, controlsOf, asked>>
  /\ Excuse(Outdated(r.id, r.reply))

AnswerState(r) ==
  /\ r.op \in {"state", "toggle", "power"}
  /\ SetState(r.id, r.reply.state)
  /\ IF r.op = "power" THEN CloseControlModal ELSE UNCHANGED controlsOf
  /\ requests' = requests \ {r}
  /\ UNCHANGED <<socket, ready, editing, form, asked>>
  /\ Excuse(Outdated(r.id, r.reply))

AnswerDelete(r) ==
  /\ r.op = "delete"
  /\ RemoveDevice(r.id)
  /\ requests' = requests \ {r}
  /\ UNCHANGED <<socket, ready, dialogVars, asked>>
  /\ Excuse(Outdated(r.id, None))

(* The list is loaded again. *)
AnswerImport(r) ==
  /\ r.op = "import"
  /\ asked < MaxRequests
  /\ asked' = asked + 1
  /\ Replace(r, Sent("list", None, None))
  /\ UNCHANGED <<socket, ready, devices, cards, dialogVars, excused>>

(* A message, and for the button of power the end of the dialog. *)
AnswerFailed(r) ==
  /\ r.op # "list"
  /\ IF r.op = "power" THEN CloseControlModal ELSE UNCHANGED controlsOf
  /\ requests' = requests \ {r}
  /\ UNCHANGED <<socket, ready, devices, cards, editing, form, asked, excused>>

Answer(r) ==
  /\ r.status \in {"ok", "failed"}
  /\ UNCHANGED <<serverVars, filterVars, moves, drops>>
  /\ \/ AnswerList(r)
     \/ r.status = "ok" /\ (AnswerSave(r) \/ AnswerState(r) \/ AnswerDelete(r) \/ AnswerImport(r))
     \/ r.status = "failed" /\ AnswerFailed(r)

(* The network loses a request or an answer. *)
Lose(r) ==
  /\ r.status \in {"sent", "ok"}
  /\ drops < MaxDrops
  /\ drops' = drops + 1
  /\ Replace(r, [r EXCEPT !.status = "failed", !.reply = None])
  /\ UNCHANGED <<serverVars, socket, ready, devices, filterVars, cards, dialogVars, asked, moves>>
  /\ Excuse(IF r.op = "delete" /\ r.status = "ok" THEN {r.id} ELSE {})

(***************************************************************************)
(* The specification.                                                      *)
(***************************************************************************)

(* The types of devices have been loaded, and the list is asked for. *)
Init ==
  /\ server = [d \in Devices |->
       IF d \in Stored THEN [name |-> "old", state |-> Initial[d]] ELSE None]
  /\ socket = "none" /\ wire = <<>>
  /\ ready = FALSE
  /\ devices = [d \in Devices |-> None]
  /\ checked = {"all"} /\ filters = {"all"} /\ search = Devices
  /\ cards = devices
  /\ editing = None /\ form = None /\ controlsOf = None
  /\ requests = {[n |-> 0, op |-> "list", id |-> None, value |-> None,
                  status |-> "sent", reply |-> None]}
  /\ asked = 1 /\ moves = 0 /\ elsewhere = 0 /\ drops = 0
  /\ excused = Stored /\ early = FALSE

User ==
  \/ \E b \in Boxes : ChangeBox(b)
  \/ \E ds \in SUBSET Devices : SearchDevices(ds)
  \/ \E d \in Devices : EditDevice(d) \/ ShowDeviceControls(d) \/ SaveDevice(d)
                        \/ DeleteDevice(d) \/ QuickAction(d) \/ ImportDevices({d})
  \/ \E control \in DOMAIN Settings : \E value \in Settings[control] : UseControl(control, value)
  \/ ShowAddDevice \/ CloseDialog

Next ==
  \/ User \/ OnOpen \/ OnClose \/ ConnectWebSocket \/ OnMessage
  \/ \E d \in Devices : ChangeElsewhere(d) \/ ChangeUntold(d)
  \/ \E r \in requests : Handle(r) \/ Publish(r) \/ Answer(r) \/ Lose(r)

Spec == Init /\ [][Next]_vars

(***************************************************************************)
(* Properties.                                                             *)
(***************************************************************************)

(* The last message about d. *)
LastWord(i, d) == wire[i].id = d /\ \A j \in i + 1 .. Len(wire) : wire[j].id # d

(* What the page is about to hear of d. *)
Coming(d) ==
  \/ \E i \in 1..Len(wire) : LastWord(i, d) /\ wire[i].device = server[d]
  \/ \E r \in requests : r.id = d /\ r.status = "handled" /\ r.reply = server[d]
  \/ \E r \in requests : r.id = d /\ r.op = "delete" /\ r.status = "ok"

(* deviceSimulator.devices (device-simulator.js:781): once it has its list *)
(* the page holds a device as the simulator has it, or is about to be      *)
(* told.  The exceptions: there was no connection when it changed; it was  *)
(* changed in a way no page is told of; a message, an answer or the list   *)
(* was overtaken by a change.                                              *)
PageAgrees ==
  ready => \A d \in Devices : devices[d] = server[d] \/ Coming(d) \/ d \in excused

(* The cards (device-simulator.js:110, :803) are those of the devices held *)
(* that the checked boxes and the search ask for, each as it is held, so   *)
(* that the button of a lock or a cover does what it says; unless a box    *)
(* was changed while the page was loading.                                 *)
CardsAsAsked == early \/ cards = Shown(devices, checked, search)
=============================================================================
