------------------------------ MODULE PageSocket ------------------------------
(***************************************************************************)
(* The live updates of the management page: its one WebSocket              *)
(* (websocket.js) and what the server sends over it (websocket.go,         *)
(* server.go).                                                             *)
(*                                                                         *)
(* The server greets a client with all it has: the greeting is put         *)
(* together in one step and queued in another.  What is queued goes out as *)
(* frames: the writer puts into a frame everything that waits when it      *)
(* wakes up.  A limit on the queue, and what happens at it, is the subject *)
(* of WsHub.                                                               *)
(***************************************************************************)
EXTENDS Naturals, Sequences

CONSTANTS
  Devices,      \* the devices there may be
  DeviceType,   \* their types
  States,       \* the states each of them may report
  Stored,       \* the devices the server has at the start: some -> [online, state]
  None,         \* null
  MaxDrops,     \* bound: connections refused or lost
  MaxUpdates    \* bound: what happens to devices, and events

VARIABLES
  server,       \* the server's devices: Devices -> [online, state] or None
  log,          \* the events the server has stored: numbers 1..log, the last one first
  socket,       \* the page's WebSocket: "connecting", "open" or "closed"
  reconnectTimer, \* the timer of scheduleReconnect is set
  greeting,     \* the initial data: how far it is, and the devices put into it
  wire,         \* messages queued for the page
  drops, updates

serverVars == <<server, log>>
connectionVars == <<socket, reconnectTimer, greeting, wire>>
socketVars == <<serverVars, connectionVars, drops, updates>>

NoGreeting == [at |-> "none", devices |-> None]

SocketInit ==
  /\ server = [d \in Devices |-> IF d \in DOMAIN Stored THEN Stored[d] ELSE None]
  /\ log = 0
  /\ socket = "connecting"
  /\ reconnectTimer = FALSE
  /\ greeting = NoGreeting
  /\ wire = <<>>
  /\ drops = 0
  /\ updates = 0

(***************************************************************************)
(* The connection.                                                         *)
(***************************************************************************)

(* onopen.  By then the server knows the client and owes it the greeting.  *)
OnOpen ==
  /\ socket = "connecting"
  /\ socket' = "open"
  /\ reconnectTimer' = FALSE
  /\ greeting' = [at |-> "due", devices |-> None]
  /\ wire' = <<>>
  /\ UNCHANGED <<serverVars, drops, updates>>

(* Mutant: a connection that never came about is not tried again. *)
ScheduleReconnectIfOpen == reconnectTimer' = (socket = "open")

ScheduleReconnect == reconnectTimer' = TRUE

(* onclose, of a connection that was open or never came about. *)
OnClose ==
  /\ socket \in {"connecting", "open"}
  /\ drops < MaxDrops
  /\ drops' = drops + 1
  /\ socket' = "closed"
  /\ ScheduleReconnect
  /\ greeting' = NoGreeting
  /\ wire' = <<>>
  /\ UNCHANGED <<serverVars, updates>>

(* The timer's callback; connect makes a new socket. *)
Reconnect ==
  /\ reconnectTimer
  /\ reconnectTimer' = FALSE
  /\ socket' = "connecting"
  /\ UNCHANGED <<serverVars, greeting, wire, drops, updates>>

(***************************************************************************)
(* The server.                                                             *)
(***************************************************************************)

Broadcast(m) == wire' = IF socket = "open" THEN Append(wire, m) ELSE wire

Counted == updates < MaxUpdates /\ updates' = updates + 1

(* The state of a device that is not known is passed on all the same. *)
HandleDeviceState(d, state) ==
  /\ Counted
  /\ server' = [server EXCEPT ![d] =
       IF @ = None THEN None ELSE [online |-> TRUE, state |-> state]]
  /\ log' = log + 1
  /\ Broadcast([type |-> "device_update", device |-> d, state |-> state])
  /\ UNCHANGED <<socket, reconnectTimer, greeting, drops>>

(* A new device is broadcast to nobody. *)
HandleDeviceAnnounce(d) ==
  /\ Counted
  /\ server' = [server EXCEPT ![d] =
       [online |-> TRUE, state |-> IF @ = None THEN <<>> ELSE @.state]]
  /\ log' = log + 1
  /\ UNCHANGED <<connectionVars, drops>>

HandleDeleteDevice(d) ==
  /\ Counted
  /\ server[d] # None
  /\ server' = [server EXCEPT ![d] = None]
  /\ UNCHANGED <<log, connectionVars, drops>>

(* The event is a field of the message, not of data in the message. *)
HandleEvent ==
  /\ Counted
  /\ log' = log + 1
  /\ Broadcast([type |-> "event", event |-> log'])
  /\ UNCHANGED <<server, socket, reconnectTimer, greeting, drops>>

(* sendInitialData: json.Marshal ... *)
MarshalInitialData ==
  /\ greeting.at = "due"
  /\ greeting' = [at |-> "marshalled", devices |-> server]
  /\ UNCHANGED <<serverVars, socket, reconnectTimer, wire, drops, updates>>

(* ... and client.send <- data *)
SendInitialData ==
  /\ greeting.at = "marshalled"
  /\ greeting' = NoGreeting
  /\ wire' = Append(wire, [type |-> "initial_data", data |-> greeting.devices])
  /\ UNCHANGED <<serverVars, socket, reconnectTimer, drops, updates>>

(***************************************************************************)
(* The page takes the next frame.  JSON.parse fails when it has more than  *)
(* one message, and all of them are dropped.                               *)
(***************************************************************************)

Frame(k) == SubSeq(wire, 1, k)

OnMessage(k) ==
  /\ socket = "open"
  /\ k \in 1..Len(wire)
  /\ wire' = SubSeq(wire, k + 1, Len(wire))
  /\ UNCHANGED <<serverVars, socket, reconnectTimer, greeting, drops, updates>>
=============================================================================
