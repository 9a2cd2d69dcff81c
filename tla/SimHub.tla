-------------------------------- MODULE SimHub --------------------------------
(***************************************************************************)
(* The WebSocket hub of the device simulator                               *)
(* (services/device-simulator/main.go): one goroutine, WSHub.run, owns the *)
(* map of clients and is the only one to write to and to close their       *)
(* channels; the others reach it through three unbuffered channels.        *)
(***************************************************************************)
EXTENDS Naturals, Sequences

CONSTANTS
  Clients,      \* the WebSocket connections, each used once
  Senders,      \* the HTTP requests that broadcast an update
  SendCap,      \* capacity of a client's send channel: 256
  MaxBroadcasts \* bound: broadcasts in a behaviour

ASSUME HubAssumption == SendCap \in Nat \ {0} /\ MaxBroadcasts \in Nat

VARIABLES
  clients,      \* h.clients
  left,         \* the clients a broadcast in progress has not come to
  number,       \* the broadcasts the hub has taken; they are numbered from 1
  sending,      \* the senders that wait to hand over an update
  send,         \* the send channels
  closed,       \* the send channels that are closed
  open,         \* the connections that are open
  handler,      \* what a connection's goroutines do, see below
  writer,       \* the connections whose writePump runs
  first,        \* history: the number of broadcasts before a client joined
  written,      \* history: what has been written to a connection
  up            \* no goroutine has panicked

hubVars == <<clients, left, number, sending>>
clientVars == <<send, closed, open, handler, writer, first, written>>
simHubVars == <<hubVars, clientVars, up>>

(* "new": not connected yet; "register": handleWebSocket waits for the hub; *)
(* "reading": the pumps run; "unregister": readPump waits for the hub.      *)
HandlerStages == {"new", "register", "reading", "unregister", "done"}

HubInit ==
  /\ clients = {}
  /\ left = {}
  /\ number = 0
  /\ sending = {}
  /\ send = [c \in Clients |-> <<>>]
  /\ closed = {}
  /\ open = {}
  /\ handler = [c \in Clients |-> "new"]
  /\ writer = {}
  /\ first = [c \in Clients |-> 0]
  /\ written = [c \in Clients |-> <<>>]
  /\ up = TRUE

(* The hub stands at its select. *)
Selecting == up /\ left = {}

(* handleWebSocket up to its send on register. *)
Connect(c) ==
  /\ up
  /\ handler[c] = "new"
  /\ handler' = [handler EXCEPT ![c] = "register"]
  /\ open' = open \cup {c}
  /\ UNCHANGED <<hubVars, send, closed, writer, first, written, up>>

(* WSHub.run takes the client, and handleWebSocket starts the pumps. *)
Register(c) ==
  /\ Selecting
  /\ handler[c] = "register"
  /\ clients' = clients \cup {c}
  /\ handler' = [handler EXCEPT ![c] = "reading"]
  /\ writer' = writer \cup {c}
  /\ first' = [first EXCEPT ![c] = number]
  /\ UNCHANGED <<left, number, sending, send, closed, open, written, up>>

(* The peer goes away, or the network does. *)
Disconnect(c) ==
  /\ up
  /\ c \in open
  /\ open' = open \ {c}
  /\ UNCHANGED <<hubVars, send, closed, handler, writer, first, written, up>>

(* A mutant: readPump returns without unregistering. *)
StopReadingQuietly(c) ==
  /\ up
  /\ handler[c] = "reading"
  /\ c \notin open
  /\ handler' = [handler EXCEPT ![c] = "done"]
  /\ UNCHANGED <<hubVars, send, closed, open, writer, first, written, up>>

(* readPump: ReadMessage fails; then the deferred send on unregister. *)
StopReading(c) ==
  /\ up
  /\ handler[c] = "reading"
  /\ c \notin open
  /\ handler' = [handler EXCEPT ![c] = "unregister"]
  /\ UNCHANGED <<hubVars, send, closed, open, writer, first, written, up>>

(* close(client.send): a panic when it is closed already. *)
Close(c) ==
  IF c \in closed THEN up' = FALSE /\ UNCHANGED closed
                  ELSE closed' = closed \cup {c} /\ UNCHANGED up

(* A mutant: an unregistration closes the channel of a client the hub has  *)
(* forgotten already.                                                      *)
UnregisterUnchecked(c) ==
  /\ Selecting
  /\ handler[c] = "unregister"
  /\ handler' = [handler EXCEPT ![c] = "done"]
  /\ clients' = clients \ {c}
  /\ Close(c)
  /\ UNCHANGED <<left, number, sending, send, open, writer, first, written>>

(* WSHub.run takes an unregistration; readPump ends. *)
Unregister(c) ==
  /\ Selecting
  /\ handler[c] = "unregister"
  /\ handler' = [handler EXCEPT ![c] = "done"]
  /\ IF c \in clients THEN clients' = clients \ {c} /\ Close(c)
                      ELSE UNCHANGED <<clients, closed, up>>
  /\ UNCHANGED <<left, number, sending, send, open, writer, first, written>>

(* broadcastUpdate: the request waits until the hub takes its update. *)
Offer(s) ==
  /\ up
  /\ s \notin sending
  /\ number < MaxBroadcasts
  /\ sending' = sending \cup {s}
  /\ UNCHANGED <<clients, left, number, clientVars, up>>

(* WSHub.run takes an update. *)
TakeBroadcast(s) ==
  /\ Selecting
  /\ s \in sending
  /\ sending' = sending \ {s}
  /\ number' = number + 1
  /\ left' = clients
  /\ UNCHANGED <<clients, clientVars, up>>

(* Mutant of the loop's body: an update that a full channel misses. *)
FanOutSkip(c) ==
  /\ up
  /\ c \in left
  /\ left' = left \ {c}
  /\ send' = IF Len(send[c]) < SendCap THEN [send EXCEPT ![c] = Append(@, number)] ELSE send
  /\ UNCHANGED <<clients, number, sending, closed, open, handler, writer, first, written, up>>

(* One turn of its loop over the clients: the send on a closed channel     *)
(* panics, a full channel is closed and its client forgotten.              *)
FanOut(c) ==
  /\ up
  /\ c \in left
  /\ left' = left \ {c}
  /\ \/ /\ c \in closed
        /\ up' = FALSE
        /\ UNCHANGED <<clients, closed, send>>
     \/ /\ c \notin closed
        /\ Len(send[c]) < SendCap
        /\ send' = [send EXCEPT ![c] = Append(@, number)]
        /\ UNCHANGED <<clients, closed, up>>
     \/ /\ c \notin closed
        /\ Len(send[c]) = SendCap
        /\ Close(c)
        /\ clients' = clients \ {c}
        /\ UNCHANGED send
  /\ UNCHANGED <<number, sending, open, handler, writer, first, written>>

(* writePump takes one update.  WriteMessage's error is ignored. *)
Write(c) ==
  /\ up
  /\ c \in writer
  /\ send[c] # <<>>
  /\ send' = [send EXCEPT ![c] = Tail(@)]
  /\ written' = IF c \in open THEN [written EXCEPT ![c] = Append(@, Head(send[c]))] ELSE written
  /\ UNCHANGED <<hubVars, closed, open, handler, writer, first, up>>

(* writePump finds its channel closed and empty, and closes the connection. *)
StopWriting(c) ==
  /\ up
  /\ c \in writer
  /\ send[c] = <<>>
  /\ c \in closed
  /\ writer' = writer \ {c}
  /\ open' = open \ {c}
  /\ UNCHANGED <<hubVars, send, closed, handler, first, written, up>>

HubStep ==
  \/ \E c \in Clients : Register(c) \/ Unregister(c) \/ FanOut(c)
  \/ \E s \in Senders : TakeBroadcast(s)
ClientStep(c) == StopReading(c) \/ Write(c) \/ StopWriting(c)

HubNext ==
  \/ HubStep
  \/ \E c \in Clients : Connect(c) \/ Disconnect(c) \/ ClientStep(c)
  \/ \E s \in Senders : Offer(s)

HubSpec == HubInit /\ [][HubNext]_simHubVars

(* The goroutines go on; the hub always returns to its select.             *)
Fairness == WF_simHubVars(HubStep) /\ \A c \in Clients : WF_simHubVars(ClientStep(c))
FairSpec == HubSpec /\ Fairness

-----------------------------------------------------------------------------
(* Every variable has its type, and a channel holds at most SendCap.       *)
TypeOK ==
  /\ clients \subseteq Clients
  /\ left \subseteq Clients
  /\ number \in Nat
  /\ sending \subseteq Senders
  /\ send \in [Clients -> Seq(Nat)]
  /\ \A c \in Clients : Len(send[c]) <= SendCap
  /\ closed \subseteq Clients
  /\ open \subseteq Clients
  /\ handler \in [Clients -> HandlerStages]
  /\ writer \subseteq Clients
  /\ first \in [Clients -> Nat]
  /\ written \in [Clients -> Seq(Nat)]
  /\ up \in BOOLEAN

(* No goroutine panics: whatever the order of registrations, disconnects   *)
(* and broadcasts, the hub neither sends on a closed channel nor closes    *)
(* one twice.                                                              *)
NoPanic == up

(* A channel is closed exactly when its client has been registered and is  *)
(* in the map no more: the hub forgets nobody whose writer would wait for  *)
(* ever, and keeps nobody whose reader has gone.                           *)
ClosedWhenForgotten ==
  up => \A c \in Clients :
    /\ c \in clients => c \notin closed /\ handler[c] \in {"reading", "unregister"}
    /\ (handler[c] \in {"reading", "unregister", "done"} /\ c \notin clients) => c \in closed

(* Pages get every update from their joining on, in order, until they are  *)
(* cut off.  A page has joined while its readPump reads.                   *)
Pages == INSTANCE Fanout WITH
  Sources   <- {"hub"},
  published <- [s \in {"hub"} |-> number],
  joined    <- {c \in Clients : handler[c] = "reading"},
  from      <- [c \in Clients |-> [s \in {"hub"} |-> first[c]]],
  got       <- [c \in Clients |-> [s \in {"hub"} |-> written[c]]]
ImplementsFanout == Pages!Spec

(* Once there are no more updates, every page still connected has them all. *)
AllDelivered ==
  <>[](\A c \in clients : first[c] + Len(written[c]) = number \/ c \notin open)
(* A connection that has ended leaves nothing behind. *)
CleanedUp == \A c \in Clients :
  (handler[c] = "reading" /\ c \notin open) ~> (handler[c] = "done" /\ c \notin clients /\ c \notin writer)
=============================================================================
