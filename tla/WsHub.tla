--------------------------------- MODULE WsHub ---------------------------------
(***************************************************************************)
(* The WebSocket clients of the management UI                              *)
(* (legacy/services/management-ui/internal/server: websocket.go and        *)
(* broadcast in server.go).  There is no hub goroutine: every NATS handler *)
(* broadcasts by itself, walking the map of clients under wsMu.RLock, and  *)
(* closes the channel and deletes the entry of a client that is too slow,  *)
(* still under the read lock.  readPump answers its client over the same   *)
(* channel without any lock.                                               *)
(***************************************************************************)
EXTENDS Naturals, Sequences

CONSTANTS
  Clients,      \* the WebSocket connections, each used once
  Sources,      \* the goroutines that broadcast, one per NATS subscription
  Reply,        \* what readPump answers, in place of a source
  SendCap,      \* capacity of a client's send channel: 256
  MaxBroadcasts,\* bound: broadcasts of each source
  MaxReplies    \* bound: answers to each client

ASSUME WsAssumption ==
  /\ Reply \notin Sources
  /\ SendCap \in Nat \ {0}
  /\ MaxBroadcasts \in Nat
  /\ MaxReplies \in Nat

VARIABLES
  wsClients,    \* the map
  source,       \* where each broadcast stands
  published,    \* the broadcasts of each source so far
  send,         \* the send channels: messages [source, number]
  closed,       \* the send channels that are closed
  open,         \* the connections that are open
  reader,       \* what readPump does
  writer,       \* the connections whose writePump runs
  greeting,     \* the connections sendInitialData has still to answer
  replies,      \* answers to each client so far
  frame,        \* what writePump has put into the frame it writes, of each source
  size,         \* the number of messages in it: 0 while writePump waits
  counted,      \* the connections whose writePump has counted what else is waiting
  more,         \* what it has still to join of that
  from,         \* history: the broadcasts of each source before a client joined
  wire,         \* history: what has gone out on a connection of each source
  got,          \* history: what of it came in a frame of its own
  up            \* the process runs

pump == <<frame, size, counted, more>>
history == <<from, wire, got>>
vars == <<wsClients, source, published, send, closed, open, reader, writer,
          greeting, replies, pump, history, up>>

(* A source is idle, or walks the map (left: entries it has not come to),  *)
(* or has found the channel of "slow" full, or has closed it.              *)
Idle == [at |-> "idle"]
Walk(left) == [at |-> "walk", left |-> left]
Slow(at, left, c) == [at |-> at, left |-> left, slow |-> c]
SourceStates ==
  {Idle} \cup {Walk(left) : left \in SUBSET Clients}
         \cup {Slow(at, left, c) : at \in {"full", "closed"}, left \in SUBSET Clients, c \in Clients}
ReaderStages == {"new", "reading", "replying", "leaving", "done"}
Messages == [source : Sources \cup {Reply}, number : Nat]
NoNumbers == [s \in Sources |-> <<>>]

Init ==
  /\ wsClients = {}
  /\ source = [s \in Sources |-> Idle]
  /\ published = [s \in Sources |-> 0]
  /\ send = [c \in Clients |-> <<>>]
  /\ closed = {}
  /\ open = {}
  /\ reader = [c \in Clients |-> "new"]
  /\ writer = {}
  /\ greeting = {}
  /\ replies = [c \in Clients |-> 0]
  /\ frame = [c \in Clients |-> NoNumbers]
  /\ size = [c \in Clients |-> 0]
  /\ counted = {}
  /\ more = [c \in Clients |-> 0]
  /\ from = [c \in Clients |-> [s \in Sources |-> 0]]
  /\ wire = [c \in Clients |-> NoNumbers]
  /\ got = [c \in Clients |-> NoNumbers]
  /\ up = TRUE

(* Nobody holds wsMu.RLock, so wsMu.Lock can be had. *)
Lockable == \A s \in Sources : source[s] = Idle
Message(s, n) == [source |-> s, number |-> n]

(* A panic in a NATS callback or in readPump ends the process. *)
Panic == up' = FALSE

(* handleWebSocket up to sendInitialData. *)
Connect(c) ==
  /\ up
  /\ reader[c] = "new"
  /\ Lockable
  /\ wsClients' = wsClients \cup {c}
  /\ reader' = [reader EXCEPT ![c] = "reading"]
  /\ writer' = writer \cup {c}
  /\ open' = open \cup {c}
  /\ greeting' = greeting \cup {c}
  /\ from' = [from EXCEPT ![c] = published]
  /\ UNCHANGED <<source, published, send, closed, replies, pump, wire, got, up>>

(* A send that does not wait: a full channel drops the message. *)
Offer(c) ==
  send' = IF Len(send[c]) < SendCap THEN [send EXCEPT ![c] = Append(@, Message(Reply, 0))]
                                    ELSE send

(* sendInitialData, in the goroutine of the HTTP request: net/http         *)
(* recovers its panic on a closed channel.                                 *)
Greet(c) ==
  /\ up
  /\ c \in greeting
  /\ greeting' = greeting \ {c}
  /\ IF c \in closed THEN UNCHANGED send ELSE Offer(c)
  /\ UNCHANGED <<wsClients, source, published, closed, open, reader, writer, replies, pump, history, up>>

(* readPump gets a message to answer: a ping or a command. *)
Receive(c) ==
  /\ up
  /\ reader[c] = "reading"
  /\ c \in open
  /\ replies[c] < MaxReplies
  /\ replies' = [replies EXCEPT ![c] = @ + 1]
  /\ reader' = [reader EXCEPT ![c] = "replying"]
  /\ UNCHANGED <<wsClients, source, published, send, closed, open, writer, greeting, pump, history, up>>

(* handleWebSocketMessage, handleWebSocketCommand: the answer. *)
Answer(c) ==
  /\ up
  /\ reader[c] = "replying"
  /\ reader' = [reader EXCEPT ![c] = "reading"]
  /\ IF c \in closed THEN Panic /\ UNCHANGED send ELSE Offer(c) /\ UNCHANGED up
  /\ UNCHANGED <<wsClients, source, published, closed, open, writer, greeting, replies, pump, history>>

(* The peer goes away, or no pong comes in time. *)
Disconnect(c) ==
  /\ up
  /\ c \in open
  /\ open' = open \ {c}
  /\ UNCHANGED <<wsClients, source, published, send, closed, reader, writer, greeting, replies, pump, history, up>>

(* readPump: ReadJSON fails. *)
StopReading(c) ==
  /\ up
  /\ reader[c] = "reading"
  /\ c \notin open
  /\ reader' = [reader EXCEPT ![c] = "leaving"]
  /\ UNCHANGED <<wsClients, source, published, send, closed, open, writer, greeting, replies, pump, history, up>>

(* ReadJSON fails on a message that is not JSON, too. *)
Misread(c) ==
  /\ up
  /\ reader[c] = "reading"
  /\ c \in open
  /\ reader' = [reader EXCEPT ![c] = "leaving"]
  /\ UNCHANGED <<wsClients, source, published, send, closed, open, writer, greeting, replies, pump, history, up>>

(* A mutant: the entry stays in the map. *)
LeaveEntry(c) ==
  /\ up
  /\ reader[c] = "leaving"
  /\ Lockable
  /\ open' = open \ {c}
  /\ reader' = [reader EXCEPT ![c] = "done"]
  /\ UNCHANGED <<wsClients, source, published, send, closed, writer, greeting, replies, pump, history, up>>

(* ... and its deferred function. *)
Leave(c) ==
  /\ up
  /\ reader[c] = "leaving"
  /\ Lockable
  /\ wsClients' = wsClients \ {c}
  /\ open' = open \ {c}
  /\ reader' = [reader EXCEPT ![c] = "done"]
  /\ UNCHANGED <<source, published, send, closed, writer, greeting, replies, pump, history, up>>

(* broadcast: marshal, RLock, range over the map. *)
Broadcast(s) ==
  /\ up
  /\ source[s] = Idle
  /\ published[s] < MaxBroadcasts
  /\ published' = [published EXCEPT ![s] = @ + 1]
  /\ source' = [source EXCEPT ![s] = Walk(wsClients)]
  /\ UNCHANGED <<wsClients, send, closed, open, reader, writer, greeting, replies, pump, history, up>>

(* A mutant: a client that is too slow misses the update. *)
VisitSkip(s, c) ==
  /\ up
  /\ source[s].at = "walk"
  /\ c \in source[s].left
  /\ source' = [source EXCEPT ![s] = Walk(@.left \ {c})]
  /\ send' = IF Len(send[c]) < SendCap THEN [send EXCEPT ![c] = Append(@, Message(s, published[s]))]
                                        ELSE send
  /\ UNCHANGED <<wsClients, published, closed, open, reader, writer, greeting, replies, pump, history, up>>

(* One turn of the loop.  An entry another broadcast has deleted meanwhile *)
(* may still be met: the map is read while it is written.                  *)
Visit(s, c) ==
  /\ up
  /\ source[s].at = "walk"
  /\ c \in source[s].left
  /\ LET rest == source[s].left \ {c}
     IN \/ /\ c \in closed
           /\ Panic
           /\ UNCHANGED <<source, send>>
        \/ /\ c \notin closed
           /\ Len(send[c]) < SendCap
           /\ send' = [send EXCEPT ![c] = Append(@, Message(s, published[s]))]
           /\ source' = [source EXCEPT ![s] = Walk(rest)]
           /\ UNCHANGED up
        \/ /\ c \notin closed
           /\ Len(send[c]) = SendCap
           /\ source' = [source EXCEPT ![s] = Slow("full", rest, c)]
           /\ UNCHANGED <<send, up>>
        \/ /\ c \notin wsClients
           /\ source' = [source EXCEPT ![s] = Walk(rest)]
           /\ UNCHANGED <<send, up>>
  /\ UNCHANGED <<wsClients, published, closed, open, reader, writer, greeting, replies, pump, history>>

(* close(client.send) in the default branch. *)
CloseSlow(s) ==
  /\ up
  /\ source[s].at = "full"
  /\ IF source[s].slow \in closed
     THEN Panic /\ UNCHANGED <<source, closed>>
     ELSE /\ closed' = closed \cup {source[s].slow}
          /\ source' = [source EXCEPT ![s].at = "closed"]
          /\ UNCHANGED up
  /\ UNCHANGED <<wsClients, published, send, open, reader, writer, greeting, replies, pump, history>>

(* delete(s.wsClients, id) under the read lock: the runtime may find the   *)
(* map in use by another broadcast and end the process.                    *)
DeleteSlow(s) ==
  /\ up
  /\ source[s].at = "closed"
  /\ wsClients' = wsClients \ {source[s].slow}
  /\ source' = [source EXCEPT ![s] = Walk(source[s].left)]
  /\ \/ UNCHANGED up
     \/ (\E t \in Sources \ {s} : source[t] # Idle) /\ Panic
  /\ UNCHANGED <<published, send, closed, open, reader, writer, greeting, replies, pump, history>>

(* The loop is over, RUnlock. *)
EndBroadcast(s) ==
  /\ up
  /\ source[s] = Walk({})
  /\ source' = [source EXCEPT ![s] = Idle]
  /\ UNCHANGED <<wsClients, published, send, closed, open, reader, writer, greeting, replies, pump, history, up>>

(* writePump takes the first message of the channel into the frame. *)
PutInto(numbers, m) ==
  IF m.source = Reply THEN numbers ELSE [numbers EXCEPT ![m.source] = Append(@, m.number)]
TakeNext(c) ==
  /\ send[c] # <<>>
  /\ send' = [send EXCEPT ![c] = Tail(@)]
  /\ frame' = [frame EXCEPT ![c] = PutInto(@, Head(send[c]))]
  /\ size' = [size EXCEPT ![c] = @ + 1]

(* The select of writePump: a message to begin a frame with. *)
Take(c) ==
  /\ up
  /\ c \in writer
  /\ size[c] = 0
  /\ TakeNext(c)
  /\ UNCHANGED <<wsClients, source, published, closed, open, reader, writer, greeting, replies, counted, more, history, up>>

(* n := len(client.send), once the first message is written. *)
Count(c) ==
  /\ up
  /\ c \in writer
  /\ size[c] > 0
  /\ c \notin counted
  /\ counted' = counted \cup {c}
  /\ more' = [more EXCEPT ![c] = Len(send[c])]
  /\ UNCHANGED <<wsClients, source, published, send, closed, open, reader, writer, greeting, replies, frame, size, history, up>>

(* One turn of the loop that adds what was waiting, a newline between. *)
Join(c) ==
  /\ up
  /\ c \in writer
  /\ c \in counted
  /\ more[c] > 0
  /\ TakeNext(c)
  /\ more' = [more EXCEPT ![c] = @ - 1]
  /\ UNCHANGED <<wsClients, source, published, closed, open, reader, writer, greeting, replies, counted, history, up>>

(* w.Close(): the frame goes out, unless the connection has ended; the     *)
(* page's JSON.parse takes a frame with one message only.                  *)
Flush(c) ==
  /\ up
  /\ c \in writer
  /\ c \in counted
  /\ more[c] = 0
  /\ LET with(numbers) == [numbers EXCEPT ![c] = [s \in Sources |-> @[s] \o frame[c][s]]]
     IN /\ wire' = IF c \in open THEN with(wire) ELSE wire
        /\ got' = IF c \in open /\ size[c] = 1 THEN with(got) ELSE got
  /\ frame' = [frame EXCEPT ![c] = NoNumbers]
  /\ size' = [size EXCEPT ![c] = 0]
  /\ counted' = counted \ {c}
  /\ UNCHANGED <<wsClients, source, published, send, closed, open, reader, writer, greeting, replies, more, from, up>>

(* Where writePump may return: its channel is closed and empty; or a ping, *)
(* NextWriter or w.Close fails because the connection has ended.           *)
Ends(c) ==
  \/ size[c] = 0 /\ c \in closed /\ send[c] = <<>>
  \/ c \notin open /\ (c \in counted => more[c] = 0)

(* A mutant: writePump returns without closing the connection. *)
StopWritingQuietly(c) ==
  /\ up
  /\ c \in writer
  /\ Ends(c)
  /\ writer' = writer \ {c}
  /\ UNCHANGED <<wsClients, source, published, send, closed, open, reader, greeting, replies, pump, history, up>>

(* ... and its deferred function; what it had taken is lost. *)
StopWriting(c) ==
  /\ up
  /\ c \in writer
  /\ Ends(c)
  /\ writer' = writer \ {c}
  /\ open' = open \ {c}
  /\ frame' = [frame EXCEPT ![c] = NoNumbers]
  /\ size' = [size EXCEPT ![c] = 0]
  /\ counted' = counted \ {c}
  /\ UNCHANGED <<wsClients, source, published, send, closed, reader, greeting, replies, more, history, up>>

SourceStep(s) ==
  (\E c \in Clients : Visit(s, c)) \/ CloseSlow(s) \/ DeleteSlow(s) \/ EndBroadcast(s)
ReaderStep(c) == Answer(c) \/ StopReading(c) \/ Leave(c)
WriterStep(c) == Take(c) \/ Count(c) \/ Join(c) \/ Flush(c) \/ StopWriting(c)

Next ==
  \/ \E s \in Sources : Broadcast(s) \/ SourceStep(s)
  \/ \E c \in Clients : Connect(c) \/ Receive(c) \/ Misread(c) \/ Disconnect(c) \/ Greet(c)
                        \/ ReaderStep(c) \/ WriterStep(c)

Spec == Init /\ [][Next]_vars

(* The goroutines go on.                                                   *)
Fairness ==
  /\ \A s \in Sources : WF_vars(SourceStep(s))
  /\ \A c \in Clients : WF_vars(ReaderStep(c)) /\ WF_vars(WriterStep(c)) /\ WF_vars(Greet(c))
FairSpec == Spec /\ Fairness

-----------------------------------------------------------------------------
(* Every variable has its type, and a channel holds at most SendCap.       *)
TypeOK ==
  /\ wsClients \subseteq Clients
  /\ source \in [Sources -> SourceStates]
  /\ published \in [Sources -> Nat]
  /\ send \in [Clients -> Seq(Messages)]
  /\ \A c \in Clients : Len(send[c]) <= SendCap
  /\ closed \subseteq Clients
  /\ open \subseteq Clients
  /\ reader \in [Clients -> ReaderStages]
  /\ writer \subseteq Clients
  /\ greeting \subseteq Clients
  /\ replies \in [Clients -> Nat]
  /\ from \in [Clients -> [Sources -> Nat]]
  /\ frame \in [Clients -> [Sources -> Seq(Nat)]]
  /\ size \in [Clients -> Nat]
  /\ counted \subseteq Clients
  /\ more \in [Clients -> 0..SendCap]
  /\ wire \in [Clients -> [Sources -> Seq(Nat)]]
  /\ got \in [Clients -> [Sources -> Seq(Nat)]]
  /\ up \in BOOLEAN

(* The clients the map holds are those somebody reads from: a connection   *)
(* that has ended leaves no entry, and a channel that has been closed no   *)
(* entry either, but for the step between the close and the delete.        *)
NoStaleEntry == \A c \in wsClients :
  /\ reader[c] \in {"reading", "replying", "leaving"}
  /\ c \in closed => \E s \in Sources : source[s].at = "closed" /\ source[s].slow = c

(* A client too slow is closed, and the others go on: the server never     *)
(* ends because of it.                                                     *)
NoPanic == up

(* On the connection of a page the updates of each source go out in order  *)
(* and without a gap from its joining on until it is cut off, whatever the *)
(* other sources send and however slow it is; the page misses those that   *)
(* came in a frame with other messages, and no others.                     *)
Pages == INSTANCE JoinedFanout WITH joined <- open, sent <- wire
ImplementsJoinedFanout == Pages!Spec

(* A client whose channel was closed is disconnected and forgotten, unless *)
(* the process has ended.                                                  *)
SlowClientGone == \A c \in Clients :
  (c \in closed) ~> (~up \/ (c \notin open /\ c \notin wsClients /\ c \notin writer))
=============================================================================
