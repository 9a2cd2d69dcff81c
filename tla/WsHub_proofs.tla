------------------------------ MODULE WsHub_proofs ------------------------------
(***************************************************************************)
(* Proofs about the WebSocket clients of the management UI, for every      *)
(* number of clients, of handlers that broadcast and of broadcasts and for *)
(* every capacity of the channels: the map holds nobody who has gone, and  *)
(* a page is sent what JoinedFanout promises, although there is no hub,    *)
(* several broadcasts walk the map, close channels and delete entries at   *)
(* once, and the pump joins what is waiting in one frame.                  *)
(***************************************************************************)
EXTENDS WsHub, Integers, TLAPS

USE DEF pump, history

(* A broadcast has still to put its message into the channel of c.         *)
AheadIn(x, c) ==
  /\ x # Idle
  /\ \/ c \in x.left
     \/ x.at = "full" /\ x.slow = c
Ahead(s, c) == AheadIn(source[s], c)
(* The last broadcast of s that c has been given, while it is in the map.  *)
Last(s, c) == IF Ahead(s, c) THEN published[s] - 1 ELSE published[s]
(* The broadcasts of s up to the last one that has gone out to c, and up   *)
(* to the last one writePump has taken for it.                             *)
Out(c, s) == from[c][s] + Len(wire[c][s])
Base(c, s) == Out(c, s) + Len(frame[c][s])

Served == {"reading", "replying", "leaving"}

(* What a connection that has not been made has, and what an open one has. *)
StageOK ==
  /\ \A c \in Clients : reader[c] = "new" =>
       /\ c \notin writer /\ c \notin greeting /\ c \notin closed
       /\ send[c] = <<>>
       /\ frame[c] = NoNumbers /\ wire[c] = NoNumbers /\ got[c] = NoNumbers
  /\ open \subseteq writer

(* The map holds clients somebody reads from; a closed channel is still in *)
(* it only while the broadcast that closed it is about to delete it; and a *)
(* broadcast meets no client that has not been in the map.                 *)
MapOK ==
  /\ \A c \in wsClients :
       /\ reader[c] \in Served
       /\ c \in closed => \E s \in Sources : source[s].at = "closed" /\ source[s].slow = c
  /\ \A s \in Sources : source[s].at = "closed" => source[s].slow \in closed
  /\ \A s \in Sources, c \in Clients : Ahead(s, c) => c \in wsClients \cup closed

(* The messages of s in a channel go on from base: ascending, none missing.*)
Follows(queue, s, base) ==
  \A i \in 1..Len(queue) : queue[i].source = s =>
    /\ queue[i].number > base
    /\ \A j \in 1..(i - 1) : queue[j].source = s => queue[j].number < queue[i].number
    /\ \/ queue[i].number = base + 1
       \/ \E j \in 1..(i - 1) : queue[j] = Message(s, queue[i].number - 1)
(* ... and end at last or before ...                                       *)
UpTo(queue, s, last) ==
  \A i \in 1..Len(queue) : queue[i].source = s => queue[i].number <= last
(* ... or exactly there.                                                   *)
Holds(queue, s, base, last) ==
  /\ base <= last
  /\ UpTo(queue, s, last)
  /\ \A n \in (base + 1)..last : \E i \in 1..Len(queue) : queue[i] = Message(s, n)

(* What a channel holds of each source follows on what is taken; while     *)
(* the client is in the map and its channel is open, up to the last        *)
(* broadcast that has come to it.                                          *)
QueueOK == \A c \in open, s \in Sources :
  /\ Follows(send[c], s, Base(c, s))
  /\ UpTo(send[c], s, published[s])
  /\ c \in wsClients \ closed => Holds(send[c], s, Base(c, s), Last(s, c))

(* The frame of a connection goes on from what has gone out, and one that  *)
(* has one message has one update at most.                                 *)
FrameOK ==
  /\ \A c \in Clients :
       /\ size[c] = 0 => frame[c] = NoNumbers
       /\ size[c] = 1 => \/ frame[c] = NoNumbers
                        \/ \E s \in Sources, n \in Nat : frame[c] = [NoNumbers EXCEPT ![s] = <<n>>]
  /\ \A c \in open, s \in Sources :
       /\ \A i \in 1..Len(frame[c][s]) : frame[c][s][i] = Out(c, s) + i
       /\ Base(c, s) <= published[s]

HubInv == TypeOK /\ StageOK /\ MapOK /\ QueueOK /\ FrameOK
-----------------------------------------------------------------------------
(* The states of a broadcast and their fields.                             *)
LEMMA SourceKinds ==
  /\ Idle \in SourceStates /\ Idle.at = "idle"
  /\ \A left \in SUBSET Clients :
       Walk(left) \in SourceStates /\ Walk(left).at = "walk" /\ Walk(left).left = left
  /\ \A at \in {"full", "closed"}, left \in SUBSET Clients, c \in Clients :
       /\ Slow(at, left, c) \in SourceStates
       /\ Slow(at, left, c).at = at /\ Slow(at, left, c).left = left /\ Slow(at, left, c).slow = c
       /\ [Slow(at, left, c) EXCEPT !.at = "closed"] = Slow("closed", left, c)
<1>1. Idle \in SourceStates /\ Idle.at = "idle"
  BY DEF SourceStates, Idle
<1>2. ASSUME NEW left \in SUBSET Clients
      PROVE  Walk(left) \in SourceStates /\ Walk(left).at = "walk" /\ Walk(left).left = left
  BY DEF SourceStates, Walk
<1>3. ASSUME NEW at \in {"full", "closed"}, NEW left \in SUBSET Clients, NEW c \in Clients
      PROVE  /\ Slow(at, left, c) \in SourceStates
             /\ Slow(at, left, c).at = at /\ Slow(at, left, c).left = left /\ Slow(at, left, c).slow = c
             /\ [Slow(at, left, c) EXCEPT !.at = "closed"] = Slow("closed", left, c)
  <2>1. Slow(at, left, c) \in SourceStates
    BY DEF SourceStates
  <2>2. [Slow(at, left, c) EXCEPT !.at = "closed"] = Slow("closed", left, c)
    BY DEF Slow
  <2> QED BY <2>1, <2>2 DEF Slow
<1> QED BY <1>1, <1>2, <1>3

(* A source is idle, or walking, or at a slow client, with the fields of that. *)
LEMMA SourceFields ==
  ASSUME NEW x \in SourceStates
  PROVE  /\ x.at \in {"idle", "walk", "full", "closed"}
         /\ x.at = "idle" <=> x = Idle
         /\ x.at = "walk" => x.left \in SUBSET Clients /\ x = Walk(x.left)
         /\ x.at \in {"full", "closed"} =>
              x.left \in SUBSET Clients /\ x.slow \in Clients /\ x = Slow(x.at, x.left, x.slow)
<1>1. CASE x = Idle
  BY <1>1, SourceKinds
<1>2. CASE x \in {Walk(left) : left \in SUBSET Clients}
  <2>1. PICK left \in SUBSET Clients : x = Walk(left)
    BY <1>2
  <2> QED BY <2>1, SourceKinds
<1>3. CASE x \in {Slow(at, left, c) : at \in {"full", "closed"}, left \in SUBSET Clients, c \in Clients}
  <2>1. PICK at \in {"full", "closed"}, left \in SUBSET Clients, c \in Clients : x = Slow(at, left, c)
    BY <1>3
  <2> QED BY <2>1, SourceKinds
<1> QED BY <1>1, <1>2, <1>3 DEF SourceStates

(* What is left to a broadcast in each of its states.                      *)
LEMMA AheadOf ==
  ASSUME NEW c \in Clients
  PROVE  /\ ~AheadIn(Idle, c)
         /\ \A left \in SUBSET Clients : AheadIn(Walk(left), c) <=> c \in left
         /\ \A left \in SUBSET Clients, d \in Clients :
              /\ AheadIn(Slow("full", left, d), c) <=> c \in left \cup {d}
              /\ AheadIn(Slow("closed", left, d), c) <=> c \in left
<1>1. ASSUME NEW left \in SUBSET Clients PROVE AheadIn(Walk(left), c) <=> c \in left
  BY SourceKinds DEF AheadIn
<1>2. ASSUME NEW left \in SUBSET Clients, NEW d \in Clients
      PROVE  AheadIn(Slow("full", left, d), c) <=> c \in left \cup {d}
  BY SourceKinds DEF AheadIn
<1>3. ASSUME NEW left \in SUBSET Clients, NEW d \in Clients
      PROVE  AheadIn(Slow("closed", left, d), c) <=> c \in left
  BY SourceKinds DEF AheadIn
<1> QED BY <1>1, <1>2, <1>3 DEF AheadIn

(* A message is of a source and has a number. *)
LEMMA MessageFields ==
  ASSUME NEW s \in Sources \cup {Reply}, NEW n \in Nat
  PROVE  Message(s, n) \in Messages /\ Message(s, n).source = s /\ Message(s, n).number = n
  BY DEF Message, Messages

(* Every message is what its source and its number make it. *)
LEMMA MessageIs ==
  ASSUME NEW m \in Messages
  PROVE  m.source \in Sources \cup {Reply} /\ m.number \in Nat /\ m = Message(m.source, m.number)
  BY DEF Message, Messages

(* Adding a message of another source changes nothing.                     *)
LEMMA PushOther ==
  ASSUME NEW queue \in Seq(Messages), NEW m \in Messages, NEW s \in Sources, m.source # s,
         NEW base \in Nat, NEW last \in Int
  PROVE  /\ Follows(queue, s, base) => Follows(Append(queue, m), s, base)
         /\ UpTo(queue, s, last) => UpTo(Append(queue, m), s, last)
         /\ Holds(queue, s, base, last) => Holds(Append(queue, m), s, base, last)
<1> DEFINE q == Append(queue, m)
<1>1. /\ Len(q) = Len(queue) + 1 /\ Len(queue) \in Nat
      /\ \A i \in 1..Len(queue) : q[i] = queue[i]
      /\ q[Len(queue) + 1] = m
  OBVIOUS
<1> HIDE DEF q
<1>2. \A i \in 1..Len(q) : q[i].source = s => i \in 1..Len(queue)
  BY <1>1
<1>3. Follows(queue, s, base) => Follows(q, s, base)
  BY <1>1, <1>2 DEF Follows
<1>4. UpTo(queue, s, last) => UpTo(q, s, last)
  BY <1>1, <1>2 DEF UpTo
<1>5. Holds(queue, s, base, last) => Holds(q, s, base, last)
  BY <1>1, <1>4 DEF Holds
<1> QED BY <1>3, <1>4, <1>5 DEF q

(* Adding the next broadcast of a source.                                  *)
LEMMA PushNext ==
  ASSUME NEW queue \in Seq(Messages), NEW s \in Sources, NEW base \in Nat, NEW n \in Nat, n > 0,
         Follows(queue, s, base), Holds(queue, s, base, n - 1)
  PROVE  /\ Follows(Append(queue, Message(s, n)), s, base)
         /\ Holds(Append(queue, Message(s, n)), s, base, n)
<1> DEFINE q == Append(queue, Message(s, n))
<1>1. Message(s, n) \in Messages /\ Message(s, n).source = s /\ Message(s, n).number = n
  BY MessageFields
<1>2. /\ Len(q) = Len(queue) + 1 /\ Len(queue) \in Nat
      /\ \A i \in 1..Len(queue) : q[i] = queue[i] /\ queue[i].number \in Nat
      /\ q[Len(queue) + 1] = Message(s, n)
  <2>1. \A i \in 1..Len(queue) : queue[i].number \in Nat
    BY MessageIs
  <2> QED BY <1>1, <2>1
<1> HIDE DEF q
<1>3. UpTo(queue, s, n - 1) /\ base <= n - 1
  BY DEF Holds
<1>4. Follows(q, s, base)
  <2> SUFFICES ASSUME NEW i \in 1..Len(q), q[i].source = s
               PROVE  /\ q[i].number > base
                      /\ \A j \in 1..(i - 1) : q[j].source = s => q[j].number < q[i].number
                      /\ \/ q[i].number = base + 1
                         \/ \E j \in 1..(i - 1) : q[j] = Message(s, q[i].number - 1)
    BY DEF Follows
  <2>1. CASE i \in 1..Len(queue)
    <3>1. q[i] = queue[i] /\ \A j \in 1..(i - 1) : j \in 1..Len(queue) /\ q[j] = queue[j]
      BY <2>1, <1>2
    <3>2. /\ queue[i].number > base
          /\ \A j \in 1..(i - 1) : queue[j].source = s => queue[j].number < queue[i].number
          /\ \/ queue[i].number = base + 1
             \/ \E j \in 1..(i - 1) : queue[j] = Message(s, queue[i].number - 1)
      BY <2>1, <3>1 DEF Follows
    <3> QED BY <3>1, <3>2
  <2>2. CASE i = Len(queue) + 1
    <3>1. q[i].number = n /\ n > base
      BY <2>2, <1>1, <1>2, <1>3
    <3>2. \A j \in 1..(i - 1) : q[j].source = s => q[j].number < n
      BY <2>2, <1>2, <1>3 DEF UpTo
    <3>3. n = base + 1 \/ \E j \in 1..(i - 1) : q[j] = Message(s, n - 1)
      <4>1. CASE n - 1 \in (base + 1)..(n - 1)
        BY <4>1, <2>2, <1>2 DEF Holds
      <4>2. CASE n - 1 = base
        BY <4>2
      <4> QED BY <4>1, <4>2, <1>3
    <3> QED BY <3>1, <3>2, <3>3
  <2> QED BY <2>1, <2>2, <1>2
<1>5. UpTo(q, s, n)
  BY <1>1, <1>2, <1>3 DEF UpTo
<1>6. ASSUME NEW k \in (base + 1)..n PROVE \E i \in 1..Len(q) : q[i] = Message(s, k)
  <2>1. CASE k = n
    BY <2>1, <1>2
  <2>2. CASE k \in (base + 1)..(n - 1)
    <3>1. PICK i \in 1..Len(queue) : queue[i] = Message(s, k)
      BY <2>2 DEF Holds
    <3> QED BY <3>1, <1>2
  <2> QED BY <2>1, <2>2
<1> QED BY <1>3, <1>4, <1>5, <1>6 DEF Holds, q

(* Taking the first message: the next broadcast of its source, and what is *)
(* left goes on from there.                                                *)
LEMMA Pop ==
  ASSUME NEW queue \in Seq(Messages), queue # <<>>, NEW s \in Sources, NEW base \in Nat,
         NEW last \in Int, Follows(queue, s, base),
         NEW next \in Nat, next = IF Head(queue).source = s THEN base + 1 ELSE base
  PROVE  /\ Head(queue).source = s => Head(queue).number = base + 1
         /\ Follows(Tail(queue), s, next)
         /\ UpTo(queue, s, last) => UpTo(Tail(queue), s, last)
         /\ Holds(queue, s, base, last) => Holds(Tail(queue), s, next, last)
<1> DEFINE h == Head(queue)  q == Tail(queue)
<1>1. /\ Len(queue) \in Nat /\ Len(queue) > 0 /\ Len(q) = Len(queue) - 1
      /\ h = queue[1]
      /\ \A i \in 1..Len(q) : q[i] = queue[i + 1] /\ i + 1 \in 1..Len(queue)
      /\ \A i \in 2..Len(queue) : queue[i] = q[i - 1] /\ i - 1 \in 1..Len(q)
      /\ \A i \in 1..Len(queue) : queue[i] \in Messages
  OBVIOUS
<1>2. \A i \in 1..Len(queue) : queue[i].number \in Nat /\ \A n \in Nat : Message(s, n).source = s /\ Message(s, n).number = n
  BY <1>1, MessageIs, MessageFields
<1>3. next = IF h.source = s THEN base + 1 ELSE base
  OBVIOUS
<1> HIDE DEF h, q
<1>4. h.source = s => h.number = base + 1
  BY <1>1 DEF Follows
<1>5. Follows(q, s, next)
  <2> SUFFICES ASSUME NEW i \in 1..Len(q), q[i].source = s
               PROVE  /\ q[i].number > next
                      /\ \A j \in 1..(i - 1) : q[j].source = s => q[j].number < q[i].number
                      /\ \/ q[i].number = next + 1
                         \/ \E j \in 1..(i - 1) : q[j] = Message(s, q[i].number - 1)
    BY DEF Follows
  <2>1. /\ i + 1 \in 1..Len(queue) /\ q[i] = queue[i + 1] /\ q[i].number \in Nat
        /\ q[i].number > base
        /\ \A j \in 1..i : queue[j].source = s => queue[j].number < q[i].number
        /\ \/ q[i].number = base + 1
           \/ \E j \in 1..i : queue[j] = Message(s, q[i].number - 1)
    BY <1>1, <1>2 DEF Follows
  <2>2. q[i].number > next
    <3>1. CASE h.source = s
      BY <3>1, <1>1, <1>2, <1>3, <1>4, <2>1
    <3> QED BY <3>1, <1>3, <2>1
  <2>3. \A j \in 1..(i - 1) : q[j].source = s => q[j].number < q[i].number
    <3> SUFFICES ASSUME NEW j \in 1..(i - 1), q[j].source = s PROVE q[j].number < q[i].number
      OBVIOUS
    <3>1. j \in 1..Len(q) /\ j + 1 \in 1..i /\ q[j] = queue[j + 1]
      BY <1>1
    <3> QED BY <3>1, <2>1
  <2>4. q[i].number = next + 1 \/ \E j \in 1..(i - 1) : q[j] = Message(s, q[i].number - 1)
    <3>1. CASE q[i].number = base + 1
      BY <3>1, <2>2, <1>3
    <3>2. CASE q[i].number # base + 1
      <4> PICK j \in 1..i : queue[j] = Message(s, q[i].number - 1)
        BY <2>1, <3>2
      <4>1. q[i].number - 1 \in Nat
        BY <2>1
      <4>2. CASE j = 1
        BY <4>1, <4>2, <3>2, <1>1, <1>2, <1>3, <1>4, <2>1
      <4>3. CASE j # 1
        <5>1. j \in 2..Len(queue) /\ j - 1 \in 1..(i - 1)
          BY <4>3, <1>1
        <5> QED BY <5>1, <3>2, <1>1
      <4> QED BY <4>2, <4>3
    <3> QED BY <3>1, <3>2, <2>1
  <2> QED BY <2>2, <2>3, <2>4
<1>6. UpTo(queue, s, last) => UpTo(q, s, last)
  BY <1>1 DEF UpTo
<1>7. ASSUME Holds(queue, s, base, last) PROVE Holds(q, s, next, last)
  <2>1. base <= last /\ UpTo(queue, s, last) /\ UpTo(q, s, last)
    BY <1>6, <1>7 DEF Holds
  <2>2. next <= last
    <3>1. 1 \in 1..Len(queue)
      BY <1>1
    <3> QED BY <3>1, <1>1, <1>3, <1>4, <2>1 DEF UpTo
  <2>3. ASSUME NEW n \in (next + 1)..last PROVE \E i \in 1..Len(q) : q[i] = Message(s, n)
    <3>1. n \in (base + 1)..last /\ n \in Nat
      BY <1>3
    <3>2. PICK i \in 1..Len(queue) : queue[i] = Message(s, n)
      BY <3>1, <1>7 DEF Holds
    <3>3. i # 1
      BY <3>1, <3>2, <1>1, <1>2, <1>3, <1>4
    <3>4. i \in 2..Len(queue)
      BY <3>3
    <3> QED BY <3>2, <3>4, <1>1
  <2> QED BY <2>1, <2>2, <2>3 DEF Holds
<1> QED BY <1>4, <1>5, <1>6, <1>7 DEF h, q

(* An empty channel.                                                       *)
LEMMA EmptyQueue ==
  ASSUME NEW s \in Sources, NEW base \in Nat
  PROVE  Follows(<<>>, s, base) /\ UpTo(<<>>, s, base) /\ Holds(<<>>, s, base, base)
  BY DEF Follows, UpTo, Holds
-----------------------------------------------------------------------------
(* The invariant holds at the start.                                       *)
LEMMA InitInv == Init => HubInv
<1> SUFFICES ASSUME Init PROVE HubInv
  OBVIOUS
<1>1. TypeOK
  <2>1. NoNumbers \in [Sources -> Seq(Nat)]
    BY DEF NoNumbers
  <2> QED BY <2>1, WsAssumption, SourceKinds DEF Init, TypeOK, ReaderStages
<1>2. StageOK /\ QueueOK /\ FrameOK
  BY DEF Init, StageOK, QueueOK, FrameOK
<1>3. MapOK
  BY AheadOf, SourceKinds DEF Init, MapOK, Ahead
<1> QED BY <1>1, <1>2, <1>3 DEF HubInv

(* What a broadcast does next depends on where it stands.                  *)
LEMMA SourceIs ==
  ASSUME TypeOK, NEW s \in Sources
  PROVE  /\ source[s].at = "walk" =>
              source[s].left \in SUBSET Clients /\ source[s] = Walk(source[s].left)
         /\ source[s].at \in {"full", "closed"} =>
              /\ source[s].left \in SUBSET Clients /\ source[s].slow \in Clients
              /\ source[s] = Slow(source[s].at, source[s].left, source[s].slow)
<1>1. source[s] \in SourceStates
  BY DEF TypeOK
<1> QED BY <1>1, SourceFields

(* The answer put into a channel that has room.                            *)
LEMMA OfferType ==
  ASSUME TypeOK, NEW c \in Clients, Offer(c)
  PROVE  send' \in [Clients -> Seq(Messages)] /\ \A d \in Clients : Len(send'[d]) <= SendCap
<1>1. Message(Reply, 0) \in Messages
  BY MessageFields
<1>2. CASE Len(send[c]) < SendCap
  <2>1. send' = [send EXCEPT ![c] = Append(@, Message(Reply, 0))]
    BY <1>2 DEF Offer
  <2>2. Append(send[c], Message(Reply, 0)) \in Seq(Messages)
        /\ Len(Append(send[c], Message(Reply, 0))) = Len(send[c]) + 1
    BY <1>1 DEF TypeOK
  <2>3. \A d \in Clients : Len(send'[d]) <= SendCap
    BY <1>2, <2>1, <2>2, WsAssumption DEF TypeOK
  <2> QED BY <2>1, <2>2, <2>3 DEF TypeOK
<1> QED BY <1>2 DEF Offer, TypeOK

(* What writePump takes: the first message, its number put to its source.  *)
LEMMA TakeEffect ==
  ASSUME TypeOK, NEW c \in Clients, TakeNext(c)
  PROVE  /\ send[c] \in Seq(Messages) /\ send[c] # <<>> /\ Head(send[c]) \in Messages
         /\ send' \in [Clients -> Seq(Messages)] /\ \A d \in Clients : Len(send'[d]) <= SendCap
         /\ send'[c] = Tail(send[c])
         /\ frame' \in [Clients -> [Sources -> Seq(Nat)]]
         /\ frame'[c] = PutInto(frame[c], Head(send[c]))
         /\ \A s \in Sources : frame'[c][s] =
              IF Head(send[c]).source = s THEN Append(frame[c][s], Head(send[c]).number) ELSE frame[c][s]
         /\ size' \in [Clients -> Nat] /\ size'[c] = size[c] + 1
         /\ \A d \in Clients \ {c} : send'[d] = send[d] /\ frame'[d] = frame[d] /\ size'[d] = size[d]
<1>1. send[c] \in Seq(Messages) /\ send[c] # <<>> /\ Head(send[c]) \in Messages
      /\ Tail(send[c]) \in Seq(Messages) /\ Len(Tail(send[c])) <= SendCap
  BY WsAssumption DEF TakeNext, TypeOK
<1>2. /\ send' \in [Clients -> Seq(Messages)] /\ \A d \in Clients : Len(send'[d]) <= SendCap
      /\ send'[c] = Tail(send[c])
      /\ size' \in [Clients -> Nat] /\ size'[c] = size[c] + 1
      /\ \A d \in Clients \ {c} : send'[d] = send[d] /\ size'[d] = size[d]
  BY <1>1 DEF TakeNext, TypeOK
<1> DEFINE m == Head(send[c])
<1>3. m.source \in Sources \cup {Reply} /\ m.number \in Nat
  BY <1>1, MessageIs
<1>4. frame' = [frame EXCEPT ![c] = PutInto(frame[c], m)]
  BY DEF TakeNext
<1> HIDE DEF m
<1>5. frame[c] \in [Sources -> Seq(Nat)] /\ frame \in [Clients -> [Sources -> Seq(Nat)]]
  BY DEF TypeOK
<1>6. /\ PutInto(frame[c], m) \in [Sources -> Seq(Nat)]
      /\ \A s \in Sources :
           PutInto(frame[c], m)[s] = IF m.source = s THEN Append(frame[c][s], m.number) ELSE frame[c][s]
  <2>1. CASE m.source = Reply
    BY <1>5, <2>1, WsAssumption DEF PutInto
  <2>2. CASE m.source # Reply
    <3>1. PutInto(frame[c], m) = [frame[c] EXCEPT ![m.source] = Append(@, m.number)]
      BY <2>2 DEF PutInto
    <3>2. m.source \in Sources /\ Append(frame[c][m.source], m.number) \in Seq(Nat)
      BY <1>3, <1>5, <2>2
    <3> QED BY <1>5, <3>1, <3>2
  <2> QED BY <2>1, <2>2
<1>7. /\ frame' \in [Clients -> [Sources -> Seq(Nat)]]
      /\ frame'[c] = PutInto(frame[c], m)
      /\ \A d \in Clients \ {c} : frame'[d] = frame[d]
  BY <1>4, <1>5, <1>6
<1> QED BY <1>1, <1>2, <1>6, <1>7 DEF m

(* What goes out, and what of it the page can read.                        *)
LEMMA FlushEffect ==
  ASSUME TypeOK, NEW c \in Clients, Flush(c)
  PROVE  /\ wire' \in [Clients -> [Sources -> Seq(Nat)]] /\ got' \in [Clients -> [Sources -> Seq(Nat)]]
         /\ frame' \in [Clients -> [Sources -> Seq(Nat)]]
         /\ frame'[c] = NoNumbers /\ size'[c] = 0
         /\ c \in open => wire'[c] = [s \in Sources |-> wire[c][s] \o frame[c][s]]
         /\ got' = got \/ c \in open
         /\ c \in open => got' = IF size[c] = 1
                                  THEN [got EXCEPT ![c] = [s \in Sources |-> got[c][s] \o frame[c][s]]]
                                  ELSE got
         /\ \A d \in Clients \ {c} :
              wire'[d] = wire[d] /\ got'[d] = got[d] /\ frame'[d] = frame[d] /\ size'[d] = size[d]
<1> DEFINE out == [s \in Sources |-> wire[c][s] \o frame[c][s]]
           read == [s \in Sources |-> got[c][s] \o frame[c][s]]
<1>1. out \in [Sources -> Seq(Nat)] /\ read \in [Sources -> Seq(Nat)] /\ NoNumbers \in [Sources -> Seq(Nat)]
  BY DEF TypeOK, NoNumbers
<1>2. /\ wire' = IF c \in open THEN [wire EXCEPT ![c] = out] ELSE wire
      /\ got' = IF c \in open /\ size[c] = 1 THEN [got EXCEPT ![c] = read] ELSE got
      /\ frame' = [frame EXCEPT ![c] = NoNumbers] /\ size' = [size EXCEPT ![c] = 0]
  BY DEF Flush
<1> HIDE DEF out, read
<1>3. /\ wire' \in [Clients -> [Sources -> Seq(Nat)]] /\ got' \in [Clients -> [Sources -> Seq(Nat)]]
      /\ frame' \in [Clients -> [Sources -> Seq(Nat)]]
      /\ frame'[c] = NoNumbers /\ size'[c] = 0
      /\ c \in open => wire'[c] = out
      /\ \A d \in Clients \ {c} :
              wire'[d] = wire[d] /\ got'[d] = got[d] /\ frame'[d] = frame[d] /\ size'[d] = size[d]
  BY <1>1, <1>2 DEF TypeOK
<1> QED BY <1>2, <1>3 DEF out, read

(* Every step keeps every variable in its type.                            *)
LEMMA StepType == TypeOK /\ [Next]_vars => TypeOK'
<1> SUFFICES ASSUME TypeOK, [Next]_vars PROVE TypeOK'
  OBVIOUS
<1> USE WsAssumption
<1>1. ASSUME NEW c \in Clients, Connect(c) PROVE TypeOK'
  BY <1>1 DEF Connect, TypeOK, ReaderStages
<1>2. ASSUME NEW c \in Clients, Greet(c) PROVE TypeOK'
  <2>1. send' = send \/ Offer(c)
    BY <1>2 DEF Greet
  <2>2. send' \in [Clients -> Seq(Messages)] /\ \A d \in Clients : Len(send'[d]) <= SendCap
    BY <2>1, OfferType DEF TypeOK
  <2> QED BY <1>2, <2>2 DEF Greet, TypeOK
<1>3. ASSUME NEW c \in Clients, Answer(c) PROVE TypeOK'
  <2>1. send' = send \/ Offer(c)
    BY <1>3 DEF Answer
  <2>2. send' \in [Clients -> Seq(Messages)] /\ \A d \in Clients : Len(send'[d]) <= SendCap
    BY <2>1, OfferType DEF TypeOK
  <2> QED BY <1>3, <2>2 DEF Answer, TypeOK, Panic, ReaderStages
<1>4. ASSUME NEW c \in Clients, Receive(c) \/ Disconnect(c) \/ StopReading(c) \/ Misread(c) \/ Leave(c)
      PROVE  TypeOK'
  <2>1. CASE Receive(c)
    BY <2>1 DEF Receive, TypeOK, ReaderStages
  <2>2. CASE Disconnect(c)
    BY <2>2 DEF Disconnect, TypeOK, ReaderStages
  <2>3. CASE StopReading(c)
    BY <2>3 DEF StopReading, TypeOK, ReaderStages
  <2>4. CASE Misread(c)
    BY <2>4 DEF Misread, TypeOK, ReaderStages
  <2>5. CASE Leave(c)
    BY <2>5 DEF Leave, TypeOK, ReaderStages
  <2> QED BY <1>4, <2>1, <2>2, <2>3, <2>4, <2>5
<1>5. ASSUME NEW s \in Sources, Broadcast(s) PROVE TypeOK'
  <2>1. Walk(wsClients) \in SourceStates
    BY SourceKinds DEF TypeOK
  <2> QED BY <1>5, <2>1 DEF Broadcast, TypeOK
<1>6. ASSUME NEW s \in Sources, NEW c \in Clients, Visit(s, c) PROVE TypeOK'
  <2>1. source' \in [Sources -> SourceStates]
    <3>1. source[s].left \ {c} \in SUBSET Clients
      BY <1>6, SourceIs DEF Visit
    <3>2. Walk(source[s].left \ {c}) \in SourceStates /\ Slow("full", source[s].left \ {c}, c) \in SourceStates
      BY <3>1, SourceKinds
    <3> QED BY <1>6, <3>2 DEF Visit, TypeOK
  <2>2. send' \in [Clients -> Seq(Messages)] /\ \A d \in Clients : Len(send'[d]) <= SendCap
    <3>1. CASE send' = send
      BY <3>1 DEF TypeOK
    <3>2. CASE send' # send
      <4>1. /\ Len(send[c]) < SendCap
            /\ send' = [send EXCEPT ![c] = Append(@, Message(s, published[s]))]
        BY <1>6, <3>2 DEF Visit
      <4>2. Message(s, published[s]) \in Messages
        BY MessageFields DEF TypeOK
      <4>3. /\ Append(send[c], Message(s, published[s])) \in Seq(Messages)
            /\ Len(Append(send[c], Message(s, published[s]))) = Len(send[c]) + 1
        BY <4>2 DEF TypeOK
      <4> QED BY <4>1, <4>3 DEF TypeOK
    <3> QED BY <3>1, <3>2
  <2>3. up' \in BOOLEAN
    BY <1>6 DEF Visit, Panic, TypeOK
  <2> QED BY <1>6, <2>1, <2>2, <2>3 DEF Visit, TypeOK
<1>7. ASSUME NEW s \in Sources, CloseSlow(s) PROVE TypeOK'
  <2>1. source' \in [Sources -> SourceStates] /\ source[s].slow \in Clients
    <3>1. /\ source[s].left \in SUBSET Clients /\ source[s].slow \in Clients
          /\ source[s] = Slow("full", source[s].left, source[s].slow)
      BY <1>7, SourceIs DEF CloseSlow
    <3>2. [source[s] EXCEPT !.at = "closed"] \in SourceStates
      BY <3>1, SourceKinds
    <3>3. source' = source \/ source' = [source EXCEPT ![s] = [source[s] EXCEPT !.at = "closed"]]
      BY <1>7 DEF CloseSlow
    <3> DEFINE x == [source[s] EXCEPT !.at = "closed"]
    <3>4. x \in SourceStates /\ (source' = source \/ source' = [source EXCEPT ![s] = x])
      BY <3>2, <3>3
    <3>5. source \in [Sources -> SourceStates]
      BY DEF TypeOK
    <3> HIDE DEF x
    <3> QED BY <3>1, <3>4, <3>5
  <2> QED BY <1>7, <2>1 DEF CloseSlow, Panic, TypeOK
<1>8. ASSUME NEW s \in Sources, DeleteSlow(s) PROVE TypeOK'
  <2>1. Walk(source[s].left) \in SourceStates
    BY <1>8, SourceIs, SourceKinds DEF DeleteSlow
  <2> QED BY <1>8, <2>1 DEF DeleteSlow, Panic, TypeOK
<1>9. ASSUME NEW s \in Sources, EndBroadcast(s) PROVE TypeOK'
  BY <1>9, SourceKinds DEF EndBroadcast, TypeOK
<1>10. ASSUME NEW c \in Clients, Take(c) \/ Join(c) PROVE TypeOK'
  <2>1. TakeNext(c)
    BY <1>10 DEF Take, Join
  <2>2. /\ send' \in [Clients -> Seq(Messages)] /\ \A d \in Clients : Len(send'[d]) <= SendCap
        /\ frame' \in [Clients -> [Sources -> Seq(Nat)]] /\ size' \in [Clients -> Nat]
    BY <2>1, TakeEffect
  <2>3. more' \in [Clients -> 0..SendCap]
    <3>1. CASE Take(c)
      BY <3>1 DEF Take, TypeOK
    <3>2. CASE Join(c)
      <4>1. more[c] \in 0..SendCap /\ more[c] > 0 /\ more' = [more EXCEPT ![c] = @ - 1]
        BY <3>2 DEF Join, TypeOK
      <4>2. more[c] - 1 \in 0..SendCap
        BY <4>1
      <4> QED BY <4>1, <4>2 DEF TypeOK
    <3> QED BY <1>10, <3>1, <3>2
  <2> QED BY <1>10, <2>2, <2>3 DEF Take, Join, TypeOK
<1>11. ASSUME NEW c \in Clients, Count(c) PROVE TypeOK'
  <2>1. Len(send[c]) \in 0..SendCap
    BY DEF TypeOK
  <2> QED BY <1>11, <2>1 DEF Count, TypeOK
<1>13. ASSUME NEW c \in Clients, Flush(c) PROVE TypeOK'
  <2>1. size' \in [Clients -> Nat]
    BY <1>13 DEF Flush, TypeOK
  <2> QED BY <1>13, <2>1, FlushEffect DEF Flush, TypeOK
<1>14. ASSUME NEW c \in Clients, StopWriting(c) PROVE TypeOK'
  <2>1. NoNumbers \in [Sources -> Seq(Nat)]
    BY DEF NoNumbers
  <2> QED BY <1>14, <2>1 DEF StopWriting, TypeOK
<1>12. CASE UNCHANGED vars
  BY <1>12 DEF vars, TypeOK
<1> QED
  BY <1>1, <1>2, <1>3, <1>4, <1>5, <1>6, <1>7, <1>8, <1>9, <1>10, <1>11, <1>12, <1>13, <1>14
  DEF Next, SourceStep, ReaderStep, WriterStep
-----------------------------------------------------------------------------
(* What each step of a broadcast leaves it to do.                          *)
LEMMA BroadcastAhead ==
  ASSUME TypeOK, NEW s \in Sources, Broadcast(s), NEW t \in Sources, NEW d \in Clients
  PROVE  /\ t # s => source'[t] = source[t] /\ (Ahead(t, d)' <=> Ahead(t, d))
         /\ source'[s].at = "walk"
         /\ ~Ahead(s, d)
         /\ Ahead(s, d)' <=> d \in wsClients
<1>1. source' = [source EXCEPT ![s] = Walk(wsClients)] /\ source[s] = Idle
  BY DEF Broadcast
<1>2. source'[s] = Walk(wsClients) /\ (t # s => source'[t] = source[t])
  BY <1>1 DEF TypeOK
<1>3. wsClients \in SUBSET Clients
  BY DEF TypeOK
<1> QED BY <1>1, <1>2, <1>3, AheadOf, SourceKinds DEF Ahead

(* A visit takes the client from what its broadcast has ahead, and no other. *)
LEMMA VisitAhead ==
  ASSUME TypeOK, NEW s \in Sources, NEW c \in Clients, Visit(s, c),
         NEW t \in Sources, NEW d \in Clients
  PROVE  /\ t # s => source'[t] = source[t] /\ (Ahead(t, d)' <=> Ahead(t, d))
         /\ Ahead(s, c)
         /\ source[s].at = "walk" /\ source'[s].at \in {"walk", "full"}
         /\ Ahead(s, d)' => Ahead(s, d)
         /\ d # c => (Ahead(s, d)' <=> Ahead(s, d))
         /\ Len(send[c]) = SendCap /\ c \in wsClients \ closed => Ahead(s, c)'
         /\ send' # send => ~Ahead(s, c)'
<1> DEFINE left == source[s].left  rest == left \ {c}
<1>1. left \in SUBSET Clients /\ source[s] = Walk(left) /\ c \in left /\ source[s].at = "walk"
  BY SourceIs DEF Visit
<1>2. rest \in SUBSET Clients
  BY <1>1
<1>3. \/ source' = source /\ c \in closed /\ send' = send
      \/ /\ source' = [source EXCEPT ![s] = Walk(rest)]
         /\ c \notin wsClients \/ Len(send[c]) < SendCap
      \/ source' = [source EXCEPT ![s] = Slow("full", rest, c)] /\ send' = send
  BY DEF Visit
<1>4. t # s => source'[t] = source[t]
  BY <1>3 DEF TypeOK
<1>5. \/ source'[s] = Walk(left) /\ c \in closed /\ send' = send
      \/ source'[s] = Walk(rest) /\ (c \notin wsClients \/ Len(send[c]) < SendCap)
      \/ source'[s] = Slow("full", rest, c) /\ send' = send
  BY <1>1, <1>3 DEF TypeOK
<1>6. Ahead(s, c) /\ (Ahead(s, d) <=> d \in left)
  BY <1>1, AheadOf DEF Ahead
<1> HIDE DEF left, rest
<1>7. source'[s].at \in {"walk", "full"}
  BY <1>1, <1>2, <1>5, SourceKinds
<1>8. /\ Ahead(s, d)' => d \in left
      /\ d # c => (Ahead(s, d)' <=> d \in left)
  <2>1. d \in rest <=> d \in left /\ d # c
    BY DEF rest
  <2> QED BY <1>1, <1>2, <1>5, <2>1, AheadOf DEF Ahead
<1>9. Len(send[c]) < SendCap => Len(send[c]) # SendCap
  BY WsAssumption DEF TypeOK
<1>10. /\ Len(send[c]) = SendCap /\ c \in wsClients \ closed => Ahead(s, c)'
       /\ send' # send => ~Ahead(s, c)'
  <2>1. c \notin rest
    BY DEF rest
  <2> QED BY <1>1, <1>2, <1>5, <1>9, <2>1, AheadOf DEF Ahead
<1> QED BY <1>1, <1>4, <1>6, <1>7, <1>8, <1>10 DEF Ahead

(* Closing a slow client's channel leaves it behind its broadcast. *)
LEMMA CloseAhead ==
  ASSUME TypeOK, NEW s \in Sources, CloseSlow(s), source[s].slow \notin closed,
         NEW t \in Sources, NEW d \in Clients
  PROVE  /\ t # s => source'[t] = source[t] /\ (Ahead(t, d)' <=> Ahead(t, d))
         /\ source[s].at = "full" /\ source[s].slow \in Clients /\ Ahead(s, source[s].slow)
         /\ source'[s].at = "closed" /\ source'[s].slow = source[s].slow
         /\ Ahead(s, d)' => Ahead(s, d)
         /\ d # source[s].slow => (Ahead(s, d)' <=> Ahead(s, d))
<1> DEFINE left == source[s].left  c == source[s].slow
<1>1. left \in SUBSET Clients /\ c \in Clients /\ source[s] = Slow("full", left, c) /\ source[s].at = "full"
  BY SourceIs DEF CloseSlow
<1>2. source' = [source EXCEPT ![s] = [source[s] EXCEPT !.at = "closed"]]
  BY DEF CloseSlow
<1>3. source'[s] = [source[s] EXCEPT !.at = "closed"] /\ (t # s => source'[t] = source[t])
  <2> DEFINE x == [source[s] EXCEPT !.at = "closed"]
  <2>1. source' = [source EXCEPT ![s] = x]
    BY <1>2
  <2> HIDE DEF x
  <2>2. source'[s] = x /\ (t # s => source'[t] = source[t])
    BY <2>1 DEF TypeOK
  <2> QED BY <2>2 DEF x
<1>4. source'[s] = Slow("closed", left, c)
  BY <1>1, <1>3, SourceKinds
<1> HIDE DEF left, c
<1>5. source'[s].at = "closed" /\ source'[s].slow = c
  BY <1>1, <1>4, SourceKinds
<1>6. /\ AheadIn(source[s], d) <=> d \in left \cup {c}
      /\ AheadIn(source[s], c)
      /\ AheadIn(source'[s], d) <=> d \in left
  BY <1>1, <1>4, AheadOf
<1> QED BY <1>1, <1>3, <1>5, <1>6 DEF Ahead, c

(* Deleting a slow client leaves what the broadcasts have ahead. *)
LEMMA DeleteAhead ==
  ASSUME TypeOK, NEW s \in Sources, DeleteSlow(s), NEW t \in Sources, NEW d \in Clients
  PROVE  /\ t # s => source'[t] = source[t]
         /\ source[s].at = "closed"
         /\ Ahead(t, d)' <=> Ahead(t, d)
<1> DEFINE left == source[s].left  c == source[s].slow
<1>1. left \in SUBSET Clients /\ c \in Clients /\ source[s] = Slow("closed", left, c) /\ source[s].at = "closed"
  BY SourceIs DEF DeleteSlow
<1>2. source' = [source EXCEPT ![s] = Walk(left)]
  BY DEF DeleteSlow
<1>3. source'[s] = Walk(left) /\ (t # s => source'[t] = source[t])
  BY <1>2 DEF TypeOK
<1> HIDE DEF left, c
<1>4. AheadIn(source'[s], d) <=> AheadIn(source[s], d)
  BY <1>1, <1>3, AheadOf
<1> QED BY <1>1, <1>3, <1>4 DEF Ahead

(* A broadcast that ends had no client ahead. *)
LEMMA EndAhead ==
  ASSUME TypeOK, NEW s \in Sources, EndBroadcast(s), NEW t \in Sources, NEW d \in Clients
  PROVE  /\ t # s => source'[t] = source[t]
         /\ source[s].at = "walk"
         /\ Ahead(t, d)' <=> Ahead(t, d)
<1>1. source'[s] = Idle /\ source[s] = Walk({}) /\ (t # s => source'[t] = source[t])
  BY DEF EndBroadcast, TypeOK
<1>2. AheadIn(source'[s], d) <=> AheadIn(source[s], d)
  BY <1>1, AheadOf
<1> QED BY <1>1, <1>2, SourceKinds DEF Ahead
-----------------------------------------------------------------------------
(* Whoever a broadcast still meets has been in the map.                    *)
LEMMA MetIsKnown ==
  ASSUME StageOK, MapOK, NEW s \in Sources, NEW c \in Clients, Ahead(s, c)
  PROVE  reader[c] # "new"
<1>1. c \in wsClients \cup closed
  BY DEF MapOK
<1> QED BY <1>1 DEF StageOK, MapOK, Served

(* Every step keeps connections at a stage they can be at. *)
LEMMA StepStage == TypeOK /\ StageOK /\ MapOK /\ [Next]_vars => StageOK'
<1> SUFFICES ASSUME TypeOK, StageOK, MapOK, [Next]_vars PROVE StageOK'
  OBVIOUS
<1>1. ASSUME NEW c \in Clients, Connect(c) PROVE StageOK'
  BY <1>1 DEF Connect, StageOK, TypeOK
<1>2. ASSUME NEW c \in Clients, Greet(c) PROVE StageOK'
  <2>1. reader[c] # "new"
    BY <1>2 DEF Greet, StageOK
  <2>2. \A d \in Clients \ {c} : send'[d] = send[d]
    BY <1>2 DEF Greet, Offer, TypeOK
  <2> QED BY <1>2, <2>1, <2>2 DEF Greet, StageOK
<1>3. ASSUME NEW c \in Clients, Answer(c) PROVE StageOK'
  <2>1. reader[c] # "new" /\ reader'[c] # "new" /\ \A d \in Clients \ {c} : reader'[d] = reader[d]
    BY <1>3 DEF Answer, TypeOK
  <2>2. \A d \in Clients \ {c} : send'[d] = send[d]
    BY <1>3 DEF Answer, Offer, TypeOK
  <2> QED BY <1>3, <2>1, <2>2 DEF Answer, StageOK
<1>4. ASSUME NEW c \in Clients, Receive(c) \/ Disconnect(c) \/ StopReading(c) \/ Misread(c) \/ Leave(c)
      PROVE  StageOK'
  <2>1. \A d \in Clients : reader'[d] = "new" => reader[d] = "new"
    BY <1>4 DEF Receive, Disconnect, StopReading, Misread, Leave, TypeOK
  <2>2. open' \subseteq open /\ UNCHANGED <<writer, greeting, closed, send, frame, wire, got>>
    BY <1>4 DEF Receive, Disconnect, StopReading, Misread, Leave
  <2> QED BY <2>1, <2>2 DEF StageOK
<1>5. ASSUME NEW s \in Sources, Broadcast(s) \/ DeleteSlow(s) \/ EndBroadcast(s) PROVE StageOK'
  BY <1>5 DEF Broadcast, DeleteSlow, EndBroadcast, StageOK
<1>6. ASSUME NEW s \in Sources, NEW c \in Clients, Visit(s, c) PROVE StageOK'
  <2>1. reader[c] # "new"
    BY <1>6, VisitAhead, MetIsKnown
  <2>2. \A d \in Clients \ {c} : send'[d] = send[d]
    BY <1>6 DEF Visit, TypeOK
  <2> QED BY <1>6, <2>1, <2>2 DEF Visit, StageOK
<1>7. ASSUME NEW s \in Sources, CloseSlow(s) PROVE StageOK'
  <2>1. CASE source[s].slow \in closed
    BY <1>7, <2>1 DEF CloseSlow, StageOK
  <2>2. CASE source[s].slow \notin closed
    <3>1. source[s].slow \in Clients /\ Ahead(s, source[s].slow)
      BY <1>7, <2>2, CloseAhead, SourceIs DEF CloseSlow
    <3>2. reader[source[s].slow] # "new"
      BY <3>1, MetIsKnown
    <3> QED BY <1>7, <2>2, <3>2 DEF CloseSlow, StageOK
  <2> QED BY <2>1, <2>2
<1>8. ASSUME NEW c \in Clients, WriterStep(c) PROVE StageOK'
  <2>1. c \in writer /\ reader[c] # "new"
    BY <1>8 DEF WriterStep, Take, Count, Join, Flush, StopWriting, StageOK
  <2>2. ASSUME NEW d \in Clients \ {c}
        PROVE  send'[d] = send[d] /\ frame'[d] = frame[d] /\ wire'[d] = wire[d] /\ got'[d] = got[d]
    <3>1. CASE Take(c) \/ Join(c)
      BY <3>1, TakeEffect DEF Take, Join
    <3>2. CASE Flush(c)
      BY <3>2, FlushEffect DEF Flush
    <3>3. CASE Count(c) \/ StopWriting(c)
      BY <3>3 DEF Count, StopWriting, TypeOK
    <3> QED BY <1>8, <3>1, <3>2, <3>3 DEF WriterStep
  <2>3. /\ UNCHANGED <<reader, greeting, closed>>
        /\ writer' \subseteq writer
        /\ open' \subseteq writer'
    BY <1>8 DEF WriterStep, Take, Count, Join, Flush, StopWriting, StageOK
  <2> QED BY <2>1, <2>2, <2>3 DEF StageOK
<1>9. CASE UNCHANGED vars
  BY <1>9 DEF vars, StageOK
<1> QED
  BY <1>1, <1>2, <1>3, <1>4, <1>5, <1>6, <1>7, <1>8, <1>9
  DEF Next, SourceStep, ReaderStep

(* A step that lets the broadcasts be where they are and the map and the   *)
(* channels as they are.                                                   *)
LEMMA MapKept ==
  ASSUME MapOK, UNCHANGED <<wsClients, source, closed>>,
         \A c \in wsClients : reader'[c] \in Served
  PROVE  MapOK'
  BY DEF MapOK, Ahead

(* Every step keeps the map one of clients that are read from. *)
LEMMA StepMap == TypeOK /\ StageOK /\ MapOK /\ [Next]_vars => MapOK'
<1> SUFFICES ASSUME TypeOK, StageOK, MapOK, [Next]_vars PROVE MapOK'
  OBVIOUS
<1>1. ASSUME NEW c \in Clients, Connect(c) PROVE MapOK'
  <2>1. /\ c \notin closed /\ wsClients' = wsClients \cup {c} /\ reader'[c] = "reading"
        /\ \A d \in Clients \ {c} : reader'[d] = reader[d]
        /\ UNCHANGED <<source, closed>>
    BY <1>1 DEF Connect, StageOK, TypeOK
  <2> QED BY <2>1 DEF MapOK, Ahead, Served, TypeOK
<1>2. ASSUME NEW c \in Clients, Leave(c) PROVE MapOK'
  <2>1. /\ wsClients' = wsClients \ {c} /\ \A d \in Clients \ {c} : reader'[d] = reader[d]
        /\ \A s \in Sources : source[s] = Idle
        /\ UNCHANGED <<source, closed>>
    BY <1>2 DEF Leave, Lockable, TypeOK
  <2>2. \A s \in Sources, d \in Clients : ~Ahead(s, d) /\ ~Ahead(s, d)' /\ source[s].at # "closed"
    BY <2>1, AheadOf, SourceKinds DEF Ahead
  <2> QED BY <2>1, <2>2 DEF MapOK, TypeOK
<1>3. ASSUME NEW c \in Clients, Receive(c) \/ Disconnect(c) \/ StopReading(c) \/ Misread(c) \/ Greet(c) \/ Answer(c)
      PROVE  MapOK'
  <2>1. /\ UNCHANGED <<wsClients, source, closed>>
        /\ \A d \in Clients : reader'[d] = reader[d] \/ reader'[d] \in Served
    BY <1>3 DEF Receive, Disconnect, StopReading, Misread, Greet, Answer, Served, TypeOK
  <2>2. \A d \in wsClients : reader'[d] \in Served
    BY <2>1 DEF MapOK, TypeOK
  <2> QED BY <2>1, <2>2, MapKept
<1>4. ASSUME NEW c \in Clients, WriterStep(c) PROVE MapOK'
  <2>1. UNCHANGED <<wsClients, source, closed, reader>>
    BY <1>4 DEF WriterStep, Take, Count, Join, Flush, StopWriting
  <2> QED BY <2>1, MapKept DEF MapOK
<1>5. ASSUME NEW s \in Sources, Broadcast(s) PROVE MapOK'
  <2>1. UNCHANGED <<wsClients, closed, reader>> /\ source[s] = Idle
    BY <1>5 DEF Broadcast
  <2>2. \A t \in Sources, d \in Clients : Ahead(t, d)' => d \in wsClients \cup closed
    BY <1>5, BroadcastAhead DEF MapOK
  <2>3. \A t \in Sources : "closed" \in {source[t].at, source'[t].at} => source'[t] = source[t]
    <3>1. source[s].at # "closed" /\ source'[s].at # "closed"
      <4>1. source'[s] = Walk(wsClients) /\ wsClients \in SUBSET Clients
        BY <1>5 DEF Broadcast, TypeOK
      <4> QED BY <2>1, <4>1, SourceKinds
    <3> QED BY <1>5, <3>1 DEF Broadcast, TypeOK
  <2> QED BY <2>1, <2>2, <2>3 DEF MapOK
<1>6. ASSUME NEW s \in Sources, NEW c \in Clients, Visit(s, c) PROVE MapOK'
  <2>1. UNCHANGED <<wsClients, closed, reader>>
    BY <1>6 DEF Visit
  <2>2. \A t \in Sources, d \in Clients : Ahead(t, d)' => d \in wsClients \cup closed
    BY <1>6, VisitAhead DEF MapOK
  <2>3. \A t \in Sources : "closed" \in {source[t].at, source'[t].at} => source'[t] = source[t]
    BY <1>6, VisitAhead
  <2> QED BY <2>1, <2>2, <2>3 DEF MapOK
<1>7. ASSUME NEW s \in Sources, CloseSlow(s) PROVE MapOK'
  <2>1. CASE source[s].slow \in closed
    BY <1>7, <2>1, MapKept DEF CloseSlow, MapOK
  <2>2. CASE source[s].slow \notin closed
    <3>1. UNCHANGED <<wsClients, reader>> /\ closed' = closed \cup {source[s].slow}
      BY <1>7, <2>2 DEF CloseSlow
    <3>2. \A t \in Sources, d \in Clients : Ahead(t, d)' => d \in wsClients' \cup closed'
      BY <1>7, <2>2, <3>1, CloseAhead DEF MapOK
    <3>3. /\ \A t \in Sources \ {s} : source'[t] = source[t]
          /\ source[s].at = "full"
          /\ source'[s].at = "closed" /\ source'[s].slow = source[s].slow
      <4> PICK d \in Clients : d = source[s].slow
        BY <1>7, SourceIs DEF CloseSlow
      <4> QED BY <1>7, <2>2, CloseAhead
    <3> QED BY <3>1, <3>2, <3>3 DEF MapOK
  <2> QED BY <2>1, <2>2
<1>8. ASSUME NEW s \in Sources, DeleteSlow(s) PROVE MapOK'
  <2>1. UNCHANGED <<closed, reader>> /\ wsClients' = wsClients \ {source[s].slow}
    BY <1>8 DEF DeleteSlow
  <2>2. source[s].at = "closed" /\ \A t \in Sources \ {s} : source'[t] = source[t]
    BY <1>8 DEF DeleteSlow, TypeOK
  <2>3. source'[s].at # "closed"
    <3>1. source'[s] = Walk(source[s].left) /\ source[s].left \in SUBSET Clients
      BY <1>8, SourceIs DEF DeleteSlow, TypeOK
    <3> QED BY <3>1, SourceKinds
  <2>4. \A t \in Sources, d \in Clients : Ahead(t, d)' => d \in wsClients' \cup closed
    BY <1>8, <2>1, <2>2, DeleteAhead DEF MapOK
  <2>5. ASSUME NEW c \in wsClients', c \in closed
        PROVE  \E t \in Sources : source'[t].at = "closed" /\ source'[t].slow = c
    <3>1. PICK t \in Sources : source[t].at = "closed" /\ source[t].slow = c
      BY <2>1, <2>5 DEF MapOK
    <3>2. t # s
      BY <2>1, <3>1
    <3> QED BY <2>2, <3>1, <3>2
  <2> QED BY <2>1, <2>2, <2>3, <2>4, <2>5 DEF MapOK
<1>9. ASSUME NEW s \in Sources, EndBroadcast(s) PROVE MapOK'
  <2>1. UNCHANGED <<wsClients, closed, reader>>
    BY <1>9 DEF EndBroadcast
  <2>2. \A t \in Sources : "closed" \in {source[t].at, source'[t].at} => source'[t] = source[t]
    <3>1. source[s].at = "walk" /\ source'[s].at = "idle"
      BY <1>9, SourceKinds DEF EndBroadcast, TypeOK
    <3> QED BY <1>9, <3>1 DEF EndBroadcast, TypeOK
  <2> QED BY <1>9, <2>1, <2>2, EndAhead DEF MapOK
<1>10. CASE UNCHANGED vars
  BY <1>10, MapKept DEF vars, MapOK
<1> QED
  BY <1>1, <1>2, <1>3, <1>4, <1>5, <1>6, <1>7, <1>8, <1>9, <1>10
  DEF Next, SourceStep, ReaderStep
-----------------------------------------------------------------------------
(* Positions are numbers, and channels hold messages. *)
LEMMA BaseType ==
  ASSUME TypeOK, NEW c \in Clients, NEW s \in Sources
  PROVE  /\ Out(c, s) \in Nat /\ Base(c, s) \in Nat /\ Base(c, s) >= Out(c, s)
         /\ published[s] \in Nat /\ Last(s, c) \in Int /\ send[c] \in Seq(Messages)
<1>1. /\ from[c][s] \in Nat /\ wire[c][s] \in Seq(Nat) /\ frame[c][s] \in Seq(Nat)
      /\ published[s] \in Nat /\ send[c] \in Seq(Messages)
  BY DEF TypeOK
<1>2. Len(wire[c][s]) \in Nat /\ Len(frame[c][s]) \in Nat
  BY <1>1
<1>3. Out(c, s) \in Nat
  BY <1>1, <1>2 DEF Out
<1>4. Base(c, s) \in Nat /\ Base(c, s) >= Out(c, s)
  BY <1>2, <1>3 DEF Base
<1>5. Last(s, c) \in Int
  BY <1>1 DEF Last
<1> QED BY <1>1, <1>3, <1>4, <1>5

(* A step that leaves the channels, and what is to come into those that    *)
(* are in use, as they are.                                                *)
LEMMA QueueKept ==
  ASSUME QueueOK, UNCHANGED <<published, from>>, open' \subseteq open,
         \A c \in open' : send'[c] = send[c] /\ wire'[c] = wire[c] /\ frame'[c] = frame[c],
         \A c \in open' \cap (wsClients' \ closed') :
           c \in wsClients \ closed /\ \A s \in Sources : Ahead(s, c)' <=> Ahead(s, c)
  PROVE  QueueOK'
<1> SUFFICES ASSUME NEW c \in open', NEW s \in Sources
             PROVE  (/\ Follows(send[c], s, Base(c, s))
                     /\ UpTo(send[c], s, published[s])
                     /\ c \in wsClients \ closed => Holds(send[c], s, Base(c, s), Last(s, c)))'
  BY DEF QueueOK
<1>1. c \in open /\ send'[c] = send[c] /\ Base(c, s)' = Base(c, s) /\ published' = published
  BY DEF Base, Out
<1>2. c \in wsClients' \ closed' => c \in wsClients \ closed /\ Last(s, c)' = Last(s, c)
  BY DEF Last
<1>3. /\ Follows(send[c], s, Base(c, s))
      /\ UpTo(send[c], s, published[s])
      /\ c \in wsClients \ closed => Holds(send[c], s, Base(c, s), Last(s, c))
  BY <1>1 DEF QueueOK
<1> QED BY <1>1, <1>2, <1>3

(* An answer of readPump, or of sendInitialData, is of no source.          *)
LEMMA QueueOffer ==
  ASSUME TypeOK, QueueOK, NEW c \in Clients, Offer(c),
         UNCHANGED <<wsClients, source, published, closed, open, from, wire, frame>>
  PROVE  QueueOK'
<1> DEFINE m == Message(Reply, 0)
<1>1. CASE send' = send
  BY <1>1, QueueKept DEF Ahead
<1>2. CASE send' = [send EXCEPT ![c] = Append(@, m)]
  <2> SUFFICES ASSUME NEW d \in open, NEW s \in Sources
               PROVE  (/\ Follows(send[d], s, Base(d, s))
                       /\ UpTo(send[d], s, published[s])
                       /\ d \in wsClients \ closed => Holds(send[d], s, Base(d, s), Last(s, d)))'
    BY DEF QueueOK
  <2>1. Base(d, s)' = Base(d, s) /\ Last(s, d)' = Last(s, d)
    BY DEF Base, Out, Last, Ahead
  <2>2. d \in Clients
    BY DEF TypeOK
  <2>3. /\ Follows(send[d], s, Base(d, s))
        /\ UpTo(send[d], s, published[s])
        /\ d \in wsClients \ closed => Holds(send[d], s, Base(d, s), Last(s, d))
    BY DEF QueueOK
  <2>4. m \in Messages /\ m.source # s
    BY MessageFields, WsAssumption
  <2>5. CASE d = c
    <3>1. send'[d] = Append(send[d], m)
      BY <1>2, <2>2, <2>5 DEF TypeOK
    <3>2. /\ Follows(Append(send[d], m), s, Base(d, s))
          /\ UpTo(Append(send[d], m), s, published[s])
          /\ d \in wsClients \ closed => Holds(Append(send[d], m), s, Base(d, s), Last(s, d))
      <4> HIDE DEF m
      <4> QED BY <2>2, <2>3, <2>4, BaseType, PushOther
    <3> QED BY <2>1, <3>1, <3>2
  <2>6. CASE d # c
    <3>1. send'[d] = send[d]
      BY <1>2, <2>2, <2>6 DEF TypeOK
    <3> QED BY <2>1, <2>3, <3>1
  <2> QED BY <2>5, <2>6
<1> QED BY <1>1, <1>2 DEF Offer

(* A new client has an empty channel, and no broadcast is on its way.      *)
LEMMA QueueConnect ==
  ASSUME TypeOK, StageOK, QueueOK, NEW c \in Clients, Connect(c)
  PROVE  QueueOK'
<1>1. /\ reader[c] = "new" /\ open' = open \cup {c} /\ from' = [from EXCEPT ![c] = published]
      /\ wsClients' = wsClients \cup {c} /\ \A s \in Sources : source[s] = Idle
      /\ UNCHANGED <<source, published, send, closed, wire, frame>>
  BY DEF Connect, Lockable
<1> SUFFICES ASSUME NEW d \in open', NEW s \in Sources
             PROVE  (/\ Follows(send[d], s, Base(d, s))
                     /\ UpTo(send[d], s, published[s])
                     /\ d \in wsClients \ closed => Holds(send[d], s, Base(d, s), Last(s, d)))'
  BY DEF QueueOK
<1>2. d \in Clients
  BY <1>1 DEF TypeOK
<1>3. CASE d = c
  <2>1. send'[d] = <<>> /\ wire[d] = NoNumbers /\ frame[d] = NoNumbers
    BY <1>1, <1>3 DEF StageOK
  <2>2. Base(d, s)' = published[s] /\ published[s] \in Nat
    <3>1. /\ from'[d][s] = published[s] /\ wire'[d][s] = <<>> /\ frame'[d][s] = <<>>
          /\ published[s] \in Nat
      BY <1>1, <1>2, <1>3, <2>1 DEF TypeOK, NoNumbers
    <3>2. Len(wire'[d][s]) = 0 /\ Len(frame'[d][s]) = 0
      BY <3>1
    <3> QED BY <3>1, <3>2 DEF Base, Out
  <2>3. Last(s, d)' = published[s]
    BY <1>1, <1>2, AheadOf DEF Last, Ahead
  <2> QED BY <1>1, <2>1, <2>2, <2>3, EmptyQueue
<1>4. CASE d # c
  <2>1. d \in open /\ Base(d, s)' = Base(d, s) /\ Last(s, d)' = Last(s, d)
    BY <1>1, <1>2, <1>4 DEF Base, Out, Last, Ahead, TypeOK
  <2>2. /\ Follows(send[d], s, Base(d, s))
        /\ UpTo(send[d], s, published[s])
        /\ d \in wsClients \ closed => Holds(send[d], s, Base(d, s), Last(s, d))
    BY <2>1 DEF QueueOK
  <2> QED BY <1>1, <1>4, <2>1, <2>2
<1> QED BY <1>3, <1>4

(* A broadcast that begins has still to come to every client of the map.   *)
LEMMA QueueBroadcast ==
  ASSUME TypeOK, QueueOK, NEW s \in Sources, Broadcast(s)
  PROVE  QueueOK'
<1>1. /\ published' = [published EXCEPT ![s] = @ + 1]
      /\ UNCHANGED <<wsClients, send, closed, open, from, wire, frame>>
  BY DEF Broadcast
<1> SUFFICES ASSUME NEW d \in open, NEW t \in Sources
             PROVE  (/\ Follows(send[d], t, Base(d, t))
                     /\ UpTo(send[d], t, published[t])
                     /\ d \in wsClients \ closed => Holds(send[d], t, Base(d, t), Last(t, d)))'
  BY <1>1 DEF QueueOK
<1>2. d \in Clients
  BY DEF TypeOK
<1>3. Base(d, t)' = Base(d, t)
  BY <1>1 DEF Base, Out
<1>4. /\ Follows(send[d], t, Base(d, t))
      /\ UpTo(send[d], t, published[t])
      /\ d \in wsClients \ closed => Holds(send[d], t, Base(d, t), Last(t, d))
  BY DEF QueueOK
<1>5. d \in wsClients => Last(t, d)' = Last(t, d)
  <2>1. CASE t = s
    <3>1. published[s] \in Nat /\ published'[s] = published[s] + 1
      BY <1>1 DEF TypeOK
    <3>2. ~Ahead(s, d) /\ (Ahead(s, d)' <=> d \in wsClients)
      BY <1>2, BroadcastAhead
    <3> QED BY <2>1, <3>1, <3>2 DEF Last
  <2>2. CASE t # s
    BY <1>1, <1>2, <2>2, BroadcastAhead DEF Last, TypeOK
  <2> QED BY <2>1, <2>2
<1>6. UpTo(send[d], t, published'[t])
  <2>1. published[t] \in Nat /\ published'[t] \in Nat /\ published'[t] >= published[t]
    BY <1>1 DEF TypeOK
  <2>2. \A i \in 1..Len(send[d]) : send[d][i].number \in Nat
    BY <1>2, BaseType, MessageIs
  <2> QED BY <1>4, <2>1, <2>2 DEF UpTo
<1> QED BY <1>1, <1>3, <1>4, <1>5, <1>6
(* A turn of the loop: a client of the map is given the next broadcast of  *)
(* the source, or stays ahead of it.                                       *)
LEMMA QueueVisit ==
  ASSUME TypeOK, MapOK, QueueOK, NEW s \in Sources, NEW c \in Clients, Visit(s, c)
  PROVE  QueueOK'
<1>1. UNCHANGED <<wsClients, published, closed, open, from, wire, frame>>
  BY DEF Visit
<1>2. CASE send' = send
  <2>1. ASSUME NEW d \in open \cap (wsClients \ closed), NEW t \in Sources
        PROVE  Ahead(t, d)' <=> Ahead(t, d)
    <3>1. CASE d # c \/ t # s
      BY <3>1, VisitAhead DEF TypeOK
    <3>2. CASE d = c /\ t = s
      <4>1. Len(send[c]) = SendCap
        <5>1. Append(send[c], Message(s, published[s])) # send[c]
          <6>1. Message(s, published[s]) \in Messages /\ send[c] \in Seq(Messages)
            BY MessageFields DEF TypeOK
          <6> QED BY <6>1
        <5>2. send' # [send EXCEPT ![c] = Append(@, Message(s, published[s]))]
          BY <1>2, <5>1 DEF TypeOK
        <5> QED BY <2>1, <3>2, <5>2 DEF Visit
      <4> QED BY <2>1, <3>2, <4>1, VisitAhead
    <3> QED BY <3>1, <3>2
  <2> QED BY <1>1, <1>2, <2>1, QueueKept
<1>3. CASE send' # send
  <2>1. /\ c \notin closed
        /\ send' = [send EXCEPT ![c] = Append(@, Message(s, published[s]))]
    BY <1>3 DEF Visit
  <2>2. Ahead(s, c) /\ ~Ahead(s, c)'
    BY <1>3, VisitAhead
  <2>3. c \in wsClients
    BY <2>1, <2>2 DEF MapOK
  <2> SUFFICES ASSUME NEW d \in open, NEW t \in Sources
               PROVE  (/\ Follows(send[d], t, Base(d, t))
                       /\ UpTo(send[d], t, published[t])
                       /\ d \in wsClients \ closed => Holds(send[d], t, Base(d, t), Last(t, d)))'
    BY <1>1 DEF QueueOK
  <2>4. d \in Clients
    BY DEF TypeOK
  <2>5. /\ Follows(send[d], t, Base(d, t))
        /\ UpTo(send[d], t, published[t])
        /\ d \in wsClients \ closed => Holds(send[d], t, Base(d, t), Last(t, d))
    BY DEF QueueOK
  <2>6. Base(d, t)' = Base(d, t)
    BY <1>1 DEF Base, Out
  <2>7. CASE d # c
    <3>1. send'[d] = send[d]
      BY <2>1, <2>4, <2>7 DEF TypeOK
    <3>2. Last(t, d)' = Last(t, d)
      BY <1>1, <2>4, <2>7, VisitAhead DEF Last
    <3> QED BY <1>1, <2>5, <2>6, <3>1, <3>2
  <2>8. CASE d = c /\ t # s
    <3> DEFINE m == Message(s, published[s])
    <3>1. send'[d] = Append(send[d], m)
      BY <2>1, <2>4, <2>8 DEF TypeOK
    <3>2. m \in Messages /\ m.source # t
      BY <2>8, MessageFields DEF TypeOK
    <3>3. Last(t, d)' = Last(t, d)
      BY <1>1, <2>4, <2>8, VisitAhead DEF Last
    <3>4. /\ Follows(Append(send[d], m), t, Base(d, t))
          /\ UpTo(Append(send[d], m), t, published[t])
          /\ d \in wsClients \ closed => Holds(Append(send[d], m), t, Base(d, t), Last(t, d))
      <4> HIDE DEF m
      <4> QED BY <2>4, <2>5, <3>2, BaseType, PushOther
    <3> QED BY <1>1, <2>6, <3>1, <3>3, <3>4
  <2>9. CASE d = c /\ t = s
    <3> DEFINE n == published[s]
    <3>1. send'[c] = Append(send[c], Message(s, n))
      BY <2>1, <2>4, <2>9 DEF TypeOK
    <3>2. Last(s, c) = n - 1 /\ Last(s, c)' = n
      BY <1>1, <2>2 DEF Last
    <3>3. n \in Nat /\ Base(c, s) \in Nat /\ send[c] \in Seq(Messages)
      BY BaseType
    <3> HIDE DEF n
    <3>4. Follows(send[c], s, Base(c, s)) /\ Holds(send[c], s, Base(c, s), n - 1)
      BY <2>1, <2>3, <2>5, <2>9, <3>2
    <3>5. n > 0
      BY <3>3, <3>4 DEF Holds
    <3>6. /\ Follows(Append(send[c], Message(s, n)), s, Base(c, s))
          /\ Holds(Append(send[c], Message(s, n)), s, Base(c, s), n)
      BY <3>3, <3>4, <3>5, PushNext
    <3>7. UpTo(Append(send[c], Message(s, n)), s, n)
      BY <3>6 DEF Holds
    <3>8. published'[s] = n
      BY <1>1 DEF n
    <3> QED BY <2>6, <2>9, <3>1, <3>2, <3>6, <3>7, <3>8
  <2> QED BY <2>7, <2>8, <2>9
<1> QED BY <1>2, <1>3

(* What is taken is the next broadcast of its source.                      *)
LEMMA TakeBase ==
  ASSUME TypeOK, NEW c \in Clients, TakeNext(c), UNCHANGED <<from, wire>>, NEW s \in Sources
  PROVE  Base(c, s)' = IF Head(send[c]).source = s THEN Base(c, s) + 1 ELSE Base(c, s)
<1> DEFINE m == Head(send[c])
<1>1. m.number \in Nat
  BY TakeEffect, MessageIs
<1>2. frame'[c][s] = IF m.source = s THEN Append(frame[c][s], m.number) ELSE frame[c][s]
  BY TakeEffect
<1> HIDE DEF m
<1>3. frame[c][s] \in Seq(Nat) /\ Out(c, s)' = Out(c, s) /\ Out(c, s) \in Nat
  BY BaseType DEF Out, TypeOK
<1>4. Len(frame[c][s]) \in Nat /\ Len(Append(frame[c][s], m.number)) = Len(frame[c][s]) + 1
  BY <1>1, <1>3
<1>5. Base(c, s)' = IF m.source = s THEN Base(c, s) + 1 ELSE Base(c, s)
  BY <1>2, <1>3, <1>4 DEF Base
<1> QED BY <1>5 DEF m

(* Taking a message is the next broadcast of its source, and the rest of   *)
(* the channel follows on it.                                              *)
LEMMA QueueTake ==
  ASSUME TypeOK, QueueOK, NEW c \in Clients, Take(c) \/ Join(c)
  PROVE  QueueOK'
<1>1. TakeNext(c) /\ UNCHANGED <<wsClients, source, published, closed, open, from, wire>>
  BY DEF Take, Join
<1> SUFFICES ASSUME NEW d \in open, NEW s \in Sources
             PROVE  (/\ Follows(send[d], s, Base(d, s))
                     /\ UpTo(send[d], s, published[s])
                     /\ d \in wsClients \ closed => Holds(send[d], s, Base(d, s), Last(s, d)))'
  BY <1>1 DEF QueueOK
<1>2. d \in Clients /\ Last(s, d)' = Last(s, d)
  BY <1>1 DEF TypeOK, Last, Ahead
<1>3. /\ Follows(send[d], s, Base(d, s))
      /\ UpTo(send[d], s, published[s])
      /\ d \in wsClients \ closed => Holds(send[d], s, Base(d, s), Last(s, d))
  BY DEF QueueOK
<1>4. CASE d = c
  <2> DEFINE next == IF Head(send[c]).source = s THEN Base(c, s) + 1 ELSE Base(c, s)
  <2>1. send[c] \in Seq(Messages) /\ send[c] # <<>> /\ send'[c] = Tail(send[c])
    BY <1>1, TakeEffect
  <2>2. Base(c, s) \in Nat /\ next \in Nat /\ published[s] \in Int /\ Last(s, c) \in Int
    BY BaseType
  <2>3. next = IF Head(send[c]).source = s THEN Base(c, s) + 1 ELSE Base(c, s)
    OBVIOUS
  <2>4. Base(c, s)' = next
    BY <1>1, TakeBase
  <2> HIDE DEF next
  <2>5. /\ Follows(Tail(send[c]), s, next)
        /\ UpTo(Tail(send[c]), s, published[s])
        /\ c \in wsClients \ closed => Holds(Tail(send[c]), s, next, Last(s, c))
    BY <1>3, <1>4, <2>1, <2>2, <2>3, Pop
  <2> QED BY <1>1, <1>2, <1>4, <2>1, <2>4, <2>5
<1>5. CASE d # c
  <2>1. send'[d] = send[d] /\ Base(d, s)' = Base(d, s)
    BY <1>1, <1>2, <1>5, TakeEffect DEF Base, Out
  <2> QED BY <1>1, <1>2, <1>3, <2>1
<1> QED BY <1>4, <1>5

(* Numbers moved from one sequence to another are as many as before.       *)
LEMMA MovedLength ==
  ASSUME NEW n \in Nat, NEW p \in Seq(Nat), NEW q \in Seq(Nat)
  PROVE  (n + Len(p \o q)) + Len(<<>>) = (n + Len(p)) + Len(q)
<1>1. Len(p \o q) = Len(p) + Len(q) /\ Len(p) \in Nat /\ Len(q) \in Nat
  OBVIOUS
<1> QED BY <1>1

(* A frame that goes out changes nothing about what is taken.              *)
LEMMA FlushBase ==
  ASSUME TypeOK, NEW c \in Clients, Flush(c), NEW d \in open, NEW s \in Sources
  PROVE  Base(d, s)' = Base(d, s)
<1>0. d \in Clients
  BY DEF TypeOK
<1>1. CASE d # c
  <2>1. from' = from /\ wire'[d] = wire[d] /\ frame'[d] = frame[d]
    BY <1>0, <1>1, FlushEffect DEF Flush
  <2> QED BY <2>1 DEF Base, Out
<1>2. CASE d = c
  <2>1. /\ from' = from /\ frame'[d][s] = <<>> /\ wire'[d][s] = wire[d][s] \o frame[d][s]
    BY <1>2, FlushEffect DEF Flush, NoNumbers
  <2>2. wire[d][s] \in Seq(Nat) /\ frame[d][s] \in Seq(Nat) /\ from[d][s] \in Nat
    BY <1>0 DEF TypeOK
  <2>3. Base(d, s)' = (from[d][s] + Len(wire[d][s] \o frame[d][s])) + Len(<<>>)
    BY <2>1 DEF Base, Out
  <2> QED BY <2>2, <2>3, MovedLength DEF Base, Out
<1> QED BY <1>1, <1>2

(* Every step keeps channels without gaps. *)
LEMMA StepQueue == HubInv /\ [Next]_vars => QueueOK'
<1> SUFFICES ASSUME HubInv, [Next]_vars PROVE QueueOK'
  OBVIOUS
<1>0. TypeOK /\ StageOK /\ MapOK /\ QueueOK /\ open \subseteq Clients
  BY DEF HubInv, TypeOK
<1>1. ASSUME NEW c \in Clients, Connect(c) PROVE QueueOK'
  BY <1>0, <1>1, QueueConnect
<1>2. ASSUME NEW c \in Clients, Greet(c) \/ Answer(c) PROVE QueueOK'
  <2>1. /\ UNCHANGED <<wsClients, source, published, closed, open, from, wire, frame>>
        /\ send' = send \/ Offer(c)
    BY <1>2 DEF Greet, Answer
  <2>2. CASE send' = send
    BY <1>0, <2>1, <2>2, QueueKept DEF Ahead
  <2> QED BY <1>0, <2>1, <2>2, QueueOffer
<1>3. ASSUME NEW c \in Clients, Receive(c) \/ Disconnect(c) \/ StopReading(c) \/ Misread(c) \/ Leave(c)
      PROVE  QueueOK'
  <2>1. /\ UNCHANGED <<source, published, send, closed, from, wire, frame>>
        /\ wsClients' \subseteq wsClients /\ open' \subseteq open
    BY <1>3 DEF Receive, Disconnect, StopReading, Misread, Leave
  <2> QED BY <1>0, <2>1, QueueKept DEF Ahead
<1>4. ASSUME NEW s \in Sources, Broadcast(s) PROVE QueueOK'
  BY <1>0, <1>4, QueueBroadcast
<1>5. ASSUME NEW s \in Sources, NEW c \in Clients, Visit(s, c) PROVE QueueOK'
  BY <1>0, <1>5, QueueVisit
<1>6. ASSUME NEW s \in Sources, CloseSlow(s) PROVE QueueOK'
  <2>1. UNCHANGED <<wsClients, published, send, open, from, wire, frame>>
    BY <1>6 DEF CloseSlow
  <2>2. CASE source[s].slow \in closed
    BY <1>0, <1>6, <2>1, <2>2, QueueKept DEF CloseSlow, Ahead
  <2>3. CASE source[s].slow \notin closed
    <3>1. closed' = closed \cup {source[s].slow}
      BY <1>6, <2>3 DEF CloseSlow
    <3>2. ASSUME NEW d \in open \cap (wsClients \ closed'), NEW t \in Sources
          PROVE  Ahead(t, d)' <=> Ahead(t, d)
      BY <1>0, <1>6, <2>3, <3>1, CloseAhead DEF TypeOK
    <3> QED BY <1>0, <2>1, <3>1, <3>2, QueueKept
  <2> QED BY <2>2, <2>3
<1>7. ASSUME NEW s \in Sources, DeleteSlow(s) \/ EndBroadcast(s) PROVE QueueOK'
  <2>1. UNCHANGED <<published, send, closed, open, from, wire, frame>> /\ wsClients' \subseteq wsClients
    BY <1>7 DEF DeleteSlow, EndBroadcast
  <2>2. \A d \in Clients, t \in Sources : Ahead(t, d)' <=> Ahead(t, d)
    BY <1>0, <1>7, DeleteAhead, EndAhead
  <2> QED BY <1>0, <2>1, <2>2, QueueKept
<1>8. ASSUME NEW c \in Clients, Take(c) \/ Join(c) PROVE QueueOK'
  BY <1>0, <1>8, QueueTake
<1>9. ASSUME NEW c \in Clients, Count(c) \/ StopWriting(c) PROVE QueueOK'
  <2>1. /\ UNCHANGED <<wsClients, source, published, send, closed, from, wire>> /\ open' \subseteq open
        /\ \A d \in open' : frame'[d] = frame[d]
    BY <1>0, <1>9 DEF Count, StopWriting, TypeOK
  <2> QED BY <1>0, <2>1, QueueKept DEF Ahead
<1>10. ASSUME NEW c \in Clients, Flush(c) PROVE QueueOK'
  <2>1. UNCHANGED <<wsClients, source, published, send, closed, open>>
    BY <1>10 DEF Flush
  <2>2. \A d \in open, s \in Sources : Base(d, s)' = Base(d, s) /\ Last(s, d)' = Last(s, d)
    BY <1>0, <1>10, <2>1, FlushBase DEF Last, Ahead
  <2> QED BY <1>0, <2>1, <2>2 DEF QueueOK
<1>11. CASE UNCHANGED vars
  BY <1>0, <1>11, QueueKept DEF vars, Ahead
<1> QED
  BY <1>1, <1>2, <1>3, <1>4, <1>5, <1>6, <1>7, <1>8, <1>9, <1>10, <1>11
  DEF Next, SourceStep, ReaderStep, WriterStep
-----------------------------------------------------------------------------
(* A step that leaves the frames of open connections and what has gone out *)
(* on them as they are.                                                    *)
LEMMA FrameKept ==
  ASSUME TypeOK, FrameOK, UNCHANGED from, open' \subseteq open,
         \A c \in Clients : \/ frame'[c] = frame[c] /\ size'[c] = size[c]
                           \/ frame'[c] = NoNumbers,
         \A c \in open' : frame'[c] = frame[c] /\ wire'[c] = wire[c],
         \A s \in Sources : published'[s] \in Nat /\ published'[s] >= published[s]
  PROVE  FrameOK'
<1>1. ASSUME NEW c \in Clients
      PROVE  (/\ size[c] = 0 => frame[c] = NoNumbers
              /\ size[c] = 1 => \/ frame[c] = NoNumbers
                               \/ \E s \in Sources, n \in Nat : frame[c] = [NoNumbers EXCEPT ![s] = <<n>>])'
  BY DEF FrameOK
<1>2. ASSUME NEW c \in open', NEW s \in Sources
      PROVE  (/\ \A i \in 1..Len(frame[c][s]) : frame[c][s][i] = Out(c, s) + i
              /\ Base(c, s) <= published[s])'
  <2>1. c \in open /\ c \in Clients /\ Out(c, s)' = Out(c, s) /\ Base(c, s)' = Base(c, s)
    BY DEF Out, Base, TypeOK
  <2>2. Base(c, s) \in Nat /\ published[s] \in Nat
    BY <2>1, BaseType
  <2>3. /\ \A i \in 1..Len(frame[c][s]) : frame[c][s][i] = Out(c, s) + i
        /\ Base(c, s) <= published[s]
    BY <2>1 DEF FrameOK
  <2> QED BY <2>1, <2>2, <2>3
<1> QED BY <1>1, <1>2 DEF FrameOK

(* A new client has an empty frame and nothing has gone out.               *)
LEMMA FrameConnect ==
  ASSUME TypeOK, StageOK, FrameOK, NEW c \in Clients, Connect(c)
  PROVE  FrameOK'
<1>1. /\ reader[c] = "new" /\ open' = open \cup {c} /\ from' = [from EXCEPT ![c] = published]
      /\ UNCHANGED <<published, frame, size, wire>>
  BY DEF Connect
<1>2. frame[c] = NoNumbers /\ wire[c] = NoNumbers
  BY <1>1 DEF StageOK
<1>3. ASSUME NEW d \in open', NEW s \in Sources
      PROVE  (/\ \A i \in 1..Len(frame[d][s]) : frame[d][s][i] = Out(d, s) + i
              /\ Base(d, s) <= published[s])'
  <2>0. d \in Clients
    BY <1>1 DEF TypeOK
  <2>1. CASE d = c
    <3>1. frame'[d][s] = <<>> /\ wire'[d][s] = <<>> /\ from'[d][s] = published[s] /\ published[s] \in Nat
      BY <1>1, <1>2, <2>0, <2>1 DEF NoNumbers, TypeOK
    <3>2. Len(frame'[d][s]) = 0 /\ Len(wire'[d][s]) = 0
      BY <3>1
    <3> QED BY <1>1, <3>1, <3>2 DEF Out, Base
  <2>2. CASE d # c
    <3>1. d \in open /\ from'[d] = from[d]
      BY <1>1, <2>0, <2>2 DEF TypeOK
    <3>2. Out(d, s)' = Out(d, s) /\ Base(d, s)' = Base(d, s)
      BY <1>1, <3>1 DEF Out, Base
    <3> QED BY <1>1, <3>1, <3>2 DEF FrameOK
  <2> QED BY <2>1, <2>2
<1> QED BY <1>1, <1>3 DEF FrameOK

(* The message taken into a frame is the next after those in it.           *)
LEMMA FrameTake ==
  ASSUME TypeOK, QueueOK, FrameOK, NEW c \in Clients, Take(c) \/ Join(c)
  PROVE  FrameOK'
<1>1. TakeNext(c) /\ UNCHANGED <<published, open, from, wire>>
  BY DEF Take, Join
<1> DEFINE m == Head(send[c])
<1>2. /\ send[c] \in Seq(Messages) /\ send[c] # <<>> /\ m \in Messages
      /\ frame'[c] = PutInto(frame[c], m)
      /\ \A s \in Sources : frame'[c][s] = IF m.source = s THEN Append(frame[c][s], m.number) ELSE frame[c][s]
      /\ size'[c] = size[c] + 1
      /\ \A d \in Clients \ {c} : frame'[d] = frame[d] /\ size'[d] = size[d]
  BY <1>1, TakeEffect
<1>3. m = send[c][1] /\ 1 \in 1..Len(send[c]) /\ m.source \in Sources \cup {Reply} /\ m.number \in Nat
  BY <1>2, MessageIs
<1> HIDE DEF m
<1>4. size[c] \in Nat
  BY DEF TypeOK
<1>5. ASSUME NEW d \in Clients
      PROVE  (/\ size[d] = 0 => frame[d] = NoNumbers
              /\ size[d] = 1 => \/ frame[d] = NoNumbers
                               \/ \E s \in Sources, n \in Nat : frame[d] = [NoNumbers EXCEPT ![s] = <<n>>])'
  <2>1. CASE d # c
    BY <1>2, <2>1 DEF FrameOK
  <2>2. CASE d = c /\ size[c] # 0
    BY <1>2, <1>4, <2>2
  <2>3. CASE d = c /\ size[c] = 0
    <3>1. frame[c] = NoNumbers
      BY <2>3 DEF FrameOK
    <3>2. CASE m.source = Reply
      BY <1>2, <2>3, <3>1, <3>2 DEF PutInto
    <3>3. CASE m.source # Reply
      <4>1. frame'[c] = [NoNumbers EXCEPT ![m.source] = <<m.number>>]
        <5>1. frame'[c] = [NoNumbers EXCEPT ![m.source] = Append(@, m.number)]
          BY <1>2, <3>1, <3>3 DEF PutInto
        <5>2. NoNumbers[m.source] = <<>> /\ Append(<<>>, m.number) = <<m.number>>
          BY <1>3, <3>3 DEF NoNumbers
        <5> QED BY <5>1, <5>2
      <4>2. m.source \in Sources
        BY <1>3, <3>3
      <4>3. \E s \in Sources, n \in Nat : frame'[c] = [NoNumbers EXCEPT ![s] = <<n>>]
        BY <1>3, <4>1, <4>2
      <4>4. size'[c] # 0
        BY <1>2, <2>3
      <4> QED BY <2>3, <4>3, <4>4
    <3> QED BY <3>2, <3>3
  <2> QED BY <2>1, <2>2, <2>3
<1>6. ASSUME NEW d \in open, NEW s \in Sources
      PROVE  (/\ \A i \in 1..Len(frame[d][s]) : frame[d][s][i] = Out(d, s) + i
              /\ Base(d, s) <= published[s])'
  <2>0. d \in Clients
    BY DEF TypeOK
  <2>1. /\ \A i \in 1..Len(frame[d][s]) : frame[d][s][i] = Out(d, s) + i
        /\ Base(d, s) <= published[s] /\ Out(d, s)' = Out(d, s)
    BY <1>1 DEF FrameOK, Out
  <2>2. CASE d # c \/ m.source # s
    <3>1. frame'[d][s] = frame[d][s]
      BY <1>2, <2>0, <2>2
    <3>2. Base(d, s)' = Base(d, s)
      BY <2>1, <3>1 DEF Base
    <3> QED BY <1>1, <2>1, <3>1, <3>2
  <2>3. CASE d = c /\ m.source = s
    <3>1. frame'[c][s] = Append(frame[c][s], m.number) /\ frame[c][s] \in Seq(Nat)
      BY <1>2, <2>3 DEF TypeOK
    <3>2. Follows(send[c], s, Base(c, s)) /\ UpTo(send[c], s, published[s])
      BY <2>3 DEF QueueOK
    <3>3. Base(c, s) \in Nat /\ Out(c, s) \in Nat /\ published[s] \in Nat
      BY BaseType
    <3>4. m.number = Base(c, s) + 1 /\ m.number <= published[s]
      <4>1. m.number = Base(c, s) + 1
        <5>1. \A j \in 1..(1 - 1) : FALSE
          OBVIOUS
        <5> QED BY <1>3, <2>3, <3>2, <3>3, <5>1 DEF Follows
      <4> QED BY <4>1, <1>3, <2>3, <3>2 DEF UpTo
    <3>5. /\ Len(frame'[c][s]) = Len(frame[c][s]) + 1 /\ Len(frame[c][s]) \in Nat
          /\ \A i \in 1..Len(frame[c][s]) : frame'[c][s][i] = frame[c][s][i]
          /\ frame'[c][s][Len(frame[c][s]) + 1] = m.number
      BY <3>1, <1>3
    <3>6. Base(c, s)' = Base(c, s) + 1 /\ Base(c, s) = Out(c, s) + Len(frame[c][s])
      BY <2>1, <2>3, <3>3, <3>5 DEF Base
    <3>7. ASSUME NEW i \in 1..Len(frame'[c][s]) PROVE frame'[c][s][i] = Out(c, s) + i
      <4>1. CASE i \in 1..Len(frame[c][s])
        BY <2>1, <2>3, <3>5, <4>1
      <4>2. CASE i = Len(frame[c][s]) + 1
        BY <3>3, <3>4, <3>5, <3>6, <4>2
      <4> QED BY <3>5, <4>1, <4>2
    <3> QED BY <1>1, <2>1, <2>3, <3>3, <3>4, <3>6, <3>7
  <2> QED BY <2>2, <2>3
<1> QED BY <1>1, <1>5, <1>6 DEF FrameOK

(* A frame that has gone out is empty.                                     *)
LEMMA FrameFlush ==
  ASSUME TypeOK, FrameOK, NEW c \in Clients, Flush(c)
  PROVE  FrameOK'
<1>1. UNCHANGED <<published, open, from>>
  BY DEF Flush
<1>2. /\ frame'[c] = NoNumbers /\ size'[c] = 0
      /\ \A d \in Clients \ {c} : wire'[d] = wire[d] /\ frame'[d] = frame[d] /\ size'[d] = size[d]
  BY FlushEffect
<1>3. ASSUME NEW d \in open, NEW s \in Sources
      PROVE  (/\ \A i \in 1..Len(frame[d][s]) : frame[d][s][i] = Out(d, s) + i
              /\ Base(d, s) <= published[s])'
  <2>0. d \in Clients
    BY DEF TypeOK
  <2>1. Base(d, s)' = Base(d, s) /\ Base(d, s) <= published[s]
    BY FlushBase DEF FrameOK
  <2>2. \A i \in 1..Len(frame'[d][s]) : frame'[d][s][i] = Out(d, s)' + i
    <3>1. CASE d = c
      <4>1. frame'[d][s] = <<>>
        BY <1>2, <3>1 DEF NoNumbers
      <4> QED BY <4>1
    <3>2. CASE d # c
      <4>1. frame'[d] = frame[d] /\ Out(d, s)' = Out(d, s)
        BY <1>1, <1>2, <2>0, <3>2 DEF Out
      <4> QED BY <4>1 DEF FrameOK
    <3> QED BY <3>1, <3>2
  <2> QED BY <1>1, <2>1, <2>2
<1>4. ASSUME NEW d \in Clients
      PROVE  (/\ size[d] = 0 => frame[d] = NoNumbers
              /\ size[d] = 1 => \/ frame[d] = NoNumbers
                               \/ \E s \in Sources, n \in Nat : frame[d] = [NoNumbers EXCEPT ![s] = <<n>>])'
  BY <1>2 DEF FrameOK
<1> QED BY <1>1, <1>3, <1>4 DEF FrameOK

(* Every step keeps the frames going on from what has gone out.            *)
LEMMA StepFrame == HubInv /\ [Next]_vars => FrameOK'
<1> SUFFICES ASSUME HubInv, [Next]_vars PROVE FrameOK'
  OBVIOUS
<1>0. TypeOK /\ StageOK /\ QueueOK /\ FrameOK /\ \A s \in Sources : published[s] \in Nat
  BY DEF HubInv, TypeOK
<1>1. ASSUME NEW c \in Clients, Connect(c) PROVE FrameOK'
  BY <1>0, <1>1, FrameConnect
<1>2. ASSUME NEW c \in Clients,
             \/ Receive(c) \/ Disconnect(c) \/ Misread(c) \/ Greet(c) \/ ReaderStep(c) \/ Count(c)
      PROVE  FrameOK'
  <2>1. UNCHANGED <<published, from, wire, frame, size>> /\ open' \subseteq open
    BY <1>2 DEF Receive, Disconnect, Misread, Greet, ReaderStep, Answer, StopReading, Leave, Count
  <2> QED BY <1>0, <2>1, FrameKept
<1>3. ASSUME NEW s \in Sources, Broadcast(s) PROVE FrameOK'
  <2>1. UNCHANGED <<from, wire, frame, size, open>> /\ published' = [published EXCEPT ![s] = @ + 1]
    BY <1>3 DEF Broadcast
  <2>2. \A t \in Sources : published'[t] \in Nat /\ published'[t] >= published[t]
    BY <1>0, <2>1 DEF TypeOK
  <2> QED BY <1>0, <2>1, <2>2, FrameKept
<1>4. ASSUME NEW s \in Sources, SourceStep(s) PROVE FrameOK'
  <2>1. UNCHANGED <<published, from, wire, frame, size, open>>
    BY <1>4 DEF SourceStep, Visit, CloseSlow, DeleteSlow, EndBroadcast
  <2> QED BY <1>0, <2>1, FrameKept
<1>5. ASSUME NEW c \in Clients, Take(c) \/ Join(c) PROVE FrameOK'
  BY <1>0, <1>5, FrameTake
<1>6. ASSUME NEW c \in Clients, Flush(c) PROVE FrameOK'
  BY <1>0, <1>6, FrameFlush
<1>7. ASSUME NEW c \in Clients, StopWriting(c) PROVE FrameOK'
  <2>1. /\ UNCHANGED <<published, from, wire>> /\ open' = open \ {c}
        /\ frame'[c] = NoNumbers
        /\ \A d \in Clients \ {c} : frame'[d] = frame[d] /\ size'[d] = size[d]
    BY <1>0, <1>7 DEF StopWriting, TypeOK
  <2> QED BY <1>0, <2>1, FrameKept DEF TypeOK
<1>8. CASE UNCHANGED vars
  BY <1>0, <1>8, FrameKept DEF vars
<1> QED BY <1>1, <1>2, <1>3, <1>4, <1>5, <1>6, <1>7, <1>8 DEF Next, ReaderStep, WriterStep

-----------------------------------------------------------------------------
(* Every step keeps the invariant. *)
LEMMA StepInv == HubInv /\ [Next]_vars => HubInv'
  BY StepType, StepStage, StepMap, StepQueue, StepFrame DEF HubInv

(* The hub keeps its invariant in every behaviour. *)
LEMMA Invariance == Spec => []HubInv
  BY InitInv, StepInv, PTL DEF Spec

(* In every state each variable has its type and no channel holds more     *)
(* than its capacity.                                                      *)
THEOREM TypeCorrect == Spec => []TypeOK
  BY Invariance, PTL DEF HubInv

(* A connection that has ended leaves no entry in the map, and a channel   *)
(* that was closed only until the broadcast that closed it deletes it:     *)
(* nothing is ever put under an entry nobody reads.                        *)
THEOREM NoEntryStale == Spec => []NoStaleEntry
<1>1. HubInv => NoStaleEntry
  BY DEF HubInv, MapOK, Served, NoStaleEntry
<1> QED BY <1>1, Invariance, PTL
-----------------------------------------------------------------------------
(* What the steps are for the pages.                                       *)
LEMMA InitPages == Init => Pages!Init
  BY DEF Init, Pages!Init, Pages!None, NoNumbers

(* A connection that is made has been sent nothing.                        *)
LEMMA JoinStep ==
  ASSUME HubInv, NEW c \in Clients, Connect(c)
  PROVE  Pages!Join(c)
<1>1. /\ reader[c] = "new" /\ open' = open \cup {c} /\ from' = [from EXCEPT ![c] = published]
      /\ UNCHANGED <<published, wire, got>>
  BY DEF Connect
<1>2. wire[c] = Pages!None /\ got[c] = Pages!None /\ c \notin open
  BY <1>1 DEF HubInv, StageOK, NoNumbers, Pages!None
<1> QED BY <1>1, <1>2 DEF Pages!Join

(* A broadcast that begins is one publication of the fanout. *)
LEMMA PublishStep ==
  ASSUME NEW s \in Sources, Broadcast(s)
  PROVE  Pages!Publish(s)
  BY DEF Broadcast, Pages!Publish

(* Whoever ends the connection, the page is cut off or was already.        *)
LEMMA LeaveStep ==
  ASSUME NEW c \in Clients, Disconnect(c) \/ Leave(c) \/ StopWriting(c)
  PROVE  Pages!Leave(c) \/ UNCHANGED Pages!joinedVars
<1>1. open' = open \ {c} /\ UNCHANGED <<published, from, wire, got>>
  BY DEF Disconnect, Leave, StopWriting
<1>2. c \notin open => open' = open
  BY <1>1
<1> QED BY <1>1, <1>2 DEF Pages!Leave, Pages!joinedVars

(* A frame of one message is the next update of its source, or an answer   *)
(* of readPump, which is no update; one of several has the next updates of *)
(* each source: FrameOK.                                                   *)
LEMMA DeliverStep ==
  ASSUME HubInv, NEW c \in Clients, Flush(c)
  PROVE  \/ \E s \in Sources : Pages!Deliver(c, s)
         \/ Pages!DeliverJoined(c)
         \/ UNCHANGED Pages!joinedVars
<1>0. TypeOK /\ FrameOK
  BY DEF HubInv
<1>1. UNCHANGED <<published, open, from>>
  BY DEF Flush
<1> DEFINE out == [s \in Sources |-> wire[c][s] \o frame[c][s]]
<1>2. CASE c \notin open
  BY <1>1, <1>2 DEF Flush, Pages!joinedVars
<1>3. CASE c \in open /\ size[c] # 1
  <2>1. wire' = [wire EXCEPT ![c] = out] /\ got' = got
    BY <1>3 DEF Flush
  <2> DEFINE last == [s \in Sources |-> Base(c, s)]
  <2>2. last \in [Sources -> UNION {0..published[s] : s \in Sources}]
    <3> SUFFICES ASSUME NEW s \in Sources PROVE Base(c, s) \in 0..published[s]
      OBVIOUS
    <3>1. Base(c, s) \in Nat /\ published[s] \in Nat /\ Base(c, s) <= published[s]
      BY <1>0, <1>3, BaseType DEF FrameOK
    <3> QED BY <3>1
  <2>3. ASSUME NEW s \in Sources
        PROVE  /\ Pages!SentUpTo(c, s) <= last[s] /\ last[s] <= published[s]
               /\ [i \in 1..(last[s] - Pages!SentUpTo(c, s)) |-> Pages!SentUpTo(c, s) + i] = frame[c][s]
    <3>1. Pages!SentUpTo(c, s) = Out(c, s) /\ last[s] = Base(c, s)
      BY DEF Pages!SentUpTo, Out
    <3>2. /\ Out(c, s) \in Nat /\ Base(c, s) \in Nat /\ published[s] \in Nat
          /\ Base(c, s) <= published[s] /\ Base(c, s) >= Out(c, s)
      BY <1>0, <1>3, BaseType DEF FrameOK
    <3>3. frame[c][s] \in Seq(Nat) /\ \A i \in 1..Len(frame[c][s]) : frame[c][s][i] = Out(c, s) + i
      BY <1>0, <1>3 DEF TypeOK, FrameOK
    <3>4. Base(c, s) - Out(c, s) = Len(frame[c][s]) /\ Len(frame[c][s]) \in Nat
      BY <3>2, <3>3 DEF Base
    <3>5. [i \in 1..Len(frame[c][s]) |-> Out(c, s) + i] = frame[c][s]
      BY <3>3
    <3> QED BY <3>1, <3>2, <3>4, <3>5
  <2> HIDE DEF last
  <2>4. out = [s \in Sources |-> wire[c][s] \o
                 [i \in 1..(last[s] - Pages!SentUpTo(c, s)) |-> Pages!SentUpTo(c, s) + i]]
    BY <2>3
  <2>5. wire' = [wire EXCEPT ![c] = [s \in Sources |-> @[s] \o
                 [i \in 1..(last[s] - Pages!SentUpTo(c, s)) |-> Pages!SentUpTo(c, s) + i]]]
    <3> HIDE DEF out
    <3> QED BY <2>1, <2>4
  <2> QED BY <1>1, <1>3, <2>1, <2>2, <2>3, <2>5 DEF Pages!DeliverJoined
<1>4. CASE c \in open /\ size[c] = 1
  <2> DEFINE read == [s \in Sources |-> got[c][s] \o frame[c][s]]
  <2>1. wire' = [wire EXCEPT ![c] = out] /\ got' = [got EXCEPT ![c] = read]
    BY <1>4 DEF Flush
  <2>0. /\ wire[c] \in [Sources -> Seq(Nat)] /\ got[c] \in [Sources -> Seq(Nat)]
        /\ wire \in [Clients -> [Sources -> Seq(Nat)]] /\ got \in [Clients -> [Sources -> Seq(Nat)]]
    BY <1>0 DEF TypeOK
  <2>2. CASE frame[c] = NoNumbers
    <3>1. out = wire[c] /\ read = got[c]
      BY <2>0, <2>2 DEF NoNumbers
    <3> HIDE DEF out, read
    <3> QED BY <1>1, <2>0, <2>1, <3>1 DEF Pages!joinedVars
  <2>3. ASSUME NEW s \in Sources, NEW n \in Nat, frame[c] = [NoNumbers EXCEPT ![s] = <<n>>]
        PROVE  Pages!Deliver(c, s)
    <3>1. /\ frame[c][s] = <<n>> /\ \A t \in Sources \ {s} : frame[c][t] = <<>>
      BY <2>3 DEF NoNumbers
    <3>2. Len(frame[c][s]) = 1 /\ frame[c][s][1] = n
      BY <3>1
    <3>3. n = Out(c, s) + 1 /\ n <= published[s]
      <4>1. frame[c][s][1] = Out(c, s) + 1
        BY <1>0, <1>4, <3>2 DEF FrameOK
      <4>2. Base(c, s) = Out(c, s) + 1 /\ Base(c, s) <= published[s]
        BY <1>0, <1>4, <3>2 DEF FrameOK, Base
      <4> QED BY <3>2, <4>1, <4>2
    <3>4. out = [wire[c] EXCEPT ![s] = Append(@, n)] /\ read = [got[c] EXCEPT ![s] = Append(@, n)]
      <4>1. /\ wire[c][s] \o <<n>> = Append(wire[c][s], n) /\ got[c][s] \o <<n>> = Append(got[c][s], n)
            /\ \A t \in Sources : wire[c][t] \o <<>> = wire[c][t] /\ got[c][t] \o <<>> = got[c][t]
        BY <2>0
      <4> QED BY <2>0, <3>1, <4>1
    <3> HIDE DEF out, read
    <3>5. wire' = [wire EXCEPT ![c][s] = Append(@, n)] /\ got' = [got EXCEPT ![c][s] = Append(@, n)]
      BY <2>0, <2>1, <3>4
    <3>6. n = Pages!SentUpTo(c, s) + 1
      BY <3>3 DEF Pages!SentUpTo, Out
    <3> QED BY <1>1, <1>4, <3>3, <3>5, <3>6 DEF Pages!Deliver
  <2> QED BY <1>0, <1>4, <2>2, <2>3 DEF FrameOK
<1> QED BY <1>2, <1>3, <1>4

(* Every step of the hub is one of the fanout, or none. *)
LEMMA PagesStep == HubInv /\ [Next]_vars => [Pages!Next]_(Pages!joinedVars)
<1> SUFFICES ASSUME HubInv, [Next]_vars PROVE Pages!Next \/ UNCHANGED Pages!joinedVars
  OBVIOUS
<1>1. ASSUME NEW c \in Clients, Connect(c) PROVE Pages!Next
  BY <1>1, JoinStep DEF Pages!Next
<1>2. ASSUME NEW s \in Sources, Broadcast(s) PROVE Pages!Next
  BY <1>2, PublishStep DEF Pages!Next
<1>3. ASSUME NEW c \in Clients, Disconnect(c) \/ Leave(c) \/ StopWriting(c)
      PROVE  Pages!Next \/ UNCHANGED Pages!joinedVars
  BY <1>3, LeaveStep DEF Pages!Next
<1>4. ASSUME NEW c \in Clients, Flush(c) PROVE Pages!Next \/ UNCHANGED Pages!joinedVars
  BY <1>4, DeliverStep DEF Pages!Next
<1>5. ASSUME NEW c \in Clients,
             \/ Greet(c) \/ Receive(c) \/ Answer(c) \/ StopReading(c) \/ Misread(c)
             \/ Take(c) \/ Count(c) \/ Join(c)
      PROVE  UNCHANGED Pages!joinedVars
  BY <1>5 DEF Greet, Receive, Answer, StopReading, Misread, Take, Count, Join, Pages!joinedVars
<1>6. ASSUME NEW s \in Sources, SourceStep(s) PROVE UNCHANGED Pages!joinedVars
  BY <1>6 DEF SourceStep, Visit, CloseSlow, DeleteSlow, EndBroadcast, Pages!joinedVars
<1>7. CASE UNCHANGED vars
  BY <1>7 DEF vars, Pages!joinedVars
<1> QED BY <1>1, <1>2, <1>3, <1>4, <1>5, <1>6, <1>7 DEF Next, ReaderStep, WriterStep

(* On the connection of every page the updates of every source go out in   *)
(* order and without a gap from its joining on until it is cut off, and    *)
(* what comes in a frame of its own the page gets as it went out: without  *)
(* a hub, with clients that are too slow and with a pump that joins what   *)
(* is waiting, the server implements JoinedFanout.                         *)
THEOREM Implements == Spec => ImplementsJoinedFanout
<1>1. Spec => Pages!Spec
  BY InitPages, Invariance, PagesStep, PTL DEF Spec, Pages!Spec
<1> QED BY <1>1 DEF ImplementsJoinedFanout
=============================================================================
