-------------------------- MODULE ArduinoClient_proofs --------------------------
(***************************************************************************)
(* Proofs about the Arduino client for any number of slots, requests,      *)
(* reconnections and messages: a sid names one subscription for ever, so a *)
(* message finds the handler of its own subject, and a pending request     *)
(* holds exactly one slot, which it gives back.  The server ends up with   *)
(* the slots, because of the commands on their way the last that names an  *)
(* entry decides about it.                                                 *)
(***************************************************************************)
EXTENDS ArduinoClient, TLAPS

(* Every entry that is in a slot, on its way or at the server.             *)
OnTheWay == UNION {toServer[k].entries : k \in DOMAIN toServer}
Coming == {fromServer[k] : k \in DOMAIN fromServer}
Known == Held \cup server \cup OnTheWay \cup Coming

(* A sid is given out once, so two entries with one sid are the same.      *)
KnownOK == \A e \in Known :
  /\ e.sid # 0 /\ e.sid < nextSid
  /\ \A f \in Known : e.sid = f.sid => e = f

(* No two slots share a sid, and an inbox is named by the sid it got.      *)
SlotsOK == \A i \in Active :
  /\ subs[i].sid < nextSid
  /\ subs[i].subject \in Nat => subs[i].subject = subs[i].sid
  /\ \A j \in Active : subs[i].sid = subs[j].sid => i = j

(* Two requests never wait on one inbox, and each one's inbox has a slot.  *)
RequestsOK ==
  /\ late \subseteq {r \in Requests : pend[r] # 0}
  /\ \A r \in Requests : pend[r] # 0 =>
       /\ \E i \in Active : subs[i].subject = pend[r]
       /\ \A q \in Requests : pend[q] = pend[r] => q = r
  /\ \A i \in Active : subs[i].subject \in Nat =>
       (\E r \in Requests : pend[r] = subs[i].subject) \/ subs[i].subject \in orphans

ClientInv == TypeOK /\ KnownOK /\ SlotsOK /\ RequestsOK

-----------------------------------------------------------------------------
(* Steps that make no new entry leave KnownOK alone, and one that takes    *)
(* the next sid for its new entry does.                                    *)
LEMMA KnownShrinks ==
  ASSUME KnownOK, Known' \subseteq Known, nextSid' = nextSid
  PROVE  KnownOK'
  BY DEF KnownOK

(* One more entry with the next sid leaves every sid with one entry. *)
LEMMA KnownGrows ==
  ASSUME KnownOK, TypeOK, NEW topic, Known' \subseteq Known \cup {Entry(nextSid, topic)},
         Known \subseteq Entries, nextSid' = nextSid + 1
  PROVE  KnownOK'
<1>1. Entry(nextSid, topic).sid = nextSid /\ nextSid \in Nat /\ nextSid # 0
  BY DEF Entry, TypeOK
<1>2. \A e \in Known : e.sid \in Nat /\ e.sid < nextSid /\ e.sid # 0
  BY DEF KnownOK, Entries
<1>3. \A e \in Known' : e.sid # 0 /\ e.sid < nextSid'
  BY <1>1, <1>2
<1>4. \A e, f \in Known' : e.sid = f.sid => e = f
  BY <1>1, <1>2 DEF KnownOK
<1> QED BY <1>3, <1>4 DEF KnownOK

(* All entries there are, on either side or on their way, are entries. *)
LEMMA KnownTypes == TypeOK => Known \subseteq Entries
<1> SUFFICES ASSUME TypeOK PROVE Known \subseteq Entries
  OBVIOUS
<1>1. Held \subseteq Entries /\ server \subseteq Entries
  BY DEF TypeOK, Held, Active
<1>2. OnTheWay \subseteq Entries
  <2> SUFFICES ASSUME NEW k \in DOMAIN toServer PROVE toServer[k].entries \subseteq Entries
    BY DEF OnTheWay
  <2>1. toServer[k] \in Commands
    BY DEF TypeOK
  <2> QED BY <2>1 DEF Commands
<1>3. Coming \subseteq Entries
  BY DEF TypeOK, Coming
<1> QED BY <1>1, <1>2, <1>3 DEF Known

(* What a command added to the queue adds to the entries on their way.     *)
LEMMA Sent ==
  ASSUME TypeOK, NEW command \in Commands, Send(command)
  PROVE  toServer' \in Seq(Commands) /\ OnTheWay' \subseteq OnTheWay \cup command.entries
<1>1. CASE toServer' = Append(toServer, command)
  <2>1. toServer' \in Seq(Commands) /\ DOMAIN toServer' = 1..(Len(toServer) + 1)
        /\ toServer'[Len(toServer) + 1] = command
        /\ \A k \in 1..Len(toServer) : toServer'[k] = toServer[k]
        /\ DOMAIN toServer = 1..Len(toServer) /\ Len(toServer) \in Nat
    BY <1>1 DEF TypeOK
  <2>2. \A k \in DOMAIN toServer' : k \in DOMAIN toServer \/ k = Len(toServer) + 1
    BY <2>1
  <2>3. ASSUME NEW e \in OnTheWay' PROVE e \in OnTheWay \cup command.entries
    <3>1. PICK k \in DOMAIN toServer' : e \in toServer'[k].entries
      BY <2>3 DEF OnTheWay
    <3> QED BY <3>1, <2>1, <2>2 DEF OnTheWay
  <2> QED BY <2>1, <2>3
<1>2. CASE toServer' = toServer
  BY <1>2 DEF TypeOK, OnTheWay
<1> QED BY <1>1, <1>2 DEF Send

(* The client begins without a subscription. *)
LEMMA InitInv == Init => ClientInv
<1> SUFFICES ASSUME Init PROVE ClientInv
  OBVIOUS
<1>1. TypeOK
  <2>1. Unused \in Entries /\ 0 \in 0..MaxAttempts
    BY ClientAssumption DEF Unused, Entries, Topics
  <2>2. subs \in [Slots -> Entries] /\ pend \in [Requests -> Nat]
    BY <2>1 DEF Init
  <2>3. toServer \in Seq(Commands) /\ fromServer \in Seq(Entries)
    BY DEF Init
  <2>4. /\ connected \in BOOLEAN /\ link \in BOOLEAN /\ reachable \in BOOLEAN
        /\ stage \in {"sketch", "loop", "handler"}
    BY Zenon DEF Init
  <2>5. /\ nextSid \in Nat \ {0} /\ attempts \in 0..MaxAttempts /\ messages \in Nat /\ outages \in Nat
        /\ late \subseteq Requests /\ server \subseteq Entries /\ orphans \subseteq Nat
        /\ failures \in Nat
    BY <2>1 DEF Init
  <2> QED BY <2>2, <2>3, <2>4, <2>5 DEF TypeOK
<1>2. Active = {} /\ Known = {}
  BY DEF Init, Active, Unused, Known, Held, OnTheWay, Coming
<1>3. RequestsOK
  BY <1>2 DEF Init, RequestsOK
<1> QED BY <1>1, <1>2, <1>3 DEF ClientInv, KnownOK, SlotsOK

-----------------------------------------------------------------------------
(* A slot taken for a topic: what TakeSlot does to the slots.              *)
LEMMA Taken ==
  ASSUME ClientInv, NEW topic \in Topics, TakeSlot(topic)
  PROVE  /\ nextSid' = nextSid + 1 /\ nextSid' \in Nat \ {0} /\ subs' \in [Slots -> Entries]
         /\ Entry(nextSid, topic) \in Entries
         /\ \E i \in Slots \ Active :
              /\ Active' = Active \cup {i}
              /\ subs'[i] = Entry(nextSid, topic)
              /\ \A j \in Active : subs'[j] = subs[j]
         /\ Held' = Held \cup {Entry(nextSid, topic)}
<1>1. nextSid \in Nat \ {0} /\ subs \in [Slots -> Entries]
  BY DEF ClientInv, TypeOK
<1>2. PICK i \in FreeSlots : subs' = [subs EXCEPT ![i] = Entry(nextSid, topic)]
  BY DEF TakeSlot, Lowest
<1>3. Entry(nextSid, topic) \in Entries /\ Entry(nextSid, topic).sid = nextSid
  BY <1>1 DEF Entry, Entries
<1>4. i \in Slots \ Active
  BY <1>2 DEF FreeSlots, Active
<1>5. nextSid' = nextSid + 1 /\ nextSid' \in Nat \ {0}
  BY <1>1 DEF TakeSlot
<1>6. subs'[i] = Entry(nextSid, topic) /\ \A j \in Slots \ {i} : subs'[j] = subs[j]
  BY <1>1, <1>2, <1>4
<1>7. Active' = Active \cup {i}
  BY <1>1, <1>3, <1>4, <1>6 DEF Active
<1>8. Held' = Held \cup {Entry(nextSid, topic)}
  BY <1>4, <1>6, <1>7 DEF Held, Active
<1> QED BY <1>1, <1>2, <1>3, <1>4, <1>5, <1>6, <1>7, <1>8 DEF Active

(* A slot that is taken gets a sid no other slot has. *)
LEMMA TakenSlots ==
  ASSUME ClientInv, NEW topic \in Topics, TakeSlot(topic), topic \in Nat => topic = nextSid
  PROVE  SlotsOK'
<1>1. PICK i \in Slots \ Active :
        /\ Active' = Active \cup {i}
        /\ subs'[i] = Entry(nextSid, topic)
        /\ \A j \in Active : subs'[j] = subs[j]
  BY Taken
<1>2. nextSid' = nextSid + 1 /\ nextSid \in Nat
  BY Taken DEF ClientInv, TypeOK
<1>3. \A j \in Active : subs[j].sid \in Nat /\ subs[j].sid < nextSid
  BY DEF ClientInv, SlotsOK, TypeOK, Active, Entries
<1>4. subs'[i].sid = nextSid /\ subs'[i].subject = topic
  BY <1>1 DEF Entry
<1> QED BY <1>1, <1>2, <1>3, <1>4 DEF ClientInv, SlotsOK

(* Slots of the sketch's own subjects come and go without touching a       *)
(* request.                                                                *)
LEMMA TakenRequests ==
  ASSUME ClientInv, NEW topic \in Subjects, TakeSlot(topic), UNCHANGED <<pend, late, orphans>>
  PROVE  RequestsOK'
<1>1. topic \in Topics /\ topic \notin Nat
  BY ClientAssumption DEF Topics
<1>2. PICK i \in Slots \ Active :
        /\ Active' = Active \cup {i}
        /\ subs'[i] = Entry(nextSid, topic)
        /\ \A j \in Active : subs'[j] = subs[j]
  BY <1>1, Taken
<1>3. subs'[i].subject = topic
  BY <1>2 DEF Entry
<1> QED BY <1>1, <1>2, <1>3 DEF ClientInv, RequestsOK

-----------------------------------------------------------------------------
(* Subscribing keeps the invariant, whether a slot is free or not. *)
LEMMA SubscribeInv == ASSUME ClientInv, NEW topic \in Subjects, Subscribe(topic) PROVE ClientInv'
<1>1. topic \in Topics /\ topic \notin Nat
  BY ClientAssumption DEF Topics
<1>2. TakeSlot(topic) /\ Send(Sub({Entry(nextSid, topic)}))
      /\ UNCHANGED <<connected, link, attempts, pend, stage, late, server, fromServer, worldVars, orphans, failures>>
  BY DEF Subscribe
<1>3. Sub({Entry(nextSid, topic)}) \in Commands /\ Sub({Entry(nextSid, topic)}).entries = {Entry(nextSid, topic)}
  BY <1>1, <1>2, Taken DEF Sub, Commands
<1>4. toServer' \in Seq(Commands) /\ OnTheWay' \subseteq OnTheWay \cup {Entry(nextSid, topic)}
  BY <1>2, <1>3, Sent DEF ClientInv
<1>5. TypeOK'
  BY <1>1, <1>2, <1>4, Taken DEF ClientInv, TypeOK, worldVars
<1>6. Known' \subseteq Known \cup {Entry(nextSid, topic)}
  BY <1>1, <1>2, <1>4, Taken DEF Known, Coming
<1>7. KnownOK'
  BY <1>1, <1>2, <1>6, Taken, KnownTypes, KnownGrows DEF ClientInv
<1> QED BY <1>1, <1>2, <1>5, <1>7, TakenSlots, TakenRequests DEF ClientInv

(* Making a request keeps it: the inbox is named by the sid it gets. *)
LEMMA RequestInv == ASSUME ClientInv, Request PROVE ClientInv'
<1>1. nextSid \in Topics /\ nextSid \in Nat \ {0}
  BY DEF ClientInv, TypeOK, Topics
<1>2. TakeSlot(nextSid) /\ Send(Sub({Entry(nextSid, nextSid)}))
      /\ UNCHANGED <<connected, link, attempts, stage, late, server, fromServer, worldVars, orphans, failures>>
  BY DEF Request
<1>3. PICK r \in Requests : pend[r] = 0 /\ pend' = [pend EXCEPT ![r] = nextSid]
  BY DEF Request, Lowest, FreeRequests
<1>4. Sub({Entry(nextSid, nextSid)}) \in Commands /\ Sub({Entry(nextSid, nextSid)}).entries = {Entry(nextSid, nextSid)}
  BY <1>1, <1>2, Taken DEF Sub, Commands
<1>5. toServer' \in Seq(Commands) /\ OnTheWay' \subseteq OnTheWay \cup {Entry(nextSid, nextSid)}
  BY <1>2, <1>4, Sent DEF ClientInv
<1>6. TypeOK'
  BY <1>1, <1>2, <1>3, <1>5, Taken DEF ClientInv, TypeOK, worldVars
<1>7. Known' \subseteq Known \cup {Entry(nextSid, nextSid)}
  BY <1>1, <1>2, <1>5, Taken DEF Known, Coming
<1>8. KnownOK'
  BY <1>1, <1>2, <1>7, Taken, KnownTypes, KnownGrows DEF ClientInv
<1>9. SlotsOK'
  BY <1>1, <1>2, TakenSlots
<1>10. RequestsOK'
  <2>1. PICK i \in Slots \ Active :
          /\ Active' = Active \cup {i}
          /\ subs'[i] = Entry(nextSid, nextSid)
          /\ \A j \in Active : subs'[j] = subs[j]
    BY <1>1, <1>2, Taken
  <2>2. subs'[i].subject = nextSid
    BY <2>1 DEF Entry
  <2>3. pend'[r] = nextSid /\ \A q \in Requests \ {r} : pend'[q] = pend[q]
    BY <1>3 DEF ClientInv, TypeOK
  <2>4. \A q \in Requests : pend[q] # nextSid
    <3> SUFFICES ASSUME NEW q \in Requests, pend[q] = nextSid PROVE FALSE
      OBVIOUS
    <3>1. PICK j \in Active : subs[j].subject = nextSid
      BY <1>1 DEF ClientInv, RequestsOK
    <3>2. subs[j].sid = nextSid /\ subs[j].sid < nextSid
      BY <3>1, <1>1 DEF ClientInv, SlotsOK
    <3> QED BY <3>2, <1>1
  <2>5. late' \subseteq {q \in Requests : pend'[q] # 0}
    BY <1>1, <1>2, <2>3 DEF ClientInv, RequestsOK
  <2>6. \A q \in Requests : pend'[q] # 0 => \E j \in Active' : subs'[j].subject = pend'[q]
    BY <2>1, <2>2, <2>3 DEF ClientInv, RequestsOK
  <2>7. \A q, p \in Requests : pend'[q] # 0 /\ pend'[p] = pend'[q] => p = q
    BY <2>3, <2>4 DEF ClientInv, RequestsOK
  <2>8. \A j \in Active' : subs'[j].subject \in Nat =>
          (\E q \in Requests : pend'[q] = subs'[j].subject) \/ subs'[j].subject \in orphans'
    <3>1. \A j \in Active : subs[j].subject \in Nat =>
            (\E q \in Requests \ {r} : pend[q] = subs[j].subject) \/ subs[j].subject \in orphans
      <4>1. \A j \in Active : subs[j].subject \in Nat => subs[j].subject # 0
        BY DEF ClientInv, SlotsOK, Active
      <4> QED BY <4>1, <1>3 DEF ClientInv, RequestsOK
    <3> QED BY <3>1, <1>2, <2>1, <2>2, <2>3
  <2> QED BY <2>5, <2>6, <2>7, <2>8 DEF RequestsOK
<1> QED BY <1>6, <1>8, <1>9, <1>10 DEF ClientInv

(* Slots given up: nothing new, and what is left stays as it was.          *)
LEMMA Freed ==
  ASSUME ClientInv, nextSid' = nextSid, NEW given \in SUBSET Slots,
         subs' = [i \in Slots |-> IF i \in given THEN Unused ELSE subs[i]]
  PROVE  /\ subs' \in [Slots -> Entries]
         /\ Active' = Active \ given
         /\ \A i \in Active' : subs'[i] = subs[i]
         /\ Held' \subseteq Held
         /\ SlotsOK'
<1>1. subs' \in [Slots -> Entries]
  BY DEF ClientInv, TypeOK, Unused, Entries, Topics
<1>2. Active' = Active \ given /\ \A i \in Active' : subs'[i] = subs[i]
  BY DEF Active, Unused
<1>3. Held' \subseteq Held
  BY <1>2 DEF Held
<1> QED BY <1>1, <1>2, <1>3 DEF ClientInv, SlotsOK

(* Unsubscribing keeps it, for the one slot or for all of the subject. *)
LEMMA UnsubscribeInv == ASSUME ClientInv, NEW topic \in Subjects, Unsubscribe(topic) PROVE ClientInv'
<1>1. topic \notin Nat
  BY ClientAssumption
<1>2. PICK i \in Slots : /\ subs[i].sid # 0 /\ subs[i].subject = topic
                         /\ subs' = [subs EXCEPT ![i] = Unused] /\ Send(Unsub({subs[i]}))
  BY DEF Unsubscribe, Lowest, Holding
<1>3. UNCHANGED <<connected, link, attempts, pend, nextSid, stage, late, server, fromServer, worldVars, orphans, failures>>
  BY DEF Unsubscribe
<1>4. subs' = [j \in Slots |-> IF j \in {i} THEN Unused ELSE subs[j]]
  BY <1>2 DEF ClientInv, TypeOK
<1>5. /\ subs' \in [Slots -> Entries] /\ Active' = Active \ {i}
      /\ \A j \in Active' : subs'[j] = subs[j]
      /\ Held' \subseteq Held /\ SlotsOK'
  BY <1>3, <1>4, Freed
<1>6. i \in Active /\ subs[i] \in Held /\ subs[i] \in Entries
  BY <1>2 DEF Active, Held, ClientInv, TypeOK
<1>7. Unsub({subs[i]}) \in Commands /\ Unsub({subs[i]}).entries = {subs[i]}
  BY <1>6 DEF Unsub, Commands
<1>8. toServer' \in Seq(Commands) /\ OnTheWay' \subseteq OnTheWay \cup {subs[i]}
  BY <1>2, <1>7, Sent DEF ClientInv
<1>9. TypeOK'
  BY <1>3, <1>5, <1>8 DEF ClientInv, TypeOK, worldVars
<1>10. Known' \subseteq Known
  BY <1>3, <1>5, <1>6, <1>8 DEF Known, Coming
<1>11. KnownOK'
  BY <1>3, <1>10, KnownShrinks DEF ClientInv
<1>12. RequestsOK'
  <2>1. \A r \in Requests : pend[r] # 0 => \E j \in Active \ {i} : subs[j].subject = pend[r]
    BY <1>1, <1>2 DEF ClientInv, RequestsOK, TypeOK
  <2> QED BY <1>3, <1>5, <2>1 DEF ClientInv, RequestsOK
<1> QED BY <1>5, <1>9, <1>11, <1>12 DEF ClientInv

(* A step that touches neither slots nor requests and makes no new entry.  *)
LEMMA WireStep ==
  ASSUME ClientInv, TypeOK', UNCHANGED callVars, late' = late,
         server' \subseteq Known, OnTheWay' \subseteq Known, Coming' \subseteq Known
  PROVE  ClientInv'
<1>1. Held' = Held /\ Active' = Active /\ nextSid' = nextSid
  BY DEF callVars, Held, Active
<1>2. Known' \subseteq Known
  BY <1>1 DEF Known
<1>3. KnownOK'
  BY <1>1, <1>2, KnownShrinks DEF ClientInv
<1>4. SlotsOK' /\ RequestsOK'
  BY <1>1 DEF ClientInv, SlotsOK, RequestsOK, callVars
<1> QED BY <1>3, <1>4 DEF ClientInv

(* Whatever is lost with the connection, the slots are as they were. *)
LEMMA HangupInv ==
  ASSUME ClientInv, Hangup, UNCHANGED callVars, late' = late,
         connected' \in BOOLEAN, reachable' \in BOOLEAN, outages' \in Nat, messages' \in Nat,
         UNCHANGED <<attempts, stage, failures>>
  PROVE  ClientInv'
<1>1. TypeOK'
  <2>1. toServer' \in Seq(Commands) /\ fromServer' \in Seq(Entries)
    BY DEF Hangup
  <2> QED BY <2>1 DEF ClientInv, TypeOK, Hangup, callVars
<1>2. server' = {} /\ OnTheWay' = {} /\ Coming' = {}
  BY DEF Hangup, OnTheWay, Coming
<1> QED BY <1>1, <1>2, WireStep

(* connect() sends what the slots hold.                                    *)
LEMMA OpenedInv ==
  ASSUME ClientInv, Opened, UNCHANGED <<pend, stage, late, server, fromServer, worldVars, orphans>>
  PROVE  ClientInv'
<1>1. ASSUME toServer' = <<Sub(Held)>>, UNCHANGED <<subs, nextSid>> PROVE ClientInv'
  <2>1. Sub(Held) \in Commands /\ Sub(Held).entries = Held
    BY KnownTypes DEF ClientInv, Known, Sub, Commands
  <2>2. toServer' \in Seq(Commands) /\ OnTheWay' = Held
    BY <1>1, <2>1 DEF OnTheWay
  <2>3. TypeOK'
    BY <1>1, <2>2, ClientAssumption DEF ClientInv, TypeOK, Opened, worldVars
  <2> QED BY <1>1, <2>2, <2>3, WireStep DEF callVars, Known, Coming
<1>2. ASSUME NEW topic \in Subjects, TakeSlot(topic),
             toServer' = <<Sub({Entry(nextSid, topic)}), Sub(Held')>>
      PROVE  ClientInv'
  <2> DEFINE new == Entry(nextSid, topic)
  <2>1. topic \in Topics /\ topic \notin Nat
    BY ClientAssumption DEF Topics
  <2>2. new \in Entries /\ Held' = Held \cup {new} /\ nextSid' = nextSid + 1
        /\ nextSid' \in Nat \ {0} /\ subs' \in [Slots -> Entries]
    BY <1>2, <2>1, Taken
  <2>3. Held' \subseteq Entries
    BY <2>2, KnownTypes DEF ClientInv, Known
  <2>4. /\ Sub({new}) \in Commands /\ Sub({new}).entries = {new}
        /\ Sub(Held') \in Commands /\ Sub(Held').entries = Held'
    BY <2>2, <2>3 DEF Sub, Commands
  <2>5. toServer' \in Seq(Commands) /\ OnTheWay' = {new} \cup Held'
    <3>1. toServer' \in Seq(Commands) /\ DOMAIN toServer' = {1, 2}
          /\ toServer'[1] = Sub({new}) /\ toServer'[2] = Sub(Held')
      BY <1>2, <2>4
    <3> QED BY <3>1, <2>4 DEF OnTheWay
  <2>6. TypeOK'
    BY <2>2, <2>5, ClientAssumption DEF ClientInv, TypeOK, Opened, worldVars
  <2>7. Known' \subseteq Known \cup {new}
    BY <2>2, <2>5 DEF Known, Coming
  <2>8. KnownOK'
    BY <2>2, <2>7, KnownTypes, KnownGrows DEF ClientInv
  <2>9. SlotsOK' /\ RequestsOK'
    BY <1>2, <2>1, TakenSlots, TakenRequests
  <2> QED BY <2>6, <2>8, <2>9 DEF ClientInv
<1> QED BY <1>1, <1>2 DEF Opened

(* The end of loop(): what is late gives its slot back.                    *)
LEMMA LeaveLoopInv == ASSUME ClientInv, LeaveLoop PROVE ClientInv'
<1> DEFINE inboxes == {pend[r] : r \in late}
           given == {i \in Active : subs[i].subject \in inboxes}
<1>1. /\ UNCHANGED <<connected, link, attempts, nextSid, server, fromServer, worldVars, failures>>
      /\ stage' = "sketch" /\ late' = {}
      /\ pend' = [r \in Requests |-> IF r \in late THEN 0 ELSE pend[r]]
  BY DEF LeaveLoop, Cleanup
<1>2. /\ \A r \in late : pend[r] # 0 /\ pend[r] \in Nat /\ pend'[r] = 0 /\ r \in Requests
      /\ \A r \in Requests \ late : pend'[r] = pend[r]
      /\ pend' \in [Requests -> Nat] /\ inboxes \subseteq Nat
      /\ \A r \in Requests \ late : pend[r] # 0 => pend[r] \notin inboxes
  BY <1>1 DEF ClientInv, RequestsOK, TypeOK
<1>3. CASE connected
  <2>1. /\ subs' = [i \in Slots |-> IF i \in given THEN Unused ELSE subs[i]]
        /\ Send(Unsub({subs[i] : i \in given})) /\ UNCHANGED orphans
    BY <1>3 DEF LeaveLoop, Cleanup
  <2>2. given \subseteq Slots
    BY DEF Active
  <2>3. /\ subs' \in [Slots -> Entries] /\ Active' = Active \ given
        /\ \A i \in Active' : subs'[i] = subs[i]
        /\ Held' \subseteq Held
        /\ SlotsOK'
    BY <1>1, <2>1, <2>2, Freed
  <2>4. {subs[i] : i \in given} \subseteq Held /\ {subs[i] : i \in given} \subseteq Entries
    BY DEF Held, Active, ClientInv, TypeOK
  <2>5. Unsub({subs[i] : i \in given}) \in Commands
        /\ Unsub({subs[i] : i \in given}).entries = {subs[i] : i \in given}
    BY <2>4 DEF Unsub, Commands
  <2>6. toServer' \in Seq(Commands) /\ OnTheWay' \subseteq OnTheWay \cup Held
    BY <2>1, <2>4, <2>5, Sent DEF ClientInv
  <2>7. TypeOK'
    BY <1>1, <1>2, <2>1, <2>3, <2>6 DEF ClientInv, TypeOK, worldVars
  <2>9. KnownOK'
    <3>1. Known' \subseteq Known
      BY <1>1, <2>3, <2>6 DEF Known, Coming
    <3> QED BY <3>1, <1>1, KnownShrinks DEF ClientInv
  <2>10. RequestsOK'
    <3>1. \A r \in Requests : pend'[r] # 0 => \E i \in Active' : subs'[i].subject = pend'[r]
      <4> SUFFICES ASSUME NEW r \in Requests, pend'[r] # 0
                   PROVE  \E i \in Active' : subs'[i].subject = pend'[r]
        OBVIOUS
      <4>1. r \notin late /\ pend'[r] = pend[r] /\ pend[r] \notin inboxes
        BY <1>2
      <4>2. PICK i \in Active : subs[i].subject = pend[r]
        BY <4>1 DEF ClientInv, RequestsOK
      <4> QED BY <4>1, <4>2, <2>3
    <3>2. \A r, q \in Requests : pend'[r] # 0 /\ pend'[q] = pend'[r] => q = r
      BY <1>2 DEF ClientInv, RequestsOK
    <3>3. \A i \in Active' : subs'[i].subject \in Nat =>
            (\E r \in Requests : pend'[r] = subs'[i].subject) \/ subs'[i].subject \in orphans'
      <4> SUFFICES ASSUME NEW i \in Active', subs'[i].subject \in Nat
                   PROVE  (\E r \in Requests : pend'[r] = subs'[i].subject) \/ subs'[i].subject \in orphans'
        OBVIOUS
      <4>1. i \in Active /\ subs'[i] = subs[i] /\ subs[i].subject \notin inboxes
        BY <2>3
      <4> QED BY <4>1, <1>2, <2>1 DEF ClientInv, RequestsOK
    <3> QED BY <1>1, <3>1, <3>2, <3>3 DEF RequestsOK
  <2> QED BY <2>3, <2>7, <2>9, <2>10 DEF ClientInv
<1>4. CASE ~connected
  <2>1. orphans' = orphans \cup inboxes /\ UNCHANGED <<subs, toServer>>
    BY <1>4 DEF LeaveLoop, Cleanup
  <2>2. TypeOK'
    BY <1>1, <1>2, <2>1 DEF ClientInv, TypeOK, worldVars
  <2>3. Active' = Active /\ Held' = Held /\ Known' = Known /\ SlotsOK'
    BY <1>1, <2>1 DEF Active, Held, Known, OnTheWay, Coming, ClientInv, SlotsOK
  <2>4. KnownOK'
    BY <1>1, <2>3, KnownShrinks DEF ClientInv
  <2>5. RequestsOK'
    BY <1>1, <1>2, <2>1, <2>3 DEF ClientInv, RequestsOK
  <2> QED BY <2>2, <2>3, <2>4, <2>5 DEF ClientInv
<1> QED BY <1>3, <1>4

-----------------------------------------------------------------------------
(* Every step keeps sids apart and inboxes known. *)
LEMMA StepInv == ClientInv /\ [Next]_vars => ClientInv'
<1> SUFFICES ASSUME ClientInv, [Next]_vars PROVE ClientInv'
  OBVIOUS
<1>1. ASSUME NEW topic \in Subjects, Subscribe(topic) \/ Unsubscribe(topic) PROVE ClientInv'
  BY <1>1, SubscribeInv, UnsubscribeInv
<1>2. CASE Request
  BY <1>2, RequestInv
<1>3. CASE Disconnect
  BY <1>3, HangupInv DEF Disconnect, worldVars, ClientInv, TypeOK
<1>4. CASE Connect
  BY <1>4, OpenedInv DEF Connect
<1>5. CASE NoticeLoss \/ EnterLoop \/ Return \/ Recover
  <2>1. TypeOK'
    BY <1>5 DEF NoticeLoss, EnterLoop, Return, Recover, ClientInv, TypeOK, callVars, wireVars, worldVars
  <2>2. UNCHANGED <<callVars, late, toServer, server, fromServer>>
    BY <1>5 DEF NoticeLoss, EnterLoop, Return, Recover, wireVars
  <2> QED BY <2>1, <2>2, WireStep DEF OnTheWay, Coming, Known
<1>6. CASE Reconnect
  <2>1. CASE reachable /\ Opened
    BY <1>6, <2>1, OpenedInv DEF Reconnect
  <2>2. CASE ~(reachable /\ Opened)
    <3>1. UNCHANGED <<callVars, late, toServer, server, fromServer>>
      BY <1>6, <2>2 DEF Reconnect, callVars
    <3>2. TypeOK'
      <4>1. /\ attempts' = attempts + 1 /\ connected' = FALSE /\ attempts < MaxAttempts
            /\ failures' = failures + 1
            /\ UNCHANGED <<link, stage, worldVars>>
        BY <1>6, <2>2 DEF Reconnect
      <4>2. attempts' \in 0..MaxAttempts
        BY <4>1, ClientAssumption DEF ClientInv, TypeOK
      <4>3. failures' \in Nat
        BY <4>1 DEF ClientInv, TypeOK
      <4>4. UNCHANGED <<subs, pend, nextSid, orphans, reachable, messages, outages>>
        BY <3>1, <4>1 DEF callVars, worldVars
      <4> QED BY <3>1, <4>1, <4>2, <4>3, <4>4 DEF ClientInv, TypeOK
    <3> QED BY <3>1, <3>2, WireStep DEF OnTheWay, Coming, Known
  <2> QED BY <1>6, <2>1, <2>2 DEF Reconnect
<1>7. CASE Receive
  <2>1. /\ fromServer # <<>> /\ fromServer' = Tail(fromServer) /\ fromServer \in Seq(Entries)
        /\ UNCHANGED <<callVars, late, toServer, server>>
    BY <1>7 DEF Receive, ClientInv, TypeOK
  <2>2. /\ fromServer' \in Seq(Entries)
        /\ \A k \in DOMAIN fromServer' : k + 1 \in DOMAIN fromServer /\ fromServer'[k] = fromServer[k + 1]
    BY <2>1
  <2>3. Coming' \subseteq Coming
    BY <2>2 DEF Coming
  <2>4. TypeOK'
    BY <1>7, <2>2 DEF Receive, ClientInv, TypeOK, callVars, worldVars
  <2> QED BY <2>1, <2>3, <2>4, WireStep DEF OnTheWay, Known
<1>8. CASE LeaveLoop
  BY <1>8, LeaveLoopInv
<1>9. ASSUME NEW r \in Requests, Expire(r) PROVE ClientInv'
  <2>1. late' = late \cup {r} /\ pend[r] # 0
        /\ UNCHANGED <<connected, link, attempts, stage, callVars, wireVars, worldVars, failures>>
    BY <1>9 DEF Expire
  <2>2. TypeOK'
    BY <2>1 DEF ClientInv, TypeOK, callVars, wireVars, worldVars
  <2>3. Active' = Active /\ Held' = Held /\ Known' = Known /\ nextSid' = nextSid
    BY <2>1 DEF Active, Held, Known, OnTheWay, Coming, callVars, wireVars
  <2>4. KnownOK'
    BY <2>3, KnownShrinks DEF ClientInv
  <2>5. SlotsOK' /\ RequestsOK'
    BY <2>1, <2>3 DEF ClientInv, SlotsOK, RequestsOK, callVars
  <2> QED BY <2>2, <2>4, <2>5 DEF ClientInv
<1>10. CASE Take
  <2>1. /\ toServer # <<>> /\ toServer' = Tail(toServer) /\ toServer \in Seq(Commands)
        /\ UNCHANGED <<callVars, late, fromServer>>
    BY <1>10 DEF Take, ClientInv, TypeOK
  <2>2. /\ toServer' \in Seq(Commands) /\ Head(toServer) \in Commands
        /\ Head(toServer) = toServer[1] /\ 1 \in DOMAIN toServer
        /\ \A k \in DOMAIN toServer' : k + 1 \in DOMAIN toServer /\ toServer'[k] = toServer[k + 1]
    BY <2>1
  <2>3. OnTheWay' \subseteq OnTheWay /\ Head(toServer).entries \subseteq OnTheWay
    BY <2>2 DEF OnTheWay
  <2>4. server' \subseteq server \cup Head(toServer).entries
    BY <1>10 DEF Take
  <2>5. TypeOK'
    <3>1. server' \subseteq Entries
      BY <2>2, <2>4 DEF ClientInv, TypeOK, Commands
    <3> QED BY <3>1, <1>10, <2>2 DEF Take, ClientInv, TypeOK, callVars, worldVars
  <2> QED BY <2>1, <2>3, <2>4, <2>5, WireStep DEF Coming, Known
<1>11. CASE Emit
  <2>1. PICK e \in server : fromServer' = Append(fromServer, e)
    BY <1>11 DEF Emit
  <2>2. /\ UNCHANGED <<callVars, late, toServer, server>> /\ e \in Entries /\ fromServer \in Seq(Entries)
    BY <1>11 DEF Emit, ClientInv, TypeOK
  <2>3. /\ fromServer' \in Seq(Entries) /\ DOMAIN fromServer = 1..Len(fromServer)
        /\ Len(fromServer) \in Nat
        /\ DOMAIN fromServer' = 1..(Len(fromServer) + 1)
        /\ fromServer'[Len(fromServer) + 1] = e
        /\ \A k \in 1..Len(fromServer) : fromServer'[k] = fromServer[k]
    BY <2>1, <2>2
  <2>4. Coming' \subseteq Coming \cup {e}
    <3>1. \A k \in DOMAIN fromServer' : k \in DOMAIN fromServer \/ k = Len(fromServer) + 1
      BY <2>3
    <3> QED BY <2>3, <3>1 DEF Coming
  <2>5. TypeOK'
    BY <1>11, <2>3 DEF Emit, ClientInv, TypeOK, callVars
  <2> QED BY <2>2, <2>4, <2>5, WireStep DEF OnTheWay, Known
<1>12. CASE Break
  BY <1>12, HangupInv DEF Break, ClientInv, TypeOK
<1>13. CASE UNCHANGED vars
  <2>1. TypeOK'
    BY <1>13 DEF vars, ClientInv, TypeOK, callVars, wireVars, worldVars
  <2> QED BY <1>13, <2>1, WireStep DEF vars, wireVars, OnTheWay, Coming, Known
<1> QED
  BY <1>1, <1>2, <1>3, <1>4, <1>5, <1>6, <1>7, <1>8, <1>9, <1>10, <1>11, <1>12, <1>13
  DEF Next, Call, Loop

(* Sids stay apart and inboxes known in every behaviour. *)
LEMMA Invariance == Spec => []ClientInv
  BY InitInv, StepInv, PTL DEF Spec

(* A message is handled on the subject it was sent on, whatever was        *)
(* unsubscribed, reused and reconnected since.                             *)
THEOREM HandlersRight == Spec => []RightHandler
<1>1. ClientInv => RightHandler
  <2> SUFFICES ASSUME ClientInv, NEW k \in DOMAIN fromServer, NEW i \in Slots,
                      fromServer[k].sid = subs[i].sid, subs[i].sid # 0
               PROVE  fromServer[k].subject = subs[i].subject
    BY DEF RightHandler
  <2>1. fromServer[k] \in Known /\ subs[i] \in Known
    BY DEF Known, Coming, Held, Active
  <2> QED BY <2>1 DEF ClientInv, KnownOK
<1> QED BY <1>1, Invariance, PTL

(* A pending request holds exactly one slot, and no slot is kept for a     *)
(* request that is over, but for those given up while disconnected.        *)
THEOREM InboxesHeld == Spec => []InboxHeld
<1>1. ClientInv => InboxHeld
  <2> SUFFICES ASSUME ClientInv PROVE InboxHeld
    OBVIOUS
  <2>1. ASSUME NEW r \in Requests, pend[r] # 0 PROVE \E i \in Slots : Holding(pend[r]) = {i}
    <3>1. PICK i \in Active : subs[i].subject = pend[r]
      BY <2>1 DEF ClientInv, RequestsOK
    <3>2. pend[r] \in Nat
      BY DEF ClientInv, TypeOK
    <3>3. \A j \in Active : subs[j].subject = pend[r] => j = i
      BY <3>1, <3>2 DEF ClientInv, SlotsOK
    <3> QED BY <3>1, <3>3 DEF Holding, Active
  <2>2. \A i \in Slots : subs[i].sid # 0 /\ subs[i].subject \in Nat =>
          (\E r \in Requests : pend[r] = subs[i].subject) \/ subs[i].subject \in orphans
    BY DEF ClientInv, RequestsOK, Active
  <2> QED BY <2>1, <2>2 DEF InboxHeld
<1> QED BY <1>1, Invariance, PTL

(* Every variable keeps its type: the attempts and the slots their limits. *)
THEOREM TypeCorrect == Spec => []TypeOK
  BY Invariance, PTL DEF ClientInv

(***************************************************************************)
(* The server's table.                                                     *)
(***************************************************************************)

(* Of the commands on their way the last that names the entry.             *)
LastOn(k, e) ==
  /\ e \in toServer[k].entries
  /\ \A j \in k + 1 .. Len(toServer) : e \notin toServer[j].entries

Ends(e, op) == \E k \in 1..Len(toServer) : LastOn(k, e) /\ toServer[k].op = op
Unnamed(e) == \A k \in 1..Len(toServer) : e \notin toServer[k].entries

(* What the server will have of the entry when it has taken them all.      *)
WillHold(e) == Ends(e, "SUB") \/ (Unnamed(e) /\ e \in server)
WillDrop(e) == Ends(e, "UNSUB") \/ (Unnamed(e) /\ e \notin server)

TableInv ==
  /\ link => connected /\ \A e \in Entries : IF e \in Held THEN WillHold(e) ELSE WillDrop(e)
  /\ ~link => server = {} /\ toServer = <<>>

-----------------------------------------------------------------------------
(* What is appended to a queue of commands comes after all that was there. *)
LEMMA Appended ==
  ASSUME toServer \in Seq(Commands), NEW c \in Commands, toServer' = Append(toServer, c)
  PROVE  /\ Len(toServer) \in Nat /\ Len(toServer') = Len(toServer) + 1
         /\ Len(toServer') \in 1..Len(toServer') /\ toServer'[Len(toServer')] = c
         /\ \A k \in 1..Len(toServer) : k \in 1..Len(toServer') /\ toServer'[k] = toServer[k]
         /\ \A k \in 1..Len(toServer') : k \in 1..Len(toServer) \/ k = Len(toServer')
         /\ Len(toServer') + 1 .. Len(toServer') = {}
  OBVIOUS

(* A command decides about the entries it names, and about no other.       *)
LEMMA AppendDecides ==
  ASSUME toServer \in Seq(Commands), NEW c \in Commands, toServer' = Append(toServer, c), NEW e,
         server' = server
  PROVE  /\ e \in c.entries => Ends(e, c.op)'
         /\ e \notin c.entries => (WillHold(e) => WillHold(e)') /\ (WillDrop(e) => WillDrop(e)')
<1>1. /\ Len(toServer) \in Nat /\ Len(toServer') = Len(toServer) + 1
      /\ Len(toServer') \in 1..Len(toServer') /\ toServer'[Len(toServer')] = c
      /\ \A k \in 1..Len(toServer) : k \in 1..Len(toServer') /\ toServer'[k] = toServer[k]
      /\ \A k \in 1..Len(toServer') : k \in 1..Len(toServer) \/ k = Len(toServer')
      /\ Len(toServer') + 1 .. Len(toServer') = {}
  BY Appended
<1>2. ASSUME e \in c.entries PROVE Ends(e, c.op)'
  BY <1>1, <1>2 DEF Ends, LastOn
<1>3. ASSUME e \notin c.entries, NEW op, Ends(e, op) PROVE Ends(e, op)'
  <2>1. PICK k \in 1..Len(toServer) : LastOn(k, e) /\ toServer[k].op = op
    BY <1>3 DEF Ends
  <2>2. k \in 1..Len(toServer') /\ toServer'[k] = toServer[k]
    BY <1>1
  <2>3. ASSUME NEW j \in k + 1 .. Len(toServer') PROVE e \notin toServer'[j].entries
    <3>1. j = Len(toServer') \/ (j \in k + 1 .. Len(toServer) /\ j \in 1..Len(toServer))
      BY <1>1, <2>3
    <3> QED
      BY <1>1, <1>3, <2>1, <3>1 DEF LastOn
  <2> QED
    BY <2>1, <2>2, <2>3 DEF Ends, LastOn
<1>4. ASSUME e \notin c.entries, Unnamed(e) PROVE Unnamed(e)'
  BY <1>1, <1>4 DEF Unnamed
<1> QED
  BY <1>2, <1>3, <1>4 DEF WillHold, WillDrop

(* The last command about an entry decides what the server will have of it. *)
LEMMA SendDecides ==
  ASSUME TypeOK, link, NEW c \in Commands, Send(c), server' = server, NEW e
  PROVE  /\ e \in c.entries => Ends(e, c.op)'
         /\ e \notin c.entries => (WillHold(e) => WillHold(e)') /\ (WillDrop(e) => WillDrop(e)')
<1>1. CASE c.entries = {}
  BY <1>1 DEF Send, WillHold, WillDrop, Ends, LastOn, Unnamed
<1>2. CASE c.entries # {}
  BY <1>2, AppendDecides DEF Send, TypeOK
<1> QED
  BY <1>1, <1>2

(* The client subscribes and unsubscribes: the slots change as the command *)
(* says.                                                                   *)
LEMMA SubTable ==
  ASSUME ClientInv, TableInv, NEW entries \in SUBSET Entries, Send(Sub(entries)),
         UNCHANGED <<connected, link, server>>, Held' = Held \cup entries
  PROVE  TableInv'
<1>1. Sub(entries) \in Commands /\ Sub(entries).entries = entries /\ Sub(entries).op = "SUB"
  BY DEF Sub, Commands
<1>2. CASE link
  <2>1. ASSUME NEW e \in Entries PROVE IF e \in Held' THEN WillHold(e)' ELSE WillDrop(e)'
    BY <1>1, <1>2, SendDecides DEF TableInv, ClientInv, WillHold
  <2> QED
    BY <1>2, <2>1 DEF TableInv
<1>3. CASE ~link
  BY <1>3 DEF TableInv, Send
<1> QED
  BY <1>2, <1>3

(* Entries that are given up are unsubscribed at the server as well. *)
LEMMA UnsubTable ==
  ASSUME ClientInv, TableInv, NEW entries \in SUBSET Entries, Send(Unsub(entries)),
         UNCHANGED <<connected, link, server>>, Held' = Held \ entries
  PROVE  TableInv'
<1>1. Unsub(entries) \in Commands /\ Unsub(entries).entries = entries /\ Unsub(entries).op = "UNSUB"
  BY DEF Unsub, Commands
<1>2. CASE link
  <2>1. ASSUME NEW e \in Entries PROVE IF e \in Held' THEN WillHold(e)' ELSE WillDrop(e)'
    BY <1>1, <1>2, SendDecides DEF TableInv, ClientInv, WillDrop
  <2> QED
    BY <1>2, <2>1 DEF TableInv
<1>3. CASE ~link
  BY <1>3 DEF TableInv, Send
<1> QED
  BY <1>2, <1>3

(* Slots that are given up take their entries with them, for no two slots  *)
(* have the same.                                                          *)
LEMMA HeldWithout ==
  ASSUME ClientInv, nextSid' = nextSid, NEW given \in SUBSET Active,
         subs' = [i \in Slots |-> IF i \in given THEN Unused ELSE subs[i]]
  PROVE  /\ Held' = Held \ {subs[i] : i \in given}
         /\ {subs[i] : i \in given} \in SUBSET Entries
<1>1. Active' = Active \ given /\ \A i \in Active' : subs'[i] = subs[i]
  BY Freed DEF Active
<1>2. \A i, j \in Active : subs[i] = subs[j] => i = j
  BY DEF ClientInv, SlotsOK
<1>3. {subs[i] : i \in given} \in SUBSET Entries
  BY DEF ClientInv, TypeOK, Active
<1>4. Held' = {subs[i] : i \in Active \ given}
  BY <1>1 DEF Held
<1> QED
  BY <1>2, <1>3, <1>4 DEF Held

(* The server takes a command.                                             *)
LEMMA TakeTable == ASSUME ClientInv, TableInv, Take PROVE TableInv'
<1>1. /\ toServer \in Seq(Commands) /\ toServer # <<>> /\ toServer' = Tail(toServer)
      /\ UNCHANGED <<connected, link, subs>>
  BY DEF Take, ClientInv, TypeOK, callVars
<1>2. /\ Head(toServer) = toServer[1] /\ toServer[1] \in Commands /\ Len(toServer) \in Nat
      /\ 1 \in 1..Len(toServer) /\ Len(toServer') = Len(toServer) - 1
      /\ \A k \in 1..Len(toServer') : k + 1 \in 2..Len(toServer) /\ toServer'[k] = toServer[k + 1]
      /\ \A k \in 2..Len(toServer) : k - 1 \in 1..Len(toServer') /\ toServer'[k - 1] = toServer[k]
  BY <1>1
<1> DEFINE c == toServer[1]
<1>3. server' = IF c.op = "SUB" THEN server \cup c.entries ELSE server \ c.entries
  BY <1>2 DEF Take
<1>4. c.op \in {"SUB", "UNSUB"}
  BY <1>2 DEF Commands
<1> HIDE DEF c
<1>5. link /\ Held' = Held
  BY <1>1 DEF TableInv, Held, Active
<1>6. ASSUME NEW e, NEW op, Ends(e, op) PROVE Ends(e, op)' \/ (Unnamed(e)' /\ e \in c.entries /\ c.op = op)
  <2>1. PICK k \in 1..Len(toServer) : LastOn(k, e) /\ toServer[k].op = op
    BY <1>6 DEF Ends
  <2>2. CASE k = 1
    <3>1. \A j \in 1..Len(toServer') : e \notin toServer'[j].entries
      BY <1>2, <2>1, <2>2 DEF LastOn
    <3> QED
      BY <2>1, <2>2, <3>1 DEF LastOn, Unnamed, c
  <2>3. CASE k # 1
    <3>1. k \in 2..Len(toServer) /\ k - 1 \in 1..Len(toServer') /\ toServer'[k - 1] = toServer[k]
      BY <1>2, <2>1, <2>3
    <3>2. ASSUME NEW j \in k - 1 + 1 .. Len(toServer') PROVE e \notin toServer'[j].entries
      <4>1. j \in 1..Len(toServer') /\ j + 1 \in k + 1 .. Len(toServer)
        BY <1>2, <3>1, <3>2
      <4> QED
        BY <1>2, <2>1, <4>1 DEF LastOn
    <3> QED
      BY <2>1, <3>1, <3>2 DEF Ends, LastOn
  <2> QED
    BY <2>2, <2>3
<1>7. ASSUME NEW e, Unnamed(e) PROVE Unnamed(e)' /\ e \notin c.entries
  <2>1. \A k \in 1..Len(toServer') : k + 1 \in 1..Len(toServer) /\ toServer'[k] = toServer[k + 1]
    BY <1>2
  <2> QED
    BY <1>2, <1>7, <2>1 DEF Unnamed, c
<1>8. ASSUME NEW e PROVE (WillHold(e) => WillHold(e)') /\ (WillDrop(e) => WillDrop(e)')
  BY <1>3, <1>4, <1>6, <1>7 DEF WillHold, WillDrop
<1> QED
  BY <1>1, <1>5, <1>8 DEF TableInv

(* A new connection: every slot is sent.                                   *)
LEMMA OpenedTable ==
  ASSUME ClientInv, TableInv, ~link, Opened, server' = server PROVE TableInv'
<1>1. connected' /\ link' /\ server' = {}
  BY DEF Opened, TableInv
<1>2. CASE toServer' = <<Sub(Held)>> /\ UNCHANGED <<subs, nextSid>>
  <2>1. Held' = Held
    BY <1>2 DEF Held, Active
  <2>2. Len(toServer') = 1 /\ toServer'[1] = Sub(Held) /\ 2..1 = {}
    BY <1>2
  <2>3. Sub(Held).entries = Held /\ Sub(Held).op = "SUB"
    BY DEF Sub
  <2>4. ASSUME NEW e PROVE IF e \in Held' THEN WillHold(e)' ELSE WillDrop(e)'
    BY <1>1, <2>1, <2>2, <2>3 DEF WillHold, WillDrop, Ends, Unnamed, LastOn
  <2> QED
    BY <1>1, <2>4 DEF TableInv
<1>3. ASSUME NEW topic \in Subjects, TakeSlot(topic),
             toServer' = <<Sub({Entry(nextSid, topic)}), Sub(Held')>>
      PROVE  TableInv'
  <2> DEFINE new == Entry(nextSid, topic)
  <2>1. Held' = Held \cup {new}
    BY <1>3, Taken DEF Topics
  <2>2. /\ Len(toServer') = 2 /\ toServer'[1] = Sub({new}) /\ toServer'[2] = Sub(Held')
        /\ 2 \in 1..2 /\ 3..2 = {} /\ 1..2 = {1, 2}
    BY <1>3
  <2>3. /\ Sub(Held').entries = Held' /\ Sub(Held').op = "SUB"
        /\ Sub({new}).entries = {new}
    BY DEF Sub
  <2> HIDE DEF new
  <2>4. ASSUME NEW e PROVE IF e \in Held' THEN WillHold(e)' ELSE WillDrop(e)'
    <3>1. CASE e \in Held'
      BY <2>2, <2>3, <3>1 DEF WillHold, Ends, LastOn
    <3>2. CASE e \notin Held'
      BY <1>1, <2>1, <2>2, <2>3, <3>2 DEF WillDrop, Unnamed
    <3> QED
      BY <3>1, <3>2
  <2> QED
    BY <1>1, <2>4 DEF TableInv
<1> QED
  BY <1>2, <1>3 DEF Opened

(* A connection that is over leaves nothing.                               *)
LEMMA HangupTable == ASSUME Hangup PROVE TableInv'
  BY DEF Hangup, TableInv

(* What touches neither slots nor server nor the way there keeps them equal. *)
LEMMA SameTable ==
  ASSUME TableInv, UNCHANGED <<link, subs, toServer, server>>, link => connected' = connected
  PROVE  TableInv'
<1>1. Held' = Held
  BY DEF Held, Active
<1> QED
  BY <1>1 DEF TableInv, WillHold, WillDrop, Ends, LastOn, Unnamed

(* The end of a loop's turn keeps slots and server in step. *)
LEMMA LeaveLoopTable == ASSUME ClientInv, TableInv, LeaveLoop PROVE TableInv'
<1>1. UNCHANGED <<connected, link, server, nextSid>>
  BY DEF LeaveLoop
<1>2. CASE connected
  <2>1. PICK given \in SUBSET Active :
          /\ subs' = [i \in Slots |-> IF i \in given THEN Unused ELSE subs[i]]
          /\ Send(Unsub({subs[i] : i \in given}))
    BY <1>2 DEF LeaveLoop, Cleanup
  <2> QED
    BY <1>1, <2>1, HeldWithout, UnsubTable
<1>3. CASE ~connected
  BY <1>1, <1>3, SameTable DEF LeaveLoop, Cleanup
<1> QED
  BY <1>2, <1>3

(* Every call of the sketch keeps slots and server in step. *)
LEMMA CallTable == ASSUME ClientInv, TableInv, Call PROVE TableInv'
<1>1. ASSUME NEW topic \in Topics, TakeSlot(topic), Send(Sub({Entry(nextSid, topic)})),
             UNCHANGED <<connected, link, server>>
      PROVE  TableInv'
  <2>1. Entry(nextSid, topic) \in Entries /\ Held' = Held \cup {Entry(nextSid, topic)}
    BY <1>1, Taken
  <2> QED
    BY <1>1, <2>1, SubTable
<1>2. ASSUME NEW topic \in Subjects, Subscribe(topic) PROVE TableInv'
  BY <1>1, <1>2 DEF Subscribe, Topics
<1>3. ASSUME NEW topic \in Subjects, Unsubscribe(topic) PROVE TableInv'
  <2>1. PICK i \in Active : subs' = [subs EXCEPT ![i] = Unused] /\ Send(Unsub({subs[i]}))
    BY <1>3 DEF Unsubscribe, Lowest, Holding, Active
  <2>2. subs' = [j \in Slots |-> IF j \in {i} THEN Unused ELSE subs[j]]
    BY <2>1 DEF ClientInv, TypeOK
  <2>3. {subs[j] : j \in {i}} = {subs[i]}
    OBVIOUS
  <2>4. UNCHANGED <<connected, link, server, nextSid>>
    BY <1>3 DEF Unsubscribe
  <2>5. Held' = Held \ {subs[i]} /\ {subs[i]} \in SUBSET Entries
    BY <2>2, <2>3, <2>4, HeldWithout
  <2> QED
    BY <2>1, <2>4, <2>5, UnsubTable
<1>4. CASE Request
  <2>1. nextSid \in Topics
    BY DEF ClientInv, TypeOK, Topics
  <2> QED
    BY <1>1, <1>4, <2>1 DEF Request
<1>5. CASE Disconnect
  BY <1>5, HangupTable DEF Disconnect
<1> QED
  BY <1>2, <1>3, <1>4, <1>5 DEF Call

(* Every step keeps the server's table what the slots say, once all has come. *)
LEMMA TableStep == ClientInv /\ TableInv /\ [Next]_vars => TableInv'
<1> SUFFICES ASSUME ClientInv, TableInv, [Next]_vars PROVE TableInv'
  OBVIOUS
<1>1. CASE Connect
  BY <1>1, OpenedTable DEF Connect
<1>2. CASE Call
  BY <1>2, CallTable
<1>3. CASE NoticeLoss \/ EnterLoop \/ Receive \/ Return \/ Recover
  BY <1>3, SameTable DEF NoticeLoss, EnterLoop, Receive, Return, Recover, callVars, wireVars
<1>4. CASE Reconnect
  <2>1. CASE reachable /\ Opened
    BY <1>4, <2>1, OpenedTable DEF Reconnect
  <2>2. CASE ~(reachable /\ Opened)
    BY <1>4, <2>2, SameTable DEF Reconnect
  <2> QED
    BY <1>4, <2>1, <2>2 DEF Reconnect
<1>5. CASE LeaveLoop
  BY <1>5, LeaveLoopTable
<1>6. CASE \E r \in Requests : Expire(r)
  BY <1>6, SameTable DEF Expire, callVars, wireVars
<1>7. CASE Take
  BY <1>7, TakeTable
<1>8. CASE Emit
  BY <1>8, SameTable DEF Emit, callVars
<1>9. CASE Break
  BY <1>9, HangupTable DEF Break
<1>10. CASE UNCHANGED vars
  BY <1>10, SameTable DEF vars, callVars, wireVars
<1> QED
  BY <1>1, <1>2, <1>3, <1>4, <1>5, <1>6, <1>7, <1>8, <1>9, <1>10 DEF Next, Loop

(* When all that was sent has arrived the server has what the slots say,   *)
(* for any number of slots, calls, losses and reconnections.               *)
THEOREM TableAgrees == Spec => []ServerAgrees
<1>1. Init => TableInv
  BY DEF Init, TableInv
<1>2. ClientInv /\ TableInv => ServerAgrees
  <2> SUFFICES ASSUME ClientInv, TableInv, link, toServer = <<>> PROVE server = Held
    BY DEF ServerAgrees
  <2>1. Len(toServer) = 0 /\ 1..0 = {}
    OBVIOUS
  <2>2. \A e \in Entries : e \in Held <=> e \in server
    BY <2>1 DEF TableInv, WillHold, WillDrop, Ends
  <2>3. Held \subseteq Entries /\ server \subseteq Entries
    BY KnownTypes DEF ClientInv, Known
  <2> QED
    BY <2>2, <2>3
<1> QED
  BY <1>1, <1>2, TableStep, InitInv, StepInv, PTL DEF Spec
=============================================================================
