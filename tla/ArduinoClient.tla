----------------------------- MODULE ArduinoClient -----------------------------
(***************************************************************************)
(* The NATS client of the Arduino devices (arduino-nats-client/src):       *)
(* a fixed number of slots for subscriptions and for pending requests,     *)
(* driven by the sketch's calls of loop().  A handler runs inside loop()   *)
(* and may call the client again.  The server is what the client tells it: *)
(* its table of the subscriptions of the present connection.               *)
(***************************************************************************)
EXTENDS Naturals, Sequences

CONSTANTS
  Subjects,       \* what a sketch subscribes to
  MaxSubscriptions, MaxPending, MaxAttempts,  \* 10, 5 and 5 in the code
  MaxSid,         \* bound: sids handed out
  MaxMessages,    \* bound: messages the server sends
  MaxOutages      \* bound: times the server cannot be reached

ASSUME ClientAssumption ==
  /\ MaxSubscriptions \in Nat \ {0}
  /\ MaxPending \in Nat \ {0}
  /\ MaxAttempts \in Nat
  /\ MaxSid \in Nat
  /\ Subjects \cap Nat = {}

VARIABLES
  connected,      \* _connected
  link,           \* _client.connected()
  attempts,       \* _reconnectAttempts
  subs,           \* _subscriptions: sid 0 marks a slot that is not active
  pend,           \* _pendingRequests: the inbox, 0 in a slot that is not active
  nextSid,        \* _nextSid
  stage,          \* the sketch's own code, inside loop(), or a handler there
  late,           \* the pending requests whose time is over
  toServer,       \* commands on their way
  server,         \* the server's table
  fromServer,     \* messages on their way
  reachable,      \* a connection to the server would succeed now
  messages, outages,
  orphans,        \* history: inboxes given up while disconnected
  failures        \* history: attempts of loop() that failed since it was connected

callVars == <<subs, pend, nextSid, orphans>>
wireVars == <<toServer, server, fromServer>>
worldVars == <<reachable, messages, outages>>
vars == <<connected, link, attempts, stage, late, callVars, wireVars, worldVars, failures>>

Slots == 1..MaxSubscriptions
Requests == 1..MaxPending
Unused == [sid |-> 0, subject |-> 0]
(* A subject of the sketch, or an inbox, named by a number.                *)
Topics == Subjects \cup Nat
Entries == [sid : Nat, subject : Topics]
(* What one call prints in a row: a SUB or an UNSUB for each entry.        *)
Commands == [op : {"SUB", "UNSUB"}, entries : SUBSET Entries]

Init ==
  /\ connected = FALSE
  /\ link = FALSE
  /\ attempts = 0
  /\ subs = [i \in Slots |-> Unused]
  /\ pend = [r \in Requests |-> 0]
  /\ nextSid = 1
  /\ stage = "sketch"
  /\ late = {}
  /\ toServer = <<>>
  /\ server = {}
  /\ fromServer = <<>>
  /\ reachable = TRUE
  /\ messages = 0
  /\ outages = 0
  /\ orphans = {}
  /\ failures = 0

FreeSlots == {i \in Slots : subs[i].sid = 0}
FreeRequests == {r \in Requests : pend[r] = 0}
(* _findSubscription *)
Holding(topic) == {i \in Slots : subs[i].sid # 0 /\ subs[i].subject = topic}
Lowest(S) == {i \in S : \A j \in S : i <= j}
Entry(sid, topic) == [sid |-> sid, subject |-> topic]
Sub(entries) == [op |-> "SUB", entries |-> entries]
Unsub(entries) == [op |-> "UNSUB", entries |-> entries]

(* print() on a connection that is down goes nowhere.                      *)
Send(command) ==
  toServer' = IF link /\ command.entries # {} THEN Append(toServer, command) ELSE toServer

(* What the sketch, or one of its handlers, may call the client for.       *)
Calling == stage \in {"sketch", "handler"}

(* A mutant: the sid is the slot's number. *)
TakeSlotNumber(topic) ==
  \E i \in Lowest(FreeSlots) :
    /\ i <= MaxSid
    /\ nextSid <= MaxSid
    /\ subs' = [subs EXCEPT ![i] = Entry(i, topic)]
    /\ nextSid' = nextSid + 1

TakeSlot(topic) ==
  /\ nextSid <= MaxSid
  /\ \E i \in Lowest(FreeSlots) : subs' = [subs EXCEPT ![i] = Entry(nextSid, topic)]
  /\ nextSid' = nextSid + 1

(* subscribe.  Without a connection or a slot it returns false.            *)
Subscribe(topic) ==
  /\ Calling
  /\ connected
  /\ TakeSlot(topic)
  /\ Send(Sub({Entry(nextSid, topic)}))
  /\ UNCHANGED <<connected, link, attempts, pend, stage, late, server, fromServer, worldVars, orphans, failures>>

(* unsubscribe: the first slot with the subject. *)
Unsubscribe(topic) ==
  /\ Calling
  /\ connected
  /\ \E i \in Lowest(Holding(topic)) :
       /\ subs' = [subs EXCEPT ![i] = Unused]
       /\ Send(Unsub({subs[i]}))
  /\ UNCHANGED <<connected, link, attempts, pend, nextSid, stage, late, server, fromServer, worldVars, orphans, failures>>

(* request: a slot for it, and one for its inbox, which is new. *)
Request ==
  /\ Calling
  /\ connected
  /\ TakeSlot(nextSid)
  /\ Send(Sub({Entry(nextSid, nextSid)}))
  /\ \E r \in Lowest(FreeRequests) : pend' = [pend EXCEPT ![r] = nextSid]
  /\ UNCHANGED <<connected, link, attempts, stage, late, server, fromServer, worldVars, orphans, failures>>

(* _client.stop(), or the end of the connection: nothing on it survives.   *)
Hangup ==
  /\ link' = FALSE
  /\ toServer' = <<>>
  /\ server' = {}
  /\ fromServer' = <<>>

Disconnect ==
  /\ Calling
  /\ connected
  /\ Hangup
  /\ connected' = FALSE
  /\ UNCHANGED <<attempts, callVars, stage, late, worldVars, failures>>

-----------------------------------------------------------------------------
(* connect() once the server has said +OK: the connect handler runs, it    *)
(* may subscribe to one subject, and then every active slot is sent.       *)
(* Whether a server says so is its choice: connect() asks for verbose off, *)
(* with which NATS sends no +OK, and then gives up after its time-out.     *)
Active == {i \in Slots : subs[i].sid # 0}
Held == {subs[i] : i \in Active}
(* A mutant: the slots are not sent again. *)
OpenedOnly ==
  /\ connected' = TRUE
  /\ link' = TRUE
  /\ attempts' = 0
  /\ failures' = 0
  /\ toServer' = <<>>
  /\ UNCHANGED <<subs, nextSid>>

(* A mutant: the attempts are not counted from 0 again. *)
OpenedCounting ==
  /\ connected' = TRUE
  /\ link' = TRUE
  /\ failures' = 0
  /\ toServer' = <<Sub(Held)>>
  /\ UNCHANGED <<attempts, subs, nextSid>>

Opened ==
  /\ connected' = TRUE
  /\ link' = TRUE
  /\ attempts' = 0
  /\ failures' = 0
  /\ \/ /\ toServer' = <<Sub(Held)>>
        /\ UNCHANGED <<subs, nextSid>>
     \/ \E topic \in Subjects :
          /\ TakeSlot(topic)
          /\ toServer' = <<Sub({Entry(nextSid, topic)}), Sub(Held')>>

(* The sketch calls connect(); one that fails changes nothing.              *)
Connect ==
  /\ stage = "sketch"
  /\ ~link
  /\ reachable
  /\ Opened
  /\ UNCHANGED <<pend, stage, late, server, fromServer, worldVars, orphans>>

(* loop() finds the connection gone. *)
NoticeLoss ==
  /\ stage = "sketch"
  /\ ~link
  /\ connected
  /\ connected' = FALSE
  /\ UNCHANGED <<link, attempts, callVars, stage, late, wireVars, worldVars, failures>>

(* ... and five seconds after the last attempt tries again.  The attempt   *)
(* fails if there is no server, or none that says +OK in time.             *)
Reconnect ==
  /\ stage = "sketch"
  /\ ~link
  /\ attempts < MaxAttempts
  /\ \/ reachable /\ Opened
     \/ /\ attempts' = attempts + 1
        /\ failures' = failures + 1
        /\ connected' = FALSE
        /\ UNCHANGED <<link, subs, nextSid, toServer>>
  /\ UNCHANGED <<pend, stage, late, server, fromServer, worldVars, orphans>>

(* loop() finds the connection up. *)
EnterLoop ==
  /\ stage = "sketch"
  /\ link
  /\ stage' = "loop"
  /\ UNCHANGED <<connected, link, attempts, late, callVars, wireVars, worldVars, failures>>

(* _processMsg: the handler of the slot with the message's sid is called.  *)
Receive ==
  /\ stage = "loop"
  /\ fromServer # <<>>
  /\ fromServer' = Tail(fromServer)
  /\ stage' = IF \E i \in Slots : subs[i].sid = Head(fromServer).sid THEN "handler" ELSE "loop"
  /\ UNCHANGED <<connected, link, attempts, late, callVars, toServer, server, worldVars, failures>>

Return ==
  /\ stage = "handler"
  /\ stage' = "loop"
  /\ UNCHANGED <<connected, link, attempts, late, callVars, wireVars, worldVars, failures>>

(* Mutants of the next: the inbox stays subscribed; nothing is over.       *)
CleanupOnly ==
  /\ pend' = [r \in Requests |-> IF r \in late THEN 0 ELSE pend[r]]
  /\ UNCHANGED <<subs, toServer, orphans>>
NoCleanup == UNCHANGED <<pend, subs, toServer, orphans>>

(* _cleanupPendingRequests: an unsubscribe for each request that is late,  *)
(* refused if a handler has disconnected; the request is over in any case. *)
Cleanup ==
  LET inboxes == {pend[r] : r \in late}
      given == {i \in Active : subs[i].subject \in inboxes}
  IN /\ pend' = [r \in Requests |-> IF r \in late THEN 0 ELSE pend[r]]
     /\ IF connected
        THEN /\ subs' = [i \in Slots |-> IF i \in given THEN Unused ELSE subs[i]]
             /\ Send(Unsub({subs[i] : i \in given}))
             /\ UNCHANGED orphans
        ELSE /\ orphans' = orphans \cup inboxes
             /\ UNCHANGED <<subs, toServer>>

(* The rest of loop(). *)
LeaveLoop ==
  /\ stage = "loop"
  /\ fromServer = <<>>
  /\ Cleanup
  /\ stage' = "sketch"
  /\ late' = {}
  /\ UNCHANGED <<connected, link, attempts, nextSid, server, fromServer, worldVars, failures>>

(* A request's time is over: millis() - timestamp > timeout. *)
Expire(r) ==
  /\ pend[r] # 0
  /\ r \notin late
  /\ late' = late \cup {r}
  /\ UNCHANGED <<connected, link, attempts, stage, callVars, wireVars, worldVars, failures>>

-----------------------------------------------------------------------------
(* The server takes a command. *)
Take ==
  /\ toServer # <<>>
  /\ toServer' = Tail(toServer)
  /\ LET command == Head(toServer)
     IN server' = IF command.op = "SUB" THEN server \cup command.entries
                  ELSE server \ command.entries
  /\ UNCHANGED <<connected, link, attempts, stage, late, callVars, fromServer, worldVars, failures>>

(* ... and sends a message for a subscription it has. *)
Emit ==
  /\ messages < MaxMessages
  /\ \E e \in server : fromServer' = Append(fromServer, e)
  /\ messages' = messages + 1
  /\ UNCHANGED <<connected, link, attempts, stage, late, callVars, toServer, server, reachable, outages, failures>>

(* The connection breaks. *)
Break ==
  /\ link
  /\ outages < MaxOutages
  /\ outages' = outages + 1
  /\ Hangup
  /\ reachable' \in BOOLEAN
  /\ UNCHANGED <<connected, attempts, stage, late, callVars, messages, failures>>

Recover ==
  /\ ~reachable
  /\ reachable' = TRUE
  /\ UNCHANGED <<connected, link, attempts, stage, late, callVars, wireVars, messages, outages, failures>>

Call == (\E topic \in Subjects : Subscribe(topic) \/ Unsubscribe(topic)) \/ Request \/ Disconnect
Loop == NoticeLoss \/ Reconnect \/ EnterLoop \/ Receive \/ Return \/ LeaveLoop

Next ==
  \/ Connect \/ Call \/ Loop
  \/ \E r \in Requests : Expire(r)
  \/ Take \/ Emit \/ Break \/ Recover

Spec == Init /\ [][Next]_vars

(* The sketch calls loop() again and again, handlers return, time passes,  *)
(* the server works off what it is sent and can be reached again.          *)
Fairness ==
  /\ WF_vars(NoticeLoss) /\ WF_vars(Reconnect) /\ WF_vars(EnterLoop)
  /\ WF_vars(Receive) /\ WF_vars(Return) /\ WF_vars(LeaveLoop)
  /\ \A r \in Requests : WF_vars(Expire(r))
  /\ WF_vars(Take) /\ WF_vars(Recover)
FairSpec == Spec /\ Fairness

-----------------------------------------------------------------------------
(* Every variable has its type.                                            *)
TypeOK ==
  /\ connected \in BOOLEAN
  /\ link \in BOOLEAN
  /\ attempts \in 0..MaxAttempts
  /\ subs \in [Slots -> Entries]
  /\ pend \in [Requests -> Nat]
  /\ nextSid \in Nat \ {0}
  /\ stage \in {"sketch", "loop", "handler"}
  /\ late \subseteq Requests
  /\ toServer \in Seq(Commands)
  /\ server \subseteq Entries
  /\ fromServer \in Seq(Entries)
  /\ reachable \in BOOLEAN
  /\ messages \in Nat
  /\ outages \in Nat
  /\ orphans \subseteq Nat
  /\ failures \in Nat

(* A message is handled by a slot that was subscribed to its subject, and  *)
(* by no later occupant of that slot, whatever was unsubscribed and        *)
(* reconnected since the server sent it.                                   *)
RightHandler == \A k \in DOMAIN fromServer, i \in Slots :
  fromServer[k].sid = subs[i].sid /\ subs[i].sid # 0 => fromServer[k].subject = subs[i].subject

(* A pending request holds exactly one slot for its inbox, and an inbox    *)
(* slot belongs to a pending request: slots are given back, but for        *)
(* requests that ran out in the very loop() whose handler disconnected.    *)
InboxHeld ==
  /\ \A r \in Requests : pend[r] # 0 =>
       \E i \in Slots : Holding(pend[r]) = {i}
  /\ \A i \in Slots : subs[i].sid # 0 /\ subs[i].subject \in Nat =>
       (\E r \in Requests : pend[r] = subs[i].subject) \/ subs[i].subject \in orphans

(* When everything sent has arrived the server holds what the client's     *)
(* slots say, after any number of reconnections and of calls made between  *)
(* a loss and its detection.                                               *)
ServerAgrees ==
  connected /\ link /\ toServer = <<>> => server = Held

(* A request ends, unless the connection does.                             *)
RequestEnds == \A r \in Requests : (pend[r] # 0) ~> (pend[r] = 0 \/ ~link)

(* A device that is not connected tries until it is, however many attempts *)
(* and connections went before: it gives up after MaxAttempts failures in  *)
(* a row since it was last connected (_reconnect, line 610), not earlier.  *)
BackUnlessGivenUp == ~connected ~> connected \/ failures >= MaxAttempts
=============================================================================
