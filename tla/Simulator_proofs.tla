--------------------------- MODULE Simulator_proofs ---------------------------
(***************************************************************************)
(* Proofs about the simulator: about its page first, and about the hub the *)
(* page's messages come from.  The two modules have no name in common.     *)
(*                                                                         *)
(* The cards of the simulator's page are what its boxes and its search ask *)
(* for.  Cards are drawn from the set of filters, and what the user sees   *)
(* is the boxes; the inductive invariant says that the two are the same,   *)
(* because "all" is a filter only when it is the only one.                 *)
(*                                                                         *)
(* What the page holds is what the simulator has, or is about to tell it.  *)
(* The invariant says of a device for which no excuse is needed that the   *)
(* last message on its way says what the simulator has, or that the one    *)
(* that will say it has still to be sent: the page may take any number of  *)
(* older messages before.                                                  *)
(***************************************************************************)
EXTENDS SimulatorPage, SimHub, FiniteSetTheorems, SequenceTheorems, TLAPS

BoxesAreFilters == checked = filters /\ ("all" \in filters => filters = {"all"})
CardsInv == early \/ (BoxesAreFilters /\ cards = Shown(devices, filters, search))

(* The page begins with the box of all devices and no cards. *)
LEMMA CardsInit == Init => CardsInv
<1>1. SUFFICES ASSUME Init PROVE BoxesAreFilters /\ cards = Shown(devices, filters, search)
  BY DEF CardsInv
<1>2. BoxesAreFilters
  BY <1>1 DEF Init, BoxesAreFilters
<1>3. cards = Shown(devices, filters, search)
  BY <1>1 DEF Init, Shown
<1> QED
  BY <1>2, <1>3

(* Steps that leave the boxes and the search alone and draw what they      *)
(* change.                                                                 *)
Drawn == UNCHANGED <<devices, cards>> \/ RenderDevices

(* With boxes and search left alone, cards that are drawn again are those shown. *)
LEMMA DrawnKeeps == CardsInv /\ UNCHANGED filterVars /\ Drawn => CardsInv'
  BY DEF CardsInv, BoxesAreFilters, filterVars, Drawn, RenderDevices

(* updateDevice, removeDevice and the change of a state draw the cards. *)
LEMMA StateDrawn == ASSUME NEW d, NEW state, SetState(d, state) PROVE Drawn
  BY DEF SetState, UpdateDevice, Drawn

(* The handlers of the boxes keep them and the filters the same. *)
LEMMA HandlersAgree ==
  ASSUME NEW b, BoxesAreFilters, SetupFilterHandlers(b) PROVE BoxesAreFilters'
<1>1. CASE b = "all" /\ b \notin checked
  BY <1>1 DEF SetupFilterHandlers, BoxesAreFilters
<1>2. CASE b = "all" /\ b \in checked
  <2>1. filters = {"all"}
    BY <1>2 DEF BoxesAreFilters
  <2>2. Cardinality(filters) = 1
    BY <2>1, FS_Singleton
  <2>3. filters' = filters /\ checked' = checked
    BY <1>2, <2>2 DEF SetupFilterHandlers
  <2> QED
    BY <2>3 DEF BoxesAreFilters
<1>3. CASE b # "all" /\ b \notin checked
  <2>1. filters' = (filters \ {"all"}) \cup {b} /\ checked' = (checked \ {"all"}) \cup {b}
    BY <1>3 DEF SetupFilterHandlers
  <2> QED
    BY <1>3, <2>1 DEF BoxesAreFilters
<1>4. CASE b # "all" /\ b \in checked
  <2>1. Uncheck(b)
    BY <1>4 DEF SetupFilterHandlers
  <2>2. CASE filters = {b}
    BY <2>1, <2>2 DEF Uncheck, BoxesAreFilters
  <2>3. CASE filters # {b}
    BY <1>4, <2>1, <2>3 DEF Uncheck, BoxesAreFilters
  <2> QED
    BY <2>2, <2>3
<1> QED
  BY <1>1, <1>2, <1>3, <1>4

(* A box, before and after init is over. *)
LEMMA BoxKeeps == ASSUME NEW b, CardsInv, ChangeBox(b) PROVE CardsInv'
<1>1. CASE ready /\ ~early
  <2>1. BoxesAreFilters'
    BY <1>1, HandlersAgree DEF CardsInv, ChangeBox
  <2> QED
    BY <2>1 DEF CardsInv, ChangeBox, RenderDevices
<1>2. CASE ready /\ early
  BY <1>2 DEF CardsInv, ChangeBox
<1>3. CASE ~ready
  BY <1>3 DEF CardsInv, ChangeBox
<1> QED
  BY <1>1, <1>2, <1>3

(* What the user does. *)
LEMMA UserKeeps == ASSUME CardsInv, User PROVE CardsInv'
<1>1. ASSUME NEW b \in Boxes, ChangeBox(b) PROVE CardsInv'
  BY <1>1, BoxKeeps
<1>2. ASSUME NEW ds \in SUBSET Devices, SearchDevices(ds) PROVE CardsInv'
  BY <1>2 DEF SearchDevices, CardsInv, BoxesAreFilters, RenderDevices
<1>3. ASSUME NEW sent, AskAll(sent) PROVE CardsInv'
  BY <1>3, DrawnKeeps DEF AskAll, Drawn
<1>4. ASSUME NEW d \in Devices,
             SaveDevice(d) \/ DeleteDevice(d) \/ QuickAction(d) \/ ImportDevices({d})
      PROVE CardsInv'
  <2>1. \E sent : AskAll(sent)
    BY <1>4, Zenon DEF SaveDevice, DeleteDevice, QuickAction, ImportDevices, AskOnly
  <2> QED
    BY <2>1, <1>3
<1>5. ASSUME NEW control, NEW value, UseControl(control, value) PROVE CardsInv'
  <2>1. \E sent : AskAll(sent)
    BY <1>5, Zenon DEF UseControl
  <2> QED
    BY <2>1, <1>3
<1>6. ASSUME (\E d \in Devices : EditDevice(d) \/ ShowDeviceControls(d)) \/ ShowAddDevice \/ CloseDialog
      PROVE CardsInv'
  BY <1>6, DrawnKeeps DEF EditDevice, ShowDeviceControls, ShowAddDevice, CloseDialog, Drawn
<1> QED
  BY <1>1, <1>2, <1>4, <1>5, <1>6 DEF User

(* What the page takes from answers. *)
LEMMA AnswerKeeps == ASSUME NEW r, CardsInv, Answer(r) PROVE CardsInv'
<1>1. CASE AnswerList(r)
  BY <1>1, DrawnKeeps DEF Answer, AnswerList, Drawn
<1>2. CASE AnswerSave(r)
  BY <1>2, DrawnKeeps DEF Answer, AnswerSave, UpdateDevice, Drawn
<1>3. CASE AnswerState(r)
  BY <1>3, DrawnKeeps, StateDrawn DEF Answer, AnswerState
<1>4. CASE AnswerDelete(r)
  BY <1>4, DrawnKeeps DEF Answer, AnswerDelete, RemoveDevice, Drawn
<1>5. CASE AnswerImport(r)
  BY <1>5, DrawnKeeps DEF Answer, AnswerImport, Drawn
<1>6. CASE AnswerFailed(r)
  BY <1>6, DrawnKeeps DEF Answer, AnswerFailed, Drawn
<1> QED
  BY <1>1, <1>2, <1>3, <1>4, <1>5, <1>6 DEF Answer

(* Every step keeps the invariant. *)
LEMMA CardsStep == CardsInv /\ [Next]_vars => CardsInv'
<1> SUFFICES ASSUME CardsInv, [Next]_vars PROVE CardsInv'
  OBVIOUS
<1>1. CASE User
  BY <1>1, UserKeeps
<1>2. CASE OnOpen \/ OnClose \/ ConnectWebSocket
  BY <1>2, DrawnKeeps DEF OnOpen, OnClose, ConnectWebSocket, Drawn
<1>3. CASE OnMessage
  BY <1>3, DrawnKeeps DEF OnMessage, HandleWebSocketMessage, UpdateDevice, Drawn
<1>4. ASSUME NEW d \in Devices, ChangeElsewhere(d) \/ ChangeUntold(d) PROVE CardsInv'
  BY <1>4, DrawnKeeps DEF ChangeElsewhere, ChangeUntold, Drawn
<1>5. ASSUME NEW r \in requests, Handle(r) \/ Publish(r) \/ Lose(r) PROVE CardsInv'
  BY <1>5, DrawnKeeps DEF Handle, Publish, Lose, Drawn
<1>6. ASSUME NEW r \in requests, Answer(r) PROVE CardsInv'
  BY <1>6, AnswerKeeps
<1>7. CASE UNCHANGED vars
  BY <1>7, DrawnKeeps DEF vars, filterVars, Drawn
<1> QED
  BY <1>1, <1>2, <1>3, <1>4, <1>5, <1>6, <1>7 DEF Next

(* The cards are those of the devices held that the checked boxes and the  *)
(* search ask for, for any set of devices and types and any number of      *)
(* requests, messages and losses (device-simulator.js:110, :803).          *)
THEOREM CardsAsked == Spec => []CardsAsAsked
<1>1. CardsInv => CardsAsAsked
  BY DEF CardsInv, CardsAsAsked, BoxesAreFilters
<1> QED
  BY <1>1, CardsInit, CardsStep, PTL DEF Spec

(***************************************************************************)
(* Types.                                                                  *)
(***************************************************************************)

IsMap(f) == f = [d \in Devices |-> f[d]]
IsDevice(x) == x = None \/ x = [name |-> x.name, state |-> x.state]

DeviceOps == {"update", "state", "toggle", "power", "create", "delete"}

RequestOK(r) ==
  /\ r = [n |-> r.n, op |-> r.op, id |-> r.id, value |-> r.value, status |-> r.status,
          reply |-> r.reply]
  /\ r.op \in DeviceOps => r.id \in Devices
  /\ r.op = "create" => IsDevice(r.value)
  /\ r.op = "list" /\ r.status = "ok" => IsMap(r.reply)
  /\ r.status = "handled" => r.op \in DeviceOps

WireOK == \E S : wire \in Seq(S)
ServerOK == IsMap(server) /\ \A d \in Devices : IsDevice(server[d])
PageOK == IsMap(devices) /\ (controlsOf = None \/ controlsOf \in Devices)
RequestsOK == \A r \in requests : RequestOK(r)

TypeInv == WireOK /\ ServerOK /\ PageOK /\ RequestsOK

-----------------------------------------------------------------------------
(* A map of devices with one more entry, or another, is such a map. *)
LEMMA Put ==
  ASSUME NEW f, IsMap(f), NEW d, NEW x
  PROVE  /\ IsMap([f EXCEPT ![d] = x])
         /\ \A e \in Devices : [f EXCEPT ![d] = x][e] = IF e = d THEN x ELSE f[e]
<1> DEFINE g == [f EXCEPT ![d] = x]
<1>1. \A e \in Devices : g[e] = IF e = d THEN x ELSE f[e]
  BY DEF IsMap
<1>2. IsMap(g)
  BY DEF IsMap
<1> QED
  BY <1>1, <1>2

(* What the page sends is a request. *)
LEMMA SentOK ==
  ASSUME NEW op, NEW d, NEW value, op \in DeviceOps => d \in Devices,
         op = "create" => IsDevice(value)
  PROVE  RequestOK(Sent(op, d, value))
<1>1. PICK n : Sent(op, d, value) = [n |-> n, op |-> op, id |-> d, value |-> value,
                                     status |-> "sent", reply |-> None]
  BY DEF Sent
<1> QED
  BY <1>1 DEF RequestOK

(* A request takes a new status, and an answer.                            *)
LEMMA Settled ==
  ASSUME NEW r, RequestOK(r), NEW s, NEW v, r.op = "list" /\ s = "ok" => IsMap(v),
         s = "handled" => r.op \in DeviceOps
  PROVE  LET t == [r EXCEPT !.status = s, !.reply = v]
         IN  RequestOK(t) /\ t.op = r.op /\ t.id = r.id /\ t.status = s /\ t.reply = v
<1>1. PICK n, op, d, w, q, x :
        r = [n |-> n, op |-> op, id |-> d, value |-> w, status |-> q, reply |-> x]
  BY DEF RequestOK
<1>2. PICK t : t = [r EXCEPT !.status = s, !.reply = v]
  OBVIOUS
<1>3. t = [n |-> n, op |-> op, id |-> d, value |-> w, status |-> s, reply |-> v]
  BY <1>1, <1>2
<1>4. RequestOK(t)
  BY <1>1, <1>3 DEF RequestOK
<1> QED
  BY <1>1, <1>2, <1>3, <1>4

(* A request that changes its status only is a request, the same otherwise. *)
LEMMA Marked ==
  ASSUME NEW r, RequestOK(r), NEW s, r.op # "list" \/ s # "ok", s # "handled"
  PROVE  LET t == [r EXCEPT !.status = s]
         IN  RequestOK(t) /\ t.op = r.op /\ t.id = r.id /\ t.status = s
<1>1. PICK n, op, d, w, q, x :
        r = [n |-> n, op |-> op, id |-> d, value |-> w, status |-> q, reply |-> x]
  BY DEF RequestOK
<1>2. PICK t : t = [r EXCEPT !.status = s]
  OBVIOUS
<1>3. t = [n |-> n, op |-> op, id |-> d, value |-> w, status |-> s, reply |-> x]
  BY <1>1, <1>2
<1>4. RequestOK(t)
  BY <1>1, <1>3 DEF RequestOK
<1> QED
  BY <1>1, <1>2, <1>3, <1>4

(* What the simulator makes of a request about a device is a device. *)
LEMMA OutcomeOK ==
  ASSUME ServerOK, NEW r, RequestOK(r), r.op \in DeviceOps,
         r.op = "create" \/ server[r.id] # None
  PROVE  IsDevice(Outcome(r))
<1>1. CASE r.op \in {"create", "delete"}
  BY <1>1 DEF Outcome, RequestOK, IsDevice
<1>2. CASE r.op \notin {"create", "delete"}
  <2>1. PICK n, s : server[r.id] = [name |-> n, state |-> s]
    BY <1>2 DEF ServerOK, IsDevice, RequestOK
  <2>2. \E m, t : Outcome(r) = [name |-> m, state |-> t]
    BY <1>2, <2>1 DEF Outcome, DeviceOps
  <2> QED
    BY <2>2 DEF IsDevice
<1> QED
  BY <1>1, <1>2

(* A message that is broadcast comes after all that were on the wire. *)
LEMMA AppendWire ==
  ASSUME NEW S, wire \in Seq(S), NEW m, wire' = Append(wire, m)
  PROVE  /\ wire' \in Seq(S \cup {m})
         /\ Len(wire) \in Nat /\ Len(wire') = Len(wire) + 1 /\ wire'[Len(wire')] = m
         /\ \A i \in 1..Len(wire) : i \in 1..Len(wire') /\ wire'[i] = wire[i]
         /\ \A i \in 1..Len(wire') : i \in 1..Len(wire) \/ i = Len(wire')
<1>1. wire \in Seq(S \cup {m})
  BY SeqMonotonic
<1> QED
  BY <1>1

(* Messages are taken one by one, and what is left keeps its order.        *)
LEMMA Shift ==
  ASSUME NEW S, wire \in Seq(S), wire # <<>>, wire' = Tail(wire)
  PROVE  /\ wire' \in Seq(S) /\ Head(wire) = wire[1]
         /\ Len(wire) \in Nat /\ Len(wire') = Len(wire) - 1 /\ 1 \in 1..Len(wire)
         /\ \A i \in 1..Len(wire') : i + 1 \in 2..Len(wire) /\ wire'[i] = wire[i + 1]
         /\ \A i \in 2..Len(wire) : i - 1 \in 1..Len(wire') /\ wire'[i - 1] = wire[i]
  BY EmptySeq

(* The page begins with no devices and no requests. *)
LEMMA TypeInit == Init => TypeInv
<1> SUFFICES ASSUME Init PROVE TypeInv
  OBVIOUS
<1>1. WireOK
  BY DEF Init, WireOK
<1>2. ServerOK
  BY DEF Init, ServerOK, IsMap, IsDevice
<1>3. PageOK
  BY DEF Init, PageOK, IsMap
<1>4. RequestsOK
  BY DEF Init, RequestsOK, RequestOK, DeviceOps
<1> QED
  BY <1>1, <1>2, <1>3, <1>4 DEF TypeInv

(* What happens on the wire and to the simulator's devices.                *)
LEMMA WireKept == ASSUME WireOK, [Next]_vars PROVE WireOK'
<1>1. ASSUME NEW m, wire' = Append(wire, m) PROVE WireOK'
  BY <1>1, AppendWire DEF WireOK
<1>2. CASE wire' = wire \/ wire' = <<>>
  <2>1. <<>> \in Seq({})
    BY EmptySeq
  <2> QED
    BY <1>2, <2>1 DEF WireOK
<1>3. CASE wire # <<>> /\ wire' = Tail(wire)
  BY <1>3, Shift DEF WireOK
<1>4. ASSUME NEW m, Broadcast(m) PROVE WireOK'
  BY <1>1, <1>2, <1>4 DEF Broadcast
<1>5. CASE UNCHANGED vars
  BY <1>2, <1>5 DEF vars, serverVars
<1>6. CASE User
  <2>1. UNCHANGED serverVars
    BY <1>6, Zenon DEF User, ChangeBox, SearchDevices, EditDevice, ShowDeviceControls, SaveDevice, DeleteDevice,
       QuickAction, ImportDevices, UseControl, ShowAddDevice, CloseDialog, AskOnly, AskAll
  <2> QED
    BY <1>2, <2>1 DEF serverVars
<1>7. CASE OnOpen \/ OnClose \/ ConnectWebSocket \/ OnMessage
  BY <1>2, <1>3, <1>7 DEF OnOpen, OnClose, ConnectWebSocket, OnMessage, serverVars
<1>8. ASSUME NEW d, ChangeElsewhere(d) \/ ChangeUntold(d) PROVE WireOK'
  BY <1>2, <1>4, <1>8 DEF ChangeElsewhere, ChangeUntold
<1>9. ASSUME NEW r, Handle(r) \/ Publish(r) \/ Answer(r) \/ Lose(r) PROVE WireOK'
  BY <1>2, <1>4, <1>9 DEF Handle, HandleDevice, HandleGetDevices, HandleImportDevices, Publish, Answer, Lose,
     serverVars
<1> QED
  BY <1>5, <1>6, <1>7, <1>8, <1>9 DEF Next

(* Of the steps only these change a device of the simulator.               *)
LEMMA ServerChanges ==
  ASSUME Next
  PROVE  \/ server' = server
         \/ \E d \in Devices : ChangeElsewhere(d) \/ ChangeUntold(d)
         \/ \E r \in requests : r.status = "sent" /\ (HandleDevice(r) \/ HandleImportDevices(r))
<1>1. CASE User
  BY <1>1, Zenon DEF User, ChangeBox, SearchDevices, EditDevice, ShowDeviceControls, SaveDevice, DeleteDevice,
     QuickAction, ImportDevices, UseControl, ShowAddDevice, CloseDialog, AskOnly, AskAll, serverVars
<1>2. CASE OnOpen \/ OnClose \/ ConnectWebSocket \/ OnMessage
  BY <1>2 DEF OnOpen, OnClose, ConnectWebSocket, OnMessage, serverVars
<1>3. ASSUME NEW r, Publish(r) \/ Answer(r) \/ Lose(r) \/ (Handle(r) /\ HandleGetDevices(r))
      PROVE  server' = server
  BY <1>3 DEF Publish, Answer, Lose, HandleGetDevices, serverVars
<1> QED
  BY <1>1, <1>2, <1>3 DEF Next, Handle

(* Every step keeps the simulator's devices devices. *)
LEMMA ServerKept == ASSUME TypeInv, [Next]_vars PROVE ServerOK'
<1> USE DEF TypeInv
<1>1. CASE server' = server
  BY <1>1 DEF ServerOK, IsMap
<1>2. ASSUME NEW d \in Devices, NEW x, IsDevice(x), server' = [server EXCEPT ![d] = x] PROVE ServerOK'
  <2>1. IsMap(server') /\ \A e \in Devices : server'[e] = IF e = d THEN x ELSE server[e]
    BY <1>2 DEF ServerOK, IsMap
  <2>2. \A e \in Devices : IsDevice(server'[e])
    BY <1>2, <2>1 DEF ServerOK
  <2> QED
    BY <2>1, <2>2 DEF ServerOK
<1>3. ASSUME NEW d \in Devices, ChangeElsewhere(d) \/ ChangeUntold(d) PROVE ServerOK'
  <2>1. server[d] = None \/ \E n, s : server[d] = [name |-> n, state |-> s]
    BY DEF ServerOK, IsDevice
  <2>2. CASE ChangeElsewhere(d)
    <3> DEFINE x == IF server[d] = None THEN [name |-> "old", state |-> Initial[d]]
                    ELSE [server[d] EXCEPT !.state = Toggled(DeviceType[d], @)]
    <3>1. server' = [server EXCEPT ![d] = x]
      BY <2>2, Zenon DEF ChangeElsewhere
    <3>2. IsDevice(x)
      BY <2>1 DEF IsDevice
    <3> QED
      BY <1>2, <3>1, <3>2
  <2>3. CASE ChangeUntold(d)
    <3>1. \/ server' = [server EXCEPT ![d] = None]
          \/ server[d] # None /\ server' = [server EXCEPT ![d] =
               [server[d] EXCEPT !.state = Toggled(DeviceType[d], server[d].state)]]
      BY <2>3 DEF ChangeUntold
    <3> QED
      BY <1>2, <2>1, <3>1 DEF IsDevice
  <2> QED
    BY <1>3, <2>2, <2>3
<1>4. ASSUME NEW r \in requests, HandleDevice(r) PROVE ServerOK'
  <2>1. RequestOK(r) /\ r.op \in DeviceOps /\ r.id \in Devices
    BY <1>4 DEF HandleDevice, DeviceOps, RequestsOK, RequestOK
  <2>2. CASE r.op # "create" /\ server[r.id] = None
    BY <1>1, <1>4, <2>2 DEF HandleDevice
  <2>3. CASE r.op = "create" \/ server[r.id] # None
    <3>1. server' = [server EXCEPT ![r.id] = Outcome(r)]
      BY <1>4, <2>3 DEF HandleDevice
    <3> QED
      BY <1>2, <2>1, <2>3, <3>1, OutcomeOK
  <2> QED
    BY <2>2, <2>3
<1>5. ASSUME NEW r, HandleImportDevices(r) PROVE ServerOK'
  BY <1>5 DEF HandleImportDevices, ServerOK, IsMap, IsDevice
<1>6. CASE UNCHANGED vars
  BY <1>1, <1>6 DEF vars, serverVars
<1> QED
  BY <1>1, <1>3, <1>4, <1>5, <1>6, ServerChanges

(* A state that is set leaves the page's map a map. *)
LEMMA SetStateMap == ASSUME IsMap(devices), NEW d, NEW state, SetState(d, state) PROVE IsMap(devices')
  BY DEF SetState, UpdateDevice, IsMap

(* Every step keeps the page's devices, boxes and dialogs of their types. *)
LEMMA PageKept == ASSUME TypeInv, [Next]_vars PROVE PageOK'
<1> USE DEF TypeInv
<1>1. CASE devices' = devices
  <2>1. \/ UNCHANGED controlsOf \/ controlsOf' = None
        \/ \E d \in Devices : controlsOf' = d
    <3>1. CASE UNCHANGED vars
      BY <3>1 DEF vars, dialogVars
    <3>2. CASE User
      BY <3>2, Zenon DEF User, ChangeBox, SearchDevices, EditDevice, ShowDeviceControls, SaveDevice, DeleteDevice,
         QuickAction, ImportDevices, UseControl, ShowAddDevice, CloseDialog, CloseControlModal, AskOnly, AskAll,
         dialogVars
    <3>3. CASE OnOpen \/ OnClose \/ ConnectWebSocket \/ OnMessage
      BY <3>3 DEF OnOpen, OnClose, ConnectWebSocket, OnMessage, dialogVars
    <3>4. ASSUME NEW d, ChangeElsewhere(d) \/ ChangeUntold(d) PROVE UNCHANGED controlsOf
      BY <3>4 DEF ChangeElsewhere, ChangeUntold, dialogVars
    <3>5. ASSUME NEW r, Handle(r) \/ Publish(r) \/ Lose(r) PROVE UNCHANGED controlsOf
      BY <3>5 DEF Handle, Publish, Lose, dialogVars
    <3>6. ASSUME NEW r, Answer(r) PROVE UNCHANGED controlsOf \/ controlsOf' = None
      BY <3>6 DEF Answer, AnswerList, AnswerSave, AnswerState, AnswerDelete, AnswerImport, AnswerFailed,
         CloseControlModal, dialogVars
    <3> QED
      BY <3>1, <3>2, <3>3, <3>4, <3>5, <3>6 DEF Next
  <2> QED
    BY <1>1, <2>1 DEF PageOK, IsMap
<1>2. CASE OnMessage
  <2>1. UNCHANGED controlsOf /\ devices' = [devices EXCEPT ![Head(wire).id] = Head(wire).device]
    BY <1>2 DEF OnMessage, HandleWebSocketMessage, UpdateDevice, dialogVars
  <2> QED
    BY <2>1 DEF PageOK, IsMap
<1>3. ASSUME NEW r \in requests, Answer(r) PROVE PageOK'
  <2>1. UNCHANGED controlsOf \/ controlsOf' = None
    BY <1>3 DEF Answer, AnswerList, AnswerSave, AnswerState, AnswerDelete, AnswerImport, AnswerFailed,
       CloseControlModal, dialogVars
  <2>2. IsMap(devices')
    <3>1. CASE AnswerList(r)
      BY <3>1 DEF AnswerList, RequestsOK, RequestOK, PageOK
    <3>2. CASE AnswerSave(r) \/ AnswerDelete(r)
      BY <3>2 DEF AnswerSave, AnswerDelete, UpdateDevice, RemoveDevice, PageOK, IsMap
    <3>3. CASE AnswerState(r)
      BY <3>3, SetStateMap DEF AnswerState, PageOK
    <3>4. CASE AnswerImport(r) \/ AnswerFailed(r)
      BY <3>4 DEF AnswerImport, AnswerFailed, PageOK
    <3> QED
      BY <1>3, <3>1, <3>2, <3>3, <3>4 DEF Answer
  <2> QED
    BY <2>1, <2>2 DEF PageOK
<1>4. CASE UNCHANGED vars
  BY <1>1, <1>4 DEF vars
<1>5. CASE User
  <2>1. UNCHANGED devices
    BY <1>5, Zenon DEF User, ChangeBox, SearchDevices, EditDevice, ShowDeviceControls, SaveDevice, DeleteDevice,
       QuickAction, ImportDevices, UseControl, ShowAddDevice, CloseDialog, AskOnly, AskAll
  <2> QED
    BY <1>1, <2>1
<1>6. CASE OnOpen \/ OnClose \/ ConnectWebSocket
  BY <1>1, <1>6 DEF OnOpen, OnClose, ConnectWebSocket
<1>7. ASSUME NEW d, ChangeElsewhere(d) \/ ChangeUntold(d) PROVE PageOK'
  BY <1>1, <1>7 DEF ChangeElsewhere, ChangeUntold
<1>8. ASSUME NEW r, Handle(r) \/ Publish(r) \/ Lose(r) PROVE PageOK'
  BY <1>1, <1>8 DEF Handle, Publish, Lose
<1> QED
  BY <1>2, <1>3, <1>4, <1>5, <1>6, <1>7, <1>8 DEF Next

(* What the user asks for.                                                 *)
Asks == \E sent : requests' = requests \cup sent /\ \A r \in sent : RequestOK(r)

(* What the user does makes requests or leaves them alone. *)
LEMMA UserAsks == ASSUME PageOK, User PROVE Asks \/ requests' = requests
<1>1. ASSUME NEW op, NEW d, NEW value, AskOnly(op, d, value),
             op \in DeviceOps => d \in Devices, op = "create" => IsDevice(value)
      PROVE  Asks
  BY <1>1, SentOK DEF AskOnly, AskAll, Asks
<1>2. ASSUME NEW d \in Devices, SaveDevice(d) PROVE Asks
  <2>1. IsDevice([name |-> "new", state |-> Initial[d]])
    BY DEF IsDevice
  <2> QED
    BY <1>1, <1>2, <2>1 DEF SaveDevice
<1>3. ASSUME NEW d \in Devices, DeleteDevice(d) PROVE Asks
  BY <1>1, <1>3 DEF DeleteDevice
<1>4. ASSUME NEW d \in Devices, QuickAction(d) PROVE Asks
  <2>1. \E op, value : AskOnly(op, d, value) /\ op \in {"toggle", "state"}
    BY <1>4, Zenon DEF QuickAction
  <2> QED
    BY <1>1, <2>1
<1>5. ASSUME NEW d \in Devices, ImportDevices({d}) PROVE Asks
  BY <1>1, <1>5 DEF ImportDevices, DeviceOps
<1>6. ASSUME NEW control, NEW value, UseControl(control, value) PROVE Asks
  <2> DEFINE change == Sent("state", controlsOf, Change(control, value, Nothing))
             power == Sent("power", controlsOf, None)
  <2>1. RequestOK(change) /\ RequestOK(power)
    BY <1>6, SentOK DEF UseControl, PageOK
  <2>2. AskAll({power, change}) \/ AskAll({change})
    BY <1>6, Zenon DEF UseControl
  <2> HIDE DEF change, power
  <2> QED
    BY <2>1, <2>2 DEF AskAll, Asks
<1>7. ASSUME NEW d, EditDevice(d) \/ ShowDeviceControls(d) PROVE requests' = requests
  BY <1>7 DEF EditDevice, ShowDeviceControls
<1>8. ASSUME NEW x, ChangeBox(x) \/ SearchDevices(x) PROVE requests' = requests
  BY <1>8 DEF ChangeBox, SearchDevices
<1>9. CASE ShowAddDevice \/ CloseDialog
  BY <1>9 DEF ShowAddDevice, CloseDialog
<1>10. ASSUME NEW d \in Devices,
              EditDevice(d) \/ ShowDeviceControls(d) \/ SaveDevice(d)
                \/ DeleteDevice(d) \/ QuickAction(d) \/ ImportDevices({d})
       PROVE  Asks \/ requests' = requests
  BY <1>2, <1>3, <1>4, <1>5, <1>7, <1>10
<1> QED
  BY <1>6, <1>8, <1>9, <1>10 DEF User

(* A request that is handled, answered or lost is replaced by one of its   *)
(* kind, or is gone; the list is loaded again after an import.             *)
LEMMA RequestFate ==
  ASSUME TypeInv, NEW r \in requests, Handle(r) \/ Publish(r) \/ Lose(r) \/ Answer(r)
  PROVE  \/ requests' = requests \ {r}
         \/ \E t : requests' = (requests \ {r}) \cup {t} /\ RequestOK(t)
<1> USE DEF TypeInv
<1>1. RequestOK(r)
  BY DEF RequestsOK
<1>2. CASE Handle(r)
  <2>1. CASE HandleDevice(r)
    <3>1. r.op \in DeviceOps /\ r.op # "list"
      BY <2>1 DEF HandleDevice, DeviceOps
    <3>2. CASE r.op # "create" /\ server[r.id] = None
      <4>1. requests' = (requests \ {r}) \cup {[r EXCEPT !.status = "failed"]}
        BY <2>1, <3>2 DEF HandleDevice, Replace
      <4> QED
        BY <1>1, <4>1, Marked
    <3>3. CASE ~(r.op # "create" /\ server[r.id] = None)
      <4>1. PICK s, v : requests' = (requests \ {r}) \cup {[r EXCEPT !.status = s, !.reply = v]}
        BY <2>1, <3>3 DEF HandleDevice, Replace
      <4> QED
        BY <1>1, <3>1, <4>1, Settled
    <3> QED
      BY <3>2, <3>3
  <2>2. CASE HandleGetDevices(r)
    BY <1>1, <2>2, Settled DEF HandleGetDevices, Replace, ServerOK
  <2>3. CASE HandleImportDevices(r)
    BY <1>1, <2>3, Marked DEF HandleImportDevices, Replace
  <2> QED
    BY <1>2, <2>1, <2>2, <2>3 DEF Handle
<1>3. CASE Publish(r)
  <2>1. r.op \in DeviceOps /\ r.op # "list"
    BY <1>1, <1>3 DEF Publish, RequestOK, DeviceOps
  <2>2. PICK v : requests' = (requests \ {r}) \cup {[r EXCEPT !.status = "ok", !.reply = v]}
    BY <1>3 DEF Publish, Replace
  <2> QED
    BY <1>1, <2>1, <2>2, Settled
<1>4. CASE Lose(r)
  BY <1>1, <1>4, Settled DEF Lose, Replace
<1>5. CASE Answer(r)
  <2>1. CASE AnswerImport(r)
    BY <2>1, SentOK DEF AnswerImport, Replace, DeviceOps
  <2>2. CASE ~AnswerImport(r)
    BY <1>5, <2>2 DEF Answer, AnswerList, AnswerSave, AnswerState, AnswerDelete, AnswerFailed
  <2> QED
    BY <2>1, <2>2
<1> QED
  BY <1>2, <1>3, <1>4, <1>5

(* Every step keeps requests requests. *)
LEMMA RequestsKept == ASSUME TypeInv, [Next]_vars PROVE RequestsOK'
<1> USE DEF TypeInv
<1>1. CASE requests' \subseteq requests
  BY <1>1 DEF RequestsOK, RequestOK
<1>2. ASSUME NEW t, requests' \subseteq requests \cup {t}, RequestOK(t) PROVE RequestsOK'
  BY <1>2 DEF RequestsOK
<1>3. CASE User
  <2>1. CASE Asks
    BY <2>1 DEF Asks, RequestsOK
  <2> QED
    BY <1>1, <1>3, <2>1, UserAsks
<1>4. ASSUME NEW r \in requests, Handle(r) \/ Publish(r) \/ Lose(r) \/ Answer(r) PROVE RequestsOK'
  BY <1>1, <1>2, <1>4, RequestFate
<1>5. CASE UNCHANGED vars \/ OnOpen \/ OnClose \/ ConnectWebSocket \/ OnMessage
  BY <1>1, <1>5 DEF vars, OnOpen, OnClose, ConnectWebSocket, OnMessage
<1>6. ASSUME NEW d, ChangeElsewhere(d) \/ ChangeUntold(d) PROVE RequestsOK'
  BY <1>1, <1>6 DEF ChangeElsewhere, ChangeUntold
<1> QED
  BY <1>3, <1>4, <1>5, <1>6 DEF Next

(* Every step keeps the types. *)
LEMMA TypeStep == TypeInv /\ [Next]_vars => TypeInv'
  BY WireKept, ServerKept, PageKept, RequestsKept DEF TypeInv

(***************************************************************************)
(* The page and the simulator.                                             *)
(***************************************************************************)

(* The last message about a device says what the simulator has ...         *)
LastSays(d) == \E i \in 1..Len(wire) : LastWord(i, d) /\ wire[i].device = server[d]

(* ... or the message that will say it is put together and not yet sent.   *)
Handled(d) == \E r \in requests : r.id = d /\ r.status = "handled" /\ r.reply = server[d]

Deleted(d) == \E r \in requests : r.id = d /\ r.op = "delete" /\ r.status = "ok"

(* What is on its way will leave the page with what the simulator has.     *)
Sound(d) ==
  /\ ready => devices[d] = server[d] \/ Coming(d)
  /\ Told(d) => LastSays(d) \/ Handled(d)

Agreement == \A d \in Devices : d \in excused \/ Sound(d)

-----------------------------------------------------------------------------
(* What is still to come about a device: a message, a broadcast or a deletion. *)
LEMMA WhatComes == ASSUME NEW d PROVE Coming(d) <=> LastSays(d) \/ Handled(d) \/ Deleted(d)
  BY DEF Coming, LastSays, Handled, Deleted

(* A device whose last message says what the simulator has is told of. *)
LEMMA LastTold == ASSUME NEW d, LastSays(d) PROVE Told(d)
  BY DEF LastSays, LastWord, Told

(* A device that needs no excuse any more is sound.                        *)
LEMMA Excused ==
  ASSUME Agreement, NEW ds, Excuse(ds),
         \A d \in Devices : d \notin excused \cup ds /\ Sound(d) => Sound(d)'
  PROVE  Agreement'
<1> SUFFICES ASSUME NEW d \in Devices, d \notin excused' PROVE Sound(d)'
  BY DEF Agreement
<1>1. CASE d \in excused \cup ds
  <2>1. devices'[d] = server'[d] /\ ~Underway(d)'
    BY <1>1 DEF Excuse
  <2>2. ~Told(d)'
    BY <2>1 DEF Underway
  <2> QED
    BY <2>1, <2>2 DEF Sound
<1>2. CASE d \notin excused \cup ds
  BY <1>2 DEF Agreement
<1> QED
  BY <1>1, <1>2

(* With the excuses as they were, it is enough that what was sound stays so. *)
LEMMA SameExcuses ==
  ASSUME Agreement, excused' = excused, \A d \in Devices : d \notin excused /\ Sound(d) => Sound(d)'
  PROVE  Agreement'
  BY DEF Agreement

(* What makes a device stay sound: nothing that is to come is lost, and    *)
(* the page has it as before, or as the simulator has it.                  *)
LEMMA StaysSound ==
  ASSUME NEW d \in Devices, Sound(d), server'[d] = server[d], wire' = wire,
         (ready' = ready /\ devices'[d] = devices[d]) \/ devices'[d] = server[d],
         Handled(d) => Handled(d)', Deleted(d) => Deleted(d)' \/ devices'[d] = server[d]
  PROVE  Sound(d)'
<1>1. (LastSays(d)' <=> LastSays(d)) /\ (Told(d)' <=> Told(d))
  BY DEF LastSays, LastWord, Told
<1>2. Coming(d) => Coming(d)' \/ devices'[d] = server[d]
  BY <1>1, WhatComes DEF Coming, LastSays, Handled, Deleted
<1> QED
  BY <1>1, <1>2 DEF Sound

(* A message about another device.                                         *)
LEMMA OtherWord ==
  ASSUME WireOK, NEW m, wire' = Append(wire, m), NEW d, m.id # d, server'[d] = server[d]
  PROVE  (LastSays(d) => LastSays(d)') /\ (Told(d)' => Told(d))
<1>1. /\ Len(wire) \in Nat /\ Len(wire') = Len(wire) + 1 /\ wire'[Len(wire')] = m
      /\ \A i \in 1..Len(wire) : i \in 1..Len(wire') /\ wire'[i] = wire[i]
      /\ \A i \in 1..Len(wire') : i \in 1..Len(wire) \/ i = Len(wire')
  BY AppendWire DEF WireOK
<1>2. ASSUME LastSays(d) PROVE LastSays(d)'
  <2>1. PICK i \in 1..Len(wire) : LastWord(i, d) /\ wire[i].device = server[d]
    BY <1>2 DEF LastSays
  <2>2. i \in 1..Len(wire') /\ wire'[i] = wire[i]
    BY <1>1
  <2>3. ASSUME NEW j \in i + 1 .. Len(wire') PROVE wire'[j].id # d
    <3>1. j = Len(wire') \/ (j \in i + 1 .. Len(wire) /\ j \in 1..Len(wire))
      BY <1>1, <2>3
    <3> QED
      BY <1>1, <2>1, <3>1 DEF LastWord
  <2> QED
    BY <2>1, <2>2, <2>3 DEF LastSays, LastWord
<1>3. Told(d)' => Told(d)
  BY <1>1 DEF Told
<1> QED
  BY <1>2, <1>3

(* A message about it, that says what the simulator has now.               *)
LEMMA OwnWord ==
  ASSUME WireOK, NEW m, wire' = Append(wire, m), NEW d, m.id = d, m.device = server'[d]
  PROVE  LastSays(d)'
<1>1. Len(wire') \in 1..Len(wire') /\ wire'[Len(wire')] = m /\ Len(wire') + 1 .. Len(wire') = {}
  <2>1. Len(wire) \in Nat /\ Len(wire') = Len(wire) + 1 /\ wire'[Len(wire')] = m
    BY AppendWire DEF WireOK
  <2> QED
    BY <2>1
<1> QED
  BY <1>1 DEF LastSays, LastWord

(* A broadcast about one device leaves what is sound of the others. *)
LEMMA OtherSound ==
  ASSUME WireOK, NEW m, Broadcast(m), NEW d \in Devices, m.id # d, Sound(d), UNCHANGED ready,
         server'[d] = server[d], devices'[d] = devices[d],
         Handled(d) => Handled(d)', Deleted(d) => Deleted(d)'
  PROVE  Sound(d)'
<1>1. CASE Connected
  <2>1. (LastSays(d) => LastSays(d)') /\ (Told(d)' => Told(d))
    BY <1>1, OtherWord DEF Broadcast
  <2>2. Coming(d) => Coming(d)'
    BY <2>1, WhatComes DEF Coming, LastSays, Handled, Deleted
  <2> QED
    BY <2>1, <2>2, LastTold DEF Sound
<1>2. CASE ~Connected
  BY <1>2, StaysSound DEF Broadcast
<1> QED
  BY <1>1, <1>2

(* A broadcast that says what the simulator has makes its device sound. *)
LEMMA OwnSound ==
  ASSUME WireOK, NEW m, Broadcast(m), Connected, NEW d \in Devices, m.id = d, m.device = server'[d]
  PROVE  Sound(d)'
<1>1. LastSays(d)'
  BY OwnWord DEF Broadcast
<1> QED
  BY <1>1 DEF Sound, Coming, LastSays

(* What is to come of the other requests when one is replaced.             *)
LEMMA OthersCome ==
  ASSUME NEW r, requests \ {r} \subseteq requests', NEW d, server'[d] = server[d]
  PROVE  /\ r.status # "handled" \/ r.id # d => (Handled(d) => Handled(d)')
         /\ r.op # "delete" \/ r.status # "ok" \/ r.id # d => (Deleted(d) => Deleted(d)')
  BY DEF Handled, Deleted

(* What the user does, the connection and what others do.                  *)
LEMMA AgreeUser == ASSUME PageOK, Agreement, User PROVE Agreement'
<1>1. UNCHANGED <<server, wire, ready, devices, excused>>
  BY Zenon DEF User, ChangeBox, SearchDevices, EditDevice, ShowDeviceControls, SaveDevice, DeleteDevice,
     QuickAction, ImportDevices, UseControl, ShowAddDevice, CloseDialog, AskOnly, AskAll, serverVars
<1>2. requests \subseteq requests'
  BY UserAsks DEF Asks
<1>3. \A d \in Devices : (Handled(d) => Handled(d)') /\ (Deleted(d) => Deleted(d)')
  BY <1>1, <1>2 DEF Handled, Deleted
<1> QED
  BY <1>1, <1>3, StaysSound, SameExcuses

(* Opening and closing the socket leave only what is excused different. *)
LEMMA AgreeConnection ==
  ASSUME Agreement, OnOpen \/ OnClose \/ ConnectWebSocket PROVE Agreement'
<1>1. UNCHANGED <<server, ready, devices, requests>>
  BY DEF OnOpen, OnClose, ConnectWebSocket, serverVars
<1>2. \A d \in Devices : (Handled(d) => Handled(d)') /\ (Deleted(d) => Deleted(d)')
  BY <1>1 DEF Handled, Deleted
<1>3. CASE OnClose
  <2>1. wire' = <<>> /\ Len(wire') = 0 /\ Excuse({d \in Devices : Told(d)})
    BY <1>3 DEF OnClose
  <2>2. ASSUME NEW d \in Devices, ~Told(d), Sound(d) PROVE Sound(d)'
    <3>1. ~Told(d)'
      BY <2>1 DEF Told
    <3>2. Coming(d) => Coming(d)'
      BY <1>2, <2>2, WhatComes, LastTold DEF Coming, Handled, Deleted
    <3> QED
      BY <1>1, <2>2, <3>1, <3>2 DEF Sound
  <2> QED
    BY <2>1, <2>2, Excused
<1>4. CASE OnOpen \/ ConnectWebSocket
  <2>1. UNCHANGED <<wire, excused>>
    BY <1>4 DEF OnOpen, ConnectWebSocket, serverVars
  <2> QED
    BY <1>1, <1>2, <2>1, StaysSound, SameExcuses
<1> QED
  BY <1>3, <1>4

(* What others change is told on the socket, or excused. *)
LEMMA AgreeOthers ==
  ASSUME TypeInv, Agreement, NEW d \in Devices, ChangeElsewhere(d) \/ ChangeUntold(d)
  PROVE  Agreement'
<1>1. UNCHANGED <<ready, devices, requests>>
  BY DEF ChangeElsewhere, ChangeUntold
<1>2. ASSUME NEW e \in Devices, e # d PROVE server'[e] = server[e]
  BY <1>2 DEF ChangeElsewhere, ChangeUntold, TypeInv, ServerOK, IsMap
<1>3. \A e \in Devices : server'[e] = server[e] =>
        (Handled(e) => Handled(e)') /\ (Deleted(e) => Deleted(e)')
  BY <1>1 DEF Handled, Deleted
<1>4. CASE ChangeElsewhere(d)
  <2> DEFINE m == [id |-> d, device |-> server'[d]]
  <2>1. Broadcast(m) /\ Excuse(IF Connected THEN {} ELSE {d})
    BY <1>4 DEF ChangeElsewhere
  <2>2. m.id = d /\ m.device = server'[d]
    OBVIOUS
  <2> HIDE DEF m
  <2>3. ASSUME NEW e \in Devices, e # d, Sound(e) PROVE Sound(e)'
    BY <1>1, <1>2, <1>3, <2>1, <2>2, <2>3, OtherSound DEF TypeInv
  <2>4. Connected => Sound(d)'
    BY <2>1, <2>2, OwnSound DEF TypeInv
  <2>5. \A e \in Devices : e \notin excused \cup (IF Connected THEN {} ELSE {d}) /\ Sound(e) => Sound(e)'
    BY <2>3, <2>4
  <2> QED
    BY <2>1, <2>5, Excused
<1>5. CASE ChangeUntold(d)
  <2>1. wire' = wire /\ Excuse({d})
    BY <1>5 DEF ChangeUntold
  <2>2. ASSUME NEW e \in Devices, e # d, Sound(e) PROVE Sound(e)'
    BY <1>1, <1>2, <1>3, <2>1, <2>2, StaysSound
  <2> QED
    BY <2>1, <2>2, Excused
<1> QED
  BY <1>4, <1>5

(* The page takes a message: the last about its device, or one that a     *)
(* later one outdates.                                                     *)
LEMMA AgreeMessage == ASSUME TypeInv, Agreement, OnMessage PROVE Agreement'
<1> DEFINE m == wire[1]
<1>1. PICK S : wire \in Seq(S)
  BY DEF TypeInv, WireOK
<1>2. /\ Head(wire) = wire[1] /\ Len(wire) \in Nat /\ 1 \in 1..Len(wire)
      /\ \A i \in 1..Len(wire') : i + 1 \in 2..Len(wire) /\ wire'[i] = wire[i + 1]
      /\ \A i \in 2..Len(wire) : i - 1 \in 1..Len(wire') /\ wire'[i - 1] = wire[i]
      /\ Len(wire') = Len(wire) - 1
  BY <1>1, Shift DEF OnMessage
<1>3. /\ UNCHANGED <<server, ready, requests>> /\ Excuse({})
      /\ devices' = [devices EXCEPT ![m.id] = m.device]
  BY <1>2 DEF OnMessage, HandleWebSocketMessage, UpdateDevice
<1> SUFFICES ASSUME NEW d \in Devices, Sound(d) PROVE Sound(d)'
  BY <1>3, Excused
<1>4. devices'[d] = IF d = m.id THEN m.device ELSE devices[d]
  BY <1>3 DEF TypeInv, PageOK, IsMap
<1>5. (Handled(d)' <=> Handled(d)) /\ (Deleted(d)' <=> Deleted(d))
  BY <1>3 DEF Handled, Deleted
<1>6. ASSUME NEW i \in 2..Len(wire), LastWord(i, d), wire[i].device = server[d] PROVE LastSays(d)'
  <2>1. i - 1 \in 1..Len(wire') /\ wire'[i - 1] = wire[i]
    BY <1>2
  <2>2. ASSUME NEW j \in i - 1 + 1 .. Len(wire') PROVE wire'[j].id # d
    <3>1. j \in 1..Len(wire') /\ j + 1 \in i + 1 .. Len(wire)
      BY <1>2, <2>2
    <3> QED
      BY <1>2, <1>6, <3>1 DEF LastWord
  <2> QED
    BY <1>3, <1>6, <2>1, <2>2 DEF LastSays, LastWord
<1>7. LastSays(d) => LastSays(d)' \/ (d = m.id /\ m.device = server[d] /\ ~Told(d)')
  <2>1. ASSUME LastSays(d) PROVE LastSays(d)' \/ (d = m.id /\ m.device = server[d] /\ ~Told(d)')
    <3>1. PICK i \in 1..Len(wire) : LastWord(i, d) /\ wire[i].device = server[d]
      BY <2>1 DEF LastSays
    <3>2. CASE i = 1
      <4>1. ASSUME NEW j \in 1..Len(wire') PROVE wire'[j].id # d
        <5>1. j + 1 \in i + 1 .. Len(wire)
          BY <1>2, <3>2
        <5> QED
          BY <1>2, <3>1, <5>1 DEF LastWord
      <4> QED
        BY <3>1, <3>2, <4>1 DEF LastWord, Told
    <3>3. CASE i # 1
      <4>1. i \in 2..Len(wire)
        BY <1>2, <3>3
      <4> QED
        BY <1>6, <3>1, <4>1
    <3> QED
      BY <3>2, <3>3
  <2> QED
    BY <2>1
<1>8. Told(d)' => Told(d)
  <2>1. \A i \in 1..Len(wire') : i + 1 \in 1..Len(wire) /\ wire'[i] = wire[i + 1]
    BY <1>2
  <2> QED
    BY <2>1 DEF Told
<1>9. d = m.id => Told(d)
  BY <1>2 DEF Told
<1>10. Coming(d)' <=> LastSays(d)' \/ Handled(d)' \/ Deleted(d)'
  BY DEF Coming, LastSays, Handled, Deleted
<1> HIDE DEF m
<1>11. Told(d)' => LastSays(d)' \/ Handled(d)'
  BY <1>5, <1>7, <1>8 DEF Sound
<1>12. ready' => devices'[d] = server'[d] \/ Coming(d)'
  <2>1. CASE d = m.id
    BY <1>3, <1>4, <1>5, <1>7, <1>9, <1>10, <2>1 DEF Sound
  <2>2. CASE d # m.id
    BY <1>3, <1>4, <1>5, <1>7, <1>10, <2>2, WhatComes DEF Sound
  <2> QED
    BY <2>1, <2>2
<1> QED
  BY <1>11, <1>12 DEF Sound

(* A handler changes the device and puts together what tells of it ...     *)
LEMMA AgreeHandle == ASSUME TypeInv, Agreement, NEW r \in requests, Handle(r) PROVE Agreement'
<1> DEFINE ds == {d \in Devices : server'[d] # server[d] /\
                    (r.op = "import" \/ (r.op = "delete" /\ Underway(d)))}
<1>1. UNCHANGED <<wire, ready, devices>> /\ r.status = "sent" /\ RequestOK(r) /\ Excuse(ds)
  BY DEF Handle, HandleDevice, HandleGetDevices, HandleImportDevices, TypeInv, RequestsOK
<1>2. requests \ {r} \subseteq requests'
  BY DEF Handle, HandleDevice, HandleGetDevices, HandleImportDevices, Replace
<1>3. ASSUME NEW d \in Devices, server'[d] = server[d], Sound(d) PROVE Sound(d)'
  BY <1>1, <1>2, <1>3, OthersCome, StaysSound
<1>4. ASSUME NEW d \in Devices, d \notin ds, server'[d] # server[d] PROVE Sound(d)'
  <2>1. r.op # "import" /\ HandleDevice(r)
    BY <1>4 DEF Handle, HandleGetDevices, HandleImportDevices
  <2>2. /\ server' = [server EXCEPT ![r.id] = Outcome(r)]
        /\ Replace(r, [r EXCEPT !.status = IF r.op = "delete" THEN "ok" ELSE "handled",
                                !.reply = server'[r.id]])
    BY <1>4, <2>1 DEF HandleDevice
  <2>3. r.id = d /\ server'[d] = Outcome(r)
    BY <1>4, <2>2 DEF TypeInv, ServerOK, IsMap
  <2>4. r.op \in DeviceOps /\ r.op # "list"
    BY <2>1 DEF HandleDevice, DeviceOps
  <2> DEFINE s == IF r.op = "delete" THEN "ok" ELSE "handled"
             t == [r EXCEPT !.status = s, !.reply = server'[r.id]]
  <2>5. t.op = r.op /\ t.id = r.id /\ t.status = s /\ t.reply = server'[r.id]
    <3>1. PICK n, op, e, w, q, x :
            r = [n |-> n, op |-> op, id |-> e, value |-> w, status |-> q, reply |-> x]
      BY <1>1 DEF RequestOK
    <3> QED
      BY <3>1
  <2>6. t \in requests'
    BY <2>2 DEF Replace
  <2> HIDE DEF t
  <2>7. CASE r.op = "delete"
    <3>1. t.op = "delete" /\ t.id = d /\ t.status = "ok"
      BY <2>3, <2>7, <2>5
    <3>2. ~Told(d)'
      BY <1>1, <1>4, <2>7 DEF Underway, Told
    <3> QED
      BY <2>6, <3>1, <3>2 DEF Sound, Coming
  <2>8. CASE r.op # "delete"
    <3>1. t.id = d /\ t.status = "handled" /\ t.reply = server'[d]
      BY <2>3, <2>8, <2>5
    <3> QED
      BY <2>6, <3>1 DEF Sound, Coming, Handled
  <2> QED
    BY <2>7, <2>8
<1> QED
  BY <1>1, <1>3, <1>4, Excused

(* ... the message and the answer are sent ...                             *)
LEMMA AgreePublish == ASSUME TypeInv, Agreement, NEW r \in requests, Publish(r) PROVE Agreement'
<1> DEFINE m == [id |-> r.id, device |-> r.reply]
<1>1. /\ Broadcast(m) /\ Excuse(Missed(m)) /\ UNCHANGED <<server, ready, devices>>
      /\ requests \ {r} \subseteq requests' /\ r.status = "handled"
  BY DEF Publish, Replace
<1>2. m.id = r.id
  OBVIOUS
<1> HIDE DEF m
<1>3. ASSUME NEW d \in Devices, d # r.id, Sound(d) PROVE Sound(d)'
  BY <1>1, <1>2, <1>3, OthersCome, OtherSound DEF TypeInv
<1>4. ASSUME NEW d \in Devices, d = r.id, d \notin Missed(m) PROVE Sound(d)'
  <2>1. Connected /\ m.device = server'[d]
    BY <1>1, <1>2, <1>4 DEF Missed
  <2> QED
    BY <1>1, <1>2, <1>4, <2>1, OwnSound DEF TypeInv
<1> QED
  BY <1>1, <1>3, <1>4, Excused

(* ... or lost, and the page takes the answer.                             *)
LEMMA AgreeLose == ASSUME Agreement, NEW r \in requests, Lose(r) PROVE Agreement'
<1>1. /\ UNCHANGED <<server, wire, ready, devices>> /\ requests \ {r} \subseteq requests'
      /\ r.status # "handled"
      /\ Excuse(IF r.op = "delete" /\ r.status = "ok" THEN {r.id} ELSE {})
  BY DEF Lose, Replace, serverVars
<1>2. ASSUME NEW d \in Devices, Sound(d), r.op # "delete" \/ r.status # "ok" \/ r.id # d PROVE Sound(d)'
  BY <1>1, <1>2, OthersCome, StaysSound
<1>3. \A d \in Devices :
        d \notin (IF r.op = "delete" /\ r.status = "ok" THEN {r.id} ELSE {}) /\ Sound(d) => Sound(d)'
  BY <1>2
<1> QED
  BY <1>1, <1>3, Excused

(* The state in an answer that is the simulator's, and a device that is    *)
(* held as the simulator has it: it stays so.                              *)
LEMMA SameState ==
  ASSUME TypeInv, NEW d \in Devices, NEW state, SetState(d, state)
  PROVE  /\ \A e \in Devices : e # d => devices'[e] = devices[e]
         /\ devices[d] = None => devices'[d] = None
         /\ devices[d] = server[d] /\ state = server[d].state => devices'[d] = server[d]
<1>1. CASE devices[d] = None
  BY <1>1 DEF SetState
<1>2. CASE devices[d] # None
  <2>1. PICK x : x = [devices[d] EXCEPT !.state = state]
    OBVIOUS
  <2>2. devices' = [devices EXCEPT ![d] = x]
    BY <1>2, <2>1 DEF SetState, UpdateDevice
  <2>3. \A e \in Devices : devices'[e] = IF e = d THEN x ELSE devices[e]
    BY <2>2 DEF TypeInv, PageOK, IsMap
  <2>4. ASSUME devices[d] = server[d], state = server[d].state PROVE x = server[d]
    <3>1. PICK n, s : server[d] = [name |-> n, state |-> s]
      BY <1>2, <2>4 DEF TypeInv, ServerOK, IsDevice
    <3> QED
      BY <2>1, <2>4, <3>1
  <2> QED
    BY <1>2, <2>3, <2>4
<1> QED
  BY <1>1, <1>2

(* Answers leave only what is excused different from the simulator. *)
LEMMA AgreeAnswer == ASSUME TypeInv, Agreement, NEW r \in requests, Answer(r) PROVE Agreement'
<1>1. UNCHANGED <<server, wire>> /\ RequestOK(r) /\ r.status \in {"ok", "failed"} /\ IsMap(devices)
  BY DEF Answer, serverVars, TypeInv, RequestsOK, PageOK
<1>2. requests \ {r} \subseteq requests'
  BY DEF Answer, AnswerList, AnswerSave, AnswerState, AnswerDelete, AnswerImport, AnswerFailed, Replace
<1>3. ASSUME NEW d \in Devices, Sound(d),
             (ready' = ready /\ devices'[d] = devices[d]) \/ devices'[d] = server[d],
             r.op # "delete" \/ r.status # "ok" \/ r.id # d \/ devices'[d] = server[d]
      PROVE  Sound(d)'
  BY <1>1, <1>2, <1>3, OthersCome, StaysSound
<1>4. CASE AnswerList(r)
  <2>1. /\ Excuse({d \in Devices : r.status # "ok" \/ r.reply[d] # server[d]})
        /\ r.op = "list" /\ (r.status = "ok" => devices' = r.reply)
    BY <1>4 DEF AnswerList
  <2>2. ASSUME NEW d \in Devices, Sound(d),
               d \notin {e \in Devices : r.status # "ok" \/ r.reply[e] # server[e]}
        PROVE  Sound(d)'
    BY <1>3, <2>1, <2>2
  <2> QED
    BY <2>1, <2>2, Excused
<1>5. CASE AnswerSave(r) \/ AnswerDelete(r)
  <2>1. PICK x : devices' = [devices EXCEPT ![r.id] = x] /\ Excuse(Outdated(r.id, x)) /\ ready' = ready
    BY <1>5 DEF AnswerSave, AnswerDelete, UpdateDevice, RemoveDevice
  <2>2. ASSUME NEW d \in Devices, Sound(d), d \notin Outdated(r.id, x) PROVE Sound(d)'
    <3>1. devices'[d] = IF d = r.id THEN x ELSE devices[d]
      BY <1>1, <2>1 DEF IsMap
    <3> QED
      BY <1>3, <2>1, <2>2, <3>1 DEF Outdated
  <2> QED
    BY <2>1, <2>2, Excused
<1>6. CASE AnswerState(r)
  <2>1. /\ SetState(r.id, r.reply.state) /\ Excuse(Outdated(r.id, r.reply)) /\ ready' = ready
        /\ r.op \in DeviceOps /\ r.op # "delete" /\ r.id \in Devices
    BY <1>1, <1>6 DEF AnswerState, DeviceOps, RequestOK
  <2>2. ASSUME NEW d \in Devices, Sound(d), d \notin Outdated(r.id, r.reply) PROVE Sound(d)'
    <3>1. CASE d # r.id
      BY <1>3, <2>1, <2>2, <3>1, SameState
    <3>2. CASE d = r.id
      <4>1. r.reply = server[d]
        BY <2>2, <3>2 DEF Outdated
      <4>2. devices[d] = server[d] => devices'[d] = server[d]
        BY <2>1, <3>2, <4>1, SameState
      <4>3. Handled(d) => Handled(d)'
        BY <1>1, <1>2, OthersCome
      <4>4. Deleted(d) => Deleted(d)'
        BY <1>1, <1>2, <2>1, OthersCome
      <4>5. (LastSays(d)' <=> LastSays(d)) /\ (Told(d)' <=> Told(d))
        BY <1>1 DEF LastSays, LastWord, Told
      <4>6. Coming(d) => Coming(d)'
        BY <4>3, <4>4, <4>5, WhatComes DEF Coming, LastSays, Handled, Deleted
      <4> QED
        BY <1>1, <2>1, <2>2, <4>2, <4>3, <4>5, <4>6 DEF Sound
    <3> QED
      BY <3>1, <3>2
  <2> QED
    BY <2>1, <2>2, Excused
<1>7. CASE AnswerImport(r)
  <2>1. UNCHANGED <<ready, devices, excused>> /\ r.op = "import"
    BY <1>7 DEF AnswerImport
  <2> QED
    BY <1>3, <2>1, SameExcuses
<1>8. CASE r.status = "failed" /\ AnswerFailed(r)
  <2>1. UNCHANGED <<ready, devices, excused>>
    BY <1>8 DEF AnswerFailed
  <2> QED
    BY <1>3, <1>8, <2>1, SameExcuses
<1> QED
  BY <1>4, <1>5, <1>6, <1>7, <1>8 DEF Answer

(* Every step leaves only what is excused different from the simulator. *)
LEMMA AgreeStep == TypeInv /\ Agreement /\ [Next]_vars => Agreement'
<1> SUFFICES ASSUME TypeInv, Agreement, [Next]_vars PROVE Agreement'
  OBVIOUS
<1>1. CASE UNCHANGED vars
  <2>1. UNCHANGED <<server, wire, ready, devices, requests, excused>>
    BY <1>1 DEF vars, serverVars
  <2>2. \A d \in Devices : (Handled(d) => Handled(d)') /\ (Deleted(d) => Deleted(d)')
    BY <2>1 DEF Handled, Deleted
  <2> QED
    BY <2>1, <2>2, StaysSound, SameExcuses
<1> QED
  BY <1>1, AgreeUser, AgreeConnection, AgreeMessage, AgreeOthers, AgreeHandle, AgreePublish, AgreeLose,
     AgreeAnswer DEF Next, TypeInv

(* Once it has its list the page holds a device as the simulator has it,   *)
(* or is about to be told (device-simulator.js:781), for any devices,      *)
(* requests, messages and losses, but for the exceptions that are listed.  *)
THEOREM PageHasDevices == Spec => []PageAgrees
<1>1. Init => Agreement
  <2> SUFFICES ASSUME Init PROVE Agreement
    OBVIOUS
  <2>1. Len(wire) = 0 /\ ~ready
    BY DEF Init
  <2> QED
    BY <2>1 DEF Agreement, Sound, Told
<1>2. Agreement => PageAgrees
  BY DEF Agreement, Sound, PageAgrees
<1> QED
  BY <1>1, <1>2, AgreeStep, TypeInit, TypeStep, PTL DEF Spec

(***************************************************************************)
(* The hub, for every number of clients, of senders and of broadcasts and  *)
(* for every capacity of the channels: no goroutine panics, a channel is   *)
(* closed exactly when its client has been forgotten, and the pages see    *)
(* what Fanout promises.                                                   *)
(***************************************************************************)

(* What the pumps of a client are, by the stage of its handler.            *)
Started(c) == handler[c] \in {"reading", "unregister", "done"}
StageOK == \A c \in Clients :
  /\ ~Started(c) => c \notin clients /\ c \notin closed /\ c \notin writer /\ written[c] = <<>> /\ send[c] = <<>>
  /\ c \in open => handler[c] \in {"register", "reading"}

(* A client is in the map while somebody reads from its connection, and    *)
(* its channel is open as long as it is there; a broadcast in progress     *)
(* still has to come to clients of the map only.                           *)
MapOK ==
  /\ left \subseteq clients
  /\ \A c \in Clients :
       /\ c \in clients => c \notin closed /\ handler[c] \in {"reading", "unregister"}
       /\ Started(c) /\ c \notin clients => c \in closed

(* What is in the channel of a page that still reads follows on what has   *)
(* been written to it, up to the broadcast in progress or the last one.    *)
QueueOK == \A c \in Clients :
  c \in open /\ handler[c] = "reading" =>
    /\ \A i \in 1..Len(send[c]) : send[c][i] = first[c] + Len(written[c]) + i
    /\ first[c] + Len(written[c]) + Len(send[c]) <= number
    /\ c \in clients \ left => first[c] + Len(written[c]) + Len(send[c]) = number
    /\ c \in left => first[c] + Len(written[c]) + Len(send[c]) + 1 = number

HubInv == TypeOK /\ up /\ StageOK /\ MapOK /\ QueueOK

-----------------------------------------------------------------------------
(* The invariant holds at the start.                                       *)
LEMMA InitInv == HubInit => HubInv
  BY HubAssumption DEF HubInit, HubInv, TypeOK, StageOK, MapOK, QueueOK, Started, HandlerStages

(* What writePump takes from a channel that follows on a connection is the *)
(* next message, and what is left follows on again.                        *)
LEMMA Pop ==
  ASSUME NEW f \in Nat, NEW w0 \in Seq(Nat), NEW queue \in Seq(Nat), queue # <<>>,
         \A i \in 1..Len(queue) : queue[i] = f + Len(w0) + i
  PROVE  /\ Head(queue) = f + Len(w0) + 1
         /\ \A i \in 1..Len(Tail(queue)) :
              Tail(queue)[i] = f + Len(Append(w0, Head(queue))) + i
         /\ f + Len(Append(w0, Head(queue))) + Len(Tail(queue)) = f + Len(w0) + Len(queue)
<1> DEFINE w == Len(w0)  q == Len(queue)
<1>1. w \in Nat /\ q \in Nat /\ q > 0
  OBVIOUS
<1>2. /\ Head(queue) = queue[1]
      /\ Len(Tail(queue)) = q - 1
      /\ \A i \in 1..(q - 1) : Tail(queue)[i] = queue[i + 1]
      /\ Len(Append(w0, Head(queue))) = w + 1
  OBVIOUS
<1> HIDE DEF w, q
<1>3. Head(queue) = f + w + 1
  BY <1>1, <1>2 DEF w, q
<1>4. ASSUME NEW i \in 1..(q - 1) PROVE Tail(queue)[i] = f + (w + 1) + i
  <2>1. i + 1 \in 1..q /\ i \in Nat
    BY <1>1
  <2>2. queue[i + 1] = f + w + (i + 1)
    BY <2>1 DEF w, q
  <2> QED BY <1>1, <1>2, <2>1, <2>2
<1>5. f + (w + 1) + (q - 1) = f + w + q
  BY <1>1
<1> QED BY <1>2, <1>3, <1>4, <1>5 DEF w, q

(* No step breaks it.                                                      *)
LEMMA StepInv == HubInv /\ [HubNext]_simHubVars => HubInv'
<1> SUFFICES ASSUME HubInv, [HubNext]_simHubVars PROVE HubInv'
  OBVIOUS
<1> USE HubAssumption DEF HubInv, hubVars, clientVars
<1>1. ASSUME NEW c \in Clients, Connect(c) PROVE HubInv'
  <2>1. TypeOK' /\ up'
    BY <1>1 DEF Connect, TypeOK, HandlerStages
  <2>2. StageOK' /\ MapOK' /\ QueueOK'
    BY <1>1 DEF Connect, TypeOK, HandlerStages, StageOK, MapOK, QueueOK, Started
  <2> QED BY <2>1, <2>2
<1>2. ASSUME NEW c \in Clients, Register(c) PROVE HubInv'
  <2>1. TypeOK' /\ up'
    BY <1>2 DEF Register, Selecting, TypeOK, HandlerStages
  <2>2. StageOK' /\ MapOK'
    BY <1>2 DEF Register, Selecting, TypeOK, HandlerStages, StageOK, MapOK, Started
  <2>3. send[c] = <<>> /\ written[c] = <<>> /\ Len(send[c]) = 0 /\ Len(written[c]) = 0
    BY <1>2 DEF Register, StageOK, Started
  <2>4. /\ first' = [first EXCEPT ![c] = number] /\ handler' = [handler EXCEPT ![c] = "reading"]
        /\ clients' = clients \cup {c} /\ left = {} /\ UNCHANGED <<left, number, send, open, written>>
    BY <1>2 DEF Register, Selecting
  <2>5. ASSUME NEW d \in Clients, d \in open, handler'[d] = "reading"
        PROVE  /\ \A i \in 1..Len(send[d]) : send[d][i] = first'[d] + Len(written[d]) + i
               /\ first'[d] + Len(written[d]) + Len(send[d]) <= number
               /\ d \in clients' => first'[d] + Len(written[d]) + Len(send[d]) = number
    <3>1. CASE d = c
      BY <2>3, <2>4, <3>1 DEF TypeOK
    <3>2. CASE d # c
      <4>1. first'[d] = first[d] /\ handler[d] = "reading" /\ first[d] \in Nat
        BY <2>4, <2>5, <3>2 DEF TypeOK
      <4>2. d \in clients' => d \in clients \ left
        BY <2>4, <3>2
      <4> QED BY <2>5, <4>1, <4>2 DEF QueueOK
    <3> QED BY <3>1, <3>2
  <2>6. QueueOK'
    BY <2>4, <2>5 DEF QueueOK, TypeOK
  <2> QED BY <2>1, <2>2, <2>6
<1>3. ASSUME NEW c \in Clients, Disconnect(c) PROVE HubInv'
  BY <1>3 DEF Disconnect, TypeOK, StageOK, MapOK, QueueOK, Started
<1>4. ASSUME NEW c \in Clients, StopReading(c) PROVE HubInv'
  <2>1. TypeOK' /\ up'
    BY <1>4 DEF StopReading, TypeOK, HandlerStages
  <2>2. StageOK' /\ MapOK' /\ QueueOK'
    BY <1>4 DEF StopReading, TypeOK, HandlerStages, StageOK, MapOK, QueueOK, Started
  <2> QED BY <2>1, <2>2
<1>5. ASSUME NEW c \in Clients, Unregister(c) PROVE HubInv'
  <2>1. TypeOK' /\ up'
    BY <1>5 DEF Unregister, Close, Selecting, TypeOK, HandlerStages, MapOK
  <2>2. /\ handler' = [handler EXCEPT ![c] = "done"] /\ clients' = clients \ {c}
        /\ closed' = closed \cup {c} /\ left = {} /\ UNCHANGED <<left, number, send, open, writer, first, written>>
    BY <1>5 DEF Unregister, Close, Selecting, MapOK, Started
  <2>3. StageOK' /\ MapOK'
    BY <1>5, <2>2 DEF Unregister, TypeOK, StageOK, MapOK, Started
  <2>4. QueueOK'
    BY <2>2 DEF TypeOK, QueueOK
  <2> QED BY <2>1, <2>3, <2>4
<1>6. ASSUME NEW s \in Senders, Offer(s) PROVE HubInv'
  BY <1>6 DEF Offer, TypeOK, StageOK, MapOK, QueueOK, Started
<1>7. ASSUME NEW s \in Senders, TakeBroadcast(s) PROVE HubInv'
  <2>1. TypeOK' /\ up' /\ StageOK' /\ MapOK'
    BY <1>7 DEF TakeBroadcast, Selecting, TypeOK, StageOK, MapOK, Started
  <2>2. QueueOK'
    BY <1>7 DEF TakeBroadcast, Selecting, TypeOK, StageOK, MapOK, QueueOK
  <2> QED BY <2>1, <2>2
<1>8. ASSUME NEW c \in Clients, FanOut(c) PROVE HubInv'
  <2>1. c \in clients /\ c \notin closed
    BY <1>8 DEF FanOut, MapOK
  <2>2. CASE Len(send[c]) < SendCap
    <3>1. /\ up' = up /\ left' = left \ {c}
          /\ send' = [send EXCEPT ![c] = Append(@, number)]
          /\ UNCHANGED <<clients, closed, number, sending, open, handler, writer, first, written>>
      <4>1. Len(send[c]) # SendCap
        BY <2>2 DEF TypeOK
      <4> QED BY <1>8, <2>1, <4>1 DEF FanOut
    <3>2. /\ send'[c] = Append(send[c], number)
          /\ \A d \in Clients \ {c} : send'[d] = send[d]
          /\ send[c] \in Seq(Nat) /\ number \in Nat
      BY <3>1 DEF TypeOK
    <3>3. /\ Len(send'[c]) = Len(send[c]) + 1
          /\ \A i \in 1..Len(send[c]) : send'[c][i] = send[c][i]
          /\ send'[c][Len(send[c]) + 1] = number
      BY <3>2
    <3>4. TypeOK' /\ up'
      <4>1. send' \in [Clients -> Seq(Nat)]
        BY <3>1, <3>2 DEF TypeOK
      <4>2. \A d \in Clients : Len(send'[d]) <= SendCap
        <5>1. Len(send'[c]) <= SendCap
          BY <3>2, <3>3, <2>2
        <5> QED BY <3>2, <5>1 DEF TypeOK
      <4> QED BY <3>1, <4>1, <4>2 DEF TypeOK
    <3>5. StageOK' /\ MapOK'
      BY <3>1, <3>2, <2>1 DEF StageOK, MapOK, Started
    <3>6. QueueOK'
      <4> SUFFICES ASSUME NEW d \in Clients, d \in open, handler[d] = "reading"
                   PROVE  /\ \A i \in 1..Len(send'[d]) : send'[d][i] = first[d] + Len(written[d]) + i
                          /\ first[d] + Len(written[d]) + Len(send'[d]) <= number
                          /\ d \in clients \ left' => first[d] + Len(written[d]) + Len(send'[d]) = number
                          /\ d \in left' => first[d] + Len(written[d]) + Len(send'[d]) + 1 = number
        BY <3>1 DEF QueueOK
      <4>1. CASE d = c
        BY <4>1, <3>1, <3>2, <3>3, <1>8, <2>1 DEF FanOut, QueueOK, TypeOK
      <4>2. CASE d # c
        BY <4>2, <3>1, <3>2 DEF QueueOK
      <4> QED BY <4>1, <4>2
    <3> QED BY <3>4, <3>5, <3>6
  <2>3. CASE ~(Len(send[c]) < SendCap)
    <3>1. /\ up' = up /\ left' = left \ {c} /\ clients' = clients \ {c}
          /\ closed' = closed \cup {c}
          /\ UNCHANGED <<send, number, sending, open, handler, writer, first, written>>
      BY <1>8, <2>1, <2>3 DEF FanOut, Close
    <3> QED BY <3>1, <2>1 DEF TypeOK, StageOK, MapOK, QueueOK, Started
  <2> QED BY <2>2, <2>3
<1>9. ASSUME NEW c \in Clients, Write(c) PROVE HubInv'
  <2>1. /\ send[c] \in Seq(Nat) /\ send[c] # <<>> /\ written[c] \in Seq(Nat) /\ first[c] \in Nat
    BY <1>9 DEF Write, TypeOK
  <2>2. /\ Tail(send[c]) \in Seq(Nat) /\ Head(send[c]) \in Nat /\ Head(send[c]) = send[c][1]
        /\ Len(Tail(send[c])) = Len(send[c]) - 1
        /\ \A i \in 1..Len(send[c]) - 1 : Tail(send[c])[i] = send[c][i + 1]
        /\ Append(written[c], Head(send[c])) \in Seq(Nat)
        /\ Len(Append(written[c], Head(send[c]))) = Len(written[c]) + 1
    BY <2>1
  <2>3. /\ send'[c] = Tail(send[c])
        /\ \A d \in Clients \ {c} : send'[d] = send[d] /\ written'[d] = written[d]
        /\ c \in open => written'[c] = Append(written[c], Head(send[c]))
        /\ send' \in [Clients -> Seq(Nat)] /\ written' \in [Clients -> Seq(Nat)]
    BY <1>9, <2>1, <2>2 DEF Write, TypeOK
  <2>4. TypeOK' /\ up'
    BY <1>9, <2>1, <2>2, <2>3 DEF Write, TypeOK
  <2>5. StageOK' /\ MapOK'
    BY <1>9, <2>3 DEF Write, StageOK, MapOK, Started
  <2>6. QueueOK'
    <3> SUFFICES ASSUME NEW d \in Clients, d \in open, handler[d] = "reading"
                 PROVE  /\ \A i \in 1..Len(send'[d]) : send'[d][i] = first[d] + Len(written'[d]) + i
                        /\ first[d] + Len(written'[d]) + Len(send'[d]) <= number
                        /\ d \in clients \ left => first[d] + Len(written'[d]) + Len(send'[d]) = number
                        /\ d \in left => first[d] + Len(written'[d]) + Len(send'[d]) + 1 = number
      BY <1>9 DEF Write, QueueOK
    <3>1. CASE d = c
      <4>1. \A i \in 1..Len(send[c]) : send[c][i] = first[c] + Len(written[c]) + i
        BY <3>1 DEF QueueOK
      <4>2. /\ send'[c] = Tail(send[c]) /\ written'[c] = Append(written[c], Head(send[c]))
            /\ first[c] + Len(written[c]) + Len(send[c]) <= number
            /\ c \in clients \ left => first[c] + Len(written[c]) + Len(send[c]) = number
            /\ c \in left => first[c] + Len(written[c]) + Len(send[c]) + 1 = number
        BY <3>1, <2>3 DEF QueueOK
      <4>3. /\ \A i \in 1..Len(Tail(send[c])) :
                  Tail(send[c])[i] = first[c] + Len(Append(written[c], Head(send[c]))) + i
            /\ first[c] + Len(Append(written[c], Head(send[c]))) + Len(Tail(send[c]))
                 = first[c] + Len(written[c]) + Len(send[c])
        <5>1. first[c] \in Nat /\ written[c] \in Seq(Nat) /\ send[c] \in Seq(Nat) /\ send[c] # <<>>
          BY <2>1
        <5> HIDE DEF HubInv
        <5> QED BY ONLY <5>1, <4>1, Pop, ZenonT(60)
      <4>4. /\ \A i \in 1..Len(send'[c]) : send'[c][i] = first[c] + Len(written'[c]) + i
            /\ first[c] + Len(written'[c]) + Len(send'[c]) = first[c] + Len(written[c]) + Len(send[c])
        BY <4>2, <4>3, Zenon
      <4> QED BY <3>1, <4>2, <4>4, Zenon
    <3>2. CASE d # c
      BY <3>2, <2>3 DEF QueueOK
    <3> QED BY <3>1, <3>2
  <2> QED BY <2>4, <2>5, <2>6
<1>10. ASSUME NEW c \in Clients, StopWriting(c) PROVE HubInv'
  BY <1>10 DEF StopWriting, TypeOK, StageOK, MapOK, QueueOK, Started
<1>11. CASE UNCHANGED simHubVars
  BY <1>11 DEF simHubVars, TypeOK, StageOK, MapOK, QueueOK, Started
<1> QED
  BY <1>1, <1>2, <1>3, <1>4, <1>5, <1>6, <1>7, <1>8, <1>9, <1>10, <1>11
  DEF HubNext, HubStep, ClientStep

(* The hub keeps its invariant in every behaviour. *)
LEMMA Invariance == HubSpec => []HubInv
  BY InitInv, StepInv, PTL DEF HubSpec

(* In every state each variable has its type and no channel holds more     *)
(* than its capacity.                                                      *)
THEOREM HubTypeCorrect == HubSpec => []TypeOK
  BY Invariance, PTL DEF HubInv

(* The hub never sends on a closed channel nor closes one twice.           *)
THEOREM NeverPanics == HubSpec => []NoPanic
<1>1. HubInv => NoPanic
  BY DEF HubInv, NoPanic
<1> QED BY <1>1, Invariance, PTL

(* A channel is closed exactly when its client has been forgotten.         *)
THEOREM ClosedForgotten == HubSpec => []ClosedWhenForgotten
<1>1. HubInv => ClosedWhenForgotten
  BY DEF HubInv, MapOK, Started, ClosedWhenForgotten
<1> QED BY <1>1, Invariance, PTL

-----------------------------------------------------------------------------
(* The hub implements Fanout: what each step is there.                     *)
HubSource == {"hub"}
Joined == {c \in Clients : handler[c] = "reading"}
Published == [s \in HubSource |-> number]
From == [c \in Clients |-> [s \in HubSource |-> first[c]]]
Got == [c \in Clients |-> [s \in HubSource |-> written[c]]]
Abstract == <<Published, Joined, From, Got>>

(* The hub begins as the fanout that it implements. *)
LEMMA InitPages == HubInit => Pages!Init
  BY DEF HubInit, Pages!Init, Pages!Nothing, Pages!NoneGot

(* A client that has not joined has been sent nothing.                     *)
LEMMA JoinStep ==
  ASSUME HubInv, NEW c \in Clients, Register(c)
  PROVE  Pages!Join(c)
<1>1. /\ handler[c] = "register" /\ written[c] = <<>>
      /\ handler' = [handler EXCEPT ![c] = "reading"]
      /\ first' = [first EXCEPT ![c] = number]
      /\ UNCHANGED <<number, written>>
  BY DEF Register, HubInv, StageOK, Started, hubVars
<1>2. c \notin Joined /\ Joined' = Joined \cup {c}
  BY <1>1 DEF Joined, HubInv, TypeOK
<1>3. Got[c] = [s \in HubSource |-> <<>>] /\ Got' = Got /\ Published' = Published
  BY <1>1 DEF Got, Published
<1>4. From' = [From EXCEPT ![c] = Published]
  BY <1>1 DEF From, Published, HubInv, TypeOK
<1> QED BY <1>2, <1>3, <1>4 DEF Pages!Join, Joined, Got, From, Published, HubSource

(* Taking a broadcast from a sender is one publication of the fanout. *)
LEMMA PublishStep ==
  ASSUME HubInv, NEW s \in Senders, TakeBroadcast(s)
  PROVE  Pages!Publish("hub")
<1>1. number' = number + 1 /\ UNCHANGED <<handler, first, written>>
  BY DEF TakeBroadcast, clientVars
<1> QED BY <1>1 DEF Pages!Publish

(* A client whose reading stops is one that leaves the fanout. *)
LEMMA LeaveStep ==
  ASSUME HubInv, NEW c \in Clients, StopReading(c)
  PROVE  Pages!Leave(c)
<1>1. /\ handler[c] = "reading" /\ handler' = [handler EXCEPT ![c] = "unregister"]
      /\ UNCHANGED <<number, first, written>>
  BY DEF StopReading, hubVars
<1> QED BY <1>1 DEF Pages!Leave, HubInv, TypeOK

(* What is written to a page is the update after those it has: QueueOK.    *)
LEMMA DeliverStep ==
  ASSUME HubInv, NEW c \in Clients, Write(c), c \in open
  PROVE  Pages!Deliver(c, "hub")
<1>1. /\ send[c] # <<>> /\ written' = [written EXCEPT ![c] = Append(@, Head(send[c]))]
      /\ UNCHANGED <<handler, number, first>> /\ c \in writer
  BY DEF Write, hubVars
<1>2. handler[c] = "reading"
  BY <1>1 DEF HubInv, StageOK, Started
<1>3. /\ first[c] \in Nat /\ written[c] \in Seq(Nat) /\ send[c] \in Seq(Nat) /\ number \in Nat
      /\ written \in [Clients -> Seq(Nat)]
  BY DEF HubInv, TypeOK
<1>4. /\ \A i \in 1..Len(send[c]) : send[c][i] = first[c] + Len(written[c]) + i
      /\ first[c] + Len(written[c]) + Len(send[c]) <= number
  BY <1>2 DEF HubInv, QueueOK
<1>5. Head(send[c]) = first[c] + Len(written[c]) + 1
  BY ONLY <1>1, <1>3, <1>4, Pop, ZenonT(60)
<1>6. first[c] + Len(written[c]) + 1 <= number
  <2>1. Len(send[c]) \in Nat /\ Len(send[c]) > 0 /\ Len(written[c]) \in Nat
    BY <1>1, <1>3
  <2> QED BY <2>1, <1>3, <1>4
<1>7. Got' = [Got EXCEPT ![c]["hub"] = Append(@, first[c] + Len(written[c]) + 1)]
  BY <1>1, <1>3, <1>5 DEF Got, HubSource
<1>8. /\ From[c]["hub"] = first[c] /\ Got[c]["hub"] = written[c] /\ Published["hub"] = number
      /\ c \in Joined /\ UNCHANGED <<Published, Joined, From>>
  BY <1>1, <1>2 DEF From, Got, Published, Joined, HubSource
<1> QED BY <1>6, <1>7, <1>8 DEF Pages!Deliver, From, Got, Published, Joined, HubSource

(* Every step of the hub is one of the fanout, or none. *)
LEMMA PagesStep == HubInv /\ [HubNext]_simHubVars => [Pages!Next]_(Pages!fanoutVars)
<1> SUFFICES ASSUME HubInv, [HubNext]_simHubVars PROVE [Pages!Next]_(Pages!fanoutVars)
  OBVIOUS
<1>1. UNCHANGED Abstract => UNCHANGED Pages!fanoutVars
  BY DEF Abstract, Pages!fanoutVars, Joined, Got, From, Published, HubSource
<1>2. ASSUME NEW c \in Clients, Connect(c) PROVE UNCHANGED Abstract
  <2>1. /\ handler[c] = "new" /\ handler' = [handler EXCEPT ![c] = "register"]
        /\ UNCHANGED <<number, first, written>>
    BY <1>2 DEF Connect, hubVars
  <2>2. Joined' = Joined
    BY <2>1 DEF Joined, HubInv, TypeOK
  <2> QED BY <2>1, <2>2 DEF Abstract, Published, From, Got
<1>3. ASSUME NEW c \in Clients, Unregister(c) PROVE UNCHANGED Abstract
  <2>1. /\ handler[c] = "unregister" /\ handler' = [handler EXCEPT ![c] = "done"]
        /\ UNCHANGED <<number, first, written>>
    BY <1>3 DEF Unregister
  <2>2. Joined' = Joined
    BY <2>1 DEF Joined, HubInv, TypeOK
  <2> QED BY <2>1, <2>2 DEF Abstract, Published, From, Got
<1>4. ASSUME UNCHANGED <<number, handler, first, written>> PROVE UNCHANGED Abstract
  BY <1>4 DEF Abstract, Published, Joined, From, Got
<1>5. ASSUME NEW c \in Clients, Disconnect(c) \/ FanOut(c) \/ StopWriting(c) PROVE UNCHANGED Abstract
  BY <1>4, <1>5 DEF Disconnect, FanOut, StopWriting, hubVars
<1>6. ASSUME NEW s \in Senders, Offer(s) PROVE UNCHANGED Abstract
  BY <1>4, <1>6 DEF Offer, clientVars
<1>7. ASSUME NEW c \in Clients, Write(c), c \notin open PROVE UNCHANGED Abstract
  BY <1>4, <1>7 DEF Write, hubVars
<1>8. ASSUME UNCHANGED simHubVars PROVE UNCHANGED Abstract
  BY <1>4, <1>8 DEF simHubVars, hubVars, clientVars
<1>9. /\ \A c \in Clients : Register(c) \/ StopReading(c) \/ (Write(c) /\ c \in open) => Pages!Next
      /\ \A s \in Senders : TakeBroadcast(s) => Pages!Next
  BY JoinStep, LeaveStep, DeliverStep, PublishStep DEF Pages!Next
<1> QED
  BY <1>1, <1>2, <1>3, <1>5, <1>6, <1>7, <1>8, <1>9 DEF HubNext, HubStep, ClientStep

(* Every page sees the updates from its joining on, in order and without a *)
(* gap: the hub implements Fanout.                                         *)
THEOREM HubImplements == HubSpec => ImplementsFanout
<1>1. HubSpec => Pages!Spec
  BY InitPages, Invariance, PagesStep, PTL DEF HubSpec, Pages!Spec
<1> QED BY <1>1 DEF ImplementsFanout
=============================================================================
