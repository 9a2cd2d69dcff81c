--------------------------- MODULE DevicePage_proofs ---------------------------
(***************************************************************************)
(* The devices page shows what it says.  First its dialog: a refresh that  *)
(* arrives draws its own device into the dialog, whatever that shows; so   *)
(* the invariant says of a dialog that was opened with no refresh to come  *)
(* that none comes later either, but for the device it shows: the timers   *)
(* that are set ask for the device of the controls, which is that.  Then,  *)
(* with the types of all that is on its way, the event table, the          *)
(* drawings, and the devices themselves.                                   *)
(***************************************************************************)
EXTENDS DevicePage, TLAPS

(* Requests are records, so that a new status leaves them what they are. *)
Record(r) == [n |-> r.n, op |-> r.op, device |-> r.device, status |-> r.status, reply |-> r.reply]
RequestsOK == \A r \in requests : r = Record(r)
ControlsOK == controls = None \/ controls = [id |-> controls.id, obj |-> controls.obj]

(* For a device nothing but refreshes of that device are to come ... *)
ShowsDevice ==
  /\ title \in Devices
  /\ body.kind = "controls" /\ body.id = title
  /\ controls.id = title
  /\ \A r \in Pending({"refresh"}) : r.device = title

(* ... and for the other dialogs no refresh is, nor what leads to one. *)
ShowsOther ==
  /\ \/ body.kind = "form" /\ title = "add"
     \/ body.kind = "progress" /\ title = "discovery"
  /\ ~(timers > 0)
  /\ Pending({"click", "refresh"}) = {}

DialogOK == open /\ ~upset => ShowsDevice \/ ShowsOther
DialogInv == RequestsOK /\ ControlsOK /\ DialogOK

-----------------------------------------------------------------------------
(* Helpers.                                                                *)

(* A request that is sent is a record. *)
LEMMA SentRecord ==
  ASSUME NEW op, NEW d
  PROVE Sent(op, d) = Record(Sent(op, d)) /\ Sent(op, d).op = op /\ Sent(op, d).device = d
  BY DEF Sent, Record

(* The dialog's device may get another object, and is the same device.     *)
ControlsKept == ControlsOK' /\ controls'.id = controls.id

(* The dialog's device, whatever object it gets, is the same device. *)
LEMMA KeptID ==
  ASSUME ControlsOK, NEW ds, controls' = KeptControls(ds)
  PROVE ControlsKept
<1>1. CASE controls = None \/ controls.id \notin ds
  BY <1>1 DEF KeptControls, ControlsOK, ControlsKept
<1>2. CASE controls # None /\ controls.id \in ds
  <2>1. PICK v : controls' = [controls EXCEPT !.obj = v]
    BY <1>2 DEF KeptControls
  <2>2. controls' = [id |-> controls.id, obj |-> v]
    BY <1>2, <2>1 DEF ControlsOK
  <2> QED
    BY <2>2 DEF ControlsOK, ControlsKept
<1> QED
  BY <1>1, <1>2

(* Where the dialog's device is left alone it is the same device. *)
LEMMA SameControls == ControlsOK /\ UNCHANGED controls => ControlsKept
  BY DEF ControlsOK, ControlsKept

(* Requests that come or change, but refresh nothing that was not about to *)
(* be refreshed.                                                           *)
Calm ==
  /\ RequestsOK'
  /\ \A q \in requests' :
       \/ q.op \notin {"click", "refresh"}
       \/ \E r \in requests : q.op = r.op /\ q.device = r.device

(* Requests that are gone refresh nothing. *)
LEMMA FewerCalm == ASSUME RequestsOK, requests' \subseteq requests PROVE Calm
  BY DEF RequestsOK, Record, Calm

(* What is sent is a request. *)
LEMMA RequestRecords ==
  ASSUME RequestsOK, NEW op, NEW d, requests' \subseteq requests \cup {Sent(op, d)}
  PROVE RequestsOK'
  BY SentRecord DEF RequestsOK, Record

(* What is sent, but for a click and a refresh, refreshes nothing. *)
LEMMA RequestCalm ==
  ASSUME RequestsOK, NEW op, NEW d, requests' \subseteq requests \cup {Sent(op, d)},
         op \notin {"click", "refresh"}
  PROVE Calm
<1>1. RequestsOK'
  BY RequestRecords
<1>2. ASSUME NEW q \in requests', q \notin requests PROVE q.op = op
  BY <1>2, SentRecord
<1> QED
  BY <1>1, <1>2 DEF Calm

(* A request that is settled is the same but for its status and its reply. *)
LEMMA Settled ==
  ASSUME RequestsOK, NEW r \in requests, NEW s, NEW v, Settle(r, s, v)
  PROVE  \E t : /\ requests' = (requests \ {r}) \cup {t}
                /\ t = Record(t) /\ t.op = r.op /\ t.device = r.device
                /\ t.status = s /\ t.reply = v
<1>1. PICK n, op, d, w, x : r = [n |-> n, op |-> op, device |-> d, status |-> w, reply |-> x]
  BY DEF RequestsOK, Record
<1>2. PICK p : p = [r EXCEPT !.status = s]
  OBVIOUS
<1>3. PICK t : t = [p EXCEPT !.reply = v]
  OBVIOUS
<1>4. p = [n |-> n, op |-> op, device |-> d, status |-> s, reply |-> x]
  BY <1>1, <1>2
<1>5. t = [n |-> n, op |-> op, device |-> d, status |-> s, reply |-> v]
  BY <1>3, <1>4
<1>6. requests' = (requests \ {r}) \cup {t}
  BY <1>2, <1>3, Zenon DEF Settle
<1> QED
  BY <1>1, <1>5, <1>6 DEF Record

(* Settling a request refreshes nothing. *)
LEMMA SettleCalm ==
  ASSUME RequestsOK, NEW r \in requests, NEW s, NEW v, Settle(r, s, v)
  PROVE Calm
<1>1. PICK t : /\ requests' = (requests \ {r}) \cup {t}
               /\ t = Record(t) /\ t.op = r.op /\ t.device = r.device
  BY Settled
<1>2. RequestsOK'
  BY <1>1 DEF RequestsOK, Record
<1> QED
  BY <1>1, <1>2 DEF Calm

(* A sweep refreshes nothing. *)
LEMMA SweepCalm == ASSUME RequestsOK, NEW r, SweepOn(r) PROVE Calm
<1>1. CASE sweep = <<>>
  BY <1>1, FewerCalm DEF SweepOn
<1>2. CASE sweep # <<>>
  <2>1. requests' \subseteq requests \cup {Sent("sweep", Head(sweep))}
    BY <1>2 DEF SweepOn
  <2> QED
    BY <2>1, RequestCalm
<1> QED
  BY <1>1, <1>2

(* A dialog that stays as it is stays in order. *)
LEMMA SameDialog ==
  ASSUME DialogInv, Calm, ControlsKept, timers' = timers, UNCHANGED <<open, title, body, upset>>
  PROVE DialogInv'
<1>1. RequestsOK' /\ ControlsOK'
  BY DEF Calm, ControlsKept
<1>2. CASE ~open \/ upset
  BY <1>1, <1>2 DEF DialogInv, DialogOK
<1>3. CASE ShowsDevice
  <2>1. \A q \in Pending({"refresh"})' : q.device = title
    BY <1>3 DEF ShowsDevice, Calm, Pending
  <2> QED
    BY <1>1, <1>3, <2>1 DEF ShowsDevice, ControlsKept, DialogInv, DialogOK
<1>4. CASE ShowsOther
  <2>1. Pending({"click", "refresh"})' = {}
    BY <1>4 DEF ShowsOther, Calm, Pending
  <2> QED
    BY <1>1, <1>4, <2>1 DEF ShowsOther, DialogInv, DialogOK
<1> QED
  BY <1>2, <1>3, <1>4 DEF DialogInv, DialogOK

(* A dialog that is closed is in order. *)
LEMMA NoDialog == ASSUME DialogInv, Calm, ControlsKept, ~open' PROVE DialogInv'
  BY DEF DialogInv, DialogOK, Calm, ControlsKept

-----------------------------------------------------------------------------
(* Steps.                                                                  *)

(* The page begins with no dialog. *)
LEMMA DialogInit == Init => DialogInv
  BY DEF Init, DialogInv, RequestsOK, Record, ControlsOK, DialogOK

(* What the server does, and what the page hears without having asked. *)
LEMMA WorldKeeps == ASSUME DialogInv, Connection \/ Greet \/ World PROVE DialogInv'
<1>1. UNCHANGED <<requests, dialogVars, upset>>
  BY DEF Connection, Greet, World, pageVars
<1> QED
  BY <1>1, FewerCalm, SameControls, SameDialog DEF DialogInv, dialogVars

(* A message leaves the dialog showing its device. *)
LEMMA ReceiveKeeps == ASSUME DialogInv, NEW k, Receive(k) PROVE DialogInv'
<1>1. ControlsKept
  <2>1. CASE UNCHANGED controls
    BY <2>1, SameControls DEF DialogInv
  <2>2. CASE controls' = KeptControls(Devices)
    BY <2>2, KeptID DEF DialogInv
  <2>3. UNCHANGED controls \/ controls' = KeptControls(Devices)
    BY DEF Receive, HandleMessage, LoadDevices
  <2> QED
    BY <2>1, <2>2, <2>3
<1>2. UNCHANGED <<open, title, body, timers, upset, requests>>
  BY DEF Receive
<1> QED
  BY <1>1, <1>2, FewerCalm, SameDialog DEF DialogInv

(* A dialog that stays, with a refresh asked for: of its own device.       *)
LEMMA DeviceDialog ==
  ASSUME DialogInv, ~ShowsOther, RequestsOK', ControlsKept, UNCHANGED <<open, title, body, upset>>,
         \A q \in requests' : q.op = "refresh" => q \in requests \/ q.device = controls.id
  PROVE DialogInv'
<1>1. CASE ~open \/ upset
  BY <1>1 DEF DialogInv, DialogOK, ControlsKept
<1>2. CASE ShowsDevice
  <2>1. \A q \in Pending({"refresh"})' : q.device = title
    BY <1>2 DEF ShowsDevice, Pending
  <2> QED
    BY <1>2, <2>1 DEF ShowsDevice, ControlsKept, DialogInv, DialogOK
<1> QED
  BY <1>1, <1>2 DEF DialogInv, DialogOK

(* Nobody asks for another device than the one of the controls. *)
LEMMA AsksForControls ==
  ASSUME DialogInv, NEW op, Request(op, controls.id),
         body.kind = "controls" \/ timers > 0,
         UNCHANGED <<controls, open, title, body, upset>>
  PROVE DialogInv'
<1>1. requests' \subseteq requests \cup {Sent(op, controls.id)}
  BY DEF Request
<1>2. RequestsOK'
  BY <1>1, RequestRecords DEF DialogInv
<1>3. \A q \in requests' : q \in requests \/ q.device = controls.id
  BY <1>1, SentRecord
<1>4. ~ShowsOther
  BY DEF ShowsOther
<1> QED
  BY <1>2, <1>3, <1>4, SameControls, DeviceDialog DEF DialogInv

(* Asking for something else leaves the dialog as it is. *)
LEMMA AskCalmly ==
  ASSUME DialogInv, NEW op, NEW d, Request(op, d), op \notin {"click", "refresh"},
         UNCHANGED <<dialogVars, upset>>
  PROVE DialogInv'
<1>1. requests' \subseteq requests \cup {Sent(op, d)}
  BY DEF Request
<1>2. Calm
  BY <1>1, RequestCalm DEF DialogInv
<1> QED
  BY <1>2, SameControls, SameDialog DEF DialogInv, dialogVars

(* Going to another page leaves the dialog as it is. *)
LEMMA PageKeeps == ASSUME DialogInv, NEW p, ShowPage(p) PROVE DialogInv'
<1>1. UNCHANGED <<dialogVars, upset>>
  BY DEF ShowPage
<1>2. CASE p = "events"
  <2>1. Request("events", None)
    BY <1>2 DEF ShowPage, LoadPageData, UpdateEventTable
  <2> QED
    BY <1>1, <2>1, AskCalmly
<1>3. CASE p # "events"
  <2>1. requests' = requests
    BY <1>3 DEF ShowPage, LoadPageData
  <2> QED
    BY <1>1, <2>1, FewerCalm, SameControls, SameDialog DEF DialogInv, dialogVars
<1> QED
  BY <1>2, <1>3

(* Opening the dialog shows the device it is opened for. *)
LEMMA ShowKeeps == ASSUME DialogInv, NEW d \in Devices, ShowDeviceDetails(d) PROVE DialogInv'
<1>1. RequestsOK' /\ ControlsOK'
  BY DEF ShowDeviceDetails, DialogInv, RequestsOK, ControlsOK
<1>2. ASSUME ~upset' PROVE ShowsDevice'
  <2>1. \A r \in Pending({"refresh"})' : r.device = d
    BY <1>2 DEF ShowDeviceDetails, Threatened, Pending
  <2> QED
    BY <2>1 DEF ShowDeviceDetails, ShowsDevice, Drawn
<1> QED
  BY <1>1, <1>2 DEF DialogInv, DialogOK

(* Below these titles nothing may be drawn that a refresh brings. *)
LEMMA OtherDialog ==
  ASSUME DialogInv, NEW t, t \notin Devices, upset' = Threatened(t),
         requests' \subseteq requests, UNCHANGED <<controls, timers>>, title' = t,
         \/ t = "add" /\ body' = Form
         \/ t = "discovery" /\ body' = Progress
  PROVE DialogInv'
<1>1. RequestsOK' /\ ControlsOK'
  BY FewerCalm, SameControls DEF DialogInv, Calm, ControlsKept
<1>2. ASSUME ~upset' PROVE ShowsOther'
  <2>1. ~(timers > 0) /\ Pending({"click", "refresh"}) = {}
    BY <1>2 DEF Threatened
  <2>2. Pending({"click", "refresh"})' = {}
    BY <2>1 DEF Pending
  <2> QED
    BY <2>1, <2>2 DEF ShowsOther, Form, Progress
<1> QED
  BY <1>1, <1>2 DEF DialogInv, DialogOK

(* What the user does leaves the dialog showing its device. *)
LEMMA UserKeeps == ASSUME DialogInv, User PROVE DialogInv'
<1>1. ASSUME NEW p, ShowPage(p) PROVE DialogInv'
  BY <1>1, PageKeeps
<1>2. ASSUME NEW ds, FilterDevices(ds) PROVE DialogInv'
  <2>1. UNCHANGED <<requests, dialogVars, upset>>
    BY <1>2 DEF FilterDevices
  <2> QED
    BY <2>1, FewerCalm, SameControls, SameDialog DEF DialogInv, dialogVars
<1>3. ASSUME NEW d \in Devices, ShowDeviceDetails(d) PROVE DialogInv'
  BY <1>3, ShowKeeps
<1>4. ASSUME NEW d, CreateDevice(d) PROVE DialogInv'
  BY <1>4, AskCalmly DEF CreateDevice, AskOnly, historyVars
<1>5. CASE ShowAddDevice
  BY <1>5, TitleAssumption, OtherDialog DEF ShowAddDevice
<1>6. CASE CloseDialog
  <2>1. ~open' /\ UNCHANGED <<requests, controls>>
    BY <1>6 DEF CloseDialog, HideModal
  <2> QED
    BY <2>1, FewerCalm, SameControls, NoDialog DEF DialogInv
<1>7. CASE Click
  BY <1>7, AsksForControls DEF Click, AskOnly, dialogVars, historyVars
<1>8. CASE RefreshDevice
  BY <1>8, AsksForControls DEF RefreshDevice, AskOnly, dialogVars, historyVars
<1>9. CASE RefreshAll
  <2>1. PICK order : Request("sweep", Head(order))
    BY <1>9 DEF RefreshAll
  <2> QED
    BY <1>9, <2>1, AskCalmly DEF RefreshAll, historyVars
<1>10. CASE RunDeviceDiscovery
  BY <1>10, AskCalmly DEF RunDeviceDiscovery, AskOnly, historyVars
<1> QED
  BY <1>1, <1>2, <1>3, <1>4, <1>5, <1>6, <1>7, <1>8, <1>9, <1>10 DEF User

(* Timers and the monitor leave the dialog showing its device. *)
LEMMA ClockKeeps == ASSUME DialogInv, Clock PROVE DialogInv'
<1>1. CASE RefreshTimer
  BY <1>1, AsksForControls DEF RefreshTimer, historyVars
<1>2. CASE MonitorTick \/ FailSafe
  <2>1. UNCHANGED <<requests, dialogVars, upset>>
    BY <1>2 DEF MonitorTick, FailSafe, historyVars
  <2> QED
    BY <2>1, FewerCalm, SameControls, SameDialog DEF DialogInv, dialogVars
<1>3. CASE DiscoveryComplete
  BY <1>3, AskCalmly DEF DiscoveryComplete, historyVars
<1> QED
  BY <1>1, <1>2, <1>3 DEF Clock

(* The fate of a request until its answer arrives. *)
LEMMA NetworkKeeps ==
  ASSUME DialogInv, NEW r \in requests, ServerHandles(r) \/ Lose(r)
  PROVE DialogInv'
<1>1. UNCHANGED <<dialogVars, upset>>
  BY DEF ServerHandles, Lose
<1>2. \E s, v : Settle(r, s, v)
  BY DEF ServerHandles, HandleGetDevices, HandleGetDevice, HandleCreateDevice, HandleGetEvents,
         Lose
<1>3. Calm
  BY <1>2, SettleCalm DEF DialogInv
<1> QED
  BY <1>1, <1>3, SameControls, SameDialog DEF DialogInv, dialogVars

(* A refresh draws the device it brings: the one of the dialog. *)
LEMMA RefreshKeeps ==
  ASSUME DialogInv, NEW r \in requests, AnswerRefresh(r) PROVE DialogInv'
<1>1. RequestsOK' /\ ControlsOK'
  BY FewerCalm DEF AnswerRefresh, DialogInv, Calm, ControlsOK
<1>2. ASSUME open', ~upset' PROVE ShowsDevice'
  <2>1. ShowsDevice /\ r.device = title
    BY <1>2 DEF AnswerRefresh, DialogInv, DialogOK, ShowsDevice, ShowsOther, Pending
  <2> QED
    BY <1>2, <2>1 DEF AnswerRefresh, ShowsDevice, Drawn, Pending
<1> QED
  BY <1>1, <1>2 DEF DialogInv, DialogOK

(* An answer leaves the dialog showing its device, or upset. *)
LEMMA AnswerKeeps == ASSUME DialogInv, NEW r \in requests, Answer(r) PROVE DialogInv'
<1>1. CASE AnswerDevices(r)
  <2>1. Calm
    BY <1>1, FewerCalm DEF AnswerDevices, DialogInv
  <2>2. ControlsKept
    BY <1>1, KeptID DEF AnswerDevices, LoadDevices, DialogInv
  <2> QED
    BY <1>1, <2>1, <2>2, SameDialog DEF AnswerDevices
<1>2. CASE AnswerRefresh(r)
  BY <1>2, RefreshKeeps
<1>3. CASE AnswerCreate(r)
  <2>1. Calm
    BY <1>3, FewerCalm DEF AnswerCreate, DialogInv
  <2>2. ControlsKept
    BY <1>3, KeptID DEF AnswerCreate, DialogInv
  <2>3. ~open'
    BY <1>3 DEF AnswerCreate, HideModal
  <2> QED
    BY <2>1, <2>2, <2>3, NoDialog
<1>4. CASE AnswerEvents(r)
  BY <1>4, FewerCalm, SameControls, SameDialog DEF AnswerEvents, DialogInv, dialogVars
<1>5. CASE AnswerSweep(r)
  <2>1. Calm
    BY <1>5, SweepCalm DEF AnswerSweep, DialogInv
  <2>2. ControlsKept
    BY <1>5, KeptID DEF AnswerSweep, DialogInv
  <2> QED
    BY <1>5, <2>1, <2>2, SameDialog DEF AnswerSweep
<1>6. CASE AnswerClick(r)
  <2>1. ~ShowsOther
    BY <1>6 DEF AnswerClick, ShowsOther, Pending
  <2>2. requests' \subseteq requests /\ UNCHANGED <<controls, open, title, body, upset>>
    BY <1>6 DEF AnswerClick
  <2> QED
    BY <2>1, <2>2, FewerCalm, SameControls, DeviceDialog DEF DialogInv, Calm
<1>7. CASE AnswerDiscover(r)
  BY <1>7, TitleAssumption, OtherDialog DEF AnswerDiscover
<1>8. CASE AnswerFailed(r)
  <2>1. UNCHANGED <<dialogVars, upset>>
    BY <1>8 DEF AnswerFailed, AnswerEvents
  <2>2. requests' \subseteq requests \/ SweepOn(r)
    BY <1>8 DEF AnswerFailed, AnswerEvents
  <2>3. Calm
    BY <2>2, FewerCalm, SweepCalm DEF DialogInv
  <2> QED
    BY <2>1, <2>3, SameControls, SameDialog DEF DialogInv, dialogVars
<1> QED
  BY <1>1, <1>2, <1>3, <1>4, <1>5, <1>6, <1>7, <1>8 DEF Answer

(* Every step leaves the dialog showing its device, or upset. *)
LEMMA DialogStep == DialogInv /\ [Next]_vars => DialogInv'
<1> SUFFICES ASSUME DialogInv, [Next]_vars PROVE DialogInv'
  OBVIOUS
<1>1. CASE Connection \/ Greet \/ World
  BY <1>1, WorldKeeps
<1>2. CASE User
  BY <1>2, UserKeeps
<1>3. CASE Clock
  BY <1>3, ClockKeeps
<1>4. ASSUME NEW k, Receive(k) PROVE DialogInv'
  BY <1>4, ReceiveKeeps
<1>5. ASSUME NEW r \in requests, ServerHandles(r) \/ Lose(r) PROVE DialogInv'
  BY <1>5, NetworkKeeps
<1>6. ASSUME NEW r \in requests, Answer(r) PROVE DialogInv'
  BY <1>6, AnswerKeeps
<1>7. CASE UNCHANGED vars
  BY <1>7, FewerCalm, SameControls, SameDialog DEF vars, dialogVars, historyVars, DialogInv
<1> QED
  BY <1>1, <1>2, <1>3, <1>4, <1>5, <1>6, <1>7 DEF Next

(* Below a device's name are its controls and below "Add New Device" the   *)
(* form (device-controls.js:657), for any devices, requests and losses,    *)
(* unless a refresh was still to come when the dialog was opened.          *)
THEOREM DialogShowsTitle == Spec => []DialogAsTitled
<1>1. DialogInv => DialogAsTitled
  BY DEF DialogInv, DialogOK, ShowsDevice, ShowsOther, DialogAsTitled
<1> QED
  BY <1>1, DialogInit, DialogStep, PTL DEF Spec

(***************************************************************************)
(* The values.                                                             *)
(***************************************************************************)

Lists == [Devices -> Objects \cup {None}]

Messages ==
  [type : {"initial_data"}, data : Lists]
    \cup [type : {"device_update"}, device : Devices, state : UNION {States[d] : d \in Devices}]
    \cup [type : {"event"}, event : Nat]

ServerType ==
  /\ server \in Lists /\ log \in Nat
  /\ greeting.at = "marshalled" => greeting.devices \in Lists
  /\ wire \in Seq(Messages)

PageType == devices \in Lists /\ cards \in Lists /\ events \in Seq(Nat)

(* The page has had a dialog when it has anything that comes of one.       *)
ControlsType ==
  /\ controls \in {None} \cup Held
  /\ body.kind = "controls" \/ timers > 0 \/ Pending({"click"}) # {} => controls \in Held

(* What is asked for, and answered with.                                   *)
RequestType(r) ==
  /\ r.op \in {"refresh", "create"} => r.device \in Devices
  /\ r.status = "ok" =>
       /\ r.op = "devices" => r.reply \in Lists
       /\ r.op \in {"refresh", "sweep", "create"} /\ r.device \in Devices => r.reply \in Objects
       /\ r.op = "events" => r.reply \in Nat

RequestsTyped == \A r \in requests : RequestType(r)

TypeInv == ServerType /\ PageType /\ ControlsType /\ RequestsTyped

-----------------------------------------------------------------------------
(* The objects the server makes of a device are objects. *)
LEMMA NewObjects ==
  /\ [online |-> TRUE, state |-> <<>>] \in Objects
  /\ \A s \in UNION {States[d] : d \in Devices} : [online |-> TRUE, state |-> s] \in Objects
  /\ \A o \in Objects : [online |-> TRUE, state |-> o.state] \in Objects
  BY DEF Objects

(* The page begins without devices, and asks for them. *)
LEMMA TypeInit == Init => TypeInv
<1> SUFFICES ASSUME Init PROVE TypeInv
  OBVIOUS
<1>1. server \in Lists
  BY ObjectsAssumption DEF Init, SocketInit, Lists
<1>2. devices \in Lists /\ cards \in Lists
  BY DEF Init, NoCards, Lists
<1>3. wire \in Seq(Messages) /\ events \in Seq(Nat) /\ log \in Nat /\ greeting.at # "marshalled"
  BY DEF Init, SocketInit, NoGreeting
<1>4. ControlsType
  BY DEF Init, ControlsType, NoBody, Pending
<1>5. \A r \in requests : RequestType(r)
  BY DEF Init, RequestType
<1> QED
  BY <1>1, <1>2, <1>3, <1>4, <1>5 DEF TypeInv, RequestsTyped, ServerType, PageType

(* What the server has of its devices and has said of them.                *)
LEMMA WorldTypes ==
  ASSUME ServerType, Connection \/ Greet \/ World PROVE ServerType'
<1>1. CASE Connection
  <2>1. <<>> \in Seq(Messages)
    OBVIOUS
  <2>2. CASE OnOpen \/ OnClose
    <3>1. server' = server /\ log' = log /\ wire' = <<>>
      BY <2>2 DEF OnOpen, OnClose, serverVars
    <3>2. greeting'.at # "marshalled"
      BY <2>2 DEF OnOpen, OnClose, NoGreeting
    <3> QED
      BY <2>1, <3>1, <3>2 DEF ServerType
  <2>3. CASE Reconnect \/ MarshalInitialData
    BY <2>3 DEF Reconnect, MarshalInitialData, ServerType, serverVars
  <2> QED
    BY <1>1, <2>2, <2>3 DEF Connection
<1>2. CASE Greet
  <2>1. [type |-> "initial_data", data |-> greeting.devices] \in Messages
    BY <1>2 DEF Greet, SendInitialData, ServerType, Messages
  <2> QED
    BY <1>2, <2>1 DEF Greet, SendInitialData, ServerType, serverVars, NoGreeting
<1>3. ASSUME NEW d \in Devices, NEW s \in States[d], HandleDeviceState(d, s) PROVE ServerType'
  <2>1. [type |-> "device_update", device |-> d, state |-> s] \in Messages
    BY DEF Messages
  <2>2. [online |-> TRUE, state |-> s] \in Objects
    BY NewObjects
  <2>3. wire' \in Seq(Messages)
    BY <1>3, <2>1 DEF HandleDeviceState, Broadcast, ServerType
  <2>4. server' \in Lists
    BY <1>3, <2>2 DEF HandleDeviceState, ServerType, Lists
  <2> QED
    BY <1>3, <2>3, <2>4 DEF HandleDeviceState, ServerType
<1>4. ASSUME NEW d \in Devices, HandleDeviceAnnounce(d) PROVE ServerType'
  <2>1. [online |-> TRUE, state |-> IF server[d] = None THEN <<>> ELSE server[d].state] \in Objects
    BY NewObjects DEF ServerType, Lists
  <2>2. server' \in Lists
    BY <1>4, <2>1 DEF HandleDeviceAnnounce, ServerType, Lists
  <2> QED
    BY <1>4, <2>2 DEF HandleDeviceAnnounce, ServerType, connectionVars
<1>5. ASSUME NEW d \in Devices, HandleDeleteDevice(d) PROVE ServerType'
  BY <1>5 DEF HandleDeleteDevice, ServerType, connectionVars, Lists
<1>6. CASE HandleEvent
  <2>1. [type |-> "event", event |-> log'] \in Messages
    BY <1>6 DEF HandleEvent, ServerType, Messages
  <2> QED
    BY <1>6, <2>1 DEF HandleEvent, Broadcast, ServerType
<1> QED
  BY <1>1, <1>2, <1>3, <1>4, <1>5, <1>6 DEF World

(* Every step keeps the server's objects objects and the wire messages. *)
LEMMA ServerTypeKept == ASSUME TypeInv, [Next]_vars PROVE ServerType'
<1>1. CASE UNCHANGED <<serverVars, connectionVars>>
  BY <1>1 DEF TypeInv, ServerType, serverVars, connectionVars
<1>2. CASE User \/ Clock \/ UNCHANGED vars
  <2>1. UNCHANGED socketVars
    BY <1>2 DEF User, Clock, vars, ShowPage, FilterDevices, ShowDeviceDetails, CreateDevice, AskOnly,
         ShowAddDevice, CloseDialog, Click, RefreshDevice, RefreshAll, RunDeviceDiscovery,
         RefreshTimer, MonitorTick, DiscoveryComplete, FailSafe
  <2> QED
    BY <1>1, <2>1 DEF socketVars
<1>3. ASSUME NEW k \in 1..Len(wire), Receive(k) PROVE ServerType'
  BY <1>3 DEF Receive, OnMessage, TypeInv, ServerType, serverVars
<1>4. ASSUME NEW r \in requests, ServerHandles(r) PROVE ServerType'
  <2>1. server' = server \/ server' = [server EXCEPT ![r.device] = [online |-> TRUE, state |-> <<>>]]
    BY <1>4 DEF ServerHandles, HandleGetDevices, HandleGetDevice, HandleCreateDevice, HandleGetEvents
  <2>2. server' \in Lists
    BY <2>1, NewObjects DEF TypeInv, ServerType, Lists
  <2> QED
    BY <1>4, <2>2 DEF ServerHandles, TypeInv, ServerType, connectionVars
<1>5. ASSUME NEW r \in requests, Answer(r) \/ Lose(r) PROVE ServerType'
  BY <1>1, <1>5 DEF Answer, Lose, socketVars
<1> QED
  BY <1>2, <1>3, <1>4, <1>5, WorldTypes DEF Next, TypeInv

(* A message has the data of its type. *)
LEMMA MessageTypes ==
  ASSUME NEW m \in Messages
  PROVE  /\ m.type = "initial_data" => m.data \in Lists
         /\ m.type = "device_update" =>
              m.device \in Devices /\ [online |-> TRUE, state |-> m.state] \in Objects
         /\ m.type = "event" => "data" \notin DOMAIN m
<1>1. CASE m \in [type : {"initial_data"}, data : Lists]
  BY <1>1
<1>2. CASE m \in [type : {"device_update"}, device : Devices, state : UNION {States[d] : d \in Devices}]
  BY <1>2, NewObjects
<1>3. CASE m \in [type : {"event"}, event : Nat]
  BY <1>3
<1> QED
  BY <1>1, <1>2, <1>3 DEF Messages

(* What the page holds and draws.                                          *)
LEMMA DisplaysType ==
  ASSUME PageType, devices' \in Lists, UpdateDeviceDisplays PROVE cards' \in Lists
  BY DEF PageType, UpdateDeviceDisplays, DrawGrid

(* A message brings the page objects. *)
LEMMA ReceiveTypes ==
  ASSUME ServerType, PageType, NEW k \in 1..Len(wire), Receive(k) PROVE PageType'
<1>1. CASE k = 1
  <2>1. wire[1] \in Messages /\ HandleMessage(wire[1])
    BY <1>1 DEF ServerType, Receive
  <2> DEFINE m == wire[1]
  <2>2. CASE m.type = "initial_data" /\ LoadDevices(m.data) /\ UNCHANGED <<events, rows>>
    BY <2>1, <2>2, MessageTypes, DisplaysType DEF LoadDevices, PageType
  <2>3. CASE m.type = "device_update" /\ HandleDeviceUpdate(m) /\ UNCHANGED <<controls, events, rows>>
    <3>1. m.device \in Devices /\ [online |-> TRUE, state |-> m.state] \in Objects
      BY <2>1, <2>3, MessageTypes
    <3> HIDE DEF m
    <3>2. CASE devices[m.device] = None
      BY <2>3, <3>2 DEF HandleDeviceUpdate, PageType
    <3>3. CASE devices[m.device] # None
      <4>1. /\ devices' = [devices EXCEPT ![m.device] = [online |-> TRUE, state |-> m.state]]
            /\ cards' = [cards EXCEPT ![m.device] =
                 IF cards[m.device] = None THEN None ELSE devices'[m.device]]
            /\ events' = events
        BY <2>3, <3>3 DEF HandleDeviceUpdate
      <4>2. devices' \in Lists
        BY <3>1, <4>1 DEF PageType, Lists
      <4> QED
        BY <3>1, <4>1, <4>2 DEF PageType, Lists
    <3> QED
      BY <3>2, <3>3
  <2>4. CASE m.type = "event"
    <3>1. "data" \notin DOMAIN m
      BY <2>1, <2>4, MessageTypes
    <3> QED
      BY <2>1, <2>4, <3>1 DEF HandleMessage, PageType
  <2> QED
    BY <2>1, <2>2, <2>3, <2>4 DEF HandleMessage
<1>2. CASE k # 1
  BY <1>2 DEF Receive, PageType
<1> QED
  BY <1>1, <1>2

(* What the user does brings the page nothing. *)
LEMMA UserTypes == ASSUME PageType, User \/ Clock PROVE PageType'
<1>1. ASSUME NEW p, ShowPage(p) PROVE PageType'
  <2>1. events' = events /\ devices' = devices
    BY <1>1 DEF ShowPage, LoadPageData, UpdateEventTable
  <2>2. cards' = devices \/ cards' = NoCards
    BY <1>1 DEF ShowPage, LoadPageData, DrawGrid
  <2> QED
    BY <2>1, <2>2 DEF PageType, NoCards, Lists
<1>2. ASSUME NEW ds, FilterDevices(ds) PROVE PageType'
  <2>1. cards' = [d \in Devices |-> IF d \in ds THEN devices[d] ELSE None]
    BY <1>2 DEF FilterDevices, DrawGrid
  <2>2. events' = events /\ devices' = devices
    BY <1>2 DEF FilterDevices, tableVars
  <2> QED
    BY <2>1, <2>2 DEF PageType, Lists
<1>3. CASE UNCHANGED <<devices, cards, tableVars>>
  BY <1>3 DEF PageType, tableVars
<1> QED
  BY <1>1, <1>2, <1>3 DEF User, Clock, ShowDeviceDetails, CreateDevice, AskOnly, ShowAddDevice,
     CloseDialog, Click, RefreshDevice, RefreshAll, RunDeviceDiscovery, RefreshTimer, MonitorTick,
     DiscoveryComplete, FailSafe

(* An answer brings the page objects or events. *)
LEMMA AnswerTypes ==
  ASSUME PageType, NEW r \in requests, RequestType(r), Answer(r) PROVE PageType'
<1>1. ASSUME r.status = "ok", AnswerDevices(r) PROVE PageType'
  <2>1. devices' = r.reply /\ r.reply \in Lists
    BY <1>1 DEF AnswerDevices, LoadDevices, RequestType
  <2> QED
    BY <1>1, <2>1, DisplaysType DEF AnswerDevices, LoadDevices, PageType, tableVars
<1>2. ASSUME r.status = "ok", r.op \in {"refresh", "sweep", "create"},
             devices' = [devices EXCEPT ![r.device] = r.reply]
      PROVE  devices' \in Lists
  BY <1>2 DEF RequestType, PageType, Lists
<1>3. ASSUME r.status = "ok", AnswerRefresh(r) \/ AnswerSweep(r) PROVE PageType'
  BY <1>2, <1>3 DEF AnswerRefresh, AnswerSweep, PageType, tableVars
<1>4. ASSUME r.status = "ok", AnswerCreate(r) PROVE PageType'
  BY <1>2, <1>4, DisplaysType DEF AnswerCreate, PageType, tableVars
<1>5. ASSUME r.status \in {"ok", "failed"}, AnswerEvents(r) PROVE PageType'
  <2>1. events' \in Seq(Nat)
    <3>1. CASE r.status = "failed" \/ r.reply = 0
      BY <1>5, <3>1 DEF AnswerEvents, PageType
    <3>2. CASE ~(r.status = "failed" \/ r.reply = 0)
      <4>1. r.reply \in Nat /\ events' = Newest(r.reply)
        BY <1>5, <3>2 DEF AnswerEvents, RequestType
      <4> QED
        BY <4>1 DEF Newest
    <3> QED
      BY <3>1, <3>2
  <2> QED
    BY <1>5, <2>1 DEF AnswerEvents, PageType
<1>6. CASE AnswerClick(r) \/ AnswerDiscover(r)
  BY <1>6 DEF AnswerClick, AnswerDiscover, PageType, tableVars
<1>7. CASE AnswerFailed(r)
  BY <1>5, <1>7 DEF AnswerFailed, AnswerEvents, Commanding, PageType, tableVars
<1> QED
  BY <1>1, <1>3, <1>4, <1>5, <1>6, <1>7 DEF Answer

(* Every step keeps the page's devices, cards and events of their types. *)
LEMMA PageTypeKept == ASSUME TypeInv, [Next]_vars PROVE PageType'
<1>1. CASE Connection \/ Greet \/ World \/ UNCHANGED vars
  BY <1>1 DEF Connection, Greet, World, pageVars, vars, tableVars, TypeInv, PageType
<1>2. ASSUME NEW r \in requests, ServerHandles(r) \/ Lose(r) PROVE PageType'
  BY <1>2 DEF ServerHandles, Lose, tableVars, TypeInv, PageType
<1> QED
  BY <1>1, <1>2, ReceiveTypes, UserTypes, AnswerTypes DEF Next, TypeInv, RequestsTyped

(* What the dialog was of.                                                 *)
LEMMA KeptHeld ==
  ASSUME controls \in {None} \cup Held, devices \in Lists, NEW ds, controls' = KeptControls(ds)
  PROVE  controls' \in {None} \cup Held /\ (controls \in Held => controls' \in Held)
<1>1. CASE controls = None \/ controls.id \notin ds
  BY <1>1 DEF KeptControls
<1>2. CASE controls \in Held /\ controls # None /\ controls.id \in ds
  <2>1. PICK v : v = Value(controls.obj, controls.id)
    OBVIOUS
  <2>2. v \in Objects \cup {None, Live}
    BY <1>2, <2>1 DEF Held, Value, Lists
  <2>3. controls' = [controls EXCEPT !.obj = v]
    BY <1>2, <2>1, Zenon DEF KeptControls
  <2> QED
    BY <1>2, <2>2, <2>3 DEF Held
<1> QED
  BY <1>1, <1>2

(* Nobody comes to wait for the effect of a click that was not made.       *)
LEMMA QuietControls ==
  ASSUME ControlsType, controls' = controls \/ (controls' \in {None} \cup Held /\ (controls \in Held => controls' \in Held)),
         body'.kind = "controls" => controls' \in Held \/ body.kind = "controls",
         timers' > 0 => timers > 0 \/ Pending({"click"}) # {},
         \A q \in requests' : q.op = "click" =>
           body.kind = "controls" \/ \E r \in requests : r.op = "click"
  PROVE  ControlsType'
  BY DEF ControlsType, Pending

(* A request that is sent asks for what it is sent for. *)
LEMMA SentOp == ASSUME NEW op, NEW d, Request(op, d)
                PROVE \A q \in requests' : q \in requests \/ q.op = op
  BY SentRecord DEF Request

(* Asking leaves the dialog's device known. *)
LEMMA AskTypes ==
  ASSUME ControlsType, UNCHANGED <<controls, body>>, timers' > 0 => timers > 0,
         \/ requests' = requests
         \/ \E op, d : Request(op, d) /\ (op = "click" => body.kind = "controls")
  PROVE  ControlsType'
<1>1. \A q \in requests' : q.op = "click" =>
        body.kind = "controls" \/ \E r \in requests : r.op = "click"
  BY SentOp
<1> QED
  BY <1>1, QuietControls

(* Opening the dialog makes its device known. *)
LEMMA ControlsUser == ASSUME TypeInv, User \/ Clock PROVE ControlsType'
<1>1. ASSUME NEW p, ShowPage(p) PROVE ControlsType'
  <2>1. requests' = requests \/ Request("events", None)
    BY <1>1 DEF ShowPage, LoadPageData, UpdateEventTable
  <2> QED
    BY <1>1, <2>1, AskTypes DEF ShowPage, dialogVars, TypeInv
<1>2. ASSUME NEW ds, FilterDevices(ds) PROVE ControlsType'
  BY <1>2, AskTypes DEF FilterDevices, dialogVars, TypeInv
<1>3. ASSUME NEW d \in Devices, ShowDeviceDetails(d) PROVE ControlsType'
  <2>1. controls' \in Held
    BY <1>3 DEF ShowDeviceDetails, Held
  <2> QED
    BY <1>3, <2>1 DEF ShowDeviceDetails, ControlsType, Pending
<1>4. ASSUME NEW d, CreateDevice(d) PROVE ControlsType'
  BY <1>4, AskTypes DEF CreateDevice, AskOnly, dialogVars, TypeInv
<1>5. CASE ShowAddDevice \/ CloseDialog
  BY <1>5, QuietControls DEF ShowAddDevice, CloseDialog, HideModal, NoBody, Form, TypeInv
<1>6. CASE Click \/ RefreshDevice \/ RunDeviceDiscovery
  BY <1>6, AskTypes DEF Click, RefreshDevice, RunDeviceDiscovery, AskOnly, dialogVars, TypeInv
<1>7. CASE RefreshAll
  BY <1>7, AskTypes DEF RefreshAll, dialogVars, TypeInv
<1>8. CASE RefreshTimer
  <2>1. Request("refresh", controls.id) /\ timers > 0 /\ UNCHANGED <<controls, body>>
    BY <1>8 DEF RefreshTimer
  <2> QED
    BY <2>1, AskTypes DEF TypeInv
<1>9. CASE MonitorTick \/ FailSafe \/ DiscoveryComplete
  BY <1>9, AskTypes DEF MonitorTick, FailSafe, DiscoveryComplete, dialogVars, TypeInv
<1> QED
  BY <1>1, <1>2, <1>3, <1>4, <1>5, <1>6, <1>7, <1>8, <1>9 DEF User, Clock

(* A sweep brings sweeps. *)
LEMMA SweepOps == ASSUME NEW r, SweepOn(r)
                  PROVE \A q \in requests' : q \in requests \/ q.op = "sweep"
  BY SentRecord DEF SweepOn

(* An answer leaves the dialog's device known while it is needed. *)
LEMMA ControlsAnswer ==
  ASSUME TypeInv, NEW r \in requests, Answer(r) PROVE ControlsType'
<1>1. \A q \in requests' : q.op = "click" => q \in requests
  BY SweepOps DEF Answer, AnswerDevices, AnswerRefresh, AnswerCreate, AnswerEvents, AnswerSweep,
     AnswerClick, AnswerDiscover, AnswerFailed
<1>2. CASE AnswerDevices(r) \/ AnswerSweep(r)
  <2>1. \E ds : controls' = KeptControls(ds)
    BY <1>2 DEF AnswerDevices, AnswerSweep, LoadDevices
  <2>2. controls' \in {None} \cup Held /\ (controls \in Held => controls' \in Held)
    BY <2>1, KeptHeld DEF TypeInv, ControlsType, PageType
  <2>3. UNCHANGED <<body, timers>>
    BY <1>2 DEF AnswerDevices, AnswerSweep
  <2> QED
    BY <1>1, <2>2, <2>3, QuietControls DEF TypeInv
<1>3. CASE r.status = "ok" /\ AnswerRefresh(r)
  <2>1. controls' \in Held
    BY <1>3 DEF AnswerRefresh, Held, TypeInv, RequestsTyped, RequestType
  <2> QED
    BY <2>1 DEF ControlsType
<1>4. CASE AnswerCreate(r)
  <2>1. controls' \in {None} \cup Held /\ (controls \in Held => controls' \in Held)
    BY <1>4, KeptHeld DEF AnswerCreate, TypeInv, ControlsType, PageType
  <2>2. body'.kind # "controls" /\ timers' = timers
    BY <1>4 DEF AnswerCreate, HideModal, NoBody
  <2> QED
    BY <1>1, <2>1, <2>2, QuietControls DEF TypeInv
<1>5. CASE AnswerClick(r)
  BY <1>1, <1>5, QuietControls DEF AnswerClick, Pending, TypeInv
<1>6. CASE AnswerDiscover(r)
  BY <1>1, <1>6, QuietControls DEF AnswerDiscover, Progress, TypeInv
<1>7. CASE AnswerEvents(r) \/ AnswerFailed(r)
  <2>1. UNCHANGED <<controls, body, timers>>
    BY <1>7 DEF AnswerEvents, AnswerFailed, dialogVars
  <2> QED
    BY <1>1, <2>1, QuietControls DEF TypeInv
<1> QED
  BY <1>2, <1>3, <1>4, <1>5, <1>6, <1>7 DEF Answer

(* Every step leaves the dialog's device known while it is needed. *)
LEMMA ControlsTypeKept == ASSUME RequestsOK, TypeInv, [Next]_vars PROVE ControlsType'
<1>1. CASE Connection \/ Greet \/ World \/ UNCHANGED vars
  BY <1>1, AskTypes DEF Connection, Greet, World, pageVars, vars, dialogVars, TypeInv
<1>2. ASSUME NEW k, Receive(k) PROVE ControlsType'
  <2>1. controls' = controls \/ controls' = KeptControls(Devices)
    BY <1>2 DEF Receive, HandleMessage, LoadDevices
  <2>2. controls' = controls \/ (controls' \in {None} \cup Held /\ (controls \in Held => controls' \in Held))
    BY <2>1, KeptHeld DEF TypeInv, ControlsType, PageType
  <2>3. UNCHANGED <<body, timers, requests>>
    BY <1>2 DEF Receive
  <2> QED
    BY <2>2, <2>3, QuietControls DEF TypeInv
<1>3. ASSUME NEW r \in requests, ServerHandles(r) \/ Lose(r) PROVE ControlsType'
  <2>1. \E s, v : Settle(r, s, v)
    BY <1>3 DEF ServerHandles, HandleGetDevices, HandleGetDevice, HandleCreateDevice, HandleGetEvents,
       Lose
  <2>2. \A q \in requests' : q.op = "click" => \E p \in requests : p.op = "click"
    BY <2>1, Settled
  <2>3. UNCHANGED <<controls, body, timers>>
    BY <1>3 DEF ServerHandles, Lose, dialogVars
  <2> QED
    BY <2>2, <2>3, QuietControls DEF TypeInv
<1> QED
  BY <1>1, <1>2, <1>3, ControlsUser, ControlsAnswer DEF Next

(* Requests: a new one has no answer yet, and the server's answers have    *)
(* what it has.                                                            *)
LEMMA SentTypes ==
  ASSUME \A r \in requests : RequestType(r), NEW op, NEW d,
         requests' \subseteq requests \cup {Sent(op, d)}, op \in {"refresh", "create"} => d \in Devices
  PROVE  \A r \in requests' : RequestType(r)
<1>1. RequestType(Sent(op, d))
  BY DEF Sent, RequestType
<1> QED
  BY <1>1

(* A request the server answers, or that is lost, has what its kind has. *)
LEMMA SettledTypes ==
  ASSUME RequestsOK, TypeInv, NEW r \in requests, ServerHandles(r) \/ Lose(r)
  PROVE  \A q \in requests' : RequestType(q)
<1>1. ASSUME NEW s, NEW v, Settle(r, s, v),
             s = "ok" =>
               /\ r.op = "devices" => v \in Lists
               /\ r.op \in {"refresh", "sweep", "create"} /\ r.device \in Devices => v \in Objects
               /\ r.op = "events" => v \in Nat
      PROVE  \A q \in requests' : RequestType(q)
  <2>1. PICK t : /\ requests' = (requests \ {r}) \cup {t}
                 /\ t.op = r.op /\ t.device = r.device /\ t.status = s /\ t.reply = v
    BY <1>1, Settled
  <2>2. RequestType(t)
    BY <1>1, <2>1 DEF RequestType, TypeInv, RequestsTyped
  <2> QED
    BY <2>1, <2>2 DEF TypeInv, RequestsTyped
<1>2. CASE Lose(r)
  BY <1>1, <1>2 DEF Lose
<1>3. CASE HandleGetDevices(r)
  BY <1>1, <1>3 DEF HandleGetDevices, TypeInv, ServerType
<1>4. CASE HandleGetDevice(r)
  <2>1. PICK s : s = IF Found(r) THEN "ok" ELSE "failed"
    OBVIOUS
  <2>2. Settle(r, s, server[r.device])
    BY <1>4, <2>1 DEF HandleGetDevice
  <2>3. s = "ok" /\ r.device \in Devices => server[r.device] \in Objects
    BY <2>1 DEF Found, TypeInv, ServerType, Lists
  <2> QED
    BY <1>1, <1>4, <2>2, <2>3 DEF HandleGetDevice
<1>5. CASE HandleCreateDevice(r)
  <2>1. r.device \in Devices => server'[r.device] \in Objects
    BY <1>5, NewObjects DEF HandleCreateDevice, TypeInv, ServerType, Lists
  <2>2. r.op = "create" /\ Settle(r, "ok", server'[r.device])
    BY <1>5 DEF HandleCreateDevice
  <2> QED
    BY <1>1, <2>1, <2>2
<1>6. CASE HandleGetEvents(r)
  BY <1>1, <1>6 DEF HandleGetEvents, TypeInv, ServerType
<1> QED
  BY <1>2, <1>3, <1>4, <1>5, <1>6 DEF ServerHandles

(* Every step keeps requests what they ask for. *)
LEMMA RequestTypesKept ==
  ASSUME RequestsOK, TypeInv, [Next]_vars PROVE RequestsTyped'
<1>1. ASSUME requests' \subseteq requests PROVE RequestsTyped'
  BY <1>1 DEF TypeInv, RequestsTyped
<1>2. ASSUME NEW op, NEW d, Request(op, d), op \in {"refresh", "create"} => d \in Devices PROVE RequestsTyped'
  BY <1>2, SentTypes DEF Request, TypeInv, RequestsTyped
<1>3. CASE Connection \/ Greet \/ World \/ UNCHANGED vars
  BY <1>1, <1>3 DEF Connection, Greet, World, pageVars, vars
<1>4. CASE User
  <2>1. ASSUME NEW p, ShowPage(p) PROVE RequestsTyped'
    <3>1. requests' = requests \/ Request("events", None)
      BY <2>1 DEF ShowPage, LoadPageData, UpdateEventTable
    <3> QED
      BY <1>1, <1>2, <3>1
  <2>2. ASSUME NEW d \in Devices, CreateDevice(d) PROVE RequestsTyped'
    BY <1>2, <2>2 DEF CreateDevice, AskOnly
  <2>3. CASE RefreshDevice
    <3>1. controls.id \in Devices
      BY <2>3 DEF RefreshDevice, TypeInv, ControlsType, Held
    <3> QED
      BY <1>2, <2>3, <3>1 DEF RefreshDevice, AskOnly
  <2>4. CASE Click \/ RunDeviceDiscovery \/ RefreshAll
    BY <1>2, <2>4 DEF Click, RunDeviceDiscovery, RefreshAll, AskOnly
  <2>5. CASE requests' = requests
    BY <1>1, <2>5
  <2> QED
    BY <1>4, <2>1, <2>2, <2>3, <2>4, <2>5
       DEF User, FilterDevices, ShowDeviceDetails, ShowAddDevice, CloseDialog
<1>5. CASE Clock
  <2>1. CASE RefreshTimer
    <3>1. controls.id \in Devices
      BY <2>1 DEF RefreshTimer, TypeInv, ControlsType, Held
    <3> QED
      BY <1>2, <2>1, <3>1 DEF RefreshTimer
  <2> QED
    BY <1>1, <1>2, <1>5, <2>1 DEF Clock, MonitorTick, FailSafe, DiscoveryComplete
<1>6. ASSUME NEW k, Receive(k) PROVE RequestsTyped'
  BY <1>1, <1>6 DEF Receive
<1>7. ASSUME NEW r \in requests, Answer(r) PROVE RequestsTyped'
  <2>1. requests' \subseteq requests \/ SweepOn(r)
    BY <1>7 DEF Answer, AnswerDevices, AnswerRefresh, AnswerCreate, AnswerEvents, AnswerSweep,
       AnswerClick, AnswerDiscover, AnswerFailed
  <2>2. CASE SweepOn(r)
    <3>1. \E d : requests' \subseteq requests \cup {Sent("sweep", d)}
      BY <2>2 DEF SweepOn
    <3> QED
      BY <3>1, SentTypes DEF TypeInv, RequestsTyped
  <2> QED
    BY <1>1, <2>1, <2>2
<1>8. ASSUME NEW r \in requests, ServerHandles(r) \/ Lose(r) PROVE RequestsTyped'
  BY <1>8, SettledTypes DEF RequestsTyped
<1> QED
  BY <1>3, <1>4, <1>5, <1>6, <1>7, <1>8 DEF Next

(* Every step keeps the types. *)
LEMMA TypeStep == DialogInv /\ TypeInv /\ [Next]_vars => TypeInv'
  BY ServerTypeKept, PageTypeKept, ControlsTypeKept, RequestTypesKept DEF TypeInv, DialogInv

(***************************************************************************)
(* The event table.                                                        *)
(***************************************************************************)

Asking == Pending({"events"})

(* The event table is empty while it waits for its events, and asks once.  *)
RowsInv ==
  page = "events" /\ ~crossed =>
    \/ Asking = {} /\ rows = events
    \/ rows = <<>> /\ \E r : Asking = {r}

-----------------------------------------------------------------------------
(* What leaves the table and its request alone keeps them in step. *)
LEMMA RowsSame ==
  ASSUME RowsInv, UNCHANGED <<page, tableVars>>, Asking' = Asking PROVE RowsInv'
  BY DEF RowsInv, tableVars

(* Asking for something else is not asking for events. *)
LEMMA OtherSent ==
  ASSUME NEW op, NEW d, Request(op, d), op # "events" PROVE Asking' = Asking
  BY SentRecord DEF Request, Asking, Pending

(* An answer to something else leaves the requests for events. *)
LEMMA OtherGone ==
  ASSUME NEW r \in requests, r.op # "events", requests' = requests \ {r} PROVE Asking' = Asking
  BY DEF Asking, Pending

(* A sweep leaves the requests for events. *)
LEMMA OtherSwept ==
  ASSUME NEW r \in requests, r.op = "sweep", SweepOn(r) PROVE Asking' = Asking
<1>1. CASE sweep = <<>>
  BY <1>1, OtherGone DEF SweepOn
<1>2. CASE sweep # <<>>
  <2>1. Sent("sweep", Head(sweep)).op = "sweep"
    BY SentRecord
  <2>2. requests' = (requests \ {r}) \cup {Sent("sweep", Head(sweep))}
    BY <1>2 DEF SweepOn
  <2> QED
    BY <2>1, <2>2 DEF Asking, Pending
<1> QED
  BY <1>1, <1>2

(* The table is emptied and its events are asked for ...                   *)
LEMMA RowsShowPage == ASSUME RowsInv, NEW p, ShowPage(p) PROVE RowsInv'
<1>1. CASE p = "events"
  <2>1. /\ rows' = <<>> /\ crossed' = (Asking # {}) /\ Request("events", None)
    BY <1>1 DEF ShowPage, LoadPageData, UpdateEventTable, Asking
  <2>2. CASE Asking # {}
    BY <2>1, <2>2 DEF RowsInv
  <2>3. CASE Asking = {}
    <3>1. Asking' = {Sent("events", None)}
      BY <2>1, <2>3, SentRecord DEF Request, Asking, Pending
    <3> QED
      BY <2>1, <3>1 DEF RowsInv
  <2> QED
    BY <2>2, <2>3
<1>2. CASE p # "events"
  BY <1>2 DEF ShowPage, RowsInv
<1> QED
  BY <1>1, <1>2

(* ... and filled with what the answer brings.                             *)
LEMMA RowsAnswer ==
  ASSUME TypeInv, RowsInv, NEW r \in requests, AnswerEvents(r), PageType' PROVE RowsInv'
<1>1. /\ r.op = "events" /\ requests' = requests \ {r} /\ UNCHANGED <<page, crossed>>
      /\ rows' = IF page = "events" THEN rows \o events' ELSE rows
  BY DEF AnswerEvents, place
<1>2. CASE page = "events" /\ ~crossed
  <2>1. r \in Asking
    BY <1>1 DEF Asking, Pending
  <2>2. rows = <<>> /\ Asking = {r}
    BY <1>2, <2>1 DEF RowsInv
  <2>3. Asking' = {}
    BY <1>1, <2>2 DEF Asking, Pending
  <2>4. events' \in Seq(Nat)
    BY DEF PageType
  <2>5. rows' = events'
    BY <1>1, <1>2, <2>2, <2>4
  <2> QED
    BY <2>3, <2>5 DEF RowsInv
<1>3. CASE ~(page = "events" /\ ~crossed)
  BY <1>1, <1>3 DEF RowsInv
<1> QED
  BY <1>2, <1>3

(* A message leaves the table with a row for each event. *)
LEMMA RowsReceive == ASSUME TypeInv, RowsInv, NEW k \in 1..Len(wire), Receive(k) PROVE RowsInv'
<1>1. UNCHANGED <<page, crossed, requests>>
  BY DEF Receive, place
<1>2. UNCHANGED <<events, rows>>
  <2>1. CASE k # 1
    BY <2>1 DEF Receive
  <2>2. CASE k = 1
    <3>1. wire[1] \in Messages /\ HandleMessage(wire[1])
      BY <2>2 DEF Receive, TypeInv, ServerType
    <3>2. wire[1].type = "event" => "data" \notin DOMAIN wire[1]
      BY <3>1, MessageTypes
    <3> QED
      BY <3>1, <3>2 DEF HandleMessage
  <2> QED
    BY <2>1, <2>2
<1> QED
  BY <1>1, <1>2, RowsSame DEF tableVars, Asking, Pending

(* The server's answer leaves the table as it is. *)
LEMMA RowsSettle ==
  ASSUME RequestsOK, RowsInv, NEW r \in requests, ServerHandles(r) \/ Lose(r) PROVE RowsInv'
<1>1. \E s, v : Settle(r, s, v)
  BY DEF ServerHandles, HandleGetDevices, HandleGetDevice, HandleCreateDevice, HandleGetEvents, Lose
<1>2. PICK t : requests' = (requests \ {r}) \cup {t} /\ t.op = r.op
  BY <1>1, Settled
<1>3. UNCHANGED <<page, rows, events, crossed>>
  BY DEF ServerHandles, Lose, place, tableVars
<1>4. CASE r.op = "events"
  <2>1. Asking' = (Asking \ {r}) \cup {t} /\ r \in Asking
    BY <1>2, <1>4 DEF Asking, Pending
  <2> QED
    BY <1>3, <2>1 DEF RowsInv
<1>5. CASE r.op # "events"
  <2>1. Asking' = Asking
    BY <1>2, <1>5 DEF Asking, Pending
  <2> QED
    BY <1>3, <2>1, RowsSame DEF tableVars
<1> QED
  BY <1>4, <1>5

(* Every step leaves the table with a row for each event. *)
LEMMA RowsStep ==
  ASSUME DialogInv, TypeInv, RowsInv, [Next]_vars PROVE RowsInv'
<1>1. ASSUME requests' = requests, UNCHANGED <<page, tableVars>> PROVE RowsInv'
  BY <1>1, RowsSame DEF Asking, Pending
<1>2. CASE Connection \/ Greet \/ World \/ UNCHANGED vars
  BY <1>1, <1>2 DEF Connection, Greet, World, pageVars, vars, place
<1>3. CASE User \/ Clock
  <2>1. ASSUME NEW p, ShowPage(p) PROVE RowsInv'
    BY <2>1, RowsShowPage
  <2>2. ASSUME NEW op, NEW d, Request(op, d), op # "events", UNCHANGED <<page, tableVars>> PROVE RowsInv'
    BY <2>2, OtherSent, RowsSame
  <2>3. ASSUME NEW d, CreateDevice(d) PROVE RowsInv'
    BY <2>2, <2>3 DEF CreateDevice, AskOnly, place
  <2>4. CASE Click \/ RefreshDevice \/ RunDeviceDiscovery
    BY <2>2, <2>4 DEF Click, RefreshDevice, RunDeviceDiscovery, AskOnly, place
  <2>5. CASE RefreshAll
    BY <2>2, <2>5 DEF RefreshAll, place
  <2>6. CASE RefreshTimer \/ DiscoveryComplete
    BY <2>2, <2>6 DEF RefreshTimer, DiscoveryComplete, place
  <2>7. CASE UNCHANGED <<requests, page, tableVars>>
    BY <1>1, <2>7
  <2> QED
    BY <1>3, <2>1, <2>3, <2>4, <2>5, <2>6, <2>7
       DEF User, Clock, FilterDevices, ShowDeviceDetails, ShowAddDevice, CloseDialog, MonitorTick,
           FailSafe, place
<1>4. ASSUME NEW r \in requests, Answer(r) PROVE RowsInv'
  <2>1. ASSUME AnswerEvents(r) PROVE RowsInv'
    BY <2>1, PageTypeKept, RowsAnswer
  <2>2. ASSUME r.op # "events", requests' = requests \ {r}, UNCHANGED <<page, tableVars>> PROVE RowsInv'
    BY <2>2, OtherGone, RowsSame
  <2>3. ASSUME r.op = "sweep", SweepOn(r), UNCHANGED <<page, tableVars>> PROVE RowsInv'
    BY <2>3, OtherSwept, RowsSame
  <2>4. CASE AnswerDevices(r)
    BY <2>2, <2>4 DEF AnswerDevices, place
  <2>5. CASE AnswerRefresh(r)
    BY <2>2, <2>5 DEF AnswerRefresh, place
  <2>6. CASE AnswerCreate(r)
    BY <2>2, <2>6 DEF AnswerCreate, place
  <2>7. CASE AnswerSweep(r)
    BY <2>3, <2>7 DEF AnswerSweep, place
  <2>8. CASE AnswerClick(r) \/ AnswerDiscover(r)
    BY <2>2, <2>8 DEF AnswerClick, AnswerDiscover, place
  <2>9. CASE AnswerFailed(r)
    BY <2>1, <2>2, <2>3, <2>9 DEF AnswerFailed, place
  <2> QED
    BY <1>4, <2>1, <2>4, <2>5, <2>6, <2>7, <2>8, <2>9 DEF Answer
<1> QED
  BY <1>2, <1>3, <1>4, RowsReceive, RowsSettle DEF Next, DialogInv

(* The event table (app.js:518) has the events of the page, each once,     *)
(* unless it was asked for again before the answer came, for any number of *)
(* requests, losses and visits.                                            *)
THEOREM TableHasEvents == Spec => []RowsAsEvents
<1>1. Init => RowsInv
  BY DEF Init, RowsInv
<1>2. RowsInv => RowsAsEvents
  BY DEF RowsInv, RowsAsEvents, Asking
<1>3. DialogInv /\ TypeInv /\ RowsInv /\ [Next]_vars => RowsInv'
  BY RowsStep
<1> QED
  BY <1>1, <1>2, <1>3, DialogInit, DialogStep, TypeInit, TypeStep, PTL DEF Spec

(***************************************************************************)
(* Drawings.                                                               *)
(***************************************************************************)

(* What is drawn is drawn from what the page holds.                        *)
DialogDrawn ==
  open /\ body.kind = "controls" /\ "dialog" \notin undrawn =>
    body.id = controls.id /\ body.drawn = Value(controls.obj, controls.id)
CardsDrawn ==
  page = "devices" => \A d \in Devices \ undrawn : cards[d] # None => cards[d] = devices[d]
DrawnInv == DialogDrawn /\ CardsDrawn

-----------------------------------------------------------------------------
(* The dialog's device looks as it did when the map gets other objects.    *)
LEMMA KeptValue ==
  ASSUME controls \in Held, devices \in Lists, NEW ds, controls' = KeptControls(ds),
         \A d \in Devices \ ds : devices'[d] = devices[d]
  PROVE  controls'.id = controls.id /\ Value(controls.obj, controls.id)' = Value(controls.obj, controls.id)
<1>1. CASE controls.id \notin ds
  BY <1>1 DEF KeptControls, Value, Held
<1>2. CASE controls.id \in ds
  <2>1. PICK v : v = Value(controls.obj, controls.id)
    OBVIOUS
  <2>2. v # Live
    BY <2>1, ObjectsAssumption DEF Held, Value, Lists
  <2>3. controls # None
    BY ObjectsAssumption
  <2>4. controls' = [controls EXCEPT !.obj = v]
    BY <1>2, <2>1, <2>3, Zenon DEF KeptControls
  <2>5. controls'.id = controls.id /\ controls'.obj = v
    BY <2>4 DEF Held
  <2> QED
    BY <2>1, <2>2, <2>5 DEF Value
<1> QED
  BY <1>1, <1>2

(* A drawn dialog stays drawn while its device looks the same.             *)
LEMMA DrawnSame ==
  ASSUME DialogDrawn, UNCHANGED <<open, body>>, "dialog" \in undrawn => "dialog" \in undrawn',
         body.kind = "controls" =>
           /\ controls'.id = controls.id
           /\ \/ "dialog" \in undrawn'
              \/ Value(controls.obj, controls.id)' = Value(controls.obj, controls.id)
  PROVE  DialogDrawn'
  BY DEF DialogDrawn

(* A dialog that is not drawn again shows a device whose object did not change. *)
LEMMA DrawnKept ==
  ASSUME TypeInv, DialogDrawn, UNCHANGED <<open, body>>, "dialog" \in undrawn => "dialog" \in undrawn',
         NEW ds, controls' = KeptControls(ds), \A d \in Devices \ ds : devices'[d] = devices[d]
  PROVE  DialogDrawn'
<1>1. body.kind = "controls" => controls \in Held
  BY DEF TypeInv, ControlsType
<1>2. devices \in Lists
  BY DEF TypeInv, PageType
<1>3. body.kind = "controls" =>
        controls'.id = controls.id /\ Value(controls.obj, controls.id)' = Value(controls.obj, controls.id)
  BY <1>1, <1>2, KeptValue
<1> QED
  BY <1>3, DrawnSame

(* Where the dialog and its device are left alone, it is as drawn. *)
LEMMA DrawnStays ==
  ASSUME DialogDrawn, UNCHANGED <<open, body, controls, devices>>,
         "dialog" \in undrawn => "dialog" \in undrawn'
  PROVE  DialogDrawn'
  BY DrawnSame DEF Value

(* Drawing the devices leaves the dialog as it is. *)
LEMMA DisplaysDialog ==
  ASSUME UpdateDeviceDisplays PROVE "dialog" \in undrawn => "dialog" \in undrawn'
  BY DEF UpdateDeviceDisplays, DrawGrid

(* A message leaves the dialog as drawn, or notes that it is not. *)
LEMMA DrawnReceive ==
  ASSUME TypeInv, DialogDrawn, NEW k \in 1..Len(wire), Receive(k) PROVE DialogDrawn'
<1>1. UNCHANGED <<open, body>>
  BY DEF Receive
<1>2. CASE k # 1
  BY <1>1, <1>2, DrawnStays DEF Receive
<1>3. CASE k = 1
  <2> DEFINE m == wire[1]
  <2>1. HandleMessage(m) /\ m \in Messages
    BY <1>3 DEF Receive, TypeInv, ServerType
  <2>2. CASE LoadDevices(m.data)
    <3>1. controls' = KeptControls(Devices) /\ ("dialog" \in undrawn => "dialog" \in undrawn')
      BY <2>2, DisplaysDialog DEF LoadDevices
    <3> QED
      BY <1>1, <3>1, DrawnKept
  <2>3. CASE m.type = "device_update" /\ HandleDeviceUpdate(m) /\ controls' = controls
    <3>1. m.device \in Devices
      BY <2>1, <2>3, MessageTypes
    <3> HIDE DEF m
    <3>2. CASE devices[m.device] = None
      BY <1>1, <2>3, <3>2, DrawnStays DEF HandleDeviceUpdate
    <3>3. CASE devices[m.device] # None
      <4>1. /\ \E v : devices' = [devices EXCEPT ![m.device] = v]
            /\ undrawn' = (undrawn \ {m.device}) \cup
                 (IF controls # None /\ controls = [id |-> m.device, obj |-> Live] THEN {"dialog"} ELSE {})
        BY <2>3, <3>3 DEF HandleDeviceUpdate
      <4>2. "dialog" \in undrawn => "dialog" \in undrawn'
        BY <3>1, <4>1, TitleAssumption
      <4>3. body.kind = "controls" => controls \in Held /\ controls # None
        BY ObjectsAssumption DEF TypeInv, ControlsType
      <4>4. ASSUME body.kind = "controls", controls.obj = Live, controls.id = m.device
            PROVE  "dialog" \in undrawn'
        <5>1. controls = [id |-> m.device, obj |-> Live]
          BY <4>3, <4>4 DEF Held
        <5> QED
          BY <4>1, <4>3, <4>4, <5>1
      <4>5. \A d \in Devices \ {m.device} : devices'[d] = devices[d]
        BY <4>1 DEF TypeInv, PageType, Lists
      <4>6. ASSUME body.kind = "controls", "dialog" \notin undrawn'
            PROVE  Value(controls.obj, controls.id)' = Value(controls.obj, controls.id)
        BY <2>3, <4>3, <4>4, <4>5, <4>6 DEF Value, Held
      <4> QED
        BY <1>1, <2>3, <4>2, <4>6, DrawnSame
    <3> QED
      BY <3>2, <3>3
  <2>4. CASE UNCHANGED <<devices, controls, undrawn>>
    BY <1>1, <2>4, DrawnStays
  <2> QED
    BY <2>1, <2>2, <2>3, <2>4 DEF HandleMessage
<1> QED
  BY <1>2, <1>3

(* What the user does draws the dialog or leaves it. *)
LEMMA DrawnUser == ASSUME TypeInv, DialogDrawn, User \/ Clock PROVE DialogDrawn'
<1>1. ASSUME NEW p, ShowPage(p) PROVE DialogDrawn'
  BY <1>1, DrawnStays DEF ShowPage, LoadPageData, DrawGrid, dialogVars
<1>2. ASSUME NEW ds, FilterDevices(ds) PROVE DialogDrawn'
  BY <1>2, DrawnStays DEF FilterDevices, DrawGrid, dialogVars
<1>3. ASSUME NEW d \in Devices, ShowDeviceDetails(d) PROVE DialogDrawn'
  BY <1>3 DEF ShowDeviceDetails, DialogDrawn, Drawn, Value
<1>4. CASE ShowAddDevice \/ CloseDialog
  BY <1>4 DEF ShowAddDevice, CloseDialog, HideModal, Form, DialogDrawn
<1>5. CASE UNCHANGED <<devices, dialogVars, undrawn>> \/ UNCHANGED <<devices, controls, open, body, undrawn>>
  BY <1>5, DrawnStays DEF dialogVars
<1> QED
  BY <1>1, <1>2, <1>3, <1>4, <1>5
     DEF User, Clock, CreateDevice, AskOnly, Click, RefreshDevice, RefreshAll, RunDeviceDiscovery,
         RefreshTimer, MonitorTick, DiscoveryComplete, FailSafe, historyVars

(* An answer draws the dialog or leaves it. *)
LEMMA DrawnAnswer ==
  ASSUME TypeInv, DialogDrawn, NEW r \in requests, Answer(r) PROVE DialogDrawn'
<1>0. devices \in Lists /\ RequestType(r)
  BY DEF TypeInv, PageType, RequestsTyped
<1>1. CASE AnswerDevices(r)
  <2>1. controls' = KeptControls(Devices) /\ ("dialog" \in undrawn => "dialog" \in undrawn')
    BY <1>1, DisplaysDialog DEF AnswerDevices, LoadDevices
  <2> QED
    BY <1>1, <2>1, DrawnKept DEF AnswerDevices
<1>2. CASE r.status = "ok" /\ AnswerRefresh(r)
  <2>1. r.device \in Devices
    BY <1>0, <1>2 DEF AnswerRefresh, RequestType
  <2>2. devices'[r.device] = r.reply
    BY <1>0, <1>2, <2>1 DEF AnswerRefresh, Lists
  <2> QED
    BY <1>2, <2>2 DEF AnswerRefresh, DialogDrawn, Drawn, Value, NoBody
<1>3. CASE AnswerCreate(r)
  BY <1>3 DEF AnswerCreate, HideModal, DialogDrawn
<1>4. CASE AnswerSweep(r)
  <2>1. \A d \in Devices \ {r.device} : devices'[d] = devices[d]
    BY <1>0, <1>4 DEF AnswerSweep, Lists
  <2>2. controls' = KeptControls({r.device}) /\ ("dialog" \in undrawn => "dialog" \in undrawn')
    BY <1>4 DEF AnswerSweep
  <2> QED
    BY <1>4, <2>1, <2>2, DrawnKept DEF AnswerSweep
<1>5. CASE AnswerDiscover(r)
  BY <1>5 DEF AnswerDiscover, Progress, DialogDrawn
<1>6. CASE AnswerEvents(r) \/ AnswerClick(r) \/ AnswerFailed(r)
  <2>1. UNCHANGED <<devices, controls, open, body, undrawn>>
    BY <1>6 DEF AnswerEvents, AnswerClick, AnswerFailed, dialogVars
  <2> QED
    BY <2>1, DrawnStays
<1> QED
  BY <1>1, <1>2, <1>3, <1>4, <1>5, <1>6 DEF Answer

(* Every step leaves the dialog as drawn, or notes that it is not. *)
LEMMA DialogDrawnStep == ASSUME TypeInv, DialogDrawn, [Next]_vars PROVE DialogDrawn'
<1>1. CASE Connection \/ Greet \/ World \/ UNCHANGED vars
  BY <1>1, DrawnStays DEF Connection, Greet, World, pageVars, vars, dialogVars, historyVars
<1>2. ASSUME NEW r \in requests, ServerHandles(r) \/ Lose(r) PROVE DialogDrawn'
  BY <1>2, DrawnStays DEF ServerHandles, Lose, dialogVars
<1> QED
  BY <1>1, <1>2, DrawnReceive, DrawnUser, DrawnAnswer DEF Next

(* Cards, in the same way. *)
LEMMA CardsStay ==
  ASSUME CardsDrawn, UNCHANGED <<page, cards, undrawn, devices>> PROVE CardsDrawn'
  BY DEF CardsDrawn

(* Drawing the devices makes the cards what the page holds. *)
LEMMA DisplaysCards ==
  ASSUME UpdateDeviceDisplays, page' = page PROVE CardsDrawn'
  BY DEF UpdateDeviceDisplays, DrawGrid, CardsDrawn

(* A message leaves the cards as drawn, or notes that they are not. *)
LEMMA CardsReceive ==
  ASSUME TypeInv, CardsDrawn, NEW k \in 1..Len(wire), Receive(k) PROVE CardsDrawn'
<1>1. page' = page
  BY DEF Receive, place
<1>2. CASE k # 1
  BY <1>1, <1>2, CardsStay DEF Receive
<1>3. CASE k = 1
  <2> DEFINE m == wire[1]
  <2>1. HandleMessage(m) /\ m \in Messages
    BY <1>3 DEF Receive, TypeInv, ServerType
  <2>2. CASE LoadDevices(m.data)
    BY <1>1, <2>2, DisplaysCards DEF LoadDevices
  <2>3. CASE m.type = "device_update" /\ HandleDeviceUpdate(m)
    <3>1. m.device \in Devices
      BY <2>1, <2>3, MessageTypes
    <3> HIDE DEF m
    <3>2. CASE devices[m.device] = None
      BY <1>1, <2>3, <3>2, CardsStay DEF HandleDeviceUpdate
    <3>3. CASE devices[m.device] # None
      <4>1. /\ devices' = [devices EXCEPT ![m.device] = [online |-> TRUE, state |-> m.state]]
            /\ cards' = [cards EXCEPT ![m.device] =
                 IF cards[m.device] = None THEN None ELSE devices'[m.device]]
            /\ undrawn \ {m.device} \subseteq undrawn'
        BY <2>3, <3>3 DEF HandleDeviceUpdate
      <4>2. /\ cards'[m.device] \in {None, devices'[m.device]}
            /\ \A d \in Devices \ {m.device} : cards'[d] = cards[d] /\ devices'[d] = devices[d]
        BY <3>1, <4>1 DEF TypeInv, PageType, Lists
      <4> QED
        BY <1>1, <4>1, <4>2 DEF CardsDrawn
    <3> QED
      BY <3>2, <3>3
  <2>4. CASE UNCHANGED <<devices, cards, undrawn>>
    BY <1>1, <2>4, CardsStay
  <2> QED
    BY <2>1, <2>2, <2>3, <2>4 DEF HandleMessage
<1> QED
  BY <1>2, <1>3

(* What the user does draws the cards or leaves them. *)
LEMMA CardsUser == ASSUME TypeInv, CardsDrawn, User \/ Clock PROVE CardsDrawn'
<1>1. ASSUME NEW p, ShowPage(p) PROVE CardsDrawn'
  BY <1>1 DEF ShowPage, LoadPageData, DrawGrid, CardsDrawn
<1>2. ASSUME NEW ds, FilterDevices(ds) PROVE CardsDrawn'
  <2>1. cards' = [d \in Devices |-> IF d \in ds THEN devices[d] ELSE None] /\ devices' = devices
    BY <1>2 DEF FilterDevices, DrawGrid
  <2> QED
    BY <2>1 DEF CardsDrawn
<1>3. ASSUME NEW d \in Devices, ShowDeviceDetails(d) PROVE CardsDrawn'
  <2>1. Devices \ undrawn' \subseteq Devices \ undrawn /\ UNCHANGED <<page, cards, devices>>
    BY <1>3, TitleAssumption DEF ShowDeviceDetails
  <2> QED
    BY <2>1 DEF CardsDrawn
<1>4. CASE UNCHANGED <<page, cards, devices, undrawn>>
  BY <1>4, CardsStay
<1> QED
  BY <1>1, <1>2, <1>3, <1>4
     DEF User, Clock, ShowAddDevice, CloseDialog, CreateDevice, AskOnly, Click, RefreshDevice,
         RefreshAll, RunDeviceDiscovery, RefreshTimer, MonitorTick, DiscoveryComplete, FailSafe,
         historyVars, place

(* An answer draws the cards or leaves them. *)
LEMMA CardsAnswer ==
  ASSUME TypeInv, CardsDrawn, NEW r \in requests, Answer(r) PROVE CardsDrawn'
<1>1. CASE AnswerDevices(r) \/ AnswerCreate(r)
  BY <1>1, DisplaysCards DEF AnswerDevices, AnswerCreate, LoadDevices, place
<1>2. CASE AnswerRefresh(r) \/ AnswerSweep(r)
  <2>1. /\ \A d \in Devices \ {r.device} : devices'[d] = devices[d]
        /\ UNCHANGED <<page, cards>>
    BY <1>2 DEF AnswerRefresh, AnswerSweep, TypeInv, PageType, Lists, place
  <2>2. Devices \ undrawn' \subseteq Devices \ (undrawn \cup {r.device})
    BY <1>2, TitleAssumption DEF AnswerRefresh, AnswerSweep
  <2> QED
    BY <2>1, <2>2 DEF CardsDrawn
<1>3. CASE AnswerDiscover(r) \/ AnswerEvents(r) \/ AnswerClick(r) \/ AnswerFailed(r)
  <2>1. UNCHANGED <<devices, page, cards, undrawn>>
    BY <1>3 DEF AnswerDiscover, AnswerEvents, AnswerClick, AnswerFailed, place
  <2> QED
    BY <2>1, CardsStay
<1> QED
  BY <1>1, <1>2, <1>3 DEF Answer

(* Every step leaves the cards as drawn, or notes that they are not. *)
LEMMA CardsStep == ASSUME TypeInv, CardsDrawn, [Next]_vars PROVE CardsDrawn'
<1>1. CASE Connection \/ Greet \/ World \/ UNCHANGED vars
  BY <1>1, CardsStay DEF Connection, Greet, World, pageVars, vars, place, historyVars
<1>2. ASSUME NEW r \in requests, ServerHandles(r) \/ Lose(r) PROVE CardsDrawn'
  BY <1>2, CardsStay DEF ServerHandles, Lose, place
<1> QED
  BY <1>1, <1>2, CardsReceive, CardsUser, CardsAnswer DEF Next

(* A button does what it was drawn for (device-controls.js:562,            *)
(* app.js:581), for any devices, states and commands, unless what it was   *)
(* drawn from has changed without a new drawing.                           *)
THEOREM ButtonsDo == Spec => []ButtonsAsDrawn
<1>1. Init => DrawnInv
  BY DEF Init, DrawnInv, DialogDrawn, CardsDrawn, NoCards, NoBody
<1>2. DrawnInv => ButtonsAsDrawn
  BY DEF DrawnInv, DialogDrawn, CardsDrawn, ButtonsAsDrawn, SameCommands
<1>3. TypeInv /\ DrawnInv /\ [Next]_vars => DrawnInv'
  BY DialogDrawnStep, CardsStep DEF DrawnInv
<1> QED
  BY <1>1, <1>2, <1>3, DialogInit, DialogStep, TypeInit, TypeStep, PTL DEF Spec

(***************************************************************************)
(* The page and the server.                                                *)
(***************************************************************************)

(* Nothing is on its way over a socket that is not open.                   *)
SocketInv ==
  /\ reconnectTimer => socket = "closed"
  /\ socket # "open" => wire = <<>> /\ greeting.at = "none"

(* The device is created, and the page is about to hear of it.             *)
Created(d) == \E r \in requests : r.op = "create" /\ r.device = d /\ r.status = "ok"

(* The last message about a device says what the server has.               *)
LastSays(d) == \E i \in 1..Len(wire) : LastWord(i, d) /\ Says(wire[i], d) = server[d]

(* It does for a device that the server has, and no message tells of one   *)
(* that it has not.                                                        *)
WireSound(d) ==
  /\ \A i \in 1..Len(wire) :
       wire[i].type = "initial_data" => (wire[i].data[d] = None <=> server[d] = None)
  /\ server[d] # None /\ Told(d) => LastSays(d)

(* The page has none of the devices that the server has not, and lacks one *)
(* of the server's only while it is told that it was created.              *)
Sound(d) ==
  /\ devices[d] = server[d] \/ Coming(d)
  /\ server[d] = None => devices[d] = None
  /\ server[d] # None /\ devices[d] = None => Created(d)
  /\ WireSound(d)

Agreement == \A d \in Devices : d \in excused \/ Sound(d)
AgreeInv == SocketInv /\ Agreement

-----------------------------------------------------------------------------
(* What comes: the last word, a greeting or a creation.                    *)
LEMMA WhatComes ==
  ASSUME NEW d
  PROVE  Coming(d) <=> \/ socket # "open"
                       \/ greeting.at = "due"
                       \/ greeting.at = "marshalled" /\ greeting.devices[d] = server[d]
                       \/ LastSays(d) \/ Created(d)
  BY DEF Coming, LastSays, Created

(* Of a device no message tells of, nothing wrong is on the wire. *)
LEMMA Untold == ASSUME NEW d \in Devices, ~Told(d) PROVE WireSound(d)
  BY DEF Told, About, WireSound

(* A device that needs no excuse any more is sound.                        *)
LEMMA Excused ==
  ASSUME Agreement, NEW ds, Excuse(ds),
         \A d \in Devices : d \notin excused \cup ds /\ Sound(d) => Sound(d)'
  PROVE  Agreement'
<1> SUFFICES ASSUME NEW d \in Devices, d \notin excused' PROVE Sound(d)'
  BY DEF Agreement
<1>1. CASE d \in excused \cup ds
  <2>1. devices'[d] = server'[d] /\ ~Told(d)'
    BY <1>1 DEF Excuse
  <2>2. WireSound(d)'
    BY <2>1 DEF Told, About, WireSound
  <2> QED
    BY <2>1, <2>2 DEF Sound
<1>2. CASE d \notin excused \cup ds
  BY <1>2 DEF Agreement
<1> QED
  BY <1>1, <1>2

(* With the excuses as they were, it is enough that what was sound stays so. *)
LEMMA SameExcuses ==
  ASSUME Agreement, excused' = excused, \A d \in Devices : d \notin excused /\ Sound(d) => Sound(d)'
  PROVE  Agreement'
  BY DEF Agreement

(* A device of which nothing changes stays sound ...                       *)
LEMMA SoundQuiet ==
  ASSUME NEW d \in Devices, Sound(d), UNCHANGED <<socket, greeting, wire>>,
         server'[d] = server[d], devices'[d] = devices[d], Created(d) => Created(d)'
  PROVE  Sound(d)'
<1>1. LastSays(d)' <=> LastSays(d)
  BY DEF LastSays, LastWord
<1>2. Told(d)' <=> Told(d)
  BY DEF Told
<1>3. WireSound(d)'
  BY <1>1, <1>2 DEF Sound, WireSound
<1>4. Coming(d) => Coming(d)'
  BY <1>1 DEF Coming, LastSays, Created
<1> QED
  BY <1>3, <1>4 DEF Sound

(* ... and so does one that the page gets as the server has it.            *)
LEMMA SoundAgrees ==
  ASSUME NEW d \in Devices, Sound(d), UNCHANGED <<server, wire>>, devices'[d] = server[d]
  PROVE  Sound(d)'
<1>1. WireSound(d)'
  BY DEF Sound, WireSound, LastSays, LastWord, Told
<1> QED
  BY <1>1 DEF Sound

(* A message that is sent comes after all that were on the wire. *)
LEMMA AppendWord ==
  ASSUME wire \in Seq(Messages), NEW m \in Messages, wire' = Append(wire, m)
  PROVE  /\ Len(wire) \in Nat /\ Len(wire') = Len(wire) + 1 /\ wire'[Len(wire')] = m
         /\ \A i \in 1..Len(wire) : i \in 1..Len(wire') /\ wire'[i] = wire[i]
         /\ \A i \in 1..Len(wire') : i \in 1..Len(wire) \/ i = Len(wire')
  OBVIOUS

(* A message about others.                                                 *)
LEMMA OtherWord ==
  ASSUME wire \in Seq(Messages), NEW m \in Messages, wire' = Append(wire, m),
         NEW d \in Devices, d \notin About(m), server'[d] = server[d]
  PROVE  (WireSound(d) => WireSound(d)') /\ (LastSays(d) => LastSays(d)')
<1>1. /\ Len(wire) \in Nat /\ Len(wire') = Len(wire) + 1 /\ wire'[Len(wire')] = m
      /\ \A i \in 1..Len(wire) : i \in 1..Len(wire') /\ wire'[i] = wire[i]
      /\ \A i \in 1..Len(wire') : i \in 1..Len(wire) \/ i = Len(wire')
  BY AppendWord
<1>2. ASSUME LastSays(d) PROVE LastSays(d)'
  <2>1. PICK i \in 1..Len(wire) : LastWord(i, d) /\ Says(wire[i], d) = server[d]
    BY <1>2 DEF LastSays
  <2>2. i \in 1..Len(wire') /\ wire'[i] = wire[i]
    BY <1>1
  <2>3. ASSUME NEW j \in i + 1 .. Len(wire') PROVE d \notin About(wire'[j])
    <3>1. j = Len(wire') \/ j \in i + 1 .. Len(wire)
      BY <1>1, <2>3
    <3> QED
      BY <1>1, <2>1, <3>1 DEF LastWord
  <2> QED
    BY <2>1, <2>2, <2>3 DEF LastSays, LastWord
<1>3. Told(d)' => Told(d)
  BY <1>1 DEF Told
<1>4. m.type # "initial_data"
  BY DEF About
<1> QED
  BY <1>1, <1>2, <1>3, <1>4 DEF WireSound

(* A message about it, that says what the server has now.                  *)
LEMMA OwnWord ==
  ASSUME wire \in Seq(Messages), NEW m \in Messages, wire' = Append(wire, m),
         NEW d \in Devices, d \in About(m), Says(m, d) = server'[d]
  PROVE  LastSays(d)'
<1>1. Len(wire') \in 1..Len(wire') /\ wire'[Len(wire')] = m /\ Len(wire') + 1 .. Len(wire') = {}
  BY AppendWord
<1> QED
  BY <1>1 DEF LastSays, LastWord

(* Messages are taken, and what is left keeps its order.                   *)
LEMMA Shift ==
  ASSUME wire \in Seq(Messages), NEW k \in 1..Len(wire), wire' = SubSeq(wire, k + 1, Len(wire))
  PROVE  /\ Len(wire) \in Nat /\ Len(wire') = Len(wire) - k
         /\ \A i \in 1..Len(wire') : i + k \in k + 1 .. Len(wire) /\ wire'[i] = wire[i + k]
         /\ \A i \in k + 1 .. Len(wire) : i - k \in 1..Len(wire') /\ wire'[i - k] = wire[i]
  OBVIOUS

(* Messages that are read, or lost before one that is, leave a sound wire sound. *)
LEMMA ShiftSound ==
  ASSUME wire \in Seq(Messages), NEW k \in 1..Len(wire), wire' = SubSeq(wire, k + 1, Len(wire)),
         server' = server, NEW d \in Devices, WireSound(d)
  PROVE  /\ WireSound(d)'
         /\ \A i \in k + 1 .. Len(wire) : LastWord(i, d) /\ Says(wire[i], d) = server[d] => LastSays(d)'
<1>1. /\ Len(wire) \in Nat /\ Len(wire') = Len(wire) - k
      /\ \A i \in 1..Len(wire') : i + k \in k + 1 .. Len(wire) /\ wire'[i] = wire[i + k]
      /\ \A i \in k + 1 .. Len(wire) : i - k \in 1..Len(wire') /\ wire'[i - k] = wire[i]
  BY Shift
<1>2. ASSUME NEW i \in k + 1 .. Len(wire), LastWord(i, d), Says(wire[i], d) = server[d]
      PROVE  LastSays(d)'
  <2>1. i - k \in 1..Len(wire') /\ wire'[i - k] = wire[i]
    BY <1>1
  <2>2. ASSUME NEW j \in i - k + 1 .. Len(wire') PROVE d \notin About(wire'[j])
    <3>1. j \in 1..Len(wire') /\ j + k \in i + 1 .. Len(wire)
      BY <1>1, <2>1, <2>2
    <3> QED
      BY <1>1, <1>2, <3>1 DEF LastWord
  <2> QED
    BY <1>2, <2>1, <2>2 DEF LastSays, LastWord
<1>3. ASSUME server[d] # None, Told(d)' PROVE LastSays(d)'
  <2>1. PICK j \in 1..Len(wire') : d \in About(wire'[j])
    BY <1>3 DEF Told
  <2>2. j + k \in 1..Len(wire) /\ d \in About(wire[j + k])
    BY <1>1, <2>1
  <2>3. PICK i \in 1..Len(wire) : LastWord(i, d) /\ Says(wire[i], d) = server[d]
    BY <1>3, <2>2 DEF WireSound, Told, LastSays
  <2>4. i \geq j + k
    BY <1>1, <2>1, <2>2, <2>3 DEF LastWord
  <2>5. i \in k + 1 .. Len(wire)
    BY <1>1, <2>1, <2>4
  <2> QED
    BY <1>2, <2>3, <2>5
<1>4. WireSound(d)'
  <2>1. \A i \in 1..Len(wire') : i + k \in 1..Len(wire) /\ wire'[i] = wire[i + k]
    BY <1>1
  <2> QED
    BY <1>3, <2>1 DEF WireSound
<1> QED
  BY <1>2, <1>4

(* Every step keeps a socket that is not open without messages. *)
LEMMA SocketStep == ASSUME ServerType, SocketInv, [Next]_vars PROVE SocketInv'
<1>1. CASE Connection
  BY <1>1 DEF Connection, OnOpen, OnClose, Reconnect, MarshalInitialData, ScheduleReconnect, SocketInv,
     NoGreeting
<1>2. CASE Greet
  BY <1>2 DEF Greet, SendInitialData, SocketInv
<1>3. CASE World
  <2>1. UNCHANGED <<reconnectTimer, socket, greeting>> /\ (socket # "open" => wire' = wire)
    BY <1>3 DEF World, HandleDeviceState, HandleDeviceAnnounce, HandleDeleteDevice, HandleEvent,
       Broadcast, connectionVars
  <2> QED
    BY <2>1 DEF SocketInv
<1>4. CASE UNCHANGED connectionVars
  BY <1>4 DEF connectionVars, SocketInv
<1>5. CASE User \/ Clock \/ UNCHANGED vars
  BY <1>4, <1>5 DEF User, Clock, vars, ShowPage, FilterDevices, ShowDeviceDetails, CreateDevice, AskOnly,
     ShowAddDevice, CloseDialog, Click, RefreshDevice, RefreshAll, RunDeviceDiscovery,
     RefreshTimer, MonitorTick, DiscoveryComplete, FailSafe, socketVars
<1>6. ASSUME NEW k, Receive(k) PROVE SocketInv'
  BY <1>6 DEF Receive, OnMessage, SocketInv
<1>7. ASSUME NEW r \in requests, ServerHandles(r) \/ Answer(r) \/ Lose(r) PROVE SocketInv'
  BY <1>4, <1>7 DEF ServerHandles, Answer, Lose, socketVars
<1> QED
  BY <1>1, <1>2, <1>3, <1>5, <1>6, <1>7 DEF Next

(* Opening and closing the socket leave only what is excused different. *)
LEMMA AgreeConnection == ASSUME TypeInv, AgreeInv, Connection PROVE Agreement'
<1>1. UNCHANGED <<server, devices, requests, excused>>
  BY DEF Connection, OnOpen, OnClose, Reconnect, MarshalInitialData, serverVars, pageVars
<1> SUFFICES ASSUME NEW d \in Devices, Sound(d) PROVE Sound(d)'
  BY <1>1, SameExcuses DEF AgreeInv
<1>2. Created(d)' <=> Created(d)
  BY <1>1 DEF Created
<1>3. WireSound(d)'
  <2>1. CASE OnOpen \/ OnClose
    <3>1. wire' = <<>> /\ Len(wire') = 0
      BY <2>1 DEF OnOpen, OnClose
    <3> QED
      BY <3>1 DEF WireSound, Told
  <2>2. CASE Reconnect \/ MarshalInitialData
    <3>1. wire' = wire
      BY <2>2 DEF Reconnect, MarshalInitialData
    <3> QED
      BY <1>1, <3>1 DEF Sound, WireSound, Told, LastSays, LastWord
  <2> QED
    BY <2>1, <2>2 DEF Connection
<1>4. devices[d] = server[d] \/ Coming(d)'
  <2>1. CASE OnOpen \/ OnClose \/ Reconnect
    BY <2>1 DEF OnOpen, OnClose, Reconnect, Coming
  <2>2. CASE MarshalInitialData
    <3>1. greeting' = [at |-> "marshalled", devices |-> server]
      BY <2>2 DEF MarshalInitialData
    <3>2. greeting'.at = "marshalled" /\ greeting'.devices[d] = server'[d]
      BY <1>1, <3>1
    <3> QED
      BY <3>2 DEF Coming
  <2> QED
    BY <2>1, <2>2 DEF Connection
<1> QED
  BY <1>1, <1>2, <1>3, <1>4 DEF Sound

(* The first message says all that the server has. *)
LEMMA AgreeGreet == ASSUME TypeInv, AgreeInv, Greet PROVE Agreement'
<1> DEFINE m == [type |-> "initial_data", data |-> greeting.devices]
<1>1. /\ wire' = Append(wire, m) /\ greeting.at = "marshalled"
      /\ UNCHANGED <<server, socket, devices, requests>>
      /\ Excuse({d \in Devices : greeting.devices[d] # server[d]})
  BY DEF Greet, SendInitialData, serverVars, pageVars
<1>2. m \in Messages /\ wire \in Seq(Messages)
  BY <1>1 DEF TypeInv, ServerType, Messages
<1> SUFFICES ASSUME NEW d \in Devices, greeting.devices[d] = server[d], Sound(d) PROVE Sound(d)'
  BY <1>1, Excused DEF AgreeInv
<1>3. d \in About(m) /\ Says(m, d) = server'[d]
  BY <1>1 DEF About, Says
<1>4. m.type = "initial_data" /\ m.data[d] = server[d]
  OBVIOUS
<1> HIDE DEF m
<1>5. LastSays(d)'
  BY <1>1, <1>2, <1>3, OwnWord
<1>6. WireSound(d)'
  <2>1. \A i \in 1..Len(wire') : wire'[i].type = "initial_data" => (wire'[i].data[d] = None <=> server[d] = None)
    <3>1. \A i \in 1..Len(wire') : wire'[i] = m \/ (i \in 1..Len(wire) /\ wire'[i] = wire[i])
      BY <1>1, <1>2, AppendWord
    <3> QED
      BY <1>4, <3>1 DEF Sound, WireSound
  <2> QED
    BY <1>1, <1>5, <2>1 DEF WireSound
<1> QED
  BY <1>1, <1>5, <1>6 DEF Sound, Coming, LastSays, Created

(* A state that is broadcast is on the wire after all others of its device. *)
LEMMA AgreeState ==
  ASSUME TypeInv, AgreeInv, NEW e \in Devices, NEW s \in States[e], HandleDeviceState(e, s),
         Excuse({}), UNCHANGED pageVars
  PROVE  Agreement'
<1> DEFINE m == [type |-> "device_update", device |-> e, state |-> s]
           new == [online |-> TRUE, state |-> s]
<1>1. /\ server' = [server EXCEPT ![e] = IF server[e] = None THEN None ELSE new]
      /\ wire' = IF socket = "open" THEN Append(wire, m) ELSE wire
      /\ UNCHANGED <<socket, greeting, devices, requests>>
  BY DEF HandleDeviceState, Broadcast, pageVars
<1>2. /\ m \in Messages /\ new \in Objects /\ new # None /\ About(m) = {e} /\ Says(m, e) = new
      /\ m.type # "initial_data"
  BY NewObjects, ObjectsAssumption DEF Messages, About, Says
<1>3. wire \in Seq(Messages) /\ server \in Lists
  BY DEF TypeInv, ServerType
<1> HIDE DEF m, new
<1>4. \A d \in Devices : server'[d] = None <=> server[d] = None
  BY <1>1, <1>2, <1>3 DEF Lists
<1>5. \A d \in Devices \ {e} : server'[d] = server[d]
  BY <1>1, <1>3 DEF Lists
<1>6. server[e] # None => server'[e] = new
  BY <1>1, <1>3 DEF Lists
<1> SUFFICES ASSUME NEW d \in Devices, Sound(d) PROVE Sound(d)'
  BY Excused DEF AgreeInv
<1>7. Created(d) <=> Created(d)'
  BY <1>1 DEF Created
<1>8. CASE socket # "open"
  <2>1. WireSound(d)'
    <3>1. wire' = <<>> /\ Len(wire') = 0
      BY <1>1, <1>8 DEF AgreeInv, SocketInv
    <3> QED
      BY <3>1 DEF WireSound, Told
  <2> QED
    BY <1>1, <1>4, <1>7, <1>8, <2>1 DEF Sound, Coming
<1>9. CASE socket = "open"
  <2>0. wire' = Append(wire, m)
    BY <1>1, <1>9
  <2>1. CASE d # e
    <3>1. d \notin About(m) /\ server'[d] = server[d]
      BY <1>2, <1>5, <2>1
    <3>2. (WireSound(d) => WireSound(d)') /\ (LastSays(d) => LastSays(d)')
      BY <1>2, <1>3, <2>0, <3>1, OtherWord
    <3>3. Coming(d) => Coming(d)'
      BY <1>1, <1>7, <3>1, <3>2 DEF Coming, LastSays, Created
    <3> QED
      BY <1>1, <1>7, <3>1, <3>2, <3>3 DEF Sound
  <2>2. CASE d = e
    <3>1. \A i \in 1..Len(wire') :
            wire'[i].type = "initial_data" => (wire'[i].data[d] = None <=> server'[d] = None)
      <4>1. \A i \in 1..Len(wire') : wire'[i] = m \/ (i \in 1..Len(wire) /\ wire'[i] = wire[i])
        BY <1>2, <1>3, <2>0, AppendWord
      <4> QED
        BY <1>2, <1>4, <4>1 DEF Sound, WireSound
    <3>2. CASE server[d] = None
      <4>1. server'[d] = None /\ devices'[d] = None
        BY <1>1, <1>4, <3>2 DEF Sound
      <4> QED
        BY <3>1, <4>1 DEF Sound, WireSound
    <3>3. CASE server[d] # None
      <4>1. LastSays(d)'
        BY <1>2, <1>3, <1>6, <2>0, <2>2, <3>3, OwnWord
      <4>2. server'[d] # None
        BY <1>4, <3>3
      <4> QED
        BY <1>1, <1>7, <3>1, <3>3, <4>1, <4>2 DEF Sound, WireSound, Coming, LastSays
    <3> QED
      BY <3>2, <3>3
  <2> QED
    BY <2>1, <2>2
<1> QED
  BY <1>8, <1>9

(* What devices and other users do is told on the socket, or excused. *)
LEMMA AgreeWorld == ASSUME TypeInv, AgreeInv, World PROVE Agreement'
<1>1. ASSUME NEW e \in Devices, NEW s \in States[e], HandleDeviceState(e, s), Excuse({}), UNCHANGED pageVars
      PROVE  Agreement'
  BY <1>1, AgreeState
<1>2. ASSUME NEW e \in Devices, HandleDeviceAnnounce(e) \/ HandleDeleteDevice(e), Excuse({e}), UNCHANGED pageVars
      PROVE  Agreement'
  <2>1. UNCHANGED <<socket, greeting, wire, devices, requests>>
    BY <1>2 DEF HandleDeviceAnnounce, HandleDeleteDevice, connectionVars, pageVars
  <2>2. \A d \in Devices \ {e} : server'[d] = server[d]
    BY <1>2 DEF HandleDeviceAnnounce, HandleDeleteDevice, TypeInv, ServerType, Lists
  <2>3. ASSUME NEW d \in Devices, d # e, Sound(d) PROVE Sound(d)'
    BY <2>1, <2>2, <2>3, SoundQuiet DEF Created
  <2> QED
    BY <1>2, <2>3, Excused DEF AgreeInv
<1>3. ASSUME HandleEvent, Excuse({}), UNCHANGED pageVars PROVE Agreement'
  <2> DEFINE m == [type |-> "event", event |-> log']
  <2>1. /\ UNCHANGED <<server, socket, greeting, devices, requests>>
        /\ wire' = wire \/ wire' = Append(wire, m)
    BY <1>3 DEF HandleEvent, Broadcast, pageVars
  <2>2. wire \in Seq(Messages) /\ m \in Messages /\ About(m) = {}
    BY <1>3 DEF TypeInv, ServerType, HandleEvent, Messages, About
  <2> HIDE DEF m
  <2>3. ASSUME NEW d \in Devices, Sound(d) PROVE Sound(d)'
    <3>1. CASE wire' = wire
      BY <2>1, <2>3, <3>1, SoundQuiet DEF Created
    <3>2. CASE wire' = Append(wire, m)
      <4>1. (WireSound(d) => WireSound(d)') /\ (LastSays(d) => LastSays(d)')
        BY <2>1, <2>2, <3>2, OtherWord
      <4>2. Coming(d) => Coming(d)'
        BY <2>1, <4>1 DEF Coming, LastSays
      <4> QED
        BY <2>1, <2>3, <4>1, <4>2 DEF Sound, Created
    <3> QED
      BY <2>1, <3>1, <3>2
  <2> QED
    BY <1>3, <2>3, Excused DEF AgreeInv
<1> QED
  BY <1>1, <1>2, <1>3 DEF World

(* A message leaves only what is excused different from the server. *)
LEMMA AgreeReceive ==
  ASSUME TypeInv, AgreeInv, NEW k \in 1..Len(wire), Receive(k) PROVE Agreement'
<1>1. /\ wire' = SubSeq(wire, k + 1, Len(wire)) /\ UNCHANGED <<server, socket, greeting, requests>>
      /\ wire \in Seq(Messages) /\ devices \in Lists /\ Len(wire) \in Nat
  BY DEF Receive, OnMessage, serverVars, TypeInv, ServerType, PageType
<1>2. ASSUME NEW d \in Devices, Sound(d), devices'[d] = devices[d],
             \A i \in 1..k : d \notin About(wire[i])
      PROVE  Sound(d)'
  <2>1. WireSound(d)'
    BY <1>1, <1>2, ShiftSound DEF Sound
  <2>2. LastSays(d) => LastSays(d)'
    <3>1. ASSUME NEW i \in 1..Len(wire), LastWord(i, d), Says(wire[i], d) = server[d] PROVE LastSays(d)'
      <4>1. i \in k + 1 .. Len(wire)
        BY <1>1, <1>2, <3>1 DEF LastWord
      <4> QED
        BY <1>1, <1>2, <3>1, <4>1, ShiftSound DEF Sound
    <3> QED
      BY <3>1 DEF LastSays
  <2>3. Coming(d) => Coming(d)'
    BY <1>1, <2>2 DEF Coming, LastSays
  <2> QED
    BY <1>1, <1>2, <2>1, <2>3 DEF Sound, Created
<1>3. CASE k # 1
  <2>1. devices' = devices /\ Excuse(UNION {About(wire[i]) : i \in 1..k})
    BY <1>3 DEF Receive
  <2>2. ASSUME NEW d \in Devices, d \notin UNION {About(wire[i]) : i \in 1..k}, Sound(d) PROVE Sound(d)'
    BY <1>2, <2>1, <2>2
  <2> QED
    BY <2>1, <2>2, Excused DEF AgreeInv
<1>4. CASE k = 1
  <2> DEFINE m == wire[1]
  <2>1. HandleMessage(m) /\ m \in Messages /\ Excuse({}) /\ 1 \in 1..Len(wire)
    BY <1>1, <1>4 DEF Receive
  <2>2. /\ m.type = "initial_data" => devices' = m.data
        /\ m.type = "device_update" =>
             /\ m.device \in Devices
             /\ devices' = IF devices[m.device] = None THEN devices
                           ELSE [devices EXCEPT ![m.device] = [online |-> TRUE, state |-> m.state]]
        /\ m.type \notin {"initial_data", "device_update"} => devices' = devices
    BY <2>1, MessageTypes DEF HandleMessage, LoadDevices, HandleDeviceUpdate
  <2>3. ASSUME NEW d \in Devices
        PROVE  /\ d \notin About(m) => devices'[d] = devices[d]
               /\ d \in About(m) => \/ devices'[d] = Says(m, d)
                                    \/ m.type # "initial_data" /\ devices[d] = None /\ devices'[d] = None
               /\ d \in About(m) => m.type = "initial_data" \/ (m.type = "device_update" /\ m.device = d)
    <3> HIDE DEF m
    <3>1. CASE m.type = "initial_data"
      BY <2>2, <3>1 DEF About, Says
    <3>2. CASE m.type = "device_update"
      BY <1>1, <2>2, <3>2 DEF About, Says, Lists
    <3>3. CASE m.type \notin {"initial_data", "device_update"}
      BY <2>2, <3>3 DEF About
    <3> QED
      BY <3>1, <3>2, <3>3
  <2>4. ASSUME NEW d \in Devices, Sound(d), d \in About(m) PROVE Sound(d)'
    <3>1. WireSound(d) /\ WireSound(d)'
      BY <1>1, <2>4, ShiftSound DEF Sound
    <3>2. CASE server[d] = None
      <4>1. devices[d] = None /\ (m.type = "initial_data" => m.data[d] = None)
        BY <2>1, <2>4, <3>1, <3>2 DEF Sound, WireSound
      <4>2. devices'[d] = None
        <5>1. CASE m.type = "initial_data"
          BY <2>2, <4>1, <5>1
        <5>2. CASE m.type # "initial_data"
          BY <2>2, <2>3, <2>4, <4>1, <5>2
        <5> QED
          BY <5>1, <5>2
      <4> QED
        BY <1>1, <3>1, <3>2, <4>2 DEF Sound
    <3>3. CASE server[d] # None
      <4>1. PICK i \in 1..Len(wire) : LastWord(i, d) /\ Says(wire[i], d) = server[d]
        BY <2>1, <2>4, <3>1, <3>3 DEF WireSound, Told, LastSays
      <4>2. devices'[d] = None => Created(d)'
        <5>1. m.type = "initial_data" => devices'[d] # None
          BY <2>1, <2>2, <3>1, <3>3 DEF WireSound
        <5>2. m.type # "initial_data" /\ devices[d] # None => devices'[d] # None
          BY <2>2, <2>3, <2>4, ObjectsAssumption, MessageTypes, <2>1 DEF Says
        <5>3. devices[d] = None => Created(d)'
          BY <1>1, <2>4, <3>3 DEF Sound, Created
        <5> QED
          BY <5>1, <5>2, <5>3
      <4>3. devices'[d] = server[d] \/ LastSays(d)' \/ Created(d)'
        <5>1. CASE i = 1
          <6>1. devices'[d] = server[d] \/ devices'[d] = None
            BY <2>3, <2>4, <4>1, <5>1
          <6> QED
            BY <4>2, <6>1
        <5>2. CASE i # 1
          <6>1. i \in k + 1 .. Len(wire)
            BY <1>1, <1>4, <5>2
          <6> QED
            BY <1>1, <3>1, <4>1, <6>1, ShiftSound
        <5> QED
          BY <5>1, <5>2
      <4>4. LastSays(d)' \/ Created(d)' => Coming(d)'
        BY DEF Coming, LastSays, Created
      <4> QED
        BY <1>1, <3>1, <3>3, <4>2, <4>3, <4>4 DEF Sound
    <3> QED
      BY <3>2, <3>3
  <2>5. ASSUME NEW d \in Devices, Sound(d), d \notin About(m) PROVE Sound(d)'
    <3>1. \A i \in 1..k : d \notin About(wire[i])
      BY <1>4, <2>5
    <3> QED
      BY <1>2, <2>3, <2>5, <3>1
  <2> QED
    BY <2>1, <2>4, <2>5, Excused DEF AgreeInv
<1> QED
  BY <1>3, <1>4

(* What the page asks for changes nothing yet ...                          *)
LEMMA AgreeUser == ASSUME TypeInv, AgreeInv, User \/ Clock PROVE Agreement'
<1>1. UNCHANGED <<socketVars, devices, excused>>
  BY DEF User, Clock, ShowPage, FilterDevices, ShowDeviceDetails, CreateDevice, AskOnly,
     ShowAddDevice, CloseDialog, Click, RefreshDevice, RefreshAll, RunDeviceDiscovery,
     RefreshTimer, MonitorTick, DiscoveryComplete, FailSafe, historyVars
<1>2. requests \subseteq requests'
  BY DEF User, Clock, ShowPage, LoadPageData, UpdateEventTable, FilterDevices, ShowDeviceDetails,
     CreateDevice, AskOnly, ShowAddDevice, CloseDialog, Click, RefreshDevice, RefreshAll,
     RunDeviceDiscovery, RefreshTimer, MonitorTick, DiscoveryComplete, FailSafe, Request
<1>3. ASSUME NEW d \in Devices, Sound(d) PROVE Sound(d)'
  BY <1>1, <1>2, <1>3, SoundQuiet DEF Created, socketVars, serverVars, connectionVars
<1> QED
  BY <1>1, <1>3, SameExcuses DEF AgreeInv

(* ... the server handles it, or it is lost ...                            *)
LEMMA AgreeSettle ==
  ASSUME RequestsOK, TypeInv, AgreeInv, NEW r \in requests, ServerHandles(r) \/ Lose(r)
  PROVE  Agreement'
<1>1. /\ UNCHANGED <<socket, greeting, wire, devices>>
      /\ \E s, v : Settle(r, s, v)
  BY DEF ServerHandles, Lose, connectionVars, HandleGetDevices, HandleGetDevice, HandleCreateDevice,
     HandleGetEvents
<1>2. ASSUME NEW d \in Devices, Sound(d), server'[d] = server[d],
             r.op # "create" \/ r.status # "ok" \/ r.device # d
      PROVE  Sound(d)'
  <2>1. Created(d) => Created(d)'
    <3>1. PICK t : requests' = (requests \ {r}) \cup {t}
      BY <1>1, Settled
    <3> QED
      BY <1>2, <3>1 DEF Created
  <2> QED
    BY <1>1, <1>2, <2>1, SoundQuiet
<1>3. CASE Lose(r)
  <2>1. server' = server /\ Excuse(IF r.op = "create" /\ r.status = "ok" THEN {r.device} ELSE {})
    BY <1>3 DEF Lose, serverVars
  <2> QED
    BY <1>2, <2>1, Excused DEF AgreeInv
<1>4. CASE ServerHandles(r)
  <2>1. /\ r.status # "ok"
        /\ Excuse(IF r.op = "create" /\ Told(r.device) THEN {r.device} ELSE {})
    BY <1>4 DEF ServerHandles
  <2>2. CASE HandleCreateDevice(r)
    <3>1. /\ r.op = "create" /\ Settle(r, "ok", server'[r.device])
          /\ server' = [server EXCEPT ![r.device] = [online |-> TRUE, state |-> <<>>]]
      BY <2>2 DEF HandleCreateDevice
    <3>2. \A d \in Devices : server'[d] = IF d = r.device THEN [online |-> TRUE, state |-> <<>>] ELSE server[d]
      BY <3>1 DEF TypeInv, ServerType, Lists
    <3>3. ASSUME NEW d \in Devices, d = r.device, ~Told(d) PROVE Sound(d)'
      <4>1. Created(d)'
        <5>1. PICK t : /\ requests' = (requests \ {r}) \cup {t}
                       /\ t.op = r.op /\ t.device = r.device /\ t.status = "ok"
          BY <3>1, Settled
        <5> QED
          BY <3>1, <3>3, <5>1 DEF Created
      <4>2. WireSound(d)'
        BY <1>1, <3>3 DEF Told, About, WireSound
      <4>3. server'[d] # None
        BY <3>2, <3>3, NewObjects, ObjectsAssumption
      <4>4. Coming(d)'
        BY <4>1 DEF Coming, Created
      <4> QED
        BY <4>1, <4>2, <4>3, <4>4 DEF Sound
    <3>4. ASSUME NEW d \in Devices, Sound(d), d # r.device PROVE Sound(d)'
      BY <1>2, <3>2, <3>4
    <3>5. ASSUME NEW d \in Devices, Sound(d),
                 d \notin (IF r.op = "create" /\ Told(r.device) THEN {r.device} ELSE {})
          PROVE  Sound(d)'
      BY <3>1, <3>3, <3>4, <3>5
    <3> QED
      BY <2>1, <3>5, Excused DEF AgreeInv
  <2>3. CASE ~HandleCreateDevice(r)
    <3>1. server' = server
      BY <1>4, <2>3 DEF ServerHandles, HandleGetDevices, HandleGetDevice, HandleGetEvents
    <3> QED
      BY <1>2, <2>1, <3>1, Excused DEF AgreeInv
  <2> QED
    BY <2>2, <2>3
<1> QED
  BY <1>3, <1>4

(* ... and the page takes an answer.                                       *)
LEMMA AgreeAnswer ==
  ASSUME TypeInv, AgreeInv, NEW r \in requests, Answer(r) PROVE Agreement'
<1>1. UNCHANGED <<server, socket, greeting, wire>> /\ devices \in Lists /\ RequestType(r)
  BY DEF Answer, socketVars, serverVars, connectionVars, TypeInv, PageType, RequestsTyped
<1>2. ASSUME NEW d \in Devices, Sound(d), devices'[d] = devices[d], requests \ {r} \subseteq requests',
             r.op # "create" \/ r.status # "ok" \/ r.device # d
      PROVE  Sound(d)'
  <2>1. Created(d) => Created(d)'
    BY <1>2 DEF Created
  <2> QED
    BY <1>1, <1>2, <2>1, SoundQuiet
<1>3. CASE AnswerDevices(r)
  <2>1. devices' = r.reply /\ Excuse({d \in Devices : r.reply[d] # server[d]})
    BY <1>3 DEF AnswerDevices, LoadDevices
  <2>2. ASSUME NEW d \in Devices, Sound(d), r.reply[d] = server[d] PROVE Sound(d)'
    BY <1>1, <2>1, <2>2, SoundAgrees
  <2> QED
    BY <2>1, <2>2, Excused DEF AgreeInv
<1>4. CASE AnswerRefresh(r) \/ AnswerCreate(r) \/ AnswerSweep(r)
  <2>1. /\ devices' = [devices EXCEPT ![r.device] = r.reply] /\ Excuse(Outdated(r))
        /\ requests \ {r} \subseteq requests'
    BY <1>4 DEF AnswerRefresh, AnswerCreate, AnswerSweep, SweepOn
  <2>2. ASSUME NEW d \in Devices, Sound(d), d \notin Outdated(r) PROVE Sound(d)'
    <3>1. CASE d = r.device
      <4>1. devices'[d] = server[d]
        BY <1>1, <2>1, <2>2, <3>1 DEF Outdated, Lists
      <4> QED
        BY <1>1, <2>2, <4>1, SoundAgrees
    <3>2. CASE d # r.device
      <4>1. devices'[d] = devices[d]
        BY <1>1, <2>1, <3>2 DEF Lists
      <4> QED
        BY <1>2, <2>1, <2>2, <3>2, <4>1
    <3> QED
      BY <3>1, <3>2
  <2> QED
    BY <2>1, <2>2, Excused DEF AgreeInv
<1>5. CASE AnswerEvents(r) \/ AnswerClick(r) \/ AnswerDiscover(r) \/ AnswerFailed(r)
  <2>1. UNCHANGED <<devices, excused>> /\ requests \ {r} \subseteq requests'
    BY <1>5 DEF AnswerEvents, AnswerClick, AnswerDiscover, AnswerFailed, SweepOn
  <2>2. r.op # "create" \/ r.status # "ok"
    BY <1>5 DEF AnswerEvents, AnswerClick, AnswerDiscover, AnswerFailed, Commanding
  <2> QED
    BY <1>2, <2>1, <2>2, SameExcuses DEF AgreeInv
<1> QED
  BY <1>3, <1>4, <1>5 DEF Answer

(* Every step leaves only what is excused different from the server. *)
LEMMA AgreeStep == DialogInv /\ TypeInv /\ AgreeInv /\ [Next]_vars => AgreeInv'
<1> SUFFICES ASSUME DialogInv, TypeInv, AgreeInv, [Next]_vars PROVE AgreeInv'
  OBVIOUS
<1>1. SocketInv'
  BY SocketStep DEF TypeInv, AgreeInv
<1>2. CASE UNCHANGED vars
  <2>1. UNCHANGED <<server, socket, greeting, wire, devices, requests, excused>>
    BY <1>2 DEF vars, socketVars, serverVars, connectionVars, historyVars
  <2>2. ASSUME NEW d \in Devices, Sound(d) PROVE Sound(d)'
    BY <2>1, <2>2, SoundQuiet DEF Created
  <2> QED
    BY <1>1, <2>1, <2>2, SameExcuses DEF AgreeInv
<1>3. CASE Next
  <2>1. Agreement'
    BY <1>3, AgreeConnection, AgreeGreet, AgreeWorld, AgreeReceive, AgreeUser, AgreeSettle, AgreeAnswer
       DEF Next, DialogInv
  <2> QED
    BY <1>1, <2>1 DEF AgreeInv
<1> QED
  BY <1>2, <1>3

(* The page holds a device as the server has it, or is about to be told    *)
(* (app.js:239, app.js:279), for any devices, messages, requests and       *)
(* losses, but for the exceptions that are listed.                         *)
THEOREM PageHasDevices == Spec => []DevicesAgree
<1>1. Init => AgreeInv
  <2> SUFFICES ASSUME Init PROVE AgreeInv
    OBVIOUS
  <2>1. wire = <<>> /\ Len(wire) = 0 /\ SocketInv
    BY DEF Init, SocketInit, SocketInv, NoGreeting
  <2>2. ASSUME NEW d \in Devices, d \notin excused PROVE devices[d] = None /\ server[d] = None
    BY <2>2 DEF Init, SocketInit
  <2>3. \A d \in Devices : WireSound(d)
    BY <2>1 DEF WireSound, Told
  <2> QED
    BY <2>1, <2>2, <2>3 DEF AgreeInv, Agreement, Sound
<1>2. AgreeInv => DevicesAgree
  BY DEF AgreeInv, Agreement, Sound, DevicesAgree
<1> QED
  BY <1>1, <1>2, AgreeStep, DialogInit, DialogStep, TypeInit, TypeStep, PTL DEF Spec
=============================================================================
