----------------------------- MODULE SceneEditor -----------------------------
(***************************************************************************)
(* The scenes page of the management UI: the dialog of scene-editor.js,    *)
(* the scene requests of app.js, and the server's table of scenes.         *)
(*                                                                         *)
(* The page works on shared objects.  A scene of app.scenes is an object,  *)
(* the state it holds for a device is another, and the dialog, the         *)
(* selection and a request in flight refer to the same ones; objs and heap *)
(* are these objects and a function to Refs is a field that refers to      *)
(* them.  The server keeps values.  Descriptions and stamps are left out,  *)
(* as a description is handled like a name; numbers stand as strings.      *)
(***************************************************************************)
EXTENDS Integers, FiniteSets, Functions

CONSTANTS
  Ids,          \* the scene ids the server gives out
  Stored,       \* the scenes the server has at the start: some ids -> documents
  Devices,      \* the devices scenes may refer to
  Listed,       \* those of them that app.devices holds
  TypeOf,       \* the type of each device
  Features,     \* the features of each device
  Names, Icons, Percent, Degrees, Colors, \* what a user may enter; the numbers of
                \* a thermostat are any, its limits are not enforced
  Customs,      \* the JSON a user may enter for other types
  None,         \* null
  Objs, Refs,   \* scene objects and state objects; bounds on how many are alive
  MaxRequests,  \* bound: requests in a behaviour
  MaxEdits,     \* bound: changes made in the dialog in a behaviour
  MaxMishaps    \* bound: lists sent after the first, requests and answers lost

ASSUME SceneAssumption ==
  /\ Listed \subseteq Devices
  /\ DOMAIN Stored \subseteq Ids
  /\ None \notin Ids \cup Objs \cup Refs
  /\ \A S \in {Ids, Devices, Objs, Refs} : IsFiniteSet(S)
  /\ {"50", "100"} \subseteq Percent /\ "22" \in Degrees
  /\ {"warm", "neutral", "cool"} \cap (Percent \cup Degrees) = {}
  /\ "NaN" \notin Percent \cup Degrees \cup Colors
  /\ "" \notin Percent \cup Degrees
  /\ {MaxRequests, MaxEdits, MaxMishaps} \subseteq Nat

VARIABLES
  server,       \* the server's scenes: Ids -> document or None
  born,         \* the ids the server has given out
  list,         \* an initial_data message on its way to the page, or None
  scenes,       \* app.scenes: Ids -> scene object or None
  objs,         \* the scene objects
  heap,         \* the state objects
  selected,     \* app.selectedScene
  current,      \* sceneEditor.currentScene
  deviceStates, \* sceneEditor.deviceStates: some devices -> state objects
  typed,        \* what the dialog's name field holds
  open,         \* the dialog is shown
  requests,     \* the requests in flight
  used,         \* the requests, edits and mishaps so far
  excused,      \* history: scenes the page may show out of date, see LocalAgrees
  mixed         \* history: scenes given what was saved of another, see AnswerUpdate

pageVars == <<scenes, objs, heap, selected, current, deviceStates, typed, open>>
vars == <<server, born, list, pageVars, requests, used, excused, mixed>>

Use(what, max) == used[what] < max /\ used' = [used EXCEPT ![what] = @ + 1]

(***************************************************************************)
(* Values.                                                                 *)
(***************************************************************************)

(* Mutant: every key is parsed. *)
ParsedAlways(key, value) == IF value \in Percent \cup Degrees THEN value ELSE "NaN"

(* parseFloat for the numeric keys: what is no number, a word or an emptied *)
(* box, becomes NaN.                                                       *)
Parsed(key, value) ==
  IF key \in {"brightness", "temperature", "position"} /\ value \notin Percent \cup Degrees
  THEN "NaN" ELSE value

(* JSON.stringify has no NaN. *)
Json(state) == [k \in DOMAIN state |-> IF state[k] = "NaN" THEN "null" ELSE state[k]]

Holds(state, key, value) == key \in DOMAIN state /\ state[key] = value

(* No devices, or nothing in a state. *)
Empty == [d \in {} |-> None]

With(f, key, value) == [k \in DOMAIN f \cup {key} |-> IF k = key THEN value ELSE f[k]]
Single(key, value) == [k \in {key} |-> value]

(* A JSON value that is no object, as 5, [] or null, where a state belongs: *)
(* it stands as a key that no state has.  getMap takes it for no state.    *)
NotObject == Single("no object", "no object")

GetMap(state) == IF state = NotObject THEN Empty ELSE state

(* What the server keeps of a document it is sent. *)
Received(doc) ==
  [doc EXCEPT !.devices = [d \in DOMAIN doc.devices |-> GetMap(doc.devices[d])]]

(* What the dialog lets a user choose for a device in some state; the box  *)
(* of a thermostat may be emptied.                                         *)
Controls(d, state) ==
  LET light == TypeOf[d] = "light"
      lit == light /\ Holds(state, "state", "on")
      climate == TypeOf[d] = "climate"
  IN  {<<"state", v>> : v \in {w \in {"on", "off"} : TypeOf[d] \in {"light", "switch"}}}
      \cup {<<"brightness", v>> : v \in {w \in Percent : lit}}
      \cup {<<"color", v>> : v \in {w \in Colors : lit /\ "color" \in Features[d]}}
      \cup {<<"temperature", v>> : v \in {w \in {"warm", "neutral", "cool"} :
                                            lit /\ "temperature" \in Features[d]}}
      \cup {<<"mode", v>> : v \in {w \in {"off", "auto", "heat", "cool"} : climate}}
      \cup {<<"temperature", v>> : v \in {w \in Degrees \cup {""} :
                                            climate /\ ~Holds(state, "mode", "off")}}
      \cup {<<"position", v>> : v \in {w \in Percent : TypeOf[d] = "cover"}}

IsCustom(d) == TypeOf[d] \notin {"light", "switch", "climate", "cover"}

(* getDefaultState *)
Default(d) ==
  CASE TypeOf[d] = "light" -> [state |-> "on", brightness |-> "100"]
    [] TypeOf[d] = "switch" -> Single("state", "on")
    [] TypeOf[d] = "climate" -> [mode |-> "auto", temperature |-> "22"]
    [] TypeOf[d] = "cover" -> Single("position", "50")
    [] OTHER -> Empty

(***************************************************************************)
(* Objects.                                                                *)
(***************************************************************************)

Blank == [id |-> None, name |-> "", icon |-> "fa-home", devices |-> Empty]

LiveObjs == ({selected, current} \cup {scenes[id] : id \in Ids}) \ {None}

LiveRefs ==
  (UNION {Range(objs[o].devices) : o \in LiveObjs}) \cup Range(deviceStates)
    \cup (UNION {Range(r.refs) : r \in requests})

(* One new object for each element of S. *)
New(S, free) == CHOOSE f \in [S -> free] : IsInjective(f)

(* The document a scene object stands for, and the one the page shows for id. *)
Doc(name, icon, refs) ==
  [name |-> name, icon |-> icon, devices |-> [d \in DOMAIN refs |-> Json(heap[refs[d]])]]

Shown(id) ==
  IF scenes[id] = None THEN None
  ELSE LET o == objs[scenes[id]] IN Doc(o.name, o.icon, o.devices)

Agrees(id) == Shown(id) = server[id]

(* The page parses the documents of docs, an id each, into objects of its  *)
(* own and keeps the scenes of rest.                                       *)
Places(docs) == UNION {{<<id, d>> : d \in DOMAIN docs[id].devices} : id \in DOMAIN docs}

CanParse(docs, freeObjs, freeRefs) ==
  /\ Cardinality(freeObjs) >= Cardinality(DOMAIN docs)
  /\ Cardinality(freeRefs) >= Cardinality(Places(docs))

Parse(docs, rest, freeObjs, freeRefs) ==
  LET obj == New(DOMAIN docs, freeObjs)
      ref == New(Places(docs), freeRefs)
  IN  /\ objs' = [o \in Objs |->
           IF o \in Range(obj)
           THEN LET id == CHOOSE i \in DOMAIN docs : obj[i] = o
                IN  [id |-> id, name |-> docs[id].name, icon |-> docs[id].icon,
                     devices |-> [d \in DOMAIN docs[id].devices |-> ref[<<id, d>>]]]
           ELSE objs[o]]
      /\ heap' = [r \in Refs |->
           IF r \in Range(ref)
           THEN LET p == CHOOSE q \in Places(docs) : ref[q] = r
                IN  docs[p[1]].devices[p[2]]
           ELSE heap[r]]
      /\ scenes' = [id \in Ids |-> IF id \in DOMAIN docs THEN obj[id] ELSE rest[id]]

(***************************************************************************)
(* The dialog.                                                             *)
(***************************************************************************)

(* The cards of the page, with their edit and delete buttons. *)
SceneCards == {id \in Ids : scenes[id] # None}

(* The devices the dialog lists, and whether it shows them included. *)
RenderedDevices == [d \in Listed |-> d \in DOMAIN deviceStates]

Included(d) == d \in DOMAIN RenderedDevices /\ RenderedDevices[d]

(* init and render: the fields show o, the states of o are shared. *)
Show(o) ==
  /\ current' = o
  /\ open' = TRUE

ShowCreateScene ==
  /\ ~open
  /\ \E o \in Objs \ LiveObjs :
       /\ \A p \in Objs \ LiveObjs : o <= p
       /\ Show(o)
       /\ objs' = [objs EXCEPT ![o] = Blank]
  /\ selected' = None
  /\ deviceStates' = Empty
  /\ typed' = Blank.name
  /\ UNCHANGED <<server, born, list, scenes, heap, requests, used, excused, mixed>>

EditScene(id) ==
  /\ ~open
  /\ id \in SceneCards
  /\ selected' = scenes[id]
  /\ Show(scenes[id])
  /\ deviceStates' = objs[scenes[id]].devices
  /\ typed' = objs[scenes[id]].name
  /\ UNCHANGED <<server, born, list, scenes, objs, heap, requests, used, excused, mixed>>

CloseDialog ==
  /\ open
  /\ open' = FALSE
  /\ UNCHANGED <<server, born, list, scenes, objs, heap, selected, current,
                 deviceStates, typed, requests, used, excused, mixed>>

Edit == open /\ Use("edits", MaxEdits)

(* Mutant: the field is bound to the scene itself, as the icons are. *)
TypeNameInPlace(n) ==
  /\ Edit
  /\ typed' = n
  /\ objs' = [objs EXCEPT ![current].name = n]
  /\ UNCHANGED <<server, born, list, scenes, heap, selected, current,
                 deviceStates, open, requests, excused, mixed>>

TypeName(n) ==
  /\ Edit
  /\ typed' = n
  /\ UNCHANGED <<server, born, list, scenes, objs, heap, selected, current,
                 deviceStates, open, requests, excused, mixed>>

(* The icon goes into the scene object, saved or not. *)
PickIcon(i) ==
  /\ Edit
  /\ objs' = [objs EXCEPT ![current].icon = i]
  /\ excused' = excused \cup {id \in Ids : scenes[id] = current}
  /\ UNCHANGED <<server, born, list, scenes, heap, selected, current,
                 deviceStates, typed, open, requests, mixed>>

(* Every toggle renders the dialog anew, with the name the scene object has. *)
ToggleDevice(d) ==
  /\ Edit
  /\ d \in DOMAIN RenderedDevices
  /\ \/ /\ d \in DOMAIN deviceStates
        /\ deviceStates' = Restrict(deviceStates, DOMAIN deviceStates \ {d})
        /\ UNCHANGED heap
     \/ /\ d \notin DOMAIN deviceStates
        /\ \E r \in Refs \ LiveRefs :
             /\ \A q \in Refs \ LiveRefs : r <= q
             /\ heap' = [heap EXCEPT ![r] = Default(d)]
             /\ deviceStates' = With(deviceStates, d, r)
  /\ typed' = objs[current].name
  /\ UNCHANGED <<server, born, list, scenes, objs, selected, current, open, requests, excused, mixed>>

(* The scenes of the page that refer to the state object r. *)
Sharing(r) == {id \in Ids : scenes[id] # None /\ r \in Range(objs[scenes[id]].devices)}

(* The state object is changed where it is, whoever else refers to it. *)
UpdateDeviceState(d) ==
  /\ Edit
  /\ Included(d)
  /\ LET r == deviceStates[d]
     IN  /\ \E c \in Controls(d, heap[r]) :
              heap' = [heap EXCEPT ![r] = With(heap[r], c[1], Parsed(c[1], c[2]))]
         /\ excused' = excused \cup Sharing(r)
  /\ UNCHANGED <<server, born, list, scenes, objs, selected, current,
                 deviceStates, typed, open, requests, mixed>>

(* The textarea of the other types; text that is no JSON only gives a toast. *)
UpdateDeviceCustomState(d) ==
  /\ Edit
  /\ Included(d)
  /\ IsCustom(d)
  /\ \E state \in Customs, r \in Refs \ LiveRefs :
       /\ \A q \in Refs \ LiveRefs : r <= q
       /\ heap' = [heap EXCEPT ![r] = state]
       /\ deviceStates' = [deviceStates EXCEPT ![d] = r]
  /\ UNCHANGED <<server, born, list, scenes, objs, selected, current,
                 typed, open, requests, excused, mixed>>

(***************************************************************************)
(* Requests.                                                               *)
(***************************************************************************)

Request(op, id, name, icon, refs) ==
  /\ Use("requests", MaxRequests)
  /\ requests' = requests \cup
       {[n |-> used.requests, op |-> op, id |-> id, status |-> "sent",
         doc |-> Doc(name, icon, refs), refs |-> refs]}

(* Mutant: only what the dialog lists. *)
SceneDevicesListed == Restrict(deviceStates, DOMAIN deviceStates \cap Listed)

(* getSceneData: every device of deviceStates, also one the dialog does not list. *)
SceneDevices == deviceStates

(* saveScene up to its await: whether it creates or updates is settled here. *)
SaveScene ==
  /\ open
  /\ typed # ""
  /\ DOMAIN SceneDevices # {}
  /\ IF selected = None
     THEN Request("create", None, typed, objs[current].icon, SceneDevices)
     ELSE Request("update", objs[selected].id, typed, objs[current].icon, SceneDevices)
  /\ UNCHANGED <<server, born, list, pageVars, excused, mixed>>

DeleteScene(id) ==
  /\ ~open
  /\ id \in SceneCards
  /\ Request("delete", id, "", "", Empty)
  /\ UNCHANGED <<server, born, list, pageVars, excused, mixed>>

Settle(r, status, id) == requests' = (requests \ {r}) \cup {[r EXCEPT !.status = status, !.id = id]}

(* handleCreateScene *)
HandleCreateScene(r) ==
  /\ r.op = "create"
  /\ \E id \in Ids \ born :
       /\ born' = born \cup {id}
       /\ server' = [server EXCEPT ![id] = Received(r.doc)]
       /\ Settle(r, "ok", id)

(* handleUpdateScene and handleDeleteScene: 404 for a scene that is not there. *)
HandleMissing(r) ==
  /\ r.op \in {"update", "delete"}
  /\ server[r.id] = None
  /\ Settle(r, "failed", r.id)
  /\ UNCHANGED <<server, born>>

HandleUpdateScene(r) ==
  /\ r.op = "update"
  /\ server[r.id] # None
  /\ server' = [server EXCEPT ![r.id] = Received(r.doc)]
  /\ Settle(r, "ok", r.id)
  /\ UNCHANGED born

HandleDeleteScene(r) ==
  /\ r.op = "delete"
  /\ server[r.id] # None
  /\ server' = [server EXCEPT ![r.id] = None]
  /\ Settle(r, "ok", r.id)
  /\ UNCHANGED born

ServerHandles(r) ==
  /\ r.status = "sent"
  /\ HandleCreateScene(r) \/ HandleMissing(r) \/ HandleUpdateScene(r) \/ HandleDeleteScene(r)
  /\ UNCHANGED <<list, pageVars, used, excused, mixed>>

(* The network loses a request, or the answer to one. *)
Lose(r) ==
  /\ r.status \in {"sent", "ok"}
  /\ Use("mishaps", MaxMishaps)
  /\ Settle(r, "failed", r.id)
  /\ excused' = IF r.status = "ok" THEN excused \cup {r.id} ELSE excused
  /\ UNCHANGED <<server, born, list, pageVars, mixed>>

(***************************************************************************)
(* Answers, handled by what the page holds by then: Object.assign goes to  *)
(* whatever is selected, a created scene into app.scenes.                  *)
(***************************************************************************)

(* Mutant: the list keeps the device states it had. *)
AssignHeader(o, r) ==
  objs' = [objs EXCEPT ![o] =
    [id |-> objs[o].id, name |-> r.doc.name, icon |-> r.doc.icon, devices |-> objs[o].devices]]

Assign(o, r) ==
  objs' = [objs EXCEPT ![o] =
    [id |-> objs[o].id, name |-> r.doc.name, icon |-> r.doc.icon, devices |-> r.refs]]

(* History: a scene that shows again what the server has needs no excuse. *)
Excuse(ids) == excused' = {id \in excused \cup ids : ~Agrees(id)'}

AnswerUpdate(r) ==
  /\ selected # None
  /\ Assign(selected, r)
  /\ open' = FALSE
  /\ UNCHANGED <<scenes, heap>>
  /\ Excuse(IF \/ scenes[r.id] # selected
                \/ r.doc # server[r.id]
                \/ r.doc # Doc(r.doc.name, r.doc.icon, r.refs)
            THEN {r.id, objs[selected].id} \ {None} ELSE {})
  /\ mixed' = mixed \cup ({objs[selected].id} \ {r.id})

(* Object.assign of null throws: the toast says the save has failed. *)
AnswerUpdateNoSelection(r) ==
  /\ selected = None
  /\ UNCHANGED <<scenes, objs, heap, open, mixed>>
  /\ Excuse({r.id})

(* The answer to a creation holds the scene as the server keeps it. *)
AnswerCreate(r) ==
  LET docs == [id \in {r.id} |-> Received(r.doc)]
      freeObjs == Objs \ LiveObjs
      freeRefs == Refs \ LiveRefs
  IN  /\ CanParse(docs, freeObjs, freeRefs)
      /\ Parse(docs, scenes, freeObjs, freeRefs)
      /\ open' = FALSE
      /\ Excuse(IF Received(r.doc) # server[r.id] THEN {r.id} ELSE {})
      /\ UNCHANGED mixed

AnswerDelete(r) ==
  /\ scenes' = [scenes EXCEPT ![r.id] = None]
  /\ UNCHANGED <<objs, heap, open, mixed>>
  /\ Excuse({})

AnswerFailed(r) == UNCHANGED <<scenes, objs, heap, open, excused, mixed>>

Answer(r) ==
  /\ UNCHANGED <<server, born, list, selected, current, deviceStates, typed, used>>
  /\ requests' = requests \ {r}
  /\ \/ r.status = "ok" /\ r.op = "update" /\ (AnswerUpdate(r) \/ AnswerUpdateNoSelection(r))
     \/ r.status = "ok" /\ r.op = "create" /\ AnswerCreate(r)
     \/ r.status = "ok" /\ r.op = "delete" /\ AnswerDelete(r)
     \/ r.status = "failed" /\ AnswerFailed(r)

(***************************************************************************)
(* Lists.  A client that connects is sent the server's scenes; loadScenes  *)
(* clears app.scenes and fills it with new objects.                        *)
(***************************************************************************)

SendInitialData ==
  /\ list = None
  /\ Use("mishaps", MaxMishaps)
  /\ list' = server
  /\ UNCHANGED <<server, born, pageVars, requests, excused, mixed>>

Present(docs) == Restrict(docs, {id \in DOMAIN docs : docs[id] # None})

LoadScenes ==
  LET docs == Present(list)
      freeObjs == Objs \ ({selected, current} \ {None})
      freeRefs == Refs \ (Range(deviceStates) \cup (UNION {Range(r.refs) : r \in requests})
                      \cup (UNION {Range(objs[o].devices) : o \in {selected, current} \ {None}}))
  IN  /\ list # None
      /\ CanParse(docs, freeObjs, freeRefs)
      /\ Parse(docs, [id \in Ids |-> None], freeObjs, freeRefs)
      /\ list' = None
      /\ UNCHANGED <<server, born, selected, current, deviceStates, typed, open, requests, used, mixed>>
      /\ Excuse({id \in Ids : list[id] # server[id]})

(***************************************************************************)
(* The specification.  The page's first list is on its way.                *)
(***************************************************************************)

Init ==
  /\ server = [id \in Ids |-> IF id \in DOMAIN Stored THEN Stored[id] ELSE None]
  /\ born = DOMAIN Stored
  /\ list = server
  /\ scenes = [id \in Ids |-> None]
  /\ objs = [o \in Objs |-> Blank]
  /\ heap = [r \in Refs |-> Empty]
  /\ selected = None
  /\ current = None
  /\ deviceStates = Empty
  /\ typed = ""
  /\ open = FALSE
  /\ requests = {}
  /\ used = [requests |-> 0, edits |-> 0, mishaps |-> 0]
  /\ excused = DOMAIN Stored
  /\ mixed = {}

Dialog ==
  \/ ShowCreateScene
  \/ CloseDialog
  \/ \E id \in Ids : EditScene(id)
  \/ \E n \in Names : TypeName(n)
  \/ \E i \in Icons : PickIcon(i)
  \/ \E d \in Devices : ToggleDevice(d) \/ UpdateDeviceState(d) \/ UpdateDeviceCustomState(d)

Next ==
  \/ Dialog
  \/ SaveScene
  \/ \E id \in Ids : DeleteScene(id)
  \/ \E r \in requests : ServerHandles(r) \/ Lose(r) \/ Answer(r)
  \/ SendInitialData
  \/ LoadScenes

Spec == Init /\ [][Next]_vars

(***************************************************************************)
(* Properties.                                                             *)
(***************************************************************************)

(* Partial functions. *)
Partial(S, T) == UNION {[R -> T] : R \in SUBSET S}

(* The references lead to objects: app, the dialog and the requests name   *)
(* scene objects of the right scene and state objects.                     *)
TypeOK ==
  /\ \A id \in Ids : scenes[id] # None => scenes[id] \in Objs /\ objs[scenes[id]].id = id
  /\ selected \in Objs \cup {None}
  /\ open => current \in Objs /\ (selected = None => objs[current].id = None)
  /\ open /\ selected # None => selected = current /\ objs[selected].id \in Ids
  /\ deviceStates \in Partial(Devices, Refs)
  /\ \A r \in requests : r.refs \in Partial(Devices, Refs)
  /\ typed \in Names \cup {""} \cup {Stored[id].name : id \in DOMAIN Stored}
  /\ excused \subseteq Ids

(* app.scenes after saves, deletions and lists (app.js:1064): with no      *)
(* request for a scene in flight, the page shows what the server has of    *)
(* it.  The exceptions: the dialog has changed its icon or its states in   *)
(* place; the dialog turned to another scene, or a list replaced the       *)
(* object, while a save was in flight; a list or an answer was overtaken   *)
(* by a later save; the answer was lost; an update held JSON that is no    *)
(* object, of which the page keeps what was typed and the server {}.       *)
LocalAgrees ==
  \A id \in Ids :
    (\A r \in requests : r.id # id) => Agrees(id) \/ id \in excused

(* What the dialog changes before it is saved (scene-editor.js:460): the   *)
(* scenes of the page keep their names and their devices until a list or   *)
(* an answer arrives, so a dialog that is closed leaves them as they were. *)
(* Icons and states are written in place and are not kept.                 *)
Outline(id) == <<objs[scenes[id]].name, DOMAIN objs[scenes[id]].devices>>

KeepsScenes ==
  (list' = list \/ list = None) /\ requests \subseteq requests'
    => /\ scenes' = scenes
       /\ \A id \in Ids : scenes[id] # None => Outline(id)' = Outline(id)

DialogKeepsScenes == [][KeepsScenes]_vars

(* The states that reach the server (scene-editor.js:319): each is one the *)
(* dialog offers, or comes with the device, except that what parseFloat    *)
(* makes NaN arrives as null: the colour temperatures of a light and the   *)
(* temperature of a thermostat whose box was emptied.                      *)
Lost(d) ==
  {<<"temperature", v>> : v \in {w \in {"warm", "neutral", "cool"} : TypeOf[d] = "light"}}
    \cup {<<"temperature", v>> : v \in {w \in {""} : TypeOf[d] = "climate"}}

Arriving == [d \in Devices |->
  LET offered == UNION {Controls(d, state) : state \in {Empty, Single("state", "on")}}
  IN  IF Lost(d) = {} THEN offered ELSE (offered \ Lost(d)) \cup {<<"temperature", "null">>}]

Offered(d, state) == IsCustom(d) \/ \A k \in DOMAIN state : <<k, state[k]>> \in Arriving[d]

OnlyOfferedStates ==
  \A id \in {i \in Ids : server[i] # None} :
    \A d \in DOMAIN server[id].devices : Offered(d, server[id].devices[d])

(* A document as JSON has it, and what the stored scenes are: documents    *)
(* with the states the page can have stored in them.                       *)
IsDocument(x) ==
  /\ x = [name |-> x.name, icon |-> x.icon,
           devices |-> [d \in DOMAIN x.devices |-> Json(x.devices[d])]]
  /\ DOMAIN x.devices \subseteq Devices

ASSUME StoredAssumption ==
  \A id \in DOMAIN Stored :
    /\ IsDocument(Stored[id])
    /\ \A d \in DOMAIN Stored[id].devices : Offered(d, Stored[id].devices[d])

(* A scene is edited while one of its devices is not known to the page     *)
(* (scene-editor.js:147): the dialog does not list it, and saving does not *)
(* take it out of the scene.  The exception: the answer to a save came     *)
(* when another scene was selected, which then holds what was saved.       *)
KeepsUnlisted ==
  \A id \in Ids \ mixed :
    server[id] # None /\ server'[id] # None
      => DOMAIN server[id].devices \ Listed \subseteq DOMAIN server'[id].devices

UnlistedDevicesKept == [][KeepsUnlisted]_vars
=============================================================================
