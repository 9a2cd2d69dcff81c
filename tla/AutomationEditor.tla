--------------------------- MODULE AutomationEditor ---------------------------
(***************************************************************************)
(* The automations page of the management UI: the modal with the visual    *)
(* designer (simple-flow-designer.js) and the form builder                 *)
(* (automation-builder.js), the requests of app.js, and what the server    *)
(* keeps of an automation.                                                 *)
(*                                                                         *)
(* One designer and one builder serve every automation in turn.  The       *)
(* designer's nodes stay where they are until a flow is loaded or the      *)
(* canvas is cleared, and arrays are shared: an automation that was saved  *)
(* has the very arrays the designer or the builder still works on, as its  *)
(* field shared says.  A node object is named by its number, which is its  *)
(* own as long as CanvasSound holds; owner is the model's own: the         *)
(* automation a node or an item was made for.  A connection is a triple,   *)
(* the numbers of the nodes it joins and one to tell apart those that join *)
(* the same two; the order of connections is that of drawing only.  A      *)
(* description is handled like a name.                                     *)
(***************************************************************************)
EXTENDS BuilderItems, SequencesExt

CONSTANTS
  Ids,          \* the ids the server gives out
  Stored,       \* the automations the server has at the start: some ids -> documents
  Names,        \* the names a user may enter; "" is none
  Ticked,       \* how the user may leave the box "Enabled"
  Palette,      \* the node types the user takes
  Chosen,       \* the types the user chooses in the builder's dialogs
  New,          \* the owner of what is not created yet
  None,         \* null
  Objs,         \* automation objects, numbers from 1: bound on those alive
  MaxNodes,     \* bound: nodes in a behaviour
  MaxItems,     \* bound: connections of two nodes, and items of one list of the builder
  MaxTraffic,   \* bound: requests, lists after the first and losses in a behaviour
  MaxEdits      \* bound: nodes and items added, edited and removed in a behaviour

ASSUME EditorAssumption ==
  /\ DOMAIN Stored \subseteq Ids
  /\ None \notin Ids \cup {New} \cup Objs
  /\ New \notin Ids
  /\ Objs \subseteq Nat \ {0}
  /\ IsFiniteSet(Ids) /\ IsFiniteSet(Objs)
  /\ Palette \subseteq NodeTypes
  /\ Ticked \subseteq BOOLEAN
  /\ {MaxNodes, MaxItems, MaxTraffic, MaxEdits} \subseteq Nat

VARIABLES
  server,       \* the server's automations: Ids -> document or None
  born,         \* the ids the server has given out
  list,         \* an initial_data message on its way to the page, or None
  automations,  \* app.automations: Ids -> automation object or None
  objs,         \* the automation objects; Blank is the literal of a new one
  node,         \* the node objects, by number
  nodes,        \* designer.nodes
  connections,  \* designer.connections
  nextNodeId,   \* designer.nextNodeId
  selected,     \* app.selectedAutomation, which both editors edit; Blank is null
  builder,      \* the builder's triggers, conditions and actions
  body, footer, \* what the body and the footer of the modal are made of
  open,         \* the modal is shown
  dialog,       \* the builder's dialog on top of everything
  requests,     \* the requests in flight
  used,         \* the traffic and the edits so far
  excused,      \* history: automations the page may show out of date
  strayed,      \* history: automations that may have items made for others
  loose         \* history: connections may lead to nodes that are gone

serverVars == <<server, born, list>>
canvasVars == <<node, nodes, connections, nextNodeId>>
modalVars == <<body, footer, open>>
historyVars == <<excused, strayed, loose>>
vars == <<serverVars, automations, objs, canvasVars, selected, builder,
          modalVars, dialog, requests, used, historyVars>>

Use(what, max) == used[what] < max /\ used' = [used EXCEPT ![what] = @ + 1]

Blank == 0
NoLists == [triggers |-> <<>>, conditions |-> <<>>, actions |-> <<>>]
NewObject ==
  [id |-> None, name |-> "", enabled |-> TRUE, lists |-> NoLists, shared |-> FALSE, flow |-> None]

Owner(o) == IF o = Blank THEN New ELSE objs[o].id

(***************************************************************************)
(* Shared arrays: an object's lists are the builder's, a flow's connections *)
(* are the designer's.                                                      *)
(***************************************************************************)

ListsOf(x) == IF x.shared THEN builder ELSE x.lists
ConnectionsOf(flow) == IF flow.shared THEN connections ELSE flow.connections

(* The builder takes new arrays: the old ones are left to those who share them. *)
LeaveLists(x) == [x EXCEPT !.lists = ListsOf(x), !.shared = FALSE]

(* The designer takes a new array of connections. *)
LeaveFlow(flow) ==
  IF flow = None THEN None
  ELSE [nodes |-> flow.nodes, connections |-> ConnectionsOf(flow), shared |-> FALSE]
LeaveConnections(x) == [x EXCEPT !.flow = LeaveFlow(x.flow)]

IsSave(r) == r.op \in {"create", "update"}

Everywhere(Leave(_)) ==
  /\ objs' = [o \in DOMAIN objs |-> Leave(objs[o])]
  /\ requests' = {IF IsSave(r) THEN [r EXCEPT !.data = Leave(r.data)] ELSE r : r \in requests}

SharesConnections(x) == x.flow # None /\ x.flow.shared
ConnectionsShared ==
  \/ \E id \in Ids : automations[id] # None /\ SharesConnections(objs[automations[id]])
  \/ \E r \in requests : IsSave(r) /\ SharesConnections(r.data)

(* The automations of the page that share the builder's arrays. *)
ListsShared == {id \in Ids : automations[id] # None /\ objs[automations[id]].shared}

(***************************************************************************)
(* What the server keeps, and what the page shows.                         *)
(***************************************************************************)

Kept(name, enabled, lists) ==
  [name |-> name, enabled |-> enabled, triggers |-> KeptTests(lists.triggers),
   conditions |-> KeptTests(lists.conditions), actions |-> KeptActions(lists.actions)]

Lists(doc) == [triggers |-> doc.triggers, conditions |-> doc.conditions, actions |-> doc.actions]

Shown(id) ==
  IF automations[id] = None THEN None
  ELSE LET o == objs[automations[id]] IN Kept(o.name, o.enabled, ListsOf(o))

Agrees(id) == Shown(id) = server[id]

LiveObjs ==
  ({selected} \cup {automations[id] : id \in Ids}) \ {None, Blank}

Parsed(id, doc) ==
  [id |-> id, name |-> doc.name, enabled |-> doc.enabled, lists |-> Lists(doc),
   shared |-> FALSE, flow |-> None]

(***************************************************************************)
(* Opening the modal.                                                      *)
(***************************************************************************)

Free == ~open /\ dialog = "none"

NextId(ids) == IF \E n \in ids : n >= nextNodeId THEN Max(ids) + 1 ELSE nextNodeId

LoadFlow(flow) ==
  /\ nodes' = flow.nodes
  /\ nextNodeId' = NextId(flow.nodes)
  /\ connections' = ConnectionsOf(flow)
  /\ Everywhere(LeaveConnections)

(* init: without a flow the canvas keeps the nodes it had. *)
InitDesigner(o) ==
  \/ /\ objs[o].flow # None
     /\ LoadFlow(objs[o].flow)
     /\ strayed' = strayed
  \/ /\ objs[o].flow = None
     /\ strayed' = (IF o = Blank THEN strayed \ {New} ELSE strayed)
                     \cup (IF nodes = {} THEN {} ELSE {Owner(o)})
     /\ UNCHANGED <<nodes, nextNodeId, connections, objs, requests>>

(* showReteDesigner with the init that a timer calls 100 ms later: nobody   *)
(* uses the modal in between.                                              *)
ShowReteDesigner(o) ==
  /\ Free
  /\ selected' = o
  /\ body' = "designer"
  /\ footer' = "designer"
  /\ open' = TRUE
  /\ InitDesigner(o)
  /\ UNCHANGED <<serverVars, automations, node, builder, dialog, used, excused, loose>>

ShowCreateAutomation == ShowReteDesigner(Blank)

EditAutomation(id) == automations[id] # None /\ ShowReteDesigner(automations[id])

(* Mutant: the lists are reset for an existing automation only. *)
InitListsKept(o) == IF o = Blank THEN builder ELSE ListsOf(objs[o])

(* automationBuilder.init *)
InitLists(o) == ListsOf(objs[o])

(* showTraditionalBuilder: the builder starts from the automation, not     *)
(* from the canvas.  When it cannot draw an item it throws, after the body *)
(* was emptied and before the footer is made.                              *)
ShowTraditionalBuilder ==
  /\ open
  /\ footer = "designer"
  /\ dialog = "none"
  /\ builder' = InitLists(selected)
  /\ Everywhere(LeaveLists)
  /\ LET l == builder'
     IN  IF CanDraw(l.triggers, l.conditions, l.actions)
         THEN body' = "builder" /\ footer' = "builder"
         ELSE body' = "empty" /\ UNCHANGED footer
  /\ UNCHANGED <<serverVars, automations, canvasVars, selected, open,
                 dialog, used, historyVars>>

HideModal ==
  /\ open
  /\ dialog = "none"
  /\ open' = FALSE
  /\ UNCHANGED <<serverVars, automations, objs, canvasVars, selected, builder,
                 body, footer, dialog, requests, used, historyVars>>

(***************************************************************************)
(* The canvas.                                                             *)
(***************************************************************************)

Canvas ==
  /\ open /\ body = "designer" /\ dialog = "none"
  /\ UNCHANGED <<serverVars, automations, selected, builder, modalVars,
                 dialog, excused, strayed>>

Draw == Canvas /\ Use("edits", MaxEdits)

(* A node of the palette dropped on the canvas. *)
AddNode(type) ==
  /\ Draw
  /\ nextNodeId <= MaxNodes
  /\ node' = [node EXCEPT ![nextNodeId] =
       [type |-> type, data |-> DefaultData(type), owner |-> Owner(selected)]]
  /\ nodes' = nodes \cup {nextNodeId}
  /\ nextNodeId' = nextNodeId + 1
  /\ UNCHANGED <<connections, objs, requests, loose>>

(* onMouseDown on an output port and onMouseUp on an input port; nodes that *)
(* are joined already are joined once more.                                *)
Connect(n, m) ==
  /\ Canvas
  /\ {n, m} \subseteq nodes
  /\ n # m
  /\ Outputs(node[n].type) > 0
  /\ Inputs(node[m].type) > 0
  /\ \E k \in 1..MaxItems :
       /\ <<n, m, k>> \notin connections
       /\ connections' = connections \cup {<<n, m, k>>}
  /\ loose' = (loose \/ ConnectionsShared)
  /\ UNCHANGED <<node, nodes, nextNodeId, objs, requests, used>>

Ends(c) == {c[1], c[2]}

(* The connections are filtered into a new array. *)
Without(n) == {c \in connections : n \notin Ends(c)}

(* Mutant: the connections stay. *)
DeleteNodeOnly(n) ==
  /\ Canvas
  /\ n \in nodes
  /\ nodes' = nodes \ {n}
  /\ UNCHANGED <<node, connections, nextNodeId, objs, requests, loose, used>>

DeleteNode(n) ==
  /\ Canvas
  /\ n \in nodes
  /\ nodes' = nodes \ {n}
  /\ connections' = Without(n)
  /\ Everywhere(LeaveConnections)
  /\ UNCHANGED <<node, nextNodeId, loose, used>>

(* Only a connection that is drawn can be hit. *)
DeleteConnection(c) ==
  /\ Canvas
  /\ Ends(c) \subseteq nodes
  /\ connections' = connections \ {c}
  /\ UNCHANGED <<node, nodes, nextNodeId, objs, requests, loose, used>>

ClearAll ==
  /\ Canvas
  /\ nodes' = {}
  /\ connections' = {}
  /\ Everywhere(LeaveConnections)
  /\ UNCHANGED <<node, nextNodeId, loose, used>>

(* editNode and saveNodeEdit.  Nothing else changes a node's data while its *)
(* form is shown, so the two are one step.                                 *)
EditNode(n) ==
  /\ Draw
  /\ n \in nodes
  /\ LET type == node[n].type
         shown == Displayed(type, node[n].data)
     IN  \E input \in [DOMAIN shown -> Range(shown) \cup Texts] :
           /\ \A k \in DOMAIN shown : input[k] \in {shown[k]} \cup Texts
           /\ node' = [node EXCEPT ![n] =
                [type |-> type, data |-> SavedData(type, node[n].data, input, Numerals),
                 owner |-> node[n].owner]]
  /\ UNCHANGED <<nodes, connections, nextNodeId, objs, requests, loose>>

(***************************************************************************)
(* The builder's dialogs.                                                  *)
(***************************************************************************)

OpenDialog(kind) ==
  /\ open /\ body = "builder" /\ dialog = "none"
  /\ dialog' = kind
  /\ UNCHANGED <<serverVars, automations, objs, canvasVars, selected, builder,
                 modalVars, requests, used, historyVars>>

CloseDialog ==
  /\ dialog # "none"
  /\ dialog' = "none"
  /\ UNCHANGED <<serverVars, automations, objs, canvasVars, selected, builder,
                 modalVars, requests, used, historyVars>>

Render ==
  /\ excused' = excused \cup ListsShared
  /\ UNCHANGED <<serverVars, automations, objs, canvasVars, selected,
                 modalVars, requests, strayed, loose>>

Owned(item, owner) ==
  [k \in DOMAIN item \cup {"owner"} |-> IF k = "owner" THEN owner ELSE item[k]]

Push(kind, item) ==
  /\ dialog = kind
  /\ dialog' = "none"
  /\ Use("edits", MaxEdits)
  /\ Len(builder[kind]) < MaxItems
  /\ builder' = [builder EXCEPT ![kind] = Append(builder[kind], Owned(item, Owner(selected)))]
  /\ Render

SaveTrigger(type) ==
  \E in \in TriggerInputs(type) : Push("triggers", SavedTrigger(type, in))
SaveCondition(type) ==
  \E in \in ConditionInputs(type) : Push("conditions", SavedCondition(type, in))
SaveAction(type) ==
  \E in \in ActionInputs(type) : Push("actions", SavedAction(type, in))

RemoveItem(kind) ==
  /\ open /\ body = "builder" /\ dialog = "none"
  /\ Use("edits", MaxEdits)
  /\ \E i \in DOMAIN builder[kind] : builder' = [builder EXCEPT ![kind] = RemoveAt(builder[kind], i)]
  /\ UNCHANGED dialog
  /\ Render

(***************************************************************************)
(* Saving and the other requests.                                          *)
(***************************************************************************)

Request(op, id, data, doc, mixed) ==
  /\ Use("traffic", MaxTraffic)
  /\ requests' = requests \cup
       {[n |-> used.traffic, op |-> op, id |-> id, status |-> "sent", data |-> data,
         doc |-> doc, strayed |-> mixed]}

Save(data, mixed) ==
  LET doc == Kept(data.name, data.enabled, ListsOf(data))
  IN  IF selected = Blank THEN Request("create", None, data, doc, mixed)
      ELSE Request("update", objs[selected].id, data, doc, mixed)

InOrder(S) ==
  CHOOSE s \in [1..Cardinality(S) -> S] : \A i, j \in DOMAIN s : i < j => s[i] < s[j]

(* convertToAutomation: the items of the canvas in the order of its nodes. *)
Items(kind) ==
  LET order == InOrder({n \in nodes : Kind(node[n].type) = kind})
  IN  [i \in DOMAIN order |->
         LET n == node[order[i]] IN Owned(Item(n.type, n.data), n.owner)]

ConvertToAutomation(name, enabled) ==
  [name |-> name, enabled |-> enabled,
   lists |-> [triggers |-> Items("triggers"), conditions |-> Items("conditions"),
              actions |-> Items("actions")],
   shared |-> FALSE,
   flow |-> [nodes |-> nodes, connections |-> {}, shared |-> TRUE]]

(* What the fields may hold: what the automation has, or what the user      *)
(* typed and ticked; without a designer in the body, what it has.          *)
TypedNames ==
  (IF body = "empty" THEN {objs[selected].name} ELSE Names \cup {objs[selected].name}) \ {""}
Ticks == IF body = "empty" THEN {objs[selected].enabled} ELSE Ticked

SaveReteAutomation ==
  /\ open /\ footer = "designer" /\ dialog = "none"
  /\ \E name \in TypedNames, enabled \in Ticks :
       LET data == ConvertToAutomation(name, enabled)
       IN  /\ data.lists.triggers # <<>>
           /\ data.lists.actions # <<>>
           /\ Save(data, New \in strayed)
  /\ UNCHANGED <<serverVars, automations, objs, canvasVars, selected, builder,
                 modalVars, dialog, historyVars>>

(* The builder has no box for it: every automation it saves is enabled. *)
SaveAutomation ==
  /\ open /\ footer = "builder" /\ dialog = "none"
  /\ builder.triggers # <<>>
  /\ builder.actions # <<>>
  /\ \E name \in TypedNames : 
       Save([name |-> name, enabled |-> TRUE, lists |-> NoLists, shared |-> TRUE, flow |-> None], FALSE)
  /\ UNCHANGED <<serverVars, automations, objs, canvasVars, selected, builder,
                 modalVars, dialog, historyVars>>

Ask(op, id) ==
  /\ Free
  /\ automations[id] # None
  /\ Request(op, id, None, None, FALSE)
  /\ UNCHANGED <<serverVars, automations, objs, canvasVars, selected, builder,
                 modalVars, dialog, historyVars>>

ToggleAutomation(id) == Ask(IF objs[automations[id]].enabled THEN "disable" ELSE "enable", id)

DeleteAutomation(id) == Ask("delete", id)

(***************************************************************************)
(* The server.                                                             *)
(***************************************************************************)

Settle(r, status, id) == requests' = (requests \ {r}) \cup {[r EXCEPT !.status = status, !.id = id]}

(* History: what was made for a new automation is the created one's. *)
Given(items, id) ==
  [i \in DOMAIN items |-> IF items[i].owner = New THEN [items[i] EXCEPT !.owner = id] ELSE items[i]]

GivenDoc(doc, id) ==
  [name |-> doc.name, enabled |-> doc.enabled, triggers |-> Given(doc.triggers, id),
   conditions |-> Given(doc.conditions, id), actions |-> Given(doc.actions, id)]

HandleCreateAutomation(r) ==
  /\ r.op = "create"
  /\ \E id \in Ids \ born :
       /\ born' = born \cup {id}
       /\ server' = [server EXCEPT ![id] = GivenDoc(r.doc, id)]
       /\ requests' = (requests \ {r}) \cup
            {[r EXCEPT !.status = "ok", !.id = id, !.doc = GivenDoc(r.doc, id)]}
       /\ strayed' = IF r.strayed THEN strayed \cup {id} ELSE strayed

(* 404 *)
HandleMissing(r) ==
  /\ r.op # "create"
  /\ server[r.id] = None
  /\ Settle(r, "failed", r.id)
  /\ UNCHANGED <<server, born, strayed>>

(* enabled is not among the fields an update takes. *)
HandleUpdateAutomation(r) ==
  /\ r.op = "update"
  /\ server[r.id] # None
  /\ server' = [server EXCEPT ![r.id] = [r.doc EXCEPT !.enabled = server[r.id].enabled]]
  /\ Settle(r, "ok", r.id)
  /\ UNCHANGED <<born, strayed>>

HandleEnableAutomation(r) ==
  /\ r.op \in {"enable", "disable"}
  /\ server[r.id] # None
  /\ server' = [server EXCEPT ![r.id] = [server[r.id] EXCEPT !.enabled = (r.op = "enable")]]
  /\ Settle(r, "ok", r.id)
  /\ UNCHANGED <<born, strayed>>

HandleDeleteAutomation(r) ==
  /\ r.op = "delete"
  /\ server[r.id] # None
  /\ server' = [server EXCEPT ![r.id] = None]
  /\ Settle(r, "ok", r.id)
  /\ UNCHANGED <<born, strayed>>

ServerHandles(r) ==
  /\ r.status = "sent"
  /\ \/ HandleCreateAutomation(r) \/ HandleMissing(r) \/ HandleUpdateAutomation(r)
     \/ HandleEnableAutomation(r) \/ HandleDeleteAutomation(r)
  /\ UNCHANGED <<list, automations, objs, canvasVars, selected, builder,
                 modalVars, dialog, used, excused, loose>>

(* The network loses a request, or the answer to one. *)
Lose(r) ==
  /\ r.status \in {"sent", "ok"}
  /\ Use("traffic", MaxTraffic)
  /\ Settle(r, "failed", r.id)
  /\ excused' = IF r.status = "ok" THEN excused \cup {r.id} ELSE excused
  /\ UNCHANGED <<serverVars, automations, objs, canvasVars, selected, builder,
                 modalVars, dialog, strayed, loose>>

(***************************************************************************)
(* Answers, handled by what the page holds by then.                        *)
(***************************************************************************)

(* History: an automation that shows again what the server has needs no excuse. *)
Excuse(ids) == excused' = {id \in excused \cup ids : ~Agrees(id)'}

(* Mutant: the items of before stay. *)
AssignHeader(o, r) ==
  objs' = [objs EXCEPT ![o].name = r.data.name, ![o].enabled = r.data.enabled]

(* Object.assign(this.selectedAutomation, data) *)
Assign(o, r) ==
  objs' = [objs EXCEPT ![o] =
    [id |-> objs[o].id, name |-> r.data.name, enabled |-> r.data.enabled,
     lists |-> r.data.lists, shared |-> r.data.shared,
     flow |-> IF r.data.flow = None THEN objs[o].flow ELSE r.data.flow]]

AnswerUpdate(r) ==
  /\ r.op = "update" /\ selected # Blank
  /\ Assign(selected, r)
  /\ open' = FALSE
  /\ UNCHANGED automations
  /\ strayed' = IF objs[selected].id = r.id THEN strayed ELSE strayed \cup {objs[selected].id}
  /\ Excuse(IF \/ automations[r.id] # selected
               \/ r.doc # server[r.id]
               \/ Kept(r.doc.name, r.doc.enabled, ListsOf(r.data)) # r.doc
            THEN {r.id, objs[selected].id} ELSE {})

(* Object.assign of null throws: the toast says the save has failed. *)
AnswerUpdateNoSelection(r) ==
  /\ r.op = "update" /\ selected = Blank
  /\ UNCHANGED <<automations, objs, open, strayed>>
  /\ Excuse({r.id})

AnswerCreate(r) ==
  /\ r.op = "create"
  /\ \E o \in Objs \ LiveObjs :
       /\ \A p \in Objs \ LiveObjs : o <= p
       /\ objs' = [objs EXCEPT ![o] = Parsed(r.id, r.doc)]
       /\ automations' = [automations EXCEPT ![r.id] = o]
  /\ open' = FALSE
  /\ UNCHANGED strayed
  /\ Excuse(IF r.doc # server[r.id] THEN {r.id} ELSE {})

AnswerToggle(r) ==
  /\ r.op \in {"enable", "disable"}
  /\ LET o == automations[r.id]
     IN  IF o = None THEN UNCHANGED objs
         ELSE objs' = [objs EXCEPT ![o] = [objs[o] EXCEPT !.enabled = (r.op = "enable")]]
  /\ UNCHANGED <<automations, open, strayed>>
  /\ Excuse(IF server[r.id] = None \/ server[r.id].enabled # (r.op = "enable") THEN {r.id} ELSE {})

AnswerDelete(r) ==
  /\ r.op = "delete"
  /\ automations' = [automations EXCEPT ![r.id] = None]
  /\ UNCHANGED <<objs, open, strayed>>
  /\ Excuse({})

Answer(r) ==
  /\ UNCHANGED <<serverVars, canvasVars, selected, builder, body, footer,
                 dialog, used, loose>>
  /\ requests' = requests \ {r}
  /\ \/ /\ r.status = "ok"
        /\ \/ AnswerUpdate(r) \/ AnswerUpdateNoSelection(r) \/ AnswerCreate(r)
           \/ AnswerToggle(r) \/ AnswerDelete(r)
     \/ r.status = "failed" /\ UNCHANGED <<automations, objs, open, strayed, excused>>

(* A client that connects is sent the server's automations. *)
SendInitialData ==
  /\ list = None
  /\ Use("traffic", MaxTraffic)
  /\ list' = server
  /\ UNCHANGED <<server, born, automations, objs, canvasVars, selected, builder,
                 modalVars, dialog, requests, historyVars>>

(* loadAutomations: new objects, which have no flow. *)
LoadAutomations ==
  LET present == {id \in Ids : list[id] # None}
      free == Objs \ ({selected} \ {None, Blank})
  IN  /\ list # None
      /\ list' = None
      /\ Cardinality(present) <= Cardinality(free)
      /\ LET obj == CHOOSE f \in [present -> free] : \A a, b \in present : a # b => f[a] # f[b]
         IN  /\ objs' = [o \in DOMAIN objs |->
                  IF o \in Range(obj)
                  THEN LET id == CHOOSE i \in present : obj[i] = o IN Parsed(id, list[id])
                  ELSE objs[o]]
             /\ automations' = [id \in Ids |-> IF id \in present THEN obj[id] ELSE None]
      /\ UNCHANGED <<server, born, canvasVars, selected, builder, modalVars,
                     dialog, requests, used, strayed, loose>>
      /\ Excuse({id \in Ids : list[id] # server[id]})

(***************************************************************************)
(* The automations of the start.  The page made them: each has what the    *)
(* server keeps and no more, was made for the id it has, and a command of  *)
(* the builder has the data that drawing it takes.                         *)
(***************************************************************************)

IsFunction(f) == f = [x \in DOMAIN f |-> f[x]]
IsItem(i) == IsFunction(i) /\ {"type", "owner"} \subseteq DOMAIN i
IsList(l) == l \in Seq(Range(l)) /\ \A i \in Range(l) : IsItem(i)

DataCommands == {"set_brightness", "set_color", "set_temperature"}

CommandOK(i) ==
  i.type = "device_control" =>
    "command" \in DOMAIN i /\ (i.command \in DataCommands => "data" \in DOMAIN i)

ListsOK(l) ==
  /\ l = [triggers |-> l.triggers, conditions |-> l.conditions, actions |-> l.actions]
  /\ IsList(l.triggers) /\ IsList(l.conditions) /\ IsList(l.actions)
  /\ \A i \in Range(l.actions) : CommandOK(i)

DocOK(d) == d = Kept(d.name, d.enabled, Lists(d)) /\ ListsOK(Lists(d))

Everything(l) == Range(l.triggers) \cup Range(l.conditions) \cup Range(l.actions)
MadeFor(l, who) == \A i \in Everything(l) : i.owner = who

ASSUME StoredAssumption ==
  \A id \in DOMAIN Stored : DocOK(Stored[id]) /\ MadeFor(Lists(Stored[id]), id)

(***************************************************************************)
(* The specification.  The page's first list is on its way.                *)
(***************************************************************************)

Init ==
  /\ server = [id \in Ids |-> IF id \in DOMAIN Stored THEN Stored[id] ELSE None]
  /\ born = DOMAIN Stored
  /\ list = server
  /\ automations = [id \in Ids |-> None]
  /\ objs = [o \in {Blank} \cup Objs |-> NewObject]
  /\ node = [n \in 1..MaxNodes |-> None]
  /\ nodes = {} /\ connections = {} /\ nextNodeId = 1
  /\ selected = Blank
  /\ builder = NoLists
  /\ body = "none" /\ footer = "none"
  /\ open = FALSE
  /\ dialog = "none"
  /\ requests = {}
  /\ used = [traffic |-> 0, edits |-> 0]
  /\ excused = DOMAIN Stored /\ strayed = {} /\ loose = FALSE

Designer ==
  \/ \E type \in Palette : AddNode(type)
  \/ \E n \in nodes : DeleteNode(n) \/ EditNode(n)
  \/ \E n, m \in nodes : Connect(n, m)
  \/ \E c \in connections : DeleteConnection(c)
  \/ ClearAll

Builder ==
  \/ \E kind \in DOMAIN NoLists : OpenDialog(kind) \/ RemoveItem(kind)
  \/ CloseDialog
  \/ \E type \in TriggerTypes \cap Chosen : SaveTrigger(type)
  \/ \E type \in ConditionTypes \cap Chosen : SaveCondition(type)
  \/ \E type \in ActionTypes \cap Chosen : SaveAction(type)

Modal ==
  \/ ShowCreateAutomation
  \/ ShowTraditionalBuilder
  \/ HideModal
  \/ SaveReteAutomation
  \/ SaveAutomation

Next ==
  \/ Designer \/ Builder \/ Modal
  \/ \E id \in Ids : EditAutomation(id) \/ ToggleAutomation(id) \/ DeleteAutomation(id)
  \/ \E r \in requests : ServerHandles(r) \/ Lose(r) \/ Answer(r)
  \/ SendInitialData
  \/ LoadAutomations

Spec == Init /\ [][Next]_vars

(***************************************************************************)
(* Properties.                                                             *)
(***************************************************************************)

(* app.automations after saves, toggles, deletions and lists (app.js:855): *)
(* with no request for an automation in flight the page shows what the     *)
(* server has of it.  The exceptions: the server keeps whether it was      *)
(* enabled when the save said otherwise; the modal turned to another       *)
(* automation, or a list replaced the object, while a save was in flight;  *)
(* the builder changed a list after it was sent; a list or an answer was   *)
(* overtaken by a later save; the answer was lost.                         *)
LocalAgrees ==
  \A id \in Ids : (\A r \in requests : r.id # id) => Agrees(id) \/ id \in excused

(* One canvas for all automations (simple-flow-designer.js:106): what the  *)
(* server stores of an automation was made for it.  The exceptions: the    *)
(* designer was opened for an automation that has no flow, such as a new   *)
(* one, while nodes were on the canvas; the answer to the save of another  *)
(* was assigned to it.                                                     *)
OwnItems ==
  \A id \in Ids :
    server[id] # None /\ id \notin strayed => MadeFor(Lists(server[id]), id)

(* The canvas (simple-flow-designer.js:1536): a new node never takes the   *)
(* number of one the canvas or a flow holds, and a connection joins nodes  *)
(* of the canvas, except that an array may be shared with a flow that was  *)
(* saved before.                                                           *)
CanvasSound ==
  /\ \A n \in nodes : n < nextNodeId
  /\ \A o \in {automations[id] : id \in Ids} \ {None} :
       objs[o].flow # None => \A n \in objs[o].flow.nodes : n < nextNodeId
  /\ loose \/ \A c \in connections : Ends(c) \subseteq nodes

(* The builder opens an automation (app.js:936) unless an item needs a     *)
(* field that the server drops, or is a command that the designer made,    *)
(* where any text may be typed and none gets the data that some need:      *)
(* every other item still has what drawing takes after it went to the      *)
(* server and back.                                                        *)
BuilderOpens ==
  body = "empty" =>
    \/ \E i \in Range(builder.triggers) : ~(TriggerNeeds(i) \subseteq TestedFields)
    \/ \E i \in Range(builder.conditions) : ~(ConditionNeeds(i) \subseteq TestedFields)
    \/ \E i \in Range(builder.actions) :
         \/ ~(ActionNeeds(i) \subseteq ActionFields)
         \/ i.type = "device_command" /\ ActionNeeds(i) # {}
=============================================================================
