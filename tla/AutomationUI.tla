----------------------------- MODULE AutomationUI -----------------------------
(***************************************************************************)
(* The automation requests of the management UI                            *)
(* (legacy/services/management-ui): one goroutine per HTTP request, a map  *)
(* from ids to shared *Automation objects under s.mu, a write of the whole *)
(* document to the bucket after the lock is released, then an event.       *)
(*                                                                         *)
(* The map holds pointers, so heap is what they point to: two requests on  *)
(* one automation hold the same object, a create under an id in use gives  *)
(* the id a new one, and a request may hold an object the map has dropped. *)
(***************************************************************************)
EXTENDS AutomationStore

CONSTANTS
  Handlers,     \* the HTTP requests that can be in progress together
  Objs,         \* the *Automation objects; enough of them for every reference
  NoObj,        \* no entry in the map
  MaxRequests,  \* bound: requests in a behaviour
  MaxUICrashes  \* bound: restarts of the UI in a behaviour

ASSUME UIAssumption ==
  /\ NoObj \notin Objs
  /\ MaxRequests \in Nat
  /\ MaxUICrashes \in Nat

VARIABLES
  automations,  \* s.automations: Ids -> object or NoObj
  heap,         \* the objects
  http,         \* the requests in progress
  uiLoading,    \* the keys loadData has still to fetch
  uiUp,         \* the HTTP server runs
  requests,     \* requests so far
  uiCrashes     \* restarts so far

uiVars == <<automations, heap, http, uiLoading, uiUp, requests, uiCrashes>>

(* Where a request stands: "actions" has written one half of an edit and   *)
(* holds s.mu, "marshal", "put" and "remove" are in saveAutomation or      *)
(* kv.Delete without the lock, "publish" is about to send its event.       *)
Stages == {"idle", "actions", "marshal", "put", "remove", "publish"}
Blank == [stage |-> "idle"]
Requests ==
  [stage : Stages \ {"idle"}, type : ReloadEvents \cup RemoveEvents, id : Ids,
   obj : Objs, doc : Docs]   \* doc: the edit submitted, then the document marshalled

UITypeOK ==
  /\ automations \in [Ids -> Objs \cup {NoObj}]
  /\ heap \in [Objs -> Docs \cup {NoDoc}]
  /\ http \in [Handlers -> Requests \cup {Blank}]
  /\ uiLoading \subseteq Ids
  /\ uiUp \in BOOLEAN
  /\ requests \in 0..MaxRequests
  /\ uiCrashes \in 0..MaxUICrashes

UIInit ==
  /\ automations = [id \in Ids |-> NoObj]
  /\ heap = [o \in Objs |-> NoDoc]
  /\ http = [h \in Handlers |-> Blank]
  /\ uiLoading = {}
  /\ uiUp = TRUE
  /\ requests = 0
  /\ uiCrashes = 0

Active(h) == http[h].stage # "idle"
Writing(h, id) == http[h].stage \notin {"idle", "publish"} /\ http[h].id = id
BeingWritten(id) == \E h \in Handlers : Writing(h, id)
UILocked == \E h \in Handlers : http[h].stage = "actions"

(* The runtime frees what the map and the requests no longer point to.     *)
Collected(objects, map, reqs) ==
  LET live == {map[id] : id \in Ids} \cup
              {reqs[h].obj : h \in {g \in Handlers : reqs[g].stage # "idle"}}
  IN [o \in Objs |-> IF o \in live THEN objects[o] ELSE NoDoc]
FreeObjs == {o \in Objs : heap[o] = NoDoc}

(* What the UI shows for an id. *)
Shown(id) == IF automations[id] = NoObj THEN NoDoc ELSE heap[automations[id]]

(* Mutant of Arrive: the request does not take s.mu. *)
ArriveUnlocked(h, id) ==
  /\ uiUp
  /\ ~Active(h)
  /\ requests < MaxRequests
  /\ requests' = requests + 1
  /\ uiExcused' = IF BeingWritten(id) THEN uiExcused \cup {id} ELSE uiExcused
  /\ UNCHANGED <<kv, events, subscribed, faults, engExcused, uiLoading, uiUp, uiCrashes>>

(* The step every request starts with: it takes s.mu and finds it free. *)
Arrive(h, id) ==
  /\ uiUp
  /\ ~Active(h)
  /\ ~UILocked
  /\ requests < MaxRequests
  /\ requests' = requests + 1
  /\ uiExcused' = IF BeingWritten(id) THEN uiExcused \cup {id} ELSE uiExcused
  /\ UNCHANGED <<kv, events, subscribed, faults, engExcused, uiLoading, uiUp, uiCrashes>>

(* handleCreateAutomation up to the unlock: the id may be one in use. *)
Create(h, id, body, enabled) ==
  LET new == CHOOSE o \in FreeObjs : TRUE
      doc == [id |-> id, enabled |-> enabled, trigs |-> body, acts |-> body]
  IN /\ Arrive(h, id)
     /\ FreeObjs # {}
     /\ automations' = [automations EXCEPT ![id] = new]
     /\ http' = [http EXCEPT ![h] = [stage |-> "marshal", type |-> "created", id |-> id,
                                     obj |-> new, doc |-> doc]]
     /\ heap' = Collected([heap EXCEPT ![new] = doc], automations', http')

(* A request on an automation the map holds; on others it answers 404. *)
Find(h, id, stage, type, edit) ==
  /\ Arrive(h, id)
  /\ automations[id] # NoObj
  /\ http' = [http EXCEPT ![h] = [stage |-> stage, type |-> type, id |-> id,
                                  obj |-> automations[id], doc |-> edit]]

(* handleUpdateAutomation: the first half of "Update fields", under s.mu. *)
Update(h, id, body) ==
  /\ Find(h, id, "actions", "updated", [Shown(id) EXCEPT !.acts = body])
  /\ heap' = [heap EXCEPT ![automations[id]].trigs = body]
  /\ UNCHANGED automations

(* ... the other half, and the unlock. *)
UpdateActions(h) ==
  /\ http[h].stage = "actions"
  /\ heap' = [heap EXCEPT ![http[h].obj].acts = http[h].doc.acts]
  /\ http' = [http EXCEPT ![h].stage = "marshal"]
  /\ UNCHANGED <<storeVars, automations, uiLoading, uiUp, requests, uiCrashes>>

(* handleEnableAutomation and handleDisableAutomation up to the unlock. *)
SetEnabled(h, id, enabled) ==
  /\ Find(h, id, "marshal", IF enabled THEN "enabled" ELSE "disabled", Shown(id))
  /\ heap' = [heap EXCEPT ![automations[id]].enabled = enabled]
  /\ UNCHANGED automations

(* handleDeleteAutomation up to the unlock. *)
Delete(h, id) ==
  /\ Find(h, id, "remove", "deleted", Shown(id))
  /\ automations' = [automations EXCEPT ![id] = NoObj]
  /\ UNCHANGED heap

(* saveAutomation, json.Marshal: the object is read without s.mu. *)
Marshal(h) ==
  /\ http[h].stage = "marshal"
  /\ http' = [http EXCEPT ![h].stage = "put", ![h].doc = heap[http[h].obj]]
  /\ UNCHANGED <<storeVars, automations, heap, uiLoading, uiUp, requests, uiCrashes>>

(* kv.Put or kv.Delete; an error is logged, or dropped, and forgotten. *)
WriteKV(h, doc) ==
  /\ http' = [http EXCEPT ![h].stage = "publish"]
  /\ \/ /\ kv' = [kv EXCEPT ![http[h].id] = doc]
        /\ UNCHANGED <<faults, uiExcused>>
     \/ /\ Fault
        /\ uiExcused' = uiExcused \cup {http[h].id}
        /\ UNCHANGED kv
  /\ UNCHANGED <<events, subscribed, engExcused>>
  /\ UNCHANGED <<automations, heap, uiLoading, uiUp, requests, uiCrashes>>

(* saveAutomation, kv.Put. *)
PutDoc(h) == http[h].stage = "put" /\ WriteKV(h, http[h].doc)

(* handleDeleteAutomation, "Remove from KV store". *)
RemoveDoc(h) == http[h].stage = "remove" /\ WriteKV(h, NoDoc)

(* publishAutomationEvent and the answer to the client.  The message is    *)
(* lost when the engine's connection is down.                              *)
PublishEvent(h) ==
  /\ http[h].stage = "publish"
  /\ http' = [http EXCEPT ![h] = Blank]
  /\ heap' = Collected(heap, automations, http')
  /\ \/ /\ Publish(http[h].type, http[h].id)
        /\ UNCHANGED <<faults, engExcused>>
     \/ /\ Fault
        /\ engExcused' = engExcused \cup {http[h].id}
        /\ UNCHANGED events
  /\ UNCHANGED <<kv, subscribed, uiExcused>>
  /\ UNCHANGED <<automations, uiLoading, uiUp, requests, uiCrashes>>

(* The process dies and starts again: loadData lists the keys.  A request  *)
(* cut off before its event tells the engine nothing.                      *)
UICrash ==
  /\ uiCrashes < MaxUICrashes
  /\ uiCrashes' = uiCrashes + 1
  /\ automations' = [id \in Ids |-> NoObj]
  /\ http' = [h \in Handlers |-> Blank]
  /\ uiLoading' = Keys
  /\ uiUp' = FALSE
  /\ heap' = [o \in Objs |-> NoDoc]
  /\ uiExcused' = {}
  /\ engExcused' = engExcused \cup {id \in Ids : \E h \in Handlers :
                                       http[h].stage = "publish" /\ http[h].id = id}
  /\ UNCHANGED <<kv, events, subscribed, faults, requests>>

(* loadData fetches one key; a failed Get leaves it out. *)
UILoadKey(id) ==
  /\ id \in uiLoading
  /\ uiLoading' = uiLoading \ {id}
  /\ \/ /\ kv[id] # NoDoc
        /\ FreeObjs # {}
        /\ LET new == CHOOSE o \in FreeObjs : TRUE
           IN /\ automations' = [automations EXCEPT ![id] = new]
              /\ heap' = [heap EXCEPT ![new] = kv[id]]
        /\ UNCHANGED <<faults, uiExcused>>
     \/ /\ Fault
        /\ uiExcused' = uiExcused \cup {id}
        /\ UNCHANGED <<automations, heap>>
  /\ UNCHANGED <<kv, events, subscribed, engExcused, http, uiUp, requests, uiCrashes>>

(* Mutant of UIServe: the server listens while loadData goes on. *)
ServeEarly ==
  /\ ~uiUp
  /\ uiUp' = TRUE
  /\ UNCHANGED <<storeVars, automations, heap, http, uiLoading, requests, uiCrashes>>

(* Start: the HTTP server begins to listen once loadData has returned. *)
UIServe ==
  /\ ~uiUp
  /\ uiLoading = {}
  /\ uiUp' = TRUE
  /\ UNCHANGED <<storeVars, automations, heap, http, uiLoading, requests, uiCrashes>>

(* The steps a request in progress takes by itself. *)
HandlerStep(h) ==
  UpdateActions(h) \/ Marshal(h) \/ PutDoc(h) \/ RemoveDoc(h) \/ PublishEvent(h)

Request(h, id) ==
  \/ \E body \in Bodies, enabled \in BOOLEAN : Create(h, id, body, enabled)
  \/ \E body \in Bodies : Update(h, id, body)
  \/ \E enabled \in BOOLEAN : SetEnabled(h, id, enabled)
  \/ Delete(h, id)

UINext ==
  \/ \E h \in Handlers, id \in Ids : Request(h, id)
  \/ \E h \in Handlers : HandlerStep(h)
  \/ UICrash
  \/ \E id \in Ids : UILoadKey(id)
  \/ UIServe
=============================================================================
