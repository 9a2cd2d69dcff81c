------------------------ MODULE AutomationSystem_proofs ------------------------
(***************************************************************************)
(* The safety properties of AutomationSystem hold for all sets of ids,     *)
(* bodies, requests and runs and for all bounds: IInv is inductive and     *)
(* implies them.  One lemma per conjunct of IInv, one step per action.     *)
(***************************************************************************)
EXTENDS AutomationSystem, TLAPS

-----------------------------------------------------------------------------
(* Types.  The references must lead somewhere, hence Filed.                *)
LEMMA TypeRequest ==
  ASSUME TypeOK, Filed, NEW h \in Handlers, NEW id \in Ids,
         Request(h, id), UNCHANGED engineVars
  PROVE  TypeOK'
<1>1. EngineTypeOK'
  BY DEF TypeOK, EngineTypeOK, engineVars
<1>. USE DEF TypeOK, StoreTypeOK, UITypeOK, Requests, Stages, ReloadEvents, RemoveEvents
<1>2. CASE \E body \in Bodies, enabled \in BOOLEAN : Create(h, id, body, enabled)
  <2>1. PICK body \in Bodies, enabled \in BOOLEAN : Create(h, id, body, enabled)
    BY <1>2
  <2>. DEFINE new == CHOOSE o \in FreeObjs : TRUE
              doc == [id |-> id, enabled |-> enabled, trigs |-> body, acts |-> body]
  <2>2. new \in Objs /\ doc \in Docs
    BY <2>1 DEF Create, FreeObjs, Docs
  <2>3. http' \in [Handlers -> Requests \cup {Blank}]
    BY <2>1, <2>2 DEF Create
  <2>4. heap' \in [Objs -> Docs \cup {NoDoc}]
    BY <2>1, <2>2 DEF Create, Collected
  <2>5. automations' \in [Ids -> Objs \cup {NoObj}] /\ Arrive(h, id)
    BY <2>1, <2>2 DEF Create
  <2>. HIDE DEF new, doc
  <2>. QED
    BY <1>1, <2>3, <2>4, <2>5, UIAssumption DEF Arrive
<1>3. CASE \E body \in Bodies : Update(h, id, body)
  <2>1. PICK body \in Bodies : Update(h, id, body)
    BY <1>3
  <2>2. Shown(id) \in Docs /\ heap[automations[id]] \in Docs
    BY <2>1 DEF Update, Find, Shown, Filed
  <2>3. [Shown(id) EXCEPT !.acts = body] \in Docs /\ [heap[automations[id]] EXCEPT !.trigs = body] \in Docs
    BY <2>2 DEF Docs
  <2>. QED
    BY <1>1, <2>1, <2>2, <2>3, UIAssumption DEF Update, Find, Arrive
<1>4. CASE \E enabled \in BOOLEAN : SetEnabled(h, id, enabled)
  <2>1. PICK enabled \in BOOLEAN : SetEnabled(h, id, enabled)
    BY <1>4
  <2>2. Shown(id) \in Docs /\ heap[automations[id]] \in Docs
    BY <2>1 DEF SetEnabled, Find, Shown, Filed
  <2>3. [heap[automations[id]] EXCEPT !.enabled = enabled] \in Docs
    BY <2>2 DEF Docs
  <2>. QED
    BY <1>1, <2>1, <2>2, <2>3, UIAssumption DEF SetEnabled, Find, Arrive
<1>5. CASE Delete(h, id)
  <2>1. Shown(id) \in Docs
    BY <1>5 DEF Delete, Find, Shown, Filed
  <2>. QED
    BY <1>1, <1>5, <2>1, UIAssumption DEF Delete, Find, Arrive
<1>. QED
  BY <1>2, <1>3, <1>4, <1>5 DEF Request

(* A handler of the management UI keeps the types. *)
LEMMA TypeHandler ==
  ASSUME TypeOK, Filed, NEW h \in Handlers, HandlerStep(h), UNCHANGED engineVars
  PROVE  TypeOK'
<1>1. EngineTypeOK'
  BY DEF TypeOK, EngineTypeOK, engineVars
<1>. USE DEF TypeOK, StoreTypeOK, UITypeOK
<1>2. http[h] \in Requests
  BY DEF HandlerStep, UpdateActions, Marshal, PutDoc, RemoveDoc, PublishEvent, Blank
<1>3. ASSUME NEW s \in Stages \ {"idle"}
      PROVE  /\ [http[h] EXCEPT !.stage = s] \in Requests
             /\ \A d \in Docs : [http[h] EXCEPT !.stage = s, !.doc = d] \in Requests
  BY <1>2 DEF Requests
<1>4. CASE UpdateActions(h)
  <2>1. heap[http[h].obj] \in Docs /\ http[h].doc \in Docs
    BY <1>2, <1>4 DEF Filed, Active, Requests, UpdateActions
  <2>2. [heap[http[h].obj] EXCEPT !.acts = http[h].doc.acts] \in Docs
    BY <2>1 DEF Docs
  <2>. QED
    BY <1>1, <1>2, <1>3, <1>4, <2>1, <2>2 DEF UpdateActions, storeVars, Requests, Stages
<1>5. CASE Marshal(h)
  <2>1. heap[http[h].obj] \in Docs
    BY <1>2, <1>5 DEF Filed, Active, Requests, Marshal
  <2>. QED
    BY <1>1, <1>3, <1>5, <2>1 DEF Marshal, storeVars, Stages
<1>6. ASSUME NEW doc \in Docs \cup {NoDoc}, WriteKV(h, doc)
      PROVE  TypeOK'
  <2>1. faults' \in 0..MaxFaults
    BY <1>6, StoreAssumption DEF WriteKV, Fault
  <2>2. http[h].id \in Ids
    BY <1>2 DEF Requests
  <2>3. http' \in [Handlers -> Requests \cup {Blank}]
    <3>1. [http[h] EXCEPT !.stage = "publish"] \in Requests
      BY <1>3 DEF Stages
    <3>. QED
      BY <1>6, <3>1 DEF WriteKV
  <2>4. kv' \in [Ids -> Docs \cup {NoDoc}] /\ uiExcused' \subseteq Ids
    BY <1>6, <2>2 DEF WriteKV
  <2>. QED
    BY <1>1, <1>6, <2>1, <2>3, <2>4 DEF WriteKV
<1>7. CASE PutDoc(h)
  BY <1>2, <1>6, <1>7 DEF PutDoc, Requests
<1>8. CASE RemoveDoc(h)
  BY <1>6, <1>8 DEF RemoveDoc
<1>9. CASE PublishEvent(h)
  <2>1. faults' \in 0..MaxFaults
    BY <1>9, StoreAssumption DEF PublishEvent, Fault
  <2>2. http[h].id \in Ids /\ [type |-> http[h].type, id |-> http[h].id] \in Events
    BY <1>2 DEF Requests, Events
  <2>3. events' \in Seq(Events)
    <3>1. ASSUME NEW e \in Events
          PROVE  Append(events, e) \in Seq(Events)
      OBVIOUS
    <3>. QED
      BY <1>9, <2>2, <3>1 DEF PublishEvent, Publish
  <2>4. heap' \in [Objs -> Docs \cup {NoDoc}]
    BY <1>9 DEF PublishEvent, Collected
  <2>. QED
    BY <1>1, <1>9, <2>1, <2>2, <2>3, <2>4 DEF PublishEvent
<1>. QED
  BY <1>4, <1>5, <1>7, <1>8, <1>9 DEF HandlerStep

(* The UI's crash and its start keep the types. *)
LEMMA TypeRestart ==
  ASSUME TypeOK, UICrash \/ (\E id \in Ids : UILoadKey(id)) \/ UIServe, UNCHANGED engineVars
  PROVE  TypeOK'
<1>1. EngineTypeOK'
  BY DEF TypeOK, EngineTypeOK, engineVars
<1>. USE DEF TypeOK, StoreTypeOK, UITypeOK
<1>2. CASE UICrash
  <2>1. UITypeOK'
    <3>1. uiCrashes' \in 0..MaxUICrashes
      BY <1>2, UIAssumption DEF UICrash
    <3>3. uiLoading' \subseteq Ids
      BY <1>2 DEF UICrash, Keys
    <3>4. uiUp' \in BOOLEAN
      BY <1>2 DEF UICrash
    <3>2. http' \in [Handlers -> Requests \cup {Blank}]
      BY <1>2 DEF UICrash
    <3>. QED
      BY <1>2, <3>1, <3>2, <3>3, <3>4 DEF UICrash
  <2>2. StoreTypeOK'
    BY <1>2 DEF UICrash
  <2>. QED
    BY <1>1, <2>1, <2>2
<1>3. CASE UIServe
  BY <1>1, <1>3 DEF UIServe, storeVars
<1>4. CASE \E id \in Ids : UILoadKey(id)
  <2>1. PICK id \in Ids : UILoadKey(id)
    BY <1>4
  <2>2. faults' \in 0..MaxFaults
    BY <2>1, StoreAssumption DEF UILoadKey, Fault
  <2>3. automations' \in [Ids -> Objs \cup {NoObj}] /\ heap' \in [Objs -> Docs \cup {NoDoc}]
    BY <2>1 DEF UILoadKey, FreeObjs
  <2>. QED
    BY <1>1, <2>1, <2>2, <2>3 DEF UILoadKey
<1>. QED
  BY <1>2, <1>3, <1>4

(* The engine keeps the types. *)
LEMMA TypeEngine ==
  ASSUME TypeOK, EngineNext, UNCHANGED uiVars
  PROVE  TypeOK'
<1>1. UITypeOK'
  BY DEF TypeOK, UITypeOK, uiVars
<1>. USE DEF TypeOK, StoreTypeOK, EngineTypeOK
<1>2. ASSUME NEW doc \in Docs \cup {NoDoc}
      PROVE  Cacheable(doc) \in Docs \cup {NoDoc}
  BY DEF Cacheable
<1>3. CASE ListKeys
  BY <1>1, <1>3 DEF ListKeys, Keys, storeVars, LoaderStages
<1>4. CASE ClearCache
  BY <1>1, <1>4 DEF ClearCache, LoaderStages
<1>5. ASSUME NEW id \in Ids, FillKey(id)
      PROVE  TypeOK'
  <2>1. faults' \in 0..MaxFaults
    BY <1>5, StoreAssumption DEF FillKey, Fault
  <2>2. cache' \in [Ids -> Docs \cup {NoDoc}]
    BY <1>2, <1>5 DEF FillKey
  <2>. QED
    BY <1>1, <1>5, <2>1, <2>2 DEF FillKey, LoaderStages
<1>6. CASE Subscribe
  BY <1>1, <1>6 DEF Subscribe, LoaderStages
<1>7. CASE FetchEvent
  <2>1. Head(events) \in Events /\ Tail(events) \in Seq(Events)
    BY <1>7 DEF FetchEvent
  <2>2. faults' \in 0..MaxFaults
    BY <1>7, StoreAssumption DEF FetchEvent, Fault
  <2>. QED
    BY <1>1, <1>7, <2>1, <2>2 DEF FetchEvent, Events
<1>8. CASE ApplyFetched
  <2>1. pending.id \in Ids
    BY <1>8 DEF ApplyFetched, Docs
  <2>. QED
    BY <1>1, <1>2, <1>8, <2>1 DEF ApplyFetched, storeVars
<1>9. CASE RemoveOnEvent
  <2>1. Head(events) \in Events /\ Tail(events) \in Seq(Events)
    BY <1>9 DEF RemoveOnEvent
  <2>. QED
    BY <1>1, <1>9, <2>1 DEF RemoveOnEvent, Events
<1>10. ASSUME NEW r \in Runs, NEW id \in Ids, StartRun(r, id)
       PROVE  TypeOK'
  <2>1. [stage |-> "act", doc |-> cache[id]] \in [stage : {"act", "record"}, doc : Docs]
    BY <1>10 DEF StartRun
  <2>. QED
    BY <1>1, <1>10, <2>1, EngineAssumption DEF StartRun, storeVars
<1>11. ASSUME NEW r \in Runs, RunStep(r)
       PROVE  TypeOK'
  <2>1. run[r] \in [stage : {"act", "record"}, doc : Docs]
    BY <1>11 DEF RunStep, NotMet, Act, Record, NoRun
  <2>2. CASE NotMet(r)
    BY <1>1, <2>2 DEF NotMet, storeVars
  <2>3. CASE Act(r)
    <3>1. [run[r] EXCEPT !.stage = "record"] \in [stage : {"act", "record"}, doc : Docs]
      BY <2>1
    <3>. QED
      BY <1>1, <2>3, <3>1 DEF Act, storeVars
  <2>4. CASE Record(r)
    <3>1. faults' \in 0..MaxFaults
      BY <2>4, StoreAssumption DEF Record, Fault
    <3>2. run[r].doc \in Docs /\ run[r].doc.id \in Ids
      BY <2>1 DEF Docs
    <3>. QED
      BY <1>1, <2>4, <3>1, <3>2 DEF Record
  <2>. QED
    BY <1>11, <2>2, <2>3, <2>4 DEF RunStep
<1>12. CASE EngineCrash
  <2>1. <<>> \in Seq(Events)
    OBVIOUS
  <2>2. StoreTypeOK'
    BY <1>12, <2>1 DEF EngineCrash
  <2>3. EngineTypeOK'
    BY <1>12, EngineAssumption DEF EngineCrash, LoaderStages
  <2>. QED
    BY <1>1, <2>2, <2>3
<1>. QED
  BY <1>3, <1>4, <1>5, <1>6, <1>7, <1>8, <1>9, <1>10, <1>11, <1>12
  DEF EngineNext, LoaderStep, EventStep

(* Every step keeps the types. *)
LEMMA TypeStep == TypeOK /\ Filed /\ [Next]_vars => TypeOK'
<1>. SUFFICES ASSUME TypeOK, Filed, [Next]_vars PROVE TypeOK'
  OBVIOUS
<1>1. CASE UINext /\ UNCHANGED engineVars
  BY <1>1, TypeRequest, TypeHandler, TypeRestart DEF UINext
<1>2. CASE EngineNext /\ UNCHANGED uiVars
  BY <1>2, TypeEngine
<1>3. CASE UNCHANGED vars
  BY <1>3 DEF vars, storeVars, uiVars, engineVars, TypeOK, StoreTypeOK, UITypeOK, EngineTypeOK
<1>. QED
  BY <1>1, <1>2, <1>3 DEF Next

-----------------------------------------------------------------------------
(* References and documents.                                               *)

(* What a free object is not.                                              *)
LEMMA FreeNotUsed ==
  ASSUME TypeOK, Filed, NEW o \in FreeObjs
  PROVE  /\ o \in Objs
         /\ \A id \in Ids : automations[id] # o
         /\ \A h \in Handlers : Active(h) => http[h].obj # o
BY UIAssumption DEF TypeOK, UITypeOK, Filed, FreeObjs

(* The fields of a request under way.                                      *)
LEMMA RequestFields ==
  ASSUME TypeOK, NEW h \in Handlers, Active(h)
  PROVE  /\ http[h] \in Requests
         /\ http[h].stage \in Stages \ {"idle"}
         /\ http[h].id \in Ids
         /\ http[h].obj \in Objs
         /\ http[h].doc \in Docs
<1>1. http[h] \in Requests
  BY DEF TypeOK, UITypeOK, Active, Blank
<1>. QED
  BY <1>1 DEF Requests

(* A creation files the new automation under its id. *)
LEMMA FiledCreate ==
  ASSUME TypeOK, Filed, NEW h \in Handlers, NEW id \in Ids,
         NEW body \in Bodies, NEW enabled \in BOOLEAN,
         Create(h, id, body, enabled), UNCHANGED engineVars
  PROVE  Filed'
<1>. DEFINE new == CHOOSE o \in FreeObjs : TRUE
            doc == [id |-> id, enabled |-> enabled, trigs |-> body, acts |-> body]
<1>1. new \in FreeObjs /\ new \in Objs
  BY DEF Create, FreeObjs
<1>2. /\ automations' = [automations EXCEPT ![id] = new]
      /\ http' = [http EXCEPT ![h] = [stage |-> "marshal", type |-> "created", id |-> id,
                                      obj |-> new, doc |-> doc]]
      /\ heap' = Collected([heap EXCEPT ![new] = doc], automations', http')
      /\ kv' = kv
  BY DEF Create, Arrive
<1>3. doc.id = id /\ doc \in Docs /\ doc # NoDoc
  BY StoreAssumption DEF Docs
<1>. HIDE DEF new, doc
<1>4. ASSUME NEW i \in Ids, automations'[i] # NoObj
      PROVE  heap'[automations'[i]] # NoDoc /\ heap'[automations'[i]].id = i
  <2>1. automations'[i] \in Objs
    BY <1>1, <1>2, <1>4 DEF TypeOK, UITypeOK
  <2>2. heap'[automations'[i]] = [heap EXCEPT ![new] = doc][automations'[i]]
    BY <1>2, <2>1 DEF Collected
  <2>3. i # id => automations'[i] # new /\ automations'[i] = automations[i]
    BY <1>1, <1>2, FreeNotUsed DEF TypeOK, UITypeOK
  <2>4. i = id => automations'[i] = new
    BY <1>2 DEF TypeOK, UITypeOK
  <2>. QED
    BY <1>1, <1>3, <1>4, <2>1, <2>2, <2>3, <2>4 DEF Filed, TypeOK, UITypeOK
<1>5. ASSUME NEW g \in Handlers, http'[g].stage # "idle"
      PROVE  /\ heap'[http'[g].obj] # NoDoc
             /\ heap'[http'[g].obj].id = http'[g].id
             /\ http'[g].doc.id = http'[g].id
             /\ http'[g].stage = "remove" => http'[g].type = "deleted"
  <2>1. CASE g = h
    <3>1. http'[g] = [stage |-> "marshal", type |-> "created", id |-> id, obj |-> new, doc |-> doc]
      BY <1>2, <2>1 DEF TypeOK, UITypeOK
    <3>2. heap'[new] = [heap EXCEPT ![new] = doc][new]
      BY <1>1, <1>2, <1>5, <3>1 DEF Collected
    <3>. QED
      BY <1>1, <1>3, <3>1, <3>2 DEF TypeOK, UITypeOK
  <2>2. CASE g # h
    <3>1. http'[g] = http[g] /\ Active(g)
      BY <1>2, <1>5, <2>2 DEF TypeOK, UITypeOK, Active
    <3>2. http[g].obj \in Objs /\ http[g].obj # new
      BY <1>1, <3>1, RequestFields, FreeNotUsed
    <3>3. heap'[http[g].obj] = [heap EXCEPT ![new] = doc][http[g].obj]
      BY <1>2, <1>5, <3>1, <3>2 DEF Collected
    <3>. QED
      BY <3>1, <3>2, <3>3 DEF Filed, TypeOK, UITypeOK
  <2>. QED
    BY <2>1, <2>2
<1>. QED
  BY <1>2, <1>4, <1>5 DEF Filed, Active, engineVars

(* Update, SetEnabled and Delete: the object stays, and so does its id.    *)
LEMMA FiledFind ==
  ASSUME TypeOK, Filed, NEW h \in Handlers, NEW id \in Ids,
         \/ \E body \in Bodies : Update(h, id, body)
         \/ \E enabled \in BOOLEAN : SetEnabled(h, id, enabled)
         \/ Delete(h, id),
         UNCHANGED engineVars
  PROVE  Filed'
<1>1. /\ automations[id] \in Objs
      /\ heap[automations[id]] \in Docs
      /\ heap[automations[id]].id = id
      /\ kv' = kv
  BY DEF Update, SetEnabled, Delete, Find, Arrive, Filed, TypeOK, UITypeOK
<1>2. \A o \in Objs : heap[o] # NoDoc => heap'[o] # NoDoc /\ heap'[o].id = heap[o].id
  <2>1. ASSUME NEW body \in Bodies, Update(h, id, body)
        PROVE  \A o \in Objs : heap[o] # NoDoc => heap'[o] # NoDoc /\ heap'[o].id = heap[o].id
    <3>1. [heap[automations[id]] EXCEPT !.trigs = body] \in Docs
      BY <1>1 DEF Docs
    <3>2. [heap[automations[id]] EXCEPT !.trigs = body].id = id
      BY <1>1 DEF Docs
    <3>. QED
      BY <1>1, <2>1, <3>1, <3>2, StoreAssumption DEF Update, TypeOK, UITypeOK
  <2>2. ASSUME NEW enabled \in BOOLEAN, SetEnabled(h, id, enabled)
        PROVE  \A o \in Objs : heap[o] # NoDoc => heap'[o] # NoDoc /\ heap'[o].id = heap[o].id
    <3>1. [heap[automations[id]] EXCEPT !.enabled = enabled] \in Docs
      BY <1>1 DEF Docs
    <3>2. [heap[automations[id]] EXCEPT !.enabled = enabled].id = id
      BY <1>1 DEF Docs
    <3>. QED
      BY <1>1, <2>2, <3>1, <3>2, StoreAssumption DEF SetEnabled, TypeOK, UITypeOK
  <2>3. CASE Delete(h, id)
    BY <2>3 DEF Delete
  <2>. QED
    BY <2>1, <2>2, <2>3
<1>3. \A i \in Ids : automations'[i] # NoObj => automations'[i] = automations[i]
  BY DEF Update, SetEnabled, Delete, TypeOK, UITypeOK
<1>4. /\ \A g \in Handlers : g # h => http'[g] = http[g]
      /\ http'[h].id = id /\ http'[h].obj = automations[id] /\ http'[h].doc.id = id
      /\ http'[h].stage = "remove" => http'[h].type = "deleted"
  <2>1. \A body \in Bodies : [Shown(id) EXCEPT !.acts = body].id = id
    BY <1>1, UIAssumption DEF Shown, Docs
  <2>2. Shown(id).id = id
    BY <1>1, UIAssumption DEF Shown
  <2>3. CASE \E body \in Bodies : Update(h, id, body)
    BY <2>1, <2>3 DEF Update, Find, TypeOK, UITypeOK
  <2>4. CASE \E enabled \in BOOLEAN : SetEnabled(h, id, enabled)
    BY <2>2, <2>4 DEF SetEnabled, Find, TypeOK, UITypeOK
  <2>5. CASE Delete(h, id)
    BY <2>2, <2>5 DEF Delete, Find, TypeOK, UITypeOK
  <2>. QED
    BY <2>3, <2>4, <2>5
<1>5. ASSUME NEW i \in Ids, automations'[i] # NoObj
      PROVE  heap'[automations'[i]] # NoDoc /\ heap'[automations'[i]].id = i
  BY <1>2, <1>3, <1>5 DEF Filed, TypeOK, UITypeOK
<1>6. ASSUME NEW g \in Handlers, http'[g].stage # "idle"
      PROVE  /\ heap'[http'[g].obj] # NoDoc
             /\ heap'[http'[g].obj].id = http'[g].id
             /\ http'[g].doc.id = http'[g].id
             /\ http'[g].stage = "remove" => http'[g].type = "deleted"
  <2>1. CASE g = h
    BY <1>1, <1>2, <1>4, <2>1, StoreAssumption DEF TypeOK, UITypeOK
  <2>2. CASE g # h
    <3>1. http'[g] = http[g] /\ Active(g)
      BY <1>4, <1>6, <2>2 DEF TypeOK, UITypeOK, Active
    <3>. QED
      BY <1>2, <3>1, RequestFields DEF Filed
  <2>. QED
    BY <2>1, <2>2
<1>. QED
  BY <1>1, <1>5, <1>6 DEF Filed, Active, engineVars

(* A handler files automations under their ids. *)
LEMMA FiledHandler ==
  ASSUME TypeOK, Filed, NEW h \in Handlers, HandlerStep(h), UNCHANGED engineVars
  PROVE  Filed'
<1>1. Active(h)
  BY DEF HandlerStep, UpdateActions, Marshal, PutDoc, RemoveDoc, PublishEvent, Active
<1>2. /\ http[h] \in Requests /\ http[h].obj \in Objs /\ http[h].id \in Ids
      /\ http[h].doc \in Docs /\ http[h].doc.id = http[h].id
      /\ heap[http[h].obj] \in Docs /\ heap[http[h].obj].id = http[h].id
  BY <1>1, RequestFields DEF Filed, TypeOK, UITypeOK
<1>3. automations' = automations /\ cache' = cache /\ run' = run
  BY DEF HandlerStep, UpdateActions, Marshal, PutDoc, RemoveDoc, PublishEvent, WriteKV, engineVars
<1>4. CASE UpdateActions(h)
  <2>1. [heap[http[h].obj] EXCEPT !.acts = http[h].doc.acts] \in Docs
    BY <1>2 DEF Docs
  <2>2. \A o \in Objs : heap[o] # NoDoc => heap'[o] # NoDoc /\ heap'[o].id = heap[o].id
    BY <1>2, <1>4, <2>1, StoreAssumption DEF UpdateActions, TypeOK, UITypeOK, Docs
  <2>3. \A g \in Handlers : /\ http'[g].stage # "idle" => Active(g)
                            /\ http'[g].obj = http[g].obj /\ http'[g].id = http[g].id
                            /\ http'[g].doc = http[g].doc /\ http'[g].type = http[g].type
                            /\ http'[g].stage = "remove" => http[g].stage = "remove"
    BY <1>1, <1>2, <1>4 DEF UpdateActions, TypeOK, UITypeOK, Active, Requests
  <2>4. kv' = kv
    BY <1>4 DEF UpdateActions, storeVars
  <2>. QED
    BY <1>3, <2>2, <2>3, <2>4, RequestFields DEF Filed, Active, TypeOK, UITypeOK
<1>5. CASE Marshal(h)
  <2>1. heap' = heap /\ kv' = kv
    BY <1>5 DEF Marshal, storeVars
  <2>2. \A g \in Handlers : /\ http'[g].stage # "idle" => Active(g)
                            /\ http'[g].obj = http[g].obj /\ http'[g].id = http[g].id
                            /\ http'[g].type = http[g].type
                            /\ http'[g].stage = "remove" => http[g].stage = "remove"
                            /\ g # h => http'[g].doc = http[g].doc
    BY <1>1, <1>2, <1>5 DEF Marshal, TypeOK, UITypeOK, Active, Requests
  <2>3. http'[h].doc = heap[http[h].obj]
    BY <1>2, <1>5 DEF Marshal, TypeOK, UITypeOK, Requests
  <2>. QED
    BY <1>2, <1>3, <2>1, <2>2, <2>3 DEF Filed, Active
<1>6. ASSUME NEW doc, WriteKV(h, doc), doc # NoDoc => doc.id = http[h].id
      PROVE  Filed'
  <2>1. heap' = heap
    BY <1>6 DEF WriteKV
  <2>2. \A i \in Ids : kv'[i] # NoDoc => kv'[i].id = i
    BY <1>2, <1>6 DEF WriteKV, Filed, TypeOK, StoreTypeOK
  <2>3. \A g \in Handlers : /\ http'[g].stage # "idle" => Active(g)
                            /\ http'[g].obj = http[g].obj /\ http'[g].id = http[g].id
                            /\ http'[g].doc = http[g].doc /\ http'[g].type = http[g].type
                            /\ http'[g].stage = "remove" => http[g].stage = "remove"
    BY <1>1, <1>2, <1>6 DEF WriteKV, TypeOK, UITypeOK, Active, Requests
  <2>. QED
    BY <1>3, <2>1, <2>2, <2>3 DEF Filed, Active
<1>7. CASE PutDoc(h)
  BY <1>2, <1>6, <1>7 DEF PutDoc
<1>8. CASE RemoveDoc(h)
  BY <1>6, <1>8 DEF RemoveDoc
<1>9. CASE PublishEvent(h)
  <2>1. kv' = kv /\ http' = [http EXCEPT ![h] = Blank] /\ heap' = Collected(heap, automations, http')
    BY <1>9 DEF PublishEvent
  <2>2. \A g \in Handlers : http'[g].stage # "idle" => Active(g) /\ http'[g] = http[g]
    BY <2>1 DEF TypeOK, UITypeOK, Active, Blank
  <2>3. \A g \in Handlers : http'[g].stage # "idle" => heap'[http[g].obj] = heap[http[g].obj]
    BY <2>1, <2>2, RequestFields DEF Collected
  <2>4. \A i \in Ids : automations[i] # NoObj => heap'[automations[i]] = heap[automations[i]]
    BY <2>1 DEF Collected, TypeOK, UITypeOK
  <2>5. \A g \in Handlers : http'[g].stage # "idle" =>
          /\ heap'[http'[g].obj] # NoDoc
          /\ heap'[http'[g].obj].id = http'[g].id
          /\ http'[g].doc.id = http'[g].id
          /\ http'[g].stage = "remove" => http'[g].type = "deleted"
    BY <2>2, <2>3 DEF Filed
  <2>6. \A i \in Ids : automations'[i] # NoObj =>
          heap'[automations'[i]] # NoDoc /\ heap'[automations'[i]].id = i
    BY <1>3, <2>4 DEF Filed
  <2>. QED
    BY <1>3, <2>1, <2>5, <2>6 DEF Filed, Active
<1>. QED
  BY <1>4, <1>5, <1>7, <1>8, <1>9 DEF HandlerStep

(* What is read at the start is filed under the ids it is stored by. *)
LEMMA FiledRestart ==
  ASSUME TypeOK, Filed, UICrash \/ (\E id \in Ids : UILoadKey(id)) \/ UIServe,
         UNCHANGED engineVars
  PROVE  Filed'
<1>1. kv' = kv /\ cache' = cache /\ run' = run
  BY DEF UICrash, UILoadKey, UIServe, engineVars, storeVars
<1>2. CASE UICrash
  BY <1>1, <1>2 DEF Filed, UICrash, Active, Blank
<1>3. CASE UIServe
  BY <1>1, <1>3 DEF Filed, UIServe, Active
<1>4. ASSUME NEW id \in Ids, UILoadKey(id)
      PROVE  Filed'
  <2>1. CASE UNCHANGED <<automations, heap>>
    BY <1>1, <1>4, <2>1 DEF Filed, UILoadKey, Active
  <2>2. CASE ~ UNCHANGED <<automations, heap>>
    <3>. DEFINE new == CHOOSE o \in FreeObjs : TRUE
    <3>1. /\ new \in FreeObjs /\ new \in Objs
          /\ automations' = [automations EXCEPT ![id] = new]
          /\ heap' = [heap EXCEPT ![new] = kv[id]]
          /\ http' = http /\ kv[id] # NoDoc
      BY <1>4, <2>2 DEF UILoadKey, FreeObjs
    <3>. HIDE DEF new
    <3>2. \A i \in Ids : automations'[i] # NoObj =>
            heap'[automations'[i]] # NoDoc /\ heap'[automations'[i]].id = i
      BY <3>1, FreeNotUsed DEF Filed, TypeOK, UITypeOK
    <3>3. \A g \in Handlers : Active(g) => heap'[http[g].obj] = heap[http[g].obj]
      BY <3>1, FreeNotUsed DEF TypeOK, UITypeOK
    <3>. QED
      BY <1>1, <3>1, <3>2, <3>3 DEF Filed, Active
  <2>. QED
    BY <2>1, <2>2
<1>. QED
  BY <1>2, <1>3, <1>4

(* The engine files what it is told of under the id it is told. *)
LEMMA FiledEngine ==
  ASSUME TypeOK, Filed, pending # NoDoc => pending.id \in Ids,
         EngineNext, UNCHANGED uiVars
  PROVE  Filed'
<1>1. automations' = automations /\ heap' = heap /\ http' = http
  BY DEF uiVars
<1>2. ASSUME NEW doc
      PROVE  Cacheable(doc) # NoDoc => Cacheable(doc).enabled /\ Cacheable(doc).id = doc.id
  BY DEF Cacheable
<1>3. CASE ListKeys \/ Subscribe \/ FetchEvent
  BY <1>1, <1>3 DEF ListKeys, Subscribe, FetchEvent, Filed, Active, storeVars
<1>4. CASE ClearCache \/ RemoveOnEvent
  <2>1. \A i \in Ids : cache'[i] # NoDoc => cache'[i] = cache[i]
    BY <1>4 DEF ClearCache, RemoveOnEvent, TypeOK, EngineTypeOK
  <2>2. kv' = kv /\ run' = run
    BY <1>4 DEF ClearCache, RemoveOnEvent
  <2>. QED
    BY <1>1, <2>1, <2>2 DEF Filed, Active
<1>5. ASSUME NEW id \in Ids, FillKey(id)
      PROVE  Filed'
  <2>1. \A i \in Ids : cache'[i] # NoDoc => cache'[i].enabled /\ cache'[i].id = i
    <3>1. CASE cache' = cache
      BY <3>1 DEF Filed
    <3>2. CASE cache' = [cache EXCEPT ![id] = Cacheable(kv[id])]
      BY <3>2 DEF Filed, Cacheable, TypeOK, EngineTypeOK
    <3>. QED
      BY <1>5, <3>1, <3>2 DEF FillKey
  <2>2. kv' = kv /\ run' = run
    BY <1>5 DEF FillKey
  <2>. QED
    BY <1>1, <2>1, <2>2 DEF Filed, Active
<1>6. CASE ApplyFetched
  <2>1. \A i \in Ids : cache'[i] # NoDoc => cache'[i].enabled /\ cache'[i].id = i
    BY <1>6 DEF ApplyFetched, Filed, Cacheable, TypeOK, EngineTypeOK
  <2>2. kv' = kv /\ run' = run
    BY <1>6 DEF ApplyFetched, storeVars
  <2>. QED
    BY <1>1, <2>1, <2>2 DEF Filed, Active
<1>7. ASSUME NEW r \in Runs, NEW id \in Ids, StartRun(r, id)
      PROVE  Filed'
  <2>1. \A q \in Runs : run'[q] # NoRun => run'[q].doc.enabled
    BY <1>7 DEF StartRun, Filed, TypeOK, EngineTypeOK
  <2>. QED
    BY <1>1, <1>7, <2>1 DEF StartRun, Filed, Active, storeVars
<1>8. ASSUME NEW r \in Runs, RunStep(r)
      PROVE  Filed'
  <2>1. run[r] \in [stage : {"act", "record"}, doc : Docs] /\ run[r] # NoRun
    BY <1>8 DEF RunStep, NotMet, Act, Record, NoRun, TypeOK, EngineTypeOK
  <2>2. \A q \in Runs : run'[q] # NoRun => run'[q].doc.enabled
    BY <1>8, <2>1 DEF RunStep, NotMet, Act, Record, Filed, TypeOK, EngineTypeOK
  <2>3. \A i \in Ids : kv'[i] # NoDoc => kv'[i].id = i
    BY <1>8, <2>1 DEF RunStep, NotMet, Act, Record, Filed, TypeOK, StoreTypeOK, storeVars, Docs
  <2>4. cache' = cache
    BY <1>8 DEF RunStep, NotMet, Act, Record
  <2>. QED
    BY <1>1, <2>2, <2>3, <2>4 DEF Filed, Active
<1>9. CASE EngineCrash
  BY <1>1, <1>9 DEF EngineCrash, Filed, Active
<1>. QED
  BY <1>3, <1>4, <1>5, <1>6, <1>7, <1>8, <1>9 DEF EngineNext, LoaderStep, EventStep

(* Every step files automations under their ids. *)
LEMMA FiledStep == TypeOK /\ Filed /\ [Next]_vars => Filed'
<1>. SUFFICES ASSUME TypeOK, Filed, [Next]_vars PROVE Filed'
  OBVIOUS
<1>1. CASE UINext /\ UNCHANGED engineVars
  BY <1>1, FiledCreate, FiledFind, FiledHandler, FiledRestart DEF UINext, Request
<1>2. CASE EngineNext /\ UNCHANGED uiVars
  BY <1>2, FiledEngine DEF TypeOK, EngineTypeOK, Docs
<1>3. CASE UNCHANGED vars
  BY <1>3 DEF vars, storeVars, uiVars, engineVars, Filed, Active
<1>. QED
  BY <1>1, <1>2, <1>3 DEF Next

-----------------------------------------------------------------------------
(* The engine against the bucket.                                          *)

(* What a step must keep for EngineInv to survive it, when it changes      *)
(* neither cache nor pending nor subscribed: an id whose document changed, *)
(* or that was repaired, is repaired.                                      *)
LEMMA EngineFrame ==
  ASSUME EngineInv, pending # NoDoc => pending.id \in Ids,
         cache' = cache, pending' = pending, subscribed' = subscribed,
         events = <<>> /\ ~subscribed => events' = <<>>,
         subscribed => \A id \in Ids : kv'[id] # kv[id] \/ Repaired(id) => Repaired(id)'
  PROVE  EngineInv'
<1>1. pending # NoDoc => subscribed
  BY DEF EngineInv
<1>2. ASSUME NEW id \in Ids, subscribed', cache'[id] # NoDoc, cache'[id] # kv'[id]
      PROVE  Repaired(id)' \/ (pending' # NoDoc /\ pending'.id = id)
  BY <1>2 DEF EngineInv
<1>3. ASSUME NEW id \in Ids, pending' # NoDoc, pending'.id = id, pending' # kv'[id]
      PROVE  Repaired(id)'
  <2>1. kv'[id] # kv[id] \/ Repaired(id)
    BY <1>3 DEF EngineInv
  <2>. QED
    BY <1>1, <1>3, <2>1
<1>4. ~subscribed' => events' = <<>> /\ pending' = NoDoc
  BY DEF EngineInv
<1>. QED
  BY <1>2, <1>3, <1>4 DEF EngineInv

(* A request that arrives changes nothing the engine has. *)
LEMMA EngineRequest ==
  ASSUME TypeOK, EngineInv, NEW h \in Handlers, NEW id \in Ids,
         Request(h, id), UNCHANGED engineVars
  PROVE  EngineInv'
<1>1. /\ UNCHANGED <<kv, events, subscribed, engExcused, cache, pending>>
      /\ ~Active(h) /\ \A g \in Handlers : g # h => http'[g] = http[g]
  BY DEF Request, Create, Update, SetEnabled, Delete, Find, Arrive, engineVars, TypeOK, UITypeOK
<1>2. \A g \in Handlers : http[g].stage = "publish" => http'[g] = http[g]
  BY <1>1 DEF Active
<1>3. \A i \in Ids : Repaired(i) => Repaired(i)'
  BY <1>1, <1>2 DEF Repaired, Announced, DeletionAnnounced
<1>. QED
  BY <1>1, <1>3, EngineFrame DEF TypeOK, EngineTypeOK, Docs

(* What a handler changes, an event will tell the engine. *)
LEMMA EngineHandler ==
  ASSUME TypeOK, Filed, EngineInv, NEW h \in Handlers, HandlerStep(h), UNCHANGED engineVars
  PROVE  EngineInv'
<1>1. Active(h)
  BY DEF HandlerStep, UpdateActions, Marshal, PutDoc, RemoveDoc, PublishEvent, Active
<1>2. http[h] \in Requests /\ http[h].id \in Ids
  BY <1>1, RequestFields
<1>3. UNCHANGED <<subscribed, cache, pending>>
  BY DEF HandlerStep, UpdateActions, Marshal, PutDoc, RemoveDoc, PublishEvent, WriteKV, engineVars, storeVars
<1>4. pending # NoDoc => pending.id \in Ids
  BY DEF TypeOK, EngineTypeOK, Docs
<1>5. CASE UpdateActions(h) \/ Marshal(h)
  <2>1. UNCHANGED <<kv, events, engExcused>>
    BY <1>5 DEF UpdateActions, Marshal, storeVars
  <2>2. \A g \in Handlers : http[g].stage = "publish" => http'[g] = http[g]
    BY <1>5 DEF UpdateActions, Marshal, TypeOK, UITypeOK
  <2>3. \A i \in Ids : Repaired(i) => Repaired(i)'
    BY <2>1, <2>2 DEF Repaired, Announced, DeletionAnnounced
  <2>. QED
    BY <1>3, <1>4, <2>1, <2>3, EngineFrame
<1>6. ASSUME NEW doc \in Docs \cup {NoDoc}, WriteKV(h, doc), http[h].stage # "publish",
             doc = NoDoc => http[h].type = "deleted"
      PROVE  EngineInv'
  <2>1. UNCHANGED <<events, engExcused>>
    BY <1>6 DEF WriteKV
  <2>2. /\ http'[h].stage = "publish" /\ http'[h].id = http[h].id /\ http'[h].type = http[h].type
        /\ \A g \in Handlers : http[g].stage = "publish" => http'[g] = http[g]
    BY <1>2, <1>6 DEF WriteKV, TypeOK, UITypeOK, Requests
  <2>3. \A i \in Ids : i # http[h].id => kv'[i] = kv[i]
    BY <1>6 DEF WriteKV, TypeOK, StoreTypeOK
  <2>4. kv'[http[h].id] = doc \/ kv' = kv
    BY <1>2, <1>6 DEF WriteKV, TypeOK, StoreTypeOK
  <2>5. \A i \in Ids : Announced(i) => Announced(i)'
    BY <2>1, <2>2 DEF Announced
  <2>6. \A i \in Ids : DeletionAnnounced(i) => DeletionAnnounced(i)'
    BY <2>1, <2>2 DEF DeletionAnnounced
  <2>7. \A i \in Ids : kv'[i] = kv[i] /\ Repaired(i) => Repaired(i)'
    BY <2>1, <2>5, <2>6 DEF Repaired
  <2>8. CASE kv' = kv
    BY <1>3, <1>4, <2>1, <2>7, <2>8, EngineFrame
  <2>9. CASE kv'[http[h].id] = doc
    <3>1. \A i \in Ids : i = http[h].id => Announced(i)'
      BY <2>2 DEF Announced
    <3>2. \A i \in Ids : i = http[h].id /\ doc = NoDoc => DeletionAnnounced(i)'
      BY <1>6, <2>2 DEF DeletionAnnounced
    <3>3. \A i \in Ids : i = http[h].id => Repaired(i)'
      BY <2>9, <3>1, <3>2 DEF Repaired
    <3>. QED
      BY <1>3, <1>4, <2>1, <2>3, <2>7, <3>3, EngineFrame
  <2>. QED
    BY <2>4, <2>8, <2>9
<1>7. CASE PutDoc(h)
  BY <1>2, <1>6, <1>7, StoreAssumption DEF PutDoc, Requests
<1>8. CASE RemoveDoc(h)
  BY <1>1, <1>6, <1>8 DEF RemoveDoc, Filed
<1>9. CASE PublishEvent(h)
  <2>1. kv' = kv /\ \A g \in Handlers : g # h => http'[g] = http[g]
    BY <1>9 DEF PublishEvent, TypeOK, UITypeOK
  <2>. DEFINE e == [type |-> http[h].type, id |-> http[h].id]
  <2>2. CASE Publish(http[h].type, http[h].id) /\ subscribed /\ UNCHANGED engExcused
    <3>1. events' = Append(events, e) /\ events \in Seq(Events)
      BY <2>2 DEF Publish, TypeOK, StoreTypeOK
    <3>2. /\ \A i \in DOMAIN events : i \in DOMAIN events' /\ events'[i] = events[i]
          /\ Len(events) + 1 \in DOMAIN events' /\ events'[Len(events) + 1] = e
      BY <3>1
    <3>3. \A i \in Ids : Announced(i) => Announced(i)'
      BY <2>1, <3>2 DEF Announced
    <3>4. \A i \in Ids : DeletionAnnounced(i) => DeletionAnnounced(i)'
      BY <2>1, <3>2 DEF DeletionAnnounced
    <3>5. \A i \in Ids : Repaired(i) => Repaired(i)'
      BY <2>1, <2>2, <3>3, <3>4 DEF Repaired
    <3>. QED
      BY <1>3, <1>4, <2>1, <2>2, <3>5, EngineFrame
  <2>3. CASE Publish(http[h].type, http[h].id) /\ ~subscribed
    BY <1>3, <1>4, <2>1, <2>3, EngineFrame DEF Publish
  <2>4. CASE UNCHANGED events /\ engExcused' = engExcused \cup {http[h].id}
    <3>1. \A i \in Ids : i # http[h].id /\ Announced(i) => Announced(i)'
      BY <2>1, <2>4 DEF Announced
    <3>2. \A i \in Ids : i # http[h].id /\ DeletionAnnounced(i) => DeletionAnnounced(i)'
      BY <2>1, <2>4 DEF DeletionAnnounced
    <3>3. \A i \in Ids : Repaired(i) => Repaired(i)'
      BY <2>1, <2>4, <3>1, <3>2 DEF Repaired
    <3>. QED
      BY <1>3, <1>4, <2>1, <2>4, <3>3, EngineFrame
  <2>. QED
    BY <1>9, <2>2, <2>3, <2>4 DEF PublishEvent
<1>. QED
  BY <1>5, <1>7, <1>8, <1>9 DEF HandlerStep

(* The UI's restart changes nothing the engine has. *)
LEMMA EngineRestart ==
  ASSUME TypeOK, EngineInv,
         UICrash \/ (\E id \in Ids : UILoadKey(id)) \/ UIServe, UNCHANGED engineVars
  PROVE  EngineInv'
<1>1. UNCHANGED <<kv, events, subscribed, cache, pending>>
  BY DEF UICrash, UILoadKey, UIServe, engineVars, storeVars
<1>2. pending # NoDoc => pending.id \in Ids
  BY DEF TypeOK, EngineTypeOK, Docs
<1>3. ASSUME NEW i \in Ids, Repaired(i)
      PROVE  Repaired(i)'
  <2>1. CASE UICrash
    <3>1. engExcused \subseteq engExcused'
      BY <2>1 DEF UICrash
    <3>2. (\E h \in Handlers : http[h].stage = "publish" /\ http[h].id = i) => i \in engExcused'
      BY <2>1 DEF UICrash
    <3>3. Announced(i) => i \in engExcused' \/ Announced(i)'
      BY <1>1, <3>2 DEF Announced
    <3>4. DeletionAnnounced(i) => i \in engExcused' \/ DeletionAnnounced(i)'
      BY <1>1, <3>2 DEF DeletionAnnounced
    <3>. QED
      BY <1>1, <1>3, <3>1, <3>3, <3>4 DEF Repaired
  <2>2. CASE UNCHANGED <<http, engExcused>>
    BY <1>1, <1>3, <2>2 DEF Repaired, Announced, DeletionAnnounced
  <2>. QED
    BY <2>1, <2>2 DEF UILoadKey, UIServe, storeVars
<1>. QED
  BY <1>1, <1>2, <1>3, EngineFrame

(* Taking the first event off the queue forgets no other.                  *)
LEMMA TailKeeps ==
  ASSUME events \in Seq(Events), events # <<>>, NEW i \in DOMAIN events,
         events[i] # Head(events)
  PROVE  \E j \in DOMAIN Tail(events) : Tail(events)[j] = events[i]
<1>1. i \in 1..Len(events) /\ i # 1
  OBVIOUS
<1>2. i - 1 \in DOMAIN Tail(events) /\ Tail(events)[i - 1] = events[i]
  BY <1>1
<1>. QED
  BY <1>2

(* An event that is taken off the queue leaves those about other automations. *)
LEMMA TailAnnounced ==
  ASSUME TypeOK, events # <<>>, events' = Tail(events), http' = http, NEW id \in Ids
  PROVE  /\ id # Head(events).id /\ Announced(id) => Announced(id)'
         /\ Head(events).type # "deleted" \/ id # Head(events).id =>
              (DeletionAnnounced(id) => DeletionAnnounced(id)')
<1>1. events \in Seq(Events)
  BY DEF TypeOK, StoreTypeOK
<1>2. ASSUME NEW i \in DOMAIN events, events[i] # Head(events)
      PROVE  \E j \in DOMAIN events' : events'[j] = events[i]
  BY <1>1, <1>2, TailKeeps
<1>3. ASSUME id # Head(events).id, Announced(id)
      PROVE  Announced(id)'
  BY <1>2, <1>3 DEF Announced
<1>4. ASSUME Head(events).type # "deleted" \/ id # Head(events).id, DeletionAnnounced(id)
      PROVE  DeletionAnnounced(id)'
  BY <1>2, <1>4 DEF DeletionAnnounced
<1>. QED
  BY <1>3, <1>4

(* An event that is handled brings the engine up to what it told. *)
LEMMA EngineEvents ==
  ASSUME TypeOK, Filed, EngineInv, EventStep, UNCHANGED uiVars
  PROVE  EngineInv'
<1>1. http' = http /\ kv' = kv /\ subscribed' = subscribed
  BY DEF uiVars, EventStep, FetchEvent, ApplyFetched, RemoveOnEvent, storeVars
<1>2. ~subscribed => events = <<>> /\ pending = NoDoc
  BY DEF EngineInv
<1>3. CASE FetchEvent
  <2>. DEFINE e == Head(events)
  <2>1. /\ e \in Events /\ e.type # "deleted" /\ events # <<>> /\ events' = Tail(events)
        /\ cache' = cache /\ pending = NoDoc /\ subscribed
    BY <1>2, <1>3 DEF FetchEvent, TypeOK, StoreTypeOK, ReloadEvents
  <2>2. e.id \in Ids
    BY <2>1 DEF Events
  <2>3. ASSUME NEW id \in Ids, Repaired(id)
        PROVE  \/ Repaired(id)'
               \/ id = e.id /\ kv[id] # NoDoc /\ engExcused' = engExcused
    <3>1. engExcused \subseteq engExcused' /\ (engExcused' = engExcused \/ e.id \in engExcused')
      BY <1>3 DEF FetchEvent
    <3>2. DeletionAnnounced(id) => DeletionAnnounced(id)'
      BY <1>1, <2>1, TailAnnounced
    <3>3. id # e.id /\ Announced(id) => Announced(id)'
      BY <1>1, <2>1, TailAnnounced
    <3>. QED
      BY <1>1, <2>3, <3>1, <3>2, <3>3 DEF Repaired
  <2>4. CASE pending' = kv[e.id] /\ engExcused' = engExcused
    <3>1. kv[e.id] # NoDoc => kv[e.id].id = e.id
      BY <2>2 DEF Filed
    <3>2. ASSUME NEW id \in Ids, cache'[id] # NoDoc, cache'[id] # kv'[id]
          PROVE  Repaired(id)' \/ (pending' # NoDoc /\ pending'.id = id)
      <4>1. Repaired(id)
        BY <1>1, <2>1, <3>2 DEF EngineInv
      <4>. QED
        BY <2>3, <2>4, <3>1, <4>1
    <3>3. \A id \in Ids : ~(pending' # NoDoc /\ pending'.id = id /\ pending' # kv'[id])
      BY <1>1, <2>4, <3>1
    <3>. QED
      BY <1>1, <2>1, <3>2, <3>3 DEF EngineInv
  <2>5. CASE pending' = pending /\ engExcused' = engExcused \cup {e.id}
    <3>1. ASSUME NEW id \in Ids, cache'[id] # NoDoc, cache'[id] # kv'[id]
          PROVE  Repaired(id)'
      <4>1. Repaired(id)
        BY <1>1, <2>1, <3>1 DEF EngineInv
      <4>2. id = e.id => Repaired(id)'
        BY <2>5 DEF Repaired
      <4>. QED
        BY <2>3, <4>1, <4>2
    <3>. QED
      BY <1>1, <2>1, <2>5, <3>1 DEF EngineInv
  <2>. QED
    BY <1>3, <2>4, <2>5 DEF FetchEvent
<1>4. CASE ApplyFetched
  <2>1. /\ events' = events /\ engExcused' = engExcused /\ pending' = NoDoc /\ pending # NoDoc
        /\ cache' = [cache EXCEPT ![pending.id] = Cacheable(pending)]
    BY <1>4 DEF ApplyFetched, storeVars
  <2>2. \A id \in Ids : Repaired(id) => Repaired(id)'
    BY <1>1, <2>1 DEF Repaired, Announced, DeletionAnnounced
  <2>3. ASSUME NEW id \in Ids, subscribed, cache'[id] # NoDoc, cache'[id] # kv'[id]
        PROVE  Repaired(id)
    <3>1. CASE id = pending.id
      <4>1. cache'[id] = pending
        BY <2>1, <2>3, <3>1 DEF Cacheable, TypeOK, EngineTypeOK
      <4>. QED
        BY <1>1, <2>1, <2>3, <3>1, <4>1 DEF EngineInv
    <3>2. CASE id # pending.id
      <4>1. cache'[id] = cache[id]
        BY <2>1, <3>2 DEF TypeOK, EngineTypeOK
      <4>. QED
        BY <1>1, <2>3, <3>2, <4>1 DEF EngineInv
    <3>. QED
      BY <3>1, <3>2
  <2>. QED
    BY <1>1, <1>2, <2>1, <2>2, <2>3 DEF EngineInv
<1>5. CASE RemoveOnEvent
  <2>. DEFINE e == Head(events)
  <2>1. /\ events # <<>> /\ events' = Tail(events) /\ engExcused' = engExcused
        /\ pending' = pending /\ pending = NoDoc /\ subscribed
        /\ cache' = [cache EXCEPT ![e.id] = NoDoc]
    BY <1>2, <1>5 DEF RemoveOnEvent
  <2>2. ASSUME NEW id \in Ids, cache'[id] # NoDoc, cache'[id] # kv'[id]
        PROVE  Repaired(id)'
    <3>1. id # e.id /\ cache'[id] = cache[id]
      BY <2>1, <2>2 DEF TypeOK, EngineTypeOK
    <3>2. Repaired(id)
      BY <1>1, <2>1, <2>2, <3>1 DEF EngineInv
    <3>3. (Announced(id) => Announced(id)') /\ (DeletionAnnounced(id) => DeletionAnnounced(id)')
      BY <1>1, <2>1, <3>1, TailAnnounced
    <3>. QED
      BY <1>1, <2>1, <3>2, <3>3 DEF Repaired
  <2>. QED
    BY <1>1, <2>1, <2>2 DEF EngineInv
<1>. QED
  BY <1>3, <1>4, <1>5 DEF EventStep

(* The engine's loading from the store keeps its cache explained. *)
LEMMA EngineLoader ==
  ASSUME TypeOK, EngineInv, LoaderStep, UNCHANGED uiVars
  PROVE  EngineInv'
<1>1. http' = http /\ kv' = kv /\ events' = events /\ pending' = pending
  BY DEF uiVars, LoaderStep, ListKeys, ClearCache, FillKey, Subscribe, storeVars
<1>2. ~subscribed => events = <<>> /\ pending = NoDoc
  BY DEF EngineInv
<1>3. CASE ListKeys
  <2>1. cache' = cache /\ subscribed' = subscribed /\ engExcused' = engExcused
    BY <1>3 DEF ListKeys, storeVars
  <2>2. \A id \in Ids : Repaired(id) => Repaired(id)'
    BY <1>1, <2>1 DEF Repaired, Announced, DeletionAnnounced
  <2>. QED
    BY <1>1, <2>1, <2>2 DEF EngineInv
<1>4. CASE ClearCache
  <2>1. /\ \A id \in Ids : cache'[id] = NoDoc
        /\ subscribed' = subscribed
        /\ engExcused' = {id \in engExcused : pending # NoDoc /\ pending.id = id}
    BY <1>4 DEF ClearCache
  <2>2. \A id \in Ids : pending # NoDoc /\ pending.id = id /\ Repaired(id) => Repaired(id)'
    BY <1>1, <2>1 DEF Repaired, Announced, DeletionAnnounced
  <2>. QED
    BY <1>1, <1>2, <2>1, <2>2 DEF EngineInv
<1>5. ASSUME NEW k \in Ids, FillKey(k)
      PROVE  EngineInv'
  <2>1. /\ subscribed' = subscribed /\ engExcused' = engExcused
        /\ cache' = [cache EXCEPT ![k] = Cacheable(kv[k])] \/ cache' = cache
    BY <1>5 DEF FillKey
  <2>2. \A id \in Ids : Repaired(id) => Repaired(id)'
    BY <1>1, <2>1 DEF Repaired, Announced, DeletionAnnounced
  <2>3. \A id \in Ids : cache'[id] = cache[id] \/ cache'[id] \in {NoDoc, kv[id]}
    BY <2>1 DEF Cacheable, TypeOK, EngineTypeOK
  <2>. QED
    BY <1>1, <2>1, <2>2, <2>3 DEF EngineInv
<1>6. CASE Subscribe
  <2>1. subscribed' = TRUE /\ \A id \in Ids : Repaired(id)'
    BY <1>6 DEF Subscribe, Repaired
  <2>. QED
    BY <2>1 DEF EngineInv
<1>. QED
  BY <1>3, <1>4, <1>5, <1>6 DEF LoaderStep

(* Runs and a crash of the engine keep its cache explained. *)
LEMMA EngineRuns ==
  ASSUME TypeOK, EngineInv, UNCHANGED uiVars,
         \/ \E r \in Runs, id \in Ids : StartRun(r, id)
         \/ \E r \in Runs : RunStep(r)
         \/ EngineCrash
  PROVE  EngineInv'
<1>1. http' = http
  BY DEF uiVars
<1>2. pending # NoDoc => pending.id \in Ids
  BY DEF TypeOK, EngineTypeOK, Docs
<1>3. CASE UNCHANGED <<kv, events, subscribed, engExcused, cache, pending>>
  <2>1. \A id \in Ids : Repaired(id) => Repaired(id)'
    BY <1>1, <1>3 DEF Repaired, Announced, DeletionAnnounced
  <2>. QED
    BY <1>2, <1>3, <2>1, EngineFrame
<1>4. ASSUME NEW r \in Runs, Record(r), ~ UNCHANGED <<kv, events, subscribed, engExcused, cache, pending>>
      PROVE  EngineInv'
  <2>1. /\ UNCHANGED <<events, subscribed, cache, pending>>
        /\ kv' = [kv EXCEPT ![run[r].doc.id] = run[r].doc]
        /\ engExcused' = engExcused \cup {run[r].doc.id}
    BY <1>4 DEF Record
  <2>2. \A id \in Ids : id # run[r].doc.id => kv'[id] = kv[id]
    BY <2>1 DEF TypeOK, StoreTypeOK
  <2>3. ASSUME NEW id \in Ids, kv'[id] # kv[id] \/ Repaired(id)
        PROVE  Repaired(id)'
    <3>1. id = run[r].doc.id => id \in engExcused'
      BY <2>1
    <3>2. (Announced(id) => Announced(id)') /\ (DeletionAnnounced(id) => DeletionAnnounced(id)')
      BY <1>1, <2>1 DEF Announced, DeletionAnnounced
    <3>. QED
      BY <2>1, <2>2, <2>3, <3>1, <3>2 DEF Repaired
  <2>. QED
    BY <1>2, <2>1, <2>3, EngineFrame
<1>5. CASE EngineCrash
  BY <1>5 DEF EngineCrash, EngineInv
<1>6. ASSUME NEW r \in Runs, NEW id \in Ids, StartRun(r, id)
      PROVE  EngineInv'
  BY <1>3, <1>6 DEF StartRun, storeVars
<1>7. ASSUME NEW r \in Runs, RunStep(r)
      PROVE  EngineInv'
  BY <1>3, <1>4, <1>7 DEF RunStep, NotMet, Act, storeVars
<1>. QED
  BY <1>5, <1>6, <1>7

(* Every step keeps the engine's cache explained. *)
LEMMA EngineStep == TypeOK /\ Filed /\ EngineInv /\ [Next]_vars => EngineInv'
<1>. SUFFICES ASSUME TypeOK, Filed, EngineInv, [Next]_vars PROVE EngineInv'
  OBVIOUS
<1>1. CASE UINext /\ UNCHANGED engineVars
  BY <1>1, EngineRequest, EngineHandler, EngineRestart DEF UINext
<1>2. CASE EngineNext /\ UNCHANGED uiVars
  BY <1>2, EngineEvents, EngineLoader, EngineRuns DEF EngineNext
<1>3. CASE UNCHANGED vars
  <2>1. UNCHANGED <<kv, events, subscribed, engExcused, cache, pending, http>>
    BY <1>3 DEF vars, storeVars, uiVars, engineVars
  <2>2. \A id \in Ids : Repaired(id) => Repaired(id)'
    BY <2>1 DEF Repaired, Announced, DeletionAnnounced
  <2>. QED
    BY <2>1, <2>2 DEF EngineInv
<1>. QED
  BY <1>1, <1>2, <1>3 DEF Next

-----------------------------------------------------------------------------
(* The UI against the bucket.                                              *)

(* What a step must leave alone for UISync of one id to survive it.        *)
LEMMA UIFrame ==
  ASSUME NEW i \in Ids, UISync(i),
         automations'[i] = automations[i], Shown(i)' = Shown(i), kv'[i] = kv[i],
         i \notin uiLoading' => i \notin uiLoading,
         \A g \in Handlers : Writing(g, i)' <=> Writing(g, i),
         \A g \in Handlers : Writing(g, i) => http'[g] = http[g]
  PROVE  UISync(i)'
<1>1. BeingWritten(i)' <=> BeingWritten(i)
  BY DEF BeingWritten
<1>. QED
  BY <1>1 DEF UISync

(* Objects are not shared between ids.                                     *)
LEMMA NotShared ==
  ASSUME TypeOK, Filed, NEW i \in Ids, automations[i] # NoObj
  PROVE  /\ automations[i] \in Objs
         /\ \A j \in Ids : j # i => automations[j] # automations[i]
         /\ \A h \in Handlers : Active(h) /\ http[h].id # i => http[h].obj # automations[i]
BY DEF TypeOK, UITypeOK, Filed

(* A request that arrives changes nothing in the UI's map or the store. *)
LEMMA UIRequest ==
  ASSUME TypeOK, Filed, UIInv, NEW h \in Handlers, NEW id \in Ids,
         Request(h, id), UNCHANGED engineVars
  PROVE  UIInv'
<1>1. Arrive(h, id)
  BY DEF Request, Create, Update, SetEnabled, Delete, Find
<1>2. /\ uiUp /\ uiUp' /\ uiLoading = {} /\ uiLoading' = {} /\ kv' = kv
      /\ ~Active(h)
      /\ uiExcused' = IF BeingWritten(id) THEN uiExcused \cup {id} ELSE uiExcused
  BY <1>1 DEF Arrive, UIInv
<1>3. /\ \A g \in Handlers : g # h => http'[g] = http[g]
      /\ http'[h].id = id
      /\ http'[h].stage \in {"actions", "marshal", "remove"}
      /\ http'[h].stage \in {"actions", "marshal"} => http'[h].obj = automations'[id]
      /\ http'[h].stage = "remove" => automations'[id] = NoObj
  <2>. USE DEF TypeOK, UITypeOK
  <2>1. CASE \E body \in Bodies, enabled \in BOOLEAN : Create(h, id, body, enabled)
    BY <2>1 DEF Create
  <2>2. CASE \E body \in Bodies : Update(h, id, body)
    BY <2>2 DEF Update, Find
  <2>3. CASE \E enabled \in BOOLEAN : SetEnabled(h, id, enabled)
    BY <2>3 DEF SetEnabled, Find
  <2>4. CASE Delete(h, id)
    BY <2>4 DEF Delete, Find
  <2>. QED
    BY <2>1, <2>2, <2>3, <2>4 DEF Request
<1>4. ASSUME NEW i \in Ids, i # id
      PROVE  automations'[i] = automations[i] /\ Shown(i)' = Shown(i)
  <2>1. automations'[i] = automations[i]
    BY <1>4 DEF Request, Create, Update, SetEnabled, Delete, Find, TypeOK, UITypeOK
  <2>2. ASSUME automations[i] # NoObj
        PROVE  heap'[automations[i]] = heap[automations[i]]
    <3>1. automations[i] \in Objs /\ automations[i] # automations[id]
      BY <1>4, <2>2, NotShared
    <3>2. ASSUME NEW body \in Bodies, NEW enabled \in BOOLEAN, Create(h, id, body, enabled)
          PROVE  heap'[automations[i]] = heap[automations[i]]
      <4>. DEFINE new == CHOOSE o \in FreeObjs : TRUE
                  doc == [id |-> id, enabled |-> enabled, trigs |-> body, acts |-> body]
      <4>1. new \in FreeObjs /\ heap' = Collected([heap EXCEPT ![new] = doc], automations', http')
        BY <3>2 DEF Create
      <4>2. automations[i] # new
        BY <4>1, FreeNotUsed
      <4>. HIDE DEF new, doc
      <4>. QED
        BY <2>1, <3>1, <4>1, <4>2 DEF Collected, TypeOK, UITypeOK
    <3>3. CASE ~(\E body \in Bodies, enabled \in BOOLEAN : Create(h, id, body, enabled))
      BY <3>1, <3>3 DEF Request, Update, SetEnabled, Delete, TypeOK, UITypeOK
    <3>. QED
      BY <3>2, <3>3
  <2>. QED
    BY <2>1, <2>2 DEF Shown
<1>5. ASSUME NEW i \in Ids \ uiExcused'
      PROVE  UISync(i)'
  <2>1. i \notin uiExcused /\ UISync(i)
    BY <1>2, <1>5 DEF UIInv
  <2>2. CASE i # id
    <3>1. \A g \in Handlers : Writing(g, i)' <=> Writing(g, i)
      BY <1>2, <1>3, <2>2 DEF Writing, Active
    <3>2. \A g \in Handlers : Writing(g, i) => http'[g] = http[g]
      BY <1>2, <1>3 DEF Writing, Active
    <3>. QED
      BY <1>2, <1>4, <2>1, <2>2, <3>1, <3>2, UIFrame
  <2>3. CASE i = id
    <3>1. ~BeingWritten(i)
      BY <1>2, <1>5, <2>3
    <3>2. \A g \in Handlers : Writing(g, i)' <=> g = h
      BY <1>3, <2>3, <3>1 DEF BeingWritten, Writing
    <3>3. BeingWritten(i)'
      BY <3>2 DEF BeingWritten
    <3>. QED
      BY <1>3, <2>3, <3>2, <3>3 DEF UISync
  <2>. QED
    BY <2>2, <2>3
<1>. QED
  BY <1>2, <1>5 DEF UIInv

(* A handler keeps the UI's map what the store has, or notes the failure. *)
LEMMA UIHandler ==
  ASSUME TypeOK, Filed, UIInv, NEW h \in Handlers, HandlerStep(h), UNCHANGED engineVars
  PROVE  UIInv'
<1>1. Active(h)
  BY DEF HandlerStep, UpdateActions, Marshal, PutDoc, RemoveDoc, PublishEvent, Active
<1>2. http[h] \in Requests /\ http[h].id \in Ids /\ http[h].obj \in Objs
  BY <1>1, RequestFields
<1>3. /\ uiUp /\ uiUp' /\ uiLoading = {} /\ uiLoading' = {} /\ automations' = automations
  BY <1>1 DEF HandlerStep, UpdateActions, Marshal, PutDoc, RemoveDoc, PublishEvent, WriteKV, UIInv
<1>4. \A g \in Handlers : g # h => http'[g] = http[g]
  BY DEF HandlerStep, UpdateActions, Marshal, PutDoc, RemoveDoc, PublishEvent, WriteKV, TypeOK, UITypeOK
<1>5. uiExcused \subseteq uiExcused'
  BY DEF HandlerStep, UpdateActions, Marshal, PutDoc, RemoveDoc, PublishEvent, WriteKV, storeVars
<1>6. /\ http'[h].stage # "idle" => http'[h].id = http[h].id /\ http'[h].obj = http[h].obj
      /\ http'[h].stage \in {"idle", "marshal", "put", "publish"}
  BY <1>2 DEF HandlerStep, UpdateActions, Marshal, PutDoc, RemoveDoc, PublishEvent, WriteKV,
              TypeOK, UITypeOK, Blank, Requests
<1>7. ASSUME NEW i \in Ids, i # http[h].id \/ http[h].stage = "publish"
      PROVE  Shown(i)' = Shown(i) /\ kv'[i] = kv[i]
  <2>1. kv'[i] = kv[i]
    BY <1>7 DEF HandlerStep, UpdateActions, Marshal, PutDoc, RemoveDoc, PublishEvent, WriteKV,
                storeVars, TypeOK, StoreTypeOK
  <2>2. ASSUME automations[i] # NoObj
        PROVE  heap'[automations[i]] = heap[automations[i]]
    <3>1. automations[i] \in Objs
      BY <2>2, NotShared
    <3>2. CASE UpdateActions(h)
      <4>1. http[h].obj # automations[i]
        BY <1>1, <1>7, <2>2, <3>2, NotShared DEF UpdateActions
      <4>. QED
        BY <3>1, <3>2, <4>1 DEF UpdateActions, TypeOK, UITypeOK
    <3>3. CASE PublishEvent(h)
      BY <3>1, <3>3 DEF PublishEvent, Collected
    <3>4. CASE heap' = heap
      BY <3>4
    <3>. QED
      BY <3>2, <3>3, <3>4 DEF HandlerStep, Marshal, PutDoc, RemoveDoc, WriteKV
  <2>. QED
    BY <1>3, <2>1, <2>2 DEF Shown
<1>8. ASSUME NEW i \in Ids \ uiExcused'
      PROVE  UISync(i)'
  <2>1. i \notin uiExcused /\ UISync(i)
    BY <1>5, <1>8 DEF UIInv
  <2>2. CASE i # http[h].id \/ http[h].stage = "publish"
    <3>1. http[h].stage = "publish" => http'[h].stage = "idle"
      BY DEF HandlerStep, UpdateActions, Marshal, PutDoc, RemoveDoc, PublishEvent, Blank,
             TypeOK, UITypeOK
    <3>2. ~Writing(h, i) /\ ~Writing(h, i)'
      BY <1>6, <2>2, <3>1 DEF Writing
    <3>3. \A g \in Handlers : Writing(g, i)' <=> Writing(g, i)
      BY <1>4, <3>2 DEF Writing
    <3>4. \A g \in Handlers : Writing(g, i) => http'[g] = http[g]
      BY <1>4, <3>2
    <3>. QED
      BY <1>3, <1>7, <2>1, <2>2, <3>3, <3>4, UIFrame
  <2>3. CASE i = http[h].id /\ http[h].stage # "publish"
    <3>1. Writing(h, i)
      BY <1>1, <2>3 DEF Writing, Active
    <3>2. \A g \in Handlers : Writing(g, i) => g = h
      BY <2>1, <3>1 DEF UISync
    <3>3. \A g \in Handlers : Writing(g, i)' => g = h
      BY <1>4, <3>2 DEF Writing
    <3>4. CASE UpdateActions(h)
      <4>1. http'[h].stage = "marshal" /\ http'[h].id = i /\ http'[h].obj = http[h].obj
        BY <1>2, <1>6, <2>3, <3>4 DEF UpdateActions, TypeOK, UITypeOK
      <4>2. http[h].obj = automations[i]
        BY <2>1, <3>1, <3>4 DEF UISync, UpdateActions
      <4>3. BeingWritten(i)'
        BY <4>1 DEF BeingWritten, Writing
      <4>. QED
        BY <1>3, <3>3, <4>1, <4>2, <4>3 DEF UISync
    <3>5. CASE Marshal(h)
      <4>1. /\ http'[h].stage = "put" /\ http'[h].id = i /\ http'[h].doc = heap[http[h].obj]
            /\ heap' = heap
        BY <1>2, <1>6, <2>3, <3>5 DEF Marshal, TypeOK, UITypeOK, Requests
      <4>2. http[h].obj = automations[i]
        BY <2>1, <3>1, <3>5 DEF UISync, Marshal
      <4>3. Shown(i)' = heap[http[h].obj]
        BY <1>2, <1>3, <4>1, <4>2, UIAssumption DEF Shown
      <4>4. BeingWritten(i)'
        BY <4>1 DEF BeingWritten, Writing
      <4>. QED
        BY <3>3, <4>1, <4>3, <4>4 DEF UISync
    <3>6. ASSUME NEW doc, WriteKV(h, doc), doc = Shown(i)
          PROVE  UISync(i)'
      <4>1. heap' = heap /\ http'[h].stage = "publish"
        BY <1>2, <3>6 DEF WriteKV, TypeOK, UITypeOK
      <4>2. \A g \in Handlers : ~Writing(g, i)'
        BY <3>3, <4>1 DEF Writing
      <4>3. kv'[i] = doc
        BY <1>8, <2>3, <3>6 DEF WriteKV, TypeOK, StoreTypeOK
      <4>4. Shown(i)' = Shown(i)
        BY <1>3, <4>1 DEF Shown
      <4>. QED
        BY <3>6, <4>2, <4>3, <4>4 DEF UISync
    <3>7. CASE PutDoc(h)
      BY <2>1, <3>1, <3>6, <3>7 DEF PutDoc, UISync
    <3>8. CASE RemoveDoc(h)
      BY <2>1, <3>1, <3>6, <3>8 DEF RemoveDoc, UISync, Shown
    <3>. QED
      BY <2>3, <3>4, <3>5, <3>7, <3>8 DEF HandlerStep, PublishEvent
  <2>. QED
    BY <2>2, <2>3
<1>. QED
  BY <1>3, <1>8 DEF UIInv

(* The UI's map is again what the store has when it serves again. *)
LEMMA UIRestart ==
  ASSUME TypeOK, Filed, UIInv, UICrash \/ (\E id \in Ids : UILoadKey(id)) \/ UIServe,
         UNCHANGED engineVars
  PROVE  UIInv'
<1>1. kv' = kv
  BY DEF UICrash, UILoadKey, UIServe, storeVars
<1>2. CASE UICrash
  <2>1. \A g \in Handlers : http'[g].stage = "idle"
    BY <1>2 DEF UICrash, Blank
  <2>2. \A i \in Ids : automations'[i] = NoObj
    BY <1>2 DEF UICrash
  <2>3. \A i \in Ids : i \notin uiLoading' => kv[i] = NoDoc
    BY <1>2 DEF UICrash, Keys
  <2>4. uiLoading' \subseteq Ids /\ ~uiUp'
    BY <1>2 DEF UICrash, Keys
  <2>5. \A i \in Ids : UISync(i)'
    BY <1>1, <2>1, <2>2, <2>3 DEF UISync, Writing, Shown
  <2>. QED
    BY <2>1, <2>2, <2>4, <2>5 DEF UIInv, Active
<1>3. CASE UIServe
  <2>1. /\ UNCHANGED <<automations, heap, http, uiLoading, uiExcused>>
        /\ uiLoading' = {} /\ uiUp'
    BY <1>3 DEF UIServe, storeVars
  <2>2. \A i \in Ids : UISync(i) => UISync(i)'
    BY <1>1, <2>1 DEF UISync, Writing, BeingWritten, Shown
  <2>. QED
    BY <2>1, <2>2 DEF UIInv
<1>4. ASSUME NEW id \in Ids, UILoadKey(id)
      PROVE  UIInv'
  <2>1. /\ ~uiUp /\ ~uiUp' /\ http' = http /\ id \in uiLoading /\ uiLoading' = uiLoading \ {id}
        /\ \A g \in Handlers : ~Active(g)
        /\ uiExcused \subseteq uiExcused'
    BY <1>4 DEF UILoadKey, UIInv
  <2>2. \A i \in Ids, g \in Handlers : ~Writing(g, i) /\ ~Writing(g, i)'
    BY <2>1 DEF Writing, Active
  <2>3. /\ \A i \in Ids : i # id => automations'[i] = automations[i]
        /\ \A i \in Ids : i # id => Shown(i)' = Shown(i)
        /\ id \notin uiExcused' => Shown(id)' = kv[id]
    <3>1. CASE UNCHANGED <<automations, heap>> /\ id \in uiExcused'
      BY <3>1 DEF Shown
    <3>2. CASE ~(UNCHANGED <<automations, heap>> /\ id \in uiExcused')
      <4>. DEFINE new == CHOOSE o \in FreeObjs : TRUE
      <4>1. /\ new \in FreeObjs /\ automations' = [automations EXCEPT ![id] = new]
            /\ heap' = [heap EXCEPT ![new] = kv[id]]
        BY <1>4, <3>2 DEF UILoadKey
      <4>2. new \in Objs /\ \A i \in Ids : automations[i] # new
        BY <4>1, FreeNotUsed
      <4>. HIDE DEF new
      <4>3. \A i \in Ids : i # id => automations'[i] = automations[i] /\ Shown(i)' = Shown(i)
        BY <4>1, <4>2 DEF Shown, TypeOK, UITypeOK
      <4>4. Shown(id)' = kv[id]
        BY <4>1, <4>2, UIAssumption DEF Shown, TypeOK, UITypeOK
      <4>. QED
        BY <4>3, <4>4
    <3>. QED
      BY <3>1, <3>2
  <2>4. ASSUME NEW i \in Ids \ uiExcused'
        PROVE  UISync(i)'
    <3>1. UISync(i)
      BY <2>1, <2>4 DEF UIInv
    <3>2. CASE i # id
      BY <1>1, <2>1, <2>2, <2>3, <3>1, <3>2, UIFrame
    <3>3. CASE i = id
      BY <1>1, <2>2, <2>3, <2>4, <3>3 DEF UISync
    <3>. QED
      BY <3>2, <3>3
  <2>5. \A i \in uiLoading' : automations'[i] = NoObj
    BY <2>1, <2>3 DEF UIInv, TypeOK, UITypeOK
  <2>. QED
    BY <2>1, <2>4, <2>5 DEF UIInv, Active
<1>. QED
  BY <1>2, <1>3, <1>4

(* The engine leaves the map and the store alone. *)
LEMMA UIEngine ==
  ASSUME TypeOK, UIInv, EngineNext, UNCHANGED uiVars
  PROVE  UIInv'
<1>1. UNCHANGED <<automations, heap, http, uiLoading, uiUp>>
  BY DEF uiVars
<1>2. /\ uiExcused \subseteq uiExcused'
      /\ \A i \in Ids \ uiExcused' : kv'[i] = kv[i]
  BY DEF EngineNext, LoaderStep, EventStep, RunStep, ListKeys, ClearCache, FillKey, Subscribe,
         FetchEvent, ApplyFetched, RemoveOnEvent, StartRun, NotMet, Act, Record, EngineCrash,
         storeVars, TypeOK, StoreTypeOK
<1>3. \A i \in Ids, g \in Handlers : Writing(g, i)' <=> Writing(g, i)
  BY <1>1 DEF Writing
<1>4. \A i \in Ids : Shown(i)' = Shown(i)
  BY <1>1 DEF Shown
<1>5. \A i \in Ids \ uiExcused' : UISync(i)'
  BY <1>1, <1>2, <1>3, <1>4, UIFrame DEF UIInv
<1>. QED
  BY <1>1, <1>5 DEF UIInv, Active

(* Every step keeps the map what the store has, failures excepted. *)
LEMMA UIStep == TypeOK /\ Filed /\ UIInv /\ [Next]_vars => UIInv'
<1>. SUFFICES ASSUME TypeOK, Filed, UIInv, [Next]_vars PROVE UIInv'
  OBVIOUS
<1>1. CASE UINext /\ UNCHANGED engineVars
  BY <1>1, UIRequest, UIHandler, UIRestart DEF UINext
<1>2. CASE EngineNext /\ UNCHANGED uiVars
  BY <1>2, UIEngine
<1>3. CASE UNCHANGED vars
  <2>1. UNCHANGED <<automations, heap, http, uiLoading, uiUp, kv, uiExcused>>
    BY <1>3 DEF vars, storeVars, uiVars
  <2>2. \A i \in Ids : UISync(i) => UISync(i)'
    BY <2>1 DEF UISync, Writing, BeingWritten, Shown
  <2>. QED
    BY <2>1, <2>2 DEF UIInv, Active
<1>. QED
  BY <1>1, <1>2, <1>3 DEF Next

-----------------------------------------------------------------------------
(* The theorems.                                                           *)

(* The system begins with an empty cache and a map that is what is stored. *)
LEMMA InitIInv == Init => IInv
<1>. SUFFICES ASSUME Init PROVE IInv
  OBVIOUS
<1>. USE DEF Init, StoreInit, UIInit, EngineInit
<1>1. TypeOK
  <2>1. StoreTypeOK
    <3>1. <<>> \in Seq(Events)
      OBVIOUS
    <3>2. events \in Seq(Events)
      BY <3>1
    <3>3. kv \in [Ids -> Docs \cup {NoDoc}] /\ faults \in 0..MaxFaults
      BY StoreAssumption
    <3>4. subscribed \in BOOLEAN /\ engExcused \subseteq Ids /\ uiExcused \subseteq Ids
      OBVIOUS
    <3>. QED
      BY <3>2, <3>3, <3>4 DEF StoreTypeOK
  <2>2. UITypeOK
    <3>1. http \in [Handlers -> Requests \cup {Blank}]
      OBVIOUS
    <3>2. automations \in [Ids -> Objs \cup {NoObj}] /\ heap \in [Objs -> Docs \cup {NoDoc}]
      OBVIOUS
    <3>3. requests \in 0..MaxRequests /\ uiCrashes \in 0..MaxUICrashes
      BY UIAssumption
    <3>. QED
      BY <3>1, <3>2, <3>3 DEF UITypeOK
  <2>3. EngineTypeOK
    BY EngineAssumption DEF EngineTypeOK, LoaderStages
  <2>. QED
    BY <2>1, <2>2, <2>3 DEF TypeOK
<1>2. Filed
  BY DEF Filed, Active, Blank
<1>3. EngineInv
  BY DEF EngineInv
<1>4. UIInv
  BY DEF UIInv, UISync, Writing, Active, BeingWritten, Shown, Blank
<1>. QED
  BY <1>1, <1>2, <1>3, <1>4 DEF IInv

(* IInv holds in every state the UI and the engine reach together.         *)
THEOREM Invariance == Spec => []IInv
<1>1. IInv /\ [Next]_vars => IInv'
  BY TypeStep, FiledStep, EngineStep, UIStep DEF IInv
<1>. QED
  BY InitIInv, <1>1, PTL DEF Spec

(* Every variable of the composed system keeps its type.                   *)
THEOREM TypeCorrect == Spec => []TypeOK
BY Invariance, PTL DEF IInv

(* The engine's cache and its runs hold enabled automations only, filed    *)
(* under their own ids, whatever the requests, events and reloads do.      *)
THEOREM OnlyEnabled == Spec => []OnlyEnabledRun
<1>1. IInv => OnlyEnabledRun
  BY DEF IInv, Filed, OnlyEnabledRun
<1>. QED
  BY Invariance, <1>1, PTL

(* A cached automation that differs from the bucket has one of the four    *)
(* reasons, or its event is still under way.                               *)
THEOREM EngineStale == Spec => []EngineStaleOnlyIfExcused
<1>1. IInv => EngineStaleOnlyIfExcused
  <2>1. \A id \in Ids : Repaired(id) => id \in engExcused \/ Announced(id)
    BY DEF Repaired, Announced, DeletionAnnounced
  <2>. QED
    BY <2>1 DEF IInv, EngineInv, EngineStaleOnlyIfExcused
<1>. QED
  BY Invariance, <1>1, PTL

(* What the UI shows of an automation that is not being written is what    *)
(* the bucket holds, unless the UI is excused for it.                      *)
THEOREM UIStale == Spec => []UIStaleOnlyIfExcused
<1>1. IInv => UIStaleOnlyIfExcused
  BY DEF IInv, UIInv, UISync, UIStaleOnlyIfExcused
<1>. QED
  BY Invariance, <1>1, PTL
-----------------------------------------------------------------------------
(* Documents that are not halves of two edits.                             *)

(* A request that arrives writes nothing. *)
LEMMA WholeRequest ==
  ASSUME TypeOK, Filed, WholeInv, NEW h \in Handlers, NEW id \in Ids,
         Request(h, id), UNCHANGED engineVars
  PROVE  WholeInv'
<1>. USE DEF TypeOK, UITypeOK
<1>1. UNCHANGED <<kv, cache, pending, run>>
  BY DEF engineVars, Request, Create, Update, SetEnabled, Delete, Find, Arrive
<1>2. \A g \in Handlers : http[g].stage # "actions"
  BY DEF Request, Create, Update, SetEnabled, Delete, Find, Arrive, UILocked
<1>3. \A o \in Objs : Whole(heap[o])
  BY <1>2 DEF WholeInv, HalfEdited
<1>4. \A g \in Handlers : g # h => http'[g] = http[g]
  BY DEF Request, Create, Update, SetEnabled, Delete, Find
<1>5. \A g \in Handlers : http'[g].stage = "put" => g # h /\ Whole(http[g].doc)
  <2>1. http'[h].stage # "put"
    <3>1. CASE \E body \in Bodies, enabled \in BOOLEAN : Create(h, id, body, enabled)
      BY <3>1 DEF Create
    <3>2. CASE \E body \in Bodies : Update(h, id, body)
      BY <3>2 DEF Update, Find
    <3>3. CASE \E enabled \in BOOLEAN : SetEnabled(h, id, enabled)
      BY <3>3 DEF SetEnabled, Find
    <3>4. CASE Delete(h, id)
      BY <3>4 DEF Delete, Find
    <3>. QED
      BY <3>1, <3>2, <3>3, <3>4 DEF Request
  <2>. QED
    BY <1>4, <2>1 DEF WholeInv
<1>6. CASE \E body \in Bodies, enabled \in BOOLEAN : Create(h, id, body, enabled)
  <2>1. PICK body \in Bodies, enabled \in BOOLEAN : Create(h, id, body, enabled)
    BY <1>6
  <2>. DEFINE new == CHOOSE o \in FreeObjs : TRUE
              doc == [id |-> id, enabled |-> enabled, trigs |-> body, acts |-> body]
  <2>2. heap' = Collected([heap EXCEPT ![new] = doc], automations', http')
    BY <2>1 DEF Create
  <2>3. Whole(doc) /\ Whole(NoDoc)
    BY DEF Whole
  <2>4. \A g \in Handlers : http'[g].stage # "actions"
    BY <1>2, <1>4, <2>1 DEF Create
  <2>. HIDE DEF new, doc
  <2>5. \A o \in Objs : heap'[o] \in {heap[o], doc, NoDoc}
    BY <2>2 DEF Collected
  <2>6. \A o \in Objs : Whole(heap'[o])
    BY <1>3, <2>3, <2>5
  <2>. QED
    BY <1>1, <1>4, <1>5, <2>4, <2>6 DEF WholeInv
<1>7. CASE \E body \in Bodies : Update(h, id, body)
  <2>1. PICK body \in Bodies : Update(h, id, body)
    BY <1>7
  <2>2. /\ automations[id] \in Objs /\ heap[automations[id]] \in Docs
        /\ Shown(id) = heap[automations[id]]
    BY <2>1 DEF Update, Find, Filed, Shown
  <2>3. /\ http'[h].stage = "actions" /\ http'[h].obj = automations[id]
        /\ http'[h].doc = [Shown(id) EXCEPT !.acts = body]
    BY <2>1 DEF Update, Find
  <2>4. http'[h].doc.acts = body
    BY <2>2, <2>3 DEF Docs
  <2>5. heap'[automations[id]].trigs = body
    BY <2>1, <2>2 DEF Update, Docs
  <2>6. \A o \in Objs : o # automations[id] => heap'[o] = heap[o]
    BY <2>1 DEF Update
  <2>7. \A o \in Objs : Whole(heap'[o]) \/ HalfEdited(o)'
    BY <1>3, <2>3, <2>6 DEF HalfEdited
  <2>8. \A g \in Handlers : http'[g].stage = "actions" => g = h
    BY <1>2, <1>4
  <2>. QED
    BY <1>1, <1>4, <1>5, <2>3, <2>4, <2>5, <2>7, <2>8 DEF WholeInv
<1>8. CASE \E enabled \in BOOLEAN : SetEnabled(h, id, enabled)
  <2>1. PICK enabled \in BOOLEAN : SetEnabled(h, id, enabled)
    BY <1>8
  <2>2. automations[id] \in Objs /\ heap[automations[id]] \in Docs
    BY <2>1 DEF SetEnabled, Find, Filed
  <2>3. Whole([heap[automations[id]] EXCEPT !.enabled = enabled])
    BY <1>3, <2>2, StoreAssumption DEF Whole, Docs
  <2>4. \A o \in Objs : Whole(heap'[o])
    BY <1>3, <2>1, <2>2, <2>3 DEF SetEnabled
  <2>5. \A g \in Handlers : http'[g].stage # "actions"
    BY <1>2, <1>4, <2>1 DEF SetEnabled, Find
  <2>. QED
    BY <1>1, <1>4, <1>5, <2>4, <2>5 DEF WholeInv
<1>9. CASE Delete(h, id)
  <2>1. heap' = heap /\ \A g \in Handlers : http'[g].stage # "actions"
    BY <1>2, <1>4, <1>9 DEF Delete, Find
  <2>. QED
    BY <1>1, <1>3, <1>4, <1>5, <2>1 DEF WholeInv
<1>. QED
  BY <1>6, <1>7, <1>8, <1>9 DEF Request

(* A step of a request.  Marshal reads the object without s.mu: only a     *)
(* second request on the same automation could be between its two halves.  *)
LEMMA WholeHandler ==
  ASSUME TypeOK, Filed, WholeInv, OneWriter, NEW h \in Handlers, HandlerStep(h),
         UNCHANGED engineVars
  PROVE  WholeInv'
<1>1. Active(h)
  BY DEF HandlerStep, UpdateActions, Marshal, PutDoc, RemoveDoc, PublishEvent, Active
<1>2. http[h] \in Requests /\ http[h].id \in Ids /\ http[h].obj \in Objs /\ http[h].doc \in Docs
  BY <1>1, RequestFields
<1>. USE DEF TypeOK, UITypeOK
<1>3. UNCHANGED <<cache, pending, run>>
  BY DEF engineVars
<1>4. \A g \in Handlers : g # h => http'[g] = http[g]
  BY DEF HandlerStep, UpdateActions, Marshal, PutDoc, RemoveDoc, PublishEvent, WriteKV
<1>5. http'[h].stage # "actions"
  BY <1>2 DEF HandlerStep, UpdateActions, Marshal, PutDoc, RemoveDoc, PublishEvent, WriteKV,
              Requests, Blank
<1>6. CASE UpdateActions(h)
  <2>1. /\ heap[http[h].obj] \in Docs
        /\ heap[http[h].obj].trigs = http[h].doc.acts
        /\ \A g \in Handlers : http[g].stage = "actions" => g = h
    BY <1>1, <1>2, <1>6 DEF Filed, WholeInv, UpdateActions
  <2>2. Whole([heap[http[h].obj] EXCEPT !.acts = http[h].doc.acts])
    BY <2>1 DEF Whole, Docs
  <2>3. \A o \in Objs : o # http[h].obj => heap'[o] = heap[o] /\ Whole(heap[o])
    BY <1>6, <2>1 DEF UpdateActions, WholeInv, HalfEdited
  <2>4. \A o \in Objs : Whole(heap'[o])
    BY <1>2, <1>6, <2>2, <2>3 DEF UpdateActions
  <2>5. \A g \in Handlers : http'[g].stage # "actions"
    BY <1>4, <1>5, <2>1
  <2>6. http'[h].stage # "put"
    BY <1>2, <1>6 DEF UpdateActions, Requests
  <2>7. kv' = kv
    BY <1>6 DEF UpdateActions, storeVars
  <2>. QED
    BY <1>3, <1>4, <2>4, <2>5, <2>6, <2>7 DEF WholeInv
<1>7. ASSUME heap' = heap, http[h].stage # "actions",
             http'[h].stage = "put" => Whole(http'[h].doc),
             \A id \in Ids : Whole(kv'[id])
      PROVE  WholeInv'
  <2>1. \A g \in Handlers : http'[g].stage = "actions" <=> http[g].stage = "actions"
    BY <1>4, <1>5, <1>7
  <2>2. \A g \in Handlers : http'[g].stage = "actions" => http'[g] = http[g]
    BY <1>4, <1>5
  <2>3. \A o \in Objs : HalfEdited(o) => HalfEdited(o)'
    BY <2>1, <2>2 DEF HalfEdited
  <2>. QED
    BY <1>3, <1>4, <1>7, <2>1, <2>2, <2>3 DEF WholeInv
<1>8. CASE Marshal(h)
  <2>1. ~HalfEdited(http[h].obj)
    <3>1. SUFFICES ASSUME NEW g \in Handlers, http[g].stage = "actions", http[g].obj = http[h].obj
                   PROVE  FALSE
      BY DEF HalfEdited
    <3>2. http[g].id = http[h].id
      BY <1>1, <3>1 DEF Filed, Active
    <3>3. Writing(g, http[h].id) /\ Writing(h, http[h].id)
      BY <1>8, <3>1, <3>2 DEF Writing, Marshal
    <3>. QED
      BY <1>2, <1>8, <3>1, <3>3 DEF OneWriter, Marshal
  <2>2. Whole(heap[http[h].obj])
    BY <1>2, <2>1 DEF WholeInv
  <2>3. http'[h].doc = heap[http[h].obj] /\ heap' = heap /\ kv' = kv
    BY <1>2, <1>8 DEF Marshal, storeVars, Requests
  <2>. QED
    BY <1>7, <1>8, <2>2, <2>3 DEF Marshal, WholeInv
<1>9. ASSUME NEW doc, WriteKV(h, doc), Whole(doc), http[h].stage # "actions"
      PROVE  WholeInv'
  <2>1. heap' = heap /\ http'[h].stage = "publish"
    BY <1>2, <1>9 DEF WriteKV, Requests
  <2>2. \A id \in Ids : kv'[id] = kv[id] \/ kv'[id] = doc
    BY <1>9 DEF WriteKV, StoreTypeOK
  <2>3. \A id \in Ids : Whole(kv'[id])
    BY <1>9, <2>2 DEF WholeInv
  <2>. QED
    BY <1>7, <1>9, <2>1, <2>3
<1>10. CASE PutDoc(h)
  BY <1>9, <1>10 DEF PutDoc, WholeInv
<1>11. CASE RemoveDoc(h)
  BY <1>9, <1>11 DEF RemoveDoc, Whole
<1>12. CASE PublishEvent(h)
  <2>1. \A o \in Objs : heap'[o] \in {heap[o], NoDoc}
    BY <1>12 DEF PublishEvent, Collected
  <2>2. http'[h] = Blank /\ kv' = kv /\ http[h].stage = "publish"
    BY <1>12 DEF PublishEvent
  <2>3. \A g \in Handlers : http'[g].stage = "actions" => g # h /\ http[g].stage = "actions" /\ http'[g] = http[g]
    BY <1>4, <1>5
  <2>4. \A g \in Handlers : http[g].stage = "actions" => http'[g] = http[g]
    BY <1>4, <2>2
  <2>5. \A o \in Objs : HalfEdited(o) => HalfEdited(o)'
    BY <2>4 DEF HalfEdited
  <2>6. \A o \in Objs : Whole(heap'[o]) \/ HalfEdited(o)'
    BY <2>1, <2>5 DEF WholeInv, Whole
  <2>7. ASSUME NEW g \in Handlers, http'[g].stage = "actions"
        PROVE  heap'[http'[g].obj].trigs = http'[g].doc.acts
    <3>1. http[g].stage = "actions" /\ http'[g] = http[g] /\ Active(g)
      BY <2>3, <2>7 DEF Active
    <3>2. http[g].obj \in Objs
      BY <3>1, RequestFields
    <3>3. heap'[http[g].obj] = heap[http[g].obj]
      BY <1>12, <2>7, <3>1, <3>2 DEF PublishEvent, Collected
    <3>. QED
      BY <3>1, <3>3 DEF WholeInv
  <2>8. http'[h].stage # "put"
    BY <2>2 DEF Blank
  <2>. QED
    BY <1>3, <1>4, <2>2, <2>3, <2>6, <2>7, <2>8 DEF WholeInv
<1>. QED
  BY <1>6, <1>8, <1>10, <1>11, <1>12 DEF HandlerStep

(* The UI's restart tears nothing that is stored. *)
LEMMA WholeRestart ==
  ASSUME TypeOK, WholeInv, UIInv, UICrash \/ (\E id \in Ids : UILoadKey(id)) \/ UIServe,
         UNCHANGED engineVars
  PROVE  WholeInv'
<1>. USE DEF TypeOK, UITypeOK
<1>1. UNCHANGED <<kv, cache, pending, run>>
  BY DEF engineVars, UICrash, UILoadKey, UIServe, storeVars
<1>2. CASE UICrash
  <2>1. \A g \in Handlers : http'[g].stage = "idle"
    BY <1>2 DEF UICrash, Blank
  <2>2. \A o \in Objs : Whole(heap'[o])
    BY <1>2 DEF UICrash, Whole
  <2>. QED
    BY <1>1, <2>1, <2>2 DEF WholeInv
<1>3. CASE UIServe
  <2>1. UNCHANGED <<heap, http>>
    BY <1>3 DEF UIServe
  <2>. QED
    BY <1>1, <2>1 DEF WholeInv, HalfEdited
<1>4. ASSUME NEW id \in Ids, UILoadKey(id)
      PROVE  WholeInv'
  <2>1. http' = http /\ \A g \in Handlers : http[g].stage = "idle"
    BY <1>4 DEF UILoadKey, UIInv, Active
  <2>2. \A o \in Objs : heap'[o] = heap[o] \/ heap'[o] = kv[id]
    BY <1>4 DEF UILoadKey
  <2>3. \A o \in Objs : Whole(heap'[o])
    BY <2>1, <2>2 DEF WholeInv, HalfEdited
  <2>. QED
    BY <1>1, <2>1, <2>3 DEF WholeInv
<1>. QED
  BY <1>2, <1>3, <1>4

(* The engine tears nothing that is stored. *)
LEMMA WholeEngine ==
  ASSUME TypeOK, WholeInv, EngineNext, UNCHANGED uiVars
  PROVE  WholeInv'
<1>1. UNCHANGED <<heap, http>>
  BY DEF uiVars
<1>2. \A o \in Objs : HalfEdited(o)' <=> HalfEdited(o)
  BY <1>1 DEF HalfEdited
<1>3. SUFFICES /\ \A id \in Ids : Whole(kv'[id]) /\ Whole(cache'[id])
               /\ Whole(pending')
               /\ \A r \in Runs : run'[r] # NoRun => Whole(run'[r].doc)
  BY <1>1, <1>2 DEF WholeInv
<1>4. \A doc : Whole(doc) => Whole(Cacheable(doc))
  BY DEF Whole, Cacheable
<1>. USE DEF TypeOK, StoreTypeOK, EngineTypeOK
<1>5. \A id \in Ids : Whole(kv'[id])
  <2>1. ASSUME NEW r \in Runs, Record(r)
        PROVE  \A id \in Ids : Whole(kv'[id])
    <3>1. Whole(run[r].doc)
      BY <2>1 DEF Record, WholeInv, NoRun
    <3>2. \A id \in Ids : kv'[id] = kv[id] \/ kv'[id] = run[r].doc
      BY <2>1 DEF Record
    <3>. QED
      BY <3>1, <3>2 DEF WholeInv
  <2>2. CASE kv' = kv
    BY <2>2 DEF WholeInv
  <2>. QED
    BY <2>1, <2>2 DEF EngineNext, LoaderStep, EventStep, RunStep, ListKeys, ClearCache, FillKey,
       Subscribe, FetchEvent, ApplyFetched, RemoveOnEvent, StartRun, NotMet, Act, EngineCrash, storeVars
<1>6. \A id \in Ids : Whole(cache'[id])
  <2>1. \A id \in Ids : cache'[id] \in {cache[id], NoDoc, Cacheable(kv[id]), Cacheable(pending)}
    BY DEF EngineNext, LoaderStep, EventStep, RunStep, ListKeys, ClearCache, FillKey, Subscribe,
       FetchEvent, ApplyFetched, RemoveOnEvent, StartRun, NotMet, Act, Record, EngineCrash
  <2>2. Whole(NoDoc)
    BY DEF Whole
  <2>. QED
    BY <1>4, <2>1, <2>2 DEF WholeInv
<1>7. Whole(pending')
  <2>1. CASE FetchEvent
    <3>1. Head(events) \in Events
      BY <2>1 DEF FetchEvent
    <3>2. Head(events).id \in Ids
      BY <3>1 DEF Events
    <3>. QED
      BY <2>1, <3>2 DEF FetchEvent, WholeInv
  <2>2. CASE pending' \in {pending, NoDoc}
    BY <2>2 DEF WholeInv, Whole
  <2>. QED
    BY <2>1, <2>2 DEF EngineNext, LoaderStep, EventStep, RunStep, ListKeys, ClearCache, FillKey,
       Subscribe, ApplyFetched, RemoveOnEvent, StartRun, NotMet, Act, Record, EngineCrash
<1>8. ASSUME NEW r \in Runs, run'[r] # NoRun
      PROVE  Whole(run'[r].doc)
  <2>1. CASE run'[r] = run[r]
    BY <1>8, <2>1 DEF WholeInv
  <2>2. ASSUME NEW q \in Runs, NEW id \in Ids, StartRun(q, id)
        PROVE  Whole(run'[r].doc)
    BY <1>8, <2>2 DEF StartRun, WholeInv
  <2>3. ASSUME NEW q \in Runs, RunStep(q)
        PROVE  Whole(run'[r].doc)
    <3>1. run[q] \in [stage : {"act", "record"}, doc : Docs] /\ Whole(run[q].doc)
      BY <2>3 DEF RunStep, NotMet, Act, Record, NoRun, WholeInv
    <3>2. q # r => run'[r] = run[r]
      BY <2>3 DEF RunStep, NotMet, Act, Record
    <3>3. q = r => Act(q)
      BY <1>8, <2>3 DEF RunStep, NotMet, Record
    <3>4. q = r => run'[r].doc = run[q].doc
      BY <3>1, <3>3 DEF Act
    <3>. QED
      BY <2>1, <3>1, <3>2, <3>4
  <2>4. CASE EngineCrash
    BY <1>8, <2>4 DEF EngineCrash
  <2>. QED
    BY <2>1, <2>2, <2>3, <2>4 DEF EngineNext, LoaderStep, EventStep, ListKeys, ClearCache, FillKey,
       Subscribe, FetchEvent, ApplyFetched, RemoveOnEvent
<1>. QED
  BY <1>5, <1>6, <1>7, <1>8

(* With one writer at a time, every step keeps what is stored whole. *)
LEMMA WholeStep == IInv /\ OneWriter /\ WholeInv /\ [Next]_vars => WholeInv'
<1>. SUFFICES ASSUME IInv, OneWriter, WholeInv, [Next]_vars PROVE WholeInv'
  OBVIOUS
<1>1. TypeOK /\ Filed /\ UIInv
  BY DEF IInv
<1>2. CASE UINext /\ UNCHANGED engineVars
  BY <1>1, <1>2, WholeRequest, WholeHandler, WholeRestart DEF UINext
<1>3. CASE EngineNext /\ UNCHANGED uiVars
  BY <1>1, <1>3, WholeEngine
<1>4. CASE UNCHANGED vars
  <2>1. UNCHANGED <<kv, heap, http, cache, pending, run>>
    BY <1>4 DEF vars, storeVars, uiVars, engineVars
  <2>. QED
    BY <2>1 DEF WholeInv, HalfEdited
<1>. QED
  BY <1>2, <1>3, <1>4 DEF Next

(* As long as no two requests on one automation overlap, the bucket never  *)
(* holds the triggers of one edit with the actions of another: what crash, *)
(* lost call, reload and recorded run leave there is always one edit.      *)
THEOREM NeverTorn == Spec /\ []OneWriter => []StoredUntorn
<1>1. Init => WholeInv
  BY DEF Init, StoreInit, UIInit, EngineInit, WholeInv, Whole, Blank
<1>2. WholeInv => StoredUntorn
  BY DEF WholeInv, Whole, StoredUntorn
<1>. QED
  BY Invariance, WholeStep, <1>1, <1>2, PTL DEF Spec
-----------------------------------------------------------------------------
(* The requests implement AutomationService.  What the mapping needs and   *)
(* the invariant does not say is that s.mu has one holder, whose edit is   *)
(* half done.                                                              *)

EditInv == \A h \in Handlers : http[h].stage = "actions" =>
  /\ heap[http[h].obj].trigs = http[h].doc.acts
  /\ \A g \in Handlers : http[g].stage = "actions" => g = h

(* A request that arrives finds s.mu free and may hold it alone. *)
LEMMA EditRequest ==
  ASSUME TypeOK, Filed, NEW h \in Handlers, NEW id \in Ids, Request(h, id)
  PROVE  EditInv'
<1>. USE DEF TypeOK, UITypeOK
<1>1. \A g \in Handlers : http[g].stage # "actions" /\ (g # h => http'[g] = http[g])
  BY DEF Request, Create, Update, SetEnabled, Delete, Find, Arrive, UILocked
<1>2. CASE \E body \in Bodies : Update(h, id, body)
  <2>1. PICK body \in Bodies : Update(h, id, body)
    BY <1>2
  <2>2. /\ automations[id] \in Objs /\ heap[automations[id]] \in Docs
        /\ Shown(id) = heap[automations[id]]
    BY <2>1 DEF Update, Find, Filed, Shown
  <2>3. http'[h].obj = automations[id] /\ http'[h].doc = [Shown(id) EXCEPT !.acts = body]
    BY <2>1 DEF Update, Find
  <2>4. http'[h].doc.acts = body /\ heap'[automations[id]].trigs = body
    BY <2>1, <2>2, <2>3 DEF Update, Docs
  <2>. QED
    BY <1>1, <2>3, <2>4 DEF EditInv
<1>3. CASE http'[h].stage # "actions"
  BY <1>1, <1>3 DEF EditInv
<1>4. CASE \E body \in Bodies, enabled \in BOOLEAN : Create(h, id, body, enabled)
  BY <1>3, <1>4 DEF Create
<1>5. CASE \E enabled \in BOOLEAN : SetEnabled(h, id, enabled)
  BY <1>3, <1>5 DEF SetEnabled, Find
<1>6. CASE Delete(h, id)
  BY <1>3, <1>6 DEF Delete, Find
<1>. QED
  BY <1>2, <1>4, <1>5, <1>6 DEF Request

(* Nobody holds s.mu at the start. *)
LEMMA EditInit == Init => EditInv
BY DEF Init, UIInit, Blank, EditInv

(* Every step keeps s.mu with one holder. *)
LEMMA EditStep == TypeOK /\ Filed /\ EditInv /\ [Next]_vars => EditInv'
<1>. SUFFICES ASSUME TypeOK, Filed, EditInv, [Next]_vars PROVE EditInv'
  OBVIOUS
<1>. USE DEF TypeOK, UITypeOK
<1>1. ASSUME NEW g \in Handlers, http[g].stage = "actions"
      PROVE  http[g].obj \in Objs /\ heap[http[g].obj] # NoDoc /\ Active(g)
  BY <1>1, RequestFields DEF Filed, Active
<1>2. ASSUME NEW h \in Handlers, HandlerStep(h)
      PROVE  EditInv'
  <2>1. \A g \in Handlers : g # h => http'[g] = http[g]
    BY <1>2 DEF HandlerStep, UpdateActions, Marshal, PutDoc, RemoveDoc, PublishEvent, WriteKV
  <2>2. http'[h].stage # "actions"
    BY <1>2 DEF HandlerStep, UpdateActions, Marshal, PutDoc, RemoveDoc, PublishEvent, WriteKV,
                Requests, Blank
  <2>3. CASE UpdateActions(h)
    BY <2>1, <2>2, <2>3 DEF EditInv, UpdateActions
  <2>4. CASE PublishEvent(h)
    <3>1. ASSUME NEW g \in Handlers, http'[g].stage = "actions"
          PROVE  heap'[http'[g].obj] = heap[http[g].obj]
      <4>1. g # h /\ http'[g] = http[g] /\ http[g].stage = "actions" /\ http[g].obj \in Objs
        BY <1>1, <2>1, <2>2, <3>1
      <4>. QED
        BY <2>4, <3>1, <4>1 DEF PublishEvent, Collected
    <3>. QED
      BY <2>1, <2>2, <3>1 DEF EditInv
  <2>5. CASE heap' = heap
    BY <2>1, <2>2, <2>5 DEF EditInv
  <2>. QED
    BY <1>2, <2>3, <2>4, <2>5 DEF HandlerStep, Marshal, PutDoc, RemoveDoc, WriteKV
<1>3. CASE UICrash
  BY <1>3 DEF UICrash, Blank, EditInv
<1>4. ASSUME NEW id \in Ids, UILoadKey(id)
      PROVE  EditInv'
  <2>1. http' = http /\ \A o \in Objs : heap[o] # NoDoc => heap'[o] = heap[o]
    BY <1>4 DEF UILoadKey, FreeObjs
  <2>. QED
    BY <1>1, <2>1 DEF EditInv
<1>5. CASE UNCHANGED <<http, heap>>
  BY <1>5 DEF EditInv
<1>. QED
  BY <1>2, <1>3, <1>4, <1>5, EditRequest DEF Next, UINext, UIServe, vars, uiVars

-----------------------------------------------------------------------------
(* Edits that overlap.                                                     *)

(* While no other request overlapped it, what a request will marshal or    *)
(* put is whole, or the bucket had the mixture already.                    *)
MixInv == \A h \in Handlers : Active(h) /\ http[h].id \notin uiExcused =>
  /\ http[h].stage = "marshal" => Whole(heap[http[h].obj]) \/ ~Whole(kv[http[h].id])
  /\ http[h].stage = "put" => Whole(http[h].doc) \/ ~Whole(kv[http[h].id])

(* A request that arrives alone finds what the bucket has. *)
LEMMA MixRequest ==
  ASSUME TypeOK, Filed, UIInv, MixInv, NEW h \in Handlers, NEW id \in Ids, Request(h, id)
  PROVE  MixInv'
<1>. USE DEF TypeOK, UITypeOK
<1>1. /\ ~Active(h) /\ kv' = kv /\ uiLoading = {}
      /\ uiExcused' = IF BeingWritten(id) THEN uiExcused \cup {id} ELSE uiExcused
      /\ \A g \in Handlers : g # h => http'[g] = http[g]
      /\ http'[h].id = id /\ http'[h].stage \in {"actions", "marshal", "remove"}
  <2>1. Arrive(h, id)
    BY DEF Request, Create, Update, SetEnabled, Delete, Find
  <2>2. \A g \in Handlers : g # h => http'[g] = http[g]
    BY DEF Request, Create, Update, SetEnabled, Delete, Find
  <2>3. http'[h].id = id /\ http'[h].stage \in {"actions", "marshal", "remove"}
    <3>1. CASE \E body \in Bodies, enabled \in BOOLEAN : Create(h, id, body, enabled)
      BY <3>1 DEF Create
    <3>2. CASE \E body \in Bodies : Update(h, id, body)
      BY <3>2 DEF Update, Find
    <3>3. CASE \E enabled \in BOOLEAN : SetEnabled(h, id, enabled)
      BY <3>3 DEF SetEnabled, Find
    <3>4. CASE Delete(h, id)
      BY <3>4 DEF Delete, Find
    <3>. QED
      BY <3>1, <3>2, <3>3, <3>4 DEF Request
  <2>. QED
    BY <2>1, <2>2, <2>3 DEF Arrive, UIInv
<1>2. SUFFICES ASSUME NEW g \in Handlers, Active(g)', http'[g].id \notin uiExcused'
               PROVE  /\ http'[g].stage = "marshal" =>
                           Whole(heap'[http'[g].obj]) \/ ~Whole(kv'[http'[g].id])
                      /\ http'[g].stage = "put" => Whole(http'[g].doc) \/ ~Whole(kv'[http'[g].id])
  BY DEF MixInv, Whole
<1>3. CASE g = h
  <2>1. ~BeingWritten(id) /\ id \notin uiExcused
    BY <1>1, <1>2, <1>3
  <2>2. ASSUME NEW body \in Bodies, NEW enabled \in BOOLEAN, Create(h, id, body, enabled)
        PROVE  Whole(heap'[http'[h].obj])
    <3>. DEFINE new == CHOOSE o \in FreeObjs : TRUE
                doc == [id |-> id, enabled |-> enabled, trigs |-> body, acts |-> body]
    <3>1. /\ new \in Objs /\ http'[h].obj = new /\ http'[h].stage = "marshal"
          /\ heap' = Collected([heap EXCEPT ![new] = doc], automations', http')
      BY <2>2 DEF Create, FreeObjs
    <3>2. Whole(doc) /\ Whole(NoDoc)
      BY DEF Whole
    <3>. HIDE DEF new, doc
    <3>3. heap'[new] = doc \/ heap'[new] = NoDoc
      BY <3>1 DEF Collected
    <3>. QED
      BY <3>1, <3>2, <3>3
  <2>3. ASSUME NEW enabled \in BOOLEAN, SetEnabled(h, id, enabled)
        PROVE  Whole(heap'[http'[h].obj]) \/ ~Whole(kv[id])
    <3>1. /\ http'[h].obj = automations[id] /\ automations[id] \in Objs
          /\ heap[automations[id]] \in Docs
          /\ heap'[automations[id]] = [heap[automations[id]] EXCEPT !.enabled = enabled]
      BY <2>3 DEF SetEnabled, Find, Filed
    <3>2. heap[automations[id]] = kv[id]
      BY <1>1, <2>1, <3>1, UIAssumption DEF UIInv, UISync, Shown
    <3>3. /\ heap'[automations[id]].trigs = kv[id].trigs
          /\ heap'[automations[id]].acts = kv[id].acts
      BY <3>1, <3>2 DEF Docs
    <3>. QED
      BY <3>1, <3>2, <3>3, StoreAssumption DEF Whole
  <2>4. CASE http'[h].stage # "marshal"
    BY <1>1, <1>3, <2>4
  <2>5. CASE \E body \in Bodies : Update(h, id, body)
    BY <2>4, <2>5 DEF Update, Find
  <2>6. CASE Delete(h, id)
    BY <2>4, <2>6 DEF Delete, Find
  <2>. QED
    BY <1>1, <1>3, <2>2, <2>3, <2>5, <2>6 DEF Request
<1>4. CASE g # h
  <2>1. http'[g] = http[g] /\ Active(g) /\ http[g].id \notin uiExcused
    BY <1>1, <1>2, <1>4 DEF Active
  <2>2. http[g].obj \in Objs /\ heap[http[g].obj].id = http[g].id
    BY <2>1, RequestFields DEF Filed
  <2>3. ASSUME http[g].stage = "marshal"
        PROVE  heap'[http[g].obj] = heap[http[g].obj]
    <3>1. http[g].id # id
      BY <1>1, <1>2, <2>1, <2>3 DEF BeingWritten, Writing
    <3>2. ASSUME NEW body \in Bodies, NEW enabled \in BOOLEAN, Create(h, id, body, enabled)
          PROVE  heap'[http[g].obj] = heap[http[g].obj]
      <4>. DEFINE new == CHOOSE o \in FreeObjs : TRUE
                  doc == [id |-> id, enabled |-> enabled, trigs |-> body, acts |-> body]
      <4>1. new \in FreeObjs /\ heap' = Collected([heap EXCEPT ![new] = doc], automations', http')
        BY <3>2 DEF Create
      <4>2. http[g].obj # new
        BY <2>1, <4>1, FreeNotUsed
      <4>. HIDE DEF new, doc
      <4>. QED
        BY <1>2, <2>1, <2>2, <4>1, <4>2 DEF Collected, Active
    <3>3. ASSUME ~(\E body \in Bodies, enabled \in BOOLEAN : Create(h, id, body, enabled))
          PROVE  heap'[http[g].obj] = heap[http[g].obj]
      <4>1. automations[id] \in Objs /\ heap[automations[id]].id = id
        BY <3>3 DEF Request, Update, SetEnabled, Delete, Find, Filed
      <4>2. http[g].obj # automations[id]
        BY <2>2, <3>1, <4>1
      <4>. QED
        BY <2>2, <3>3, <4>1, <4>2 DEF Request, Update, SetEnabled, Delete
    <3>. QED
      BY <3>2, <3>3
  <2>. QED
    BY <1>1, <2>1, <2>3 DEF MixInv
<1>. QED
  BY <1>3, <1>4

(* A request under way finishes its edit whole and writes what it read. *)
LEMMA MixHandler ==
  ASSUME TypeOK, Filed, UIInv, EditInv, MixInv, NEW h \in Handlers, HandlerStep(h)
  PROVE  MixInv'
<1>. USE DEF TypeOK, UITypeOK, StoreTypeOK
<1>1. Active(h) /\ uiExcused \subseteq uiExcused' /\ \A g \in Handlers : g # h => http'[g] = http[g]
  BY DEF HandlerStep, UpdateActions, Marshal, PutDoc, RemoveDoc, PublishEvent, WriteKV,
         Active, storeVars
<1>2. /\ http[h] \in Requests /\ http[h].id \in Ids /\ http[h].obj \in Objs
      /\ heap[http[h].obj] \in Docs
  BY <1>1, RequestFields DEF Filed
<1>3. SUFFICES ASSUME NEW g \in Handlers, Active(g)', http'[g].id \notin uiExcused'
               PROVE  /\ http'[g].stage = "marshal" =>
                           Whole(heap'[http'[g].obj]) \/ ~Whole(kv'[http'[g].id])
                      /\ http'[g].stage = "put" => Whole(http'[g].doc) \/ ~Whole(kv'[http'[g].id])
  BY DEF MixInv, Whole
<1>4. g # h => /\ http'[g] = http[g] /\ Active(g) /\ http[g].id \notin uiExcused
               /\ http[g].obj \in Objs
  BY <1>1, <1>3, RequestFields DEF Active
<1>5. CASE UpdateActions(h)
  <2>1. /\ kv' = kv /\ http'[h] = [http[h] EXCEPT !.stage = "marshal"]
        /\ heap' = [heap EXCEPT ![http[h].obj].acts = http[h].doc.acts]
        /\ heap[http[h].obj].trigs = http[h].doc.acts
    BY <1>5 DEF UpdateActions, storeVars, EditInv
  <2>2. Whole(heap'[http[h].obj])
    BY <1>2, <2>1 DEF Docs, Whole
  <2>3. http'[h].obj = http[h].obj /\ http'[h].stage = "marshal"
    BY <1>2, <2>1 DEF Requests
  <2>4. \A o \in Objs : o # http[h].obj => heap'[o] = heap[o]
    BY <2>1
  <2>. QED
    BY <1>4, <2>1, <2>2, <2>3, <2>4 DEF MixInv
<1>6. CASE Marshal(h)
  <2>1. /\ kv' = kv /\ heap' = heap /\ uiExcused' = uiExcused
        /\ http'[h] = [http[h] EXCEPT !.stage = "put", !.doc = heap[http[h].obj]]
        /\ http[h].stage = "marshal"
    BY <1>6 DEF Marshal, storeVars
  <2>2. http'[h].stage = "put" /\ http'[h].doc = heap[http[h].obj] /\ http'[h].id = http[h].id
    BY <1>2, <2>1 DEF Requests
  <2>. QED
    BY <1>1, <1>3, <1>4, <2>1, <2>2 DEF MixInv
<1>7. ASSUME NEW doc \in Docs \cup {NoDoc}, WriteKV(h, doc), http[h].stage \in {"put", "remove"}
      PROVE  /\ http'[g].stage = "marshal" =>
                  Whole(heap'[http'[g].obj]) \/ ~Whole(kv'[http'[g].id])
             /\ http'[g].stage = "put" => Whole(http'[g].doc) \/ ~Whole(kv'[http'[g].id])
  <2>1. heap' = heap /\ http'[h] = [http[h] EXCEPT !.stage = "publish"]
    BY <1>7 DEF WriteKV
  <2>2. http'[h].stage = "publish"
    BY <1>2, <2>1 DEF Requests
  <2>3. \A i \in Ids : i # http[h].id => kv'[i] = kv[i]
    BY <1>2, <1>7 DEF WriteKV
  <2>4. ASSUME g # h, http[g].stage \in {"marshal", "put"}
        PROVE  http[g].id \in Ids /\ http[g].id # http[h].id
    <3>1. http[g].id \in Ids /\ http[g].id \notin uiExcused
      BY <1>4, <2>4, RequestFields
    <3>2. Writing(g, http[g].id) /\ (http[h].id = http[g].id => Writing(h, http[g].id))
      BY <1>7, <2>4 DEF Writing
    <3>. QED
      BY <2>4, <3>1, <3>2 DEF UIInv, UISync
  <2>. QED
    BY <1>4, <2>1, <2>2, <2>3, <2>4 DEF MixInv
<1>8. CASE PutDoc(h) \/ RemoveDoc(h)
  BY <1>2, <1>7, <1>8 DEF PutDoc, RemoveDoc, Requests
<1>9. CASE PublishEvent(h)
  <2>1. kv' = kv /\ http'[h] = Blank /\ heap' = Collected(heap, automations, http')
    BY <1>9 DEF PublishEvent
  <2>2. http'[h].stage = "idle"
    BY <2>1 DEF Blank
  <2>3. g # h => heap'[http[g].obj] = heap[http[g].obj]
    BY <1>3, <1>4, <2>1 DEF Collected, Active
  <2>. QED
    BY <1>4, <2>1, <2>2, <2>3 DEF MixInv
<1>. QED
  BY <1>5, <1>6, <1>8, <1>9 DEF HandlerStep

(* Every step keeps what requests without overlap will write whole. *)
LEMMA MixStep == IInv /\ EditInv /\ MixInv /\ [Next]_vars => MixInv'
<1>. SUFFICES ASSUME IInv, EditInv, MixInv, [Next]_vars PROVE MixInv'
  OBVIOUS
<1>. USE DEF IInv, TypeOK, UITypeOK, StoreTypeOK
<1>1. CASE UICrash
  BY <1>1 DEF UICrash, Blank, Active, MixInv
<1>2. ASSUME NEW id \in Ids, UILoadKey(id)
      PROVE  MixInv'
  <2>1. \A h \in Handlers : ~Active(h)
    BY <1>2 DEF UILoadKey, UIInv
  <2>. QED
    BY <1>2, <2>1 DEF UILoadKey, MixInv, Active
<1>3. ASSUME NEW r \in Runs, Record(r), UNCHANGED uiVars
      PROVE  MixInv'
  <2>1. run[r].doc.id \in Ids
    BY <1>3 DEF Record, EngineTypeOK, NoRun, Docs
  <2>2. /\ http' = http /\ heap' = heap /\ uiExcused \subseteq uiExcused'
        /\ \A i \in Ids \ uiExcused' : kv'[i] = kv[i]
    BY <1>3, <2>1 DEF Record, uiVars
  <2>3. ASSUME NEW h \in Handlers, Active(h), http[h].id \notin uiExcused'
        PROVE  http[h].id \notin uiExcused /\ kv'[http[h].id] = kv[http[h].id]
    BY <2>2, <2>3, RequestFields
  <2>. QED
    BY <2>2, <2>3 DEF MixInv, Active
<1>4. CASE UNCHANGED <<kv, http, heap, uiExcused>>
  BY <1>4 DEF MixInv, Active
<1>5. CASE EngineNext /\ UNCHANGED uiVars
  BY <1>3, <1>4, <1>5 DEF uiVars, EngineNext, LoaderStep, EventStep, RunStep, ListKeys, ClearCache,
     FillKey, Subscribe, FetchEvent, ApplyFetched, RemoveOnEvent, StartRun, NotMet, Act,
     EngineCrash, storeVars
<1>. QED
  BY <1>1, <1>2, <1>4, <1>5, MixRequest, MixHandler
  DEF Next, UINext, UIServe, vars, uiVars, storeVars

(* The bucket gets a mixture only from requests that overlapped or a run. *)
LEMMA BucketStep ==
  ASSUME IInv, MixInv, [Next]_vars, NEW id \in Ids, Whole(kv[id]), id \notin uiExcused'
  PROVE  Whole(kv'[id])
<1>. USE DEF IInv, TypeOK, UITypeOK, StoreTypeOK
<1>1. CASE kv'[id] = kv[id]
  BY <1>1
<1>2. CASE kv' = kv
  BY <1>2
<1>3. ASSUME NEW h \in Handlers, NEW doc \in Docs \cup {NoDoc}, WriteKV(h, doc),
             \/ http[h].stage = "put" /\ doc = http[h].doc
             \/ doc = NoDoc
      PROVE  Whole(kv'[id])
  <2>1. CASE http[h].id = id /\ kv' = [kv EXCEPT ![http[h].id] = doc] /\ doc # NoDoc
    <3>1. Active(h) /\ id \notin uiExcused
      BY <1>3, <2>1 DEF Active, WriteKV, Fault
    <3>. QED
      BY <1>3, <2>1, <3>1 DEF MixInv
  <2>2. CASE doc = NoDoc /\ kv' = [kv EXCEPT ![http[h].id] = doc]
    BY <2>2 DEF Whole
  <2>3. CASE http[h].id # id \/ kv' = kv
    BY <1>1, <1>3, <2>3 DEF WriteKV
  <2>. QED
    BY <1>3, <2>1, <2>2, <2>3 DEF WriteKV
<1>4. ASSUME NEW h \in Handlers, HandlerStep(h)
      PROVE  Whole(kv'[id])
  <2>1. Active(h) => http[h].doc \in Docs
    BY RequestFields
  <2>2. CASE PutDoc(h)
    BY <1>3, <2>1, <2>2 DEF PutDoc, Active
  <2>3. CASE RemoveDoc(h)
    BY <1>3, <2>3 DEF RemoveDoc
  <2>. QED
    BY <1>2, <1>4, <2>2, <2>3 DEF HandlerStep, UpdateActions, Marshal, PublishEvent, storeVars
<1>5. ASSUME NEW r \in Runs, Record(r)
      PROVE  kv'[id] = kv[id]
  BY <1>5 DEF Record
<1>6. CASE EngineNext
  BY <1>1, <1>2, <1>5, <1>6 DEF EngineNext, LoaderStep, EventStep, RunStep, ListKeys, ClearCache,
     FillKey, Subscribe, FetchEvent, ApplyFetched, RemoveOnEvent, StartRun, NotMet, Act,
     EngineCrash, storeVars
<1>7. ASSUME NEW h \in Handlers, NEW i \in Ids, Request(h, i)
      PROVE  kv' = kv
  BY <1>7 DEF Request, Create, Update, SetEnabled, Delete, Find, Arrive
<1>. QED
  BY <1>2, <1>4, <1>6, <1>7
  DEF Next, UINext, UICrash, UILoadKey, UIServe, vars, storeVars

(* The object in the map ends an edit whole, whoever edits it too. *)
LEMMA MapStep ==
  ASSUME IInv, EditInv, [Next]_vars, NEW id \in Ids, KeptTorn(id)', ~KeptTorn(id)
  PROVE  id \in uiLoading
<1>. USE DEF IInv, TypeOK, UITypeOK
<1>1. automations'[id] # NoObj /\ ~Whole(heap'[automations'[id]])
      /\ \A h \in Handlers : ~(http'[h].stage = "actions" /\ http'[h].obj = automations'[id])
  BY DEF KeptTorn, Shown, HalfEdited
<1>2. SUFFICES ASSUME automations[id] # NoObj => Whole(heap[automations[id]])
                        \/ HalfEdited(automations[id])
               PROVE  id \in uiLoading
  BY DEF KeptTorn, Shown
<1>3. ASSUME automations'[id] = automations[id], heap'[automations[id]] = heap[automations[id]],
             HalfEdited(automations[id]) => HalfEdited(automations[id])'
      PROVE  FALSE
  BY <1>1, <1>2, <1>3 DEF HalfEdited
<1>4. ASSUME NEW h \in Handlers, NEW i \in Ids, Request(h, i)
      PROVE  FALSE
  <2>1. \A g \in Handlers : http[g].stage # "actions"
    BY <1>4 DEF Request, Create, Update, SetEnabled, Delete, Find, Arrive, UILocked
  <2>2. ~HalfEdited(automations[id])
    BY <2>1 DEF HalfEdited
  <2>3. ASSUME i # id
        PROVE  FALSE
    <3>1. automations'[id] = automations[id]
      BY <1>4, <2>3 DEF Request, Create, Update, SetEnabled, Delete, Find
    <3>2. automations[id] \in Objs /\ automations[id] # automations[i]
      BY <1>1, <2>3, <3>1, NotShared
    <3>3. ASSUME NEW body \in Bodies, NEW enabled \in BOOLEAN, Create(h, i, body, enabled)
          PROVE  heap'[automations[id]] = heap[automations[id]]
      <4>. DEFINE new == CHOOSE o \in FreeObjs : TRUE
                  doc == [id |-> i, enabled |-> enabled, trigs |-> body, acts |-> body]
      <4>1. new \in FreeObjs /\ heap' = Collected([heap EXCEPT ![new] = doc], automations', http')
        BY <3>3 DEF Create
      <4>2. automations[id] # new
        BY <4>1, FreeNotUsed
      <4>. HIDE DEF new, doc
      <4>. QED
        BY <3>1, <3>2, <4>1, <4>2 DEF Collected
    <3>4. ASSUME ~(\E body \in Bodies, enabled \in BOOLEAN : Create(h, i, body, enabled))
          PROVE  heap'[automations[id]] = heap[automations[id]]
      BY <1>4, <3>2, <3>4 DEF Request, Update, SetEnabled, Delete
    <3>. QED
      BY <1>3, <2>2, <3>1, <3>3, <3>4
  <2>4. CASE i = id
    <3>1. ASSUME NEW body \in Bodies, NEW enabled \in BOOLEAN, Create(h, id, body, enabled)
          PROVE  FALSE
      <4>. DEFINE new == CHOOSE o \in FreeObjs : TRUE
                  doc == [id |-> id, enabled |-> enabled, trigs |-> body, acts |-> body]
      <4>1. /\ new \in Objs /\ automations'[id] = new
            /\ heap' = Collected([heap EXCEPT ![new] = doc], automations', http')
        BY <3>1 DEF Create, FreeObjs
      <4>2. Whole(doc) /\ Whole(NoDoc)
        BY DEF Whole
      <4>. HIDE DEF new, doc
      <4>. QED
        BY <1>1, <4>1, <4>2 DEF Collected
    <3>2. ASSUME NEW body \in Bodies, Update(h, id, body)
          PROVE  FALSE
      BY <1>1, <3>2 DEF Update, Find
    <3>3. ASSUME NEW enabled \in BOOLEAN, SetEnabled(h, id, enabled)
          PROVE  FALSE
      <4>1. /\ automations' = automations /\ automations[id] \in Objs
            /\ heap[automations[id]] \in Docs
            /\ heap'[automations[id]] = [heap[automations[id]] EXCEPT !.enabled = enabled]
        BY <3>3 DEF SetEnabled, Find, Filed
      <4>2. /\ heap'[automations[id]].trigs = heap[automations[id]].trigs
            /\ heap'[automations[id]].acts = heap[automations[id]].acts
        BY <4>1 DEF Docs
      <4>. QED
        BY <1>1, <1>2, <2>2, <4>1, <4>2, StoreAssumption, UIAssumption DEF Whole
    <3>4. CASE Delete(h, id)
      BY <1>1, <3>4 DEF Delete
    <3>. QED
      BY <1>4, <2>4, <3>1, <3>2, <3>3, <3>4 DEF Request
  <2>. QED
    BY <2>3, <2>4
<1>5. ASSUME NEW h \in Handlers, HandlerStep(h)
      PROVE  FALSE
  <2>1. automations' = automations /\ automations[id] \in Objs
    BY <1>1, <1>5 DEF HandlerStep, UpdateActions, Marshal, PutDoc, RemoveDoc, PublishEvent, WriteKV
  <2>2. \A g \in Handlers : g # h => http'[g] = http[g]
    BY <1>5 DEF HandlerStep, UpdateActions, Marshal, PutDoc, RemoveDoc, PublishEvent, WriteKV
  <2>3. CASE UpdateActions(h)
    <3>1. /\ http[h].obj \in Objs /\ heap[http[h].obj] \in Docs
          /\ heap[http[h].obj].trigs = http[h].doc.acts
          /\ heap' = [heap EXCEPT ![http[h].obj].acts = http[h].doc.acts]
      BY <2>3, RequestFields DEF UpdateActions, Active, EditInv, Filed
    <3>2. Whole(heap'[http[h].obj])
      BY <3>1 DEF Whole, Docs
    <3>3. automations[id] # http[h].obj
      BY <1>1, <2>1, <3>2
    <3>4. heap'[automations[id]] = heap[automations[id]]
      BY <2>1, <3>1, <3>3
    <3>. QED
      BY <1>3, <2>1, <2>2, <3>3, <3>4 DEF HalfEdited
  <2>4. CASE http[h].stage # "actions" /\ heap'[automations[id]] = heap[automations[id]]
    BY <1>3, <2>1, <2>2, <2>4 DEF HalfEdited
  <2>5. CASE PublishEvent(h)
    BY <1>1, <2>1, <2>4, <2>5 DEF PublishEvent, Collected
  <2>. QED
    BY <1>5, <2>3, <2>4, <2>5 DEF HandlerStep, Marshal, PutDoc, RemoveDoc, WriteKV
<1>6. CASE UICrash
  BY <1>1, <1>6 DEF UICrash
<1>7. ASSUME NEW i \in Ids, UILoadKey(i), i # id
      PROVE  FALSE
  <2>1. automations'[id] = automations[id] /\ http' = http
    BY <1>7 DEF UILoadKey
  <2>2. automations[id] \in Objs /\ automations[id] \notin FreeObjs
    BY <1>1, <2>1, NotShared, FreeNotUsed
  <2>3. heap'[automations[id]] = heap[automations[id]]
    BY <1>7, <2>2 DEF UILoadKey, FreeObjs
  <2>. QED
    BY <1>3, <2>1, <2>3 DEF HalfEdited
<1>8. ASSUME UNCHANGED <<automations, heap, http>>
      PROVE  FALSE
  BY <1>3, <1>8 DEF HalfEdited
<1>. QED
  BY <1>4, <1>5, <1>6, <1>7, <1>8
  DEF Next, UINext, UILoadKey, UIServe, vars, uiVars

(* Of edits that overlap the map keeps one; the bucket may get a mixture,  *)
(* but never from requests that followed each other.                       *)
THEOREM EditsWhole == Spec => EditsStayWhole
<1>1. Spec => []EditInv
  BY EditInit, Invariance, EditStep, PTL DEF Spec, IInv
<1>2. Init => MixInv
  BY DEF Init, StoreInit, UIInit, EngineInit, MixInv, Active, Blank
<1>3. Spec => []MixInv
  BY <1>1, <1>2, Invariance, MixStep, PTL DEF Spec
<1>4. IInv /\ EditInv /\ MixInv /\ [Next]_vars =>
        [\A id \in Ids :
           /\ KeptTorn(id)' => KeptTorn(id) \/ id \in uiLoading
           /\ ~Whole(kv[id])' => ~Whole(kv[id]) \/ id \in uiExcused']_vars
  BY MapStep, BucketStep
<1>. QED
  BY <1>1, <1>3, <1>4, Invariance, PTL DEF Spec, EditsStayWhole

(* What a request finds of an automation stays when its object does and the *)
(* edits in progress do.                                                   *)
LEMMA ServedStays ==
  ASSUME NEW id \in Ids,
         id \in uiLoading' <=> id \in uiLoading, id \in uiLoading => kv'[id] = kv[id],
         automations'[id] = automations[id],
         automations[id] # NoObj =>
           /\ heap'[automations[id]] = heap[automations[id]]
           /\ HalfEdited(automations[id])' <=> HalfEdited(automations[id])
  PROVE  Served(id)' = Served(id)
  BY DEF Served

(* A request that arrives: what every one of them does to the promise.     *)
LEMMA ServiceArrives ==
  ASSUME TypeOK, Filed, UIInv, NEW h \in Handlers, NEW id \in Ids, Request(h, id)
  PROVE  /\ kv' = kv
         /\ uiLoading = {} /\ uiLoading' = {}
         /\ ToWrite' = ToWrite \cup {id}
         /\ uiExcused' = IF id \in ToWrite THEN uiExcused \cup {id} ELSE uiExcused
         /\ \A o \in Objs : ~HalfEdited(o)
         /\ \A o \in Objs : HalfEdited(o)' <=> http'[h].stage = "actions" /\ http'[h].obj = o
         /\ http'[h].stage = "actions" => http'[h].obj = automations[id]
<1>. USE DEF TypeOK, UITypeOK
<1>1. Arrive(h, id)
  BY DEF Request, Create, Update, SetEnabled, Delete, Find
<1>2. /\ uiLoading = {} /\ uiLoading' = {} /\ kv' = kv /\ ~Active(h)
      /\ \A g \in Handlers : http[g].stage # "actions"
  BY <1>1 DEF Arrive, UIInv, UILocked
<1>3. /\ \A g \in Handlers : g # h => http'[g] = http[g]
      /\ http'[h].id = id /\ http'[h].stage \in {"actions", "marshal", "remove"}
      /\ http'[h].stage = "actions" => http'[h].obj = automations[id]
  <2>1. CASE \E body \in Bodies, enabled \in BOOLEAN : Create(h, id, body, enabled)
    BY <2>1 DEF Create
  <2>2. CASE \E body \in Bodies : Update(h, id, body)
    BY <2>2 DEF Update, Find
  <2>3. CASE \E enabled \in BOOLEAN : SetEnabled(h, id, enabled)
    BY <2>3 DEF SetEnabled, Find
  <2>4. CASE Delete(h, id)
    BY <2>4 DEF Delete, Find
  <2>. QED
    BY <2>1, <2>2, <2>3, <2>4 DEF Request
<1>4. ToWrite' = ToWrite \cup {id}
  <2>1. \A j \in Ids, g \in Handlers : Writing(g, j)' <=> Writing(g, j) \/ (g = h /\ j = id)
    BY <1>2, <1>3 DEF Writing, Active
  <2>2. \A j \in Ids : BeingWritten(j)' <=> BeingWritten(j) \/ j = id
    BY <2>1 DEF BeingWritten
  <2>. QED
    BY <2>2 DEF ToWrite
<1>5. uiExcused' = IF id \in ToWrite THEN uiExcused \cup {id} ELSE uiExcused
  BY <1>1 DEF Arrive, ToWrite
<1>6. \A o \in Objs : HalfEdited(o)' <=> http'[h].stage = "actions" /\ http'[h].obj = o
  BY <1>2, <1>3 DEF HalfEdited
<1>7. \A o \in Objs : ~HalfEdited(o)
  BY <1>2 DEF HalfEdited
<1>. QED
  BY <1>2, <1>3, <1>4, <1>5, <1>6, <1>7

(* A request that leaves doc of one automation, and the objects of the     *)
(* others alone.                                                           *)
LEMMA ServiceLeaves ==
  ASSUME TypeOK, Filed, UIInv, NEW h \in Handlers, NEW id \in Ids, Request(h, id),
         NEW doc, Served(id)' = doc,
         \A j \in Ids \ {id} :
           /\ automations'[j] = automations[j]
           /\ automations[j] # NoObj => heap'[automations[j]] = heap[automations[j]]
  PROVE  Service!Leave(id, doc)
<1>1. \A j \in Ids \ {id} : Served(j)' = Served(j)
  <2>. SUFFICES ASSUME NEW j \in Ids \ {id} PROVE Served(j)' = Served(j)
    OBVIOUS
  <2>1. CASE automations[j] = NoObj
    BY <2>1, ServiceArrives DEF Served
  <2>2. CASE automations[j] # NoObj
    <3>1. automations[j] \in Objs /\ automations[j] # automations[id]
      BY <2>2, NotShared
    <3>2. ~HalfEdited(automations[j]) /\ ~HalfEdited(automations[j])'
      BY <3>1, ServiceArrives
    <3>. QED
      BY <2>2, <3>1, <3>2, ServiceArrives, ServedStays
  <2>. QED
    BY <2>1, <2>2
<1>2. ServedMap' = [ServedMap EXCEPT ![id] = doc]
  BY <1>1 DEF ServedMap
<1>. QED
  BY <1>2, ServiceArrives DEF Service!Leave

(* Each request takes effect at once: a request of the service. *)
LEMMA ServiceRequest ==
  ASSUME TypeOK, Filed, UIInv, NEW h \in Handlers, NEW id \in Ids, Request(h, id)
  PROVE  Service!Next
<1>. USE DEF TypeOK, UITypeOK
<1>1. /\ uiLoading = {} /\ uiLoading' = {}
      /\ \A o \in Objs : ~HalfEdited(o)
      /\ \A o \in Objs : HalfEdited(o)' <=> http'[h].stage = "actions" /\ http'[h].obj = o
  BY ServiceArrives
<1>2. ASSUME automations[id] # NoObj
      PROVE  /\ automations[id] \in Objs
             /\ heap[automations[id]] \in Docs
             /\ Served(id) = heap[automations[id]]
             /\ Shown(id) = heap[automations[id]]
             /\ ServedMap[id] = heap[automations[id]]
             /\ ServedMap[id] # NoDoc
             /\ \A j \in Ids \ {id} : automations[j] # automations[id]
  BY <1>1, <1>2, NotShared DEF Filed, Served, Shown, ServedMap
<1>3. CASE \E body \in Bodies, enabled \in BOOLEAN : Create(h, id, body, enabled)
  <2>1. PICK body \in Bodies, enabled \in BOOLEAN : Create(h, id, body, enabled)
    BY <1>3
  <2>. DEFINE new == CHOOSE o \in FreeObjs : TRUE
              doc == [id |-> id, enabled |-> enabled, trigs |-> body, acts |-> body]
  <2>2. new \in FreeObjs /\ new \in Objs
    BY <2>1 DEF Create, FreeObjs
  <2>3. /\ automations' = [automations EXCEPT ![id] = new]
        /\ http'[h].stage = "marshal"
        /\ heap' = Collected([heap EXCEPT ![new] = doc], automations', http')
    BY <2>1 DEF Create
  <2>. HIDE DEF new
  <2>4. automations'[id] = new /\ heap'[new] = doc
    BY <2>2, <2>3 DEF Collected
  <2>5. \A j \in Ids \ {id} :
           /\ automations'[j] = automations[j]
           /\ automations[j] # NoObj => heap'[automations[j]] = heap[automations[j]]
    <3>1. \A j \in Ids : automations[j] # new
      BY <2>2, FreeNotUsed
    <3>2. \A j \in Ids \ {id} : automations'[j] = automations[j]
      BY <2>3
    <3>. QED
      BY <2>3, <3>1, <3>2 DEF Collected
  <2>6. Served(id)' = doc
    BY <1>1, <2>2, <2>3, <2>4, UIAssumption DEF Served
  <2>7. Service!Leave(id, doc)
    BY <2>5, <2>6, ServiceLeaves
  <2>. QED
    BY <2>7 DEF Service!Next, Service!Create
<1>4. CASE \E body \in Bodies : Update(h, id, body)
  <2>1. PICK body \in Bodies : Update(h, id, body)
    BY <1>4
  <2>2. /\ automations[id] # NoObj /\ automations' = automations
        /\ heap' = [heap EXCEPT ![automations[id]].trigs = body]
        /\ http'[h].stage = "actions" /\ http'[h].obj = automations[id]
    BY <2>1 DEF Update, Find
  <2>3. Served(id)' = [ServedMap[id] EXCEPT !.trigs = body, !.acts = body]
    <3>1. heap'[automations[id]] = [ServedMap[id] EXCEPT !.trigs = body]
      BY <1>2, <2>2
    <3>2. HalfEdited(automations[id])'
      BY <1>1, <1>2, <2>2
    <3>3. Served(id)' = [heap'[automations[id]] EXCEPT !.acts = heap'[automations[id]].trigs]
      BY <1>1, <2>2, <3>2 DEF Served
    <3>. QED
      BY <1>2, <2>2, <3>1, <3>3 DEF Docs
  <2>4. Service!Leave(id, [ServedMap[id] EXCEPT !.trigs = body, !.acts = body])
    BY <1>2, <2>2, <2>3, ServiceLeaves
  <2>5. \E b \in Bodies : ServedMap[id] # NoDoc
          /\ Service!Leave(id, [ServedMap[id] EXCEPT !.trigs = b, !.acts = b])
    BY <1>2, <2>2, <2>4, Zenon
  <2>6. Service!Update(id)
    BY <2>5, Zenon DEF Service!Update
  <2>. QED
    BY <2>6 DEF Service!Next
<1>5. CASE \E enabled \in BOOLEAN : SetEnabled(h, id, enabled)
  <2>1. PICK enabled \in BOOLEAN : SetEnabled(h, id, enabled)
    BY <1>5
  <2>2. /\ automations[id] # NoObj /\ automations' = automations
        /\ heap' = [heap EXCEPT ![automations[id]].enabled = enabled]
        /\ http'[h].stage = "marshal"
    BY <2>1 DEF SetEnabled, Find
  <2>3. Served(id)' = [ServedMap[id] EXCEPT !.enabled = enabled]
    BY <1>1, <1>2, <2>2 DEF Served
  <2>4. Service!Leave(id, [ServedMap[id] EXCEPT !.enabled = enabled])
    BY <1>2, <2>2, <2>3, ServiceLeaves
  <2>5. Service!SetEnabled(id)
    BY <1>2, <2>2, <2>4 DEF Service!SetEnabled
  <2>. QED
    BY <2>5 DEF Service!Next
<1>6. CASE Delete(h, id)
  <2>1. /\ automations[id] # NoObj /\ automations' = [automations EXCEPT ![id] = NoObj]
        /\ heap' = heap
    BY <1>6 DEF Delete, Find
  <2>2. Served(id)' = NoDoc
    BY <1>1, <2>1 DEF Served
  <2>3. Service!Leave(id, NoDoc)
    BY <2>1, <2>2, ServiceLeaves
  <2>. QED
    BY <1>2, <2>1, <2>3 DEF Service!Next, Service!Delete
<1>. QED
  BY <1>3, <1>4, <1>5, <1>6 DEF Request
(* A step that changes nothing a user sees is none of the service's.       *)
LEMMA ServiceStutter ==
  ASSUME kv' = kv, uiExcused' = uiExcused, \A id \in Ids : Served(id)' = Served(id),
         \A id \in Ids : BeingWritten(id)' <=> BeingWritten(id)
  PROVE  UNCHANGED Service!serviceVars
<1>1. ServedMap' = ServedMap
  BY DEF ServedMap
<1>2. ToWrite' = ToWrite
  BY DEF ToWrite
<1>. QED
  BY <1>1, <1>2 DEF Service!serviceVars

(* Nobody sees what a request does between its first instant and its write *)
(* to the bucket, nor what it tells the engine; the write is the service's. *)
LEMMA ServiceHandler ==
  ASSUME TypeOK, Filed, EditInv, UIInv, NEW h \in Handlers, HandlerStep(h)
  PROVE  [Service!Next]_(Service!serviceVars)
<1>. USE DEF TypeOK, UITypeOK, StoreTypeOK
<1>1. Active(h)
  BY DEF HandlerStep, UpdateActions, Marshal, PutDoc, RemoveDoc, PublishEvent, Active
<1>2. http[h] \in Requests /\ http[h].id \in Ids /\ http[h].obj \in Objs /\ http[h].doc \in Docs
  BY <1>1, RequestFields
<1>3. /\ uiLoading = {} /\ uiLoading' = {} /\ automations' = automations
      /\ \A g \in Handlers : g # h => http'[g] = http[g]
  BY <1>1 DEF HandlerStep, UpdateActions, Marshal, PutDoc, RemoveDoc, PublishEvent, WriteKV, UIInv
<1>4. /\ http'[h].stage # "idle" => http'[h].id = http[h].id /\ http'[h].obj = http[h].obj
      /\ http'[h].stage \in {"idle", "marshal", "put", "publish"}
  BY <1>2 DEF HandlerStep, UpdateActions, Marshal, PutDoc, RemoveDoc, PublishEvent, WriteKV,
              Blank, Requests
<1>5. ASSUME http[h].stage # "actions"
      PROVE  \A o \in Objs : HalfEdited(o)' <=> HalfEdited(o)
  BY <1>3, <1>4, <1>5 DEF HalfEdited
<1>6. ASSUME Writing(h, http[h].id) <=> http'[h].stage \notin {"idle", "publish"}
      PROVE  \A id \in Ids : BeingWritten(id)' <=> BeingWritten(id)
  <2>1. \A id \in Ids, g \in Handlers : Writing(g, id)' <=> Writing(g, id)
    BY <1>3, <1>4, <1>6 DEF Writing
  <2>. QED
    BY <2>1 DEF BeingWritten
<1>7. ASSUME heap' = heap, http[h].stage # "actions"
      PROVE  \A id \in Ids : Served(id)' = Served(id)
  <2>. SUFFICES ASSUME NEW id \in Ids PROVE Served(id)' = Served(id)
    OBVIOUS
  <2>1. automations[id] # NoObj => (HalfEdited(automations[id])' <=> HalfEdited(automations[id]))
    BY <1>3, <1>5, <1>7
  <2>. QED
    BY <1>3, <1>7, <2>1, ServedStays
<1>8. CASE UpdateActions(h)
  <2>1. /\ http[h].stage = "actions" /\ http'[h].stage = "marshal"
        /\ heap' = [heap EXCEPT ![http[h].obj].acts = http[h].doc.acts]
        /\ heap[http[h].obj] \in Docs
    BY <1>1, <1>2, <1>8 DEF UpdateActions, Filed
  <2>2. heap'[http[h].obj] = [heap[http[h].obj] EXCEPT !.acts = heap[http[h].obj].trigs]
    BY <1>2, <2>1 DEF EditInv
  <2>3. \A o \in Objs : (HalfEdited(o) <=> o = http[h].obj) /\ ~HalfEdited(o)'
    BY <1>3, <2>1 DEF EditInv, HalfEdited
  <2>4. ASSUME NEW id \in Ids
        PROVE  Served(id)' = Served(id)
    <3>1. CASE automations[id] = NoObj \/ automations[id] # http[h].obj
      <4>1. automations[id] # NoObj => heap'[automations[id]] = heap[automations[id]]
        BY <2>1, <3>1
      <4>2. automations[id] # NoObj => ~HalfEdited(automations[id]) /\ ~HalfEdited(automations[id])'
        BY <1>2, <1>3, <2>3, <3>1
      <4>. QED
        BY <1>3, <4>1, <4>2, ServedStays
    <3>2. CASE automations[id] = http[h].obj
      BY <1>2, <1>3, <2>2, <2>3, <3>2, UIAssumption DEF Served
    <3>. QED
      BY <3>1, <3>2
  <2>5. \A id \in Ids : BeingWritten(id)' <=> BeingWritten(id)
    BY <1>6, <2>1 DEF Writing
  <2>. QED
    BY <1>8, <2>4, <2>5, ServiceStutter DEF UpdateActions, storeVars
<1>9. CASE Marshal(h)
  <2>1. http[h].stage = "marshal" /\ http'[h].stage = "put"
    BY <1>2, <1>9 DEF Marshal, Requests
  <2>2. \A id \in Ids : BeingWritten(id)' <=> BeingWritten(id)
    BY <1>6, <2>1 DEF Writing
  <2>. QED
    BY <1>7, <1>9, <2>1, <2>2, ServiceStutter DEF Marshal, storeVars
<1>10. CASE PublishEvent(h)
  <2>1. http[h].stage = "publish" /\ http'[h].stage = "idle"
    BY <1>10 DEF PublishEvent, Blank
  <2>2. \A id \in Ids : BeingWritten(id)' <=> BeingWritten(id)
    BY <1>6, <2>1 DEF Writing
  <2>3. ASSUME NEW id \in Ids
        PROVE  Served(id)' = Served(id)
    <3>1. ASSUME automations[id] # NoObj
          PROVE  heap'[automations[id]] = heap[automations[id]]
      BY <1>10, <3>1 DEF PublishEvent, Collected
    <3>2. automations[id] # NoObj => (HalfEdited(automations[id])' <=> HalfEdited(automations[id]))
      BY <1>3, <1>5, <2>1
    <3>. QED
      BY <1>3, <3>1, <3>2, ServedStays
  <2>. QED
    BY <1>10, <2>2, <2>3, ServiceStutter DEF PublishEvent
<1>11. ASSUME NEW doc \in Docs \cup {NoDoc}, WriteKV(h, doc),
              http[h].stage \in {"put", "remove"},
              http[h].id \notin uiExcused => doc = Shown(http[h].id)
       PROVE  Service!Next
  <2>. PICK id \in Ids : id = http[h].id
    BY <1>2
  <2>1. /\ heap' = heap /\ http'[h].stage = "publish" /\ http'[h].id = id
        /\ Writing(h, id) /\ ~Writing(h, id)'
    BY <1>2, <1>11 DEF WriteKV, Writing, Requests
  <2>2. ServedMap' = ServedMap
    <3>1. \A j \in Ids : Served(j)' = Served(j)
      BY <1>7, <1>11, <2>1
    <3>. QED
      BY <3>1 DEF ServedMap
  <2>3. id \in ToWrite /\ ToWrite' \in {ToWrite, ToWrite \ {id}}
    <3>1. \A j \in Ids \ {id}, g \in Handlers : Writing(g, j)' <=> Writing(g, j)
      BY <1>2, <1>3, <2>1 DEF Writing
    <3>2. \A j \in Ids \ {id} : BeingWritten(j)' <=> BeingWritten(j)
      BY <3>1 DEF BeingWritten
    <3>3. BeingWritten(id)
      BY <2>1 DEF BeingWritten
    <3>. QED
      BY <1>2, <3>2, <3>3 DEF ToWrite
  <2>4. ASSUME id \notin uiExcused
        PROVE  ToWrite' = ToWrite \ {id} /\ doc = Served(id)
    <3>1. UISync(id)
      BY <1>2, <2>4 DEF UIInv
    <3>2. \A g \in Handlers : Writing(g, id) => g = h
      BY <2>1, <3>1 DEF UISync
    <3>3. ~BeingWritten(id)'
      BY <1>3, <2>1, <3>2 DEF BeingWritten, Writing
    <3>4. ASSUME automations[id] # NoObj
          PROVE  ~HalfEdited(automations[id])
      <4>. SUFFICES ASSUME NEW g \in Handlers, http[g].stage = "actions",
                           http[g].obj = automations[id]
                    PROVE  FALSE
        BY DEF HalfEdited
      <4>1. Active(g)
        BY DEF Active
      <4>2. http[g].id = id
        BY <1>2, <3>4, <4>1, NotShared
      <4>3. Writing(g, id)
        BY <4>2 DEF Writing
      <4>. QED
        BY <1>11, <3>2, <4>3
    <3>5. id \notin ToWrite'
      BY <3>3 DEF ToWrite
    <3>6. Shown(id) = Served(id)
      BY <1>3, <3>4 DEF Served, Shown
    <3>. QED
      BY <1>11, <2>3, <2>4, <3>5, <3>6
  <2>5. CASE kv' = [kv EXCEPT ![id] = doc] /\ uiExcused' = uiExcused /\ id \notin uiExcused
    <3>1. Service!Write(id)
      BY <1>2, <2>2, <2>3, <2>4, <2>5 DEF Service!Write, ServedMap
    <3>. QED
      BY <1>2, <3>1 DEF Service!Next
  <2>6. CASE kv' = [kv EXCEPT ![id] = doc] /\ uiExcused' = uiExcused /\ id \in uiExcused
    <3>1. Service!WriteAstray(id)
      BY <2>2, <2>3, <2>6 DEF Service!WriteAstray, Service!Documents, Docs
    <3>. QED
      BY <1>2, <3>1 DEF Service!Next
  <2>7. CASE kv' = kv /\ uiExcused' = uiExcused \cup {id}
    <3>1. Service!WriteFails(id)
      BY <2>2, <2>3, <2>7 DEF Service!WriteFails
    <3>. QED
      BY <1>2, <3>1 DEF Service!Next
  <2>. QED
    BY <1>11, <2>5, <2>6, <2>7 DEF WriteKV
<1>12. CASE PutDoc(h)
  <2>1. ASSUME http[h].id \notin uiExcused
        PROVE  http[h].doc = Shown(http[h].id)
    BY <1>2, <1>12, <2>1 DEF PutDoc, UIInv, UISync, Writing
  <2>. QED
    BY <1>2, <1>11, <1>12, <2>1 DEF PutDoc
<1>13. CASE RemoveDoc(h)
  <2>1. ASSUME http[h].id \notin uiExcused
        PROVE  NoDoc = Shown(http[h].id)
    BY <1>2, <1>13, <2>1 DEF RemoveDoc, UIInv, UISync, Writing, Shown
  <2>. QED
    BY <1>11, <1>13, <2>1 DEF RemoveDoc
<1>. QED
  BY <1>8, <1>9, <1>10, <1>12, <1>13 DEF HandlerStep

(* A crash goes back to what was written; the start shows it key by key    *)
(* before anybody can ask, but for the keys that cannot be read.           *)
LEMMA ServiceRestart ==
  ASSUME TypeOK, Filed, UIInv, UICrash \/ (\E id \in Ids : UILoadKey(id)) \/ UIServe
  PROVE  [Service!Next]_(Service!serviceVars)
<1>. USE DEF TypeOK, UITypeOK, StoreTypeOK
<1>1. CASE UICrash
  <2>1. \A id \in Ids : Served(id)' = kv[id]
    BY <1>1 DEF UICrash, Served, Keys
  <2>2. ServedMap' = kv
    BY <2>1 DEF ServedMap
  <2>3. ToWrite' = {}
    BY <1>1 DEF UICrash, ToWrite, BeingWritten, Writing, Blank
  <2>4. Service!Restart
    BY <1>1, <2>2, <2>3 DEF UICrash, Service!Restart
  <2>. QED
    BY <2>4 DEF Service!Next
<1>2. ASSUME NEW id \in Ids, UILoadKey(id)
      PROVE  [Service!Next]_(Service!serviceVars)
  <2>1. /\ id \in uiLoading /\ uiLoading' = uiLoading \ {id} /\ kv' = kv /\ http' = http
        /\ automations[id] = NoObj
        /\ \A h \in Handlers : ~Active(h)
    BY <1>2 DEF UILoadKey, UIInv
  <2>2. \A o \in Objs : ~HalfEdited(o) /\ ~HalfEdited(o)'
    BY <2>1 DEF HalfEdited, Active
  <2>3. \A j \in Ids : BeingWritten(j)' <=> BeingWritten(j)
    BY <2>1 DEF BeingWritten, Writing
  <2>4. ASSUME NEW j \in Ids \ {id}
        PROVE  Served(j)' = Served(j)
    <3>1. automations'[j] = automations[j]
      BY <1>2 DEF UILoadKey
    <3>2. ASSUME automations[j] # NoObj
          PROVE  automations[j] \in Objs /\ heap'[automations[j]] = heap[automations[j]]
      <4>1. automations[j] \in Objs /\ automations[j] \notin FreeObjs
        BY <3>2, NotShared, FreeNotUsed
      <4>. QED
        BY <1>2, <4>1 DEF UILoadKey, FreeObjs
    <3>3. automations[j] # NoObj => (HalfEdited(automations[j])' <=> HalfEdited(automations[j]))
      BY <2>2, <3>1, <3>2
    <3>. QED
      BY <2>1, <3>1, <3>2, <3>3, ServedStays
  <2>5. CASE FreeObjs # {} /\ uiExcused' = uiExcused
             /\ LET new == CHOOSE o \in FreeObjs : TRUE
                IN /\ automations' = [automations EXCEPT ![id] = new]
                   /\ heap' = [heap EXCEPT ![new] = kv[id]]
    <3>. DEFINE new == CHOOSE o \in FreeObjs : TRUE
    <3>1. new \in Objs /\ automations'[id] = new /\ heap'[new] = kv[id]
      BY <2>5 DEF FreeObjs
    <3>. HIDE DEF new
    <3>2. Served(id)' = kv[id] /\ Served(id) = kv[id]
      BY <2>1, <2>2, <3>1, UIAssumption DEF Served
    <3>. QED
      BY <2>1, <2>3, <2>4, <2>5, <3>2, ServiceStutter
  <2>6. CASE uiExcused' = uiExcused \cup {id} /\ automations' = automations /\ heap' = heap
    <3>1. Served(id)' = NoDoc
      BY <2>1, <2>6 DEF Served
    <3>2. ServedMap' = [ServedMap EXCEPT ![id] = NoDoc]
      BY <2>4, <3>1 DEF ServedMap
    <3>3. ToWrite' = ToWrite
      BY <2>3 DEF ToWrite
    <3>4. Service!ReadFails(id)
      BY <2>1, <2>6, <3>2, <3>3 DEF Service!ReadFails
    <3>. QED
      BY <3>4 DEF Service!Next
  <2>. QED
    BY <1>2, <2>5, <2>6 DEF UILoadKey
<1>3. CASE UIServe
  <2>1. \A id \in Ids : Served(id)' = Served(id) /\ (BeingWritten(id)' <=> BeingWritten(id))
    BY <1>3 DEF UIServe, storeVars, Served, HalfEdited, BeingWritten, Writing
  <2>. QED
    BY <1>3, <2>1, ServiceStutter DEF UIServe, storeVars
<1>. QED
  BY <1>1, <1>2, <1>3

(* The engine is the other one who writes the bucket, and only by a run it *)
(* records.                                                                *)
LEMMA ServiceEngine ==
  ASSUME TypeOK, Filed, UIInv, EngineNext, UNCHANGED uiVars
  PROVE  [Service!Next]_(Service!serviceVars)
<1>. USE DEF TypeOK, UITypeOK, StoreTypeOK
<1>1. /\ UNCHANGED <<automations, heap, http, uiLoading>>
      /\ \A o \in Objs : HalfEdited(o)' <=> HalfEdited(o)
      /\ \A id \in Ids : BeingWritten(id)' <=> BeingWritten(id)
  BY DEF uiVars, HalfEdited, BeingWritten, Writing
<1>2. ASSUME NEW id \in Ids, id \in uiLoading => kv'[id] = kv[id]
      PROVE  Served(id)' = Served(id)
  BY <1>1, <1>2 DEF Served, HalfEdited
<1>3. CASE UNCHANGED <<kv, uiExcused>>
  BY <1>1, <1>2, <1>3, ServiceStutter
<1>4. ASSUME NEW r \in Runs, Record(r), ~UNCHANGED <<kv, uiExcused>>
      PROVE  Service!Next
  <2>1. run[r].doc \in Docs
    BY <1>4 DEF Record, EngineTypeOK, NoRun
  <2>. PICK doc \in Docs : doc = run[r].doc
    BY <2>1
  <2>2. kv' = [kv EXCEPT ![doc.id] = doc] /\ uiExcused' = uiExcused \cup {doc.id}
        /\ doc.id \in Ids
    BY <1>4 DEF Record, Docs
  <2>3. \A id \in Ids \ {doc.id} : Served(id)' = Served(id)
    BY <1>2, <2>2
  <2>4. ServedMap' \in {ServedMap, [ServedMap EXCEPT ![doc.id] = doc]}
    <3>1. CASE doc.id \in uiLoading
      <4>1. Served(doc.id)' = doc
        BY <1>1, <2>2, <3>1 DEF Served
      <4>. QED
        BY <2>3, <4>1 DEF ServedMap
    <3>2. CASE doc.id \notin uiLoading
      <4>1. Served(doc.id)' = Served(doc.id)
        BY <1>2, <2>2, <3>2
      <4>. QED
        BY <2>3, <4>1 DEF ServedMap
    <3>. QED
      BY <3>1, <3>2
  <2>5. ToWrite' = ToWrite
    BY <1>1 DEF ToWrite
  <2>6. Service!Overwrite(doc.id)
    BY <2>2, <2>4, <2>5 DEF Service!Overwrite, Service!Documents, Docs
  <2>. QED
    BY <2>2, <2>6 DEF Service!Next
<1>. QED
  BY <1>3, <1>4 DEF EngineNext, LoaderStep, EventStep, RunStep, ListKeys, ClearCache, FillKey,
       Subscribe, FetchEvent, ApplyFetched, RemoveOnEvent, StartRun, NotMet, Act, EngineCrash,
       storeVars

(* Every step of the system is one of the service's or none a user sees.   *)
LEMMA ServiceStep ==
  IInv /\ EditInv /\ [Next]_vars => [Service!Next]_(Service!serviceVars)
<1>. SUFFICES ASSUME IInv, EditInv, [Next]_vars PROVE [Service!Next]_(Service!serviceVars)
  OBVIOUS
<1>. USE DEF IInv
<1>1. CASE UINext /\ UNCHANGED engineVars
  BY <1>1, ServiceRequest, ServiceHandler, ServiceRestart DEF UINext
<1>2. CASE EngineNext /\ UNCHANGED uiVars
  BY <1>2, ServiceEngine
<1>3. CASE UNCHANGED vars
  <2>1. UNCHANGED <<kv, uiExcused, automations, heap, http, uiLoading>>
    BY <1>3 DEF vars, storeVars, uiVars
  <2>2. \A id \in Ids : Served(id)' = Served(id) /\ (BeingWritten(id)' <=> BeingWritten(id))
    BY <2>1 DEF Served, HalfEdited, BeingWritten, Writing
  <2>. QED
    BY <2>1, <2>2, ServiceStutter
<1>. QED
  BY <1>1, <1>2, <1>3 DEF Next

(* The system starts as the service does, with nothing in progress. *)
LEMMA ServiceInit == Init => Service!Init /\ EditInv
BY DEF Init, StoreInit, UIInit, EngineInit, Service!Init, ServedMap, Served, ToWrite,
       BeingWritten, Writing, Blank, EditInv

(* Whatever requests, runs, crashes and lost calls interleave, a user of   *)
(* the API sees each request take effect at one instant, and the bucket    *)
(* gets what the API shows at the write; the exceptions are those the      *)
(* history uiExcused names.                                                *)
THEOREM ServiceImplemented == Spec => ImplementsService
<1>1. Spec => []EditInv
  BY ServiceInit, Invariance, EditStep, PTL DEF Spec, IInv
<1>2. Spec => Service!Spec
  BY <1>1, ServiceInit, Invariance, ServiceStep, PTL DEF Spec, Service!Spec
<1>. QED
  BY <1>2 DEF ImplementsService
(* The promise itself: what the API shows, and shows while it starts, is   *)
(* what a restart would bring back, for every automation that no request   *)
(* is writing and none of the exceptions is about.                         *)
THEOREM ServiceDurable == Spec => []Service!Durable
<1>1. IInv => Service!Durable
  <2>. SUFFICES ASSUME IInv, NEW id \in Ids, id \notin ToWrite, id \notin uiExcused
                PROVE  kv[id] = ServedMap[id]
    BY DEF Service!Durable
  <2>. USE DEF IInv
  <2>1. ~BeingWritten(id) /\ UISync(id)
    BY DEF ToWrite, UIInv
  <2>2. ASSUME automations[id] # NoObj
        PROVE  ~HalfEdited(automations[id])
    <3>. SUFFICES ASSUME NEW g \in Handlers, http[g].stage = "actions",
                         http[g].obj = automations[id]
                  PROVE  FALSE
      BY DEF HalfEdited
    <3>1. Active(g)
      BY DEF Active
    <3>2. http[g].id = id
      BY <2>2, <3>1, NotShared
    <3>. QED
      BY <2>1, <3>2 DEF BeingWritten, Writing
  <2>3. ServedMap[id] = Served(id)
    BY DEF ServedMap
  <2>4. id \notin uiLoading => Served(id) = Shown(id)
    BY <2>2 DEF Served, Shown
  <2>5. id \notin uiLoading => Shown(id) = kv[id]
    BY <2>1 DEF UISync
  <2>. QED
    BY <2>3, <2>4, <2>5 DEF Served
<1>. QED
  BY Invariance, <1>1, PTL
=============================================================================
