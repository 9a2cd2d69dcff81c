--------------------------- MODULE AutomationSystem ---------------------------
(***************************************************************************)
(* The management UI and the automation engine around their bucket.        *)
(*                                                                         *)
(* Both keep a copy of the bucket and neither locks it, so the question is *)
(* when a copy may differ from it while nothing is under way.  The history *)
(* variables engExcused and uiExcused collect, as the actions take them,   *)
(* the only reasons there are:                                             *)
(*   - the engine: it recorded a run of the automation (it writes the      *)
(*     document back and tells nobody), it subscribed after it loaded, a   *)
(*     message or a Get was lost, or the UI died before it could publish;  *)
(*     the next reload forgives all of them;                               *)
(*   - the UI: the engine recorded a run of the automation, two requests   *)
(*     on it overlapped, or a call on the bucket failed; only a restart    *)
(*     forgives them.                                                      *)
(***************************************************************************)
EXTENDS AutomationUI, AutomationEngine

vars == <<storeVars, uiVars, engineVars>>

Init == StoreInit /\ UIInit /\ EngineInit

Next == (UINext /\ UNCHANGED engineVars) \/ (EngineNext /\ UNCHANGED uiVars)

Spec == Init /\ [][Next]_vars

(* The goroutines that are under way go on, and the ticker goes on ticking. *)
(* Requests, triggers, crashes and faults need never come.                  *)
Fairness ==
  /\ \A h \in Handlers : WF_vars(HandlerStep(h) /\ UNCHANGED engineVars)
  /\ WF_vars((UIServe \/ \E id \in Ids : UILoadKey(id)) /\ UNCHANGED engineVars)
  /\ WF_vars(LoaderStep /\ UNCHANGED uiVars)
  /\ WF_vars(EventStep /\ UNCHANGED uiVars)
  /\ \A r \in Runs : WF_vars(RunStep(r) /\ UNCHANGED uiVars)

FairSpec == Spec /\ Fairness

(* Every variable has its type. *)
TypeOK == StoreTypeOK /\ UITypeOK /\ EngineTypeOK

-----------------------------------------------------------------------------
(* A change of id the engine has not yet been told of, or has not handled:  *)
(* a request between its write and its event, or an event in the queue.     *)
Announced(id) ==
  \/ \E h \in Handlers : http[h].stage = "publish" /\ http[h].id = id
  \/ \E i \in DOMAIN events : events[i].id = id

(* The engine only ever holds, fetches for its cache, or runs automations  *)
(* that were enabled in the bucket: loadAutomations and loadAutomation     *)
(* filter on Enabled, and a run holds what the cache held.                 *)
OnlyEnabledRun ==
  /\ \A id \in Ids : cache[id] # NoDoc => cache[id].enabled /\ cache[id].id = id
  /\ \A r \in Runs : run[r] # NoRun => run[r].doc.enabled

(* While no change of an automation is announced and the event goroutine   *)
(* holds no document, the engine has that automation as the bucket has it, *)
(* or not at all, unless there is one of the reasons above: the reload     *)
(* that empties the cache, the unlocked Get of loadAutomation and requests *)
(* that overlap cannot leave it running an old version.                    *)
EngineStaleOnlyIfExcused ==
  subscribed => \A id \in Ids :
    (cache[id] # NoDoc /\ cache[id] # kv[id])
      => \/ id \in engExcused
         \/ Announced(id)
         \/ pending # NoDoc /\ pending.id = id

(* What the UI shows of an automation no request is writing is what the    *)
(* bucket holds, unless there is one of the reasons above: the map is      *)
(* changed under s.mu and the bucket after it, and no request in between   *)
(* makes them differ for good.                                             *)
UIStaleOnlyIfExcused ==
  uiUp => \A id \in Ids \ uiExcused : ~BeingWritten(id) => Shown(id) = kv[id]

-----------------------------------------------------------------------------
(* An edit of the object that has written one half and holds s.mu.         *)
HalfEdited(o) == \E h \in Handlers : http[h].stage = "actions" /\ http[h].obj = o

(* Triggers and actions of one edit. *)
Whole(doc) == doc # NoDoc => doc.trigs = doc.acts

(* The UI keeps halves of two edits, and no edit is about to finish them.  *)
KeptTorn(id) ==
  automations[id] # NoObj /\ ~HalfEdited(automations[id]) /\ ~Whole(Shown(id))

(* Edits of one automation that overlap, in handleUpdateAutomation and in  *)
(* saveAutomation, which reads the shared object without s.mu              *)
(* (handlers.go:1077): the object in the map never ends with the triggers  *)
(* of one and the actions of the other, unless loadData read it so.  The   *)
(* bucket does get such a mixture, but only from requests that overlapped  *)
(* or from the run of an automation, never from requests that followed     *)
(* each other.                                                             *)
EditsStayWhole ==
  [][\A id \in Ids :
       /\ KeptTorn(id)' => KeptTorn(id) \/ id \in uiLoading
       /\ ~Whole(kv[id])' => ~Whole(kv[id]) \/ id \in uiExcused']_vars

(* What a request that takes s.mu finds of an automation.  An edit that is *)
(* half done holds s.mu, so the next one finds both halves; while loadData *)
(* runs there is no request, and what is not yet loaded is as it is in the *)
(* bucket.  A GET encodes what it found after it has given the lock back,  *)
(* when an edit may be half done again: its answer is not covered.         *)

Served(id) ==
  IF id \in uiLoading THEN kv[id]
  ELSE IF automations[id] = NoObj THEN NoDoc
  ELSE LET doc == heap[automations[id]]
       IN  IF HalfEdited(automations[id]) THEN [doc EXCEPT !.acts = doc.trigs] ELSE doc

ServedMap == [id \in Ids |-> Served(id)]
ToWrite == {id \in Ids : BeingWritten(id)}

Service == INSTANCE AutomationService WITH
  shown <- ServedMap, stored <- kv, dirty <- ToWrite, astray <- uiExcused

(* Every request on an automation is atomic although it takes and gives    *)
(* back s.mu, reads the object once more without it and writes the bucket  *)
(* later (management-ui handlers.go): what is written is what a request    *)
(* would find at that moment, whoever else edits or starts again.          *)
ImplementsService == Service!Spec

-----------------------------------------------------------------------------
(* The engine holds exactly the enabled automations of the bucket; while   *)
(* it reloads it holds e.mu and nobody can look.                           *)
InSync == Locked \/ \A id \in Ids : cache[id] = Cacheable(kv[id])

(* When requests, runs, crashes and faults have come to an end, the engine *)
(* is up and in sync, whatever they were, if the bucket holds anything:    *)
(* the ticker's reload repairs what the events left wrong.                 *)
EngineCatchesUp == <>[](Keys # {} => subscribed /\ InSync)
-----------------------------------------------------------------------------
(* The inductive invariant behind the safety properties.                   *)

(* Every reference leads to an object of the right id, and every document  *)
(* is filed under its own id.                                              *)
Filed ==
  /\ \A id \in Ids : automations[id] # NoObj =>
       heap[automations[id]] # NoDoc /\ heap[automations[id]].id = id
  /\ \A h \in Handlers : Active(h) =>
       /\ heap[http[h].obj] # NoDoc
       /\ heap[http[h].obj].id = http[h].id
       /\ http[h].doc.id = http[h].id
       /\ http[h].stage = "remove" => http[h].type = "deleted"
  /\ \A id \in Ids : kv[id] # NoDoc => kv[id].id = id
  /\ \A id \in Ids : cache[id] # NoDoc => cache[id].enabled /\ cache[id].id = id
  /\ \A r \in Runs : run[r] # NoRun => run[r].doc.enabled

(* A deletion under way to the engine.  A Get that finds nothing leaves    *)
(* the cache as it is, so only this can clear a deleted automation.        *)
DeletionAnnounced(id) ==
  \/ \E h \in Handlers : http[h].stage = "publish" /\ http[h].id = id /\ http[h].type = "deleted"
  \/ \E i \in DOMAIN events : events[i].id = id /\ events[i].type = "deleted"

Repaired(id) ==
  \/ id \in engExcused
  \/ kv[id] = NoDoc /\ DeletionAnnounced(id)
  \/ kv[id] # NoDoc /\ Announced(id)

EngineInv ==
  /\ ~subscribed => events = <<>> /\ pending = NoDoc
  /\ \A id \in Ids : (subscribed /\ cache[id] # NoDoc /\ cache[id] # kv[id])
       => Repaired(id) \/ (pending # NoDoc /\ pending.id = id)
  /\ \A id \in Ids : (pending # NoDoc /\ pending.id = id /\ pending # kv[id]) => Repaired(id)

(* How the UI's copy of id, its document in the bucket and the one request *)
(* between them, if any, agree.                                            *)
UISync(id) ==
  /\ \A g, h \in Handlers : Writing(g, id) /\ Writing(h, id) => g = h
  /\ (id \notin uiLoading /\ ~BeingWritten(id)) => Shown(id) = kv[id]
  /\ \A h \in Handlers : Writing(h, id) =>
       /\ http[h].stage \in {"actions", "marshal"} => http[h].obj = automations[id]
       /\ http[h].stage = "put" => http[h].doc = Shown(id)
       /\ http[h].stage = "remove" => automations[id] = NoObj

UIInv ==
  /\ uiUp => uiLoading = {}
  /\ ~uiUp => \A h \in Handlers : ~Active(h)
  /\ \A id \in uiLoading : automations[id] = NoObj
  /\ \A id \in Ids \ uiExcused : UISync(id)

IInv == TypeOK /\ Filed /\ EngineInv /\ UIInv

-----------------------------------------------------------------------------
(* While no two requests on one automation overlap, the bucket never has a *)
(* mixture, whatever fails or starts again.                                *)

OneWriter == \A id \in Ids : \A g, h \in Handlers : Writing(g, id) /\ Writing(h, id) => g = h

StoredUntorn == \A id \in Ids : Whole(kv[id])

(* An object is torn only between the two halves of an edit, whose request *)
(* holds s.mu and will write the half it has written once more.            *)
WholeInv ==
  /\ \A o \in Objs : Whole(heap[o]) \/ HalfEdited(o)
  /\ \A h \in Handlers : http[h].stage = "actions" =>
       /\ heap[http[h].obj].trigs = http[h].doc.acts
       /\ \A g \in Handlers : http[g].stage = "actions" => g = h
  /\ \A h \in Handlers : http[h].stage = "put" => Whole(http[h].doc)
  /\ \A id \in Ids : Whole(kv[id]) /\ Whole(cache[id])
  /\ Whole(pending)
  /\ \A r \in Runs : run[r] # NoRun => Whole(run[r].doc)
=============================================================================
