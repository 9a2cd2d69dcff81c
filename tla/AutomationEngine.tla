--------------------------- MODULE AutomationEngine ---------------------------
(***************************************************************************)
(* The automation engine (legacy/services/automation-engine): a cache of   *)
(* the enabled automations under e.mu, loaded whole at start and every     *)
(* update_interval, kept up to date from the events of the UI, and read by *)
(* the goroutines that run automations.  Four kinds of goroutine take      *)
(* steps: Start and periodicUpdate (loader), the event subscription        *)
(* (pending), and the runs.                                                *)
(***************************************************************************)
EXTENDS AutomationStore, FiniteSets

CONSTANTS
  Runs,             \* the EvaluateAutomation goroutines that can overlap
  MaxRuns,          \* bound: runs in a behaviour
  MaxEngineCrashes  \* bound: restarts of the engine in a behaviour

ASSUME EngineAssumption == MaxRuns \in Nat /\ MaxEngineCrashes \in Nat

VARIABLES
  cache,        \* e.automations: Ids -> document or NoDoc
  loader,       \* where loadAutomations stands
  keysLeft,     \* the keys it has still to fetch
  pending,      \* the document loadAutomation has fetched and not applied
  run,          \* the automation runs in progress
  runs,         \* runs so far
  engineCrashes \* restarts so far

engineVars == <<cache, loader, keysLeft, pending, run, runs, engineCrashes>>

(* "keys" holds the key list and waits for e.mu, "filling" holds e.mu,     *)
(* "loaded" is Start between loadAutomations and startSubscriptions.       *)
LoaderStages == {"idle", "keys", "filling", "loaded"}
NoRun == [stage |-> "idle"]

EngineTypeOK ==
  /\ cache \in [Ids -> Docs \cup {NoDoc}]
  /\ loader \in LoaderStages
  /\ keysLeft \subseteq Ids
  /\ pending \in Docs \cup {NoDoc}
  /\ run \in [Runs -> [stage : {"act", "record"}, doc : Docs] \cup {NoRun}]
  /\ runs \in 0..MaxRuns
  /\ engineCrashes \in 0..MaxEngineCrashes

EngineInit ==
  /\ cache = [id \in Ids |-> NoDoc]
  /\ loader = "idle"
  /\ keysLeft = {}
  /\ pending = NoDoc
  /\ run = [r \in Runs |-> NoRun]
  /\ runs = 0
  /\ engineCrashes = 0

Locked == loader = "filling"
(* Mutant of Cacheable: disabled automations are kept. *)
CacheAll(doc) == doc
Cacheable(doc) == IF doc # NoDoc /\ doc.enabled THEN doc ELSE NoDoc

(* Mutant of ListKeys: there is no ticker, Start alone loads. *)
ListKeysOnce ==
  /\ loader = "idle"
  /\ ~subscribed
  /\ Keys # {}
  /\ loader' = "keys"
  /\ keysLeft' = Keys
  /\ UNCHANGED <<storeVars, cache, pending, run, runs, engineCrashes>>

(* loadAutomations up to kv.Keys(), by Start or by the ticker.  An empty   *)
(* bucket is an error: Start gives up, the ticker's reload is skipped.     *)
ListKeys ==
  /\ loader = "idle"
  /\ Keys # {}
  /\ loader' = "keys"
  /\ keysLeft' = Keys
  /\ UNCHANGED <<storeVars, cache, pending, run, runs, engineCrashes>>

(* e.mu.Lock and "Clear existing automations".  History: from here on the  *)
(* cache is read afresh, except for a document loadAutomation still holds. *)
ClearCache ==
  /\ loader = "keys"
  /\ loader' = "filling"
  /\ cache' = [id \in Ids |-> NoDoc]
  /\ engExcused' = {id \in engExcused : pending # NoDoc /\ pending.id = id}
  /\ UNCHANGED <<kv, events, subscribed, faults, uiExcused>>
  /\ UNCHANGED <<keysLeft, pending, run, runs, engineCrashes>>

(* One turn of the loop; the unlock after the last key.  A key deleted     *)
(* meanwhile, or a failed Get, is skipped.                                 *)
FillKey(id) ==
  /\ Locked
  /\ id \in keysLeft
  /\ keysLeft' = keysLeft \ {id}
  /\ loader' = IF keysLeft' # {} THEN "filling" ELSE IF subscribed THEN "idle" ELSE "loaded"
  /\ \/ cache' = [cache EXCEPT ![id] = Cacheable(kv[id])] /\ UNCHANGED faults
     \/ Fault /\ UNCHANGED cache
  /\ UNCHANGED <<kv, events, subscribed, engExcused, uiExcused>>
  /\ UNCHANGED <<pending, run, runs, engineCrashes>>

(* startSubscriptions.  History: what changed since the load was missed.   *)
Subscribe ==
  /\ loader = "loaded"
  /\ loader' = "idle"
  /\ subscribed' = TRUE
  /\ engExcused' = Ids
  /\ UNCHANGED <<kv, events, faults, uiExcused>>
  /\ UNCHANGED <<cache, keysLeft, pending, run, runs, engineCrashes>>

(* handleAutomationEvent for "created", "updated", "enabled": the Get of   *)
(* loadAutomation, without e.mu.  A failed Get returns and leaves the      *)
(* cache as it is.                                                         *)
FetchEvent ==
  /\ pending = NoDoc
  /\ events # <<>>
  /\ Head(events).type \in ReloadEvents
  /\ events' = Tail(events)
  /\ \/ pending' = kv[Head(events).id] /\ UNCHANGED <<faults, engExcused>>
     \/ /\ Fault
        /\ engExcused' = engExcused \cup {Head(events).id}
        /\ UNCHANGED pending
  /\ UNCHANGED <<kv, subscribed, uiExcused>>
  /\ UNCHANGED <<cache, loader, keysLeft, run, runs, engineCrashes>>

(* ... and what loadAutomation does under e.mu. *)
ApplyFetched ==
  /\ pending # NoDoc
  /\ ~Locked
  /\ cache' = [cache EXCEPT ![pending.id] = Cacheable(pending)]
  /\ pending' = NoDoc
  /\ UNCHANGED <<storeVars, loader, keysLeft, run, runs, engineCrashes>>

(* Mutant of RemoveOnEvent: "disabled" is taken and ignored. *)
RemoveDeletedOnly ==
  /\ pending = NoDoc
  /\ ~Locked
  /\ events # <<>>
  /\ Head(events).type \in RemoveEvents
  /\ events' = Tail(events)
  /\ cache' = IF Head(events).type = "deleted" THEN [cache EXCEPT ![Head(events).id] = NoDoc] ELSE cache
  /\ UNCHANGED <<kv, subscribed, faults, engExcused, uiExcused>>
  /\ UNCHANGED <<loader, keysLeft, pending, run, runs, engineCrashes>>

(* handleAutomationEvent for "deleted" and "disabled". *)
RemoveOnEvent ==
  /\ pending = NoDoc
  /\ ~Locked
  /\ events # <<>>
  /\ Head(events).type \in RemoveEvents
  /\ events' = Tail(events)
  /\ cache' = [cache EXCEPT ![Head(events).id] = NoDoc]
  /\ UNCHANGED <<kv, subscribed, faults, engExcused, uiExcused>>
  /\ UNCHANGED <<loader, keysLeft, pending, run, runs, engineCrashes>>

(* A device state or a time tick reaches a cached automation: the pointer  *)
(* is taken under e.mu.RLock and a goroutine started.                      *)
StartRun(r, id) ==
  /\ subscribed
  /\ ~Locked
  /\ cache[id] # NoDoc
  /\ run[r] = NoRun
  /\ runs < MaxRuns
  /\ runs' = runs + 1
  /\ run' = [run EXCEPT ![r] = [stage |-> "act", doc |-> cache[id]]]
  /\ UNCHANGED <<storeVars, cache, loader, keysLeft, pending, engineCrashes>>

(* EvaluateAutomation: no trigger matches or a condition fails. *)
NotMet(r) ==
  /\ run[r].stage = "act"
  /\ run' = [run EXCEPT ![r] = NoRun]
  /\ UNCHANGED <<storeVars, cache, loader, keysLeft, pending, runs, engineCrashes>>

(* EvaluateAutomation: the actions, with their delays.  Nothing looks at   *)
(* the cache or the bucket again.                                          *)
Act(r) ==
  /\ run[r].stage = "act"
  /\ run' = [run EXCEPT ![r].stage = "record"]
  /\ UNCHANGED <<storeVars, cache, loader, keysLeft, pending, runs, engineCrashes>>

(* updateAutomationRunInfo: the whole document goes back into the bucket.  *)
Record(r) ==
  /\ run[r].stage = "record"
  /\ run' = [run EXCEPT ![r] = NoRun]
  /\ \/ /\ kv' = [kv EXCEPT ![run[r].doc.id] = run[r].doc]
        /\ engExcused' = engExcused \cup {run[r].doc.id}
        /\ uiExcused' = uiExcused \cup {run[r].doc.id}
        /\ UNCHANGED faults
     \/ Fault /\ UNCHANGED <<kv, engExcused, uiExcused>>
  /\ UNCHANGED <<events, subscribed>>
  /\ UNCHANGED <<cache, loader, keysLeft, pending, runs, engineCrashes>>

(* The process dies, and its subscriptions with it; Start comes next. *)
EngineCrash ==
  /\ engineCrashes < MaxEngineCrashes
  /\ engineCrashes' = engineCrashes + 1
  /\ subscribed' = FALSE
  /\ events' = <<>>
  /\ cache' = [id \in Ids |-> NoDoc]
  /\ loader' = "idle"
  /\ keysLeft' = {}
  /\ pending' = NoDoc
  /\ run' = [r \in Runs |-> NoRun]
  /\ UNCHANGED <<kv, faults, engExcused, uiExcused, runs>>

LoaderStep == ListKeys \/ ClearCache \/ (\E id \in Ids : FillKey(id)) \/ Subscribe
EventStep == FetchEvent \/ ApplyFetched \/ RemoveOnEvent
RunStep(r) == NotMet(r) \/ Act(r) \/ Record(r)

EngineNext ==
  \/ LoaderStep
  \/ EventStep
  \/ \E r \in Runs, id \in Ids : StartRun(r, id)
  \/ \E r \in Runs : RunStep(r)
  \/ EngineCrash
=============================================================================
