--------------------------- MODULE AutomationStore ---------------------------
(***************************************************************************)
(* What the management UI and the automation engine share: the JetStream   *)
(* key-value bucket "automations", the event subject                       *)
(* home.automations.events, and the faults both can meet.                  *)
(*                                                                         *)
(* An automation document keeps its id, its enabled flag and the two       *)
(* halves an edit replaces one after the other: the triggers and the       *)
(* actions.  An edit submits one body b and writes b to both halves, so a  *)
(* document whose halves differ mixes two edits.  Name, conditions, time   *)
(* stamps and run counters are left out.                                   *)
(***************************************************************************)
EXTENDS Naturals, Sequences

CONSTANTS
  Ids,          \* the automation ids in use
  Bodies,       \* what a user may submit as triggers and actions
  NoDoc,        \* the absence of a document
  MaxFaults     \* bound: failed calls and lost messages in a behaviour

Docs == [id : Ids, enabled : BOOLEAN, trigs : Bodies, acts : Bodies]

ASSUME StoreAssumption ==
  /\ NoDoc \notin Docs
  /\ MaxFaults \in Nat

ReloadEvents == {"created", "updated", "enabled"}
RemoveEvents == {"deleted", "disabled"}
Events == [type : ReloadEvents \cup RemoveEvents, id : Ids]

VARIABLES
  kv,           \* the bucket: Ids -> document or NoDoc
  events,       \* the engine's subscription queue, oldest first
  subscribed,   \* the engine's subscriptions exist on the server
  faults,       \* faults so far
  engExcused,   \* history: ids the engine may hold out of date (see AutomationSystem)
  uiExcused     \* history: ids the UI may hold out of date (see AutomationSystem)

storeVars == <<kv, events, subscribed, faults, engExcused, uiExcused>>

StoreTypeOK ==
  /\ kv \in [Ids -> Docs \cup {NoDoc}]
  /\ events \in Seq(Events)
  /\ subscribed \in BOOLEAN
  /\ faults \in 0..MaxFaults
  /\ engExcused \subseteq Ids
  /\ uiExcused \subseteq Ids

StoreInit ==
  /\ kv = [id \in Ids |-> NoDoc]
  /\ events = <<>>
  /\ subscribed = FALSE
  /\ faults = 0
  /\ engExcused = {}
  /\ uiExcused = {}

(* kv.Keys(): the keys that hold a document; an empty answer is an error. *)
Keys == {id \in Ids : kv[id] # NoDoc}

Fault == faults < MaxFaults /\ faults' = faults + 1

(* natsConn.Publish: core NATS delivers to the subscriptions that exist now. *)
Publish(type, id) ==
  events' = IF subscribed THEN Append(events, [type |-> type, id |-> id]) ELSE events
=============================================================================
