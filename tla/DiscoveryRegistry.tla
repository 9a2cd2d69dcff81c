-------------------------- MODULE DiscoveryRegistry --------------------------
(***************************************************************************)
(* The device registry of the discovery service: a JetStream bucket whose  *)
(* entries expire, a map of decoded devices in front of it, and the four   *)
(* goroutines that use both: one per NATS subscription (announcements,     *)
(* statuses, service commands), each serving its messages in order, and    *)
(* the monitor.  Only the map itself is under the mutex; the devices it    *)
(* points to are shared and changed without it.                            *)
(*                                                                         *)
(* What a device says of itself (type, name, capabilities) is its body.    *)
(* LastSeen is set just before the entry is put, so one age per entry      *)
(* stands for both LastSeen and the bucket's clock; ages stop at TTL + 1.  *)
(***************************************************************************)
EXTENDS Naturals, FiniteSets

CONSTANTS
    Ids,            \* devices
    Bodies, NoBody, \* what a device announces of itself; nothing
    Refs, NoRef,    \* addresses of decoded devices; nil
    NoDoc,          \* no entry in the bucket
    Stale, TTL,     \* ages at which the monitor and the bucket act
    MaxBusy         \* bound: goroutines at work at once

ASSUME RegistryAssumption ==
    /\ NoBody \notin Bodies
    /\ NoRef \notin Refs
    /\ Stale \in Nat /\ TTL \in Nat /\ MaxBusy \in Nat
    /\ NoDoc \notin [body : Bodies, online : BOOLEAN, age : 0..(TTL + 1)]

VARIABLES
    kv,       \* the bucket
    cache,    \* Registry.cache
    heap,     \* the devices the map and the handlers point to
    task,     \* where each goroutine stands
    todo,     \* devices the monitor has found stale and not yet handled
    latest,   \* history: what each device announced last, or nothing after a deletion
    torn,     \* history: an announcement or a deletion overlapped another handler, or failed
    doubted   \* history: devices somebody has called offline since they reported, or
              \* whose report failed

registryVars == <<kv, cache, heap, task, todo, latest, torn, doubted>>

-----------------------------------------------------------------------------
Device == [body : Bodies, online : BOOLEAN]
Entry == [body : Bodies, online : BOOLEAN, age : 0..(TTL + 1)]

Handlers == {"announcements", "statuses", "commands", "monitor"}
Ops == {"register", "status", "offline", "get", "delete"}
Writes == {"register", "delete"}

Stages == {"idle", "look", "fetch", "keep", "mark", "revive", "marshal",
           "put", "store", "remove", "drop"}

NoDevice == [body |-> NoBody, online |-> FALSE]
Idle == [at |-> "idle", op |-> "get", id |-> NoRef, ref |-> NoRef,
         on |-> FALSE, doc |-> NoDevice]
Begun(op, i, at, on) == [at |-> at, op |-> op, id |-> i, ref |-> NoRef,
                         on |-> on, doc |-> NoDevice]

Busy(p) == task[p].at # "idle"
Serving(i) == {p \in Handlers : Busy(p) /\ task[p].id = i}
Writing(i) == {p \in Serving(i) : task[p].op \in Writes}

(* The goroutines that were told that a device is online, and those that    *)
(* change a device the map holds.                                          *)
Reporting(i) == {p \in Serving(i) : task[p].op \in {"register", "status"} /\ task[p].on}
Updating(i) == {p \in Serving(i) : task[p].op \in {"status", "offline"}}

CanStart(p) ==
    ~Busy(p) /\ Cardinality({q \in Handlers : Busy(q)}) < MaxBusy

Held == {cache[i] : i \in Ids} \cup {task[p].ref : p \in Handlers}
Free == Refs \ Held

(* What nothing points to any more is collected. *)
CollectGarbage ==
    heap' = [r \in Refs |->
        IF \/ \E i \in Ids : cache'[i] = r
           \/ \E p \in Handlers : task'[p].ref = r
        THEN heap[r] ELSE NoDevice]

(* The history of a handler p that begins op on i, *)
Meets(p, op, i) ==
    LET alone == Serving(i) \ {p} = {}
    IN  torn' = IF alone /\ op \in Writes THEN torn \ {i}
                ELSE IF ~alone /\ (op \in Writes \/ Writing(i) # {})
                     THEN torn \cup {i} ELSE torn

(* ... and of one that is told whether i is online.  When i was called      *)
(* offline before, who still updates it may yet store that.                *)
Told(i, on) ==
    doubted' = IF ~on THEN doubted \cup {i}
               ELSE IF Updating(i) = {} THEN doubted \ {i} ELSE doubted

Spoil(is) == torn' = torn \cup is
Doubt(is) == doubted' = doubted \cup is

-----------------------------------------------------------------------------
RegistryInit ==
    /\ kv = [i \in Ids |-> NoDoc]
    /\ cache = [i \in Ids |-> NoRef]
    /\ heap = [r \in Refs |-> NoDevice]
    /\ task = [p \in Handlers |-> Idle]
    /\ todo = {}
    /\ latest = [i \in Ids |-> NoBody]
    /\ torn = {} /\ doubted = {}

(* A mutant: the device is marshalled as it was sent, then marked online.  *)
AnnounceAsSent(i, b) ==
    /\ CanStart("announcements")
    /\ \E r \in Free :
          /\ heap' = [heap EXCEPT ![r] = [body |-> b, online |-> TRUE]]
          /\ task' = [task EXCEPT !["announcements"] =
                [at |-> "put", op |-> "register", id |-> i, ref |-> r,
                 on |-> TRUE, doc |-> [body |-> b, online |-> FALSE]]]
    /\ latest' = [latest EXCEPT ![i] = b]
    /\ Meets("announcements", "register", i) /\ Told(i, TRUE)
    /\ UNCHANGED <<kv, cache, todo>>

(* An announcement is decoded into a device of its own, marked online and  *)
(* marshalled; nobody else sees the device yet.                            *)
Announce(i, b) ==
    LET device == [body |-> b, online |-> TRUE] IN
    /\ CanStart("announcements")
    /\ \E r \in Free :
          /\ heap' = [heap EXCEPT ![r] = device]
          /\ task' = [task EXCEPT !["announcements"] =
                [at |-> "put", op |-> "register", id |-> i, ref |-> r,
                 on |-> TRUE, doc |-> device]]
    /\ latest' = [latest EXCEPT ![i] = b]
    /\ Meets("announcements", "register", i) /\ Told(i, TRUE)
    /\ UNCHANGED <<kv, cache, todo>>

Status(i, on) ==
    /\ CanStart("statuses")
    /\ task' = [task EXCEPT !["statuses"] = Begun("status", i, "look", on)]
    /\ Meets("statuses", "status", i) /\ Told(i, on)
    /\ UNCHANGED <<kv, cache, heap, todo, latest>>

GetDevice(i) ==
    /\ CanStart("commands")
    /\ task' = [task EXCEPT !["commands"] = Begun("get", i, "look", FALSE)]
    /\ Meets("commands", "get", i)
    /\ UNCHANGED <<kv, cache, heap, todo, latest, doubted>>

DeleteDevice(i) ==
    /\ CanStart("commands")
    /\ task' = [task EXCEPT !["commands"] = Begun("delete", i, "remove", FALSE)]
    /\ latest' = [latest EXCEPT ![i] = NoBody]
    /\ Meets("commands", "delete", i)
    /\ UNCHANGED <<kv, cache, heap, todo, doubted>>

(* The monitor lists the bucket, then updates what it has found stale.     *)
MonitorList ==
    /\ ~Busy("monitor") /\ todo = {}
    /\ todo' = {i \in Ids : kv[i] # NoDoc /\ kv[i].online /\ kv[i].age > Stale}
    /\ UNCHANGED <<kv, cache, heap, task, latest, torn, doubted>>

MonitorNext(i) ==
    /\ CanStart("monitor") /\ i \in todo
    /\ todo' = todo \ {i}
    /\ task' = [task EXCEPT !["monitor"] = Begun("offline", i, "look", FALSE)]
    /\ Meets("monitor", "offline", i) /\ Told(i, FALSE)
    /\ UNCHANGED <<kv, cache, heap, latest>>

-----------------------------------------------------------------------------
(* Registry.Get: the map, then the bucket, then the map again.             *)
Finish(p) == task' = [task EXCEPT ![p] = Idle] /\ CollectGarbage

LookUp(p) ==
    LET i == task[p].id IN
    /\ task[p].at = "look"
    /\ UNCHANGED <<kv, cache, todo, latest, torn, doubted>>
    /\ \/ /\ cache[i] = NoRef
          /\ task' = [task EXCEPT ![p].at = "fetch"]
          /\ UNCHANGED heap
       \/ /\ cache[i] # NoRef /\ task[p].op = "get"
          /\ Finish(p)
       \/ /\ cache[i] # NoRef /\ task[p].op # "get"
          /\ task' = [task EXCEPT ![p].at = "mark", ![p].ref = cache[i]]
          /\ UNCHANGED heap

Decoded(i) == [body |-> kv[i].body, online |-> kv[i].online]

Fetch(p) ==
    LET i == task[p].id IN
    /\ task[p].at = "fetch" /\ kv[i] # NoDoc
    /\ \E r \in Free :
          /\ heap' = [heap EXCEPT ![r] = Decoded(i)]
          /\ task' = [task EXCEPT ![p].at = "keep", ![p].ref = r]
    /\ UNCHANGED <<kv, cache, todo, latest, torn, doubted>>

NotFound(p) ==
    /\ task[p].at = "fetch" /\ kv[task[p].id] = NoDoc
    /\ UNCHANGED <<kv, cache, todo, latest, torn, doubted>>
    /\ Finish(p)

FetchFails(p) ==
    /\ task[p].at = "fetch"
    /\ UNCHANGED <<kv, cache, todo, latest, torn>>
    /\ Finish(p)
    /\ Doubt(IF task[p].op = "get" THEN {} ELSE {task[p].id})

KeepEntry(p) ==
    /\ task[p].at = "keep"
    /\ cache' = [cache EXCEPT ![task[p].id] = task[p].ref]
    /\ task' = [task EXCEPT ![p] =
          IF task[p].op = "get" THEN Idle ELSE [task[p] EXCEPT !.at = "mark"]]
    /\ CollectGarbage
    /\ UNCHANGED <<kv, todo, latest, torn, doubted>>

-----------------------------------------------------------------------------
(* Registry.UpdateStatus sets the flag it was given; Register, which it    *)
(* calls, sets the flag to true and stores the device.                     *)
Mark(p) ==
    /\ task[p].at = "mark"
    /\ heap' = [heap EXCEPT ![task[p].ref].online = task[p].on]
    /\ task' = [task EXCEPT ![p].at = "revive"]
    /\ UNCHANGED <<kv, cache, todo, latest, torn, doubted>>

Revive(p) ==
    /\ task[p].at = "revive"
    /\ heap' = [heap EXCEPT ![task[p].ref].online = TRUE]
    /\ task' = [task EXCEPT ![p].at = "marshal"]
    /\ UNCHANGED <<kv, cache, todo, latest, torn, doubted>>

Marshal(p) ==
    /\ task[p].at = "marshal"
    /\ task' = [task EXCEPT ![p].at = "put", ![p].doc = heap[task[p].ref]]
    /\ UNCHANGED <<kv, cache, heap, todo, latest, torn, doubted>>

Stored(d) == [body |-> d.body, online |-> d.online, age |-> 0]

Put(p) ==
    /\ task[p].at = "put"
    /\ kv' = [kv EXCEPT ![task[p].id] = Stored(task[p].doc)]
    /\ task' = [task EXCEPT ![p].at = "store", ![p].doc = NoDevice]
    /\ UNCHANGED <<cache, heap, todo, latest, torn, doubted>>

(* The call ends in an error; the entry may have been stored all the same. *)
PutFails(p) ==
    LET i == task[p].id IN
    /\ task[p].at = "put"
    /\ kv' \in {kv, [kv EXCEPT ![i] = Stored(task[p].doc)]}
    /\ UNCHANGED <<cache, todo, latest>>
    /\ Finish(p)
    /\ Spoil(IF task[p].op = "register" THEN {i} ELSE {}) /\ Doubt({i})

(* A mutant: the map is not updated when a device registers again. *)
StoreOnce(p) ==
    /\ task[p].at = "store"
    /\ cache' = IF cache[task[p].id] = NoRef
                THEN [cache EXCEPT ![task[p].id] = task[p].ref] ELSE cache
    /\ Finish(p)
    /\ UNCHANGED <<kv, todo, latest, torn, doubted>>

Store(p) ==
    /\ task[p].at = "store"
    /\ cache' = [cache EXCEPT ![task[p].id] = task[p].ref]
    /\ Finish(p)
    /\ UNCHANGED <<kv, todo, latest, torn, doubted>>

-----------------------------------------------------------------------------
(* Registry.Delete: the bucket first, then the map.                        *)
RemoveEntry(p) ==
    /\ task[p].at = "remove"
    /\ kv' = [kv EXCEPT ![task[p].id] = NoDoc]
    /\ task' = [task EXCEPT ![p].at = "drop"]
    /\ UNCHANGED <<cache, heap, todo, latest, torn, doubted>>

RemoveFails(p) ==
    LET i == task[p].id IN
    /\ task[p].at = "remove"
    /\ kv' \in {kv, [kv EXCEPT ![i] = NoDoc]}
    /\ UNCHANGED <<cache, todo, latest>>
    /\ Finish(p)
    /\ Spoil({i}) /\ UNCHANGED doubted

(* A mutant: a deletion forgets the map. *)
DropNothing(p) ==
    /\ task[p].at = "drop"
    /\ UNCHANGED <<kv, cache, todo, latest, torn, doubted>>
    /\ Finish(p)

Drop(p) ==
    /\ task[p].at = "drop"
    /\ cache' = [cache EXCEPT ![task[p].id] = NoRef]
    /\ Finish(p)
    /\ UNCHANGED <<kv, todo, latest, torn, doubted>>

-----------------------------------------------------------------------------
(* Time passes for the entries of the bucket, which drops the old ones.    *)
Tick ==
    /\ kv' = [i \in Ids |->
          IF kv[i] = NoDoc THEN NoDoc
          ELSE [kv[i] EXCEPT !.age = IF @ = TTL + 1 THEN @ ELSE @ + 1]]
    /\ UNCHANGED <<cache, heap, task, todo, latest, torn, doubted>>

Expire(i) ==
    /\ kv[i] # NoDoc /\ kv[i].age > TTL
    /\ kv' = [kv EXCEPT ![i] = NoDoc]
    /\ UNCHANGED <<cache, heap, task, todo, latest, torn, doubted>>

(* The service is started again: it loads the map from the bucket, or goes *)
(* on with an empty map when the bucket cannot be listed.                  *)
Restart ==
    /\ task' = [p \in Handlers |-> Idle]
    /\ todo' = {}
    /\ \/ \E own \in [Ids -> Refs] :
             /\ \A i, j \in Ids : own[i] = own[j] => i = j
             /\ cache' = [i \in Ids |-> IF kv[i] = NoDoc THEN NoRef ELSE own[i]]
             /\ heap' = [r \in Refs |->
                   IF \E i \in Ids : cache'[i] = r
                   THEN Decoded(CHOOSE i \in Ids : own[i] = r) ELSE NoDevice]
       \/ /\ cache' = [i \in Ids |-> NoRef]
          /\ heap' = [r \in Refs |-> NoDevice]
    /\ Spoil({i \in Ids : Writing(i) # {}}) /\ Doubt({i \in Ids : Reporting(i) # {}})
    /\ UNCHANGED <<kv, latest>>

-----------------------------------------------------------------------------
Heard(i) == \/ \E b \in Bodies : Announce(i, b)
            \/ \E on \in BOOLEAN : Status(i, on)

HandlerStep(p) ==
    \/ LookUp(p) \/ Fetch(p) \/ NotFound(p) \/ KeepEntry(p)
    \/ Mark(p) \/ Revive(p) \/ Marshal(p) \/ Put(p) \/ Store(p)
    \/ RemoveEntry(p) \/ Drop(p)

(* Devices report and time passes; nothing fails and nobody interferes.    *)
CalmNext ==
    \/ \E i \in Ids : Heard(i) \/ MonitorNext(i) \/ Expire(i)
    \/ \E p \in Handlers : HandlerStep(p)
    \/ MonitorList \/ Tick

RegistryNext ==
    \/ CalmNext
    \/ \E i \in Ids : GetDevice(i) \/ DeleteDevice(i)
    \/ \E p \in Handlers : FetchFails(p) \/ PutFails(p) \/ RemoveFails(p)
    \/ Restart

RegistrySpec == RegistryInit /\ [][RegistryNext]_registryVars

-----------------------------------------------------------------------------
Task == [at : Stages, op : Ops, id : Ids \cup {NoRef}, ref : Refs \cup {NoRef},
         on : BOOLEAN, doc : Device \cup {NoDevice}]

(* The shapes of the state; a goroutine that is past Get points to a       *)
(* device, one about to put carries a document.                            *)
TypeOK ==
    /\ kv \in [Ids -> Entry \cup {NoDoc}]
    /\ cache \in [Ids -> Refs \cup {NoRef}]
    /\ heap \in [Refs -> Device \cup {NoDevice}]
    /\ task \in [Handlers -> Task]
    /\ todo \subseteq Ids
    /\ latest \in [Ids -> Bodies \cup {NoBody}]
    /\ torn \subseteq Ids /\ doubted \subseteq Ids
    /\ \A i \in Ids : cache[i] # NoRef => heap[cache[i]] \in Device
    /\ \A p \in Handlers :
         /\ Busy(p) => task[p].id \in Ids
         /\ task[p].at \in {"keep", "mark", "revive", "marshal", "put", "store"}
              => task[p].ref \in Refs /\ heap[task[p].ref] \in Device
         /\ task[p].at = "put" => task[p].doc \in Device

(* While no announcement or deletion of a device is under way, the bucket  *)
(* holds what the device announced last, or nothing: a status update or    *)
(* the monitor, writing the whole device back, brings neither an older     *)
(* announcement nor a deleted device back unless one of the two overlapped *)
(* it or failed (Registry.Register, UpdateStatus, Delete).                 *)
BucketLatest ==
    \A i \in Ids \ torn : Writing(i) = {} /\ kv[i] # NoDoc =>
        kv[i].body = latest[i]

(* The map, which Get asks first, agrees with that too: also after a load  *)
(* that failed, a restart half-way and an entry that has expired.          *)
CacheLatest ==
    \A i \in Ids \ torn : Writing(i) = {} /\ cache[i] # NoRef =>
        heap[cache[i]].body = latest[i]

(* A device that has reported, by an announcement or by a status "online", *)
(* is shown online by the bucket once the report is through, unless        *)
(* somebody was told or found that it is offline since, or was not done    *)
(* with that when it reported: whoever else reads, deletes, announces or   *)
(* writes back the shared device without the mutex (registry.go:70), and   *)
(* wherever a restart or a failed call comes in between.                   *)
OnlineUnlessTold ==
    \A i \in Ids \ doubted : Reporting(i) = {} /\ kv[i] # NoDoc => kv[i].online

-----------------------------------------------------------------------------
(* What Get finds: the device in the map, else the entry of the bucket.    *)
Answer(i) ==
    IF cache[i] # NoRef THEN heap[cache[i]].body
    ELSE IF kv[i] # NoDoc THEN kv[i].body ELSE NoBody

AnswerMap == [i \in Ids |-> Answer(i)]
Calls == [p \in Handlers |->
    IF Busy(p) THEN [active |-> TRUE, id |-> task[p].id, writes |-> task[p].op \in Writes]
    ELSE [active |-> FALSE]]

Directory == INSTANCE DeviceDirectory WITH
    Callers <- Handlers, answer <- AnswerMap, calls <- Calls, astray <- torn

(* The bucket and the map, written one after the other by four goroutines, *)
(* look like one directory (Registry.Register, Get, UpdateStatus, Delete): *)
(* while a device is written the answer is the old, the new or nothing,    *)
(* and never the old again after the new, unless calls on the device       *)
(* overlapped (a Get that fetched the old entry too) or failed.            *)
ImplementsDirectory == Directory!Spec
=============================================================================
