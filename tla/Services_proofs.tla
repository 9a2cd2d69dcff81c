--------------------------- MODULE Services_proofs ---------------------------
(***************************************************************************)
(* Proofs about the two services that keep what is known of the devices:   *)
(* the registry of the discovery service first, then the health monitor    *)
(* with its page.  The two modules have no name in common.                 *)
(*                                                                         *)
(* The registry, for every set of devices, bodies and addresses and every  *)
(* age at which entries are stale or expire: unless handlers overlap or    *)
(* fail, the bucket and the map hold what a device announced last; the     *)
(* bucket shows a device that has reported online, unless it was called    *)
(* offline since; and bucket and map look like one directory,              *)
(* DeviceDirectory, that never goes back from the new to the old.          *)
(*                                                                         *)
(* Health, for any number of devices, alerts kept, changes and pages: a    *)
(* device that is offline says so, and the numbers on the page agree.      *)
(*                                                                         *)
(* OfflineAlerted is not inductive.  That the time of what was last heard  *)
(* is not ahead of the clock makes the alert of the sweep later than it;   *)
(* that the alerts after that alert are later as well gives, once it is    *)
(* cut off by handleAlert, a list of later alerts only.                    *)
(*                                                                         *)
(* CountsAgree holds of every dashboard there can be; what has to be kept  *)
(* is that nothing else comes to the page.                                 *)
(***************************************************************************)
EXTENDS DiscoveryRegistry, HealthPage, TLAPS

Holding == {"keep", "mark", "revive", "marshal", "put", "store"}
Works(p, i) == Busy(p) /\ task[p].id = i

(* Each operation goes through stages of its own.                          *)
StageOK == \A p \in Handlers : Busy(p) =>
    /\ task[p].op = "register" <=> task[p].op \in Writes /\ task[p].at \in {"put", "store"}
    /\ task[p].op = "delete" <=> task[p].at \in {"remove", "drop"}
    /\ task[p].op = "get" => task[p].at \in {"look", "fetch", "keep"}

(* An address belongs to one device.                                       *)
Filed ==
    /\ \A i, j \in Ids : cache[i] = cache[j] /\ cache[i] # NoRef => i = j
    /\ \A p \in Handlers, i \in Ids :
         cache[i] = task[p].ref /\ cache[i] # NoRef => task[p].id = i
    /\ \A p, q \in Handlers :
         task[p].ref = task[q].ref /\ task[p].ref # NoRef => task[p].id = task[q].id
    /\ \A p \in Handlers : task[p].ref # NoRef => Busy(p)

Shape == TypeOK /\ StageOK /\ Filed

(* An announcement or deletion in an id that is not torn is alone with it. *)
Alone == \A i \in Ids : \A p, q \in Handlers :
    Works(p, i) /\ Works(q, i) /\ p # q /\ task[p].op \in Writes => i \in torn

BodyInv == \A i \in Ids \ torn :
    /\ (\A p \in Handlers : Works(p, i) => task[p].at \notin {"remove"}
            /\ ~(task[p].at = "put" /\ task[p].op = "register"))
         => kv[i] = NoDoc \/ kv[i].body = latest[i]
    /\ (\A p \in Handlers : Works(p, i) => task[p].op \notin Writes)
         => cache[i] = NoRef \/ heap[cache[i]].body = latest[i]
    /\ \A p \in Handlers : Works(p, i) =>
         /\ task[p].at \in Holding => heap[task[p].ref].body = latest[i]
         /\ task[p].at = "put" => task[p].doc.body = latest[i]

RegistryInv == Shape /\ Alone /\ BodyInv

-----------------------------------------------------------------------------
(* The registry begins with nobody at work, before anything is announced. *)
LEMMA InitInv == RegistryInit => RegistryInv
  BY RegistryAssumption DEF RegistryInit, RegistryInv, Shape, TypeOK, StageOK, Filed, Alone, BodyInv,
     Works, Busy, Idle, NoDevice, Task, Stages, Ops

(* What is still pointed to survives a collection.                         *)
LEMMA Collected ==
  ASSUME CollectGarbage
  PROVE  /\ \A i \in Ids : cache'[i] \in Refs => heap'[cache'[i]] = heap[cache'[i]]
         /\ \A p \in Handlers : task'[p].ref \in Refs => heap'[task'[p].ref] = heap[task'[p].ref]
         /\ heap' = [r \in Refs |-> heap'[r]]
         /\ \A r \in Refs : heap'[r] \in {heap[r], NoDevice}
  BY DEF CollectGarbage

(* The history of a handler that begins.                                   *)
LEMMA Met ==
  ASSUME TypeOK, NEW p \in Handlers, ~Busy(p), NEW op \in Ops, NEW i \in Ids, Meets(p, op, i)
  PROVE  /\ torn' \subseteq Ids
         /\ torn' \cup {i} = torn \cup {i}
         /\ i \notin torn' =>
              \/ op \in Writes /\ \A q \in Handlers : ~Works(q, i)
              \/ op \notin Writes /\ i \notin torn /\ \A q \in Handlers : Works(q, i) => task[q].op \notin Writes
  BY DEF Meets, Serving, Writing, Works, TypeOK

(* What a handler is told is about a device there can be. *)
LEMMA ToldIds ==
  ASSUME TypeOK, NEW i \in Ids, NEW on \in BOOLEAN, Told(i, on)
  PROVE  doubted' \subseteq Ids
  BY DEF TypeOK, Told

(* The two shapes of a handler's record after it begins or ends.           *)
LEMMA Shapes ==
  /\ Idle \in Task
  /\ \A op \in Ops, i \in Ids, at \in Stages, on \in BOOLEAN :
       /\ Begun(op, i, at, on) \in Task
       /\ Begun(op, i, at, on).op = op /\ Begun(op, i, at, on).id = i
       /\ Begun(op, i, at, on).at = at /\ Begun(op, i, at, on).on = on
       /\ Begun(op, i, at, on).ref = NoRef /\ Begun(op, i, at, on).doc = NoDevice
  /\ Idle.at = "idle" /\ Idle.ref = NoRef
  BY DEF Idle, Begun, Task, Stages, Ops, NoDevice

(* A handler begins: it has no device yet.                                 *)
LEMMA BeginShape ==
  ASSUME Shape, doubted' \subseteq Ids, NEW p \in Handlers, ~Busy(p), NEW op \in Ops \ {"register"}, NEW i \in Ids,
         NEW at \in {"look", "remove"}, at = "remove" <=> op = "delete", NEW on \in BOOLEAN,
         task' = [task EXCEPT ![p] = Begun(op, i, at, on)],
         Meets(p, op, i), todo' \subseteq Ids, latest' \in [Ids -> Bodies \cup {NoBody}],
         UNCHANGED <<kv, cache, heap>>
  PROVE  Shape'
<1>1. /\ task' \in [Handlers -> Task]
      /\ \A q \in Handlers : q # p => task'[q] = task[q]
      /\ task'[p].op = op /\ task'[p].id = i /\ task'[p].at = at /\ task'[p].ref = NoRef
  BY Shapes DEF Shape, TypeOK, Stages
<1>2. torn' \subseteq Ids /\ doubted' \subseteq Ids
  BY Met DEF Shape
<1>3. TypeOK'
  BY <1>1, <1>2 DEF Shape, TypeOK, Busy
<1>4. StageOK'
  BY <1>1 DEF Shape, StageOK, Busy, Writes, Ops
<1>5. Filed'
  BY <1>1 DEF Shape, Filed, Busy
<1> QED BY <1>3, <1>4, <1>5 DEF Shape

(* A handler ends; the map may have lost or taken what it held.            *)
LEMMA FinishShape ==
  ASSUME Shape, NEW p \in Handlers, Busy(p), Finish(p), kv' \in [Ids -> Entry \cup {NoDoc}],
         \/ cache' = cache
         \/ cache' = [cache EXCEPT ![task[p].id] = NoRef]
         \/ cache' = [cache EXCEPT ![task[p].id] = task[p].ref] /\ task[p].at \in Holding,
         torn' \subseteq Ids, doubted' \subseteq Ids, UNCHANGED <<todo, latest>>
  PROVE  Shape'
<1>1. /\ task' \in [Handlers -> Task]
      /\ \A q \in Handlers : q # p => task'[q] = task[q]
      /\ task'[p].at = "idle" /\ task'[p].ref = NoRef
  BY Shapes DEF Shape, TypeOK, Finish
<1>2. /\ cache' \in [Ids -> Refs \cup {NoRef}]
      /\ \A i \in Ids : cache'[i] \in {cache[i], NoRef, task[p].ref}
      /\ \A i \in Ids : cache'[i] # cache[i] => i = task[p].id
      /\ \A i \in Ids : cache'[i] # NoRef => cache'[i] \in Refs /\ heap[cache'[i]] \in Device
      /\ task[p].id \in Ids
  BY DEF Shape, TypeOK, Holding, Busy
<1>3. /\ heap' \in [Refs -> Device \cup {NoDevice}]
      /\ \A i \in Ids : cache'[i] \in Refs => heap'[cache'[i]] = heap[cache'[i]]
      /\ \A q \in Handlers : task'[q].ref \in Refs => heap'[task'[q].ref] = heap[task'[q].ref]
  BY Collected DEF Finish, Shape, TypeOK
<1>4. TypeOK'
  BY <1>1, <1>2, <1>3 DEF Shape, TypeOK, Busy
<1>5. StageOK'
  BY <1>1 DEF Shape, StageOK, Busy
<1>6. Filed'
  BY <1>1, <1>2 DEF Shape, Filed, Busy
<1> QED BY <1>4, <1>5, <1>6 DEF Shape

(* A handler goes on, maybe with a device that is new or its own.          *)
LEMMA AdvanceShape ==
  ASSUME Shape, NEW p \in Handlers, Busy(p), NEW t \in Task, task' = [task EXCEPT ![p] = t],
         t.op = task[p].op, t.id = task[p].id, t.at # "idle",
         t.op = "register" => t.at \in {"put", "store"},
         t.op = "delete" <=> t.at \in {"remove", "drop"},
         t.op = "get" => t.at \in {"look", "fetch", "keep"},
         \/ t.ref = task[p].ref
         \/ t.ref \in Free
         \/ t.ref = cache[t.id],
         t.at \in Holding => t.ref \in Refs /\ heap'[t.ref] \in Device,
         t.at = "put" => t.doc \in Device,
         kv' \in [Ids -> Entry \cup {NoDoc}],
         heap' \in [Refs -> Device \cup {NoDevice}],
         \A r \in Refs : heap[r] \in Device => heap'[r] \in Device,
         UNCHANGED <<cache, todo, latest, torn, doubted>>
  PROVE  Shape'
<1>1. /\ task' \in [Handlers -> Task]
      /\ \A q \in Handlers : q # p => task'[q] = task[q]
      /\ task'[p] = t /\ t.id \in Ids
  BY DEF Shape, TypeOK, Busy
<1>2. TypeOK'
  BY <1>1 DEF Shape, TypeOK, Busy, Holding
<1>3. StageOK'
  BY <1>1 DEF Shape, StageOK, Busy, Writes
<1>4. ASSUME t.ref \in Free
      PROVE  /\ \A i \in Ids : cache[i] # t.ref
             /\ \A q \in Handlers : task[q].ref # t.ref
  BY <1>4 DEF Free, Held
<1>5. Filed'
  BY <1>1, <1>4 DEF Shape, Filed, Busy
<1> QED BY <1>2, <1>3, <1>5 DEF Shape

(* Every step keeps the types, the stages and the entries under their ids. *)
LEMMA ShapeStep == Shape /\ [RegistryNext]_registryVars => Shape'
<1> SUFFICES ASSUME Shape, [RegistryNext]_registryVars PROVE Shape'
  OBVIOUS
<1> USE RegistryAssumption
<1>1. ASSUME NEW i \in Ids, NEW b \in Bodies, Announce(i, b) PROVE Shape'
  <2> DEFINE a == "announcements"
             dev == [body |-> b, online |-> TRUE]
  <2>1. PICK r \in Free :
          /\ heap' = [heap EXCEPT ![r] = dev]
          /\ task' = [task EXCEPT ![a] = [at |-> "put", op |-> "register", id |-> i,
                                           ref |-> r, on |-> TRUE, doc |-> dev]]
    BY <1>1 DEF Announce
  <2>2. /\ a \in Handlers /\ ~Busy(a) /\ dev \in Device /\ r \in Refs
        /\ \A j \in Ids : cache[j] # r
        /\ \A q \in Handlers : task[q].ref # r
    BY <1>1, <2>1 DEF Announce, CanStart, Device, Free, Held, Handlers
  <2>3. torn' \subseteq Ids /\ doubted' \subseteq Ids
    BY <1>1, <2>2, Met, ToldIds DEF Announce, Shape, Ops
  <2>4. /\ task' \in [Handlers -> Task]
        /\ \A q \in Handlers : q # a => task'[q] = task[q]
        /\ task'[a].at = "put" /\ task'[a].op = "register" /\ task'[a].id = i
        /\ task'[a].ref = r /\ task'[a].doc = dev
    BY <2>1, <2>2 DEF Shape, TypeOK, Task, Stages, Ops
  <2>5. /\ heap' \in [Refs -> Device \cup {NoDevice}] /\ heap'[r] = dev
        /\ \A s \in Refs : s # r => heap'[s] = heap[s]
    BY <2>1, <2>2 DEF Shape, TypeOK
  <2>6. UNCHANGED <<kv, cache, todo>> /\ latest' \in [Ids -> Bodies \cup {NoBody}]
    BY <1>1 DEF Announce, Shape, TypeOK
  <2> HIDE DEF dev
  <2>7. TypeOK'
    BY <2>2, <2>3, <2>4, <2>5, <2>6 DEF Shape, TypeOK, Busy
  <2>8. StageOK'
    BY <2>4 DEF Shape, StageOK, Busy, Writes
  <2>9. Filed'
    BY <2>2, <2>4, <2>6 DEF Shape, Filed, Busy
  <2> QED BY <2>7, <2>8, <2>9 DEF Shape
<1>2. ASSUME NEW i \in Ids, NEW on \in BOOLEAN, Status(i, on) PROVE Shape'
  <2>1. latest' \in [Ids -> Bodies \cup {NoBody}] /\ todo' \subseteq Ids /\ doubted' \subseteq Ids
    BY <1>2, ToldIds DEF Status, Shape, TypeOK
  <2> QED BY <1>2, <2>1, BeginShape DEF Status, CanStart, Ops, Handlers
<1>3. ASSUME NEW i \in Ids, GetDevice(i) PROVE Shape'
  <2>1. latest' \in [Ids -> Bodies \cup {NoBody}] /\ todo' \subseteq Ids /\ doubted' \subseteq Ids
    BY <1>3 DEF GetDevice, Shape, TypeOK
  <2> QED BY <1>3, <2>1, BeginShape DEF GetDevice, CanStart, Ops, Handlers
<1>4. ASSUME NEW i \in Ids, DeleteDevice(i) PROVE Shape'
  <2>1. latest' \in [Ids -> Bodies \cup {NoBody}] /\ todo' \subseteq Ids /\ doubted' \subseteq Ids
    BY <1>4 DEF DeleteDevice, Shape, TypeOK
  <2> QED BY <1>4, <2>1, BeginShape DEF DeleteDevice, CanStart, Ops, Handlers
<1>5. ASSUME NEW i \in Ids, MonitorNext(i) PROVE Shape'
  <2>1. latest' \in [Ids -> Bodies \cup {NoBody}] /\ todo' \subseteq Ids /\ doubted' \subseteq Ids
    BY <1>5, ToldIds DEF MonitorNext, Shape, TypeOK
  <2> QED BY <1>5, <2>1, BeginShape DEF MonitorNext, CanStart, Ops, Handlers
<1>6. CASE MonitorList \/ UNCHANGED registryVars
  BY <1>6 DEF MonitorList, registryVars, Shape, TypeOK, StageOK, Filed, Busy
<1>7. ASSUME NEW p \in Handlers, LookUp(p) PROVE Shape'
  <2>1. Busy(p) /\ task[p].id \in Ids /\ task[p].op # "delete" /\ task[p].op # "register"
    BY <1>7 DEF LookUp, Shape, TypeOK, StageOK, Busy
  <2>2. CASE Finish(p)
    BY <1>7, <2>1, <2>2, FinishShape DEF LookUp, Shape, TypeOK
  <2>3. CASE task' = [task EXCEPT ![p].at = "fetch"] /\ UNCHANGED heap
    <3> DEFINE t == [task[p] EXCEPT !.at = "fetch"]
    <3>1. /\ t \in Task /\ t.op = task[p].op /\ t.id = task[p].id /\ t.ref = task[p].ref
          /\ t.at = "fetch" /\ task' = [task EXCEPT ![p] = t]
      BY <2>3 DEF Shape, TypeOK, Task, Stages
    <3> HIDE DEF t
    <3> QED BY <1>7, <2>1, <2>3, <3>1, AdvanceShape DEF LookUp, Shape, TypeOK, Holding
  <2>4. CASE /\ cache[task[p].id] # NoRef /\ task[p].op # "get" /\ UNCHANGED heap
             /\ task' = [task EXCEPT ![p].at = "mark", ![p].ref = cache[task[p].id]]
    <3> DEFINE t == [task[p] EXCEPT !.at = "mark", !.ref = cache[task[p].id]]
    <3>1. cache[task[p].id] \in Refs /\ heap[cache[task[p].id]] \in Device /\ task[p] \in Task
      BY <2>1, <2>4 DEF Shape, TypeOK
    <3>2. /\ t \in Task /\ t.op = task[p].op /\ t.id = task[p].id /\ t.ref = cache[t.id]
          /\ t.at = "mark"
      BY <3>1 DEF Task, Stages
    <3>3. task' = [task EXCEPT ![p] = t]
      BY <2>4 DEF Shape, TypeOK
    <3> HIDE DEF t
    <3> QED BY <1>7, <2>1, <2>4, <3>1, <3>2, <3>3, AdvanceShape DEF LookUp, Shape, TypeOK, Holding
  <2> QED BY <1>7, <2>2, <2>3, <2>4 DEF LookUp
<1>8. ASSUME NEW p \in Handlers, Fetch(p) PROVE Shape'
  <2> DEFINE i == task[p].id
  <2>1. /\ Busy(p) /\ i \in Ids /\ task[p].op # "delete" /\ task[p].op # "register"
        /\ Decoded(i) \in Device
    BY <1>8 DEF Fetch, Shape, TypeOK, StageOK, Busy, Decoded, Entry, Device
  <2>2. PICK r \in Free : /\ heap' = [heap EXCEPT ![r] = Decoded(i)]
                          /\ task' = [task EXCEPT ![p].at = "keep", ![p].ref = r]
    BY <1>8 DEF Fetch
  <2> DEFINE t == [task[p] EXCEPT !.at = "keep", !.ref = r]
  <2>31. r \in Refs /\ task[p] \in Task
    BY DEF Free, Shape, TypeOK
  <2>32. task' = [task EXCEPT ![p] = t]
    BY <2>2 DEF Shape, TypeOK
  <2>33. t \in Task /\ t.op = task[p].op /\ t.id = task[p].id /\ t.ref = r /\ t.at = "keep"
    BY <2>31 DEF Task, Stages
  <2>3. /\ r \in Refs /\ t \in Task /\ t.op = task[p].op /\ t.id = task[p].id /\ t.ref = r
        /\ t.at = "keep" /\ task' = [task EXCEPT ![p] = t]
    BY <2>31, <2>32, <2>33
  <2>4. /\ heap' \in [Refs -> Device \cup {NoDevice}] /\ heap'[r] \in Device
        /\ \A s \in Refs : heap[s] \in Device => heap'[s] \in Device
    BY <2>1, <2>2, <2>3 DEF Shape, TypeOK
  <2> HIDE DEF t
  <2> QED BY <1>8, <2>1, <2>3, <2>4, AdvanceShape DEF Fetch, Shape, TypeOK, Holding
<1>9. ASSUME NEW p \in Handlers, NotFound(p) \/ FetchFails(p) PROVE Shape'
  <2>1. Busy(p) /\ doubted' \subseteq Ids
    BY <1>9 DEF NotFound, FetchFails, Doubt, Busy, Shape, TypeOK
  <2> QED BY <1>9, <2>1, FinishShape DEF NotFound, FetchFails, Shape, TypeOK
<1>10. ASSUME NEW p \in Handlers, KeepEntry(p) PROVE Shape'
  <2> DEFINE i == task[p].id
             t == IF task[p].op = "get" THEN Idle ELSE [task[p] EXCEPT !.at = "mark"]
  <2>1. /\ Busy(p) /\ i \in Ids /\ task[p].op # "delete" /\ task[p].op # "register"
        /\ task[p].ref \in Refs /\ heap[task[p].ref] \in Device
        /\ task' = [task EXCEPT ![p] = t] /\ cache' = [cache EXCEPT ![i] = task[p].ref]
        /\ CollectGarbage /\ UNCHANGED <<kv, todo, latest, torn, doubted>>
    BY <1>10 DEF KeepEntry, Shape, TypeOK, StageOK, Busy, Holding
  <2>2. /\ t \in Task /\ t.op \in {task[p].op, "get"} /\ t.at \in {"idle", "mark"}
        /\ t.at = "mark" => t.id = i /\ t.ref = task[p].ref /\ t.op = task[p].op /\ t.op # "get"
        /\ t.at = "idle" => t.ref = NoRef
    <3>1. task[p] \in Task
      BY DEF Shape, TypeOK
    <3>2. CASE task[p].op = "get"
      BY <3>2, Shapes DEF Idle
    <3>3. CASE task[p].op # "get"
      BY <3>1, <3>3 DEF Task, Stages
    <3> QED BY <3>2, <3>3
  <2>3. /\ task' \in [Handlers -> Task] /\ task'[p] = t
        /\ \A q \in Handlers : q # p => task'[q] = task[q]
    BY <2>1, <2>2 DEF Shape, TypeOK
  <2>4. /\ cache' \in [Ids -> Refs \cup {NoRef}] /\ cache'[i] = task[p].ref
        /\ \A j \in Ids : j # i => cache'[j] = cache[j]
    BY <2>1 DEF Shape, TypeOK
  <2>5. /\ heap' \in [Refs -> Device \cup {NoDevice}]
        /\ \A j \in Ids : cache'[j] \in Refs => heap'[cache'[j]] = heap[cache'[j]]
        /\ \A q \in Handlers : task'[q].ref \in Refs => heap'[task'[q].ref] = heap[task'[q].ref]
    BY <2>1, Collected DEF Shape, TypeOK
  <2> HIDE DEF t
  <2>6. TypeOK'
    BY <2>1, <2>2, <2>3, <2>4, <2>5 DEF Shape, TypeOK, Busy
  <2>7. StageOK'
    BY <2>1, <2>2, <2>3 DEF Shape, StageOK, Busy, Writes
  <2>8. Filed'
    BY <2>1, <2>2, <2>3, <2>4 DEF Shape, Filed, Busy
  <2> QED BY <2>6, <2>7, <2>8 DEF Shape
<1>11. ASSUME NEW p \in Handlers, Mark(p) \/ Revive(p) PROVE Shape'
  <2> DEFINE at == IF Mark(p) THEN "revive" ELSE "marshal"
             t == [task[p] EXCEPT !.at = at]
             r == task[p].ref
  <2>1. PICK on \in BOOLEAN : heap' = [heap EXCEPT ![r].online = on]
    BY <1>11 DEF Mark, Revive, Shape, TypeOK, Task
  <2>2. /\ Busy(p) /\ task[p].op \notin {"delete", "register", "get"}
        /\ r \in Refs /\ heap[r] \in Device
    BY <1>11 DEF Mark, Revive, Shape, TypeOK, StageOK, Busy, Holding
  <2>3. /\ t \in Task /\ t.op = task[p].op /\ t.id = task[p].id /\ t.ref = r
        /\ t.at \in {"revive", "marshal"} /\ task' = [task EXCEPT ![p] = t]
    BY <1>11 DEF Mark, Revive, Shape, TypeOK, Task, Stages
  <2>4. heap'[r] \in Device /\ heap' = [heap EXCEPT ![r] = heap'[r]]
    BY <2>1, <2>2 DEF Device, Shape, TypeOK
  <2>5. /\ heap' \in [Refs -> Device \cup {NoDevice}]
        /\ \A s \in Refs : heap[s] \in Device => heap'[s] \in Device
    BY <2>2, <2>4 DEF Shape, TypeOK
  <2> HIDE DEF t, at
  <2> QED BY <1>11, <2>2, <2>3, <2>4, <2>5, AdvanceShape DEF Mark, Revive, Shape, TypeOK, Holding
<1>12. ASSUME NEW p \in Handlers, Marshal(p) PROVE Shape'
  <2> DEFINE t == [task[p] EXCEPT !.at = "put", !.doc = heap[task[p].ref]]
  <2>1. /\ Busy(p) /\ task[p].op \notin {"delete", "get"}
        /\ task[p].ref \in Refs /\ heap[task[p].ref] \in Device
    BY <1>12 DEF Marshal, Shape, TypeOK, StageOK, Busy, Holding
  <2>2. /\ t \in Task /\ t.op = task[p].op /\ t.id = task[p].id /\ t.ref = task[p].ref
        /\ t.at = "put" /\ t.doc = heap[task[p].ref] /\ task' = [task EXCEPT ![p] = t]
    BY <1>12, <2>1 DEF Marshal, Shape, TypeOK, Task, Stages
  <2> HIDE DEF t
  <2> QED BY <1>12, <2>1, <2>2, AdvanceShape DEF Marshal, Shape, TypeOK
<1>13. ASSUME NEW p \in Handlers, Put(p) PROVE Shape'
  <2> DEFINE t == [task[p] EXCEPT !.at = "store", !.doc = NoDevice]
  <2>1. /\ Busy(p) /\ task[p].op \notin {"delete", "get"} /\ task[p].id \in Ids
        /\ task[p].ref \in Refs /\ heap[task[p].ref] \in Device
        /\ Stored(task[p].doc) \in Entry
    BY <1>13 DEF Put, Shape, TypeOK, StageOK, Busy, Holding, Stored, Device, Entry
  <2>2. /\ t \in Task /\ t.op = task[p].op /\ t.id = task[p].id /\ t.ref = task[p].ref
        /\ t.at = "store" /\ task' = [task EXCEPT ![p] = t]
    BY <1>13 DEF Put, Shape, TypeOK, Task, Stages
  <2>3. kv' \in [Ids -> Entry \cup {NoDoc}]
    BY <1>13, <2>1 DEF Put, Shape, TypeOK
  <2> HIDE DEF t
  <2> QED BY <1>13, <2>1, <2>2, <2>3, AdvanceShape DEF Put, Shape, TypeOK
<1>14. ASSUME NEW p \in Handlers, PutFails(p) PROVE Shape'
  <2>1. Busy(p) /\ task[p].id \in Ids /\ Stored(task[p].doc) \in Entry
    BY <1>14 DEF PutFails, Shape, TypeOK, Busy, Stored, Device, Entry
  <2>2. kv' \in [Ids -> Entry \cup {NoDoc}] /\ torn' \subseteq Ids /\ doubted' \subseteq Ids
    BY <1>14, <2>1 DEF PutFails, Spoil, Doubt, Shape, TypeOK
  <2> QED BY <1>14, <2>1, <2>2, FinishShape DEF PutFails
<1>15. ASSUME NEW p \in Handlers, Store(p) PROVE Shape'
  <2>1. Busy(p) /\ task[p].at \in Holding
    BY <1>15 DEF Store, Busy, Holding
  <2> QED BY <1>15, <2>1, FinishShape DEF Store, Shape, TypeOK
<1>16. ASSUME NEW p \in Handlers, RemoveEntry(p) PROVE Shape'
  <2> DEFINE t == [task[p] EXCEPT !.at = "drop"]
  <2>1. Busy(p) /\ task[p].op = "delete" /\ task[p].id \in Ids
    BY <1>16 DEF RemoveEntry, Shape, TypeOK, StageOK, Busy
  <2>2. /\ t \in Task /\ t.op = task[p].op /\ t.id = task[p].id /\ t.ref = task[p].ref
        /\ t.at = "drop" /\ task' = [task EXCEPT ![p] = t]
    BY <1>16 DEF RemoveEntry, Shape, TypeOK, Task, Stages
  <2>3. kv' \in [Ids -> Entry \cup {NoDoc}]
    BY <1>16, <2>1 DEF RemoveEntry, Shape, TypeOK
  <2> HIDE DEF t
  <2> QED BY <1>16, <2>1, <2>2, <2>3, AdvanceShape DEF RemoveEntry, Shape, TypeOK, Holding
<1>17. ASSUME NEW p \in Handlers, RemoveFails(p) \/ Drop(p) PROVE Shape'
  <2>1. Busy(p) /\ task[p].id \in Ids
    BY <1>17 DEF RemoveFails, Drop, Shape, TypeOK, Busy
  <2>2. kv' \in [Ids -> Entry \cup {NoDoc}] /\ torn' \subseteq Ids /\ doubted' \subseteq Ids
    BY <1>17, <2>1 DEF RemoveFails, Drop, Spoil, Shape, TypeOK
  <2> QED BY <1>17, <2>1, <2>2, FinishShape DEF RemoveFails, Drop
<1>18. CASE Tick
  <2>1. kv' \in [Ids -> Entry \cup {NoDoc}]
    <3> SUFFICES ASSUME NEW i \in Ids, kv[i] # NoDoc
                 PROVE [kv[i] EXCEPT !.age = IF @ = TTL + 1 THEN @ ELSE @ + 1] \in Entry
      BY <1>18 DEF Tick
    <3>1. kv[i] \in Entry
      BY DEF Shape, TypeOK
    <3> QED BY <3>1 DEF Entry
  <2> QED BY <1>18, <2>1 DEF Tick, Shape, TypeOK, StageOK, Filed, Busy
<1>19. ASSUME NEW i \in Ids, Expire(i) PROVE Shape'
  BY <1>19 DEF Expire, Shape, TypeOK, StageOK, Filed, Busy
<1>20. CASE Restart
  <2>1. /\ task' \in [Handlers -> Task]
        /\ \A p \in Handlers : task'[p].at = "idle" /\ task'[p].ref = NoRef
    BY <1>20, Shapes DEF Restart
  <2>2. /\ torn' \subseteq Ids /\ doubted' \subseteq Ids
        /\ todo' = {} /\ UNCHANGED <<kv, latest>>
    BY <1>20 DEF Restart, Spoil, Doubt, Shape, TypeOK
  <2>3. /\ cache' \in [Ids -> Refs \cup {NoRef}] /\ heap' \in [Refs -> Device \cup {NoDevice}]
        /\ \A i, j \in Ids : cache'[i] = cache'[j] /\ cache'[i] # NoRef => i = j
        /\ \A i \in Ids : cache'[i] # NoRef => heap'[cache'[i]] \in Device
    <3>1. CASE cache' = [i \in Ids |-> NoRef] /\ heap' = [r \in Refs |-> NoDevice]
      BY <3>1
    <3>2. CASE \E own \in [Ids -> Refs] :
             /\ \A i, j \in Ids : own[i] = own[j] => i = j
             /\ cache' = [i \in Ids |-> IF kv[i] = NoDoc THEN NoRef ELSE own[i]]
             /\ heap' = [r \in Refs |->
                   IF \E i \in Ids : cache'[i] = r
                   THEN Decoded(CHOOSE i \in Ids : own[i] = r) ELSE NoDevice]
      <4>1. PICK own \in [Ids -> Refs] :
             /\ \A i, j \in Ids : own[i] = own[j] => i = j
             /\ cache' = [i \in Ids |-> IF kv[i] = NoDoc THEN NoRef ELSE own[i]]
             /\ heap' = [r \in Refs |->
                   IF \E i \in Ids : cache'[i] = r
                   THEN Decoded(CHOOSE i \in Ids : own[i] = r) ELSE NoDevice]
        BY <3>2
      <4>2. ASSUME NEW r \in Refs, NEW i \in Ids, cache'[i] = r
            PROVE  heap'[r] = Decoded(i) /\ Decoded(i) \in Device
        <5>1. own[i] = r /\ kv[i] # NoDoc
          BY <4>1, <4>2
        <5>2. (CHOOSE j \in Ids : own[j] = r) = i
          BY <4>1, <5>1
        <5>3. Decoded(i) \in Device
          BY <5>1 DEF Shape, TypeOK, Entry, Device, Decoded
        <5> QED BY <4>1, <4>2, <5>2, <5>3
      <4>3. heap' \in [Refs -> Device \cup {NoDevice}]
        BY <4>1, <4>2
      <4> QED BY <4>1, <4>2, <4>3
    <3> QED BY <1>20, <3>1, <3>2 DEF Restart
  <2>4. TypeOK'
    BY <2>1, <2>2, <2>3 DEF Shape, TypeOK, Busy
  <2>5. StageOK' /\ Filed'
    BY <2>1, <2>3 DEF StageOK, Filed, Busy
  <2> QED BY <2>4, <2>5 DEF Shape
<1> QED BY <1>1, <1>2, <1>3, <1>4, <1>5, <1>6, <1>7, <1>8, <1>9, <1>10, <1>11, <1>12, <1>13,
           <1>14, <1>15, <1>16, <1>17, <1>18, <1>19, <1>20
        DEF RegistryNext, CalmNext, Heard, HandlerStep

-----------------------------------------------------------------------------
(* A handler that begins meets the others, or is alone.                    *)
LEMMA BeginAlone ==
  ASSUME Shape, Alone, NEW p \in Handlers, ~Busy(p), NEW op \in Ops, NEW i \in Ids,
         Meets(p, op, i), task'[p].id = i, task'[p].op = op,
         \A q \in Handlers : q # p => task'[q] = task[q]
  PROVE  Alone'
<1>1. /\ torn' \cup {i} = torn \cup {i}
      /\ i \notin torn' =>
           \/ op \in Writes /\ \A q \in Handlers : ~Works(q, i)
           \/ op \notin Writes /\ i \notin torn /\ \A q \in Handlers : Works(q, i) => task[q].op \notin Writes
  BY Met DEF Shape
<1>2. \A q \in Handlers, j \in Ids : q # p => (Works(q, j)' <=> Works(q, j))
  BY DEF Works, Busy
<1>3. \A j \in Ids : Works(p, j)' => j = i
  BY DEF Works
<1>4. \A j \in Ids : j # i => (j \in torn' <=> j \in torn)
  BY <1>1
<1>5. ASSUME NEW j \in Ids, NEW q \in Handlers, NEW r \in Handlers,
             Works(q, j)', Works(r, j)', q # r
      PROVE  task'[q].op \in Writes => j \in torn'
  <2>1. CASE j # i
    BY <1>2, <1>3, <1>4, <1>5, <2>1 DEF Alone
  <2>2. CASE j = i /\ q # p /\ r # p
    BY <1>1, <1>2, <1>5, <2>2 DEF Alone
  <2>3. CASE j = i /\ q = p
    BY <1>1, <1>2, <1>5, <2>3
  <2>4. CASE j = i /\ r = p
    BY <1>1, <1>2, <1>5, <2>4
  <2> QED BY <2>1, <2>2, <2>3, <2>4
<1> QED BY <1>5 DEF Alone

(* A handler that goes on or ends meets nobody new.                        *)
LEMMA GoOnAlone ==
  ASSUME Shape, Alone, NEW p \in Handlers, Busy(p),
         task'[p].at = "idle" \/ (task'[p].id = task[p].id /\ task'[p].op = task[p].op),
         \A q \in Handlers : q # p => task'[q] = task[q],
         torn \subseteq torn'
  PROVE  Alone'
<1>1. \A q \in Handlers, j \in Ids :
        Works(q, j)' => Works(q, j) /\ task'[q].op = task[q].op
  BY DEF Works, Busy
<1> QED BY <1>1 DEF Alone

(* A handler other than an announcement begins: it holds nothing yet.      *)
LEMMA BeginBody ==
  ASSUME RegistryInv, NEW p \in Handlers, ~Busy(p), NEW op \in Ops \ {"register"}, NEW i \in Ids,
         NEW at \in {"look", "remove"}, at = "remove" <=> op = "delete", NEW on \in BOOLEAN,
         task' = [task EXCEPT ![p] = Begun(op, i, at, on)], Meets(p, op, i),
         \A j \in Ids : (j # i \/ op \notin Writes) => latest'[j] = latest[j],
         UNCHANGED <<kv, cache, heap>>
  PROVE  Alone' /\ BodyInv'
<1> USE DEF RegistryInv
<1>1. /\ task'[p].op = op /\ task'[p].id = i /\ task'[p].at = at
      /\ \A q \in Handlers : q # p => task'[q] = task[q]
  BY Shapes DEF Shape, TypeOK, Stages
<1>2. /\ torn' \cup {i} = torn \cup {i}
      /\ i \notin torn' =>
           \/ op \in Writes /\ \A q \in Handlers : ~Works(q, i)
           \/ op \notin Writes /\ i \notin torn /\ \A q \in Handlers : Works(q, i) => task[q].op \notin Writes
  BY Met DEF Shape
<1>3. Alone'
  BY <1>1, BeginAlone DEF Ops
<1>4. \A q \in Handlers, j \in Ids : q # p => (Works(q, j)' <=> Works(q, j))
  BY <1>1 DEF Works, Busy
<1>5. /\ \A j \in Ids : j # i => ~Works(p, j)' /\ (j \in torn' <=> j \in torn)
      /\ \A j \in Ids : ~Works(p, j)
      /\ Works(p, i)'
      /\ at \notin Holding /\ at # "put" /\ at # "revive" /\ (at = "remove" => op \in Writes)
      /\ op \in Writes => at = "remove"
  BY <1>1, <1>2 DEF Works, Busy, Holding, Writes
<1>6. BodyInv'
  <2> SUFFICES ASSUME NEW j \in Ids, j \notin torn'
      PROVE /\ (\A q \in Handlers : Works(q, j)' => task'[q].at \notin {"remove"}
                   /\ ~(task'[q].at = "put" /\ task'[q].op = "register"))
                => kv[j] = NoDoc \/ kv[j].body = latest'[j]
            /\ (\A q \in Handlers : Works(q, j)' => task'[q].op \notin Writes)
                => cache[j] = NoRef \/ heap[cache[j]].body = latest'[j]
            /\ \A q \in Handlers : Works(q, j)' =>
                /\ task'[q].at \in Holding => heap[task'[q].ref].body = latest'[j]
                /\ task'[q].at = "put" => task'[q].doc.body = latest'[j]
    BY DEF BodyInv
  <2>1. CASE j # i
    BY <1>1, <1>4, <1>5, <2>1 DEF BodyInv
  <2>2. CASE j = i /\ op \in Writes
    BY <1>1, <1>2, <1>4, <1>5, <2>2
  <2>3. CASE j = i /\ op \notin Writes
    BY <1>1, <1>2, <1>4, <1>5, <2>3 DEF BodyInv
  <2> QED BY <2>1, <2>2, <2>3
<1> QED BY <1>3, <1>6

(* A handler ends without having changed the map or the bucket.            *)
LEMMA FinishBody ==
  ASSUME RegistryInv, NEW p \in Handlers, Busy(p), Finish(p), task[p].op \notin Writes,
         UNCHANGED <<cache, latest, torn>>,
         \A j \in Ids : \/ kv'[j] = kv[j]
                        \/ j = task[p].id /\ task[p].at = "put" /\ kv'[j] = Stored(task[p].doc)
  PROVE  Alone' /\ BodyInv'
<1> USE DEF RegistryInv
<1>1. /\ task'[p].at = "idle"
      /\ \A q \in Handlers : q # p => task'[q] = task[q]
  BY Shapes DEF Finish, Shape, TypeOK
<1>2. /\ \A j \in Ids : cache[j] \in Refs => heap'[cache[j]] = heap[cache[j]]
      /\ \A q \in Handlers : task'[q].ref \in Refs => heap'[task'[q].ref] = heap[task'[q].ref]
  BY Collected DEF Finish
<1>3. /\ \A q \in Handlers, j \in Ids : q # p => (Works(q, j)' <=> Works(q, j))
      /\ \A j \in Ids : ~Works(p, j)'
  BY <1>1 DEF Works, Busy
<1>4. /\ \A q \in Handlers : q # p /\ Busy(q) /\ task[q].at \in Holding => heap'[task[q].ref] = heap[task[q].ref]
      /\ \A j \in Ids : cache[j] # NoRef => heap'[cache[j]] = heap[cache[j]]
  BY <1>1, <1>2 DEF Shape, TypeOK, Holding
<1>5. Alone'
  BY <1>1, GoOnAlone
<1>6. task[p].at # "remove" /\ ~(task[p].at = "put" /\ task[p].op = "register")
  BY DEF Shape, StageOK, Busy, Writes
<1>7. \A j \in Ids : kv'[j] # kv[j] => Works(p, j) /\ task[p].at = "put"
                                       /\ kv'[j].body = task[p].doc.body /\ kv'[j].online = task[p].doc.online
  BY DEF Works, Stored
<1>8. BodyInv'
  BY <1>1, <1>3, <1>4, <1>6, <1>7 DEF BodyInv, Works
<1> QED BY <1>5, <1>8

(* A failed announcement or deletion spoils its device and no other.       *)
LEMMA SpoilBody ==
  ASSUME RegistryInv, NEW p \in Handlers, Busy(p), Finish(p), UNCHANGED <<cache, latest>>,
         Spoil({task[p].id}), \A j \in Ids : j # task[p].id => kv'[j] = kv[j]
  PROVE  Alone' /\ BodyInv'
<1> USE DEF RegistryInv
<1>1. /\ task'[p].at = "idle"
      /\ \A q \in Handlers : q # p => task'[q] = task[q]
  BY Shapes DEF Finish, Shape, TypeOK
<1>2. /\ \A j \in Ids : cache[j] \in Refs => heap'[cache[j]] = heap[cache[j]]
      /\ \A q \in Handlers : task'[q].ref \in Refs => heap'[task'[q].ref] = heap[task'[q].ref]
  BY Collected DEF Finish
<1>3. /\ \A q \in Handlers, j \in Ids : q # p => (Works(q, j)' <=> Works(q, j))
      /\ \A j \in Ids : ~Works(p, j)'
      /\ \A j \in Ids : Works(p, j) => j = task[p].id
  BY <1>1 DEF Works, Busy
<1>4. /\ \A q \in Handlers : q # p /\ Busy(q) /\ task[q].at \in Holding => heap'[task[q].ref] = heap[task[q].ref]
      /\ \A j \in Ids : cache[j] # NoRef => heap'[cache[j]] = heap[cache[j]]
  BY <1>1, <1>2 DEF Shape, TypeOK, Holding
<1>5. torn' = torn \cup {task[p].id}
  BY DEF Spoil
<1>6. Alone'
  BY <1>1, <1>5, GoOnAlone
<1>7. BodyInv'
  BY <1>1, <1>3, <1>4, <1>5 DEF BodyInv, Works
<1> QED BY <1>6, <1>7

(* Every step keeps entries what was last announced, races excepted. *)
LEMMA BodyStep == RegistryInv /\ [RegistryNext]_registryVars => Alone' /\ BodyInv'
<1> SUFFICES ASSUME RegistryInv, [RegistryNext]_registryVars PROVE Alone' /\ BodyInv'
  OBVIOUS
<1> USE RegistryAssumption DEF RegistryInv
<1>1. ASSUME NEW i \in Ids, NEW b \in Bodies, Announce(i, b) PROVE Alone' /\ BodyInv'
  <2> DEFINE a == "announcements"
             dev == [body |-> b, online |-> TRUE]
  <2>1. PICK r \in Free :
          /\ heap' = [heap EXCEPT ![r] = dev]
          /\ task' = [task EXCEPT ![a] = [at |-> "put", op |-> "register", id |-> i,
                                           ref |-> r, on |-> TRUE, doc |-> dev]]
    BY <1>1 DEF Announce
  <2>2. /\ a \in Handlers /\ ~Busy(a) /\ r \in Refs
        /\ \A j \in Ids : cache[j] # r
        /\ \A q \in Handlers : task[q].ref # r
        /\ dev.body = b /\ dev.online
    BY <1>1, <2>1 DEF Announce, CanStart, Free, Held, Handlers
  <2>3. /\ \A q \in Handlers : q # a => task'[q] = task[q]
        /\ task'[a].at = "put" /\ task'[a].op = "register" /\ task'[a].id = i
        /\ task'[a].ref = r /\ task'[a].doc = dev
    BY <2>1, <2>2 DEF Shape, TypeOK
  <2>4. /\ heap'[r] = dev
        /\ \A s \in Refs : s # r => heap'[s] = heap[s]
    BY <2>1, <2>2 DEF Shape, TypeOK
  <2>5. /\ UNCHANGED <<kv, cache>> /\ latest' = [latest EXCEPT ![i] = b]
        /\ Meets(a, "register", i) /\ "register" \in Ops /\ "register" \in Writes
    BY <1>1 DEF Announce, Ops, Writes
  <2>6. /\ latest'[i] = b /\ \A j \in Ids : j # i => latest'[j] = latest[j]
    BY <2>5 DEF Shape, TypeOK
  <2> HIDE DEF dev
  <2>7. /\ torn' \cup {i} = torn \cup {i}
        /\ i \notin torn' => \A q \in Handlers : ~Works(q, i)
    BY <2>2, <2>5, Met DEF Shape
  <2>8. Alone'
    BY <2>2, <2>3, <2>5, BeginAlone
  <2>9. /\ \A q \in Handlers, j \in Ids : q # a => (Works(q, j)' <=> Works(q, j))
        /\ \A j \in Ids : j # i => ~Works(a, j)' /\ (j \in torn' <=> j \in torn)
        /\ \A j \in Ids : ~Works(a, j)
        /\ Works(a, i)'
    BY <2>2, <2>3, <2>7 DEF Works, Busy
  <2>10. /\ \A q \in Handlers : q # a /\ Busy(q) /\ task[q].at \in Holding => heap'[task[q].ref] = heap[task[q].ref]
         /\ \A j \in Ids : cache[j] # NoRef => heap'[cache[j]] = heap[cache[j]]
    BY <2>2, <2>4 DEF Shape, TypeOK, Holding
  <2>11. BodyInv'
    <3> SUFFICES ASSUME NEW j \in Ids, j \notin torn'
        PROVE /\ (\A q \in Handlers : Works(q, j)' => task'[q].at \notin {"remove"}
                     /\ ~(task'[q].at = "put" /\ task'[q].op = "register"))
                  => kv'[j] = NoDoc \/ kv'[j].body = latest'[j]
              /\ (\A q \in Handlers : Works(q, j)' => task'[q].op \notin Writes)
                  => cache'[j] = NoRef \/ heap'[cache'[j]].body = latest'[j]
              /\ \A q \in Handlers : Works(q, j)' =>
                  /\ task'[q].at \in Holding => heap'[task'[q].ref].body = latest'[j]
                  /\ task'[q].at = "put" => task'[q].doc.body = latest'[j]
      BY DEF BodyInv
    <3>1. CASE j # i
      BY <2>3, <2>5, <2>6, <2>9, <2>10, <3>1 DEF BodyInv, Works
    <3>2. CASE j = i
      BY <2>2, <2>3, <2>4, <2>5, <2>6, <2>7, <2>9, <3>2
    <3> QED BY <3>1, <3>2
  <2> QED BY <2>8, <2>11
<1>2. ASSUME NEW i \in Ids, NEW on \in BOOLEAN, Status(i, on) PROVE Alone' /\ BodyInv'
  BY <1>2, BeginBody DEF Status, CanStart, Ops, Handlers
<1>3. ASSUME NEW i \in Ids, GetDevice(i) PROVE Alone' /\ BodyInv'
  BY <1>3, BeginBody DEF GetDevice, CanStart, Ops, Handlers
<1>4. ASSUME NEW i \in Ids, DeleteDevice(i) PROVE Alone' /\ BodyInv'
  <2>1. \A j \in Ids : j # i => latest'[j] = latest[j]
    BY <1>4 DEF DeleteDevice, Shape, TypeOK
  <2> QED BY <1>4, <2>1, BeginBody DEF DeleteDevice, CanStart, Ops, Handlers, Writes
<1>5. ASSUME NEW i \in Ids, MonitorNext(i) PROVE Alone' /\ BodyInv'
  BY <1>5, BeginBody DEF MonitorNext, CanStart, Ops, Handlers
<1>6. CASE MonitorList \/ UNCHANGED registryVars
  BY <1>6 DEF MonitorList, registryVars, Alone, BodyInv, Works, Busy
<1>7. ASSUME NEW p \in Handlers, LookUp(p) PROVE Alone' /\ BodyInv'
  <2> DEFINE i == task[p].id
  <2>1. /\ Busy(p) /\ i \in Ids /\ task[p].op \notin Writes /\ Works(p, i) /\ task[p].at = "look"
        /\ UNCHANGED <<kv, cache, latest, torn, doubted>>
    BY <1>7 DEF LookUp, Shape, TypeOK, StageOK, Busy, Writes, Works
  <2>2. CASE Finish(p)
    BY <2>1, <2>2, FinishBody
  <2>3. CASE UNCHANGED heap /\ cache[i] # NoRef /\ task' = [task EXCEPT ![p].at = "mark", ![p].ref = cache[i]]
    <3>1. /\ task'[p].at = "mark" /\ task'[p].ref = cache[i] /\ task'[p].id = i /\ task'[p].op = task[p].op
          /\ \A q \in Handlers : q # p => task'[q] = task[q]
      BY <2>3 DEF Shape, TypeOK, Task
    <3>2. \A q \in Handlers, j \in Ids : Works(q, j)' <=> Works(q, j)
      BY <2>1, <3>1 DEF Works, Busy
    <3>3. Alone'
      BY <2>1, <3>1, GoOnAlone
    <3>4. BodyInv'
      <4>1. i \notin torn => heap[cache[i]].body = latest[i]
        <5>1. ASSUME i \notin torn, NEW q \in Handlers, Works(q, i) PROVE task[q].op \notin Writes
          BY <2>1, <5>1 DEF Alone
        <5> QED BY <2>1, <2>3, <5>1 DEF BodyInv
      <4>2. ASSUME NEW j \in Ids \ torn, NEW q \in Handlers, Works(q, j)
            PROVE  /\ task'[q].at \in Holding => heap[task'[q].ref].body = latest[j]
                   /\ task'[q].at = "put" => task'[q].doc.body = latest[j]
        BY <2>1, <3>1, <4>1, <4>2 DEF BodyInv, Works
      <4>3. ASSUME NEW q \in Handlers
            PROVE  /\ task'[q].op = task[q].op
                   /\ task'[q].at = "remove" <=> task[q].at = "remove"
                   /\ task'[q].at = "put" <=> task[q].at = "put"
        BY <2>1, <3>1
      <4>4. UNCHANGED <<kv, cache, heap, latest, torn>>
        BY <2>1, <2>3
      <4> QED BY <3>2, <4>2, <4>3, <4>4 DEF BodyInv
    <3> QED BY <3>3, <3>4
  <2>4. CASE UNCHANGED heap /\ task' = [task EXCEPT ![p].at = "fetch"]
    <3>1. /\ task'[p].at = "fetch" /\ task'[p].id = i /\ task'[p].op = task[p].op
          /\ \A q \in Handlers : q # p => task'[q] = task[q]
      BY <2>4 DEF Shape, TypeOK, Task
    <3>2. \A q \in Handlers, j \in Ids : Works(q, j)' <=> Works(q, j)
      BY <2>1, <3>1 DEF Works, Busy
    <3>3. Alone'
      BY <2>1, <3>1, GoOnAlone
    <3>4. BodyInv'
      BY <2>1, <2>4, <3>1, <3>2 DEF BodyInv, Works, Holding
    <3> QED BY <3>3, <3>4
  <2> QED BY <1>7, <2>2, <2>3, <2>4 DEF LookUp
<1>8. ASSUME NEW p \in Handlers, Fetch(p) PROVE Alone' /\ BodyInv'
  <2> DEFINE i == task[p].id
  <2>1. /\ Busy(p) /\ i \in Ids /\ task[p].op \notin Writes /\ Works(p, i) /\ task[p].at = "fetch"
        /\ kv[i] # NoDoc /\ UNCHANGED <<kv, cache, latest, torn, doubted>>
    BY <1>8 DEF Fetch, Shape, TypeOK, StageOK, Busy, Writes, Works
  <2>2. PICK r \in Free : /\ heap' = [heap EXCEPT ![r] = Decoded(i)]
                          /\ task' = [task EXCEPT ![p].at = "keep", ![p].ref = r]
    BY <1>8 DEF Fetch
  <2>3. /\ r \in Refs /\ \A j \in Ids : cache[j] # r
        /\ \A q \in Handlers : task[q].ref # r
    BY <2>2 DEF Free, Held
  <2>4. /\ heap'[r].body = kv[i].body /\ heap'[r].online = kv[i].online
        /\ \A s \in Refs : s # r => heap'[s] = heap[s]
    BY <2>2, <2>3 DEF Shape, TypeOK, Decoded
  <2>5. /\ task'[p].at = "keep" /\ task'[p].ref = r /\ task'[p].id = i /\ task'[p].op = task[p].op
        /\ \A q \in Handlers : q # p => task'[q] = task[q]
    BY <2>2 DEF Shape, TypeOK, Task
  <2>6. \A q \in Handlers, j \in Ids : Works(q, j)' <=> Works(q, j)
    BY <2>1, <2>5 DEF Works, Busy
  <2>7. /\ \A q \in Handlers : q # p /\ Busy(q) /\ task[q].at \in Holding => heap'[task[q].ref] = heap[task[q].ref]
        /\ \A j \in Ids : cache[j] # NoRef => heap'[cache[j]] = heap[cache[j]]
    BY <2>3, <2>4 DEF Shape, TypeOK, Holding
  <2>8. Alone'
    BY <2>1, <2>5, GoOnAlone
  <2>9. \A q \in Handlers : i \notin torn /\ Works(q, i) => task[q].op \notin Writes
    BY <2>1 DEF Alone
  <2>10. BodyInv'
    <3>1. i \notin torn => kv[i].body = latest[i]
      BY <2>1, <2>9 DEF BodyInv, Shape, StageOK, Writes, Works
    <3> QED BY <2>1, <2>4, <2>5, <2>6, <2>7, <3>1 DEF BodyInv, Works
  <2> QED BY <2>8, <2>10
<1>9. ASSUME NEW p \in Handlers, NotFound(p) \/ FetchFails(p) PROVE Alone' /\ BodyInv'
  <2>1. Busy(p) /\ task[p].at = "fetch" /\ task[p].op \notin Writes
    BY <1>9 DEF NotFound, FetchFails, Busy, Shape, StageOK, Writes
  <2> QED BY <1>9, <2>1, FinishBody DEF NotFound, FetchFails
<1>10. ASSUME NEW p \in Handlers, KeepEntry(p) PROVE Alone' /\ BodyInv'
  <2> DEFINE i == task[p].id
             r == task[p].ref
  <2>1. /\ Busy(p) /\ i \in Ids /\ task[p].op \notin Writes /\ Works(p, i) /\ task[p].at = "keep"
        /\ r \in Refs /\ CollectGarbage /\ UNCHANGED <<kv, latest, torn, doubted>>
    BY <1>10 DEF KeepEntry, Shape, TypeOK, StageOK, Busy, Writes, Works, Holding
  <2>2. /\ cache'[i] = r /\ \A j \in Ids : j # i => cache'[j] = cache[j]
    BY <1>10, <2>1 DEF KeepEntry, Shape, TypeOK
  <2>3. /\ \A q \in Handlers : q # p => task'[q] = task[q]
        /\ \/ task'[p].at = "idle"
           \/ task'[p].at = "mark" /\ task'[p].ref = r /\ task'[p].id = i /\ task'[p].op = task[p].op
    <3>1. CASE task[p].op = "get"
      BY <1>10, <3>1, Shapes DEF KeepEntry, Shape, TypeOK
    <3>2. CASE task[p].op # "get"
      BY <1>10, <3>2 DEF KeepEntry, Shape, TypeOK, Task
    <3> QED BY <3>1, <3>2
  <2>4. /\ \A j \in Ids : cache'[j] \in Refs => heap'[cache'[j]] = heap[cache'[j]]
        /\ \A q \in Handlers : task'[q].ref \in Refs => heap'[task'[q].ref] = heap[task'[q].ref]
    BY <2>1, Collected
  <2>5. /\ \A q \in Handlers : q # p /\ Busy(q) /\ task[q].at \in Holding => heap'[task[q].ref] = heap[task[q].ref]
        /\ \A j \in Ids : j # i /\ cache[j] # NoRef => heap'[cache[j]] = heap[cache[j]]
        /\ heap'[r] = heap[r] /\ cache'[i] # NoRef
    BY <2>1, <2>2, <2>3, <2>4 DEF Shape, TypeOK, Holding
  <2>6. /\ \A q \in Handlers, j \in Ids : q # p => (Works(q, j)' <=> Works(q, j))
        /\ \A j \in Ids : Works(p, j)' => j = i /\ task'[p].at = "mark"
    BY <2>3 DEF Works, Busy
  <2>7. Alone'
    BY <2>1, <2>3, GoOnAlone
  <2>8. BodyInv'
    <3>1. i \notin torn => heap[r].body = latest[i]
      BY <2>1 DEF BodyInv, Holding
    <3>2. ASSUME NEW j \in Ids \ torn, NEW q \in Handlers, Works(q, j)'
          PROVE  /\ task'[q].at \in Holding => heap'[task'[q].ref].body = latest[j]
                 /\ task'[q].at = "put" => task'[q].doc.body = latest[j]
      BY <2>3, <2>5, <2>6, <3>1, <3>2 DEF BodyInv, Works
    <3>3. ASSUME NEW j \in Ids \ torn, \A q \in Handlers : Works(q, j)' => task'[q].op \notin Writes
          PROVE  cache'[j] = NoRef \/ heap'[cache'[j]].body = latest[j]
      <4>1. CASE j = i
        BY <2>2, <2>5, <3>1, <4>1
      <4>2. CASE j # i
        BY <2>1, <2>2, <2>3, <2>5, <2>6, <3>3, <4>2 DEF BodyInv, Works
      <4> QED BY <4>1, <4>2
    <3>4. ASSUME NEW j \in Ids \ torn,
                 \A q \in Handlers : Works(q, j)' => /\ task'[q].at \notin {"remove"}
                                                     /\ ~(task'[q].at = "put" /\ task'[q].op = "register")
          PROVE  kv[j] = NoDoc \/ kv[j].body = latest[j]
      <4>1. ASSUME NEW q \in Handlers, Works(q, j)
            PROVE  task[q].at \notin {"remove"} /\ ~(task[q].at = "put" /\ task[q].op = "register")
        BY <2>1, <2>3, <2>6, <3>4, <4>1
      <4> QED BY <4>1 DEF BodyInv
    <3>5. UNCHANGED <<kv, latest, torn>>
      BY <2>1
    <3> QED BY <3>2, <3>3, <3>4, <3>5 DEF BodyInv
  <2> QED BY <2>7, <2>8
<1>11. ASSUME NEW p \in Handlers, Mark(p) \/ Revive(p) PROVE Alone' /\ BodyInv'
  <2> DEFINE i == task[p].id
             r == task[p].ref
             on == IF task[p].at = "mark" THEN task[p].on ELSE TRUE
             at == IF task[p].at = "mark" THEN "revive" ELSE "marshal"
  <2>1. /\ Busy(p) /\ i \in Ids /\ task[p].op \notin Writes /\ Works(p, i) /\ task[p].at \in {"mark", "revive"}
        /\ r \in Refs /\ heap[r] \in Device /\ UNCHANGED <<kv, cache, latest, torn, doubted>>
    BY <1>11 DEF Mark, Revive, Shape, TypeOK, StageOK, Busy, Writes, Works, Holding
  <2>2. heap' = [heap EXCEPT ![r].online = on] /\ task' = [task EXCEPT ![p].at = at]
    BY <1>11 DEF Mark, Revive
  <2>3. /\ task'[p].at = at /\ task'[p].id = i /\ task'[p].op = task[p].op /\ task'[p].ref = r
        /\ \A q \in Handlers : q # p => task'[q] = task[q]
    BY <2>2 DEF Shape, TypeOK, Task
  <2>4. /\ \A s \in Refs : heap[s] \in Device => heap'[s].body = heap[s].body
        /\ \A s \in Refs : s # r => heap'[s] = heap[s]
        /\ heap'[r].online = on
    BY <2>1, <2>2 DEF Shape, TypeOK, Device
  <2>5. \A q \in Handlers, j \in Ids : Works(q, j)' <=> Works(q, j)
    BY <2>1, <2>3 DEF Works, Busy
  <2>6. Alone'
    BY <2>1, <2>3, GoOnAlone
  <2>7. /\ \A q \in Handlers : Busy(q) /\ task[q].at \in Holding => heap'[task[q].ref].body = heap[task[q].ref].body
        /\ \A j \in Ids : cache[j] # NoRef => heap'[cache[j]].body = heap[cache[j]].body
    BY <2>4 DEF Shape, TypeOK, Holding
  <2>8. /\ \A q \in Handlers : task'[q].op = task[q].op /\ task'[q].ref = task[q].ref
        /\ \A q \in Handlers : task'[q].at \in Holding => task[q].at \in Holding
        /\ \A q \in Handlers : task'[q].at = "remove" <=> task[q].at = "remove"
        /\ \A q \in Handlers : task'[q].at = "put" => task[q].at = "put" /\ task'[q].doc = task[q].doc
        /\ \A q \in Handlers : task[q].at = "put" => task'[q].at = "put"
    BY <2>1, <2>3 DEF Holding
  <2>9. BodyInv'
    <3>1. UNCHANGED <<kv, cache, latest, torn>>
      BY <2>1
    <3> QED BY <2>5, <2>7, <2>8, <3>1 DEF BodyInv, Works
  <2> QED BY <2>6, <2>9
<1>12. ASSUME NEW p \in Handlers, Marshal(p) PROVE Alone' /\ BodyInv'
  <2> DEFINE i == task[p].id
             r == task[p].ref
  <2>1. /\ Busy(p) /\ i \in Ids /\ task[p].op \notin Writes /\ Works(p, i) /\ task[p].at = "marshal"
        /\ UNCHANGED <<kv, cache, heap, latest, torn, doubted>>
        /\ task' = [task EXCEPT ![p].at = "put", ![p].doc = heap[r]]
    BY <1>12 DEF Marshal, Shape, TypeOK, StageOK, Busy, Writes, Works
  <2>2. /\ task'[p].at = "put" /\ task'[p].id = i /\ task'[p].op = task[p].op /\ task'[p].ref = r
        /\ task'[p].doc = heap[r] /\ \A q \in Handlers : q # p => task'[q] = task[q]
    BY <2>1 DEF Shape, TypeOK, Task
  <2>3. \A q \in Handlers, j \in Ids : Works(q, j)' <=> Works(q, j)
    BY <2>1, <2>2 DEF Works, Busy
  <2>4. Alone'
    BY <2>1, <2>2, GoOnAlone
  <2>5. ASSUME NEW q \in Handlers
        PROVE  /\ task'[q].op = task[q].op /\ task'[q].ref = task[q].ref
               /\ task'[q].at = "remove" <=> task[q].at = "remove"
               /\ task'[q].at = "revive" <=> task[q].at = "revive"
               /\ (task'[q].at = "put" /\ task'[q].op = "register") <=> (task[q].at = "put" /\ task[q].op = "register")
    BY <2>1, <2>2 DEF Writes
  <2>6. BodyInv'
    <3>1. ASSUME NEW j \in Ids \ torn, NEW q \in Handlers, Works(q, j)
          PROVE  /\ task'[q].at \in Holding => heap[task'[q].ref].body = latest[j]
                 /\ task'[q].at = "put" => task'[q].doc.body = latest[j]
      <4>1. /\ task[q].at \in Holding => heap[task[q].ref].body = latest[j]
            /\ task[q].at = "put" => task[q].doc.body = latest[j]
        BY <3>1 DEF BodyInv
      <4> QED BY <2>1, <2>2, <4>1 DEF Holding
    <3>2. UNCHANGED <<kv, cache, heap, latest, torn>>
      BY <2>1
    <3> QED BY <2>3, <2>5, <3>1, <3>2 DEF BodyInv
  <2> QED BY <2>4, <2>6
<1>13. ASSUME NEW p \in Handlers, Put(p) PROVE Alone' /\ BodyInv'
  <2> DEFINE i == task[p].id
  <2>1. /\ Busy(p) /\ i \in Ids /\ Works(p, i) /\ task[p].at = "put"
        /\ UNCHANGED <<cache, heap, latest, torn, doubted>>
        /\ task' = [task EXCEPT ![p].at = "store", ![p].doc = NoDevice]
        /\ kv' = [kv EXCEPT ![i] = Stored(task[p].doc)]
    BY <1>13 DEF Put, Shape, TypeOK, Busy, Works
  <2>2. /\ task'[p].at = "store" /\ task'[p].id = i /\ task'[p].op = task[p].op /\ task'[p].ref = task[p].ref
        /\ \A q \in Handlers : q # p => task'[q] = task[q]
    BY <2>1 DEF Shape, TypeOK, Task
  <2>3. /\ kv'[i].body = task[p].doc.body /\ kv'[i].online = task[p].doc.online
        /\ \A j \in Ids : j # i => kv'[j] = kv[j]
    BY <2>1 DEF Shape, TypeOK, Stored
  <2>4. \A q \in Handlers, j \in Ids : Works(q, j)' <=> Works(q, j)
    BY <2>1, <2>2 DEF Works, Busy
  <2>5. Alone'
    BY <2>1, <2>2, GoOnAlone
  <2>6. ASSUME NEW q \in Handlers
        PROVE  /\ task'[q].op = task[q].op /\ task'[q].ref = task[q].ref
               /\ task'[q].at = "revive" <=> task[q].at = "revive"
               /\ q # p => task'[q] = task[q]
    BY <2>1, <2>2
  <2>7. \A j \in Ids : Works(p, j) => j = i
    BY DEF Works
  <2>8. BodyInv'
    <3>1. ASSUME NEW j \in Ids \ torn, NEW q \in Handlers, Works(q, j)
          PROVE  /\ task'[q].at \in Holding => heap[task'[q].ref].body = latest[j]
                 /\ task'[q].at = "put" => task'[q].doc.body = latest[j]
      <4>1. /\ task[q].at \in Holding => heap[task[q].ref].body = latest[j]
            /\ task[q].at = "put" => task[q].doc.body = latest[j]
        BY <3>1 DEF BodyInv
      <4> QED BY <2>1, <2>2, <4>1 DEF Holding
    <3>2. ASSUME NEW j \in Ids \ torn,
                 \A q \in Handlers : Works(q, j) => /\ task'[q].at \notin {"remove"}
                                                    /\ ~(task'[q].at = "put" /\ task'[q].op = "register")
          PROVE  kv'[j] = NoDoc \/ kv'[j].body = latest[j]
      <4>1. CASE j = i
        BY <2>1, <2>3, <4>1 DEF BodyInv
      <4>2. CASE j # i
        BY <2>3, <2>6, <2>7, <3>2, <4>2 DEF BodyInv
      <4> QED BY <4>1, <4>2
    <3>3. UNCHANGED <<cache, heap, latest, torn>>
      BY <2>1
    <3> QED BY <2>4, <2>6, <3>1, <3>2, <3>3 DEF BodyInv
  <2> QED BY <2>5, <2>8
<1>14. ASSUME NEW p \in Handlers, PutFails(p) PROVE Alone' /\ BodyInv'
  <2> DEFINE i == task[p].id
  <2>1. /\ Busy(p) /\ i \in Ids /\ task[p].at = "put" /\ Finish(p) /\ UNCHANGED <<cache, latest>>
        /\ kv' = kv \/ kv' = [kv EXCEPT ![i] = Stored(task[p].doc)]
    BY <1>14 DEF PutFails, Shape, TypeOK, Busy
  <2>2. \A j \in Ids : kv'[j] = kv[j] \/ (j = i /\ kv'[j] = Stored(task[p].doc))
    BY <2>1 DEF Shape, TypeOK
  <2>3. CASE task[p].op = "register"
    <3>1. Spoil({task[p].id})
      BY <1>14, <2>3 DEF PutFails
    <3> QED BY <2>1, <2>2, <3>1, SpoilBody
  <2>4. CASE task[p].op # "register"
    <3>1. UNCHANGED torn
      BY <1>14, <2>4 DEF PutFails, Spoil
    <3>2. task[p].op \notin Writes
      BY <2>1, <2>4 DEF Shape, StageOK, Writes
    <3> QED BY <2>1, <2>2, <3>1, <3>2, FinishBody
  <2> QED BY <2>3, <2>4
<1>15. ASSUME NEW p \in Handlers, Store(p) PROVE Alone' /\ BodyInv'
  <2> DEFINE i == task[p].id
             r == task[p].ref
  <2>1. /\ Busy(p) /\ i \in Ids /\ Works(p, i) /\ task[p].at = "store" /\ r \in Refs
        /\ Finish(p) /\ cache' = [cache EXCEPT ![i] = r] /\ UNCHANGED <<kv, latest, torn, doubted>>
    BY <1>15 DEF Store, Shape, TypeOK, Busy, Works, Holding
  <2>2. cache'[i] = r /\ \A j \in Ids : j # i => cache'[j] = cache[j]
    BY <2>1 DEF Shape, TypeOK
  <2>3. task'[p].at = "idle" /\ \A q \in Handlers : q # p => task'[q] = task[q]
    BY <2>1, Shapes DEF Finish, Shape, TypeOK
  <2>4. /\ \A j \in Ids : cache'[j] \in Refs => heap'[cache'[j]] = heap[cache'[j]]
        /\ \A q \in Handlers : task'[q].ref \in Refs => heap'[task'[q].ref] = heap[task'[q].ref]
    BY <2>1, Collected DEF Finish
  <2>5. /\ \A q \in Handlers : q # p /\ Busy(q) /\ task[q].at \in Holding => heap'[task[q].ref] = heap[task[q].ref]
        /\ \A j \in Ids : j # i /\ cache[j] # NoRef => heap'[cache[j]] = heap[cache[j]]
        /\ heap'[r] = heap[r]
    BY <2>1, <2>2, <2>3, <2>4 DEF Shape, TypeOK, Holding
  <2>6. /\ \A q \in Handlers, j \in Ids : q # p => (Works(q, j)' <=> Works(q, j))
        /\ \A j \in Ids : ~Works(p, j)' /\ (Works(p, j) => j = i)
    BY <2>3 DEF Works, Busy
  <2>7. Alone'
    BY <2>1, <2>3, GoOnAlone
  <2>8. BodyInv'
    <3>1. i \notin torn => heap[r].body = latest[i]
      BY <2>1 DEF BodyInv, Holding
    <3>2. ASSUME NEW j \in Ids \ torn, NEW q \in Handlers, Works(q, j)'
          PROVE  /\ task'[q].at \in Holding => heap'[task'[q].ref].body = latest[j]
                 /\ task'[q].at = "put" => task'[q].doc.body = latest[j]
      BY <2>3, <2>5, <2>6, <3>2 DEF BodyInv, Works
    <3>3. ASSUME NEW j \in Ids \ torn, \A q \in Handlers : Works(q, j)' => task'[q].op \notin Writes
          PROVE  cache'[j] = NoRef \/ heap'[cache'[j]].body = latest[j]
      <4>1. CASE j = i
        BY <2>2, <2>5, <3>1, <4>1
      <4>2. CASE j # i
        BY <2>2, <2>3, <2>5, <2>6, <3>3, <4>2 DEF BodyInv
      <4> QED BY <4>1, <4>2
    <3>4. ASSUME NEW j \in Ids \ torn,
                 \A q \in Handlers : Works(q, j)' => /\ task'[q].at \notin {"remove"}
                                                     /\ ~(task'[q].at = "put" /\ task'[q].op = "register")
          PROVE  kv[j] = NoDoc \/ kv[j].body = latest[j]
      <4>1. ASSUME NEW q \in Handlers, Works(q, j)
            PROVE  task[q].at \notin {"remove"} /\ ~(task[q].at = "put" /\ task[q].op = "register")
        BY <2>1, <2>3, <2>6, <3>4, <4>1
      <4> QED BY <4>1 DEF BodyInv
    <3>5. UNCHANGED <<kv, latest, torn>>
      BY <2>1
    <3> QED BY <3>2, <3>3, <3>4, <3>5 DEF BodyInv
  <2> QED BY <2>7, <2>8
<1>16. ASSUME NEW p \in Handlers, RemoveEntry(p) PROVE Alone' /\ BodyInv'
  <2> DEFINE i == task[p].id
  <2>1. /\ Busy(p) /\ i \in Ids /\ Works(p, i) /\ task[p].at = "remove"
        /\ UNCHANGED <<cache, heap, latest, torn, doubted>>
        /\ task' = [task EXCEPT ![p].at = "drop"] /\ kv' = [kv EXCEPT ![i] = NoDoc]
    BY <1>16 DEF RemoveEntry, Shape, TypeOK, Busy, Works
  <2>2. /\ task'[p].at = "drop" /\ task'[p].id = i /\ task'[p].op = task[p].op /\ task'[p].ref = task[p].ref
        /\ \A q \in Handlers : q # p => task'[q] = task[q]
    BY <2>1 DEF Shape, TypeOK, Task
  <2>3. kv'[i] = NoDoc /\ \A j \in Ids : j # i => kv'[j] = kv[j]
    BY <2>1 DEF Shape, TypeOK
  <2>4. /\ \A q \in Handlers, j \in Ids : Works(q, j)' <=> Works(q, j)
        /\ \A j \in Ids : Works(p, j) => j = i
    BY <2>1, <2>2 DEF Works, Busy
  <2>5. Alone'
    BY <2>1, <2>2, GoOnAlone
  <2>6. \A q \in Handlers :
          /\ task'[q].op = task[q].op /\ task'[q].ref = task[q].ref
          /\ task'[q].at = "revive" <=> task[q].at = "revive"
          /\ task'[q].at \in Holding => q # p
          /\ q # p => task'[q] = task[q]
    BY <2>1, <2>2 DEF Holding
  <2>7. BodyInv'
    <3>1. ASSUME NEW j \in Ids \ torn,
                 \A q \in Handlers : Works(q, j) => /\ task'[q].at \notin {"remove"}
                                                    /\ ~(task'[q].at = "put" /\ task'[q].op = "register")
          PROVE  kv'[j] = NoDoc \/ kv'[j].body = latest[j]
      BY <2>3, <2>4, <2>6, <3>1 DEF BodyInv
    <3>2. UNCHANGED <<cache, heap, latest, torn>>
      BY <2>1
    <3>3. \A q \in Handlers : task'[q].at = "put" => q # p
      BY <2>2
    <3> QED BY <2>4, <2>6, <3>1, <3>2, <3>3 DEF BodyInv
  <2> QED BY <2>5, <2>7
<1>17. ASSUME NEW p \in Handlers, RemoveFails(p) PROVE Alone' /\ BodyInv'
  <2>1. Busy(p) /\ task[p].id \in Ids /\ \A j \in Ids : j # task[p].id => kv'[j] = kv[j]
    BY <1>17 DEF RemoveFails, Shape, TypeOK, Busy
  <2> QED BY <1>17, <2>1, SpoilBody DEF RemoveFails
<1>18. ASSUME NEW p \in Handlers, Drop(p) PROVE Alone' /\ BodyInv'
  <2> DEFINE i == task[p].id
  <2>1. /\ Busy(p) /\ i \in Ids /\ Works(p, i) /\ task[p].at = "drop"
        /\ Finish(p) /\ cache' = [cache EXCEPT ![i] = NoRef] /\ UNCHANGED <<kv, latest, torn, doubted>>
    BY <1>18 DEF Drop, Shape, TypeOK, Busy, Works
  <2>2. cache'[i] = NoRef /\ \A j \in Ids : j # i => cache'[j] = cache[j]
    BY <2>1 DEF Shape, TypeOK
  <2>3. task'[p].at = "idle" /\ \A q \in Handlers : q # p => task'[q] = task[q]
    BY <2>1, Shapes DEF Finish, Shape, TypeOK
  <2>4. /\ \A j \in Ids : cache'[j] \in Refs => heap'[cache'[j]] = heap[cache'[j]]
        /\ \A q \in Handlers : task'[q].ref \in Refs => heap'[task'[q].ref] = heap[task'[q].ref]
    BY <2>1, Collected DEF Finish
  <2>5. /\ \A q \in Handlers : q # p /\ Busy(q) /\ task[q].at \in Holding => heap'[task[q].ref] = heap[task[q].ref]
        /\ \A j \in Ids : j # i /\ cache[j] # NoRef => heap'[cache[j]] = heap[cache[j]]
    BY <2>1, <2>2, <2>3, <2>4 DEF Shape, TypeOK, Holding
  <2>6. /\ \A q \in Handlers, j \in Ids : q # p => (Works(q, j)' <=> Works(q, j))
        /\ \A j \in Ids : ~Works(p, j)' /\ (Works(p, j) => j = i)
    BY <2>3 DEF Works, Busy
  <2>7. Alone'
    BY <2>1, <2>3, GoOnAlone
  <2>8. BodyInv'
    BY <2>1, <2>2, <2>3, <2>5, <2>6 DEF BodyInv, Works
  <2> QED BY <2>7, <2>8
<1>19. CASE Tick
  <2>1. /\ UNCHANGED <<cache, heap, task, latest, torn, doubted>>
        /\ \A i \in Ids : kv[i] = NoDoc => kv'[i] = NoDoc
        /\ \A i \in Ids : kv[i] # NoDoc => kv'[i].body = kv[i].body /\ kv'[i].online = kv[i].online
    <3>1. \A i \in Ids : kv[i] # NoDoc => kv[i] \in Entry
      BY DEF Shape, TypeOK
    <3> QED BY <1>19, <3>1 DEF Tick, Entry
  <2> QED BY <2>1 DEF Alone, BodyInv, Works, Busy
<1>20. ASSUME NEW i \in Ids, Expire(i) PROVE Alone' /\ BodyInv'
  <2>1. /\ UNCHANGED <<cache, heap, task, latest, torn, doubted>>
        /\ \A j \in Ids : kv'[j] \in {kv[j], NoDoc}
    BY <1>20 DEF Expire, Shape, TypeOK
  <2> QED BY <2>1 DEF Alone, BodyInv, Works, Busy
<1>21. CASE Restart
  <2>1. /\ \A p \in Handlers, i \in Ids : ~Works(p, i)'
        /\ UNCHANGED <<kv, latest>> /\ torn' = torn \cup {i \in Ids : Writing(i) # {}}
    BY <1>21, Shapes DEF Restart, Spoil, Works, Busy
  <2>2. \A i \in Ids : i \notin torn' => \A p \in Handlers : Works(p, i) => task[p].op \notin Writes
    BY <2>1 DEF Writing, Serving, Works
  <2>3. \A p \in Handlers : Busy(p) /\ task[p].op \notin Writes =>
          task[p].at # "remove" /\ ~(task[p].at = "put" /\ task[p].op = "register")
    BY DEF Shape, StageOK, Writes
  <2>4. \A i \in Ids : \/ cache'[i] = NoRef
                       \/ /\ kv[i] # NoDoc
                          /\ heap'[cache'[i]].body = kv[i].body
                          /\ heap'[cache'[i]].online = kv[i].online
    <3>1. CASE cache' = [i \in Ids |-> NoRef]
      BY <3>1
    <3>2. CASE \E own \in [Ids -> Refs] :
             /\ \A i, j \in Ids : own[i] = own[j] => i = j
             /\ cache' = [i \in Ids |-> IF kv[i] = NoDoc THEN NoRef ELSE own[i]]
             /\ heap' = [r \in Refs |->
                   IF \E i \in Ids : cache'[i] = r
                   THEN Decoded(CHOOSE i \in Ids : own[i] = r) ELSE NoDevice]
      <4>1. PICK own \in [Ids -> Refs] :
             /\ \A i, j \in Ids : own[i] = own[j] => i = j
             /\ cache' = [i \in Ids |-> IF kv[i] = NoDoc THEN NoRef ELSE own[i]]
             /\ heap' = [r \in Refs |->
                   IF \E i \in Ids : cache'[i] = r
                   THEN Decoded(CHOOSE i \in Ids : own[i] = r) ELSE NoDevice]
        BY <3>2
      <4>2. ASSUME NEW i \in Ids, kv[i] # NoDoc
            PROVE  heap'[cache'[i]] = Decoded(i)
        <5>1. cache'[i] = own[i] /\ own[i] \in Refs
          BY <4>1, <4>2
        <5>2. (CHOOSE j \in Ids : own[j] = own[i]) = i
          BY <4>1
        <5> QED BY <4>1, <5>1, <5>2
      <4> QED BY <4>1, <4>2 DEF Decoded
    <3> QED BY <1>21, <3>1, <3>2 DEF Restart
  <2>5. \A i \in Ids \ torn' : kv[i] = NoDoc \/ kv[i].body = latest[i]
    BY <2>1, <2>2, <2>3 DEF BodyInv, Works
  <2>6. Alone'
    BY <2>1 DEF Alone
  <2>7. BodyInv'
    BY <2>1, <2>4, <2>5 DEF BodyInv
  <2> QED BY <2>6, <2>7
<1> QED BY <1>1, <1>2, <1>3, <1>4, <1>5, <1>6, <1>7, <1>8, <1>9, <1>10, <1>11, <1>12, <1>13,
           <1>14, <1>15, <1>16, <1>17, <1>18, <1>19, <1>20, <1>21
        DEF RegistryNext, CalmNext, Heard, HandlerStep

-----------------------------------------------------------------------------
(* The registry keeps its invariant in every behaviour. *)
LEMMA Invariance == RegistrySpec => []RegistryInv
<1>1. RegistryInit => RegistryInv
  BY InitInv
<1>2. RegistryInv /\ [RegistryNext]_registryVars => RegistryInv'
  BY ShapeStep, BodyStep DEF RegistryInv
<1> QED BY <1>1, <1>2, PTL DEF RegistrySpec

(* What the invariant says of the bucket and the map where nobody writes.  *)
LEMMA Consequences == RegistryInv => TypeOK /\ BucketLatest /\ CacheLatest
<1> SUFFICES ASSUME RegistryInv PROVE BucketLatest /\ CacheLatest
  BY DEF RegistryInv, Shape
<1> USE DEF RegistryInv
<1>1. ASSUME NEW i \in Ids, Writing(i) = {}
      PROVE  \A p \in Handlers : Works(p, i) =>
               /\ task[p].op \notin Writes /\ task[p].at # "remove"
               /\ ~(task[p].at = "put" /\ task[p].op = "register")
  BY <1>1 DEF Writing, Serving, Works, Shape, StageOK, Writes
<1> QED BY <1>1 DEF BodyInv, BucketLatest, CacheLatest

(* The state keeps its shape: every goroutine past Get points to a device. *)
THEOREM TypeCorrect == RegistrySpec => []TypeOK
  BY Invariance, Consequences, PTL

(* The bucket holds what a device announced last, or nothing, unless an    *)
(* announcement or a deletion overlapped another handler or failed: status *)
(* updates and the monitor bring nothing older back.                       *)
THEOREM BucketHoldsLatest == RegistrySpec => []BucketLatest
  BY Invariance, Consequences, PTL

(* The map in front of the bucket holds it too, or nothing.                *)
THEOREM CacheHoldsLatest == RegistrySpec => []CacheLatest
  BY Invariance, Consequences, PTL

-----------------------------------------------------------------------------
(* A device nobody has called offline since it reported: whoever updates   *)
(* it has a true flag to store, and until that is stored the bucket may    *)
(* still have the old one.                                                 *)
Early == {"look", "fetch", "keep", "mark", "revive", "marshal", "put"}

(* An announcement is stored as online whatever else is said.              *)
AnnouncedInv == \A p \in Handlers : Busy(p) /\ task[p].op = "register" =>
    task[p].on /\ (task[p].at = "put" => task[p].doc.online)

OnlineInv == \A i \in Ids \ doubted :
    /\ \A p \in Handlers : Works(p, i) =>
         /\ task[p].op # "offline"
         /\ task[p].op \in {"register", "status"} => task[p].on
         /\ task[p].at = "marshal" => heap[task[p].ref].online
         /\ task[p].at = "put" => task[p].doc.online
    /\ \/ kv[i] = NoDoc \/ kv[i].online
       \/ \E p \in Handlers : /\ Works(p, i) /\ task[p].op \in {"register", "status"}
                              /\ task[p].at \in Early

(* What a step that is told nothing must leave alone. *)
LEMMA OnlineFrame ==
  ASSUME Shape, OnlineInv, doubted \subseteq doubted', NEW i \in Ids, i \notin doubted',
         kv'[i] # NoDoc /\ ~kv'[i].online => kv[i] # NoDoc /\ ~kv[i].online,
         \A p \in Handlers : Works(p, i)' =>
           Works(p, i) /\ task'[p].op = task[p].op /\ task'[p].on = task[p].on,
         \A p \in Handlers : Works(p, i)' /\ task'[p].at = "marshal" => heap'[task'[p].ref].online,
         \A p \in Handlers : Works(p, i)' /\ task'[p].at = "put" => task'[p].doc.online,
         \A p \in Handlers : /\ Works(p, i) /\ task[p].op \in {"register", "status"}
                             /\ task[p].at \in Early /\ kv'[i] # NoDoc /\ ~kv'[i].online
           => Works(p, i)' /\ task'[p].at \in Early
  PROVE  /\ \A p \in Handlers : Works(p, i)' =>
              /\ task'[p].op # "offline"
              /\ task'[p].op \in {"register", "status"} => task'[p].on
              /\ task'[p].at = "marshal" => heap'[task'[p].ref].online
              /\ task'[p].at = "put" => task'[p].doc.online
         /\ \/ kv'[i] = NoDoc \/ kv'[i].online
            \/ \E p \in Handlers : /\ Works(p, i)' /\ task'[p].op \in {"register", "status"}
                                   /\ task'[p].at \in Early
BY DEF OnlineInv

(* A goroutine that begins: a report ends the doubt when nobody updates    *)
(* the device, and is there to store it.                                   *)
LEMMA OnlineBegin ==
  ASSUME Shape, AnnouncedInv, OnlineInv, NEW p \in Handlers, ~Busy(p), NEW i \in Ids,
         NEW op \in Ops, NEW on \in BOOLEAN, op = "offline" => ~on, op = "register" => on,
         task'[p].op = op, task'[p].on = on, task'[p].id = i,
         task'[p].at \in {"look", "put", "remove"},
         task'[p].at = "put" => task'[p].doc.online,
         op \in {"register", "status"} => task'[p].at \in {"look", "put"},
         op \in {"register", "status", "offline"} => Told(i, on),
         op \in {"get", "delete"} => doubted' = doubted,
         \A q \in Handlers : q # p => task'[q] = task[q],
         \A q \in Handlers : Busy(q) /\ task[q].at = "marshal" => heap'[task[q].ref] = heap[task[q].ref],
         kv' = kv
  PROVE  OnlineInv'
<1>1. /\ \A q \in Handlers, j \in Ids : q # p => (Works(q, j)' <=> Works(q, j))
      /\ \A j \in Ids : Works(p, j)' <=> j = i
      /\ \A j \in Ids : ~Works(p, j)
  BY DEF Works, Busy
<1>2. SUFFICES ASSUME NEW j \in Ids, j \notin doubted'
               PROVE  /\ \A q \in Handlers : Works(q, j)' =>
                           /\ task'[q].op # "offline"
                           /\ task'[q].op \in {"register", "status"} => task'[q].on
                           /\ task'[q].at = "marshal" => heap'[task'[q].ref].online
                           /\ task'[q].at = "put" => task'[q].doc.online
                      /\ \/ kv'[j] = NoDoc \/ kv'[j].online
                         \/ \E q \in Handlers :
                              /\ Works(q, j)' /\ task'[q].op \in {"register", "status"}
                              /\ task'[q].at \in Early
  BY DEF OnlineInv
<1>3. \A q \in Handlers : q # p /\ Works(q, j)' /\ task'[q].at = "marshal" =>
        heap'[task'[q].ref] = heap[task[q].ref] /\ task[q].at = "marshal"
  BY <1>1 DEF Works
<1>4. CASE j \notin doubted /\ (j = i => op # "offline" /\ (op \in {"register", "status"} => on))
  BY <1>1, <1>3, <1>4 DEF OnlineInv
<1>5. CASE j \notin doubted /\ j = i /\ ~(op # "offline" /\ (op \in {"register", "status"} => on))
  BY <1>2, <1>5 DEF Told
<1>6. CASE j \in doubted
  <2>1. op \in {"register", "status", "offline"}
    BY <1>2, <1>6 DEF Ops
  <2>2. on /\ Updating(i) = {} /\ j = i /\ op # "offline"
    BY <1>2, <1>6, <2>1 DEF Told
  <2>3. \A q \in Handlers : Works(q, i) => task[q].op \notin {"status", "offline"}
    BY <2>2 DEF Updating, Serving, Works
  <2>4. \A q \in Handlers : Works(q, i) /\ task[q].op = "register" =>
          task[q].on /\ (task[q].at = "put" => task[q].doc.online) /\ task[q].at \in {"put", "store"}
    BY DEF Works, AnnouncedInv, Shape, StageOK, Writes
  <2>5. \A q \in Handlers : Works(q, i) => task[q].op \in {"register", "get", "delete"}
                                           /\ task[q].at # "marshal"
                                           /\ (task[q].at = "put" => task[q].op = "register")
    BY <2>3 DEF Works, Shape, TypeOK, Task, Ops, StageOK, Writes
  <2>6. \A q \in Handlers : q # p /\ Works(q, i)' => Works(q, i) /\ task'[q] = task[q]
    BY <1>1
  <2>7. \A q \in Handlers : q # p /\ Works(q, i)' =>
           /\ task'[q].op # "offline" /\ task'[q].at # "marshal"
           /\ task'[q].op \in {"register", "status"} => task'[q].on
           /\ task'[q].at = "put" => task'[q].doc.online
    BY <2>3, <2>5, <2>6, <2>4
  <2>8. task'[p].at # "marshal" /\ op \in {"register", "status"} /\ task'[p].at \in Early
    BY <2>1, <2>2 DEF Early
  <2>. QED
    BY <1>1, <2>2, <2>7, <2>8
<1>. QED
  BY <1>4, <1>5, <1>6

(* What a goroutine does by itself, and how it may fail.                   *)
Steps(p) == HandlerStep(p) \/ FetchFails(p) \/ PutFails(p) \/ RemoveFails(p)

(* A goroutine that ends or goes on keeps it when the device it is about   *)
(* to write back, and those of the others, are online.                     *)
LEMMA OnlineKept ==
  ASSUME Shape, AnnouncedInv, OnlineInv, NEW p \in Handlers, Busy(p), doubted \subseteq doubted',
         \A q \in Handlers : q # p => task'[q] = task[q],
         \/ task'[p].at = "idle"
         \/ task'[p].id = task[p].id /\ task'[p].op = task[p].op /\ task'[p].on = task[p].on,
         task[p].op = "register" => task'[p].at # "put",
         \A q \in Handlers : task'[q].at = "marshal" /\ task'[q].id \in Ids \ doubted' =>
           heap'[task'[q].ref].online,
         task'[p].at = "put" /\ task[p].id \in Ids \ doubted' => task'[p].doc.online,
         \A j \in Ids \ doubted' : kv'[j] # NoDoc /\ ~kv'[j].online =>
           /\ kv[j] # NoDoc /\ ~kv[j].online
           /\ Works(p, j) /\ task[p].op \in {"register", "status"} /\ task[p].at \in Early =>
                task'[p].at \in Early
  PROVE  AnnouncedInv' /\ OnlineInv'
<1>1. \A q \in Handlers, j \in Ids :
        Works(q, j)' => Works(q, j) /\ task'[q].op = task[q].op /\ task'[q].on = task[q].on
  BY DEF Works, Busy
<1>2. AnnouncedInv'
  BY DEF AnnouncedInv, Busy
<1>3. ASSUME NEW j \in Ids, j \notin doubted'
      PROVE  /\ \A q \in Handlers : Works(q, j)' =>
                  /\ task'[q].op # "offline"
                  /\ task'[q].op \in {"register", "status"} => task'[q].on
                  /\ task'[q].at = "marshal" => heap'[task'[q].ref].online
                  /\ task'[q].at = "put" => task'[q].doc.online
             /\ \/ kv'[j] = NoDoc \/ kv'[j].online
                \/ \E q \in Handlers : /\ Works(q, j)' /\ task'[q].op \in {"register", "status"}
                                       /\ task'[q].at \in Early
  <2>1. j \notin doubted
    BY <1>3
  <2>2. \A q \in Handlers : Works(q, j)' /\ task'[q].at = "marshal" => heap'[task'[q].ref].online
    BY <1>3 DEF Works
  <2>3. \A q \in Handlers : Works(q, j)' /\ task'[q].at = "put" => task'[q].doc.online
    <3>1. \A q \in Handlers : q # p /\ Works(q, j)' => Works(q, j) /\ task'[q] = task[q]
      BY <1>1
    <3>2. Works(p, j)' => task[p].id = j
      BY <1>1 DEF Works
    <3> QED BY <1>3, <2>1, <3>1, <3>2 DEF OnlineInv
  <2>4. \A q \in Handlers : /\ Works(q, j) /\ task[q].op \in {"register", "status"}
                            /\ task[q].at \in Early /\ kv'[j] # NoDoc /\ ~kv'[j].online
          => Works(q, j)' /\ task'[q].at \in Early
    BY <1>3 DEF Works, Busy, Early
  <2>5. kv'[j] # NoDoc /\ ~kv'[j].online => kv[j] # NoDoc /\ ~kv[j].online
    BY <1>3
  <2> QED BY <1>1, <1>3, <2>2, <2>3, <2>4, <2>5, OnlineFrame
<1> QED BY <1>2, <1>3 DEF OnlineInv

(* A goroutine that goes on stores only what it was told, or is in doubt.  *)
LEMMA OnlineGoesOn ==
  ASSUME Shape, AnnouncedInv, OnlineInv, NEW p \in Handlers, Steps(p)
  PROVE  AnnouncedInv' /\ OnlineInv'
<1> DEFINE i == task[p].id
<1>1. /\ \A q \in Handlers : q # p => task'[q] = task[q]
      /\ Busy(p) /\ i \in Ids /\ task[p] \in Task
      /\ doubted \subseteq doubted'
  BY DEF Steps, HandlerStep, LookUp, Fetch, NotFound, KeepEntry, Mark, Revive, Marshal, Put, Store,
     RemoveEntry, Drop, FetchFails, PutFails, RemoveFails, Finish, Doubt, Shape, TypeOK, Busy
<1>2. Works(p, i) /\ \A j \in Ids : Works(p, j) => j = i
  BY <1>1 DEF Works
<1>3. \A q \in Handlers, j \in Ids : Works(q, j) /\ task[q].at = "marshal" /\ j \notin doubted =>
        heap[task[q].ref].online
  BY DEF OnlineInv
<1>4. \A q \in Handlers : task[q].at = "marshal" => task[q].ref \in Refs /\ task[q].id \in Ids /\ Busy(q)
  BY DEF Shape, TypeOK, Busy
<1>5. ASSUME CollectGarbage, \A q \in Handlers : task'[q].at = "marshal" => task'[q] = task[q]
      PROVE  \A q \in Handlers : task'[q].at = "marshal" /\ task'[q].id \in Ids \ doubted' =>
               heap'[task'[q].ref].online
  BY <1>1, <1>3, <1>4, <1>5, Collected DEF Works
<1>6. ASSUME Finish(p), \A j \in Ids \ doubted' : kv'[j] # NoDoc /\ ~kv'[j].online =>
                          /\ kv[j] # NoDoc /\ ~kv[j].online
                          /\ task[p].at = "fetch" /\ task[p].op # "get" => j # i
      PROVE  (task[p].at \in {"look", "keep"} => task[p].op = "get") /\ (task[p].at = "put" => i \in doubted')
               /\ task[p].at \notin {"mark", "revive", "marshal"}
               => AnnouncedInv' /\ OnlineInv'
  <2>1. task'[p].at = "idle"
    BY <1>6, Shapes DEF Finish, Shape, TypeOK
  <2>2. \A q \in Handlers : task'[q].at = "marshal" => task'[q] = task[q]
    BY <1>1, <2>1
  <2>3. \A q \in Handlers : task'[q].at = "marshal" /\ task'[q].id \in Ids \ doubted' =>
               heap'[task'[q].ref].online
    BY <1>5, <1>6, <2>2 DEF Finish
  <2> QED BY <1>1, <1>2, <1>6, <2>1, <2>3, OnlineKept DEF Early
<1>7. CASE (LookUp(p) /\ Finish(p)) \/ NotFound(p) \/ FetchFails(p) \/ Store(p) \/ RemoveFails(p) \/ Drop(p)
  <2>1. /\ Finish(p) /\ \A j \in Ids : kv'[j] # NoDoc => kv'[j] = kv[j]
        /\ task[p].at = "look" => task[p].op = "get"
        /\ task[p].at \in {"look", "fetch", "store", "remove", "drop"}
        /\ task[p].at = "fetch" /\ task[p].op # "get" => kv[i] = NoDoc \/ i \in doubted'
    <3>1. CASE LookUp(p) /\ Finish(p)
      <4>1. task'[p].at = "idle" /\ kv' = kv /\ task[p].at = "look"
        BY <1>1, <3>1, Shapes DEF LookUp, Finish, Shape, TypeOK
      <4>2. task'[p].at = "idle" => task[p].op = "get"
        BY <1>1, <3>1 DEF LookUp, Shape, TypeOK, Task
      <4> QED BY <3>1, <4>1, <4>2
    <3>2. CASE NotFound(p) \/ FetchFails(p)
      BY <1>1, <3>2 DEF NotFound, FetchFails, Doubt
    <3>3. CASE Store(p) \/ Drop(p)
      BY <1>1, <3>3 DEF Store, Drop
    <3>4. CASE RemoveFails(p)
      BY <1>1, <3>4 DEF RemoveFails, Shape, TypeOK
    <3> QED BY <1>7, <3>1, <3>2, <3>3, <3>4
  <2> QED BY <1>6, <2>1
<1>8. CASE PutFails(p)
  <2>1. /\ Finish(p) /\ i \in doubted' /\ task[p].at = "put"
        /\ \A j \in Ids : j # i => kv'[j] = kv[j]
    BY <1>8 DEF PutFails, Doubt, Shape, TypeOK
  <2> QED BY <1>6, <2>1
<1>9. CASE LookUp(p) /\ ~Finish(p)
  <2>1. /\ UNCHANGED <<kv, heap, doubted>> /\ task'[p].at \in {"fetch", "mark"} /\ task'[p].id = i
        /\ task'[p].op = task[p].op /\ task'[p].on = task[p].on
    BY <1>1, <1>9 DEF LookUp, Shape, TypeOK, Task
  <2> QED BY <1>1, <1>2, <1>3, <1>4, <2>1, OnlineKept DEF Early, Works
<1>10. CASE Fetch(p)
  <2>1. PICK r \in Free : /\ heap' = [heap EXCEPT ![r] = Decoded(i)]
                          /\ task' = [task EXCEPT ![p].at = "keep", ![p].ref = r]
    BY <1>10 DEF Fetch
  <2>2. /\ task'[p].at = "keep" /\ task'[p].id = i /\ task'[p].op = task[p].op /\ task'[p].on = task[p].on
        /\ UNCHANGED <<kv, doubted>>
    BY <1>1, <1>10, <2>1 DEF Fetch, Shape, TypeOK, Task
  <2>3. \A q \in Handlers : task[q].ref # r
    BY DEF Free, Held
  <2>4. \A q \in Handlers : task[q].at = "marshal" => heap'[task[q].ref] = heap[task[q].ref]
    BY <1>4, <2>1, <2>3 DEF Shape, TypeOK
  <2> QED BY <1>1, <1>2, <1>3, <1>4, <2>2, <2>4, OnlineKept DEF Early, Works
<1>11. CASE KeepEntry(p)
  <2>1. CASE task[p].op = "get"
    <3>1. Finish(p) /\ kv' = kv /\ task[p].at = "keep"
      BY <1>11, <2>1 DEF KeepEntry, Finish, Shape, TypeOK
    <3> QED BY <1>6, <2>1, <3>1
  <2>2. CASE task[p].op # "get"
    <3>1. /\ task'[p].at = "mark" /\ task'[p].id = i /\ task'[p].op = task[p].op /\ task'[p].on = task[p].on
          /\ UNCHANGED <<kv, doubted>> /\ CollectGarbage
      BY <1>1, <1>11, <2>2 DEF KeepEntry, Shape, TypeOK, Task
    <3>2. \A q \in Handlers : task'[q].at = "marshal" => task'[q] = task[q]
      BY <1>1, <3>1
    <3> QED BY <1>1, <1>2, <1>5, <3>1, <3>2, OnlineKept DEF Early
  <2> QED BY <2>1, <2>2
<1>12. CASE Mark(p) \/ Revive(p)
  <2>1. /\ UNCHANGED <<kv, doubted>> /\ task[p].at \in {"mark", "revive"}
        /\ task'[p].id = i /\ task'[p].op = task[p].op /\ task'[p].on = task[p].on
        /\ task'[p].at \in {"revive", "marshal"} /\ task'[p].ref = task[p].ref
        /\ task'[p].at = "marshal" => Revive(p)
    BY <1>1, <1>12 DEF Mark, Revive, Shape, TypeOK, Task
  <2>2. /\ task[p].ref \in Refs /\ heap[task[p].ref] \in Device
        /\ task[p].op \in {"status", "offline"}
    BY <1>1, <2>1 DEF Shape, TypeOK, StageOK, Task, Ops, Writes
  <2>3. i \in Ids \ doubted => task[p].on
    BY <1>1, <1>2, <2>2 DEF OnlineInv
  <2>4. /\ \A r \in Refs : r # task[p].ref => heap'[r] = heap[r]
        /\ heap'[task[p].ref].online = TRUE \/ heap'[task[p].ref].online = task[p].on
        /\ Revive(p) => heap'[task[p].ref].online = TRUE
    BY <1>12, <2>2 DEF Mark, Revive, Shape, TypeOK, Device
  <2>5. ASSUME NEW q \in Handlers, task'[q].at = "marshal", task'[q].id \in Ids \ doubted'
        PROVE  heap'[task'[q].ref].online
    <3>1. CASE q = p
      BY <2>1, <2>4, <2>5, <3>1
    <3>2. CASE q # p /\ task[q].ref = task[p].ref
      <4>1. task[q].id = i /\ task'[q] = task[q]
        BY <1>1, <2>2, <3>2, RegistryAssumption DEF Shape, Filed
      <4> QED BY <1>1, <2>1, <2>3, <2>4, <2>5, <3>2, <4>1
    <3>3. CASE q # p /\ task[q].ref # task[p].ref
      <4>1. task'[q] = task[q] /\ task[q].ref \in Refs /\ Works(q, task[q].id) /\ task[q].id \in Ids \ doubted
        BY <1>1, <1>4, <2>1, <2>5, <3>3 DEF Works
      <4> QED BY <1>3, <2>4, <2>5, <3>3, <4>1
    <3> QED BY <3>1, <3>2, <3>3
  <2> QED BY <1>1, <1>2, <2>1, <2>5, OnlineKept DEF Early
<1>13. CASE Marshal(p)
  <2>1. /\ UNCHANGED <<kv, heap, doubted>> /\ task[p].at = "marshal"
        /\ task'[p].id = i /\ task'[p].op = task[p].op /\ task'[p].on = task[p].on
        /\ task'[p].at = "put" /\ task'[p].doc = heap[task[p].ref]
    BY <1>1, <1>13 DEF Marshal, Shape, TypeOK, Task
  <2>2. task[p].op # "register"
    BY <1>1, <2>1 DEF Shape, StageOK
  <2> QED BY <1>1, <1>2, <1>3, <1>4, <2>1, <2>2, OnlineKept DEF Early, Works
<1>14. CASE Put(p) \/ RemoveEntry(p)
  <2>1. /\ UNCHANGED <<heap, doubted>>
        /\ task'[p].id = i /\ task'[p].op = task[p].op /\ task'[p].on = task[p].on
        /\ task'[p].at \in {"store", "drop"}
        /\ \A j \in Ids : j # i => kv'[j] = kv[j]
    BY <1>1, <1>14 DEF Put, RemoveEntry, Shape, TypeOK, Task
  <2>2. i \notin doubted => kv'[i] = NoDoc \/ kv'[i].online
    BY <1>1, <1>2, <1>14 DEF Put, RemoveEntry, Stored, OnlineInv, Shape, TypeOK
  <2> QED BY <1>1, <1>2, <1>3, <1>4, <2>1, <2>2, OnlineKept DEF Works
<1> QED BY <1>7, <1>8, <1>9, <1>10, <1>11, <1>12, <1>13, <1>14 DEF Steps, HandlerStep

(* Likewise one that begins with no device.                                *)
LEMMA OnlineBegun ==
  ASSUME Shape, AnnouncedInv, OnlineInv, NEW p \in Handlers, ~Busy(p), NEW op \in Ops \ {"register"},
         NEW i \in Ids, NEW at \in {"look", "remove"}, at = "remove" <=> op = "delete", NEW on \in BOOLEAN,
         task' = [task EXCEPT ![p] = Begun(op, i, at, on)], UNCHANGED <<kv, heap>>,
         op = "offline" => ~on, op \in {"status", "offline"} => Told(i, on),
         op \in {"get", "delete"} => doubted' = doubted
  PROVE  AnnouncedInv' /\ OnlineInv'
<1>1. /\ task'[p].op = op /\ task'[p].id = i /\ task'[p].at = at /\ task'[p].on = on
      /\ \A q \in Handlers : q # p => task'[q] = task[q]
  BY Shapes DEF Shape, TypeOK, Stages
<1>2. OnlineInv'
  BY <1>1, OnlineBegin
<1> QED BY <1>1, <1>2 DEF AnnouncedInv, Busy

(* Every step keeps it: who was told nothing stores nothing new.           *)
LEMMA OnlineStep ==
  Shape /\ AnnouncedInv /\ OnlineInv /\ [RegistryNext]_registryVars => AnnouncedInv' /\ OnlineInv'
<1> SUFFICES ASSUME Shape, AnnouncedInv, OnlineInv, [RegistryNext]_registryVars
             PROVE  AnnouncedInv' /\ OnlineInv'
  OBVIOUS
<1>1. ASSUME NEW i \in Ids, NEW b \in Bodies, Announce(i, b) PROVE AnnouncedInv' /\ OnlineInv'
  <2> DEFINE a == "announcements"
             dev == [body |-> b, online |-> TRUE]
  <2>1. PICK r \in Free :
          /\ heap' = [heap EXCEPT ![r] = dev]
          /\ task' = [task EXCEPT ![a] = [at |-> "put", op |-> "register", id |-> i,
                                           ref |-> r, on |-> TRUE, doc |-> dev]]
    BY <1>1 DEF Announce
  <2>2. /\ a \in Handlers /\ ~Busy(a) /\ \A q \in Handlers : task[q].ref # r
        /\ dev.online /\ kv' = kv /\ Told(i, TRUE)
    BY <1>1, <2>1 DEF Announce, CanStart, Free, Held, Handlers
  <2>3. /\ \A q \in Handlers : q # a => task'[q] = task[q]
        /\ task'[a].at = "put" /\ task'[a].op = "register" /\ task'[a].id = i
        /\ task'[a].on = TRUE /\ task'[a].doc = dev
    BY <2>1, <2>2 DEF Shape, TypeOK
  <2> HIDE DEF dev
  <2>4. \A q \in Handlers : Busy(q) /\ task[q].at = "marshal" => heap'[task[q].ref] = heap[task[q].ref]
    BY <2>1, <2>2 DEF Shape, TypeOK
  <2>5. "register" \in Ops
    BY DEF Ops
  <2>6. OnlineInv'
    BY <2>2, <2>3, <2>4, <2>5, OnlineBegin
  <2> QED BY <2>2, <2>3, <2>6 DEF AnnouncedInv, Busy
<1>3. ASSUME NEW i \in Ids, NEW on \in BOOLEAN, Status(i, on) PROVE AnnouncedInv' /\ OnlineInv'
  <2>1. /\ "statuses" \in Handlers /\ ~Busy("statuses") /\ "status" \in Ops \ {"register"}
        /\ task' = [task EXCEPT !["statuses"] = Begun("status", i, "look", on)]
        /\ UNCHANGED <<kv, heap>> /\ Told(i, on)
    BY <1>3 DEF Status, CanStart, Ops, Handlers
  <2>2. "look" \in {"look", "remove"} /\ "status" \notin {"delete", "offline", "get"}
    OBVIOUS
  <2> QED BY <2>1, <2>2, OnlineBegun
<1>4. ASSUME NEW i \in Ids, GetDevice(i) PROVE AnnouncedInv' /\ OnlineInv'
  <2>1. /\ "commands" \in Handlers /\ ~Busy("commands") /\ "get" \in Ops \ {"register"}
        /\ task' = [task EXCEPT !["commands"] = Begun("get", i, "look", FALSE)]
        /\ UNCHANGED <<kv, heap>> /\ doubted' = doubted
    BY <1>4 DEF GetDevice, CanStart, Ops, Handlers
  <2> QED BY <2>1, OnlineBegun
<1>5. ASSUME NEW i \in Ids, DeleteDevice(i) PROVE AnnouncedInv' /\ OnlineInv'
  <2>1. /\ "commands" \in Handlers /\ ~Busy("commands") /\ "delete" \in Ops \ {"register"}
        /\ task' = [task EXCEPT !["commands"] = Begun("delete", i, "remove", FALSE)]
        /\ UNCHANGED <<kv, heap>> /\ doubted' = doubted
    BY <1>5 DEF DeleteDevice, CanStart, Ops, Handlers
  <2> QED BY <2>1, OnlineBegun
<1>6. ASSUME NEW i \in Ids, MonitorNext(i) PROVE AnnouncedInv' /\ OnlineInv'
  <2>1. /\ "monitor" \in Handlers /\ ~Busy("monitor") /\ "offline" \in Ops \ {"register"}
        /\ task' = [task EXCEPT !["monitor"] = Begun("offline", i, "look", FALSE)]
        /\ UNCHANGED <<kv, heap>> /\ Told(i, FALSE)
    BY <1>6 DEF MonitorNext, CanStart, Ops, Handlers
  <2> QED BY <2>1, OnlineBegun
<1>7. CASE MonitorList \/ UNCHANGED registryVars
  BY <1>7 DEF MonitorList, registryVars, AnnouncedInv, OnlineInv, Works, Busy
<1>8. ASSUME NEW p \in Handlers, Steps(p) PROVE AnnouncedInv' /\ OnlineInv'
  BY <1>8, OnlineGoesOn
<1>9. CASE Tick \/ \E i \in Ids : Expire(i)
  <2>1. /\ UNCHANGED <<task, heap, doubted>>
        /\ \A i \in Ids : kv'[i] # NoDoc => kv[i] # NoDoc /\ kv'[i].online = kv[i].online
    BY <1>9 DEF Tick, Expire, Shape, TypeOK, Entry
  <2> QED BY <2>1 DEF AnnouncedInv, OnlineInv, Works, Busy
<1>10. CASE Restart
  <2>1. /\ \A p \in Handlers : ~Busy(p)'
        /\ kv' = kv /\ doubted' = doubted \cup {i \in Ids : Reporting(i) # {}}
    BY <1>10, Shapes DEF Restart, Doubt, Busy
  <2>2. ASSUME NEW i \in Ids, i \notin doubted'
        PROVE  kv[i] = NoDoc \/ kv[i].online
    <3>1. i \notin doubted /\ Reporting(i) = {}
      BY <2>1, <2>2
    <3> QED BY <3>1 DEF OnlineInv, Reporting, Serving, Works
  <2> QED BY <2>1, <2>2 DEF AnnouncedInv, OnlineInv, Works
<1> QED BY <1>1, <1>3, <1>4, <1>5, <1>6, <1>7, <1>8, <1>9, <1>10
        DEF RegistryNext, CalmNext, Heard, Steps

(* Whoever reads, deletes, announces or writes the shared device back, one *)
(* that reported is shown online until somebody is told otherwise.         *)
THEOREM OnlineIfHeard == RegistrySpec => []OnlineUnlessTold
<1>1. RegistryInit => AnnouncedInv /\ OnlineInv
  BY DEF RegistryInit, AnnouncedInv, OnlineInv, Works, Busy, Idle
<1>2. RegistrySpec => [](AnnouncedInv /\ OnlineInv)
  BY <1>1, Invariance, OnlineStep, PTL DEF RegistrySpec, RegistryInv
<1>3. OnlineInv => OnlineUnlessTold
  BY DEF OnlineInv, OnlineUnlessTold, Reporting, Serving, Works
<1> QED BY <1>2, <1>3, PTL

-----------------------------------------------------------------------------
(* The registry implements DeviceDirectory.  Nobody but an announcement or *)
(* a deletion changes an answer, and BodyInv says what is answered where   *)
(* none is under way; so only their own steps have to be looked at.        *)

(* A goroutine touches the bucket and the map for its own device only.     *)
LEMMA StepOthers ==
  ASSUME RegistryInv, NEW p \in Handlers, Steps(p), NEW i \in Ids, i # task[p].id
  PROVE  kv'[i] = kv[i] /\ cache'[i] = cache[i]
  BY DEF RegistryInv, Shape, TypeOK, Steps, HandlerStep, LookUp, Fetch, NotFound, FetchFails, KeepEntry,
         Mark, Revive, Marshal, Put, PutFails, Store, RemoveEntry, RemoveFails, Drop

(* What a device in the map says of itself stays while it is in the map.   *)
LEMMA StepBodies ==
  ASSUME RegistryInv, NEW p \in Handlers, Steps(p), NEW i \in Ids,
         cache'[i] = cache[i], cache[i] # NoRef
  PROVE  heap'[cache[i]].body = heap[cache[i]].body
<1>1. cache[i] \in Refs /\ heap[cache[i]] \in Device
  BY DEF RegistryInv, Shape, TypeOK
<1>2. CASE CollectGarbage
  BY <1>1, <1>2, Collected
<1>3. CASE \E r \in Free : \E d : heap' = [heap EXCEPT ![r] = d]
  <2>1. PICK r \in Free : \E d : heap' = [heap EXCEPT ![r] = d]
    BY <1>3
  <2>2. cache[i] # r
    BY <2>1 DEF Free, Held
  <2> QED BY <1>1, <2>1, <2>2 DEF RegistryInv, Shape, TypeOK
<1>4. CASE \E r \in Refs, on \in BOOLEAN : heap' = [heap EXCEPT ![r].online = on]
  BY <1>1, <1>4 DEF RegistryInv, Shape, TypeOK, Device
<1>5. CASE UNCHANGED heap
  BY <1>5
<1>6. ASSUME Mark(p) \/ Revive(p)
      PROVE  \E r \in Refs, on \in BOOLEAN : heap' = [heap EXCEPT ![r].online = on]
  <2>1. task[p].ref \in Refs /\ task[p].on \in BOOLEAN
    BY <1>6 DEF Mark, Revive, RegistryInv, Shape, TypeOK, Task
  <2> QED BY <1>6, <2>1 DEF Mark, Revive
<1>7. Fetch(p) => \E r \in Free : \E d : heap' = [heap EXCEPT ![r] = d]
  BY DEF Fetch
<1>8. LookUp(p) => UNCHANGED heap \/ CollectGarbage
  BY DEF LookUp, Finish
<1>9. NotFound(p) \/ FetchFails(p) \/ KeepEntry(p) \/ PutFails(p) \/ RemoveFails(p) \/ Store(p) \/ Drop(p)
        => CollectGarbage
  BY DEF NotFound, FetchFails, KeepEntry, PutFails, RemoveFails, Store, Drop, Finish
<1>10. Marshal(p) \/ Put(p) \/ RemoveEntry(p) => UNCHANGED heap
  BY DEF Marshal, Put, RemoveEntry
<1> QED BY <1>2, <1>3, <1>4, <1>5, <1>6, <1>7, <1>8, <1>9, <1>10 DEF Steps, HandlerStep

(* How a goroutine goes on with its call, or ends it.                      *)
LEMMA StepCall ==
  ASSUME RegistryInv, NEW p \in Handlers, Steps(p)
  PROVE  /\ Busy(p) /\ task[p].id \in Ids
         /\ \A q \in Handlers : q # p => task'[q] = task[q]
         /\ latest' = latest
         /\ \/ Busy(p)' /\ task'[p].id = task[p].id /\ task'[p].op = task[p].op /\ torn' = torn
            \/ ~Busy(p)' /\ torn' = torn
            \/ ~Busy(p)' /\ task[p].op \in Writes /\ torn' = torn \cup {task[p].id}
<1> USE DEF RegistryInv, Shape, TypeOK
<1>1. Busy(p) /\ task[p].id \in Ids /\ latest' = latest
  BY DEF Busy, Steps, HandlerStep, LookUp, Fetch, NotFound, FetchFails, KeepEntry, Mark, Revive, Marshal,
         Put, PutFails, Store, RemoveEntry, RemoveFails, Drop
<1>2. task' = [task EXCEPT ![p] = task'[p]]
  BY DEF Finish, Steps, HandlerStep, LookUp, Fetch, NotFound, FetchFails, KeepEntry, Mark, Revive, Marshal,
         Put, PutFails, Store, RemoveEntry, RemoveFails, Drop
<1>3. ASSUME Finish(p) PROVE ~Busy(p)'
  BY <1>3, Shapes DEF Finish, Busy
<1>4. ASSUME LookUp(p)
      PROVE  ~Busy(p)' \/ (Busy(p)' /\ task'[p].id = task[p].id /\ task'[p].op = task[p].op)
  BY <1>3, <1>4 DEF LookUp, Busy, Task
<1>5. ASSUME KeepEntry(p)
      PROVE  ~Busy(p)' \/ (Busy(p)' /\ task'[p].id = task[p].id /\ task'[p].op = task[p].op)
  <2>1. CASE task[p].op = "get"
    BY <1>5, <2>1, Shapes DEF KeepEntry, Busy
  <2>2. CASE task[p].op # "get"
    BY <1>5, <2>2 DEF KeepEntry, Busy, Task
  <2> QED BY <2>1, <2>2
<1>6. ASSUME Fetch(p) \/ Mark(p) \/ Revive(p) \/ Marshal(p) \/ Put(p) \/ RemoveEntry(p)
      PROVE  Busy(p)' /\ task'[p].id = task[p].id /\ task'[p].op = task[p].op
  BY <1>6 DEF Busy, Task, Fetch, Mark, Revive, Marshal, Put, RemoveEntry
<1>7. ASSUME PutFails(p) \/ RemoveFails(p)
      PROVE  ~Busy(p)' /\ (torn' = torn \/ (task[p].op \in Writes /\ torn' = torn \cup {task[p].id}))
  <2>1. PutFails(p) /\ task[p].op # "register" => torn' = torn
    BY DEF PutFails, Spoil
  <2>2. PutFails(p) /\ task[p].op = "register" => torn' = torn \cup {task[p].id}
    BY DEF PutFails, Spoil
  <2>3. RemoveFails(p) => torn' = torn \cup {task[p].id} /\ task[p].op = "delete"
    BY <1>1 DEF RemoveFails, Spoil, StageOK
  <2> QED BY <1>3, <1>7, <2>1, <2>2, <2>3 DEF PutFails, RemoveFails, Writes
<1>8. ASSUME NotFound(p) \/ FetchFails(p) \/ Store(p) \/ Drop(p)
      PROVE  ~Busy(p)' /\ torn' = torn
  BY <1>3, <1>8 DEF NotFound, FetchFails, Store, Drop
<1>9. LookUp(p) \/ KeepEntry(p) \/ Fetch(p) \/ Mark(p) \/ Revive(p) \/ Marshal(p) \/ Put(p) \/ RemoveEntry(p)
        => torn' = torn
  BY DEF LookUp, KeepEntry, Fetch, Mark, Revive, Marshal, Put, RemoveEntry
<1>10. \A q \in Handlers : q # p => task'[q] = task[q]
  BY <1>2
<1> QED BY <1>1, <1>4, <1>5, <1>6, <1>7, <1>8, <1>9, <1>10 DEF Steps, HandlerStep

(* The answers are answers.                                                *)
LEMMA AnswerType == TypeOK => AnswerMap \in [Ids -> Bodies \cup {NoBody}]
  BY DEF TypeOK, AnswerMap, Answer, Device, Entry

(* Where nobody announces or deletes, the answer is the last or nothing.   *)
SettledIdle == \A i \in Ids \ torn :
  (\A p \in Handlers : Works(p, i) => task[p].op \notin Writes)
    => Answer(i) \in {latest[i], NoBody}

(* The invariant says so of the bucket and the map, hence of the answer.   *)
LEMMA AnswerSettled == RegistryInv => SettledIdle
<1> SUFFICES ASSUME RegistryInv, NEW i \in Ids \ torn,
                    \A p \in Handlers : Works(p, i) => task[p].op \notin Writes
             PROVE  Answer(i) \in {latest[i], NoBody}
  BY DEF SettledIdle
<1>1. \A p \in Handlers : Works(p, i) => task[p].at \notin {"remove"}
                            /\ ~(task[p].at = "put" /\ task[p].op = "register")
  BY DEF RegistryInv, Shape, StageOK, Works, Writes
<1> QED BY <1>1 DEF RegistryInv, BodyInv, Answer

(* What an announcement or a deletion does to the answer as it goes on.    *)
LEMMA AnswerWrite ==
  ASSUME RegistryInv, NEW p \in Handlers, Steps(p), Busy(p)', task[p].op \in Writes,
         NEW i \in Ids \ torn, i = task[p].id
  PROVE  Answer(i)' \in {Answer(i), latest[i], NoBody}
<1> USE DEF RegistryInv, Shape, TypeOK
<1>1. Busy(p) /\ Works(p, i) /\ task'[p].id = i
  BY StepCall DEF Works
<1>2. Put(p) \/ RemoveEntry(p)
  <2>1. Finish(p) => ~Busy(p)'
    BY Shapes DEF Finish, Busy
  <2>2. task[p].at \in {"put", "store", "remove", "drop"}
    BY <1>1 DEF StageOK, Writes
  <2> QED BY <2>1, <2>2 DEF Steps, HandlerStep, LookUp, Fetch, NotFound, FetchFails, KeepEntry, Mark, Revive,
       Marshal, PutFails, Store, RemoveFails, Drop
<1>3. cache' = cache /\ heap' = heap
  BY <1>2 DEF Put, RemoveEntry
<1>4. CASE Put(p)
  <2>1. kv'[i] = Stored(task[p].doc) /\ task[p].doc.body = latest[i]
    BY <1>1, <1>4 DEF Put, BodyInv
  <2>2. kv'[i].body = latest[i]
    BY <2>1 DEF Stored
  <2>3. Answer(i)' = IF cache[i] # NoRef THEN heap[cache[i]].body
                     ELSE IF kv'[i] # NoDoc THEN latest[i] ELSE NoBody
    BY <1>3, <2>2 DEF Answer
  <2> QED BY <1>1, <2>3 DEF Answer
<1>5. CASE RemoveEntry(p)
  <2>1. kv'[i] = NoDoc
    BY <1>5 DEF RemoveEntry
  <2> QED BY <1>1, <1>3, <2>1 DEF Answer
<1> QED BY <1>2, <1>4, <1>5

(* The answers after a goroutine's step.                                   *)
LEMMA AnswerStep ==
  ASSUME RegistryInv, RegistryInv', NEW p \in Handlers, Steps(p)
  PROVE  Directory!Answers
<1>1. ASSUME NEW i \in Ids \ torn'
      PROVE  Answer(i)' \in {Answer(i), latest[i], NoBody}
  <2>1. CASE \A q \in Handlers : Works(q, i)' => task'[q].op \notin Writes
    <3>1. RegistryInv' => SettledIdle'
      BY AnswerSettled, PTL
    <3>2. Answer(i)' \in {latest'[i], NoBody}
      BY <1>1, <2>1, <3>1 DEF SettledIdle
    <3> QED BY <3>2, StepCall
  <2>2. CASE \E q \in Handlers : Works(q, i)' /\ task'[q].op \in Writes
    <3>1. PICK q \in Handlers : Works(q, i)' /\ task'[q].op \in Writes
      BY <2>2
    <3>2. CASE q = p
      <4>1. task[p].op \in Writes /\ task[p].id = i /\ i \notin torn /\ Busy(p)' /\ task'[p].id = task[p].id
        BY <1>1, <3>1, <3>2, StepCall DEF Works
      <4> QED BY <4>1, AnswerWrite
    <3>3. CASE q # p
      <4>1. Works(q, i) /\ task[q].op \in Writes /\ i \notin torn
        BY <1>1, <3>1, <3>3, StepCall DEF Works, Busy
      <4>2. i # task[p].id
        BY <1>1, <3>3, <4>1, StepCall DEF RegistryInv, Alone, Works
      <4>3. kv'[i] = kv[i] /\ cache'[i] = cache[i]
        BY <4>2, StepOthers
      <4>4. cache[i] # NoRef => heap'[cache[i]].body = heap[cache[i]].body
        BY <4>3, StepBodies
      <4> QED BY <4>3, <4>4 DEF Answer
    <3> QED BY <3>2, <3>3
  <2> QED BY <2>1, <2>2
<1>2. AnswerMap' \in [Ids -> Bodies \cup {NoBody}]
  <2>1. TypeOK' => (AnswerMap \in [Ids -> Bodies \cup {NoBody}])'
    BY AnswerType, PTL
  <2> QED BY <2>1 DEF RegistryInv, Shape
<1>3. \A i \in Ids : AnswerMap'[i] = Answer(i)' /\ AnswerMap[i] = Answer(i)
  BY DEF AnswerMap
<1> QED BY <1>1, <1>2, <1>3 DEF Directory!Answers, Directory!Settled

(* Who calls, and on what.                                                 *)
LEMMA CallsAre ==
  /\ \A i \in Ids : Directory!On(i) = {p \in Handlers : Works(p, i)}
  /\ \A i \in Ids : Directory!Writers(i) = {p \in Handlers : Works(p, i) /\ task[p].op \in Writes}
  /\ \A i \in Ids : Serving(i) = {p \in Handlers : Works(p, i)}
  /\ \A i \in Ids : Writing(i) = {p \in Handlers : Works(p, i) /\ task[p].op \in Writes}
  BY DEF Directory!On, Directory!Writers, Calls, Works, Serving, Writing

(* A call begins: what Meets keeps in torn is what the directory keeps.    *)
LEMMA CallBegins ==
  ASSUME RegistryInv, NEW p \in Handlers, ~Busy(p), NEW op \in Ops, NEW i \in Ids,
         Meets(p, op, i), Busy(p)', task'[p].id = i, task'[p].op = op,
         \A q \in Handlers : q # p => task'[q] = task[q], UNCHANGED <<kv, cache>>,
         \A j \in Ids : cache[j] # NoRef => heap'[cache[j]] = heap[cache[j]],
         IF op \in Writes THEN \E b \in Bodies \cup {NoBody} : latest' = [latest EXCEPT ![i] = b]
         ELSE latest' = latest
  PROVE  Directory!Next
<1>1. Calls' = [Calls EXCEPT ![p] = Directory!CallOn(i, op \in Writes)] /\ Calls[p] = Directory!NoCall
  BY DEF Calls, Busy, Directory!CallOn, Directory!NoCall
<1>2. UNCHANGED AnswerMap
  BY DEF AnswerMap, Answer
<1>3. p \notin Serving(i)
  BY DEF Serving
<1>4. CASE op \in Writes
  <2>1. torn' = IF Directory!On(i) = {} THEN torn \ {i} ELSE torn \cup {i}
    BY <1>3, <1>4, CallsAre DEF Meets
  <2>2. Directory!Change(p, i)
    BY <1>1, <1>2, <1>4, <2>1 DEF Directory!Change
  <2> QED BY <2>2 DEF Directory!Next
<1>5. CASE op \notin Writes
  <2>1. torn' = IF Directory!Writers(i) # {} THEN torn \cup {i} ELSE torn
    <3>1. Writing(i) \subseteq Serving(i)
      BY DEF Writing
    <3> QED BY <1>3, <1>5, <3>1, CallsAre DEF Meets
  <2>2. (op \in Writes) = FALSE /\ latest' = latest
    BY <1>5
  <2>3. Calls' = [Calls EXCEPT ![p] = Directory!CallOn(i, FALSE)]
    BY <1>1, <2>2, Zenon
  <2>4. Directory!Look(p, i)
    BY <1>1, <1>2, <2>1, <2>2, <2>3 DEF Directory!Look
  <2> QED BY <2>4 DEF Directory!Next
<1> QED BY <1>4, <1>5

(* A goroutine's step is work on its call, or the call's return.           *)
LEMMA CallStep ==
  ASSUME RegistryInv, RegistryInv', NEW p \in Handlers, Steps(p)
  PROVE  Directory!Next
<1>1. Directory!Answers /\ latest' = latest
  BY AnswerStep, StepCall
<1>2. Busy(p) /\ task[p].id \in Ids /\ \A q \in Handlers : q # p => task'[q] = task[q]
  BY StepCall
<1>3. CASE Busy(p)'
  <2>1. task'[p].id = task[p].id /\ task'[p].op = task[p].op /\ torn' = torn
    BY <1>3, StepCall
  <2>2. Calls' = Calls
    BY <1>2, <1>3, <2>1 DEF Calls, Busy
  <2>3. Directory!Work
    BY <1>1, <2>1, <2>2 DEF Directory!Work
  <2> QED BY <2>3 DEF Directory!Next
<1>4. CASE ~Busy(p)'
  <2>1. Calls' = [Calls EXCEPT ![p] = Directory!NoCall]
    BY <1>2, <1>4 DEF Calls, Busy, Directory!NoCall
  <2>2. Calls[p].active /\ Calls[p].id = task[p].id /\ (Calls[p].writes <=> task[p].op \in Writes)
    BY <1>2 DEF Calls
  <2>3. torn' = torn \/ (task[p].op \in Writes /\ torn' = torn \cup {task[p].id})
    BY <1>4, StepCall
  <2>4. ASSUME task[p].op \in Writes, NEW i \in Ids, i = task[p].id, i \notin torn'
        PROVE  AnswerMap'[i] \in {latest[i], NoBody}
    <3>1. RegistryInv' => SettledIdle'
      BY AnswerSettled, PTL
    <3>2. ASSUME NEW q \in Handlers, Works(q, i)'
          PROVE  FALSE
      <4>1. q # p
        BY <1>4, <3>2 DEF Works
      <4>2. Works(q, i) /\ Works(p, i)
        BY <1>2, <2>4, <3>2, <4>1 DEF Works, Busy
      <4>3. i \in torn
        BY <2>4, <4>1, <4>2 DEF RegistryInv, Alone
      <4> QED BY <2>3, <2>4, <4>3
    <3>3. Answer(i)' \in {latest'[i], NoBody}
      BY <2>4, <3>1, <3>2 DEF SettledIdle
    <3> QED BY <1>1, <3>3 DEF AnswerMap
  <2>5. Directory!Return(p)
    BY <1>1, <1>2, <2>1, <2>2, <2>3, <2>4 DEF Directory!Return, Directory!Settled
  <2> QED BY <2>5 DEF Directory!Next
<1> QED BY <1>3, <1>4

(* Time drops what is in the bucket and leaves the map alone.              *)
LEMMA CallTime ==
  ASSUME RegistryInv, RegistryInv', Tick \/ (\E i \in Ids : Expire(i))
  PROVE  Directory!Next
<1> USE DEF RegistryInv, Shape, TypeOK
<1>1. UNCHANGED <<cache, heap, task, latest, torn>>
  BY DEF Tick, Expire
<1>2. \A i \in Ids : kv'[i] = NoDoc \/ (kv[i] # NoDoc /\ kv'[i].body = kv[i].body)
  <2>1. CASE Tick
    <3>1. \A i \in Ids : kv[i] # NoDoc => kv[i] \in Entry
      OBVIOUS
    <3> QED BY <2>1, <3>1 DEF Tick, Entry
  <2>2. CASE \E i \in Ids : Expire(i)
    BY <2>2 DEF Expire
  <2> QED BY <2>1, <2>2
<1>3. \A i \in Ids : Answer(i)' = Answer(i) \/ Answer(i)' = NoBody
  BY <1>1, <1>2 DEF Answer
<1>4. AnswerMap' \in [Ids -> Bodies \cup {NoBody}]
  <2>1. TypeOK' => (AnswerMap \in [Ids -> Bodies \cup {NoBody}])'
    BY AnswerType, PTL
  <2> QED BY <2>1
<1>5. Calls' = Calls
  BY <1>1 DEF Calls, Busy
<1>6. \A i \in Ids : AnswerMap'[i] = Answer(i)' /\ AnswerMap[i] = Answer(i)
  BY DEF AnswerMap
<1>7. Directory!Work
  BY <1>1, <1>3, <1>4, <1>5, <1>6 DEF Directory!Work, Directory!Answers, Directory!Settled
<1> QED BY <1>7 DEF Directory!Next

(* A restart cuts the calls off.                                           *)
LEMMA CallRestart ==
  ASSUME RegistryInv, RegistryInv', Restart
  PROVE  Directory!Next
<1>1. \A p \in Handlers : ~Busy(p)'
  BY Shapes DEF Restart, Busy
<1>2. Calls' = [p \in Handlers |-> Directory!NoCall]
  BY <1>1 DEF Calls, Directory!NoCall
<1>3. latest' = latest /\ torn' = torn \cup {i \in Ids : Directory!Writers(i) # {}}
  BY CallsAre DEF Restart, Spoil
<1>4. RegistryInv' => SettledIdle'
  BY AnswerSettled, PTL
<1>5. \A i \in Ids \ torn' : Answer(i)' \in {latest'[i], NoBody}
  BY <1>1, <1>4 DEF SettledIdle, Works
<1>6. AnswerMap' \in [Ids -> Bodies \cup {NoBody}]
  <2>1. TypeOK' => (AnswerMap \in [Ids -> Bodies \cup {NoBody}])'
    BY AnswerType, PTL
  <2> QED BY <2>1 DEF RegistryInv, Shape
<1>7. \A i \in Ids : AnswerMap'[i] = Answer(i)'
  BY DEF AnswerMap
<1>8. Directory!Restart
  BY <1>2, <1>3, <1>5, <1>6, <1>7 DEF Directory!Restart, Directory!Settled
<1> QED BY <1>8 DEF Directory!Next

(* Every step of the registry is one of the directory's, or none.          *)
LEMMA DirectoryStep ==
  RegistryInv /\ RegistryInv' /\ [RegistryNext]_registryVars
    => [Directory!Next]_(Directory!directoryVars)
<1> SUFFICES ASSUME RegistryInv, RegistryInv', [RegistryNext]_registryVars
             PROVE  [Directory!Next]_(Directory!directoryVars)
  OBVIOUS
<1> USE DEF RegistryInv, Shape, TypeOK
<1>1. ASSUME NEW i \in Ids, NEW b \in Bodies, Announce(i, b) PROVE Directory!Next
  <2> DEFINE a == "announcements"
  <2>1. PICK r \in Free :
          /\ heap' = [heap EXCEPT ![r] = [body |-> b, online |-> TRUE]]
          /\ task' = [task EXCEPT ![a] = [at |-> "put", op |-> "register", id |-> i, ref |-> r,
                                           on |-> TRUE, doc |-> [body |-> b, online |-> TRUE]]]
    BY <1>1 DEF Announce
  <2>2. a \in Handlers /\ ~Busy(a) /\ r \in Refs /\ \A j \in Ids : cache[j] # r
    BY <1>1, <2>1 DEF Announce, CanStart, Free, Held, Handlers
  <2>3. /\ task'[a].at = "put" /\ task'[a].id = i /\ task'[a].op = "register"
        /\ \A q \in Handlers : q # a => task'[q] = task[q]
        /\ \A j \in Ids : cache[j] # NoRef => heap'[cache[j]] = heap[cache[j]]
    BY <2>1, <2>2
  <2> QED BY <1>1, <2>2, <2>3, CallBegins DEF Announce, Busy, Ops, Writes
<1>2. ASSUME NEW p \in Handlers, NEW op \in Ops \ {"register"}, NEW i \in Ids,
             NEW at \in {"look", "remove"}, NEW on \in BOOLEAN,
             ~Busy(p), task' = [task EXCEPT ![p] = Begun(op, i, at, on)], Meets(p, op, i),
             UNCHANGED <<kv, cache, heap>>,
             IF op \in Writes THEN latest' = [latest EXCEPT ![i] = NoBody] ELSE latest' = latest
      PROVE  Directory!Next
  <2>1. task'[p].at = at /\ task'[p].id = i /\ task'[p].op = op
    BY <1>2, Shapes DEF Stages
  <2>2. Busy(p)' /\ \A q \in Handlers : q # p => task'[q] = task[q]
    BY <1>2, <2>1 DEF Busy
  <2> QED BY <1>2, <2>1, <2>2, CallBegins
<1>3. ASSUME NEW i \in Ids, NEW on \in BOOLEAN, Status(i, on) PROVE Directory!Next
  BY <1>2, <1>3 DEF Status, CanStart, Ops, Handlers, Writes
<1>4. ASSUME NEW i \in Ids, GetDevice(i) PROVE Directory!Next
  BY <1>2, <1>4 DEF GetDevice, CanStart, Ops, Handlers, Writes
<1>5. ASSUME NEW i \in Ids, DeleteDevice(i) PROVE Directory!Next
  BY <1>2, <1>5 DEF DeleteDevice, CanStart, Ops, Handlers, Writes
<1>6. ASSUME NEW i \in Ids, MonitorNext(i) PROVE Directory!Next
  BY <1>2, <1>6 DEF MonitorNext, CanStart, Ops, Handlers, Writes
<1>7. ASSUME NEW p \in Handlers, HandlerStep(p) \/ FetchFails(p) \/ PutFails(p) \/ RemoveFails(p)
      PROVE  Directory!Next
  BY <1>7, CallStep DEF Steps
<1>8. CASE MonitorList \/ UNCHANGED registryVars
  <2>1. UNCHANGED <<kv, cache, heap, task, latest, torn>>
    BY <1>8 DEF MonitorList, registryVars
  <2> QED BY <2>1 DEF Directory!directoryVars, AnswerMap, Answer, Calls, Busy
<1>9. CASE Tick \/ (\E i \in Ids : Expire(i))
  BY <1>9, CallTime
<1>10. CASE Restart
  BY <1>10, CallRestart
<1> QED BY <1>1, <1>3, <1>4, <1>5, <1>6, <1>7, <1>8, <1>9, <1>10 DEF RegistryNext, CalmNext, Heard

(* The registry begins as the directory does. *)
LEMMA DirectoryInit == RegistryInit => Directory!Init
  BY DEF RegistryInit, Directory!Init, Directory!NoCall, AnswerMap, Answer, Calls, Busy, Idle

(* The bucket and the map, each written by four goroutines one step at a   *)
(* time, answer like one directory: the old or the new while a device is   *)
(* announced or deleted, never the old again, and the last or nothing once *)
(* the call has returned, but for calls that overlapped or failed.         *)
THEOREM OneDirectory == RegistrySpec => ImplementsDirectory
<1>1. RegistrySpec => Directory!Spec
  BY DirectoryInit, Invariance, DirectoryStep, PTL DEF RegistrySpec, Directory!Spec
<1> QED BY <1>1 DEF ImplementsDirectory

-----------------------------------------------------------------------------
Alerts == [type : {"low_battery", "reported", "device_offline"}, at : Nat]

KnownDevices ==
  [online : BOOLEAN, battery : Nat \cup {None}, alerts : Seq(Alerts), seen : Nat \cup {None}]

HealthShape ==
  /\ devices \in [Devices -> KnownDevices \cup {None}]
  /\ now \in Nat
  /\ \A d \in DevicesOf(devices) : devices[d].seen # None => devices[d].seen \leq now

(* The alert of the sweep and all after it are later than seen, or all are. *)
Marked(alerts, seen) ==
  \/ \E i \in DOMAIN alerts :
       /\ alerts[i].type = "device_offline"
       /\ \A j \in DOMAIN alerts : i \leq j => alerts[j].at > seen
  \/ Len(alerts) = AlertsKept /\ \A i \in DOMAIN alerts : alerts[i].at > seen

Said(device) == ~device.online /\ device.seen # None => Marked(device.alerts, device.seen)

AlertInv == HealthShape /\ \A d \in DevicesOf(devices) : Said(devices[d])

(* What handleAlert keeps are the last alerts, in their order.             *)
LEMMA KeepsLast ==
  ASSUME NEW s \in Seq(Alerts)
  PROVE  /\ Keep(s) \in Seq(Alerts)
         /\ Len(s) \leq AlertsKept => Keep(s) = s
         /\ Len(s) > AlertsKept =>
              /\ Len(Keep(s)) = AlertsKept
              /\ \A i \in 1 .. AlertsKept : Keep(s)[i] = s[Len(s) - AlertsKept + i]
<1>1. AlertsKept \in Nat \ {0} /\ Len(s) \in Nat
  BY SizesAssumption
<1>2. CASE Len(s) \leq AlertsKept
  BY <1>1, <1>2 DEF Keep
<1>3. CASE Len(s) > AlertsKept
  <2> DEFINE first == Len(s) - AlertsKept + 1
  <2>1. first \in 1 .. Len(s) /\ Len(s) - first + 1 = AlertsKept
    BY <1>1, <1>3
  <2>2. Keep(s) = SubSeq(s, first, Len(s))
    BY <1>1, <1>3 DEF Keep
  <2>3. /\ Len(SubSeq(s, first, Len(s))) = AlertsKept
        /\ \A i \in 1 .. AlertsKept : SubSeq(s, first, Len(s))[i] = s[first + i - 1]
    BY <1>1, <2>1
  <2>4. \A i \in 1 .. AlertsKept : first + i - 1 = Len(s) - AlertsKept + i
    BY <1>1
  <2>5. SubSeq(s, first, Len(s)) \in Seq(Alerts)
    BY <1>1, <2>1
  <2>6. QED
    BY <1>1, <1>3, <2>2, <2>3, <2>4, <2>5
<1>4. QED
  BY <1>1, <1>2, <1>3

(* An alert more leaves an offline device marked, whatever is cut off.     *)
LEMMA StaysMarked ==
  ASSUME NEW alerts \in Seq(Alerts), NEW seen \in Nat, NEW alert \in Alerts,
         alert.at > seen, Marked(alerts, seen)
  PROVE  Marked(Keep(Append(alerts, alert)), seen)
<1> DEFINE more == Append(alerts, alert)
           n == Len(alerts) + 1
<1>1. /\ more \in Seq(Alerts) /\ Len(more) = n /\ DOMAIN more = 1 .. n
      /\ \A i \in 1 .. Len(alerts) : more[i] = alerts[i]
      /\ more[n] = alert
      /\ Len(alerts) \in Nat /\ DOMAIN alerts = 1 .. Len(alerts)
  OBVIOUS
<1>2. AlertsKept \in Nat \ {0}
  BY SizesAssumption
<1> SUFFICES Marked(Keep(more), seen)
  OBVIOUS
<1> HIDE DEF more
<1>3. CASE \A i \in DOMAIN alerts : alerts[i].at > seen
  <2>1. \A i \in 1 .. n : more[i].at > seen
    BY <1>1, <1>3
  <2>2. CASE n > AlertsKept
    <3>1. /\ Keep(more) \in Seq(Alerts) /\ Len(Keep(more)) = AlertsKept
          /\ \A i \in 1 .. AlertsKept : Keep(more)[i] = more[n - AlertsKept + i]
      BY <1>1, <1>2, <2>2, KeepsLast
    <3>2. \A i \in 1 .. AlertsKept : n - AlertsKept + i \in 1 .. n
      BY <1>1, <1>2, <2>2
    <3>3. DOMAIN Keep(more) = 1 .. AlertsKept
      BY <3>1
    <3>4. QED
      BY <2>1, <3>1, <3>2, <3>3 DEF Marked
  <2>3. CASE n \leq AlertsKept
    <3>1. Keep(more) = more
      BY <1>1, <1>2, <2>3, KeepsLast
    <3>2. PICK i \in DOMAIN alerts : alerts[i].type = "device_offline"
      BY <1>1, <1>2, <2>3 DEF Marked
    <3>3. i \in DOMAIN more /\ more[i].type = "device_offline"
      BY <1>1, <3>2
    <3>4. QED
      BY <1>1, <2>1, <3>1, <3>3 DEF Marked
  <2>4. QED
    BY <1>1, <1>2, <2>2, <2>3
<1>4. CASE \E i \in DOMAIN alerts : /\ alerts[i].type = "device_offline"
                                    /\ \A j \in DOMAIN alerts : i \leq j => alerts[j].at > seen
  <2>1. PICK i \in DOMAIN alerts : /\ alerts[i].type = "device_offline"
                                   /\ \A j \in DOMAIN alerts : i \leq j => alerts[j].at > seen
    BY <1>4
  <2>2. /\ i \in 1 .. n /\ more[i].type = "device_offline"
        /\ \A j \in 1 .. n : i \leq j => more[j].at > seen
    BY <1>1, <2>1
  <2>3. CASE n \leq AlertsKept
    <3>1. Keep(more) = more
      BY <1>1, <1>2, <2>3, KeepsLast
    <3>2. QED
      BY <1>1, <2>2, <3>1 DEF Marked
  <2>4. CASE n > AlertsKept
    <3> DEFINE cut == n - AlertsKept
    <3>1. /\ Keep(more) \in Seq(Alerts) /\ Len(Keep(more)) = AlertsKept
          /\ \A j \in 1 .. AlertsKept : Keep(more)[j] = more[cut + j]
      BY <1>1, <1>2, <2>4, KeepsLast
    <3>2. DOMAIN Keep(more) = 1 .. AlertsKept
      BY <3>1
    <3>3. cut \in Nat /\ \A j \in 1 .. AlertsKept : cut + j \in 1 .. n
      BY <1>1, <1>2, <2>4
    <3>4. CASE i \leq cut
      <4>1. \A j \in 1 .. AlertsKept : Keep(more)[j].at > seen
        <5>1. \A j \in 1 .. AlertsKept : i \leq cut + j
          BY <1>2, <3>3, <3>4, <2>2, <1>1
        <5>2. QED
          BY <2>2, <3>1, <3>3, <5>1
      <4>2. QED
        BY <3>1, <3>2, <4>1 DEF Marked
    <3>5. CASE i > cut
      <4>1. i - cut \in 1 .. AlertsKept /\ cut + (i - cut) = i
        BY <1>1, <1>2, <2>2, <3>3, <3>5
      <4>2. Keep(more)[i - cut].type = "device_offline"
        BY <2>2, <3>1, <4>1
      <4>3. \A j \in 1 .. AlertsKept : i - cut \leq j => i \leq cut + j
        BY <2>2, <3>3, <1>1, <1>2
      <4>4. \A j \in 1 .. AlertsKept : i - cut \leq j => Keep(more)[j].at > seen
        BY <2>2, <3>1, <3>3, <4>3
      <4>5. QED
        BY <3>2, <4>1, <4>2, <4>4 DEF Marked
    <3>6. QED
      BY <1>1, <2>2, <3>3, <3>4, <3>5
  <2>5. QED
    BY <1>1, <1>2, <2>3, <2>4
<1>5. QED
  BY <1>3, <1>4 DEF Marked

(* A message about d, or the sweep, replaces its entry and moves the clock. *)
LEMMA ChangeOf ==
  ASSUME AlertInv, Change, NEW d \in Devices, NEW device \in KnownDevices,
         devices' = [devices EXCEPT ![d] = device],
         device.seen # None => device.seen \leq now + 1, Said(device)
  PROVE  AlertInv'
<1>1. devices' \in [Devices -> KnownDevices \cup {None}] /\ now' \in Nat /\ now' = now + 1
  BY DEF AlertInv, HealthShape, Change
<1>2. devices'[d] = device /\ \A e \in Devices : e # d => devices'[e] = devices[e]
  BY DEF AlertInv, HealthShape
<1>3. ASSUME NEW e \in Devices, devices'[e] # None
      PROVE  /\ devices'[e].seen # None => devices'[e].seen \leq now'
             /\ Said(devices'[e])
  <2>1. CASE e = d
    BY <1>1, <1>2, <2>1
  <2>2. CASE e # d
    <3>1. devices'[e] = devices[e] /\ e \in DevicesOf(devices)
      BY <1>2, <1>3, <2>2 DEF DevicesOf
    <3>2. devices[e] \in KnownDevices /\ now \in Nat
      BY <3>1 DEF AlertInv, HealthShape, DevicesOf
    <3>3. devices[e].seen # None => devices[e].seen \in Nat /\ devices[e].seen \leq now
      BY <3>1, <3>2 DEF AlertInv, HealthShape, KnownDevices
    <3>4. QED
      BY <1>1, <3>1, <3>2, <3>3 DEF AlertInv
  <2>3. QED
    BY <2>1, <2>2
<1>4. QED
  BY <1>1, <1>3 DEF AlertInv, HealthShape, DevicesOf, Said, Marked

(* The invariant is kept by what the monitor hears and by the sweep ...    *)
LEMMA DeviceStepKeeps ==
  ASSUME AlertInv, DeviceStep
  PROVE  AlertInv'
<1>1. now \in Nat /\ devices \in [Devices -> KnownDevices \cup {None}]
  BY DEF AlertInv, HealthShape
<1>2. /\ Alert("low_battery") \in Alerts /\ Alert("low_battery").at = now + 1
      /\ Alert("reported") \in Alerts /\ Alert("reported").at = now + 1
      /\ Alert("device_offline") \in Alerts /\ Alert("device_offline").at = now + 1
  BY <1>1 DEF Alert, Alerts
<1>3. NewDevice \in KnownDevices /\ NewDevice.seen = None /\ ~NewDevice.online
  BY DEF NewDevice, KnownDevices
<1>4. \A d \in Devices : Known(d) \in [Devices -> KnownDevices \cup {None}]
  BY <1>1, <1>3 DEF Known
<1>5. \A d \in Devices : /\ Known(d)[d] = IF devices[d] = None THEN NewDevice ELSE devices[d]
                         /\ Known(d)[d] \in KnownDevices
  BY <1>1, <1>3 DEF Known
<1>6. \A d \in Devices : devices[d] # None =>
        /\ devices[d] \in KnownDevices /\ Said(devices[d])
        /\ devices[d].seen # None => devices[d].seen \in Nat /\ devices[d].seen \leq now
  BY <1>1 DEF AlertInv, HealthShape, DevicesOf, KnownDevices
<1>7. ASSUME NEW d \in Devices, NEW level \in Levels, HandleDeviceState(d, level)
      PROVE  AlertInv'
  <2> DEFINE old == Known(d)[d]
             device == [online |-> TRUE,
                        battery |-> IF level = None THEN old.battery ELSE level,
                        alerts |-> Raised(old.alerts, "low_battery", level # None /\ level < 20),
                        seen |-> now + 1]
  <2>1. level \in Nat \cup {None} /\ old \in KnownDevices
    BY <1>5, NoneAssumption
  <2>2. Raised(old.alerts, "low_battery", level # None /\ level < 20) \in Seq(Alerts)
    <3>1. old.alerts \in Seq(Alerts) /\ Alert("low_battery") \in Alerts
      BY <1>2, <2>1 DEF KnownDevices
    <3>2. Append(old.alerts, Alert("low_battery")) \in Seq(Alerts)
      BY <3>1
    <3>3. QED
      BY <3>1, <3>2 DEF Raised
  <2>3. device \in KnownDevices /\ device.seen = now + 1 /\ device.online
    BY <1>1, <2>1, <2>2 DEF KnownDevices
  <2>4. Said(device)
    BY <2>3 DEF Said
  <2>5. devices' = [Known(d) EXCEPT ![d] = device] /\ Change
    BY <1>7 DEF HandleDeviceState
  <2>6. devices' = [devices EXCEPT ![d] = device]
    BY <1>1, <2>5 DEF Known
  <2> HIDE DEF device
  <2>7. device.seen # None => device.seen \leq now + 1
    BY <1>1, <2>3
  <2>8. QED
    BY <2>3, <2>4, <2>5, <2>6, <2>7, ChangeOf
<1>8. ASSUME NEW d \in Devices, HandleDeviceAnnounce(d)
      PROVE  AlertInv'
  <2> DEFINE device == Known(d)[d]
  <2>1. device \in KnownDevices /\ Said(device)
    BY <1>3, <1>5, <1>6 DEF Said
  <2>2. device.seen # None => device.seen \leq now + 1
    BY <1>1, <1>3, <1>5, <1>6
  <2>3. devices' = [devices EXCEPT ![d] = device] /\ Change
    BY <1>1, <1>8 DEF HandleDeviceAnnounce, Known
  <2> HIDE DEF device
  <2>4. QED
    BY <2>1, <2>2, <2>3, ChangeOf
<1>9. ASSUME NEW d \in Devices, HandleAlert(d)
      PROVE  AlertInv'
  <2> DEFINE alert == Alert("reported")
             kept == Keep(Append(devices[d].alerts, alert))
             device == [devices[d] EXCEPT !.alerts = kept]
  <2>1. devices[d] # None /\ Change /\ devices' = [devices EXCEPT ![d] = device]
    BY <1>1, <1>9 DEF HandleAlert
  <2>2. devices[d] \in KnownDevices /\ devices[d].alerts \in Seq(Alerts) /\ alert \in Alerts
    <3>1. alert \in Alerts
      BY <1>2
    <3> HIDE DEF alert
    <3>2. devices[d] \in KnownDevices
      BY <1>6, <2>1
    <3>3. QED
      BY <3>1, <3>2 DEF KnownDevices
  <2>3. Append(devices[d].alerts, alert) \in Seq(Alerts)
    BY <2>2
  <2>4. kept \in Seq(Alerts)
    BY <2>3, KeepsLast
  <2>5. ASSUME ~devices[d].online, devices[d].seen # None
        PROVE  Marked(kept, devices[d].seen)
    <3>1. /\ devices[d].seen \in Nat /\ alert.at > devices[d].seen
          /\ Marked(devices[d].alerts, devices[d].seen)
      <4>1. alert.at = now + 1
        BY <1>2
      <4> HIDE DEF alert
      <4>2. /\ Said(devices[d])
            /\ devices[d].seen \in Nat /\ devices[d].seen \leq now
        BY <1>6, <2>1, <2>5
      <4>3. QED
        BY <1>1, <2>5, <4>1, <4>2 DEF Said
    <3> HIDE DEF alert
    <3>2. QED
      BY <2>2, <3>1, StaysMarked
  <2> HIDE DEF kept
  <2>6. /\ device \in KnownDevices /\ device.online = devices[d].online
        /\ device.seen = devices[d].seen /\ device.alerts = kept
    BY <2>2, <2>4 DEF KnownDevices
  <2> HIDE DEF device
  <2>7. Said(device) /\ (device.seen # None => device.seen \leq now + 1)
    BY <1>1, <1>6, <2>1, <2>5, <2>6 DEF Said
  <2>8. QED
    BY <2>1, <2>6, <2>7, ChangeOf
<1>10. ASSUME NEW d \in Devices, CheckOffline(d)
       PROVE  AlertInv'
  <2> DEFINE alert == Alert("device_offline")
             alerts == Append(devices[d].alerts, alert)
             device == [devices[d] EXCEPT !.online = FALSE, !.alerts = alerts]
  <2>1. devices[d] # None /\ Change /\ devices' = [devices EXCEPT ![d] = device]
    BY <1>1, <1>10 DEF CheckOffline
  <2>2. devices[d] \in KnownDevices /\ devices[d].alerts \in Seq(Alerts) /\ alert \in Alerts
    <3>1. alert \in Alerts
      BY <1>2
    <3> HIDE DEF alert
    <3>2. devices[d] \in KnownDevices
      BY <1>6, <2>1
    <3>3. QED
      BY <3>1, <3>2 DEF KnownDevices
  <2>3. /\ alerts \in Seq(Alerts) /\ Len(alerts) = Len(devices[d].alerts) + 1
        /\ alerts[Len(alerts)] = alert /\ DOMAIN alerts = 1 .. Len(alerts) /\ Len(alerts) \in Nat
    BY <2>2
  <2>4. alert.type = "device_offline" /\ alert.at = now + 1
    BY <1>2 DEF Alert
  <2> HIDE DEF alert, alerts
  <2>5. ASSUME devices[d].seen # None
        PROVE  Marked(alerts, devices[d].seen)
    <3>1. devices[d].seen \in Nat /\ now + 1 > devices[d].seen
      BY <1>1, <1>6, <2>1, <2>5
    <3>2. Len(alerts) \in DOMAIN alerts
      BY <2>2, <2>3
    <3>3. \A j \in DOMAIN alerts : Len(alerts) \leq j => j = Len(alerts)
      BY <2>3
    <3>4. QED
      BY <2>3, <2>4, <3>1, <3>2, <3>3 DEF Marked
  <2>6. /\ device \in KnownDevices /\ device.seen = devices[d].seen
        /\ device.alerts = alerts
    BY <2>2, <2>3 DEF KnownDevices
  <2> HIDE DEF device
  <2>7. Said(device) /\ (device.seen # None => device.seen \leq now + 1)
    BY <1>1, <1>6, <2>1, <2>5, <2>6 DEF Said
  <2>8. QED
    BY <2>1, <2>6, <2>7, ChangeOf
<1>11. QED
  BY <1>7, <1>8, <1>9, <1>10 DEF DeviceStep

(* ... and by all the rest, which leaves the devices alone.                *)
LEMMA NextKeeps ==
  ASSUME AlertInv, [Next]_vars
  PROVE  AlertInv'
<1>1. CASE DeviceStep
  BY <1>1, DeviceStepKeeps
<1>2. CASE UNCHANGED deviceVars
  BY <1>2 DEF deviceVars, AlertInv, HealthShape, DevicesOf, Said, Marked
<1>3. CASE (Collect \/ Broadcast) /\ UNCHANGED pageVars
  BY <1>2, <1>3 DEF Collect, Broadcast
<1>4. CASE OnClose \/ InitializeWebSocket \/ OnMessage
  BY <1>2, <1>4 DEF OnClose, InitializeWebSocket, OnMessage, serviceVars
<1>5. ASSUME NEW c \in Clients,
             \/ OnOpen(c) \/ ServeInitial(c) \/ ServeUpdate(c) \/ Leave(c)
             \/ CollectInitial(c) /\ UNCHANGED pageVars
      PROVE  UNCHANGED deviceVars
  BY <1>5 DEF OnOpen, Subscribe, ServeInitial, WriteInitial, ServeUpdate, WriteUpdate,
              Leave, Unsubscribe, CollectInitial
<1>6. CASE UNCHANGED vars
  BY <1>2, <1>6 DEF vars, serviceVars
<1>7. QED
  BY <1>1, <1>2, <1>3, <1>4, <1>5, <1>6 DEF Next

(* A device that was heard of and is offline has an alert of the sweep     *)
(* (monitor.go:350) that is later, or as many later ones as handleAlert    *)
(* keeps (monitor.go:254).                                                 *)
THEOREM OfflineSaid == Spec => []OfflineAlerted
<1>1. Init => AlertInv
  BY DEF Init, MonitorInit, AlertInv, HealthShape, DevicesOf
<1>2. AlertInv => OfflineAlerted
  <2> SUFFICES ASSUME AlertInv, NEW d \in DevicesOf(devices), Said(devices[d]),
                      ~devices[d].online, devices[d].seen # None
               PROVE  LET alerts == devices[d].alerts
                          Later(i) == alerts[i].at > devices[d].seen
                      IN  \/ \E i \in DOMAIN alerts :
                               alerts[i].type = "device_offline" /\ Later(i)
                          \/ Len(alerts) = AlertsKept /\ \A i \in DOMAIN alerts : Later(i)
    BY DEF AlertInv, OfflineAlerted
  <2>1. devices[d].alerts \in Seq(Alerts)
    BY DEF AlertInv, HealthShape, DevicesOf, KnownDevices
  <2>2. DOMAIN devices[d].alerts \subseteq Nat
    BY <2>1
  <2>3. QED
    BY <2>2 DEF Said, Marked
<1>3. QED
  BY <1>1, <1>2, NextKeeps, PTL DEF Spec

(***************************************************************************)
(* The numbers.  Whatever is in flight is a dashboard that was put         *)
(* together at one moment; its numbers are counts over its own devices.    *)
(***************************************************************************)

DashboardOf(at, known) ==
  [at |-> at,
   devices |-> known,
   total |-> Cardinality(DevicesOf(known)),
   online |-> Cardinality({d \in DevicesOf(known) : known[d].online}),
   offline |-> Cardinality({d \in DevicesOf(known) : ~known[d].online}),
   warnings |-> Cardinality({d \in DevicesOf(known) : LowBattery(known[d])})]

Dashboards ==
  {DashboardOf(at, known) : at \in Nat, known \in [Devices -> KnownDevices \cup {None}]}

Messages == [type : {"initial", "update"}, data : Dashboards]

Flight ==
  /\ dashboard \in Dashboards \cup {None}
  /\ subscribers \in [Clients -> Seq(Dashboards) \cup {None}]
  /\ initial \in [Clients -> Dashboards \cup {None}]
  /\ stage \in [Clients -> {"none", "subscribed", "collected", "serving"}]
  /\ \A c \in Clients : stage[c] = "collected" => initial[c] \in Dashboards
  /\ wire \in Seq(Messages)
  /\ shown \in Messages \cup {None}

(* What GetDashboardData returns is one.                                   *)
LEMMA DataIsDashboard ==
  ASSUME AlertInv
  PROVE  DashboardData \in Dashboards
<1>1. DashboardData = DashboardOf(now, devices)
  BY DEF DashboardData, DashboardOf
<1>2. QED
  BY <1>1 DEF Dashboards, AlertInv, HealthShape

(* No step puts anything else into a channel, on the wire or on the page.  *)
LEMMA FlightKept ==
  ASSUME AlertInv, Flight, [Next]_vars
  PROVE  Flight'
<1> USE DEF Flight
<1>1. CASE DeviceStep /\ UNCHANGED pageVars
  BY <1>1 DEF DeviceStep, pageVars
<1>2. CASE Collect /\ UNCHANGED pageVars
  BY <1>2, DataIsDashboard DEF Collect, pageVars
<1>3. CASE Broadcast /\ UNCHANGED pageVars
  <2>1. dashboard \in Dashboards
    BY <1>3 DEF Broadcast
  <2>2. \A channel \in Seq(Dashboards) \cup {None} : Offer(channel) \in Seq(Dashboards) \cup {None}
    <3>1. \A channel \in Seq(Dashboards) : Append(channel, dashboard) \in Seq(Dashboards)
      BY <2>1
    <3>2. QED
      BY <3>1 DEF Offer
  <2>3. subscribers' \in [Clients -> Seq(Dashboards) \cup {None}]
    BY <1>3, <2>2 DEF Broadcast
  <2>4. QED
    BY <1>3, <2>3 DEF Broadcast, pageVars
<1>4. ASSUME NEW c \in Clients, OnOpen(c)
      PROVE  Flight'
  <2>1. <<>> \in Seq(Dashboards)
    OBVIOUS
  <2>2. QED
    BY <1>4, <2>1 DEF OnOpen, Subscribe
<1>5. CASE OnClose
  <2>1. <<>> \in Seq(Messages)
    OBVIOUS
  <2>2. QED
    BY <1>5, <2>1 DEF OnClose, serviceVars
<1>6. CASE InitializeWebSocket
  BY <1>6 DEF InitializeWebSocket, serviceVars
<1>7. ASSUME NEW c \in Clients, CollectInitial(c), UNCHANGED pageVars
      PROVE  Flight'
  BY <1>7, DataIsDashboard DEF CollectInitial, pageVars
<1>8. \A c \in Clients, type \in {"initial", "update"}, data \in Dashboards :
        Write(c, type, data) => wire' \in Seq(Messages)
  <2> SUFFICES ASSUME NEW c \in Clients, NEW type \in {"initial", "update"},
                      NEW data \in Dashboards, Write(c, type, data)
               PROVE  wire' \in Seq(Messages)
    OBVIOUS
  <2> DEFINE message == [type |-> type, data |-> data]
  <2>1. message \in Messages
    BY DEF Messages
  <2>2. wire' = <<message>> \/ wire' = wire
    BY DEF Write
  <2> HIDE DEF message
  <2>3. <<message>> \in Seq(Messages)
    BY <2>1
  <2>4. QED
    BY <2>2, <2>3
<1>9. ASSUME NEW c \in Clients, ServeInitial(c)
      PROVE  Flight'
  <2>1. initial[c] \in Dashboards
    BY <1>9 DEF ServeInitial, WriteInitial
  <2>2. wire' \in Seq(Messages)
    BY <1>8, <1>9, <2>1 DEF ServeInitial
  <2>3. QED
    BY <1>9, <2>2 DEF ServeInitial, WriteInitial
<1>10. ASSUME NEW c \in Clients, ServeUpdate(c)
       PROVE  Flight'
  <2>1. subscribers[c] \in Seq(Dashboards) /\ subscribers[c] # <<>>
    BY <1>10 DEF ServeUpdate, WriteUpdate
  <2>2. Head(subscribers[c]) \in Dashboards /\ Tail(subscribers[c]) \in Seq(Dashboards)
    BY <2>1
  <2>3. wire' \in Seq(Messages)
    BY <1>8, <1>10, <2>2 DEF ServeUpdate
  <2>4. QED
    BY <1>10, <2>2, <2>3 DEF ServeUpdate, WriteUpdate
<1>11. ASSUME NEW c \in Clients, Leave(c)
       PROVE  Flight'
  BY <1>11 DEF Leave, Unsubscribe, pageVars
<1>12. CASE OnMessage
  <2>1. Head(wire) \in Messages /\ Tail(wire) \in Seq(Messages)
    BY <1>12 DEF OnMessage
  <2>2. QED
    BY <1>12, <2>1 DEF OnMessage, serviceVars
<1>13. CASE UNCHANGED vars
  BY <1>13 DEF vars, serviceVars, pageVars
<1>14. QED
  BY <1>1, <1>2, <1>3, <1>4, <1>5, <1>6, <1>7, <1>9, <1>10, <1>11, <1>12, <1>13 DEF Next

(* What a card shows of a battery and of alerts.                          *)
LEMMA DrawnCard ==
  ASSUME NEW device
  PROVE  /\ CreateDeviceCard(device).low <=> (device.battery # None /\ device.battery < 20)
         /\ CreateDeviceCard(device).alerts = Len(device.alerts)
  BY DEF CreateDeviceCard

(* On the page: the sets counted are the same.                             *)
LEMMA SameNumbers ==
  ASSUME Flight
  PROVE  CountsAgree
<1> SUFFICES ASSUME shown # None
             PROVE  CountsAgree
  BY DEF CountsAgree
<1>1. shown \in Messages
  BY DEF Flight
<1>2. PICK at \in Nat, known \in [Devices -> KnownDevices \cup {None}] :
        shown.data = DashboardOf(at, known)
  BY <1>1 DEF Messages, Dashboards
<1> DEFINE data == shown.data
           ids == DevicesOf(known)
<1>3. /\ data.devices = known /\ data.total = Cardinality(ids)
      /\ data.online = Cardinality({d \in ids : known[d].online})
      /\ data.offline = Cardinality({d \in ids : ~known[d].online})
      /\ data.warnings = Cardinality({d \in ids : LowBattery(known[d])})
  BY <1>2 DEF DashboardOf
<1>4. \A d \in ids : known[d] \in KnownDevices
  BY DEF DevicesOf
<1> DEFINE Under(status) == {d \in ids : Passes(known[d], status)}
           all == Cards(data, "all")
           LowBar == {d \in ids : known[d].battery \notin {None, 0} /\ known[d].battery < 20}
<1>5. \A status \in {"all", "online", "offline", "battery", "alerts"} :
        DOMAIN Cards(data, status) = Under(status)
  BY <1>3 DEF Cards
<1>6. /\ Under("all") = ids
      /\ Under("online") = {d \in ids : known[d].online}
      /\ Under("offline") = {d \in ids : ~known[d].online}
      /\ Under("alerts") = {d \in ids : Alerting(known[d])}
      /\ Under("battery") =
           {d \in ids : known[d].battery \notin {None, 0} /\ known[d].battery \leq 20}
  BY DEF Passes
<1>7. DOMAIN all = ids /\ \A d \in ids : all[d] = CreateDeviceCard(known[d])
  BY <1>3, <1>5, <1>6 DEF Cards
<1>8. {d \in DOMAIN all : all[d].low} = {d \in ids : LowBattery(known[d])}
  <2>1. \A d \in ids : all[d].low <=> LowBattery(known[d])
    BY <1>7, DrawnCard DEF LowBattery
  <2> HIDE DEF all, ids
  <2>2. QED
    BY <1>7, <2>1
<1>9. {d \in DOMAIN all : all[d].alerts > 0} = {d \in ids : Alerting(known[d])}
  <2>1. \A d \in ids : known[d].alerts \in Seq(Alerts)
    BY <1>4 DEF KnownDevices
  <2>2. \A d \in ids : Len(known[d].alerts) > 0 <=> Alerting(known[d])
    BY <2>1 DEF Alerting
  <2>3. \A d \in ids : all[d].alerts = Len(known[d].alerts)
    BY <1>7, DrawnCard
  <2> HIDE DEF all, ids
  <2>4. QED
    BY <1>7, <2>2, <2>3
<1>10. /\ Bars(data).online = Cardinality({d \in ids : known[d].online})
       /\ Bars(data).offline = Cardinality({d \in ids : ~known[d].online})
       /\ Bars(data).low = Cardinality(LowBar)
       /\ Bars(data).alerts = Cardinality({d \in ids : Alerting(known[d])})
  BY <1>3 DEF Bars
<1>11. \A d \in ids : known[d].battery \in Nat \cup {None}
  BY <1>4 DEF KnownDevices
<1>12. (\A d \in ids : known[d].battery # 0) => LowBar = {d \in ids : LowBattery(known[d])}
  BY <1>11, NoneAssumption DEF LowBattery
<1>13. (\A d \in ids : known[d].battery # 20) => LowBar = Under("battery")
  BY <1>6, <1>11, NoneAssumption
<1> HIDE DEF data, ids, all, LowBar, Under
<1>14. /\ data.total = Cardinality(DOMAIN all)
       /\ data.online = Bars(data).online /\ data.online = Cardinality(DOMAIN Cards(data, "online"))
       /\ data.offline = Bars(data).offline
       /\ data.offline = Cardinality(DOMAIN Cards(data, "offline"))
       /\ data.warnings = Cardinality({d \in DOMAIN all : all[d].low})
       /\ Bars(data).alerts = Cardinality({d \in DOMAIN all : all[d].alerts > 0})
       /\ Bars(data).alerts = Cardinality(DOMAIN Cards(data, "alerts"))
  BY <1>3, <1>5, <1>6, <1>7, <1>8, <1>9, <1>10
<1>15. data.warnings = Bars(data).low \/ \E d \in DOMAIN all : data.devices[d].battery = 0
  BY <1>3, <1>7, <1>10, <1>12
<1>16. \/ Bars(data).low = Cardinality(DOMAIN Cards(data, "battery"))
       \/ \E d \in DOMAIN all : data.devices[d].battery = 20
  BY <1>3, <1>5, <1>7, <1>10, <1>13
<1>17. QED
  BY <1>14, <1>15, <1>16 DEF CountsAgree, data, all

(* The numbers on the page are those of the cards, of the filters and of   *)
(* the chart, but for batteries at 0 and at 20, for any number of devices. *)
THEOREM NumbersAgree == Spec => []CountsAgree
<1>1. Init => AlertInv
  BY DEF Init, MonitorInit, AlertInv, HealthShape, DevicesOf
<1>2. Init => Flight
  <2>1. <<>> \in Seq(Messages)
    OBVIOUS
  <2>2. QED
    BY <2>1 DEF Init, MonitorInit, Flight
<1>3. QED
  BY <1>1, <1>2, NextKeeps, FlightKept, SameNumbers, PTL DEF Spec

(***************************************************************************)
(* The order.  Broadcasts are put together one after the other, so that    *)
(* they stand in a channel by their time; the page is sent nothing before  *)
(* its initial data, which is put together when all it shows is past.      *)
(***************************************************************************)

(* What was put together at "at" is no later than what broadcasts have     *)
(* still to bring to c.                                                    *)
Before(at, c) ==
  /\ subscribers[c] # None =>
       \A i \in 1 .. Len(subscribers[c]) : at \leq subscribers[c][i].at
  /\ dashboard # None => at \leq dashboard.at

(* No dashboard is ahead of the clock.                                     *)
Past ==
  /\ dashboard # None => dashboard.at \leq now
  /\ shown # None => shown.data.at \leq now
  /\ \A c \in Clients : stage[c] = "collected" => initial[c].at \leq now
  /\ \A i \in 1 .. Len(wire) : wire[i].data.at \leq now

(* A channel holds dashboards by their time, none later than the next.     *)
Sorted == \A c \in Clients : subscribers[c] # None =>
  /\ \A i, j \in 1 .. Len(subscribers[c]) :
       i \leq j => subscribers[c][i].at \leq subscribers[c][j].at
  /\ \A i \in 1 .. Len(subscribers[c]) :
       /\ subscribers[c][i].at \leq now
       /\ dashboard # None => subscribers[c][i].at \leq dashboard.at

(* What is on the wire is of the connection the page has ...               *)
Connected ==
  /\ server \in Clients \cup {None}
  /\ socket # "open" => server = None
  /\ server = None => wire = <<>>
  /\ Len(wire) \leq 1
  /\ server # None =>
       /\ stage[server] \in {"subscribed", "collected", "serving"}
       /\ stage[server] # "serving" => wire = <<>>

(* ... and it, and what comes after it, follows on what is shown.          *)
Forward ==
  server # None =>
    /\ stage[server] = "collected" /\ shown # None => shown.data.at \leq initial[server].at
    /\ stage[server] = "serving" =>
         /\ wire = <<>> /\ shown # None /\ shown.type = "update" => Before(shown.data.at, server)
         /\ wire # <<>> =>
              /\ shown # None /\ wire[1].data.at < shown.data.at
                   => shown.type = "initial" /\ wire[1].type = "update"
              /\ wire[1].type = "update" => Before(wire[1].data.at, server)

OrderInv == Past /\ Sorted /\ Connected /\ Forward

(* Whatever is in flight has a time.                                       *)
LEMMA Times ==
  ASSUME AlertInv, Flight
  PROVE  /\ now \in Nat
         /\ dashboard # None => dashboard.at \in Nat
         /\ \A c \in Clients : stage[c] = "collected" => initial[c].at \in Nat
         /\ shown # None => shown.data.at \in Nat /\ shown.type \in {"initial", "update"}
         /\ \A c \in Clients : subscribers[c] # None =>
              /\ subscribers[c] \in Seq(Dashboards)
              /\ \A i \in 1 .. Len(subscribers[c]) : subscribers[c][i].at \in Nat
         /\ \A i \in 1 .. Len(wire) :
              wire[i].data.at \in Nat /\ wire[i].type \in {"initial", "update"}
<1>1. ASSUME NEW x \in Dashboards
      PROVE  x.at \in Nat
  <2>1. PICK at \in Nat, known \in [Devices -> KnownDevices \cup {None}] : x = DashboardOf(at, known)
    BY DEF Dashboards
  <2>2. QED
    BY <2>1 DEF DashboardOf
<1>2. \A m \in Messages : m.data.at \in Nat /\ m.type \in {"initial", "update"}
  BY <1>1 DEF Messages
<1>3. now \in Nat
  BY DEF AlertInv, HealthShape
<1>4. ASSUME NEW c \in Clients, subscribers[c] # None
      PROVE  /\ subscribers[c] \in Seq(Dashboards)
             /\ \A i \in 1 .. Len(subscribers[c]) : subscribers[c][i].at \in Nat
  <2>1. subscribers[c] \in Seq(Dashboards)
    BY <1>4 DEF Flight
  <2>2. QED
    BY <1>1, <2>1
<1>5. \A i \in 1 .. Len(wire) : wire[i] \in Messages
  BY DEF Flight
<1>6. QED
  BY <1>1, <1>2, <1>3, <1>4, <1>5 DEF Flight

(* A step that moves the clock at most.                                    *)
LEMMA OrderWaits ==
  ASSUME AlertInv, Flight, OrderInv, now' \in Nat, now' \geq now,
         UNCHANGED <<subscribers, stage, initial, dashboard>>, UNCHANGED pageVars
  PROVE  OrderInv'
<1>1. Past'
  BY Times DEF OrderInv, Past, pageVars
<1>2. Sorted'
  <2> SUFFICES ASSUME NEW c \in Clients, subscribers[c] # None
               PROVE  \A i \in 1 .. Len(subscribers[c]) : subscribers[c][i].at \leq now'
    BY DEF OrderInv, Sorted
  <2>1. QED
    BY Times DEF OrderInv, Sorted
<1>3. Connected' /\ Forward'
  BY DEF OrderInv, Connected, Forward, Before, pageVars
<1>4. QED
  BY <1>1, <1>2, <1>3 DEF OrderInv

(* What is put together now is no earlier than anything on its way.        *)
LEMMA OrderCollect ==
  ASSUME AlertInv, Flight, OrderInv, Collect, UNCHANGED pageVars
  PROVE  OrderInv'
<1>1. /\ dashboard = None /\ dashboard'.at = now
      /\ UNCHANGED <<now, subscribers, stage, initial, socket, server, wire, shown, drops>>
  BY DEF Collect, DashboardData, deviceVars, pageVars
<1>2. Past' /\ Sorted' /\ Connected'
  BY <1>1, Times DEF OrderInv, Past, Sorted, Connected
<1>3. ASSUME NEW at \in Nat, NEW c \in Clients, at \leq now, Before(at, c)
      PROVE  Before(at, c)'
  BY <1>1, <1>3 DEF Before
<1>4. Forward'
  <2>1. wire # <<>> => 1 \in 1 .. Len(wire)
    BY DEF Flight
  <2>2. /\ shown # None => shown.data.at \in Nat /\ shown.data.at \leq now
        /\ wire # <<>> => wire[1].data.at \in Nat /\ wire[1].data.at \leq now
        /\ server # None => server \in Clients
    BY <2>1, Times DEF OrderInv, Past, Connected
  <2>3. QED
    BY <1>1, <1>3, <2>2 DEF OrderInv, Forward
<1>5. QED
  BY <1>2, <1>4 DEF OrderInv

(* A broadcast puts its dashboard at the end of the channels with room.    *)
LEMMA OrderBroadcast ==
  ASSUME AlertInv, Flight, OrderInv, Broadcast, UNCHANGED pageVars
  PROVE  OrderInv'
<1>1. /\ dashboard # None /\ dashboard' = None
      /\ UNCHANGED <<now, stage, initial, socket, server, wire, shown, drops>>
  BY DEF Broadcast, deviceVars, pageVars
<1>2. \A c \in Clients : subscribers'[c] = Offer(subscribers[c])
  BY DEF Broadcast
<1>3. ASSUME NEW c \in Clients
      PROVE  \/ subscribers'[c] = subscribers[c]
             \/ /\ subscribers[c] \in Seq(Dashboards) /\ subscribers[c] # None
                /\ subscribers'[c] = Append(subscribers[c], dashboard)
  BY <1>2, Times DEF Offer
<1>4. dashboard \in Dashboards /\ dashboard.at \in Nat
  BY <1>1, Times DEF Flight
<1>5. Sorted'
  <2> SUFFICES ASSUME NEW c \in Clients, subscribers'[c] # None
               PROVE  /\ \A i, j \in 1 .. Len(subscribers'[c]) :
                           i \leq j => subscribers'[c][i].at \leq subscribers'[c][j].at
                      /\ \A i \in 1 .. Len(subscribers'[c]) : subscribers'[c][i].at \leq now
    BY <1>1 DEF Sorted
  <2>1. CASE subscribers'[c] = subscribers[c]
    BY <2>1 DEF OrderInv, Sorted
  <2>2. CASE subscribers'[c] # subscribers[c]
    <3> DEFINE old == subscribers[c]
               new == subscribers'[c]
    <3>1. old # None /\ old \in Seq(Dashboards) /\ new = Append(old, dashboard)
      BY <1>3, <2>2
    <3>2. /\ \A i, j \in 1 .. Len(old) : i \leq j => old[i].at \leq old[j].at
          /\ \A i \in 1 .. Len(old) : old[i].at \leq now /\ old[i].at \leq dashboard.at
      BY <1>1, <3>1 DEF OrderInv, Sorted
    <3>3. dashboard.at \leq now
      BY <1>1 DEF OrderInv, Past
    <3> HIDE DEF old, new
    <3>4. /\ Len(new) = Len(old) + 1 /\ Len(old) \in Nat /\ new[Len(old) + 1] = dashboard
          /\ \A i \in 1 .. Len(old) : new[i] = old[i]
      BY <1>4, <3>1
    <3>5. /\ \A i, j \in 1 .. Len(new) : i \leq j => new[i].at \leq new[j].at
          /\ \A i \in 1 .. Len(new) : new[i].at \leq now
      BY <1>4, <3>2, <3>3, <3>4
    <3>6. QED
      BY <3>5 DEF new
  <2>3. QED
    BY <2>1, <2>2
<1>6. ASSUME NEW at \in Nat, NEW c \in Clients, Before(at, c)
      PROVE  Before(at, c)'
  <2>1. CASE subscribers'[c] = subscribers[c]
    BY <1>1, <1>6, <2>1 DEF Before
  <2>2. CASE subscribers'[c] # subscribers[c]
    <3> DEFINE old == subscribers[c]
               new == subscribers'[c]
    <3>1. old # None /\ old \in Seq(Dashboards) /\ new = Append(old, dashboard)
      BY <1>3, <2>2
    <3>2. at \leq dashboard.at /\ \A i \in 1 .. Len(old) : at \leq old[i].at
      BY <1>1, <1>6, <3>1 DEF Before
    <3> HIDE DEF old, new
    <3>3. \A i \in 1 .. Len(new) : at \leq new[i].at
      BY <1>4, <3>1, <3>2
    <3>4. QED
      BY <1>1, <3>3 DEF Before, new
  <2>3. QED
    BY <2>1, <2>2
<1>7. Past' /\ Connected'
  BY <1>1 DEF OrderInv, Past, Connected
<1>8. Forward'
  <2>1. wire # <<>> => 1 \in 1 .. Len(wire)
    BY DEF Flight
  <2>2. /\ shown # None => shown.data.at \in Nat
        /\ wire # <<>> => wire[1].data.at \in Nat
        /\ server # None => server \in Clients
    BY <2>1, Times DEF OrderInv, Connected
  <2>3. QED
    BY <1>1, <1>6, <2>2 DEF OrderInv, Forward
<1>9. QED
  BY <1>5, <1>7, <1>8 DEF OrderInv
(* A new connection.                                                       *)
LEMMA OrderOpen ==
  ASSUME AlertInv, Flight, OrderInv, NEW c \in Clients, OnOpen(c)
  PROVE  OrderInv'
<1>1. /\ socket # "open" /\ server' = c /\ socket' = "open"
      /\ stage' = [stage EXCEPT ![c] = "subscribed"]
      /\ subscribers' = [subscribers EXCEPT ![c] = <<>>]
      /\ UNCHANGED <<now, initial, dashboard, wire, shown, drops>>
  BY DEF OnOpen, Subscribe, deviceVars
<1>2. c # None
  BY NoneAssumption
<1>3. wire = <<>> /\ stage'[c] = "subscribed"
  BY <1>1 DEF OrderInv, Connected, Flight
<1>4. \A e \in Clients : subscribers'[e] = subscribers[e] \/ subscribers'[e] = <<>>
  BY <1>1 DEF Flight
<1>5. Sorted'
  BY <1>1, <1>4 DEF OrderInv, Sorted
<1>6. Past' /\ Connected' /\ Forward'
  BY <1>1, <1>2, <1>3 DEF OrderInv, Past, Connected, Forward
<1>7. QED
  BY <1>5, <1>6 DEF OrderInv

(* The initial data is as late as the clock.                               *)
LEMMA OrderInitial ==
  ASSUME AlertInv, Flight, OrderInv, NEW c \in Clients, CollectInitial(c), UNCHANGED pageVars
  PROVE  OrderInv'
<1>1. /\ stage[c] = "subscribed" /\ stage' = [stage EXCEPT ![c] = "collected"]
      /\ initial' = [initial EXCEPT ![c] = DashboardData] /\ DashboardData.at = now
      /\ UNCHANGED <<now, subscribers, dashboard, socket, server, wire, shown, drops>>
  BY DEF CollectInitial, DashboardData, deviceVars, pageVars
<1>2. /\ stage'[c] = "collected" /\ initial'[c].at = now
      /\ \A e \in Clients \ {c} : stage'[e] = stage[e] /\ initial'[e] = initial[e]
  BY <1>1 DEF Flight
<1>3. Past'
  BY <1>1, <1>2, Times DEF OrderInv, Past
<1>4. Sorted' /\ Connected'
  BY <1>1, <1>2 DEF OrderInv, Sorted, Connected
<1>5. Forward'
  BY <1>1, <1>2, <1>3 DEF OrderInv, Past, Connected, Forward, Before
<1>6. QED
  BY <1>3, <1>4, <1>5 DEF OrderInv

(* It is written first ...                                                 *)
LEMMA OrderServeInitial ==
  ASSUME AlertInv, Flight, OrderInv, NEW c \in Clients, ServeInitial(c)
  PROVE  OrderInv'
<1> DEFINE m == [type |-> "initial", data |-> initial[c]]
<1>1. /\ stage[c] = "collected" /\ stage' = [stage EXCEPT ![c] = "serving"]
      /\ initial' = [initial EXCEPT ![c] = None]
      /\ UNCHANGED <<now, subscribers, dashboard, socket, server, shown, drops>>
      /\ IF c = server THEN wire = <<>> /\ wire' = <<m>> ELSE wire' = wire
  BY DEF ServeInitial, WriteInitial, Write, deviceVars
<1>2. /\ stage'[c] = "serving"
      /\ \A e \in Clients \ {c} : stage'[e] = stage[e] /\ initial'[e] = initial[e]
  BY <1>1 DEF Flight
<1>3. initial[c].at \leq now
  BY <1>1 DEF OrderInv, Past
<1>4. Sorted'
  BY <1>1 DEF OrderInv, Sorted
<1>5. CASE c # server
  <2>1. Past' /\ Connected' /\ Forward'
    BY <1>1, <1>2, <1>5 DEF OrderInv, Past, Connected, Forward, Before
  <2>2. QED
    BY <1>4, <2>1 DEF OrderInv
<1>6. CASE c = server
  <2>1. /\ wire' = <<m>> /\ wire = <<>> /\ m.data = initial[c] /\ m.type = "initial"
        /\ Len(wire') = 1 /\ wire'[1] = m /\ wire' # <<>>
    BY <1>1, <1>6
  <2>2. c # None /\ (shown # None => shown.data.at \leq initial[c].at)
    BY <1>1, <1>6, NoneAssumption DEF OrderInv, Forward
  <2> HIDE DEF m
  <2>3. Past'
    BY <1>1, <1>2, <1>3, <2>1 DEF OrderInv, Past
  <2>4. server' = c /\ stage'[c] = "serving"
    BY <1>1, <1>2, <1>6
  <2>5. Connected'
    BY <1>1, <2>1, <2>2, <2>4 DEF OrderInv, Connected
  <2>6. shown # None => ~(m.data.at < shown.data.at)
    BY <1>1, <2>1, <2>2, Times
  <2>7. Forward'
    BY <1>1, <2>1, <2>4, <2>6 DEF Forward
  <2>8. QED
    BY <1>4, <2>3, <2>5, <2>7 DEF OrderInv
<1>7. QED
  BY <1>5, <1>6
(* The first of a sequence, and the rest.                                  *)
LEMMA HeadAndTail ==
  ASSUME NEW S, NEW s \in Seq(S), s # <<>>
  PROVE  /\ Len(s) \in Nat /\ 1 \in 1 .. Len(s) /\ Head(s) = s[1]
         /\ Tail(s) \in Seq(S) /\ Len(Tail(s)) \in Nat /\ Len(s) = Len(Tail(s)) + 1
         /\ \A i \in 1 .. Len(Tail(s)) : i + 1 \in 1 .. Len(s) /\ Tail(s)[i] = s[i + 1]
  OBVIOUS

(* ... and then the broadcasts of its channel, in their order.             *)
LEMMA OrderServeUpdate ==
  ASSUME AlertInv, Flight, OrderInv, NEW c \in Clients, ServeUpdate(c)
  PROVE  OrderInv'
<1> DEFINE old == subscribers[c]
           new == subscribers'[c]
           m == [type |-> "update", data |-> Head(old)]
<1>1. /\ stage[c] = "serving" /\ old \notin {None, <<>>}
      /\ subscribers' = [subscribers EXCEPT ![c] = Tail(old)]
      /\ UNCHANGED <<now, stage, initial, dashboard, socket, server, shown, drops>>
      /\ IF c = server THEN wire = <<>> /\ wire' = <<m>> ELSE wire' = wire
  BY DEF ServeUpdate, WriteUpdate, Write, deviceVars
<1>2. new = Tail(old) /\ \A e \in Clients \ {c} : subscribers'[e] = subscribers[e]
  BY <1>1 DEF Flight
<1>3. /\ old \in Seq(Dashboards) /\ \A i \in 1 .. Len(old) : old[i].at \in Nat
      /\ now \in Nat /\ (dashboard # None => dashboard.at \in Nat)
  BY <1>1, Times
<1>4. /\ Len(new) \in Nat /\ Len(old) = Len(new) + 1 /\ Head(old) = old[1]
      /\ \A i \in 1 .. Len(new) : i + 1 \in 1 .. Len(old) /\ new[i] = old[i + 1]
      /\ 1 \in 1 .. Len(old)
  <2> HIDE DEF old, new
  <2>1. new = Tail(old) /\ old # <<>> /\ old \in Seq(Dashboards)
    BY <1>1, <1>2, <1>3 DEF old
  <2>2. QED
    BY <2>1, HeadAndTail
<1>5. /\ \A i, j \in 1 .. Len(old) : i \leq j => old[i].at \leq old[j].at
      /\ \A i \in 1 .. Len(old) : old[i].at \leq now /\ (dashboard # None => old[i].at \leq dashboard.at)
  BY <1>1 DEF OrderInv, Sorted
<1>6. m.type = "update" /\ m.data = old[1]
  BY <1>4
<1> HIDE DEF old, new, m
<1>7. /\ \A i, j \in 1 .. Len(new) : i \leq j => new[i].at \leq new[j].at
      /\ \A i \in 1 .. Len(new) : new[i].at \leq now /\ (dashboard # None => new[i].at \leq dashboard.at)
      /\ \A i \in 1 .. Len(new) : old[1].at \leq new[i].at
  <2>1. \A i, j \in 1 .. Len(new) : i \leq j =>
          /\ i + 1 \in 1 .. Len(old) /\ j + 1 \in 1 .. Len(old) /\ i + 1 \leq j + 1
          /\ new[i] = old[i + 1] /\ new[j] = old[j + 1]
    BY <1>4
  <2>2. \A i \in 1 .. Len(new) : i + 1 \in 1 .. Len(old) /\ 1 \leq i + 1 /\ new[i] = old[i + 1]
    BY <1>4
  <2>3. QED
    BY <1>4, <1>5, <2>1, <2>2
<1>8. Sorted'
  BY <1>1, <1>2, <1>7 DEF OrderInv, Sorted, new
<1>9. 1 \in 1 .. Len(old)
  BY <1>4
<1>10. CASE c # server
  <2>1. Past' /\ Connected'
    BY <1>1, <1>10 DEF OrderInv, Past, Connected
  <2>2. server # None => subscribers'[server] = subscribers[server]
    BY <1>2, <1>10 DEF OrderInv, Connected
  <2>3. Forward'
    BY <1>1, <1>10, <2>2 DEF OrderInv, Forward, Before
  <2>4. QED
    BY <1>8, <2>1, <2>3 DEF OrderInv
<1>11. CASE c = server
  <2>1. /\ wire' = <<m>> /\ wire = <<>> /\ Len(wire') = 1 /\ wire'[1] = m /\ wire' # <<>>
    BY <1>1, <1>11
  <2>2. Past'
    <3>1. \A i \in 1 .. Len(wire') : wire'[i].data.at \leq now
      BY <1>5, <1>6, <1>9, <2>1
    <3>2. QED
      BY <1>1, <3>1 DEF OrderInv, Past
  <2>3. server' = c /\ c # None /\ stage'[c] = "serving"
    BY <1>1, <1>11, NoneAssumption
  <2>4. Connected'
    BY <1>1, <2>1, <2>3 DEF OrderInv, Connected
  <2>5. /\ \A i \in 1 .. Len(subscribers'[c]) : old[1].at \leq subscribers'[c][i].at
        /\ dashboard' # None => old[1].at \leq dashboard'.at
    BY <1>1, <1>5, <1>7, <1>9 DEF new
  <2>6. shown # None /\ shown.type = "update" => shown.data.at \leq old[1].at
    <3>1. c # None
      BY NoneAssumption
    <3>2. shown # None /\ shown.type = "update" => Before(shown.data.at, c)
      BY <1>1, <1>11, <2>1, <3>1 DEF OrderInv, Forward
    <3>3. QED
      BY <1>1, <1>9, <3>2 DEF Before, old
  <2>7. shown # None => shown.data.at \in Nat /\ shown.type \in {"initial", "update"}
    BY Times
  <2>8. old[1].at \in Nat
    BY <1>3, <1>9
  <2>9. Forward'
    <3>1. shown' = shown /\ wire'[1].type = "update" /\ wire'[1].data.at = old[1].at
      BY <1>1, <1>6, <2>1
    <3>2. shown' # None /\ wire'[1].data.at < shown'.data.at => shown'.type = "initial"
      BY <2>6, <2>7, <2>8, <3>1
    <3>3. /\ \A i \in 1 .. Len(subscribers'[c]) : wire'[1].data.at \leq subscribers'[c][i].at
          /\ dashboard' # None => wire'[1].data.at \leq dashboard'.at
      BY <2>5, <3>1
    <3>4. QED
      BY <2>1, <2>3, <3>1, <3>2, <3>3 DEF Forward, Before
  <2>10. QED
    BY <1>8, <2>2, <2>4, <2>9 DEF OrderInv
<1>12. QED
  BY <1>10, <1>11

(* What the page receives is what it shows from then on.                   *)
LEMMA OrderMessage ==
  ASSUME AlertInv, Flight, OrderInv, OnMessage
  PROVE  OrderInv'
<1>1. /\ wire # <<>> /\ shown' = Head(wire) /\ wire' = Tail(wire)
      /\ UNCHANGED <<now, subscribers, stage, initial, dashboard, socket, server, drops>>
  BY DEF OnMessage, serviceVars, deviceVars
<1>2. Head(wire) = wire[1] /\ 1 \in 1 .. Len(wire) /\ Tail(wire) = <<>>
  <2>1. wire \in Seq(Messages) /\ Len(wire) \leq 1
    BY DEF Flight, OrderInv, Connected
  <2>2. /\ Head(wire) = wire[1] /\ 1 \in 1 .. Len(wire) /\ Len(wire) \in Nat
        /\ Tail(wire) \in Seq(Messages) /\ Len(Tail(wire)) \in Nat /\ Len(wire) = Len(Tail(wire)) + 1
    BY <1>1, <2>1, HeadAndTail
  <2>3. Len(Tail(wire)) = 0
    BY <2>1, <2>2
  <2> DEFINE rest == Tail(wire)
  <2>4. rest \in Seq(Messages) /\ Len(rest) = 0
    BY <2>2, <2>3
  <2> HIDE DEF rest
  <2>5. rest = <<>>
    BY <2>4
  <2>6. QED
    BY <2>2, <2>5 DEF rest
<1>3. server # None /\ stage[server] = "serving"
  BY <1>1 DEF OrderInv, Connected
<1>4. Past' /\ Sorted' /\ Connected'
  BY <1>1, <1>2, <1>3 DEF OrderInv, Past, Sorted, Connected
<1>5. wire[1].type = "update" => Before(wire[1].data.at, server)
  BY <1>1, <1>3 DEF OrderInv, Forward
<1>6. Forward'
  BY <1>1, <1>2, <1>3, <1>5 DEF Forward, Before
<1>7. QED
  BY <1>4, <1>6 DEF OrderInv

(* The invariant of the order is kept.                                     *)
LEMMA OrderKept ==
  ASSUME AlertInv, Flight, OrderInv, [Next]_vars
  PROVE  OrderInv'
<1>1. CASE DeviceStep /\ UNCHANGED pageVars
  <2>1. now' = now + 1 /\ now \in Nat
    BY <1>1, Times DEF DeviceStep, HandleDeviceState, HandleDeviceAnnounce, HandleAlert, CheckOffline, Change
  <2>2. QED
    BY <1>1, <2>1, OrderWaits DEF DeviceStep
<1>2. CASE (Collect \/ Broadcast) /\ UNCHANGED pageVars
  BY <1>2, OrderCollect, OrderBroadcast
<1>3. CASE OnClose
  <2>1. /\ server' = None /\ wire' = <<>> /\ socket' = "closed"
        /\ UNCHANGED <<now, subscribers, stage, initial, dashboard, shown>>
    BY <1>3 DEF OnClose, serviceVars, deviceVars
  <2>2. QED
    BY <2>1 DEF OrderInv, Past, Sorted, Connected, Forward
<1>4. CASE InitializeWebSocket
  <2>1. /\ socket = "closed" /\ socket' = "connecting"
        /\ UNCHANGED <<now, subscribers, stage, initial, dashboard, server, wire, shown>>
    BY <1>4 DEF InitializeWebSocket, serviceVars, deviceVars
  <2>2. QED
    BY <2>1 DEF OrderInv, Past, Sorted, Connected, Forward, Before
<1>5. ASSUME NEW c \in Clients, Leave(c)
      PROVE  OrderInv'
  <2>1. /\ c # server
        /\ \A e \in Clients \ {c} : stage'[e] = stage[e] /\ initial'[e] = initial[e] /\ subscribers'[e] = subscribers[e]
        /\ stage'[c] = "none" /\ subscribers'[c] = None
        /\ UNCHANGED <<now, dashboard, socket, server, wire, shown>>
    BY <1>5 DEF Leave, Unsubscribe, Flight, pageVars, deviceVars
  <2>2. Past' /\ Sorted'
    BY <2>1 DEF OrderInv, Past, Sorted
  <2>3. Connected' /\ Forward'
    BY <2>1 DEF OrderInv, Connected, Forward, Before
  <2>4. QED
    BY <2>2, <2>3 DEF OrderInv
<1>6. ASSUME NEW c \in Clients,
             OnOpen(c) \/ ServeInitial(c) \/ ServeUpdate(c) \/ (CollectInitial(c) /\ UNCHANGED pageVars)
      PROVE  OrderInv'
  BY <1>6, OrderOpen, OrderServeInitial, OrderServeUpdate, OrderInitial
<1>7. CASE OnMessage
  BY <1>7, OrderMessage
<1>8. CASE UNCHANGED vars
  BY <1>8, OrderWaits, Times DEF vars, serviceVars, deviceVars
<1>9. QED
  BY <1>1, <1>2, <1>3, <1>4, <1>5, <1>6, <1>7, <1>8 DEF Next

(* What the page shows never goes back in time (server.go:120), except     *)
(* from its initial data to the first update after it, for any number of   *)
(* devices, connections, dashboards missed and drops.                      *)
THEOREM NeverBack == Spec => ShownForward
<1> DEFINE Step == shown # None /\ shown'.data.at < shown.data.at
                     => shown.type = "initial" /\ shown'.type = "update"
           Inv == AlertInv /\ Flight /\ OrderInv
<1>1. Init => Inv
  <2>1. Init => AlertInv
    BY DEF Init, MonitorInit, AlertInv, HealthShape, DevicesOf
  <2>2. <<>> \in Seq(Messages) /\ Len(<<>>) = 0
    OBVIOUS
  <2>3. Init => Flight
    BY <2>2 DEF Init, MonitorInit, Flight
  <2>4. Init => OrderInv
    BY <2>2 DEF Init, MonitorInit, OrderInv, Past, Sorted, Connected, Forward
  <2>5. QED
    BY <2>1, <2>3, <2>4
<1>2. Inv /\ [Next]_vars => Inv'
  BY NextKeeps, FlightKept, OrderKept
<1>3. Inv /\ [Next]_vars => [Step]_shown
  <2> SUFFICES ASSUME Inv, [Next]_vars, shown' # shown
               PROVE  Step
    OBVIOUS
  <2>1. OnMessage
    BY DEF Next, vars, DeviceStep, Collect, Broadcast, OnClose, InitializeWebSocket,
           OnOpen, ServeInitial, ServeUpdate, Leave, pageVars, serviceVars
  <2>2. wire # <<>> /\ shown' = Head(wire) /\ Head(wire) = wire[1]
    BY <2>1 DEF OnMessage, Flight
  <2>3. server # None /\ stage[server] = "serving"
    BY <2>2 DEF OrderInv, Connected
  <2>4. QED
    BY <2>2, <2>3 DEF OrderInv, Forward
<1> HIDE DEF Inv, Step
<1>4. Spec => [][Step]_shown
  BY <1>1, <1>2, <1>3, PTL DEF Spec
<1>5. QED
  BY <1>4 DEF Step, ShownForward

=============================================================================
