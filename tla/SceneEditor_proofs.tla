-------------------------- MODULE SceneEditor_proofs --------------------------
(***************************************************************************)
(* Proofs about the scenes page, for any scenes, devices and objects and   *)
(* any number of requests, edits and losses.                               *)
(***************************************************************************)
EXTENDS SceneEditor, FiniteSetTheorems, TLAPS

(***************************************************************************)
(* Types.                                                                  *)
(***************************************************************************)

AllNames == Names \cup {""} \cup {Stored[id].name : id \in DOMAIN Stored}
AllIcons == Icons \cup {"", "fa-home"} \cup {Stored[id].icon : id \in DOMAIN Stored}

SceneObject == [id : Ids \cup {None}, name : AllNames, icon : AllIcons,
                devices : Partial(Devices, Refs)]

DocOK(x) == IsDocument(x) /\ x.name \in AllNames /\ x.icon \in AllIcons

DocsOK(docs) ==
  /\ docs = [id \in Ids |-> docs[id]]
  /\ \A id \in Ids : docs[id] # None => DocOK(docs[id])

RequestOK(r) ==
  /\ r = [n |-> r.n, op |-> r.op, id |-> r.id, status |-> r.status, doc |-> r.doc, refs |-> r.refs]
  /\ r.op \in {"create", "update", "delete"}
  /\ r.status \in {"sent", "ok", "failed"}
  /\ r.id \in Ids \cup {None}
  /\ r.op # "create" \/ r.status = "ok" => r.id \in Ids
  /\ DocOK(r.doc)
  /\ r.refs \in Partial(Devices, Refs)
  /\ DOMAIN r.doc.devices = DOMAIN r.refs

ServerOK == DocsOK(server) /\ (list # None => DocsOK(list))

PageOK ==
  /\ scenes \in [Ids -> Objs \cup {None}]
  /\ objs \in [Objs -> SceneObject]
  /\ heap = [r \in Refs |-> heap[r]]
  /\ selected \in Objs \cup {None}
  /\ current \in Objs \cup {None}
  /\ deviceStates \in Partial(Devices, Refs)
  /\ typed \in AllNames

(* The scene objects in use are of the right scene. *)
Linked ==
  /\ \A id \in Ids : scenes[id] # None => objs[scenes[id]].id = id
  /\ selected # None => objs[selected].id \in Ids
  /\ open => current \in Objs
  /\ open /\ selected = None => objs[current].id = None
  /\ open /\ selected # None => selected = current

RequestsOK == \A r \in requests : RequestOK(r)

TypeInv == ServerOK /\ PageOK /\ Linked /\ RequestsOK /\ excused \subseteq Ids

(* A partial function has its domain in S and its values in T. *)
LEMMA PartialIff ==
  ASSUME NEW S, NEW T, NEW f
  PROVE  f \in Partial(S, T) <=> DOMAIN f \subseteq S /\ f \in [DOMAIN f -> T]
  BY DEF Partial

(* What was written and read once is the same when it is again. *)
LEMMA JsonTwice == ASSUME NEW s PROVE Json(Json(s)) = Json(s)
  BY DEF Json

(* What is written as JSON is a document. *)
LEMMA DocIs ==
  ASSUME NEW name \in AllNames, NEW icon \in AllIcons, NEW refs \in Partial(Devices, Refs)
  PROVE  DocOK(Doc(name, icon, refs)) /\ DOMAIN Doc(name, icon, refs).devices = DOMAIN refs
<1> DEFINE x == Doc(name, icon, refs)
<1>1. x.name = name /\ x.icon = icon /\ x.devices = [d \in DOMAIN refs |-> Json(heap[refs[d]])]
  BY DEF Doc
<1>2. DOMAIN refs \subseteq Devices
  BY PartialIff
<1>3. [d \in DOMAIN x.devices |-> Json(x.devices[d])] = x.devices
  BY <1>1, JsonTwice
<1>4. x = [name |-> x.name, icon |-> x.icon, devices |-> x.devices]
  BY DEF Doc
<1> HIDE DEF x
<1>5. DocOK(x) /\ DOMAIN x.devices = DOMAIN refs
  BY <1>1, <1>2, <1>3, <1>4 DEF DocOK, IsDocument
<1> QED
  BY <1>5 DEF x

(* What the server keeps of a document is a document, of the same devices. *)
LEMMA ReceivedIs ==
  ASSUME NEW x, DocOK(x)
  PROVE  DocOK(Received(x)) /\ DOMAIN Received(x).devices = DOMAIN x.devices
<1> DEFINE y == Received(x)
<1>1. /\ y.name = x.name /\ y.icon = x.icon
      /\ y.devices = [d \in DOMAIN x.devices |-> GetMap(x.devices[d])]
      /\ y = [name |-> y.name, icon |-> y.icon, devices |-> y.devices]
  BY DEF Received, DocOK, IsDocument
<1>2. \A d \in DOMAIN x.devices : x.devices[d] = Json(x.devices[d])
  <2>1. [d \in DOMAIN x.devices |-> Json(x.devices[d])] = x.devices
    BY DEF DocOK, IsDocument
  <2> QED
    BY <2>1
<1>3. \A d \in DOMAIN x.devices : Json(GetMap(x.devices[d])) = GetMap(x.devices[d])
  BY <1>2 DEF GetMap, Json, Empty
<1>4. [d \in DOMAIN y.devices |-> Json(y.devices[d])] = y.devices
  BY <1>1, <1>3
<1> HIDE DEF y
<1>5. DocOK(y) /\ DOMAIN y.devices = DOMAIN x.devices
  BY <1>1, <1>4 DEF DocOK, IsDocument
<1> QED
  BY <1>5 DEF y

(* The scene without devices is a scene. *)
LEMMA EmptyIs == Empty \in Partial(Devices, Refs) /\ DOMAIN Empty = {}
<1>1. DOMAIN Empty = {} /\ Empty \in [{} -> Refs]
  BY DEF Empty
<1> QED
  BY <1>1, PartialIff

(* The page begins without scenes, and is sent the stored ones. *)
LEMMA TypeInit == Init => TypeInv
<1> SUFFICES ASSUME Init PROVE TypeInv
  OBVIOUS
<1>1. DocsOK(server) /\ list = server
  <2>1. ASSUME NEW id \in DOMAIN Stored PROVE DocOK(Stored[id])
    BY StoredAssumption DEF DocOK, AllNames, AllIcons
  <2>2. ASSUME NEW id \in Ids, server[id] # None PROVE DocOK(server[id])
    BY <2>1, <2>2 DEF Init
  <2> QED
    BY <2>2 DEF Init, DocsOK
<1>2. Blank \in SceneObject
  BY EmptyIs DEF Blank, SceneObject, AllNames, AllIcons
<1>3. PageOK
  BY <1>2, EmptyIs DEF Init, PageOK, AllNames
<1>4. Linked
  BY <1>3 DEF Init, Linked
<1> QED
  BY <1>1, <1>3, <1>4, SceneAssumption DEF Init, TypeInv, ServerOK, RequestsOK

(* A set that is no larger than another has an injection into it. *)
LEMMA Inject ==
  ASSUME NEW S, NEW T, IsFiniteSet(S), IsFiniteSet(T), Cardinality(T) >= Cardinality(S)
  PROVE  New(S, T) \in [S -> T] /\ \A a, b \in S : New(S, T)[a] = New(S, T)[b] => a = b
<1> DEFINE m == Cardinality(S)  n == Cardinality(T)
<1>1. m \in Nat /\ \E f \in Bijection(1..m, S) : TRUE
  BY FS_CardinalityType DEF ExistsBijection
<1>2. n \in Nat /\ \E g \in Bijection(1..n, T) : TRUE
  BY FS_CardinalityType DEF ExistsBijection
<1>a. PICK f \in Bijection(1..m, S) : TRUE
  BY <1>1
<1>b. PICK g \in Bijection(1..n, T) : TRUE
  BY <1>2
<1>3. /\ f \in [1..m -> S] /\ \A s \in S : \E i \in 1..m : f[i] = s
      /\ g \in [1..n -> T] /\ \A i, j \in 1..n : g[i] = g[j] => i = j
  BY <1>a, <1>b DEF Bijection, Injection, Surjection, IsInjective
<1>4. 1..m \subseteq 1..n
  BY <1>1, <1>2
<1> HIDE DEF m, n
<1> DEFINE index(s) == CHOOSE i \in 1..m : f[i] = s
           h == [s \in S |-> g[index(s)]]
<1>5. \A s \in S : index(s) \in 1..m /\ f[index(s)] = s
  BY <1>3
<1> HIDE DEF index
<1>6. h \in [S -> T] /\ IsInjective(h)
  <2>1. \A s \in S : h[s] = g[index(s)] /\ g[index(s)] \in T
    BY <1>3, <1>4, <1>5
  <2>2. ASSUME NEW a \in S, NEW b \in S, h[a] = h[b] PROVE a = b
    BY <1>3, <1>4, <1>5, <2>1, <2>2
  <2> QED
    BY <2>1, <2>2 DEF IsInjective
<1>7. New(S, T) \in [S -> T] /\ IsInjective(New(S, T))
  BY <1>6 DEF New
<1> QED
  BY <1>7 DEF IsInjective

(***************************************************************************)
(* What parsing documents does.                                            *)
(***************************************************************************)

(* The documents of docs have become the objects obj and the states ref. *)
ParsedInto(docs, rest, obj, ref) ==
  /\ \A i, j \in DOMAIN docs : obj[i] = obj[j] => i = j
  /\ \A p, q \in Places(docs) : ref[p] = ref[q] => p = q
  /\ \A id \in DOMAIN docs :
       objs'[obj[id]] =
         [id |-> id, name |-> docs[id].name, icon |-> docs[id].icon,
          devices |-> [d \in DOMAIN docs[id].devices |-> ref[<<id, d>>]]]
  /\ \A o \in Objs : (\A id \in DOMAIN docs : o # obj[id]) => objs'[o] = objs[o]
  /\ \A p \in Places(docs) : heap'[ref[p]] = docs[p[1]].devices[p[2]]
  /\ \A r \in Refs : (\A p \in Places(docs) : r # ref[p]) => heap'[r] = heap[r]
  /\ scenes' = [id \in Ids |-> IF id \in DOMAIN docs THEN obj[id] ELSE rest[id]]
  /\ objs' = [o \in Objs |-> objs'[o]] /\ heap' = [r \in Refs |-> heap'[r]]

(* The objects and the states it makes are new and different.              *)
LEMMA Parsing ==
  ASSUME NEW docs, NEW rest, NEW freeObjs \in SUBSET Objs, NEW freeRefs \in SUBSET Refs,
         DOMAIN docs \subseteq Ids, \A id \in DOMAIN docs : IsDocument(docs[id]),
         CanParse(docs, freeObjs, freeRefs), Parse(docs, rest, freeObjs, freeRefs)
  PROVE  \E obj \in [DOMAIN docs -> freeObjs], ref \in [Places(docs) -> freeRefs] :
           ParsedInto(docs, rest, obj, ref)
<1> DEFINE obj == New(DOMAIN docs, freeObjs)
           ref == New(Places(docs), freeRefs)
<1>1. IsFiniteSet(DOMAIN docs) /\ IsFiniteSet(freeObjs) /\ IsFiniteSet(freeRefs)
  BY SceneAssumption, FS_Subset
<1>2. IsFiniteSet(Places(docs))
  <2>1. Places(docs) \subseteq Ids \X Devices
    BY DEF Places, IsDocument
  <2>2. IsFiniteSet(Ids \X Devices)
    BY SceneAssumption, FS_Product
  <2> QED
    BY <2>1, <2>2, FS_Subset
<1>3. obj \in [DOMAIN docs -> freeObjs] /\ \A i, j \in DOMAIN docs : obj[i] = obj[j] => i = j
  BY <1>1, Inject DEF CanParse
<1>4. ref \in [Places(docs) -> freeRefs] /\ \A p, q \in Places(docs) : ref[p] = ref[q] => p = q
  BY <1>1, <1>2, Inject DEF CanParse
<1>5. /\ objs' = [o \in Objs |->
           IF o \in Range(obj)
           THEN LET id == CHOOSE i \in DOMAIN docs : obj[i] = o
                IN  [id |-> id, name |-> docs[id].name, icon |-> docs[id].icon,
                     devices |-> [d \in DOMAIN docs[id].devices |-> ref[<<id, d>>]]]
           ELSE objs[o]]
      /\ heap' = [r \in Refs |->
           IF r \in Range(ref)
           THEN LET p == CHOOSE q \in Places(docs) : ref[q] = r
                IN  docs[p[1]].devices[p[2]]
           ELSE heap[r]]
      /\ scenes' = [id \in Ids |-> IF id \in DOMAIN docs THEN obj[id] ELSE rest[id]]
  BY DEF Parse
<1> HIDE DEF obj, ref
<1>6. ASSUME NEW id \in DOMAIN docs
      PROVE  objs'[obj[id]] =
               [id |-> id, name |-> docs[id].name, icon |-> docs[id].icon,
                devices |-> [d \in DOMAIN docs[id].devices |-> ref[<<id, d>>]]]
  <2>1. obj[id] \in Objs /\ obj[id] \in Range(obj)
    BY <1>3 DEF Range
  <2>2. (CHOOSE i \in DOMAIN docs : obj[i] = obj[id]) = id
    BY <1>3
  <2> QED
    BY <1>5, <2>1, <2>2
<1>7. ASSUME NEW p \in Places(docs) PROVE heap'[ref[p]] = docs[p[1]].devices[p[2]]
  <2>1. ref[p] \in Refs /\ ref[p] \in Range(ref)
    BY <1>4 DEF Range
  <2>2. (CHOOSE q \in Places(docs) : ref[q] = ref[p]) = p
    BY <1>4
  <2> QED
    BY <1>5, <2>1, <2>2
<1>8. \A o \in Objs : (\A id \in DOMAIN docs : o # obj[id]) => objs'[o] = objs[o]
  BY <1>3, <1>5 DEF Range
<1>9. \A r \in Refs : (\A p \in Places(docs) : r # ref[p]) => heap'[r] = heap[r]
  BY <1>4, <1>5 DEF Range
<1>10. objs' = [o \in Objs |-> objs'[o]] /\ heap' = [r \in Refs |-> heap'[r]]
  BY <1>5
<1> USE <1>3, <1>4
<1> WITNESS obj \in [DOMAIN docs -> freeObjs], ref \in [Places(docs) -> freeRefs]
<1> QED
  BY <1>3, <1>4, <1>5, <1>6, <1>7, <1>8, <1>9, <1>10 DEF ParsedInto

(***************************************************************************)
(* Steps keep the types.                                                   *)
(***************************************************************************)

(* The dialog's steps keep the types. *)
LEMMA TypeDialog == ASSUME TypeInv, Dialog PROVE TypeInv'
<1> USE DEF TypeInv
<1>1. UNCHANGED <<server, list, requests, scenes>>
  BY DEF Dialog, ShowCreateScene, CloseDialog, EditScene, TypeName, PickIcon, ToggleDevice,
     UpdateDeviceState, UpdateDeviceCustomState
<1>2. ServerOK' /\ RequestsOK'
  BY <1>1 DEF ServerOK, RequestsOK
<1>3. ASSUME ShowCreateScene PROVE (PageOK /\ Linked /\ excused \subseteq Ids)'
  <2>1. PICK o \in Objs \ LiveObjs : Show(o) /\ objs' = [objs EXCEPT ![o] = Blank]
    BY <1>3 DEF ShowCreateScene
  <2>2. Blank \in SceneObject /\ Blank.id = None /\ Blank.name \in AllNames
    BY EmptyIs DEF Blank, SceneObject, AllNames, AllIcons
  <2>3. PageOK'
    BY <1>3, <2>1, <2>2, EmptyIs DEF ShowCreateScene, Show, PageOK
  <2>4. \A id \in Ids : scenes[id] # o
    BY <2>1, SceneAssumption DEF LiveObjs
  <2> QED
    BY <1>3, <2>1, <2>2, <2>3, <2>4 DEF ShowCreateScene, Show, PageOK, Linked
<1>4. ASSUME NEW id \in Ids, EditScene(id) PROVE (PageOK /\ Linked /\ excused \subseteq Ids)'
  <2>1. scenes[id] \in Objs /\ objs[scenes[id]].id = id /\ scenes[id] # None
    BY <1>4 DEF EditScene, SceneCards, PageOK, Linked
  <2>2. objs[scenes[id]].name \in AllNames /\ objs[scenes[id]].devices \in Partial(Devices, Refs)
    BY <2>1 DEF PageOK, SceneObject
  <2> QED
    BY <1>4, <2>1, <2>2 DEF EditScene, Show, PageOK, Linked
<1>5. ASSUME CloseDialog PROVE (PageOK /\ Linked /\ excused \subseteq Ids)'
  BY <1>5 DEF CloseDialog, PageOK, Linked
<1>6. ASSUME NEW n \in Names, TypeName(n) PROVE (PageOK /\ Linked /\ excused \subseteq Ids)'
  BY <1>6 DEF TypeName, PageOK, Linked, AllNames
<1>7. ASSUME NEW i \in Icons, PickIcon(i) PROVE (PageOK /\ Linked /\ excused \subseteq Ids)'
  <2>1. current \in Objs /\ i \in AllIcons
    BY <1>7 DEF PickIcon, Edit, Linked, AllIcons
  <2>2. objs' \in [Objs -> SceneObject] /\ \A o \in Objs : objs'[o].id = objs[o].id
    BY <1>7, <2>1 DEF PickIcon, PageOK, SceneObject
  <2> QED
    BY <1>7, <2>2 DEF PickIcon, PageOK, Linked
<1>8. ASSUME NEW d \in Devices, ToggleDevice(d) PROVE (PageOK /\ Linked /\ excused \subseteq Ids)'
  <2>1. current \in Objs /\ objs[current].name \in AllNames
    BY <1>8 DEF ToggleDevice, Edit, Linked, PageOK, SceneObject
  <2>2. heap' = [r \in Refs |-> heap'[r]] /\ deviceStates' \in Partial(Devices, Refs)
    BY <1>8, PartialIff DEF ToggleDevice, PageOK, Restrict, With
  <2> QED
    BY <1>8, <2>1, <2>2 DEF ToggleDevice, PageOK, Linked
<1>9. ASSUME NEW d \in Devices, UpdateDeviceState(d) PROVE (PageOK /\ Linked /\ excused \subseteq Ids)'
  <2>1. heap' = [r \in Refs |-> heap'[r]]
    BY <1>9 DEF UpdateDeviceState, PageOK
  <2> QED
    BY <1>9, <2>1 DEF UpdateDeviceState, PageOK, Linked, Sharing
<1>10. ASSUME NEW d \in Devices, UpdateDeviceCustomState(d) PROVE (PageOK /\ Linked /\ excused \subseteq Ids)'
  <2>a. PICK state \in Customs, r \in Refs \ LiveRefs :
              heap' = [heap EXCEPT ![r] = state] /\ deviceStates' = [deviceStates EXCEPT ![d] = r]
    BY <1>10 DEF UpdateDeviceCustomState
  <2>b. deviceStates' \in Partial(Devices, Refs)
    BY <2>a, PartialIff DEF PageOK
  <2>1. heap' = [q \in Refs |-> heap'[q]] /\ deviceStates' \in Partial(Devices, Refs)
    BY <2>a, <2>b DEF PageOK
  <2> QED
    BY <1>10, <2>1 DEF UpdateDeviceCustomState, PageOK, Linked
<1> QED
  BY <1>2, <1>3, <1>4, <1>5, <1>6, <1>7, <1>8, <1>9, <1>10 DEF Dialog

(* A new request. *)
LEMMA TypeRequest ==
  ASSUME TypeInv, NEW op, NEW id, NEW name \in AllNames, NEW icon \in AllIcons,
         NEW refs \in Partial(Devices, Refs), Request(op, id, name, icon, refs),
         \/ op = "create" /\ id = None
         \/ op \in {"update", "delete"} /\ id \in Ids
  PROVE  RequestsOK'
<1> DEFINE q == [n |-> used.requests, op |-> op, id |-> id, status |-> "sent",
                 doc |-> Doc(name, icon, refs), refs |-> refs]
<1>1. requests' = requests \cup {q}
  BY DEF Request
<1>2. /\ q.n = used.requests /\ q.op = op /\ q.id = id /\ q.status = "sent"
      /\ q.doc = Doc(name, icon, refs) /\ q.refs = refs
      /\ q = [n |-> q.n, op |-> q.op, id |-> q.id, status |-> q.status, doc |-> q.doc, refs |-> q.refs]
  OBVIOUS
<1> HIDE DEF q
<1>3. RequestOK(q)
  BY <1>2, DocIs DEF RequestOK
<1> QED
  BY <1>1, <1>3 DEF RequestsOK, TypeInv

(* A save and a deletion send a well-formed request. *)
LEMMA TypeAsk ==
  ASSUME TypeInv, SaveScene \/ \E id \in Ids : DeleteScene(id)
  PROVE  TypeInv'
<1>1. UNCHANGED <<server, born, list, pageVars, excused>>
  BY DEF SaveScene, DeleteScene
<1>2. RequestsOK'
  <2>1. CASE SaveScene
    <3>1. current \in Objs /\ objs[current].icon \in AllIcons /\ typed \in AllNames
      BY <2>1 DEF SaveScene, TypeInv, PageOK, Linked, SceneObject
    <3>2. SceneDevices \in Partial(Devices, Refs)
      BY DEF SceneDevices, TypeInv, PageOK
    <3>3. selected # None => objs[selected].id \in Ids
      BY DEF TypeInv, Linked
    <3> QED
      BY <2>1, <3>1, <3>2, <3>3, TypeRequest DEF SaveScene
  <2>2. ASSUME NEW id \in Ids, DeleteScene(id) PROVE RequestsOK'
    <3>1. "" \in AllNames /\ "" \in AllIcons
      BY DEF AllNames, AllIcons
    <3> QED
      BY <2>2, <3>1, EmptyIs, TypeRequest DEF DeleteScene
  <2> QED
    BY <2>1, <2>2
<1> QED
  BY <1>1, <1>2 DEF TypeInv, ServerOK, PageOK, Linked, pageVars

(* A request that is settled. *)
Settled(r, status, id) ==
  [n |-> r.n, op |-> r.op, id |-> id, status |-> status, doc |-> r.doc, refs |-> r.refs]

(* A request that is settled changes in status and id only. *)
LEMMA Settling ==
  ASSUME TypeInv, NEW r \in requests, NEW status \in {"sent", "ok", "failed"}, NEW id,
         Settle(r, status, id)
  PROVE  requests' = (requests \ {r}) \cup {Settled(r, status, id)}
<1>1. PICK n, op, i, st, doc, refs :
        r = [n |-> n, op |-> op, id |-> i, status |-> st, doc |-> doc, refs |-> refs]
  BY DEF TypeInv, RequestsOK, RequestOK
<1>2. PICK q : q = [r EXCEPT !.status = status, !.id = id]
  OBVIOUS
<1>3. q = [n |-> n, op |-> op, id |-> id, status |-> status, doc |-> doc, refs |-> refs]
  BY <1>1, <1>2
<1> QED
  BY <1>1, <1>2, <1>3 DEF Settle, Settled

(* A request that is settled is well formed if its id is. *)
LEMMA TypeSettle ==
  ASSUME TypeInv, NEW r \in requests, NEW status \in {"ok", "failed"}, NEW id, Settle(r, status, id),
         id \in Ids \cup {None}, r.op # "create" \/ status = "ok" => id \in Ids
  PROVE  RequestsOK'
<1> DEFINE q == Settled(r, status, id)
<1>1. requests' = (requests \ {r}) \cup {q}
  BY Settling
<1>2. /\ q.n = r.n /\ q.op = r.op /\ q.id = id /\ q.status = status
      /\ q.doc = r.doc /\ q.refs = r.refs
      /\ q = [n |-> q.n, op |-> q.op, id |-> q.id, status |-> q.status, doc |-> q.doc, refs |-> q.refs]
  BY DEF Settled
<1>3. RequestOK(r)
  BY DEF TypeInv, RequestsOK
<1> HIDE DEF q
<1>4. RequestOK(q)
  BY <1>2, <1>3 DEF RequestOK
<1> QED
  BY <1>1, <1>4 DEF RequestsOK, TypeInv

(* The server keeps documents, and its answers are well formed. *)
LEMMA TypeServer ==
  ASSUME TypeInv, NEW r \in requests, ServerHandles(r) \/ Lose(r)
  PROVE  TypeInv'
<1>1. UNCHANGED <<list, pageVars>>
  BY DEF ServerHandles, Lose
<1>2. RequestOK(r)
  BY DEF TypeInv, RequestsOK
<1>3. RequestsOK' /\ excused' \subseteq Ids
  <2>1. CASE ServerHandles(r)
    <3>1. ASSUME HandleCreateScene(r) PROVE RequestsOK'
      BY <3>1, TypeSettle DEF HandleCreateScene
    <3>2. ASSUME HandleMissing(r) \/ HandleUpdateScene(r) \/ HandleDeleteScene(r) PROVE RequestsOK'
      BY <1>2, <3>2, TypeSettle DEF HandleMissing, HandleUpdateScene, HandleDeleteScene, RequestOK
    <3> QED
      BY <2>1, <3>1, <3>2 DEF ServerHandles, TypeInv
  <2>2. CASE Lose(r)
    BY <1>2, <2>2, TypeSettle DEF Lose, RequestOK, TypeInv
  <2> QED
    BY <2>1, <2>2
<1>4. DocsOK(server)'
  <2>1. DocOK(Received(r.doc)) /\ DocsOK(server)
    BY <1>2, ReceivedIs DEF RequestOK, TypeInv, ServerOK
  <2>2. ASSUME NEW id \in Ids, server' = [server EXCEPT ![id] = Received(r.doc)] PROVE DocsOK(server)'
    BY <2>1, <2>2 DEF DocsOK
  <2>3. ASSUME server' = [server EXCEPT ![r.id] = None] PROVE DocsOK(server)'
    BY <2>1, <2>3 DEF DocsOK
  <2>4. ASSUME server' = server PROVE DocsOK(server)'
    BY <2>1, <2>4 DEF DocsOK
  <2>5. r.op # "create" => r.id \in Ids
    BY <1>2 DEF RequestOK
  <2> QED
    BY <2>2, <2>3, <2>4, <2>5 DEF ServerHandles, Lose, HandleCreateScene, HandleMissing,
       HandleUpdateScene, HandleDeleteScene
<1> QED
  BY <1>1, <1>3, <1>4 DEF TypeInv, ServerOK, PageOK, Linked, pageVars

(* The answer to a save changes one object. *)
LEMMA Assigned ==
  ASSUME PageOK, NEW o \in Objs, NEW r, RequestOK(r), Assign(o, r)
  PROVE  /\ objs' \in [Objs -> SceneObject]
         /\ objs'[o] = [id |-> objs[o].id, name |-> r.doc.name, icon |-> r.doc.icon, devices |-> r.refs]
         /\ \A p \in Objs : p # o => objs'[p] = objs[p]
<1>1. PICK x : x = [id |-> objs[o].id, name |-> r.doc.name, icon |-> r.doc.icon, devices |-> r.refs]
  OBVIOUS
<1>2. x \in SceneObject
  BY <1>1 DEF PageOK, SceneObject, RequestOK, DocOK
<1>3. objs' = [objs EXCEPT ![o] = x]
  BY <1>1 DEF Assign
<1> QED
  BY <1>1, <1>2, <1>3 DEF PageOK

(* Documents that are parsed get objects of their own, under their ids. *)
LEMMA TypeParse ==
  ASSUME PageOK, NEW docs, NEW rest \in [Ids -> Objs \cup {None}],
         NEW freeObjs \in SUBSET Objs, NEW freeRefs \in SUBSET Refs,
         DOMAIN docs \subseteq Ids, \A id \in DOMAIN docs : DocOK(docs[id]),
         \A id \in Ids : rest[id] # None => rest[id] \notin freeObjs /\ objs[rest[id]].id = id,
         CanParse(docs, freeObjs, freeRefs), Parse(docs, rest, freeObjs, freeRefs)
  PROVE  /\ scenes' \in [Ids -> Objs \cup {None}]
         /\ objs' \in [Objs -> SceneObject]
         /\ heap' = [r \in Refs |-> heap'[r]]
         /\ \A o \in Objs \ freeObjs : objs'[o] = objs[o]
         /\ \A id \in Ids : scenes'[id] # None => objs'[scenes'[id]].id = id
<1>1. \A id \in DOMAIN docs : IsDocument(docs[id])
  BY DEF DocOK
<1>2. PICK obj \in [DOMAIN docs -> freeObjs], ref \in [Places(docs) -> freeRefs] :
        ParsedInto(docs, rest, obj, ref)
  BY <1>1, Parsing
<1> USE DEF ParsedInto
<1>3. ASSUME NEW id \in DOMAIN docs PROVE objs'[obj[id]] \in SceneObject /\ objs'[obj[id]].id = id
  <2> DEFINE refs == [d \in DOMAIN docs[id].devices |-> ref[<<id, d>>]]
  <2>1. \A d \in DOMAIN docs[id].devices : d \in Devices /\ ref[<<id, d>>] \in Refs
    BY <1>1 DEF IsDocument, Places
  <2>2. refs \in Partial(Devices, Refs)
    BY <2>1, PartialIff
  <2> HIDE DEF refs
  <2>3. objs'[obj[id]] = [id |-> id, name |-> docs[id].name, icon |-> docs[id].icon, devices |-> refs]
    BY <1>2 DEF refs
  <2> QED
    BY <2>2, <2>3 DEF SceneObject, DocOK
<1>4. \A o \in Objs : objs'[o] \in SceneObject
  BY <1>2, <1>3 DEF PageOK
<1>5. \A o \in Objs \ freeObjs : objs'[o] = objs[o]
  BY <1>2
<1>6. scenes' \in [Ids -> Objs \cup {None}]
  BY <1>2
<1>7. ASSUME NEW id \in Ids, scenes'[id] # None PROVE objs'[scenes'[id]].id = id
  BY <1>2, <1>3, <1>5, <1>7
<1> QED
  BY <1>2, <1>4, <1>5, <1>6, <1>7

(* Only scenes are excused. *)
LEMMA Excusing ==
  ASSUME NEW S, excused \subseteq Ids, S \subseteq Ids, Excuse(S)
  PROVE  excused' \subseteq Ids
  BY DEF Excuse

(* Answers keep the types. *)
LEMMA TypeAnswer ==
  ASSUME TypeInv, NEW r \in requests, Answer(r)
  PROVE  TypeInv'
<1>1. /\ UNCHANGED <<server, list, selected, current, deviceStates, typed>>
      /\ requests' = requests \ {r}
  BY DEF Answer
<1>2. RequestOK(r)
  BY DEF TypeInv, RequestsOK
<1>3. ServerOK' /\ RequestsOK'
  BY <1>1 DEF TypeInv, ServerOK, RequestsOK
<1>4. ASSUME AnswerUpdate(r), r.status = "ok" PROVE PageOK' /\ Linked' /\ excused' \subseteq Ids
  <2>1. selected \in Objs
    BY <1>4 DEF AnswerUpdate, TypeInv, PageOK
  <2>2. /\ objs' \in [Objs -> SceneObject] /\ objs'[selected].id = objs[selected].id
        /\ \A p \in Objs : p # selected => objs'[p] = objs[p]
    <3>1. PageOK /\ Assign(selected, r)
      BY <1>4 DEF AnswerUpdate, TypeInv
    <3>2. /\ objs' \in [Objs -> SceneObject]
          /\ objs'[selected] = [id |-> objs[selected].id, name |-> r.doc.name, icon |-> r.doc.icon,
                                devices |-> r.refs]
          /\ \A p \in Objs : p # selected => objs'[p] = objs[p]
      BY <1>2, <2>1, <3>1, Assigned
    <3> QED
      BY <3>2
  <2>3. excused' \subseteq Ids
    <3>1. r.id \in Ids /\ objs[selected].id \in Ids
      BY <1>2, <1>4 DEF RequestOK, TypeInv, Linked, AnswerUpdate
    <3> QED
      BY <1>4, <3>1 DEF AnswerUpdate, Excuse, TypeInv
  <2> QED
    BY <1>1, <1>4, <2>2, <2>3 DEF AnswerUpdate, TypeInv, PageOK, Linked
<1>5. ASSUME AnswerUpdateNoSelection(r), r.status = "ok" PROVE PageOK' /\ Linked' /\ excused' \subseteq Ids
  <2>1. r.id \in Ids
    BY <1>2, <1>5 DEF RequestOK
  <2> QED
    BY <1>1, <1>5, <2>1 DEF AnswerUpdateNoSelection, Excuse, TypeInv, PageOK, Linked
<1>6. ASSUME AnswerCreate(r), r.status = "ok" PROVE PageOK' /\ Linked' /\ excused' \subseteq Ids
  <2> DEFINE docs == [id \in {r.id} |-> Received(r.doc)]
             freeObjs == Objs \ LiveObjs
             freeRefs == Refs \ LiveRefs
  <2>1. r.id \in Ids /\ DocOK(Received(r.doc))
    BY <1>2, <1>6, ReceivedIs DEF RequestOK
  <2>2. CanParse(docs, freeObjs, freeRefs) /\ Parse(docs, scenes, freeObjs, freeRefs)
    BY <1>6 DEF AnswerCreate
  <2>3. DOMAIN docs \subseteq Ids /\ \A id \in DOMAIN docs : DocOK(docs[id])
    BY <2>1
  <2>4. \A id \in Ids : scenes[id] # None => scenes[id] \notin freeObjs /\ objs[scenes[id]].id = id
    BY DEF LiveObjs, TypeInv, Linked
  <2>5. PageOK /\ scenes \in [Ids -> Objs \cup {None}] /\ freeObjs \in SUBSET Objs /\ freeRefs \in SUBSET Refs
    BY DEF TypeInv, PageOK
  <2>6. selected \notin freeObjs /\ current \notin freeObjs
    BY SceneAssumption DEF LiveObjs
  <2> HIDE DEF docs, freeObjs, freeRefs
  <2>7. /\ scenes' \in [Ids -> Objs \cup {None}]
        /\ objs' \in [Objs -> SceneObject]
        /\ heap' = [q \in Refs |-> heap'[q]]
        /\ \A o \in Objs \ freeObjs : objs'[o] = objs[o]
        /\ \A id \in Ids : scenes'[id] # None => objs'[scenes'[id]].id = id
    BY <2>2, <2>3, <2>4, <2>5, TypeParse
  <2>8. ~open' /\ excused' \subseteq Ids
    BY <1>6, <2>1, Excusing DEF AnswerCreate, TypeInv, Excuse
  <2> QED
    BY <1>1, <2>6, <2>7, <2>8 DEF TypeInv, PageOK, Linked
<1>7. ASSUME AnswerDelete(r), r.status = "ok" PROVE PageOK' /\ Linked' /\ excused' \subseteq Ids
  BY <1>1, <1>7 DEF AnswerDelete, Excuse, TypeInv, PageOK, Linked
<1>8. ASSUME AnswerFailed(r) PROVE PageOK' /\ Linked' /\ excused' \subseteq Ids
  BY <1>1, <1>8 DEF AnswerFailed, TypeInv, PageOK, Linked
<1> QED
  BY <1>3, <1>4, <1>5, <1>6, <1>7, <1>8 DEF Answer, TypeInv

(* A list that is sent or loaded keeps the types. *)
LEMMA TypeLists == ASSUME TypeInv, SendInitialData \/ LoadScenes PROVE TypeInv'
<1>1. CASE SendInitialData
  BY <1>1 DEF SendInitialData, TypeInv, ServerOK, PageOK, Linked, RequestsOK, pageVars
<1>2. CASE LoadScenes
  <2> DEFINE docs == Present(list)
             rest == [id \in Ids |-> None]
             freeObjs == Objs \ ({selected, current} \ {None})
             freeRefs == Refs \ (Range(deviceStates) \cup (UNION {Range(r.refs) : r \in requests})
                            \cup (UNION {Range(objs[o].devices) : o \in {selected, current} \ {None}}))
  <2>1. CanParse(docs, freeObjs, freeRefs) /\ Parse(docs, rest, freeObjs, freeRefs)
    BY <1>2 DEF LoadScenes
  <2>2. DOMAIN docs \subseteq Ids /\ \A id \in DOMAIN docs : DocOK(docs[id])
    BY <1>2 DEF LoadScenes, Present, Restrict, TypeInv, ServerOK, DocsOK
  <2>3. /\ PageOK /\ rest \in [Ids -> Objs \cup {None}] /\ \A id \in Ids : rest[id] = None
        /\ freeObjs \in SUBSET Objs /\ freeRefs \in SUBSET Refs
    BY DEF TypeInv
  <2>4. selected \notin freeObjs /\ current \notin freeObjs
    BY SceneAssumption
  <2> HIDE DEF docs, rest, freeObjs, freeRefs
  <2>5. /\ scenes' \in [Ids -> Objs \cup {None}]
        /\ objs' \in [Objs -> SceneObject]
        /\ heap' = [q \in Refs |-> heap'[q]]
        /\ \A o \in Objs \ freeObjs : objs'[o] = objs[o]
        /\ \A id \in Ids : scenes'[id] # None => objs'[scenes'[id]].id = id
    BY <2>1, <2>2, <2>3, TypeParse
  <2>6. /\ UNCHANGED <<server, selected, current, deviceStates, typed, open, requests>>
        /\ list' = None /\ excused' \subseteq Ids
    BY <1>2 DEF LoadScenes, Excuse, TypeInv
  <2> QED
    BY <2>4, <2>5, <2>6 DEF TypeInv, ServerOK, RequestsOK, PageOK, Linked
<1> QED
  BY <1>1, <1>2

(* Every step keeps the types. *)
LEMMA TypeStep == TypeInv /\ [Next]_vars => TypeInv'
<1>1. TypeInv /\ UNCHANGED vars => TypeInv'
  BY DEF vars, pageVars, TypeInv, ServerOK, RequestsOK, PageOK, Linked
<1> QED
  BY <1>1, TypeDialog, TypeAsk, TypeServer, TypeAnswer, TypeLists DEF Next

(* References lead to objects of the right scene, for any constants. *)
THEOREM TypeCorrect == Spec => []TypeOK
<1>1. TypeInv => TypeOK
  BY DEF TypeInv, TypeOK, PageOK, Linked, RequestsOK, RequestOK, AllNames
<1> QED
  BY <1>1, TypeInit, TypeStep, PTL DEF Spec

(***************************************************************************)
(* The dialog.                                                             *)
(***************************************************************************)

(* Unless a list comes or a request is settled, the scenes shown stay as they are. *)
LEMMA KeepsScenesStep == TypeInv /\ [Next]_vars => KeepsScenes \/ UNCHANGED vars
<1> SUFFICES ASSUME TypeInv, Next, list' = list \/ list = None, requests \subseteq requests'
             PROVE  /\ scenes' = scenes
                    /\ \A id \in Ids : scenes[id] # None => Outline(id)' = Outline(id)
  BY DEF KeepsScenes
<1>1. ASSUME UNCHANGED <<scenes, objs>>
      PROVE  \A id \in Ids : scenes[id] # None => Outline(id)' = Outline(id)
  BY <1>1 DEF Outline
<1>2. CASE Dialog
  <2>1. scenes' = scenes
    BY <1>2 DEF Dialog, ShowCreateScene, CloseDialog, EditScene, TypeName, PickIcon, ToggleDevice,
       UpdateDeviceState, UpdateDeviceCustomState
  <2>2. ASSUME ShowCreateScene PROVE \A id \in Ids : scenes[id] # None => objs'[scenes[id]] = objs[scenes[id]]
    BY <2>2 DEF ShowCreateScene, LiveObjs, TypeInv, PageOK
  <2>3. ASSUME NEW i \in Icons, PickIcon(i)
        PROVE  \A o \in Objs : objs'[o].name = objs[o].name /\ objs'[o].devices = objs[o].devices
    BY <2>3 DEF PickIcon, TypeInv, PageOK, SceneObject
  <2>4. ShowCreateScene \/ (\E i \in Icons : PickIcon(i)) \/ objs' = objs
    BY <1>2 DEF Dialog, CloseDialog, EditScene, TypeName, ToggleDevice, UpdateDeviceState,
       UpdateDeviceCustomState
  <2>5. \A id \in Ids : scenes[id] # None => scenes[id] \in Objs
    BY DEF TypeInv, PageOK
  <2> QED
    BY <1>1, <2>1, <2>2, <2>3, <2>4, <2>5 DEF Outline
<1>3. CASE SaveScene \/ (\E id \in Ids : DeleteScene(id)) \/ SendInitialData
             \/ (\E r \in requests : ServerHandles(r) \/ Lose(r))
  <2>1. UNCHANGED pageVars
    BY <1>3 DEF SaveScene, DeleteScene, SendInitialData, ServerHandles, Lose
  <2> QED
    BY <1>1, <2>1 DEF pageVars
<1>4. ASSUME NEW r \in requests, Answer(r) PROVE FALSE
  BY <1>4 DEF Answer
<1>5. CASE LoadScenes
  BY <1>5 DEF LoadScenes
<1> QED
  BY <1>2, <1>3, <1>4, <1>5 DEF Next

(* What the dialog changes before it is saved (scene-editor.js:460): the   *)
(* scenes of the page keep their names and devices until a list or an      *)
(* answer arrives.                                                         *)
THEOREM DialogKeeps == Spec => DialogKeepsScenes
<1>1. TypeInv /\ [Next]_vars => [KeepsScenes]_vars
  BY KeepsScenesStep
<1> QED
  BY <1>1, TypeInit, TypeStep, PTL DEF Spec, DialogKeepsScenes

(***************************************************************************)
(* The page and the server.  A scene the page shows otherwise than the     *)
(* server has it is excused, or an answer is on its way; one that was      *)
(* deleted does not come back.                                             *)
(***************************************************************************)

Answered(id) == \E r \in requests : r.status = "ok" /\ r.id = id

Born ==
  /\ \A id \in Ids : server[id] # None => id \in born
  /\ \A r \in requests : r.op = "delete" /\ r.status = "ok" => r.id \in born /\ server[r.id] = None

Agreement == \A id \in Ids : Agrees(id) \/ id \in excused \/ Answered(id)


(* What a save or a deletion sends. *)
Sent(q, op, id, name, icon, refs) ==
  /\ q.op = op /\ q.id = id /\ q.status = "sent" /\ q.refs = refs /\ q.doc = Doc(name, icon, refs)
  /\ requests' = requests \cup {q}

(* What is asked for is a creation, an update or a deletion of what is shown. *)
LEMMA Asking ==
  ASSUME SaveScene \/ \E id \in Ids : DeleteScene(id)
  PROVE  \E q :
           \/ /\ open /\ selected = None
              /\ Sent(q, "create", None, typed, objs[current].icon, deviceStates)
           \/ /\ open /\ selected # None
              /\ Sent(q, "update", objs[selected].id, typed, objs[current].icon, deviceStates)
           \/ \E id \in SceneCards : Sent(q, "delete", id, "", "", Empty)
<1>1. ASSUME NEW op, NEW id, NEW name, NEW icon, NEW refs, Request(op, id, name, icon, refs)
      PROVE  \E q : Sent(q, op, id, name, icon, refs)
  <2>1. PICK q : q = [n |-> used.requests, op |-> op, id |-> id, status |-> "sent",
                      doc |-> Doc(name, icon, refs), refs |-> refs]
    OBVIOUS
  <2>2. Sent(q, op, id, name, icon, refs)
    BY <1>1, <2>1 DEF Request, Sent
  <2> QED
    BY <2>2
<1>2. CASE SaveScene
  <2>1. CASE selected = None
    BY <1>1, <1>2, <2>1 DEF SaveScene, SceneDevices
  <2>2. CASE selected # None
    BY <1>1, <1>2, <2>2 DEF SaveScene, SceneDevices
  <2> QED
    BY <2>1, <2>2
<1>3. ASSUME NEW id \in Ids, DeleteScene(id)
      PROVE  id \in SceneCards /\ \E q : Sent(q, "delete", id, "", "", Empty)
  BY <1>1, <1>3 DEF DeleteScene
<1> QED
  BY <1>2, <1>3

(* The ids of the start have been given out. *)
LEMMA BornInit == Init => Born
  BY DEF Init, Born

(* Every step keeps to ids that have been given out. *)
LEMMA BornStep == ASSUME TypeInv, Born, [Next]_vars PROVE Born'
<1>1. ASSUME UNCHANGED <<server, born>>, requests' \subseteq requests PROVE Born'
  BY <1>1 DEF Born
<1>2. ASSUME SaveScene \/ \E id \in Ids : DeleteScene(id) PROVE Born'
  <2>1. UNCHANGED <<server, born>>
    BY <1>2 DEF SaveScene, DeleteScene
  <2>2. \A q \in requests' : q \in requests \/ q.status = "sent"
    BY <1>2, Asking DEF Sent
  <2> QED
    BY <2>1, <2>2 DEF Born
<1>3. ASSUME NEW r \in requests, ServerHandles(r) PROVE Born'
  <2>1. RequestOK(r) /\ server = [id \in Ids |-> server[id]]
    BY DEF TypeInv, RequestsOK, ServerOK, DocsOK
  <2>2. ASSUME HandleCreateScene(r) PROVE Born'
    <3>1. PICK id \in Ids \ born : /\ born' = born \cup {id} /\ server' = [server EXCEPT ![id] = Received(r.doc)]
                                   /\ Settle(r, "ok", id)
      BY <2>2 DEF HandleCreateScene
    <3>2. requests' = (requests \ {r}) \cup {Settled(r, "ok", id)}
      BY <3>1, Settling
    <3>3. Settled(r, "ok", id).op = "create"
      BY <2>2 DEF Settled, HandleCreateScene
    <3> QED
      BY <2>1, <3>1, <3>2, <3>3 DEF Born
  <2>3. ASSUME HandleMissing(r) PROVE Born'
    <3>1. requests' = (requests \ {r}) \cup {Settled(r, "failed", r.id)} /\ UNCHANGED <<server, born>>
      BY <2>3, Settling DEF HandleMissing
    <3>2. Settled(r, "failed", r.id).status = "failed"
      BY DEF Settled
    <3> QED
      BY <3>1, <3>2 DEF Born
  <2>4. ASSUME HandleUpdateScene(r) PROVE Born'
    <3>1. /\ requests' = (requests \ {r}) \cup {Settled(r, "ok", r.id)} /\ UNCHANGED born
          /\ server' = [server EXCEPT ![r.id] = Received(r.doc)] /\ server[r.id] # None
      BY <2>4, Settling DEF HandleUpdateScene
    <3>2. Settled(r, "ok", r.id).op = "update"
      BY <2>4 DEF Settled, HandleUpdateScene
    <3>3. r.id \in Ids
      BY <2>1, <2>4 DEF RequestOK, HandleUpdateScene
    <3> QED
      BY <2>1, <3>1, <3>2, <3>3 DEF Born
  <2>5. ASSUME HandleDeleteScene(r) PROVE Born'
    <3>1. /\ requests' = (requests \ {r}) \cup {Settled(r, "ok", r.id)} /\ UNCHANGED born
          /\ server' = [server EXCEPT ![r.id] = None] /\ server[r.id] # None
      BY <2>5, Settling DEF HandleDeleteScene
    <3>2. Settled(r, "ok", r.id).id = r.id
      BY DEF Settled
    <3>3. r.id \in Ids
      BY <2>1, <2>5 DEF RequestOK, HandleDeleteScene
    <3>4. \A q \in requests : q.op = "delete" /\ q.status = "ok" => q.id \in born /\ server'[q.id] = None
      BY <2>1, <3>1, <3>3 DEF Born
    <3> QED
      BY <2>1, <3>1, <3>2, <3>3, <3>4 DEF Born
  <2> QED
    BY <1>3, <2>2, <2>3, <2>4, <2>5 DEF ServerHandles
<1>4. ASSUME NEW r \in requests, Lose(r) PROVE Born'
  <2>1. requests' = (requests \ {r}) \cup {Settled(r, "failed", r.id)} /\ UNCHANGED <<server, born>>
    BY <1>4, Settling DEF Lose
  <2>2. Settled(r, "failed", r.id).status = "failed"
    BY DEF Settled
  <2> QED
    BY <2>1, <2>2 DEF Born
<1>5. ASSUME NEW r \in requests, Answer(r) PROVE Born'
  BY <1>1, <1>5 DEF Answer
<1>6. ASSUME Dialog \/ SendInitialData \/ LoadScenes \/ UNCHANGED vars PROVE Born'
  BY <1>1, <1>6 DEF Dialog, ShowCreateScene, CloseDialog, EditScene, TypeName, PickIcon, ToggleDevice,
     UpdateDeviceState, UpdateDeviceCustomState, SendInitialData, LoadScenes, vars
<1> QED
  BY <1>2, <1>3, <1>4, <1>5, <1>6 DEF Next

(* What the page shows of a scene whose object and states stay as they are. *)
LEMMA ShownKept ==
  ASSUME NEW id \in Ids, scenes'[id] = scenes[id],
         scenes[id] # None =>
           /\ objs'[scenes[id]] = objs[scenes[id]]
           /\ \A q \in Range(objs[scenes[id]].devices) : heap'[q] = heap[q]
  PROVE  Shown(id)' = Shown(id)
<1>1. CASE scenes[id] = None
  BY <1>1 DEF Shown
<1>2. CASE scenes[id] # None
  <2> DEFINE refs == objs[scenes[id]].devices
  <2>1. [d \in DOMAIN refs |-> Json(heap'[refs[d]])] = [d \in DOMAIN refs |-> Json(heap[refs[d]])]
    <3>1. \A d \in DOMAIN refs : heap'[refs[d]] = heap[refs[d]]
      BY <1>2 DEF Range
    <3> HIDE DEF refs
    <3> QED
      BY <3>1
  <2> QED
    BY <1>2, <2>1 DEF Shown, Doc
<1> QED
  BY <1>1, <1>2

(* A step that changes nothing shown, nor on the server, keeps them agreed. *)
LEMMA AgreementKept ==
  ASSUME Agreement, UNCHANGED <<server, requests>>, excused \subseteq excused',
         \A id \in Ids : id \in excused' \/ Shown(id)' = Shown(id)
  PROVE  Agreement'
  BY DEF Agreement, Agrees, Answered

(* The dialog changes nothing that is shown but what is excused. *)
LEMMA AgreeDialog == ASSUME TypeInv, Agreement, Dialog PROVE Agreement'
<1>1. /\ UNCHANGED <<server, requests, scenes>> /\ excused \subseteq excused'
  BY DEF Dialog, ShowCreateScene, CloseDialog, EditScene, TypeName, PickIcon, ToggleDevice,
     UpdateDeviceState, UpdateDeviceCustomState
<1>2. \A id \in Ids : scenes[id] # None =>
        scenes[id] \in Objs /\ scenes[id] \in LiveObjs
        /\ Range(objs[scenes[id]].devices) \subseteq Refs \cap LiveRefs
  <2>1. ASSUME NEW id \in Ids, scenes[id] # None PROVE scenes[id] \in Objs /\ scenes[id] \in LiveObjs
    BY <2>1 DEF TypeInv, PageOK, LiveObjs
  <2>2. ASSUME NEW id \in Ids, scenes[id] # None PROVE Range(objs[scenes[id]].devices) \subseteq Refs \cap LiveRefs
    <3>1. objs[scenes[id]].devices \in Partial(Devices, Refs)
      BY <2>1, <2>2 DEF TypeInv, PageOK, SceneObject
    <3>2. Range(objs[scenes[id]].devices) \subseteq Refs
      BY <3>1, PartialIff DEF Range
    <3> QED
      BY <2>1, <2>2, <3>2 DEF LiveRefs
  <2> QED
    BY <2>1, <2>2
<1>3. ASSUME ShowCreateScene, NEW id \in Ids PROVE Shown(id)' = Shown(id)
  BY <1>1, <1>2, <1>3, ShownKept DEF ShowCreateScene, TypeInv, PageOK
<1>4. ASSUME CloseDialog \/ (\E e \in Ids : EditScene(e)) \/ (\E n \in Names : TypeName(n)), NEW id \in Ids
      PROVE  Shown(id)' = Shown(id)
  <2>1. UNCHANGED <<objs, heap>>
    BY <1>4 DEF CloseDialog, EditScene, TypeName
  <2> QED
    BY <1>1, <2>1, ShownKept
<1>5. ASSUME NEW i \in Icons, PickIcon(i), NEW id \in Ids PROVE id \in excused' \/ Shown(id)' = Shown(id)
  <2>1. scenes[id] # current /\ scenes[id] # None => objs'[scenes[id]] = objs[scenes[id]]
    BY <1>2, <1>5 DEF PickIcon, TypeInv, PageOK
  <2>2. scenes[id] = current => id \in excused'
    BY <1>5 DEF PickIcon
  <2> QED
    BY <1>1, <1>5, <2>1, <2>2, ShownKept DEF PickIcon
<1>6. ASSUME NEW r \in Refs \ LiveRefs, \A q \in Refs : q # r => heap'[q] = heap[q], objs' = objs, NEW id \in Ids
      PROVE  Shown(id)' = Shown(id)
  BY <1>1, <1>2, <1>6, ShownKept
<1>7. ASSUME NEW d \in Devices, ToggleDevice(d), NEW id \in Ids PROVE Shown(id)' = Shown(id)
  <2>1. objs' = objs
    BY <1>7 DEF ToggleDevice
  <2>2. CASE heap' = heap
    BY <1>1, <2>1, <2>2, ShownKept
  <2>3. CASE \E r \in Refs \ LiveRefs : heap' = [heap EXCEPT ![r] = Default(d)]
    <3>1. PICK r \in Refs \ LiveRefs : heap' = [heap EXCEPT ![r] = Default(d)]
      BY <2>3
    <3>2. \A q \in Refs : q # r => heap'[q] = heap[q]
      BY <3>1 DEF TypeInv, PageOK
    <3> QED
      BY <1>6, <2>1, <3>2
  <2> QED
    BY <1>7, <2>2, <2>3 DEF ToggleDevice
<1>8. ASSUME NEW d \in Devices, UpdateDeviceState(d), NEW id \in Ids
      PROVE  id \in excused' \/ Shown(id)' = Shown(id)
  <2>1. /\ objs' = objs /\ excused' = excused \cup Sharing(deviceStates[d])
        /\ \E s : heap' = [heap EXCEPT ![deviceStates[d]] = s]
    BY <1>8 DEF UpdateDeviceState
  <2>2. \A q \in Refs : q # deviceStates[d] => heap'[q] = heap[q]
    BY <2>1 DEF TypeInv, PageOK
  <2>3. scenes[id] # None /\ deviceStates[d] \in Range(objs[scenes[id]].devices) => id \in excused'
    BY <2>1 DEF Sharing
  <2> QED
    BY <1>1, <1>2, <2>1, <2>2, <2>3, ShownKept
<1>9. ASSUME NEW d \in Devices, UpdateDeviceCustomState(d), NEW id \in Ids PROVE Shown(id)' = Shown(id)
  <2>1. PICK state \in Customs, r \in Refs \ LiveRefs : heap' = [heap EXCEPT ![r] = state]
    BY <1>9 DEF UpdateDeviceCustomState
  <2>2. \A q \in Refs : q # r => heap'[q] = heap[q]
    BY <2>1 DEF TypeInv, PageOK
  <2> QED
    BY <1>6, <1>9, <2>2 DEF UpdateDeviceCustomState
<1> QED
  BY <1>1, <1>3, <1>4, <1>5, <1>7, <1>8, <1>9, AgreementKept DEF Dialog

(* The page shows a scene it has just parsed as it came. *)
LEMMA ShownParsed ==
  ASSUME NEW docs, NEW rest, NEW freeObjs \in SUBSET Objs, NEW freeRefs \in SUBSET Refs,
         NEW obj \in [DOMAIN docs -> freeObjs], NEW ref \in [Places(docs) -> freeRefs],
         ParsedInto(docs, rest, obj, ref),
         NEW id \in Ids, id \in DOMAIN docs, IsDocument(docs[id])
  PROVE  Shown(id)' = docs[id]
<1> DEFINE devices == docs[id].devices
           refs == [d \in DOMAIN devices |-> ref[<<id, d>>]]
<1>0. obj[id] \in Objs /\ None \notin Objs
  BY SceneAssumption
<1>1. scenes'[id] = obj[id] /\ obj[id] # None
  BY <1>0 DEF ParsedInto
<1>2. objs'[obj[id]] = [id |-> id, name |-> docs[id].name, icon |-> docs[id].icon, devices |-> refs]
  BY DEF ParsedInto
<1>3. \A d \in DOMAIN devices : heap'[ref[<<id, d>>]] = devices[d]
  <2>1. ASSUME NEW d \in DOMAIN devices PROVE heap'[ref[<<id, d>>]] = devices[d]
    <3>1. <<id, d>> \in Places(docs)
      BY DEF Places
    <3> QED
      BY <3>1 DEF ParsedInto
  <2> QED
    BY <2>1
<1>4. docs[id] = [name |-> docs[id].name, icon |-> docs[id].icon,
                  devices |-> [d \in DOMAIN devices |-> Json(devices[d])]]
  BY DEF IsDocument
<1> HIDE DEF devices
<1>5. DOMAIN refs = DOMAIN devices /\ \A d \in DOMAIN refs : heap'[refs[d]] = devices[d]
  BY <1>3
<1> HIDE DEF refs
<1>6. [d \in DOMAIN refs |-> Json(heap'[refs[d]])] = [d \in DOMAIN devices |-> Json(devices[d])]
  BY <1>5
<1>7. Shown(id)' = [name |-> docs[id].name, icon |-> docs[id].icon,
                    devices |-> [d \in DOMAIN refs |-> Json(heap'[refs[d]])]]
  BY <1>1, <1>2 DEF Shown, Doc
<1> QED
  BY <1>4, <1>6, <1>7

(* Asking changes nothing that is shown. *)
LEMMA AgreeAsk ==
  ASSUME Agreement, SaveScene \/ (\E id \in Ids : DeleteScene(id)) \/ SendInitialData PROVE Agreement'
<1>1. UNCHANGED <<server, pageVars, excused>> /\ requests \subseteq requests'
  BY DEF SaveScene, DeleteScene, Request, SendInitialData
<1>2. ASSUME NEW id \in Ids PROVE Agrees(id)' = Agrees(id) /\ (Answered(id) => Answered(id)')
  BY <1>1 DEF pageVars, Agrees, Shown, Doc, Answered
<1> QED
  BY <1>1, <1>2 DEF Agreement

(* What the server changes, the answer to the request will tell. *)
LEMMA AgreeServer ==
  ASSUME TypeInv, Agreement, NEW r \in requests, ServerHandles(r) \/ Lose(r)
  PROVE  Agreement'
<1>1. UNCHANGED pageVars
  BY DEF ServerHandles, Lose
<1>2. \A id \in Ids : Shown(id)' = Shown(id)
  BY <1>1 DEF pageVars, Shown, Doc
<1>3. RequestOK(r) /\ server = [id \in Ids |-> server[id]]
  BY DEF TypeInv, RequestsOK, ServerOK, DocsOK
<1>4. ASSUME NEW q, requests' = (requests \ {r}) \cup {q}, r.status = "sent", excused' = excused,
             \A id \in Ids : server'[id] = server[id] \/ (q.status = "ok" /\ q.id = id)
      PROVE  Agreement'
  <2>1. ASSUME NEW id \in Ids, Answered(id) PROVE Answered(id)'
    BY <1>4, <2>1 DEF Answered
  <2>2. ASSUME NEW id \in Ids, Agrees(id) PROVE Agrees(id)' \/ Answered(id)'
    <3>1. server'[id] = server[id] => Agrees(id)'
      BY <1>2, <2>2 DEF Agrees
    <3>2. server'[id] # server[id] => Answered(id)'
      BY <1>4 DEF Answered
    <3> QED
      BY <3>1, <3>2
  <2> QED
    BY <1>4, <2>1, <2>2 DEF Agreement
<1>5. ASSUME ServerHandles(r) PROVE Agreement'
  <2>1. r.status = "sent" /\ excused' = excused
    BY <1>5 DEF ServerHandles
  <2>2. ASSUME HandleCreateScene(r) PROVE Agreement'
    <3>1. PICK id \in Ids \ born : server' = [server EXCEPT ![id] = Received(r.doc)] /\ Settle(r, "ok", id)
      BY <2>2 DEF HandleCreateScene
    <3>2. requests' = (requests \ {r}) \cup {Settled(r, "ok", id)}
      BY <3>1, Settling
    <3>3. Settled(r, "ok", id).status = "ok" /\ Settled(r, "ok", id).id = id
      BY DEF Settled
    <3> QED
      BY <1>3, <1>4, <2>1, <3>1, <3>2, <3>3
  <2>3. ASSUME HandleMissing(r) PROVE Agreement'
    BY <1>4, <2>1, <2>3, Settling DEF HandleMissing
  <2>4. ASSUME HandleUpdateScene(r) \/ HandleDeleteScene(r) PROVE Agreement'
    <3>1. PICK x : server' = [server EXCEPT ![r.id] = x] /\ Settle(r, "ok", r.id)
      BY <2>4 DEF HandleUpdateScene, HandleDeleteScene
    <3>2. requests' = (requests \ {r}) \cup {Settled(r, "ok", r.id)}
      BY <3>1, Settling
    <3>3. Settled(r, "ok", r.id).status = "ok" /\ Settled(r, "ok", r.id).id = r.id
      BY DEF Settled
    <3>4. \A id \in Ids : id # r.id => server'[id] = server[id]
      BY <1>3, <3>1
    <3> QED
      BY <1>4, <2>1, <3>2, <3>3, <3>4
  <2> QED
    BY <1>5, <2>2, <2>3, <2>4 DEF ServerHandles
<1>6. ASSUME Lose(r) PROVE Agreement'
  <2>1. requests' = (requests \ {r}) \cup {Settled(r, "failed", r.id)} /\ server' = server
    BY <1>6, Settling DEF Lose
  <2>2. excused \subseteq excused' /\ (r.status = "ok" => r.id \in excused')
    BY <1>6 DEF Lose
  <2>3. ASSUME NEW id \in Ids, Answered(id) PROVE Answered(id)' \/ id \in excused'
    BY <2>1, <2>2, <2>3 DEF Answered
  <2> QED
    BY <1>2, <2>1, <2>2, <2>3 DEF Agreement, Agrees
<1> QED
  BY <1>5, <1>6

(* After an answer a scene agrees, or is excused, or another answer is due. *)
LEMMA AgreementAnswered ==
  ASSUME Agreement, NEW r \in requests, requests' = requests \ {r}, NEW S, Excuse(S),
         \A id \in Ids : /\ Agrees(id) => Agrees(id)' \/ id \in S \/ id \in excused \/ Answered(id)'
                         /\ r.status = "ok" /\ r.id = id => Agrees(id)' \/ id \in S
  PROVE  Agreement'
<1>1. ASSUME NEW id \in Ids, id \in excused \cup S PROVE Agrees(id)' \/ id \in excused'
  BY <1>1 DEF Excuse
<1>2. ASSUME NEW id \in Ids, Answered(id) PROVE Answered(id)' \/ (r.status = "ok" /\ r.id = id)
  BY <1>2 DEF Answered
<1> QED
  BY <1>1, <1>2 DEF Agreement

(* Answers leave only what is excused different from the server. *)
LEMMA AgreeAnswer ==
  ASSUME TypeInv, Born, Agreement, NEW r \in requests, Answer(r)
  PROVE  Agreement'
<1>1. UNCHANGED <<server, selected>> /\ requests' = requests \ {r}
  BY DEF Answer
<1>2. RequestOK(r)
  BY DEF TypeInv, RequestsOK
<1>3. ASSUME AnswerUpdate(r), r.status = "ok", r.op = "update" PROVE Agreement'
  <2> DEFINE known == ~ \/ scenes[r.id] # selected
                        \/ r.doc # server[r.id]
                        \/ r.doc # Doc(r.doc.name, r.doc.icon, r.refs)
             S == IF ~known THEN {r.id, objs[selected].id} \ {None} ELSE {}
  <2>1. r.id \in Ids /\ selected \in Objs /\ selected # None /\ objs[selected].id \in Ids
    BY <1>2, <1>3 DEF RequestOK, AnswerUpdate, TypeInv, PageOK, Linked
  <2>2. Excuse(S) /\ UNCHANGED <<scenes, heap>> /\ Assign(selected, r)
    BY <1>3 DEF AnswerUpdate
  <2>3. /\ objs'[selected] = [id |-> objs[selected].id, name |-> r.doc.name, icon |-> r.doc.icon,
                             devices |-> r.refs]
        /\ \A p \in Objs : p # selected => objs'[p] = objs[p]
    BY <1>2, <2>1, <2>2, Assigned DEF TypeInv
  <2>4. r.id \notin S => Agrees(r.id)'
    <3>1. r.id # None
      BY <2>1, SceneAssumption
    <3> SUFFICES ASSUME known PROVE Agrees(r.id)'
      BY <3>1
    <3>2. Shown(r.id)' = Doc(r.doc.name, r.doc.icon, r.refs)'
      BY <2>1, <2>2, <2>3 DEF Shown
    <3>3. Doc(r.doc.name, r.doc.icon, r.refs)' = Doc(r.doc.name, r.doc.icon, r.refs)
      BY <2>2 DEF Doc
    <3> QED
      BY <1>1, <3>2, <3>3 DEF Agrees
  <2>5. ASSUME NEW id \in Ids, Agrees(id), id \notin S PROVE Agrees(id)'
    <3>1. CASE scenes[id] = selected
      <4>1. objs[selected].id = id
        BY <2>1, <3>1 DEF TypeInv, Linked
      <4>2. id # None
        BY SceneAssumption
      <4>3. known
        BY <2>5, <4>1, <4>2
      <4>4. scenes[r.id] = selected /\ objs[scenes[r.id]].id = r.id
        BY <2>1, <4>3 DEF TypeInv, Linked
      <4> QED
        BY <2>4, <2>5, <4>1, <4>4
    <3>2. CASE scenes[id] # selected
      <4>1. scenes[id] # None => scenes[id] \in Objs
        BY DEF TypeInv, PageOK
      <4> QED
        BY <1>1, <2>2, <2>3, <2>5, <3>2, <4>1, ShownKept DEF Agrees
    <3> QED
      BY <3>1, <3>2
  <2> HIDE DEF S
  <2> QED
    BY <1>1, <2>2, <2>4, <2>5, AgreementAnswered
<1>4. ASSUME AnswerUpdateNoSelection(r) PROVE Agreement'
  <2>1. \A id \in Ids : Shown(id)' = Shown(id)
    BY <1>4 DEF AnswerUpdateNoSelection, Shown, Doc
  <2> QED
    BY <1>1, <1>4, <2>1, AgreementAnswered DEF AnswerUpdateNoSelection, Agrees
<1>5. ASSUME AnswerCreate(r), r.status = "ok" PROVE Agreement'
  <2> DEFINE docs == [id \in {r.id} |-> Received(r.doc)]
             freeObjs == Objs \ LiveObjs
             freeRefs == Refs \ LiveRefs
  <2>1. r.id \in Ids /\ IsDocument(Received(r.doc))
    BY <1>2, <1>5, ReceivedIs DEF RequestOK, DocOK
  <2>2. CanParse(docs, freeObjs, freeRefs) /\ Parse(docs, scenes, freeObjs, freeRefs)
    BY <1>5 DEF AnswerCreate
  <2>3. DOMAIN docs = {r.id} /\ docs[r.id] = Received(r.doc)
    OBVIOUS
  <2>4. \A id \in Ids : scenes[id] # None =>
          scenes[id] \in Objs \ freeObjs /\ Range(objs[scenes[id]].devices) \subseteq Refs \ freeRefs
    <3>1. ASSUME NEW id \in Ids, scenes[id] # None
          PROVE  scenes[id] \in Objs \ freeObjs /\ Range(objs[scenes[id]].devices) \subseteq Refs \ freeRefs
      <4>1. scenes[id] \in Objs /\ scenes[id] \in LiveObjs
        BY <3>1 DEF TypeInv, PageOK, LiveObjs
      <4>2. objs[scenes[id]].devices \in Partial(Devices, Refs)
        BY <4>1 DEF TypeInv, PageOK, SceneObject
      <4>3. Range(objs[scenes[id]].devices) \subseteq Refs
        BY <4>2, PartialIff DEF Range
      <4> QED
        BY <4>1, <4>3 DEF LiveRefs
    <3> QED
      BY <3>1
  <2>5. freeObjs \in SUBSET Objs /\ freeRefs \in SUBSET Refs
    OBVIOUS
  <2> HIDE DEF docs, freeObjs, freeRefs
  <2>6. PICK obj \in [DOMAIN docs -> freeObjs], ref \in [Places(docs) -> freeRefs] :
          ParsedInto(docs, scenes, obj, ref)
    <3>1. DOMAIN docs \subseteq Ids /\ \A id \in DOMAIN docs : IsDocument(docs[id])
      BY <2>1, <2>3
    <3> QED
      BY <2>2, <2>5, <3>1, Parsing
  <2>7. Shown(r.id)' = Received(r.doc)
    BY <2>1, <2>3, <2>5, <2>6, ShownParsed
  <2>8. ASSUME NEW id \in Ids, id # r.id PROVE Shown(id)' = Shown(id)
    <3>1. scenes'[id] = scenes[id]
      BY <2>3, <2>6, <2>8 DEF ParsedInto
    <3>2. \A o \in Objs \ freeObjs : objs'[o] = objs[o]
      BY <2>6 DEF ParsedInto
    <3>3. \A q \in Refs \ freeRefs : heap'[q] = heap[q]
      BY <2>6 DEF ParsedInto
    <3> QED
      BY <2>4, <3>1, <3>2, <3>3, ShownKept
  <2> DEFINE S == IF Received(r.doc) # server[r.id] THEN {r.id} ELSE {}
  <2>9. Excuse(S)
    BY <1>5 DEF AnswerCreate
  <2>10. Agrees(r.id)' \/ r.id \in S
    BY <1>1, <2>7 DEF Agrees
  <2>11. ASSUME NEW id \in Ids, id # r.id, Agrees(id) PROVE Agrees(id)'
    BY <1>1, <2>8, <2>11 DEF Agrees
  <2> HIDE DEF S
  <2> QED
    BY <1>1, <2>9, <2>10, <2>11, AgreementAnswered
<1>6. ASSUME AnswerDelete(r), r.status = "ok", r.op = "delete" PROVE Agreement'
  <2>1. r.id \in Ids /\ server[r.id] = None
    BY <1>2, <1>6 DEF RequestOK, Born
  <2>2. scenes' = [scenes EXCEPT ![r.id] = None] /\ UNCHANGED <<objs, heap>> /\ Excuse({})
    BY <1>6 DEF AnswerDelete
  <2>3. Agrees(r.id)'
    BY <1>1, <2>1, <2>2 DEF Agrees, Shown, TypeInv, PageOK
  <2>4. ASSUME NEW id \in Ids, id # r.id PROVE Shown(id)' = Shown(id)
    <3>1. scenes'[id] = scenes[id]
      BY <2>2, <2>4 DEF TypeInv, PageOK
    <3> QED
      BY <2>2, <3>1, ShownKept
  <2> QED
    BY <1>1, <2>2, <2>3, <2>4, AgreementAnswered DEF Agrees
<1>7. ASSUME AnswerFailed(r), r.status = "failed" PROVE Agreement'
  <2>1. \A id \in Ids : Shown(id)' = Shown(id)
    BY <1>7 DEF AnswerFailed, Shown, Doc
  <2>2. ASSUME NEW id \in Ids, Answered(id) PROVE Answered(id)'
    BY <1>1, <1>7, <2>2 DEF Answered
  <2> QED
    BY <1>1, <1>7, <2>1, <2>2 DEF AnswerFailed, Agreement, Agrees
<1> QED
  BY <1>3, <1>4, <1>5, <1>6, <1>7 DEF Answer

(* A list shows what the server has, unless it was overtaken. *)
LEMMA AgreeLists == ASSUME TypeInv, Agreement, LoadScenes PROVE Agreement'
<1> DEFINE docs == Present(list)
           rest == [id \in Ids |-> None]
           freeObjs == Objs \ ({selected, current} \ {None})
           freeRefs == Refs \ (Range(deviceStates) \cup (UNION {Range(r.refs) : r \in requests})
                          \cup (UNION {Range(objs[o].devices) : o \in {selected, current} \ {None}}))
<1>1. CanParse(docs, freeObjs, freeRefs) /\ Parse(docs, rest, freeObjs, freeRefs)
  BY DEF LoadScenes
<1>2. /\ DOMAIN docs \subseteq Ids /\ \A id \in DOMAIN docs : IsDocument(docs[id])
      /\ \A id \in Ids : list[id] = IF id \in DOMAIN docs THEN docs[id] ELSE None
  BY DEF LoadScenes, Present, Restrict, TypeInv, ServerOK, DocsOK, DocOK
<1>3. /\ \A id \in Ids : rest[id] = None
      /\ freeObjs \in SUBSET Objs /\ freeRefs \in SUBSET Refs
  OBVIOUS
<1> HIDE DEF docs, rest, freeObjs, freeRefs
<1>4. PICK obj \in [DOMAIN docs -> freeObjs], ref \in [Places(docs) -> freeRefs] :
        ParsedInto(docs, rest, obj, ref)
  BY <1>1, <1>2, <1>3, Parsing
<1>5. ASSUME NEW id \in Ids PROVE Shown(id)' = list[id]
  <2>1. CASE id \in DOMAIN docs
    BY <1>2, <1>3, <1>4, <2>1, ShownParsed
  <2>2. CASE id \notin DOMAIN docs
    BY <1>2, <1>3, <1>4, <2>2 DEF ParsedInto, Shown
  <2> QED
    BY <2>1, <2>2
<1>6. /\ UNCHANGED <<server, requests>> /\ Excuse({id \in Ids : list[id] # server[id]})
  BY DEF LoadScenes
<1>7. ASSUME NEW id \in Ids PROVE Agrees(id)' \/ id \in excused'
  BY <1>5, <1>6 DEF Agrees, Excuse
<1> QED
  BY <1>7 DEF Agreement

(* Every step leaves only what is excused different from the server. *)
LEMMA AgreementStep == TypeInv /\ Born /\ Agreement /\ [Next]_vars => Agreement'
<1>1. Agreement /\ UNCHANGED vars => Agreement'
  BY DEF vars, pageVars, Agreement, Agrees, Shown, Doc, Answered
<1> QED
  BY <1>1, AgreeDialog, AgreeAsk, AgreeServer, AgreeAnswer, AgreeLists DEF Next

(* app.scenes after saves, deletions and lists (app.js:1064): with no      *)
(* request for a scene in flight the page shows what the server has of it, *)
(* unless the scene is excused, for any scenes, edits, requests and losses. *)
THEOREM PageHasScenes == Spec => []LocalAgrees
<1>1. Init => Agreement
  BY DEF Init, Agreement, Agrees, Shown
<1>2. Agreement => LocalAgrees
  BY DEF Agreement, Answered, LocalAgrees
<1> QED
  BY <1>1, <1>2, TypeInit, TypeStep, BornInit, BornStep, AgreementStep, PTL DEF Spec

(***************************************************************************)
(* Devices the dialog does not list.  Whatever represents a scene that was *)
(* never given another's devices has the same of them as the server: an    *)
(* object of the page, in use or not, the open dialog, a request, a list.  *)
(***************************************************************************)

Unlisted(devices) == DOMAIN devices \ Listed

Same(id, devices) ==
  id \in Ids \ mixed /\ server[id] # None => Unlisted(devices) = Unlisted(server[id].devices)

ObjectsSame ==
  \A o \in Objs : objs[o].id # None => objs[o].id \in born /\ Same(objs[o].id, objs[o].devices)

DialogSame == open /\ selected # None => Same(objs[selected].id, deviceStates)

RequestsSame ==
  \A r \in requests : r.id # None =>
    r.id \in born /\ (r.op \in {"create", "update"} => Same(r.id, r.refs))

ListSame ==
  list # None => \A id \in Ids : list[id] # None => id \in born /\ Same(id, list[id].devices)

UnlistedInv == ObjectsSame /\ DialogSame /\ RequestsSame /\ ListSame

(* What the server may do to a scene it has given out. *)
Keeping ==
  /\ born \subseteq born' /\ mixed \subseteq mixed'
  /\ \A id \in Ids : id \in born /\ id \notin mixed /\ server'[id] # None =>
       server[id] # None /\ Unlisted(server'[id].devices) = Unlisted(server[id].devices)

(* The page begins without scenes, and is sent the stored ones with their devices. *)
LEMMA UnlistedInit == Init => UnlistedInv
<1> SUFFICES ASSUME Init PROVE UnlistedInv
  OBVIOUS
<1>1. ObjectsSame /\ DialogSame /\ RequestsSame
  BY DEF Init, Blank, ObjectsSame, DialogSame, RequestsSame
<1>2. ListSame
  BY DEF Init, ListSame, Same
<1> QED
  BY <1>1, <1>2 DEF UnlistedInv

(* The server keeps the devices that no form lists. *)
LEMMA ServerKeeps == ASSUME TypeInv, Born, UnlistedInv, [Next]_vars PROVE Keeping
<1>1. ASSUME NEW r \in requests, ServerHandles(r) PROVE Keeping
  <2>1. RequestOK(r) /\ server = [id \in Ids |-> server[id]] /\ mixed' = mixed
    BY <1>1 DEF TypeInv, RequestsOK, ServerOK, DocsOK, ServerHandles
  <2>2. ASSUME HandleCreateScene(r) PROVE Keeping
    BY <2>1, <2>2 DEF HandleCreateScene, Keeping
  <2>3. ASSUME HandleMissing(r) PROVE Keeping
    BY <2>1, <2>3 DEF HandleMissing, Keeping
  <2>4. ASSUME HandleUpdateScene(r) PROVE Keeping
    <3>1. r.id \in Ids /\ r.id # None
      BY <2>1, <2>4, SceneAssumption DEF RequestOK, HandleUpdateScene
    <3>2. Same(r.id, r.refs)
      BY <2>4, <3>1 DEF UnlistedInv, RequestsSame, HandleUpdateScene
    <3>3. /\ server' = [server EXCEPT ![r.id] = Received(r.doc)] /\ server[r.id] # None /\ born' = born
          /\ DOMAIN Received(r.doc).devices = DOMAIN r.refs
      BY <2>1, <2>4, ReceivedIs DEF HandleUpdateScene, RequestOK
    <3> QED
      BY <2>1, <3>1, <3>2, <3>3 DEF Keeping, Same, Unlisted
  <2>5. ASSUME HandleDeleteScene(r) PROVE Keeping
    BY <2>1, <2>5 DEF HandleDeleteScene, Keeping
  <2> QED
    BY <1>1, <2>2, <2>3, <2>4, <2>5 DEF ServerHandles
<1>2. ASSUME UNCHANGED <<server, born>>, mixed \subseteq mixed' PROVE Keeping
  BY <1>2 DEF Keeping
<1>3. ASSUME Dialog \/ SaveScene \/ (\E id \in Ids : DeleteScene(id)) \/ (\E r \in requests : Lose(r))
             \/ SendInitialData \/ LoadScenes \/ UNCHANGED vars
      PROVE  Keeping
  BY <1>2, <1>3 DEF Dialog, ShowCreateScene, CloseDialog, EditScene, TypeName, PickIcon, ToggleDevice,
     UpdateDeviceState, UpdateDeviceCustomState, SaveScene, DeleteScene, Lose, SendInitialData,
     LoadScenes, vars
<1>4. ASSUME NEW r \in requests, Answer(r) PROVE Keeping
  <2>1. mixed \subseteq mixed'
    BY <1>4 DEF Answer, AnswerUpdate, AnswerUpdateNoSelection, AnswerCreate, AnswerDelete, AnswerFailed
  <2> QED
    BY <1>2, <1>4, <2>1 DEF Answer
<1> QED
  BY <1>1, <1>3, <1>4 DEF Next

(* What is the same as the server's stays so while the server keeps the devices. *)
LEMMA SameKept ==
  ASSUME Keeping, NEW id, NEW devices, id \in Ids => id \in born, Same(id, devices)
  PROVE  Same(id, devices)' /\ (id \in born => id \in born')
  BY DEF Keeping, Same

(* The dialog leaves the devices that it does not list. *)
LEMMA UnlistedDialog == ASSUME TypeInv, UnlistedInv, Dialog PROVE UnlistedInv'
<1>1. UNCHANGED <<server, born, mixed, requests, list>>
  BY DEF Dialog, ShowCreateScene, CloseDialog, EditScene, TypeName, PickIcon, ToggleDevice,
     UpdateDeviceState, UpdateDeviceCustomState
<1>2. RequestsSame' /\ ListSame'
  BY <1>1 DEF UnlistedInv, RequestsSame, ListSame, Same
<1>3. ASSUME \A o \in Objs : \/ objs'[o].id = None
                             \/ objs'[o].id = objs[o].id /\ objs'[o].devices = objs[o].devices
      PROVE  ObjectsSame'
  BY <1>1, <1>3 DEF UnlistedInv, ObjectsSame, Same
<1>4. ASSUME ShowCreateScene PROVE UnlistedInv'
  <2>1. PICK o \in Objs : objs' = [objs EXCEPT ![o] = Blank]
    BY <1>4 DEF ShowCreateScene
  <2>2. \A p \in Objs : objs'[p] = IF p = o THEN Blank ELSE objs[p]
    BY <2>1 DEF TypeInv, PageOK
  <2>3. Blank.id = None
    BY DEF Blank
  <2>4. DialogSame'
    BY <1>4 DEF ShowCreateScene, DialogSame
  <2> QED
    BY <1>2, <1>3, <2>2, <2>3, <2>4 DEF UnlistedInv
<1>5. ASSUME NEW id \in Ids, EditScene(id) PROVE UnlistedInv'
  <2>1. scenes[id] \in Objs /\ objs[scenes[id]].id = id /\ id # None
    BY <1>5, SceneAssumption DEF EditScene, SceneCards, TypeInv, PageOK, Linked
  <2>2. Same(id, objs[scenes[id]].devices)
    BY <2>1 DEF UnlistedInv, ObjectsSame
  <2>3. objs' = objs /\ selected' = scenes[id] /\ deviceStates' = objs[scenes[id]].devices
    BY <1>5 DEF EditScene
  <2>4. DialogSame'
    BY <1>1, <2>1, <2>2, <2>3 DEF DialogSame, Same
  <2> QED
    BY <1>2, <1>3, <2>3, <2>4 DEF UnlistedInv
<1>6. ASSUME CloseDialog \/ (\E n \in Names : TypeName(n)) \/ (\E d \in Devices : UpdateDeviceState(d))
      PROVE  UnlistedInv'
  <2>1. UNCHANGED <<objs, selected, deviceStates>> /\ (open' => open)
    BY <1>6 DEF CloseDialog, TypeName, UpdateDeviceState, Edit
  <2>2. DialogSame'
    BY <1>1, <2>1 DEF UnlistedInv, DialogSame, Same
  <2> QED
    BY <1>2, <1>3, <2>1, <2>2 DEF UnlistedInv
<1>7. ASSUME NEW i \in Icons, PickIcon(i) PROVE UnlistedInv'
  <2>1. UNCHANGED <<selected, deviceStates, open>>
    BY <1>7 DEF PickIcon
  <2>2. \A o \in Objs : objs'[o].id = objs[o].id /\ objs'[o].devices = objs[o].devices
    BY <1>7 DEF PickIcon, TypeInv, PageOK, SceneObject
  <2>3. DialogSame'
    BY <1>1, <2>1, <2>2 DEF UnlistedInv, DialogSame, Same, TypeInv, PageOK
  <2> QED
    BY <1>2, <1>3, <2>2, <2>3 DEF UnlistedInv
<1>8. ASSUME NEW d \in Devices, ToggleDevice(d) \/ UpdateDeviceCustomState(d) PROVE UnlistedInv'
  <2>1. UNCHANGED <<objs, selected, open>> /\ open
    BY <1>8 DEF ToggleDevice, UpdateDeviceCustomState, Edit
  <2>2. Unlisted(deviceStates') = Unlisted(deviceStates)
    <3>1. CASE ToggleDevice(d)
      <4>1. d \in Listed
        BY <3>1 DEF ToggleDevice, RenderedDevices
      <4>2. \/ deviceStates' = Restrict(deviceStates, DOMAIN deviceStates \ {d})
            \/ \E r : deviceStates' = With(deviceStates, d, r)
        BY <3>1 DEF ToggleDevice
      <4> QED
        BY <4>1, <4>2 DEF Unlisted, Restrict, With
    <3>2. CASE UpdateDeviceCustomState(d)
      BY <3>2 DEF UpdateDeviceCustomState, Unlisted
    <3> QED
      BY <1>8, <3>1, <3>2
  <2>3. DialogSame'
    BY <1>1, <2>1, <2>2 DEF UnlistedInv, DialogSame, Same
  <2> QED
    BY <1>2, <1>3, <2>1, <2>3 DEF UnlistedInv
<1> QED
  BY <1>4, <1>5, <1>6, <1>7, <1>8 DEF Dialog

(* A save sends the devices that the dialog does not list. *)
LEMMA UnlistedAsk ==
  ASSUME TypeInv, UnlistedInv, SaveScene \/ \E id \in Ids : DeleteScene(id) PROVE UnlistedInv'
<1>1. UNCHANGED <<server, born, mixed, list, pageVars>>
  BY DEF SaveScene, DeleteScene
<1>2. ObjectsSame' /\ DialogSame' /\ ListSame'
  BY <1>1 DEF pageVars, UnlistedInv, ObjectsSame, DialogSame, ListSame, Same
<1>3. ASSUME NEW q, requests' = requests \cup {q},
             q.id # None => q.id \in born /\ (q.op \in {"create", "update"} => Same(q.id, q.refs))
      PROVE  RequestsSame'
  BY <1>1, <1>3 DEF UnlistedInv, RequestsSame, Same
<1>4. PICK q :
           \/ /\ open /\ selected = None
              /\ Sent(q, "create", None, typed, objs[current].icon, deviceStates)
           \/ /\ open /\ selected # None
              /\ Sent(q, "update", objs[selected].id, typed, objs[current].icon, deviceStates)
           \/ \E id \in SceneCards : Sent(q, "delete", id, "", "", Empty)
  BY Asking
<1>5. ASSUME q.op = "create", q.id = None, requests' = requests \cup {q} PROVE RequestsSame'
  BY <1>3, <1>5 DEF Same
<1>6. ASSUME open, selected # None,
             Sent(q, "update", objs[selected].id, typed, objs[current].icon, deviceStates)
      PROVE  RequestsSame'
  <2>1. selected \in Objs /\ objs[selected].id \in Ids /\ objs[selected].id # None
    BY <1>6, SceneAssumption DEF TypeInv, PageOK, Linked
  <2>2. objs[selected].id \in born /\ Same(objs[selected].id, deviceStates)
    BY <1>6, <2>1 DEF UnlistedInv, ObjectsSame, DialogSame
  <2>3. q.id = objs[selected].id /\ q.refs = deviceStates /\ requests' = requests \cup {q}
    BY <1>6 DEF Sent
  <2>4. q.id \in born /\ Same(q.id, q.refs)
    BY <2>2, <2>3 DEF Same
  <2> QED
    BY <1>3, <2>3, <2>4 DEF Same
<1>7. ASSUME NEW id \in SceneCards, Sent(q, "delete", id, "", "", Empty) PROVE RequestsSame'
  <2>1. id \in Ids /\ scenes[id] # None
    BY DEF SceneCards
  <2>a. scenes[id] \in Objs /\ objs[scenes[id]].id = id /\ id # None
    BY <2>1, SceneAssumption DEF TypeInv, PageOK, Linked
  <2>2. id \in born
    BY <2>a DEF UnlistedInv, ObjectsSame
  <2>3. q.id = id /\ q.op \notin {"create", "update"} /\ requests' = requests \cup {q}
    BY <1>7 DEF Sent
  <2>4. q.id \in born
    BY <2>2, <2>3
  <2> QED
    BY <1>3, <2>3, <2>4 DEF Same
<1>8. RequestsSame'
  BY <1>4, <1>5, <1>6, <1>7 DEF Sent
<1> QED
  BY <1>2, <1>8 DEF UnlistedInv

(* Answers have the devices of the scene that no form lists. *)
LEMMA UnlistedServer ==
  ASSUME TypeInv, UnlistedInv, Keeping, NEW r \in requests, ServerHandles(r) \/ Lose(r)
  PROVE  UnlistedInv'
<1>1. UNCHANGED <<list, pageVars, mixed>>
  BY DEF ServerHandles, Lose
<1>2. UNCHANGED <<list, objs, open, selected, deviceStates, mixed>>
  BY <1>1 DEF pageVars
<1>3. ObjectsSame'
  BY <1>2 DEF UnlistedInv, ObjectsSame, Same, Keeping
<1>4. DialogSame'
  <2>1. selected # None => selected \in Objs /\ objs[selected].id \in Ids /\ objs[selected].id # None
    BY SceneAssumption DEF TypeInv, PageOK, Linked
  <2>2. selected # None => objs[selected].id \in born
    BY <2>1 DEF UnlistedInv, ObjectsSame
  <2> QED
    BY <1>2, <2>2 DEF UnlistedInv, DialogSame, Same, Keeping
<1>5. ListSame'
  BY <1>2 DEF UnlistedInv, ListSame, Same, Keeping
<1>6. ASSUME NEW q, requests' = (requests \ {r}) \cup {q},
             q.id # None => q.id \in born' /\ (q.op \in {"create", "update"} => Same(q.id, q.refs)')
      PROVE  RequestsSame'
  BY <1>2, <1>6 DEF UnlistedInv, RequestsSame, Same, Keeping
<1>7. RequestOK(r)
  BY DEF TypeInv, RequestsOK
<1>8. CASE \E id \in Ids \ born : server' = [server EXCEPT ![id] = Received(r.doc)] /\ born' = born \cup {id} /\ Settle(r, "ok", id)
  <2>1. PICK id \in Ids \ born : server' = [server EXCEPT ![id] = Received(r.doc)] /\ born' = born \cup {id} /\ Settle(r, "ok", id)
    BY <1>8
  <2>2. requests' = (requests \ {r}) \cup {Settled(r, "ok", id)}
    BY <2>1, Settling
  <2>3. Settled(r, "ok", id).id = id /\ Settled(r, "ok", id).refs = r.refs
    BY DEF Settled
  <2>4. Same(id, r.refs)'
    <3>1. DOMAIN Received(r.doc).devices = DOMAIN r.refs
      BY <1>7, ReceivedIs DEF RequestOK
    <3> QED
      BY <2>1, <3>1 DEF Same, Unlisted, TypeInv, ServerOK, DocsOK
  <2> QED
    BY <1>3, <1>4, <1>5, <1>6, <2>1, <2>2, <2>3, <2>4 DEF UnlistedInv
<1>9. CASE \E status \in {"ok", "failed"} : Settle(r, status, r.id)
  <2>1. PICK status \in {"ok", "failed"} : Settle(r, status, r.id)
    BY <1>9
  <2>2. requests' = (requests \ {r}) \cup {Settled(r, status, r.id)}
    BY <2>1, Settling
  <2>3. /\ Settled(r, status, r.id).id = r.id /\ Settled(r, status, r.id).refs = r.refs
        /\ Settled(r, status, r.id).op = r.op
    BY DEF Settled
  <2>4. r.id # None => r.id \in born' /\ (r.op \in {"create", "update"} => Same(r.id, r.refs)')
    BY <1>2 DEF UnlistedInv, RequestsSame, Same, Keeping
  <2> QED
    BY <1>3, <1>4, <1>5, <1>6, <2>2, <2>3, <2>4 DEF UnlistedInv
<1> QED
  BY <1>8, <1>9 DEF ServerHandles, HandleCreateScene, HandleMissing, HandleUpdateScene,
     HandleDeleteScene, Lose

(* Objects made of documents that are the same as the server's. *)
LEMMA ObjectsParsed ==
  ASSUME ObjectsSame, UNCHANGED <<server, born, mixed>>,
         NEW docs, NEW rest, NEW obj, NEW ref, ParsedInto(docs, rest, obj, ref),
         \A id \in DOMAIN docs : id \in born /\ Same(id, docs[id].devices)
  PROVE  ObjectsSame'
<1>1. ASSUME NEW id \in DOMAIN docs
      PROVE  objs'[obj[id]].id \in born' /\ Same(objs[obj[id]].id, objs[obj[id]].devices)'
  <2> DEFINE refs == [d \in DOMAIN docs[id].devices |-> ref[<<id, d>>]]
  <2>1. objs'[obj[id]] = [id |-> id, name |-> docs[id].name, icon |-> docs[id].icon, devices |-> refs]
    BY DEF ParsedInto
  <2>2. DOMAIN refs = DOMAIN docs[id].devices
    OBVIOUS
  <2> HIDE DEF refs
  <2>3. objs'[obj[id]].id = id /\ objs'[obj[id]].devices = refs
    BY <2>1
  <2> QED
    BY <2>2, <2>3 DEF Same, Unlisted
<1>2. ASSUME NEW o \in Objs, \A id \in DOMAIN docs : o # obj[id] PROVE objs'[o] = objs[o]
  BY <1>2 DEF ParsedInto
<1>3. ASSUME NEW o \in Objs, objs'[o].id # None
      PROVE  objs'[o].id \in born' /\ Same(objs[o].id, objs[o].devices)'
  <2>1. CASE \E id \in DOMAIN docs : o = obj[id]
    BY <1>1, <2>1 DEF Same
  <2>2. CASE \A id \in DOMAIN docs : o # obj[id]
    BY <1>2, <1>3, <2>2 DEF ObjectsSame, Same
  <2> QED
    BY <2>1, <2>2
<1> QED
  BY <1>3 DEF ObjectsSame

(* An answer brings no scene other devices than its own. *)
LEMMA UnlistedAnswer ==
  ASSUME TypeInv, UnlistedInv, NEW r \in requests, Answer(r)
  PROVE  UnlistedInv'
<1>1. UNCHANGED <<server, born, list, selected, deviceStates>> /\ requests' = requests \ {r}
  BY DEF Answer
<1>2. mixed \subseteq mixed'
  BY DEF Answer, AnswerUpdate, AnswerUpdateNoSelection, AnswerCreate, AnswerDelete, AnswerFailed
<1>3. RequestsSame' /\ ListSame'
  BY <1>1, <1>2 DEF UnlistedInv, RequestsSame, ListSame, Same
<1>4. RequestOK(r)
  BY DEF TypeInv, RequestsOK
<1>5. ASSUME AnswerUpdate(r), r.op = "update" PROVE ObjectsSame' /\ DialogSame'
  <2>1. selected \in Objs /\ Assign(selected, r) /\ PageOK
    BY <1>5 DEF AnswerUpdate, TypeInv, PageOK
  <2>2. /\ objs'[selected] = [id |-> objs[selected].id, name |-> r.doc.name, icon |-> r.doc.icon,
                              devices |-> r.refs]
        /\ \A p \in Objs : p # selected => objs'[p] = objs[p]
    BY <1>4, <2>1, Assigned
  <2>3. objs'[selected].id = objs[selected].id /\ objs'[selected].devices = r.refs
    BY <2>2
  <2>4. r.id \in Ids /\ r.id # None
    BY <1>4, <1>5, SceneAssumption DEF RequestOK
  <2>5. objs[selected].id = r.id \/ objs[selected].id \in mixed'
    BY <1>5 DEF AnswerUpdate
  <2>6. Same(r.id, r.refs)
    BY <1>5, <2>4 DEF UnlistedInv, RequestsSame
  <2>7. objs[selected].id # None => objs[selected].id \in born /\ Same(objs[selected].id, r.refs)'
    BY <1>1, <1>2, <2>1, <2>3, <2>5, <2>6 DEF UnlistedInv, ObjectsSame, Same
  <2>8. ObjectsSame'
    BY <1>1, <1>2, <2>2, <2>3, <2>7 DEF UnlistedInv, ObjectsSame, Same
  <2>9. ~open'
    BY <1>5 DEF AnswerUpdate
  <2> QED
    BY <2>8, <2>9 DEF DialogSame
<1>6. ASSUME AnswerUpdateNoSelection(r) \/ AnswerDelete(r) \/ AnswerFailed(r) PROVE ObjectsSame' /\ DialogSame'
  <2>1. UNCHANGED <<objs, open, mixed>>
    BY <1>6 DEF AnswerUpdateNoSelection, AnswerDelete, AnswerFailed
  <2> QED
    BY <1>1, <2>1 DEF UnlistedInv, ObjectsSame, DialogSame, Same
<1>7. ASSUME AnswerCreate(r), r.op = "create", r.status = "ok" PROVE ObjectsSame' /\ DialogSame'
  <2> DEFINE docs == [id \in {r.id} |-> Received(r.doc)]
             freeObjs == Objs \ LiveObjs
             freeRefs == Refs \ LiveRefs
  <2>1. /\ r.id \in Ids /\ r.id # None
        /\ IsDocument(Received(r.doc)) /\ DOMAIN Received(r.doc).devices = DOMAIN r.refs
    BY <1>4, <1>7, ReceivedIs, SceneAssumption DEF RequestOK, DocOK
  <2>2. CanParse(docs, freeObjs, freeRefs) /\ Parse(docs, scenes, freeObjs, freeRefs)
    BY <1>7 DEF AnswerCreate
  <2>3. DOMAIN docs = {r.id} /\ docs[r.id] = Received(r.doc)
    OBVIOUS
  <2>4. freeObjs \in SUBSET Objs /\ freeRefs \in SUBSET Refs
    OBVIOUS
  <2>5. r.id \in born /\ Same(r.id, r.refs)
    BY <1>7, <2>1 DEF UnlistedInv, RequestsSame
  <2> HIDE DEF docs, freeObjs, freeRefs
  <2>6. PICK obj \in [DOMAIN docs -> freeObjs], ref \in [Places(docs) -> freeRefs] :
          ParsedInto(docs, scenes, obj, ref)
    <3>1. DOMAIN docs \subseteq Ids /\ \A id \in DOMAIN docs : IsDocument(docs[id])
      BY <2>1, <2>3
    <3> QED
      BY <2>2, <2>4, <3>1, Parsing
  <2>7. \A id \in DOMAIN docs : id \in born /\ Same(id, docs[id].devices)
    BY <2>1, <2>3, <2>5 DEF Same, Unlisted
  <2>8. ObjectsSame /\ UNCHANGED <<server, born, mixed>> /\ ~open'
    BY <1>1, <1>7 DEF UnlistedInv, AnswerCreate
  <2>9. ObjectsSame'
    BY <2>6, <2>7, <2>8, ObjectsParsed
  <2> QED
    BY <2>8, <2>9 DEF DialogSame
<1>8. ObjectsSame' /\ DialogSame'
  BY <1>5, <1>6, <1>7 DEF Answer
<1> QED
  BY <1>3, <1>8 DEF UnlistedInv

(* A list brings the server's devices. *)
LEMMA UnlistedLists ==
  ASSUME TypeInv, Born, UnlistedInv, SendInitialData \/ LoadScenes PROVE UnlistedInv'
<1>1. CASE SendInitialData
  <2>1. UNCHANGED <<server, born, pageVars, requests, mixed>> /\ list' = server
    BY <1>1 DEF SendInitialData
  <2>2. ListSame'
    BY <2>1 DEF ListSame, Same, Born
  <2>3. ObjectsSame' /\ DialogSame' /\ RequestsSame'
    BY <2>1 DEF pageVars, UnlistedInv, ObjectsSame, DialogSame, RequestsSame, Same
  <2> QED
    BY <2>2, <2>3 DEF UnlistedInv
<1>2. CASE LoadScenes
  <2> DEFINE docs == Present(list)
             rest == [id \in Ids |-> None]
             freeObjs == Objs \ ({selected, current} \ {None})
             freeRefs == Refs \ (Range(deviceStates) \cup (UNION {Range(r.refs) : r \in requests})
                            \cup (UNION {Range(objs[o].devices) : o \in {selected, current} \ {None}}))
  <2>1. CanParse(docs, freeObjs, freeRefs) /\ Parse(docs, rest, freeObjs, freeRefs)
    BY <1>2 DEF LoadScenes
  <2>2. DOMAIN docs \subseteq Ids /\ \A id \in DOMAIN docs : IsDocument(docs[id])
    BY <1>2 DEF LoadScenes, Present, Restrict, TypeInv, ServerOK, DocsOK, DocOK
  <2>3. \A id \in DOMAIN docs : id \in born /\ Same(id, docs[id].devices)
    BY <1>2 DEF LoadScenes, Present, Restrict, TypeInv, ServerOK, DocsOK, UnlistedInv, ListSame, Same
  <2>4. freeObjs \in SUBSET Objs /\ freeRefs \in SUBSET Refs /\ selected \notin freeObjs
    BY SceneAssumption
  <2> HIDE DEF docs, rest, freeObjs, freeRefs
  <2>5. PICK obj \in [DOMAIN docs -> freeObjs], ref \in [Places(docs) -> freeRefs] :
          ParsedInto(docs, rest, obj, ref)
    BY <2>1, <2>2, <2>4, Parsing
  <2>6. UNCHANGED <<server, born, mixed, selected, deviceStates, open, requests>> /\ list' = None
    BY <1>2 DEF LoadScenes
  <2>7. ObjectsSame'
    BY <2>3, <2>5, <2>6, ObjectsParsed DEF UnlistedInv
  <2>8. selected # None => objs'[selected] = objs[selected]
    BY <2>4, <2>5 DEF ParsedInto, TypeInv, PageOK
  <2>9. DialogSame' /\ RequestsSame' /\ ListSame'
    BY <2>6, <2>8 DEF UnlistedInv, DialogSame, RequestsSame, ListSame, Same
  <2> QED
    BY <2>7, <2>9 DEF UnlistedInv
<1> QED
  BY <1>1, <1>2

(* Every step leaves the devices that no form lists. *)
LEMMA UnlistedStep == TypeInv /\ Born /\ UnlistedInv /\ [Next]_vars => UnlistedInv'
<1>1. UnlistedInv /\ UNCHANGED vars => UnlistedInv'
  BY DEF vars, pageVars, UnlistedInv, ObjectsSame, DialogSame, RequestsSame, ListSame, Same
<1> QED
  BY <1>1, ServerKeeps, UnlistedDialog, UnlistedAsk, UnlistedServer, UnlistedAnswer, UnlistedLists DEF Next

(* A scene is edited while one of its devices is not known to the page     *)
(* (scene-editor.js:147): saving does not take it out of the scene, unless *)
(* the answer to a save came when another scene was selected.              *)
THEOREM UnlistedKept == Spec => UnlistedDevicesKept
<1>1. TypeInv /\ Born /\ UnlistedInv /\ [Next]_vars => [KeepsUnlisted]_vars
  BY ServerKeeps DEF Born, Keeping, KeepsUnlisted, Unlisted
<1> QED
  BY <1>1, TypeInit, TypeStep, BornInit, BornStep, UnlistedInit, UnlistedStep, PTL
  DEF Spec, UnlistedDevicesKept

(***************************************************************************)
(* States.  What is held of a device, by a scene object in use, the dialog *)
(* or a request, is held of no other, and arrives as the dialog offers it. *)
(***************************************************************************)

(* The controls of a device are those of its type and its features. *)
LEMMA ControlsAre ==
  ASSUME NEW d, NEW state, NEW c \in Controls(d, state)
  PROVE  \E v :
           \/ c = <<"state", v>> /\ v \in {"on", "off"} /\ TypeOf[d] \in {"light", "switch"}
           \/ c = <<"brightness", v>> /\ v \in Percent /\ TypeOf[d] = "light"
           \/ c = <<"color", v>> /\ v \in Colors /\ TypeOf[d] = "light" /\ "color" \in Features[d]
           \/ c = <<"temperature", v>> /\ v \in {"warm", "neutral", "cool"} /\ TypeOf[d] = "light"
           \/ c = <<"mode", v>> /\ v \in {"off", "auto", "heat", "cool"} /\ TypeOf[d] = "climate"
           \/ c = <<"temperature", v>> /\ v \in Degrees \cup {""} /\ TypeOf[d] = "climate"
           \/ c = <<"position", v>> /\ v \in Percent /\ TypeOf[d] = "cover"
  BY DEF Controls

(* JSON makes only temperatures null, those of lights and of thermostats. *)
LEMMA LostIff ==
  ASSUME NEW d
  PROVE  /\ Lost(d) = {} <=> TypeOf[d] \notin {"light", "climate"}
         /\ \A c \in Lost(d) : c[1] = "temperature"
         /\ TypeOf[d] = "climate" => Lost(d) = {<<"temperature", "">>}
<1>1. /\ TypeOf[d] = "light" => <<"temperature", "warm">> \in Lost(d)
      /\ TypeOf[d] = "climate" => <<"temperature", "">> \in Lost(d)
  BY DEF Lost
<1>2. TypeOf[d] \notin {"light", "climate"} => Lost(d) = {}
  BY DEF Lost
<1>3. \A c \in Lost(d) : c[1] = "temperature"
  <2>1. \A c \in Lost(d) : \E v : c = <<"temperature", v>>
    BY DEF Lost
  <2> QED
    BY <2>1
<1>4. ASSUME TypeOf[d] = "climate" PROVE Lost(d) = {<<"temperature", "">>}
  <2>1. \A c : c \in Lost(d) => c = <<"temperature", "">>
    BY <1>4 DEF Lost
  <2> QED
    BY <1>1, <1>4, <2>1
<1> QED
  BY <1>1, <1>2, <1>3, <1>4

(* What the controls write may arrive, each from its control. *)
LEMMA ArrivingHas ==
  ASSUME NEW d \in Devices, NEW v
  PROVE  /\ v \in {"on", "off"} /\ TypeOf[d] \in {"light", "switch"} => <<"state", v>> \in Arriving[d]
         /\ v \in Percent /\ TypeOf[d] = "light" => <<"brightness", v>> \in Arriving[d]
         /\ v \in Colors /\ TypeOf[d] = "light" /\ "color" \in Features[d] => <<"color", v>> \in Arriving[d]
         /\ TypeOf[d] \in {"light", "climate"} => <<"temperature", "null">> \in Arriving[d]
         /\ v \in {"off", "auto", "heat", "cool"} /\ TypeOf[d] = "climate" => <<"mode", v>> \in Arriving[d]
         /\ v \in Degrees /\ TypeOf[d] = "climate" => <<"temperature", v>> \in Arriving[d]
         /\ v \in Percent /\ TypeOf[d] = "cover" => <<"position", v>> \in Arriving[d]
<1> DEFINE offered == UNION {Controls(d, state) : state \in {Empty, Single("state", "on")}}
<1>1. \A c : c \in Controls(d, Empty) \/ c \in Controls(d, Single("state", "on")) => c \in offered
  OBVIOUS
<1>2. Holds(Single("state", "on"), "state", "on") /\ ~Holds(Empty, "mode", "off")
  BY DEF Holds, Single, Empty
<1> HIDE DEF offered
<1>3. /\ TypeOf[d] \in {"light", "climate"}
           => Arriving[d] = (offered \ Lost(d)) \cup {<<"temperature", "null">>}
      /\ TypeOf[d] \notin {"light", "climate"} => Arriving[d] = offered
  BY LostIff DEF Arriving, offered
<1>4. \A c : c \in Lost(d) => c[1] = "temperature"
  BY LostIff
<1>5. \A c \in offered : c[1] # "temperature" \/ TypeOf[d] \notin {"light", "climate"} => c \in Arriving[d]
  BY <1>3, <1>4
<1>a. v \in Degrees => v # ""
  BY SceneAssumption
<1>b. TypeOf[d] = "climate" => \A c \in offered : c # <<"temperature", "">> => c \in Arriving[d]
  BY <1>3, LostIff
<1>6. v \in {"on", "off"} /\ TypeOf[d] \in {"light", "switch"} => <<"state", v>> \in Controls(d, Empty)
  BY DEF Controls
<1>7. v \in Percent /\ TypeOf[d] = "light" => <<"brightness", v>> \in Controls(d, Single("state", "on"))
  BY <1>2 DEF Controls
<1>8. v \in Colors /\ TypeOf[d] = "light" /\ "color" \in Features[d]
        => <<"color", v>> \in Controls(d, Single("state", "on"))
  BY <1>2 DEF Controls
<1>9. v \in {"off", "auto", "heat", "cool"} /\ TypeOf[d] = "climate" => <<"mode", v>> \in Controls(d, Empty)
  BY DEF Controls
<1>10. v \in Degrees /\ TypeOf[d] = "climate" => <<"temperature", v>> \in Controls(d, Empty)
  BY <1>2 DEF Controls
<1>c. v \in Degrees /\ TypeOf[d] = "climate" => <<"temperature", v>> \in Arriving[d]
  BY <1>1, <1>10, <1>a, <1>b
<1>11. v \in Percent /\ TypeOf[d] = "cover" => <<"position", v>> \in Controls(d, Empty)
  BY DEF Controls
<1> QED
  BY <1>1, <1>3, <1>5, <1>6, <1>7, <1>8, <1>9, <1>c, <1>11

(* Choosing a control leaves a state that arrives as the dialog offers it. *)
LEMMA OfferedWith ==
  ASSUME NEW d \in Devices, NEW state, NEW c \in Controls(d, state), Offered(d, Json(state))
  PROVE  Offered(d, Json(With(state, c[1], Parsed(c[1], c[2]))))
<1> DEFINE value == Parsed(c[1], c[2])
           arriving == IF value = "NaN" THEN "null" ELSE value
           after == With(state, c[1], value)
<1>1. <<c[1], arriving>> \in Arriving[d]
  <2>1. PICK v :
           \/ c = <<"state", v>> /\ v \in {"on", "off"} /\ TypeOf[d] \in {"light", "switch"}
           \/ c = <<"brightness", v>> /\ v \in Percent /\ TypeOf[d] = "light"
           \/ c = <<"color", v>> /\ v \in Colors /\ TypeOf[d] = "light" /\ "color" \in Features[d]
           \/ c = <<"temperature", v>> /\ v \in {"warm", "neutral", "cool"} /\ TypeOf[d] = "light"
           \/ c = <<"mode", v>> /\ v \in {"off", "auto", "heat", "cool"} /\ TypeOf[d] = "climate"
           \/ c = <<"temperature", v>> /\ v \in Degrees \cup {""} /\ TypeOf[d] = "climate"
           \/ c = <<"position", v>> /\ v \in Percent /\ TypeOf[d] = "cover"
    BY ControlsAre
  <2>2. v \in Percent \cup Degrees \cup Colors => v # "NaN"
    BY SceneAssumption
  <2>3. v \in {"warm", "neutral", "cool", ""} => v \notin Percent \cup Degrees
    BY SceneAssumption
  <2>4. CASE c = <<"state", v>> /\ v \in {"on", "off"} /\ TypeOf[d] \in {"light", "switch"}
    BY <2>4, ArrivingHas DEF Parsed
  <2>5. CASE c = <<"brightness", v>> /\ v \in Percent /\ TypeOf[d] = "light"
    BY <2>2, <2>5, ArrivingHas DEF Parsed
  <2>6. CASE c = <<"color", v>> /\ v \in Colors /\ TypeOf[d] = "light" /\ "color" \in Features[d]
    BY <2>2, <2>6, ArrivingHas DEF Parsed
  <2>7. CASE c = <<"temperature", v>> /\ v \in {"warm", "neutral", "cool"} /\ TypeOf[d] = "light"
    BY <2>3, <2>7, ArrivingHas DEF Parsed
  <2>8. CASE c = <<"mode", v>> /\ v \in {"off", "auto", "heat", "cool"} /\ TypeOf[d] = "climate"
    BY <2>8, ArrivingHas DEF Parsed
  <2>9. CASE c = <<"temperature", v>> /\ v \in Degrees \cup {""} /\ TypeOf[d] = "climate"
    <3>1. CASE v \in Degrees
      BY <2>2, <2>9, <3>1, ArrivingHas DEF Parsed
    <3>2. CASE v = ""
      BY <2>3, <2>9, <3>2, ArrivingHas DEF Parsed
    <3> QED
      BY <2>9, <3>1, <3>2
  <2>10. CASE c = <<"position", v>> /\ v \in Percent /\ TypeOf[d] = "cover"
    BY <2>2, <2>10, ArrivingHas DEF Parsed
  <2> QED
    BY <2>1, <2>4, <2>5, <2>6, <2>7, <2>8, <2>9, <2>10
<1>2. /\ DOMAIN Json(after) = DOMAIN state \cup {c[1]}
      /\ Json(after)[c[1]] = arriving
      /\ \A k \in DOMAIN state : k # c[1] => Json(after)[k] = Json(state)[k]
  BY DEF Json, With
<1>3. DOMAIN Json(state) = DOMAIN state
  BY DEF Json
<1> HIDE DEF value, arriving, after
<1>4. \A k \in DOMAIN Json(after) : ~IsCustom(d) => <<k, Json(after)[k]>> \in Arriving[d]
  BY <1>1, <1>2, <1>3 DEF Offered
<1>5. Offered(d, Json(after))
  BY <1>4 DEF Offered
<1> QED
  BY <1>5 DEF after, value

(* The state a device is first given is one its controls offer. *)
LEMMA OfferedDefault == ASSUME NEW d \in Devices PROVE Offered(d, Json(Default(d)))
<1> SUFFICES ASSUME ~IsCustom(d), NEW k \in DOMAIN Json(Default(d))
             PROVE  <<k, Json(Default(d))[k]>> \in Arriving[d]
  BY DEF Offered
<1>1. k \in DOMAIN Default(d) /\ Json(Default(d))[k] = IF Default(d)[k] = "NaN" THEN "null" ELSE Default(d)[k]
  BY DEF Json
<1>2. CASE TypeOf[d] = "light"
  <2>1. Default(d) = [state |-> "on", brightness |-> "100"]
    BY <1>2 DEF Default
  <2>2. (k = "state" /\ Json(Default(d))[k] = "on") \/ (k = "brightness" /\ Json(Default(d))[k] = "100")
    BY <1>1, <2>1
  <2> QED
    BY <1>2, <2>2, ArrivingHas, SceneAssumption
<1>3. CASE TypeOf[d] = "switch"
  BY <1>1, <1>3, ArrivingHas DEF Default, Single
<1>4. CASE TypeOf[d] = "climate"
  <2>1. Default(d) = [mode |-> "auto", temperature |-> "22"]
    BY <1>4 DEF Default
  <2>2. (k = "mode" /\ Json(Default(d))[k] = "auto") \/ (k = "temperature" /\ Json(Default(d))[k] = "22")
    BY <1>1, <2>1
  <2> QED
    BY <1>4, <2>2, ArrivingHas, SceneAssumption
<1>5. CASE TypeOf[d] = "cover"
  BY <1>1, <1>5, ArrivingHas, SceneAssumption DEF Default, Single
<1> QED
  BY <1>2, <1>3, <1>4, <1>5 DEF IsCustom

Has(devices, d, q) == d \in DOMAIN devices /\ devices[d] = q

HeldFor(d, q) ==
  \/ \E o \in LiveObjs : Has(objs[o].devices, d, q)
  \/ Has(deviceStates, d, q)
  \/ \E r \in requests : Has(r.refs, d, q)

OneHolder == \A d, e \in Devices, q \in Refs : HeldFor(d, q) /\ HeldFor(e, q) => d = e

HeapOffered == \A d \in Devices, q \in Refs : HeldFor(d, q) => Offered(d, Json(heap[q]))

DocOffered(x) == \A d \in DOMAIN x.devices : Offered(d, x.devices[d])

DocsOffered ==
  /\ \A id \in Ids : server[id] # None => DocOffered(server[id])
  /\ list # None => \A id \in Ids : list[id] # None => DocOffered(list[id])
  /\ \A r \in requests : DocOffered(r.doc)

StatesInv == OneHolder /\ HeapOffered /\ DocsOffered

(* The page begins with no states, and what is stored has states that were offered. *)
LEMMA StatesInit == Init => StatesInv
<1> SUFFICES ASSUME Init PROVE StatesInv
  OBVIOUS
<1>1. ASSUME NEW d \in Devices, NEW q \in Refs PROVE ~HeldFor(d, q)
  <2>1. LiveObjs = {} /\ requests = {} /\ deviceStates = Empty
    BY DEF Init, LiveObjs
  <2>2. ~Has(Empty, d, q)
    BY EmptyIs DEF Has
  <2> QED
    BY <2>1, <2>2 DEF HeldFor
<1>2. DocsOffered
  BY StoredAssumption DEF Init, DocsOffered, DocOffered
<1> QED
  BY <1>1, <1>2 DEF StatesInv, OneHolder, HeapOffered

(* What is held is in use. *)
LEMMA HeldLive ==
  ASSUME NEW d, NEW q, HeldFor(d, q) PROVE q \in LiveRefs
<1>1. ASSUME NEW o \in LiveObjs, Has(objs[o].devices, d, q) PROVE q \in LiveRefs
  <2>1. q \in Range(objs[o].devices)
    BY <1>1 DEF Has, Range
  <2> QED
    BY <2>1 DEF LiveRefs
<1>2. ASSUME Has(deviceStates, d, q) PROVE q \in LiveRefs
  <2>1. q \in Range(deviceStates)
    BY <1>2 DEF Has, Range
  <2> QED
    BY <2>1 DEF LiveRefs
<1>3. ASSUME NEW r \in requests, Has(r.refs, d, q) PROVE q \in LiveRefs
  <2>1. q \in Range(r.refs)
    BY <1>3 DEF Has, Range
  <2> QED
    BY <2>1 DEF LiveRefs
<1> QED
  BY <1>1, <1>2, <1>3 DEF HeldFor

(* New pairs N on the references of free, and nothing else is held anew. *)
LEMMA HolderStep ==
  ASSUME OneHolder, NEW free, NEW N,
         \A d \in Devices, q \in Refs : HeldFor(d, q)' =>
           IF q \in free THEN <<d, q>> \in N ELSE HeldFor(d, q),
         \A d, e \in Devices, q \in Refs : <<d, q>> \in N /\ <<e, q>> \in N => d = e
  PROVE  OneHolder'
<1> SUFFICES ASSUME NEW d \in Devices, NEW e \in Devices, NEW q \in Refs, HeldFor(d, q)', HeldFor(e, q)'
             PROVE  d = e
  BY DEF OneHolder
<1>1. CASE q \in free
  BY <1>1
<1>2. CASE q \notin free
  BY <1>2 DEF OneHolder
<1> QED
  BY <1>1, <1>2

(* What changes no state and gives no device another's keeps them offered. *)
LEMMA HeldStep ==
  ASSUME OneHolder, HeapOffered, heap' = heap,
         \A d \in Devices, q \in Refs : HeldFor(d, q)' => HeldFor(d, q)
  PROVE  OneHolder' /\ HeapOffered'
<1>1. OneHolder'
  BY DEF OneHolder
<1>2. HeapOffered'
  BY DEF HeapOffered
<1> QED
  BY <1>1, <1>2

(* The objects that are in use are objects. *)
LEMMA LiveKnown == ASSUME TypeInv PROVE LiveObjs \subseteq Objs
  BY DEF LiveObjs, TypeInv, PageOK

(* The dialog writes states that its controls offer. *)
LEMMA StatesDialog == ASSUME TypeInv, StatesInv, Dialog PROVE StatesInv'
<1>1. UNCHANGED <<server, list, requests, scenes>>
  BY DEF Dialog, ShowCreateScene, CloseDialog, EditScene, TypeName, PickIcon, ToggleDevice,
     UpdateDeviceState, UpdateDeviceCustomState
<1>2. DocsOffered'
  BY <1>1 DEF StatesInv, DocsOffered
<1>3. OneHolder /\ HeapOffered
  BY DEF StatesInv
<1>4. ASSUME ShowCreateScene PROVE OneHolder' /\ HeapOffered'
  <2>1. PICK o \in Objs \ LiveObjs : current' = o /\ objs' = [objs EXCEPT ![o] = Blank]
    BY <1>4 DEF ShowCreateScene, Show
  <2>2. selected' = None /\ deviceStates' = Empty /\ heap' = heap
    BY <1>4 DEF ShowCreateScene
  <2>3. LiveObjs' \subseteq LiveObjs \cup {o}
    BY <1>1, <2>1, <2>2 DEF LiveObjs
  <2>4. /\ objs'[o].devices = Empty
        /\ \A p \in LiveObjs : objs'[p] = objs[p]
    BY <2>1, LiveKnown DEF TypeInv, PageOK, Blank
  <2>5. ASSUME NEW d \in Devices, NEW q \in Refs, HeldFor(d, q)' PROVE HeldFor(d, q)
    <3>1. ~Has(Empty, d, q)
      BY EmptyIs DEF Has
    <3> QED
      BY <1>1, <2>2, <2>3, <2>4, <2>5, <3>1 DEF HeldFor
  <2> QED
    BY <1>3, <2>2, <2>5, HeldStep
<1>5. ASSUME NEW id \in Ids, EditScene(id) PROVE OneHolder' /\ HeapOffered'
  <2>1. /\ selected' = scenes[id] /\ current' = scenes[id] /\ deviceStates' = objs[scenes[id]].devices
        /\ UNCHANGED <<objs, heap>>
    BY <1>5 DEF EditScene, Show
  <2>2. scenes[id] \in LiveObjs
    BY <1>5 DEF EditScene, SceneCards, LiveObjs
  <2>3. LiveObjs' \subseteq LiveObjs
    BY <1>1, <2>1 DEF LiveObjs
  <2>4. ASSUME NEW d \in Devices, NEW q \in Refs, HeldFor(d, q)' PROVE HeldFor(d, q)
    BY <1>1, <2>1, <2>2, <2>3, <2>4 DEF HeldFor
  <2> QED
    BY <1>3, <2>1, <2>4, HeldStep
<1>6. ASSUME CloseDialog \/ (\E n \in Names : TypeName(n)) PROVE OneHolder' /\ HeapOffered'
  <2>1. UNCHANGED <<objs, heap, selected, current, deviceStates>>
    BY <1>6 DEF CloseDialog, TypeName
  <2>2. ASSUME NEW d \in Devices, NEW q \in Refs, HeldFor(d, q)' PROVE HeldFor(d, q)
    BY <1>1, <2>1, <2>2 DEF HeldFor, LiveObjs
  <2> QED
    BY <1>3, <2>1, <2>2, HeldStep
<1>7. ASSUME NEW i \in Icons, PickIcon(i) PROVE OneHolder' /\ HeapOffered'
  <2>1. UNCHANGED <<heap, selected, current, deviceStates>>
    BY <1>7 DEF PickIcon
  <2>2. LiveObjs' = LiveObjs
    BY <1>1, <2>1 DEF LiveObjs
  <2>3. \A o \in Objs : objs'[o].devices = objs[o].devices
    BY <1>7 DEF PickIcon, TypeInv, PageOK, SceneObject
  <2>4. ASSUME NEW d \in Devices, NEW q \in Refs, HeldFor(d, q)' PROVE HeldFor(d, q)
    BY <1>1, <2>1, <2>2, <2>3, <2>4, LiveKnown DEF HeldFor
  <2> QED
    BY <1>3, <2>1, <2>4, HeldStep
<1>8. ASSUME NEW d \in Devices, NEW r \in Refs \ LiveRefs, NEW state, Offered(d, Json(state)),
             heap' = [heap EXCEPT ![r] = state], UNCHANGED <<objs, selected, current>>,
             \A e, q : Has(deviceStates', e, q) => Has(deviceStates, e, q) \/ (e = d /\ q = r)
      PROVE  OneHolder' /\ HeapOffered'
  <2>1. LiveObjs' = LiveObjs
    BY <1>1, <1>8 DEF LiveObjs
  <2>2. ASSUME NEW e \in Devices, NEW q \in Refs, HeldFor(e, q)' PROVE HeldFor(e, q) \/ (e = d /\ q = r)
    BY <1>1, <1>8, <2>1, <2>2 DEF HeldFor
  <2>3. ASSUME NEW e \in Devices, HeldFor(e, r) PROVE FALSE
    BY <1>8, <2>3, HeldLive
  <2>4. OneHolder'
    BY <1>3, <2>2, <2>3 DEF OneHolder
  <2>5. /\ heap'[r] = state
        /\ \A q \in Refs : q # r => heap'[q] = heap[q]
    BY <1>8 DEF TypeInv, PageOK
  <2>6. ASSUME NEW e \in Devices, NEW q \in Refs, HeldFor(e, q)' PROVE Offered(e, Json(heap'[q]))
    BY <1>3, <1>8, <2>2, <2>3, <2>5, <2>6 DEF HeapOffered
  <2>7. HeapOffered'
    BY <2>6 DEF HeapOffered
  <2> QED
    BY <2>4, <2>7
<1>9. ASSUME NEW d \in Devices, ToggleDevice(d) PROVE OneHolder' /\ HeapOffered'
  <2>1. UNCHANGED <<objs, selected, current>>
    BY <1>9 DEF ToggleDevice
  <2>2. CASE deviceStates' = Restrict(deviceStates, DOMAIN deviceStates \ {d}) /\ heap' = heap
    <3>1. LiveObjs' = LiveObjs
      BY <1>1, <2>1 DEF LiveObjs
    <3>2. \A e, q : Has(deviceStates', e, q) => Has(deviceStates, e, q)
      BY <2>2 DEF Has, Restrict
    <3>3. ASSUME NEW e \in Devices, NEW q \in Refs, HeldFor(e, q)' PROVE HeldFor(e, q)
      BY <1>1, <2>1, <3>1, <3>2, <3>3 DEF HeldFor
    <3> QED
      BY <1>3, <2>2, <3>3, HeldStep
  <2>3. ASSUME NEW r \in Refs \ LiveRefs, heap' = [heap EXCEPT ![r] = Default(d)],
               deviceStates' = With(deviceStates, d, r)
        PROVE  OneHolder' /\ HeapOffered'
    <3>1. \A e, q : Has(deviceStates', e, q) => Has(deviceStates, e, q) \/ (e = d /\ q = r)
      BY <2>3 DEF Has, With
    <3> QED
      BY <1>8, <2>1, <2>3, <3>1, OfferedDefault
  <2> QED
    BY <1>9, <2>2, <2>3 DEF ToggleDevice
<1>10. ASSUME NEW d \in Devices, UpdateDeviceCustomState(d) PROVE OneHolder' /\ HeapOffered'
  <2>1. UNCHANGED <<objs, selected, current>> /\ IsCustom(d)
    BY <1>10 DEF UpdateDeviceCustomState
  <2>2. PICK state \in Customs, r \in Refs \ LiveRefs :
          heap' = [heap EXCEPT ![r] = state] /\ deviceStates' = [deviceStates EXCEPT ![d] = r]
    BY <1>10 DEF UpdateDeviceCustomState
  <2>3. \A e, q : Has(deviceStates', e, q) => Has(deviceStates, e, q) \/ (e = d /\ q = r)
    BY <2>2 DEF Has
  <2>4. Offered(d, Json(state))
    BY <2>1 DEF Offered
  <2> QED
    BY <1>8, <2>1, <2>2, <2>3, <2>4
<1>11. ASSUME NEW d \in Devices, UpdateDeviceState(d) PROVE OneHolder' /\ HeapOffered'
  <2> DEFINE r == deviceStates[d]
  <2>1. UNCHANGED <<objs, selected, current, deviceStates>> /\ d \in DOMAIN deviceStates
    BY <1>11 DEF UpdateDeviceState, Included, RenderedDevices
  <2>2. PICK c \in Controls(d, heap[r]) :
          heap' = [heap EXCEPT ![r] = With(heap[r], c[1], Parsed(c[1], c[2]))]
    BY <1>11 DEF UpdateDeviceState
  <2>3. HeldFor(d, r)
    BY <2>1 DEF HeldFor, Has
  <2>4. r \in Refs
    BY <2>1, PartialIff DEF TypeInv, PageOK
  <2> HIDE DEF r
  <2>5. Offered(d, Json(heap[r]))
    BY <1>3, <2>3, <2>4 DEF HeapOffered
  <2> DEFINE after == With(heap[r], c[1], Parsed(c[1], c[2]))
  <2>6. Offered(d, Json(after))
    BY <2>5, OfferedWith
  <2> HIDE DEF after
  <2>7. heap'[r] = after /\ \A q \in Refs : q # r => heap'[q] = heap[q]
    BY <2>2, <2>4 DEF TypeInv, PageOK, after
  <2>8. ASSUME NEW e \in Devices, NEW q \in Refs, HeldFor(e, q)' PROVE HeldFor(e, q)
    BY <1>1, <2>1, <2>8 DEF HeldFor, LiveObjs
  <2>9. OneHolder'
    BY <1>3, <2>8 DEF OneHolder
  <2>10. ASSUME NEW e \in Devices, NEW q \in Refs, HeldFor(e, q)' PROVE Offered(e, Json(heap'[q]))
    <3>1. CASE q = r
      <4>1. e = d
        BY <1>3, <2>3, <2>4, <2>8, <2>10, <3>1 DEF OneHolder
      <4> QED
        BY <2>6, <2>7, <3>1, <4>1
    <3>2. CASE q # r
      BY <1>3, <2>7, <2>8, <2>10, <3>2 DEF HeapOffered
    <3> QED
      BY <3>1, <3>2
  <2>11. HeapOffered'
    BY <2>10 DEF HeapOffered
  <2> QED
    BY <2>9, <2>11
<1>12. OneHolder' /\ HeapOffered'
  BY <1>4, <1>5, <1>6, <1>7, <1>9, <1>10, <1>11 DEF Dialog
<1> QED
  BY <1>2, <1>12 DEF StatesInv

(* A save sends the states that the dialog has. *)
LEMMA StatesAsk ==
  ASSUME TypeInv, StatesInv, SaveScene \/ \E id \in Ids : DeleteScene(id) PROVE StatesInv'
<1>1. UNCHANGED <<server, list, pageVars>>
  BY DEF SaveScene, DeleteScene
<1>2. UNCHANGED <<server, list, scenes, objs, heap, selected, current, deviceStates>> /\ LiveObjs' = LiveObjs
  BY <1>1 DEF pageVars, LiveObjs
<1>3. ASSUME NEW q, requests' = requests \cup {q}, q.refs = deviceStates \/ q.refs = Empty, DocOffered(q.doc)
      PROVE  StatesInv'
  <2>1. \A d, x : ~Has(Empty, d, x)
    BY EmptyIs DEF Has
  <2>2. ASSUME NEW d \in Devices, NEW x \in Refs, HeldFor(d, x)' PROVE HeldFor(d, x)
    BY <1>2, <1>3, <2>1, <2>2 DEF HeldFor
  <2>3. OneHolder' /\ HeapOffered'
    BY <1>2, <2>2, HeldStep DEF StatesInv
  <2>4. DocsOffered'
    BY <1>2, <1>3 DEF StatesInv, DocsOffered
  <2> QED
    BY <2>3, <2>4 DEF StatesInv
<1>4. PICK q :
           \/ /\ open /\ selected = None
              /\ Sent(q, "create", None, typed, objs[current].icon, deviceStates)
           \/ /\ open /\ selected # None
              /\ Sent(q, "update", objs[selected].id, typed, objs[current].icon, deviceStates)
           \/ \E id \in SceneCards : Sent(q, "delete", id, "", "", Empty)
  BY Asking
<1>5. ASSUME NEW name, NEW icon, NEW refs \in {deviceStates, Empty}, q.doc = Doc(name, icon, refs)
      PROVE  DocOffered(q.doc)
  <2>1. DOMAIN q.doc.devices = DOMAIN refs /\ \A d \in DOMAIN refs : q.doc.devices[d] = Json(heap[refs[d]])
    BY <1>5 DEF Doc
  <2>2. CASE refs = Empty
    BY <2>1, <2>2, EmptyIs DEF DocOffered
  <2>3. CASE refs = deviceStates
    <3>1. ASSUME NEW d \in DOMAIN refs PROVE d \in Devices /\ refs[d] \in Refs /\ HeldFor(d, refs[d])
      BY <2>3, <3>1, PartialIff DEF HeldFor, Has, TypeInv, PageOK
    <3> QED
      BY <2>1, <3>1 DEF DocOffered, StatesInv, HeapOffered
  <2> QED
    BY <2>2, <2>3
<1>6. ASSUME NEW op, NEW id, NEW name, NEW icon, NEW refs \in {deviceStates, Empty},
             Sent(q, op, id, name, icon, refs)
      PROVE  StatesInv'
  <2>1. q.doc = Doc(name, icon, refs) /\ q.refs = refs /\ requests' = requests \cup {q}
    BY <1>6 DEF Sent
  <2>2. DocOffered(q.doc)
    BY <1>5, <2>1
  <2> QED
    BY <1>3, <2>1, <2>2
<1> QED
  BY <1>4, <1>6

(* What the server keeps for no state leaves nothing that was not offered. *)
LEMMA ReceivedOffered ==
  ASSUME NEW x, DocOK(x), DocOffered(x) PROVE DocOffered(Received(x))
<1>1. Received(x).devices = [d \in DOMAIN x.devices |-> GetMap(x.devices[d])]
  BY DEF Received, DocOK, IsDocument
<1>2. ASSUME NEW d \in DOMAIN x.devices PROVE Offered(d, GetMap(x.devices[d]))
  <2>1. Offered(d, x.devices[d]) /\ Offered(d, Empty)
    BY DEF DocOffered, Offered, Empty
  <2> QED
    BY <2>1 DEF GetMap
<1> QED
  BY <1>1, <1>2 DEF DocOffered

(* The server keeps the states it was sent. *)
LEMMA StatesServer ==
  ASSUME TypeInv, StatesInv, NEW r \in requests, ServerHandles(r) \/ Lose(r)
  PROVE  StatesInv'
<1>1. UNCHANGED <<list, pageVars>>
  BY DEF ServerHandles, Lose
<1>2. UNCHANGED <<list, scenes, objs, heap, selected, current, deviceStates>> /\ LiveObjs' = LiveObjs
  BY <1>1 DEF pageVars, LiveObjs
<1>3. RequestOK(r) /\ server = [id \in Ids |-> server[id]]
  BY DEF TypeInv, RequestsOK, ServerOK, DocsOK
<1>4. \A id \in Ids : server'[id] = server[id] \/ server'[id] = Received(r.doc) \/ server'[id] = None
  BY <1>3 DEF ServerHandles, HandleCreateScene, HandleMissing, HandleUpdateScene, HandleDeleteScene, Lose
<1>a. PICK status \in {"ok", "failed"} : \E id : Settle(r, status, id)
  BY DEF ServerHandles, HandleCreateScene, HandleMissing, HandleUpdateScene, HandleDeleteScene, Lose
<1>5. PICK id : Settle(r, status, id)
  BY <1>a
<1>6. requests' = (requests \ {r}) \cup {Settled(r, status, id)}
  BY <1>5, Settling
<1>7. Settled(r, status, id).refs = r.refs /\ Settled(r, status, id).doc = r.doc
  BY DEF Settled
<1>8. ASSUME NEW d \in Devices, NEW x \in Refs, HeldFor(d, x)' PROVE HeldFor(d, x)
  BY <1>2, <1>6, <1>7, <1>8 DEF HeldFor
<1>9. OneHolder' /\ HeapOffered'
  BY <1>2, <1>8, HeldStep DEF StatesInv
<1>10. DocsOffered'
  <2>1. DocOffered(r.doc)
    BY DEF StatesInv, DocsOffered
  <2>a. DocOffered(Received(r.doc))
    BY <1>3, <2>1, ReceivedOffered DEF RequestOK
  <2>2. \A j \in Ids : server'[j] # None => DocOffered(server'[j])
    BY <1>4, <2>a DEF StatesInv, DocsOffered
  <2>3. \A q \in requests' : DocOffered(q.doc)
    BY <1>6, <1>7, <2>1 DEF StatesInv, DocsOffered
  <2> QED
    BY <1>2, <2>2, <2>3 DEF StatesInv, DocsOffered
<1> QED
  BY <1>9, <1>10 DEF StatesInv

(* Documents that arrive as the dialog offers them are parsed into states  *)
(* that do, each held for one device.                                      *)
LEMMA StatesParsed ==
  ASSUME OneHolder, HeapOffered,
         NEW docs, NEW rest, NEW freeObjs \in SUBSET Objs, NEW freeRefs \in SUBSET Refs,
         NEW obj \in [DOMAIN docs -> freeObjs], NEW ref \in [Places(docs) -> freeRefs],
         ParsedInto(docs, rest, obj, ref),
         \A id \in DOMAIN docs : IsDocument(docs[id]) /\ DocOffered(docs[id]),
         \A d \in Devices, q \in Refs :
           HeldFor(d, q)' => \/ q \notin freeRefs /\ HeldFor(d, q)
                             \/ \E id \in DOMAIN docs : Has(objs'[obj[id]].devices, d, q)
  PROVE  OneHolder' /\ HeapOffered'
<1>1. ASSUME NEW id \in DOMAIN docs, NEW d, NEW q, Has(objs'[obj[id]].devices, d, q)
      PROVE  <<id, d>> \in Places(docs) /\ q = ref[<<id, d>>]
  <2> DEFINE refs == [e \in DOMAIN docs[id].devices |-> ref[<<id, e>>]]
  <2>1. objs'[obj[id]] = [id |-> id, name |-> docs[id].name, icon |-> docs[id].icon, devices |-> refs]
    BY DEF ParsedInto
  <2>2. DOMAIN refs = DOMAIN docs[id].devices /\ \A e \in DOMAIN refs : refs[e] = ref[<<id, e>>]
    OBVIOUS
  <2> HIDE DEF refs
  <2>3. objs'[obj[id]].devices = refs
    BY <2>1
  <2> QED
    BY <1>1, <2>2, <2>3 DEF Has, Places
<1>2. ASSUME NEW d \in Devices, NEW q \in Refs, HeldFor(d, q)'
      PROVE  \/ q \notin freeRefs /\ HeldFor(d, q)
             \/ q \in freeRefs /\ \E id \in DOMAIN docs : <<id, d>> \in Places(docs) /\ q = ref[<<id, d>>]
  <2>1. ASSUME NEW id \in DOMAIN docs, Has(objs'[obj[id]].devices, d, q)
        PROVE  q \in freeRefs /\ <<id, d>> \in Places(docs) /\ q = ref[<<id, d>>]
    <3>1. <<id, d>> \in Places(docs) /\ q = ref[<<id, d>>]
      BY <1>1, <2>1 DEF Has
    <3> QED
      BY <3>1
  <2>2. (q \notin freeRefs /\ HeldFor(d, q)) \/ \E id \in DOMAIN docs : Has(objs'[obj[id]].devices, d, q)
    BY <1>2
  <2> QED
    BY <2>1, <2>2 DEF Has
<1>3. ASSUME NEW d \in Devices, NEW e \in Devices, NEW q \in Refs, HeldFor(d, q)', HeldFor(e, q)'
      PROVE  d = e
  <2>1. CASE q \notin freeRefs
    BY <1>2, <1>3, <2>1 DEF OneHolder
  <2>2. CASE q \in freeRefs
    <3>1. PICK i \in DOMAIN docs : <<i, d>> \in Places(docs) /\ q = ref[<<i, d>>]
      BY <1>2, <1>3, <2>2
    <3>2. PICK j \in DOMAIN docs : <<j, e>> \in Places(docs) /\ q = ref[<<j, e>>]
      BY <1>2, <1>3, <2>2
    <3>3. <<i, d>> = <<j, e>>
      BY <3>1, <3>2 DEF ParsedInto
    <3> QED
      BY <3>3
  <2> QED
    BY <2>1, <2>2
<1>4. ASSUME NEW d \in Devices, NEW q \in Refs, HeldFor(d, q)' PROVE Offered(d, Json(heap'[q]))
  <2>1. CASE q \notin freeRefs
    <3>1. heap'[q] = heap[q]
      BY <2>1 DEF ParsedInto
    <3> QED
      BY <1>2, <1>4, <2>1, <3>1 DEF HeapOffered
  <2>2. CASE q \in freeRefs
    <3>1. PICK i \in DOMAIN docs : <<i, d>> \in Places(docs) /\ q = ref[<<i, d>>]
      BY <1>2, <1>4, <2>2
    <3>2. heap'[q] = docs[i].devices[d] /\ d \in DOMAIN docs[i].devices
      BY <3>1 DEF ParsedInto, Places
    <3>3. docs[i].devices = [e \in DOMAIN docs[i].devices |-> Json(docs[i].devices[e])]
      BY DEF IsDocument
    <3>4. Json(docs[i].devices[d]) = docs[i].devices[d]
      BY <3>2, <3>3
    <3>5. Offered(d, docs[i].devices[d])
      BY <3>2 DEF DocOffered
    <3> QED
      BY <3>2, <3>4, <3>5
  <2> QED
    BY <2>1, <2>2
<1>5. OneHolder'
  BY <1>3 DEF OneHolder
<1>6. HeapOffered'
  BY <1>4 DEF HeapOffered
<1> QED
  BY <1>5, <1>6

(* Answers bring states that were offered. *)
LEMMA StatesAnswer ==
  ASSUME TypeInv, StatesInv, NEW r \in requests, Answer(r)
  PROVE  StatesInv'
<1>1. UNCHANGED <<server, list, selected, current, deviceStates>> /\ requests' = requests \ {r}
  BY DEF Answer
<1>2. DocsOffered'
  BY <1>1 DEF StatesInv, DocsOffered
<1>3. OneHolder /\ HeapOffered
  BY DEF StatesInv
<1>4. RequestOK(r)
  BY DEF TypeInv, RequestsOK
<1>5. ASSUME AnswerUpdate(r) PROVE OneHolder' /\ HeapOffered'
  <2>1. selected \in Objs /\ Assign(selected, r) /\ PageOK /\ UNCHANGED <<scenes, heap>>
    BY <1>5 DEF AnswerUpdate, TypeInv, PageOK
  <2>2. /\ objs'[selected] = [id |-> objs[selected].id, name |-> r.doc.name, icon |-> r.doc.icon,
                              devices |-> r.refs]
        /\ \A p \in Objs : p # selected => objs'[p] = objs[p]
    BY <1>4, <2>1, Assigned
  <2>3. objs'[selected].devices = r.refs
    BY <2>2
  <2>4. LiveObjs' = LiveObjs
    BY <1>1, <2>1 DEF LiveObjs
  <2>5. ASSUME NEW d \in Devices, NEW q \in Refs, HeldFor(d, q)' PROVE HeldFor(d, q)
    <3>1. ASSUME NEW o \in LiveObjs, Has(objs'[o].devices, d, q) PROVE HeldFor(d, q)
      <4>1. CASE o = selected
        BY <2>3, <3>1, <4>1 DEF HeldFor
      <4>2. CASE o # selected
        BY <2>2, <3>1, <4>2, LiveKnown DEF HeldFor
      <4> QED
        BY <4>1, <4>2
    <3>2. ASSUME ~\E o \in LiveObjs : Has(objs'[o].devices, d, q) PROVE HeldFor(d, q)
      BY <1>1, <2>4, <2>5, <3>2 DEF HeldFor
    <3> QED
      BY <3>1, <3>2
  <2> QED
    BY <1>3, <2>1, <2>5, HeldStep
<1>6. ASSUME AnswerUpdateNoSelection(r) \/ AnswerDelete(r) \/ AnswerFailed(r) PROVE OneHolder' /\ HeapOffered'
  <2>1. UNCHANGED <<objs, heap>>
    BY <1>6 DEF AnswerUpdateNoSelection, AnswerDelete, AnswerFailed
  <2>2. \A id \in Ids : scenes'[id] = scenes[id] \/ scenes'[id] = None
    BY <1>6 DEF AnswerUpdateNoSelection, AnswerDelete, AnswerFailed, TypeInv, PageOK
  <2>3. LiveObjs' \subseteq LiveObjs
    BY <1>1, <2>2 DEF LiveObjs
  <2>4. ASSUME NEW d \in Devices, NEW q \in Refs, HeldFor(d, q)' PROVE HeldFor(d, q)
    BY <1>1, <2>1, <2>3, <2>4 DEF HeldFor
  <2> QED
    BY <1>3, <2>1, <2>4, HeldStep
<1>7. ASSUME AnswerCreate(r), r.op = "create", r.status = "ok" PROVE OneHolder' /\ HeapOffered'
  <2> DEFINE docs == [id \in {r.id} |-> Received(r.doc)]
             freeObjs == Objs \ LiveObjs
             freeRefs == Refs \ LiveRefs
  <2>1. r.id \in Ids /\ IsDocument(Received(r.doc)) /\ DocOffered(Received(r.doc))
    BY <1>4, <1>7, ReceivedIs, ReceivedOffered DEF RequestOK, DocOK, StatesInv, DocsOffered
  <2>2. CanParse(docs, freeObjs, freeRefs) /\ Parse(docs, scenes, freeObjs, freeRefs)
    BY <1>7 DEF AnswerCreate
  <2>3. DOMAIN docs = {r.id} /\ docs[r.id] = Received(r.doc)
    OBVIOUS
  <2>4. /\ freeObjs \in SUBSET Objs /\ freeRefs \in SUBSET Refs
        /\ \A o \in LiveObjs : o \notin freeObjs
        /\ \A q \in LiveRefs : q \notin freeRefs
    OBVIOUS
  <2> HIDE DEF docs, freeObjs, freeRefs
  <2>5. PICK obj \in [DOMAIN docs -> freeObjs], ref \in [Places(docs) -> freeRefs] :
          ParsedInto(docs, scenes, obj, ref)
    BY <2>1, <2>2, <2>3, <2>4, Parsing
  <2>6. LiveObjs' \subseteq LiveObjs \cup {obj[id] : id \in DOMAIN docs}
    <3>1. \A id \in Ids : scenes'[id] = scenes[id] \/ (id \in DOMAIN docs /\ scenes'[id] = obj[id])
      BY <2>5 DEF ParsedInto
    <3> QED
      BY <1>1, <3>1 DEF LiveObjs
  <2>7. \A o \in LiveObjs : objs'[o] = objs[o]
    BY <2>4, <2>5, LiveKnown DEF ParsedInto
  <2>8. ASSUME NEW d \in Devices, NEW q \in Refs, HeldFor(d, q)'
        PROVE  \/ q \notin freeRefs /\ HeldFor(d, q)
               \/ \E id \in DOMAIN docs : Has(objs'[obj[id]].devices, d, q)
    <3>1. HeldFor(d, q) \/ \E id \in DOMAIN docs : Has(objs'[obj[id]].devices, d, q)
      BY <1>1, <2>6, <2>7, <2>8 DEF HeldFor
    <3>2. HeldFor(d, q) => q \notin freeRefs
      BY <2>4, HeldLive
    <3> QED
      BY <3>1, <3>2
  <2>9. \A id \in DOMAIN docs : IsDocument(docs[id]) /\ DocOffered(docs[id])
    BY <2>1, <2>3
  <2> QED
    BY <1>3, <2>4, <2>5, <2>8, <2>9, StatesParsed
<1>8. OneHolder' /\ HeapOffered'
  BY <1>5, <1>6, <1>7 DEF Answer
<1> QED
  BY <1>2, <1>8 DEF StatesInv

(* A list brings states that were offered. *)
LEMMA StatesLists ==
  ASSUME TypeInv, StatesInv, SendInitialData \/ LoadScenes PROVE StatesInv'
<1>1. CASE SendInitialData
  <2>1. UNCHANGED <<server, pageVars, requests>> /\ list' = server
    BY <1>1 DEF SendInitialData
  <2>2. DocsOffered'
    BY <2>1 DEF StatesInv, DocsOffered
  <2>3. LiveObjs' = LiveObjs /\ UNCHANGED <<objs, heap, deviceStates, requests>>
    BY <2>1 DEF pageVars, LiveObjs
  <2>4. ASSUME NEW d \in Devices, NEW q \in Refs, HeldFor(d, q)' PROVE HeldFor(d, q)
    BY <2>3, <2>4 DEF HeldFor
  <2> QED
    BY <2>2, <2>3, <2>4, HeldStep DEF StatesInv
<1>2. CASE LoadScenes
  <2> DEFINE docs == Present(list)
             rest == [id \in Ids |-> None]
             freeObjs == Objs \ ({selected, current} \ {None})
             inUse == Range(deviceStates) \cup (UNION {Range(r.refs) : r \in requests})
                          \cup (UNION {Range(objs[o].devices) : o \in {selected, current} \ {None}})
             freeRefs == Refs \ inUse
  <2>1. CanParse(docs, freeObjs, freeRefs) /\ Parse(docs, rest, freeObjs, freeRefs)
    BY <1>2 DEF LoadScenes
  <2>2. DOMAIN docs \subseteq Ids /\ \A id \in DOMAIN docs : IsDocument(docs[id]) /\ DocOffered(docs[id])
    BY <1>2 DEF LoadScenes, Present, Restrict, TypeInv, ServerOK, DocsOK, DocOK, StatesInv, DocsOffered
  <2>3. /\ freeObjs \in SUBSET Objs /\ freeRefs \in SUBSET Refs
        /\ selected \notin freeObjs /\ current \notin freeObjs
        /\ \A id \in Ids : rest[id] = None
        /\ \A q \in inUse : q \notin freeRefs
    BY SceneAssumption
  <2>4. /\ \A q \in Range(deviceStates) : q \in inUse
        /\ \A r \in requests : \A q \in Range(r.refs) : q \in inUse
        /\ \A o \in {selected, current} \ {None} : \A q \in Range(objs[o].devices) : q \in inUse
    OBVIOUS
  <2> HIDE DEF docs, rest, freeObjs, freeRefs, inUse
  <2>5. PICK obj \in [DOMAIN docs -> freeObjs], ref \in [Places(docs) -> freeRefs] :
          ParsedInto(docs, rest, obj, ref)
    BY <2>1, <2>2, <2>3, Parsing
  <2>6. UNCHANGED <<server, selected, current, deviceStates, requests>> /\ list' = None
    BY <1>2 DEF LoadScenes
  <2>7. LiveObjs' \subseteq ({selected, current} \ {None}) \cup {obj[id] : id \in DOMAIN docs}
    <3>1. \A id \in Ids : scenes'[id] = None \/ (id \in DOMAIN docs /\ scenes'[id] = obj[id])
      BY <2>3, <2>5 DEF ParsedInto
    <3> QED
      BY <2>6, <3>1 DEF LiveObjs
  <2>8. \A o \in {selected, current} \ {None} : o \in LiveObjs /\ objs'[o] = objs[o]
    BY <2>3, <2>5 DEF ParsedInto, LiveObjs, TypeInv, PageOK
  <2>9. ASSUME NEW d \in Devices, NEW q \in Refs, HeldFor(d, q)'
        PROVE  \/ q \notin freeRefs /\ HeldFor(d, q)
               \/ \E id \in DOMAIN docs : Has(objs'[obj[id]].devices, d, q)
    <3>1. ASSUME NEW o \in {selected, current} \ {None}, Has(objs[o].devices, d, q)
          PROVE  q \notin freeRefs /\ HeldFor(d, q)
      <4>1. q \in Range(objs[o].devices)
        BY <3>1 DEF Has, Range
      <4> QED
        BY <2>3, <2>4, <2>8, <3>1, <4>1 DEF HeldFor
    <3>2. ASSUME Has(deviceStates, d, q) PROVE q \notin freeRefs /\ HeldFor(d, q)
      <4>1. q \in Range(deviceStates)
        BY <3>2 DEF Has, Range
      <4> QED
        BY <2>3, <2>4, <3>2, <4>1 DEF HeldFor
    <3>3. ASSUME NEW r \in requests, Has(r.refs, d, q) PROVE q \notin freeRefs /\ HeldFor(d, q)
      <4>1. q \in Range(r.refs)
        BY <3>3 DEF Has, Range
      <4> QED
        BY <2>3, <2>4, <3>3, <4>1 DEF HeldFor
    <3>4. \/ \E o \in {selected, current} \ {None} : Has(objs[o].devices, d, q)
          \/ \E id \in DOMAIN docs : Has(objs'[obj[id]].devices, d, q)
          \/ Has(deviceStates, d, q)
          \/ \E r \in requests : Has(r.refs, d, q)
      BY <2>6, <2>7, <2>8, <2>9 DEF HeldFor
    <3> QED
      BY <3>1, <3>2, <3>3, <3>4
  <2>10. OneHolder' /\ HeapOffered'
    BY <2>2, <2>3, <2>5, <2>9, StatesParsed DEF StatesInv
  <2>11. DocsOffered'
    BY <2>6 DEF StatesInv, DocsOffered
  <2> QED
    BY <2>10, <2>11 DEF StatesInv
<1> QED
  BY <1>1, <1>2

(* Every step keeps states that the controls offer. *)
LEMMA StatesStep == TypeInv /\ StatesInv /\ [Next]_vars => StatesInv'
<1>1. ASSUME StatesInv, UNCHANGED vars PROVE StatesInv'
  BY <1>1 DEF vars, pageVars, StatesInv, OneHolder, HeapOffered, DocsOffered, HeldFor, LiveObjs
<1> QED
  BY <1>1, StatesDialog, StatesAsk, StatesServer, StatesAnswer, StatesLists DEF Next

(* The states that reach the server (scene-editor.js:319): for any         *)
(* devices, each is one the dialog offers or comes with the device, but    *)
(* that the colour temperature of a light never arrives.                   *)
THEOREM StatesOffered == Spec => []OnlyOfferedStates
<1>1. StatesInv => OnlyOfferedStates
  BY DEF StatesInv, DocsOffered, DocOffered, OnlyOfferedStates
<1> QED
  BY <1>1, TypeInit, TypeStep, StatesInit, StatesStep, PTL DEF Spec
=============================================================================
