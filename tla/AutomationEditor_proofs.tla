----------------------- MODULE AutomationEditor_proofs -----------------------
(***************************************************************************)
(* Proofs about the automations page, for any automations, palette, texts  *)
(* and objects and any number of nodes, items, requests and losses.        *)
(*                                                                         *)
(* Each property has an invariant of its own, and all rest on TypeInv.     *)
(* What is shown by an automation may be in three places, its object, the  *)
(* array it shares with an editor and a request that carries it, and each  *)
(* invariant says the same of the three.                                   *)
(***************************************************************************)
EXTENDS AutomationEditor, FiniteSetTheorems, SequenceTheorems, TLAPS

(***************************************************************************)
(* Lists of items.                                                         *)
(***************************************************************************)

(* A function on 1..n with items as values is a list of them. *)
LEMMA ListIs ==
  ASSUME NEW n \in Nat, NEW f, IsFunction(f), DOMAIN f = 1..n, \A i \in 1..n : IsItem(f[i])
  PROVE  IsList(f) /\ Len(f) = n /\ Range(f) = {f[i] : i \in 1..n}
<1>2. Range(f) = {f[i] : i \in 1..n}
  BY DEF Range
<1>3. f \in [1..n -> Range(f)]
  BY <1>2 DEF IsFunction
<1>4. f \in Seq(Range(f))
  BY <1>3
<1>5. Len(f) = n
  BY <1>4
<1> QED
  BY <1>2, <1>4, <1>5 DEF IsList

(* What a list is as a function, and what its items are. *)
LEMMA ListHas ==
  ASSUME NEW l, IsList(l)
  PROVE  /\ IsFunction(l) /\ Len(l) \in Nat /\ DOMAIN l = 1..Len(l)
         /\ \A i \in 1..Len(l) : l[i] \in Range(l) /\ IsItem(l[i])
         /\ Range(l) = {l[i] : i \in 1..Len(l)}
<1>1. l \in Seq(Range(l))
  BY DEF IsList
<1>2. IsFunction(l) /\ Len(l) \in Nat /\ DOMAIN l = 1..Len(l)
  BY <1>1 DEF IsFunction
<1>3. Range(l) = {l[i] : i \in 1..Len(l)}
  BY <1>2 DEF Range
<1>4. \A i \in 1..Len(l) : l[i] \in Range(l) /\ IsItem(l[i])
  BY <1>3 DEF IsList
<1> QED
  BY <1>2, <1>3, <1>4

(* A list that an item is appended to has that item as well. *)
LEMMA Appending ==
  ASSUME NEW l, IsList(l), NEW e, IsItem(e)
  PROVE  IsList(Append(l, e)) /\ Range(Append(l, e)) = Range(l) \cup {e}
<1> DEFINE m == Append(l, e)
           S == Range(l) \cup {e}
<1>1. l \in Seq(S) /\ Len(l) \in Nat /\ DOMAIN l = 1..Len(l)
  BY ListHas DEF IsList
<1>2. m \in Seq(S) /\ Len(m) = Len(l) + 1
  BY <1>1
<1>3. \A i \in 1..Len(l) + 1 : m[i] = IF i <= Len(l) THEN l[i] ELSE e
  BY <1>1
<1> HIDE DEF m, S
<1>4. IsFunction(m) /\ DOMAIN m = 1..Len(l) + 1
  BY <1>1, <1>2 DEF IsFunction
<1> USE DEF S
<1>5. \A i \in 1..Len(l) + 1 : IsItem(m[i])
  BY <1>1, <1>3, ListHas
<1>6. IsList(m) /\ Range(m) = {m[i] : i \in 1..Len(l) + 1}
  BY <1>1, <1>4, <1>5, ListIs
<1>7. Range(m) = S
  <2>1. \A x \in Range(m) : x \in S
    BY <1>1, <1>3, <1>6, ListHas
  <2>2. e \in Range(m)
    BY <1>1, <1>3, <1>6
  <2>3. \A x \in Range(l) : x \in Range(m)
    BY <1>1, <1>3, <1>6, ListHas
  <2> QED
    BY <2>1, <2>2, <2>3
<1> QED
  BY <1>6, <1>7 DEF m

(* A list that an item is removed from has no others. *)
LEMMA Removing ==
  ASSUME NEW l, IsList(l), NEW k \in DOMAIN l
  PROVE  IsList(RemoveAt(l, k)) /\ Range(RemoveAt(l, k)) \subseteq Range(l)
<1> DEFINE a == SubSeq(l, 1, k - 1)
           b == SubSeq(l, k + 1, Len(l))
           m == RemoveAt(l, k)
<1>1. l \in Seq(Range(l)) /\ Len(l) \in Nat /\ DOMAIN l = 1..Len(l)
  BY ListHas DEF IsList
<1>2. a \in Seq(Range(l)) /\ Len(a) = k - 1
  BY <1>1
<1>3. b \in Seq(Range(l)) /\ Len(b) = Len(l) - k
  BY <1>1
<1>4. m = a \o b
  BY DEF RemoveAt
<1> HIDE DEF a, b, m
<1>5. m \in Seq(Range(l)) /\ Len(m) = Len(l) - 1
  <2>1. m \in Seq(Range(l))
    BY <1>2, <1>3, <1>4
  <2>2. Len(m) = Len(a) + Len(b)
    BY <1>2, <1>3, <1>4, ConcatProperties
  <2> QED
    BY <1>1, <1>2, <1>3, <2>1, <2>2
<1>6. Len(m) \in Nat /\ IsFunction(m) /\ DOMAIN m = 1..Len(m) /\ \A i \in 1..Len(m) : m[i] \in Range(l)
  BY <1>5 DEF IsFunction
<1>7. IsList(m) /\ Range(m) = {m[i] : i \in 1..Len(m)}
  BY <1>6, ListIs DEF IsList
<1> QED
  BY <1>6, <1>7 DEF m

(***************************************************************************)
(* What the server keeps.                                                  *)
(***************************************************************************)

Part(F, i) == Restrict(i, F \cap DOMAIN i)
KeptOf(F, l) == [n \in DOMAIN l |-> Part(F, l[n])]

(* Keeping the fields F of an item is done once, and keeps its owner. *)
LEMMA KeptItem ==
  ASSUME NEW i, IsItem(i), NEW F, "type" \in F, "owner" \in F
  PROVE  LET j == Part(F, i)
         IN  /\ IsItem(j) /\ j.type = i.type /\ j.owner = i.owner
             /\ DOMAIN j = F \cap DOMAIN i
             /\ \A k \in DOMAIN j : j[k] = i[k]
             /\ Part(F, j) = j
<1> DEFINE D == F \cap DOMAIN i
           j == Part(F, i)
<1>1. j = [k \in D |-> i[k]]
  BY DEF Restrict, Part
<1>2. {"type", "owner"} \subseteq D
  BY DEF IsItem, IsFunction
<1> HIDE DEF D, j
<1>3. DOMAIN j = D /\ \A k \in D : j[k] = i[k]
  BY <1>1
<1>4. IsItem(j) /\ j.type = i.type /\ j.owner = i.owner
  BY <1>1, <1>2, <1>3 DEF IsItem, IsFunction
<1>5. Part(F, j) = j
  <2>1. F \cap DOMAIN j = D
    BY <1>3 DEF D
  <2>2. Part(F, j) = [k \in D |-> j[k]]
    BY <2>1 DEF Restrict, Part
  <2> QED
    BY <1>1, <1>3, <2>1, <2>2
<1> QED
  BY <1>3, <1>4, <1>5 DEF D, j

(* A command that the server keeps still has its command and its data. *)
LEMMA KeptCommand ==
  ASSUME NEW i, IsItem(i), CommandOK(i)
  PROVE  CommandOK(Part(ActionFields, i))
<1> DEFINE j == Part(ActionFields, i)
<1>1. {"type", "owner", "command", "data"} \subseteq ActionFields
  BY DEF ActionFields
<1>2. j.type = i.type /\ DOMAIN j = ActionFields \cap DOMAIN i /\ \A k \in DOMAIN j : j[k] = i[k]
  BY <1>1, KeptItem
<1> HIDE DEF j
<1>3. CommandOK(j)
  BY <1>1, <1>2 DEF CommandOK
<1> QED
  BY <1>3 DEF j

(* Keeping the fields F of every item of a list is done once. *)
LEMMA KeptBy ==
  ASSUME NEW F, "type" \in F, "owner" \in F, NEW l, IsList(l),
         NEW m, m = KeptOf(F, l)
  PROVE  /\ IsList(m) /\ KeptOf(F, m) = m
         /\ \A i \in Range(m) : \E j \in Range(l) : i = Part(F, j)
<1>1. /\ Len(l) \in Nat /\ DOMAIN l = 1..Len(l)
      /\ \A n \in 1..Len(l) : l[n] \in Range(l) /\ IsItem(l[n])
  BY ListHas
<1>2. DOMAIN m = 1..Len(l) /\ \A n \in 1..Len(l) : m[n] = Part(F, l[n])
  BY <1>1 DEF KeptOf
<1>3. ASSUME NEW n \in 1..Len(l)
      PROVE  IsItem(m[n]) /\ Part(F, m[n]) = m[n]
  <2>1. IsItem(l[n]) /\ m[n] = Part(F, l[n])
    BY <1>1, <1>2
  <2>2. IsItem(Part(F, l[n])) /\ Part(F, Part(F, l[n])) = Part(F, l[n])
    <3> DEFINE i == l[n]
    <3> HIDE DEF i
    <3>1. IsItem(i)
      BY <2>1 DEF i
    <3>2. IsItem(Part(F, i)) /\ Part(F, Part(F, i)) = Part(F, i)
      BY <3>1, KeptItem
    <3> QED
      BY <3>2 DEF i
  <2> QED
    BY <2>1, <2>2
<1>4. IsFunction(m)
  BY DEF KeptOf, IsFunction
<1>5. IsList(m) /\ Range(m) = {m[n] : n \in 1..Len(l)}
  BY <1>1, <1>2, <1>3, <1>4, ListIs
<1>6. KeptOf(F, m) = m
  BY <1>2, <1>3, <1>4 DEF KeptOf, IsFunction
<1> QED
  BY <1>1, <1>2, <1>5, <1>6

(* What the server keeps of triggers and conditions, it keeps for good. *)
LEMMA KeptTestsIs ==
  ASSUME NEW l, IsList(l)
  PROVE  /\ IsList(KeptTests(l)) /\ KeptTests(KeptTests(l)) = KeptTests(l)
         /\ \A i \in Range(KeptTests(l)) : \E j \in Range(l) : i.owner = j.owner
<1>1. "type" \in TestedFields /\ "owner" \in TestedFields
  BY DEF TestedFields
<1> DEFINE m == KeptTests(l)
<1>2. m = KeptOf(TestedFields, l) /\ KeptTests(m) = KeptOf(TestedFields, m)
  BY DEF KeptTests, KeptOf, Part
<1> HIDE DEF m
<1>4. /\ IsList(m) /\ KeptTests(m) = m
      /\ \A i \in Range(m) : \E j \in Range(l) : i = Part(TestedFields, j)
  BY <1>1, <1>2, KeptBy
<1>5. \A j \in Range(l) : Part(TestedFields, j).owner = j.owner
  BY <1>1, KeptItem DEF IsList
<1> QED
  BY <1>4, <1>5 DEF m

(* What the server keeps of actions, it keeps for good, commands included. *)
LEMMA KeptActionsIs ==
  ASSUME NEW l, IsList(l), \A i \in Range(l) : CommandOK(i)
  PROVE  /\ IsList(KeptActions(l)) /\ KeptActions(KeptActions(l)) = KeptActions(l)
         /\ \A i \in Range(KeptActions(l)) : CommandOK(i) /\ \E j \in Range(l) : i.owner = j.owner
<1>1. "type" \in ActionFields /\ "owner" \in ActionFields
  BY DEF ActionFields
<1> DEFINE m == KeptActions(l)
<1>2. m = KeptOf(ActionFields, l) /\ KeptActions(m) = KeptOf(ActionFields, m)
  BY DEF KeptActions, KeptOf, Part
<1> HIDE DEF m
<1>4. /\ IsList(m) /\ KeptActions(m) = m
      /\ \A i \in Range(m) : \E j \in Range(l) : i = Part(ActionFields, j)
  BY <1>1, <1>2, KeptBy
<1>5. \A j \in Range(l) : /\ Part(ActionFields, j).owner = j.owner
                          /\ CommandOK(Part(ActionFields, j))
  BY <1>1, KeptItem, KeptCommand DEF IsList
<1> QED
  BY <1>4, <1>5 DEF m

(***************************************************************************)
(* The owners given when an automation is created.                         *)
(***************************************************************************)

GivenTo(i, id) == IF i.owner = New THEN [i EXCEPT !.owner = id] ELSE i

(* An item whose owner is set is the item it was in every other field. *)
LEMMA GivenItem ==
  ASSUME NEW i, IsItem(i), NEW id, NEW F, "type" \in F, "owner" \in F
  PROVE  LET j == GivenTo(i, id)
         IN  /\ IsItem(j) /\ j.type = i.type /\ (i.owner = New => j.owner = id)
             /\ CommandOK(i) => CommandOK(j)
             /\ Part(F, i) = i => Part(F, j) = j
<1> DEFINE j == GivenTo(i, id)
<1>1. /\ DOMAIN j = DOMAIN i
      /\ j = [k \in DOMAIN i |-> j[k]]
      /\ \A k \in DOMAIN i : k # "owner" => j[k] = i[k]
      /\ (i.owner = New => j.owner = id)
  BY DEF IsFunction, IsItem, GivenTo
<1>2. {"type", "owner"} \subseteq DOMAIN i
  BY DEF IsItem, IsFunction
<1> HIDE DEF j
<1>3. IsItem(j) /\ j.type = i.type /\ (CommandOK(i) => CommandOK(j))
  BY <1>1, <1>2 DEF IsFunction, IsItem, CommandOK
<1>4. ASSUME Part(F, i) = i PROVE Part(F, j) = j
  <2>1. DOMAIN Part(F, i) = F \cap DOMAIN i
    BY DEF Restrict, Part
  <2>2. F \cap DOMAIN i = DOMAIN i
    BY <1>4, <2>1
  <2>3. Part(F, j) = [k \in DOMAIN i |-> j[k]]
    BY <1>1, <2>2 DEF Restrict, Part
  <2> QED
    BY <1>1, <2>2, <2>3
<1> QED
  BY <1>1, <1>3, <1>4 DEF j

(* A list whose owners are set has the items it had, each with its owner. *)
LEMMA GivenList ==
  ASSUME NEW l, IsList(l), NEW id
  PROVE  /\ IsList(Given(l, id))
         /\ DOMAIN Given(l, id) = DOMAIN l
         /\ \A n \in DOMAIN l : Given(l, id)[n] = GivenTo(l[n], id)
         /\ \A i \in Range(Given(l, id)) : \E j \in Range(l) : i = GivenTo(j, id)
<1> DEFINE m == Given(l, id)
<1>1. /\ Len(l) \in Nat /\ DOMAIN l = 1..Len(l)
      /\ \A n \in 1..Len(l) : l[n] \in Range(l) /\ IsItem(l[n])
  BY ListHas
<1>2. m = [n \in DOMAIN l |-> GivenTo(l[n], id)]
  BY DEF Given, GivenTo
<1> HIDE DEF m
<1>3. \A n \in 1..Len(l) : m[n] = GivenTo(l[n], id) /\ IsItem(m[n])
  <2>1. "type" \in {"type", "owner"} /\ "owner" \in {"type", "owner"}
    OBVIOUS
  <2> QED
    BY <1>1, <1>2, <2>1, GivenItem
<1>4. IsFunction(m) /\ DOMAIN m = 1..Len(l)
  BY <1>1, <1>2 DEF IsFunction
<1>5. IsList(m) /\ Range(m) = {m[n] : n \in 1..Len(l)}
  BY <1>1, <1>3, <1>4, ListIs
<1> QED
  BY <1>1, <1>2, <1>3, <1>5 DEF m

(* To set the owners of what the server keeps leaves it as kept. *)
LEMMA GivenKept ==
  ASSUME NEW l, IsList(l), NEW id
  PROVE  /\ KeptTests(l) = l => KeptTests(Given(l, id)) = Given(l, id)
         /\ KeptActions(l) = l => KeptActions(Given(l, id)) = Given(l, id)
<1> DEFINE m == Given(l, id)
<1>1. /\ DOMAIN l = 1..Len(l)
      /\ \A n \in 1..Len(l) : IsItem(l[n])
  BY ListHas
<1>2. DOMAIN m = DOMAIN l /\ m = [n \in DOMAIN l |-> m[n]] /\ \A n \in DOMAIN l : m[n] = GivenTo(l[n], id)
  BY GivenList DEF Given
<1> HIDE DEF m
<1>3. ASSUME NEW F, "type" \in F, "owner" \in F, KeptOf(F, l) = l
      PROVE  KeptOf(F, m) = m
  <2>1. \A n \in DOMAIN l : Part(F, l[n]) = l[n]
    <3>1. \A n \in DOMAIN l : KeptOf(F, l)[n] = Part(F, l[n])
      BY DEF KeptOf
    <3> QED
      BY <1>3, <3>1
  <2>2. \A n \in DOMAIN l : Part(F, m[n]) = m[n]
    <3> TAKE n \in DOMAIN l
    <3>1. IsItem(l[n]) /\ Part(F, l[n]) = l[n] /\ m[n] = GivenTo(l[n], id)
      BY <1>1, <1>2, <2>1
    <3> QED
      BY <1>3, <3>1, GivenItem
  <2> QED
    BY <1>2, <2>2 DEF KeptOf
<1>4. "type" \in TestedFields \cap ActionFields /\ "owner" \in TestedFields \cap ActionFields
  BY DEF TestedFields, ActionFields
<1>5. KeptTests(l) = l => KeptTests(m) = m
  BY <1>3, <1>4 DEF KeptTests, KeptOf, Part
<1>6. KeptActions(l) = l => KeptActions(m) = m
  BY <1>3, <1>4 DEF KeptActions, KeptOf, Part
<1> QED
  BY <1>5, <1>6 DEF m

(***************************************************************************)
(* Lists and documents.                                                    *)
(***************************************************************************)

(* Empty lists are lists, and made for anyone. *)
LEMMA NoListsOK == ListsOK(NoLists) /\ \A who : MadeFor(NoLists, who)
<1>1. Range(<<>>) = {} /\ <<>> \in Seq({})
  BY DEF Range
<1>2. IsList(<<>>)
  BY <1>1 DEF IsList
<1> QED
  BY <1>1, <1>2 DEF ListsOK, NoLists, MadeFor, Everything

(* What the server keeps of lists is a document, made for those they were made for. *)
LEMMA KeptIs ==
  ASSUME NEW l, ListsOK(l), NEW name, NEW enabled
  PROVE  LET d == Kept(name, enabled, l)
         IN  /\ DocOK(d) /\ d.name = name /\ d.enabled = enabled
             /\ \A who : MadeFor(l, who) => MadeFor(Lists(d), who)
<1> DEFINE d == Kept(name, enabled, l)
           k == Lists(d)
<1>1. /\ d.name = name /\ d.enabled = enabled
      /\ k = [triggers |-> KeptTests(l.triggers), conditions |-> KeptTests(l.conditions),
              actions |-> KeptActions(l.actions)]
  BY DEF Kept, Lists
<1>2. d = [name |-> name, enabled |-> enabled, triggers |-> KeptTests(l.triggers),
           conditions |-> KeptTests(l.conditions), actions |-> KeptActions(l.actions)]
  BY DEF Kept
<1>3. /\ IsList(l.triggers) /\ IsList(l.conditions) /\ IsList(l.actions)
      /\ \A i \in Range(l.actions) : CommandOK(i)
  BY DEF ListsOK
<1> HIDE DEF d, k
<1>4. /\ IsList(k.triggers) /\ IsList(k.conditions) /\ IsList(k.actions)
      /\ KeptTests(k.triggers) = k.triggers /\ KeptTests(k.conditions) = k.conditions
      /\ KeptActions(k.actions) = k.actions
      /\ \A i \in Range(k.actions) : CommandOK(i)
  BY <1>1, <1>3, KeptTestsIs, KeptActionsIs
<1>5. ListsOK(k)
  BY <1>1, <1>4 DEF ListsOK
<1>6. Kept(d.name, d.enabled, k) = d
  BY <1>1, <1>2, <1>4 DEF Kept
<1>7. ASSUME NEW who, MadeFor(l, who) PROVE MadeFor(k, who)
  <2>1. \A i \in Range(k.triggers) : i.owner = who
    BY <1>1, <1>3, <1>7, KeptTestsIs DEF MadeFor, Everything
  <2>2. \A i \in Range(k.conditions) : i.owner = who
    BY <1>1, <1>3, <1>7, KeptTestsIs DEF MadeFor, Everything
  <2>3. \A i \in Range(k.actions) : i.owner = who
    BY <1>1, <1>3, <1>7, KeptActionsIs DEF MadeFor, Everything
  <2> QED
    BY <2>1, <2>2, <2>3 DEF MadeFor, Everything
<1> QED
  BY <1>1, <1>5, <1>6, <1>7 DEF DocOK, d, k

(* A document is what the server keeps of it, list by list. *)
LEMMA DocIs ==
  ASSUME NEW d, DocOK(d)
  PROVE  /\ d = [name |-> d.name, enabled |-> d.enabled, triggers |-> d.triggers,
                 conditions |-> d.conditions, actions |-> d.actions]
         /\ IsList(d.triggers) /\ IsList(d.conditions) /\ IsList(d.actions)
         /\ KeptTests(d.triggers) = d.triggers /\ KeptTests(d.conditions) = d.conditions
         /\ KeptActions(d.actions) = d.actions
         /\ \A i \in Range(d.actions) : CommandOK(i)
<1>1. Lists(d).triggers = d.triggers /\ Lists(d).conditions = d.conditions /\ Lists(d).actions = d.actions
  BY DEF Lists
<1>2. d = [name |-> d.name, enabled |-> d.enabled, triggers |-> KeptTests(d.triggers),
           conditions |-> KeptTests(d.conditions), actions |-> KeptActions(d.actions)]
  BY <1>1 DEF DocOK, Kept
<1>3. /\ KeptTests(d.triggers) = d.triggers /\ KeptTests(d.conditions) = d.conditions
      /\ KeptActions(d.actions) = d.actions
  BY <1>2
<1> QED
  BY <1>1, <1>2, <1>3 DEF DocOK, ListsOK

(* What the server keeps unchanged is a document. *)
LEMMA IsDoc ==
  ASSUME NEW d,
         d = [name |-> d.name, enabled |-> d.enabled, triggers |-> d.triggers,
              conditions |-> d.conditions, actions |-> d.actions],
         IsList(d.triggers), IsList(d.conditions), IsList(d.actions),
         KeptTests(d.triggers) = d.triggers, KeptTests(d.conditions) = d.conditions,
         KeptActions(d.actions) = d.actions,
         \A i \in Range(d.actions) : CommandOK(i)
  PROVE  DocOK(d)
<1>1. Lists(d).triggers = d.triggers /\ Lists(d).conditions = d.conditions /\ Lists(d).actions = d.actions
  BY DEF Lists
<1>2. ListsOK(Lists(d))
  BY DEF Lists, ListsOK
<1>3. d = Kept(d.name, d.enabled, Lists(d))
  BY <1>1 DEF Kept
<1> QED
  BY <1>2, <1>3 DEF DocOK

(* Only the box of a document is changed. *)
LEMMA DocTicked ==
  ASSUME NEW d, DocOK(d), NEW e
  PROVE  LET x == [d EXCEPT !.enabled = e]
         IN  DocOK(x) /\ x.enabled = e /\ Lists(x) = Lists(d) /\ x.name = d.name
             /\ x = Kept(d.name, e, Lists(d))
<1> DEFINE x == [d EXCEPT !.enabled = e]
<1>1. x = [name |-> d.name, enabled |-> e, triggers |-> d.triggers,
           conditions |-> d.conditions, actions |-> d.actions]
  BY DocIs
<1> HIDE DEF x
<1>2. /\ x.name = d.name /\ x.enabled = e /\ x.triggers = d.triggers
      /\ x.conditions = d.conditions /\ x.actions = d.actions
  BY <1>1
<1>3. DocOK(x)
  BY <1>1, <1>2, DocIs, IsDoc
<1>4. Lists(x) = Lists(d)
  BY <1>2 DEF Lists
<1> QED
  BY <1>2, <1>3, <1>4 DEF DocOK, x

(* A document whose owners are set is a document, and the new automation's. *)
LEMMA GivenDocIs ==
  ASSUME NEW d, DocOK(d), NEW id
  PROVE  LET x == GivenDoc(d, id)
         IN  /\ DocOK(x) /\ x.name = d.name /\ x.enabled = d.enabled
             /\ MadeFor(Lists(d), New) => MadeFor(Lists(x), id)
<1> DEFINE x == GivenDoc(d, id)
<1>1. x = [name |-> d.name, enabled |-> d.enabled, triggers |-> Given(d.triggers, id),
           conditions |-> Given(d.conditions, id), actions |-> Given(d.actions, id)]
  BY DEF GivenDoc
<1> HIDE DEF x
<1>2. /\ x.name = d.name /\ x.enabled = d.enabled /\ x.triggers = Given(d.triggers, id)
      /\ x.conditions = Given(d.conditions, id) /\ x.actions = Given(d.actions, id)
  BY <1>1
<1>3. /\ IsList(x.triggers) /\ IsList(x.conditions) /\ IsList(x.actions)
      /\ KeptTests(x.triggers) = x.triggers /\ KeptTests(x.conditions) = x.conditions
      /\ KeptActions(x.actions) = x.actions
  BY <1>2, DocIs, GivenList, GivenKept
<1>a. "type" \in {"type", "owner"} /\ "owner" \in {"type", "owner"}
  OBVIOUS
<1>4. ASSUME NEW i \in Range(x.actions) PROVE CommandOK(i)
  <2>1. IsList(d.actions) /\ \A j \in Range(d.actions) : CommandOK(j)
    BY DocIs
  <2>2. PICK j \in Range(d.actions) : i = GivenTo(j, id)
    BY <1>2, <2>1, GivenList
  <2>3. IsItem(j) /\ CommandOK(j)
    BY <2>1 DEF IsList
  <2> QED
    BY <1>a, <2>2, <2>3, GivenItem
<1>5. DocOK(x)
  BY <1>1, <1>2, <1>3, <1>4, IsDoc
<1>6. ASSUME MadeFor(Lists(d), New) PROVE MadeFor(Lists(x), id)
  <2>1. ASSUME NEW l, IsList(l), \A j \in Range(l) : j.owner = New, NEW i \in Range(Given(l, id))
        PROVE  i.owner = id
    <3>1. PICK j \in Range(l) : i = GivenTo(j, id)
      BY <2>1, GivenList
    <3>2. IsItem(j) /\ j.owner = New
      BY <2>1 DEF IsList
    <3> QED
      BY <3>1, <3>2, <1>a, GivenItem
  <2>2. \A j \in Range(d.triggers) \cup Range(d.conditions) \cup Range(d.actions) : j.owner = New
    BY <1>6 DEF MadeFor, Everything, Lists
  <2>3. \A i \in Range(x.triggers) \cup Range(x.conditions) \cup Range(x.actions) : i.owner = id
    BY <1>2, <2>1, <2>2, DocIs
  <2> QED
    BY <2>3 DEF MadeFor, Everything, Lists
<1> QED
  BY <1>2, <1>5, <1>6 DEF x

(***************************************************************************)
(* The items of the canvas.                                                *)
(***************************************************************************)

Ascending(s) == \A i, j \in DOMAIN s : i < j => s[i] < s[j]

(* A set of numbers has a least one. *)
LEMMA Least == ASSUME NEW T \in SUBSET Nat, T # {} PROVE \E t \in T : \A x \in T : t <= x
<1> DEFINE R == OpToRel(<, Nat)
<1>1. IsWellFoundedOn(R, Nat)
  BY NatLessThanWellFounded
<1>2. \A x, y \in Nat : x < y => <<x, y>> \in R
  BY DEF OpToRel
<1> HIDE DEF R
<1>3. \E t \in T : \A x \in T : ~(<<x, t>> \in R)
  BY <1>1, WFMin
<1>4. PICK t \in T : \A x \in T : ~(<<x, t>> \in R)
  BY <1>3
<1>5. ASSUME NEW x \in T PROVE t <= x
  <2>1. ~(x < t)
    BY <1>2, <1>4
  <2> QED
    BY <2>1
<1> QED
  BY <1>5

(* A finite set of numbers has an order: by its smallest counterexample. *)
LEMMA InOrderIs ==
  ASSUME NEW S \in SUBSET Nat, IsFiniteSet(S)
  PROVE  /\ InOrder(S) \in [1..Cardinality(S) -> S]
         /\ Ascending(InOrder(S))
<1> DEFINE Sortable(T) == \E s \in [1..Cardinality(T) -> T] : Ascending(s)
           Bad == {n \in Nat : \E T \in SUBSET Nat : IsFiniteSet(T) /\ Cardinality(T) = n /\ ~Sortable(T)}
<1>1. Bad = {}
  <2>1. SUFFICES ASSUME Bad # {} PROVE FALSE
    OBVIOUS
  <2>2. PICK m \in Bad : \A n \in Bad : m <= n
    BY <2>1, Least
  <2>3. PICK T \in SUBSET Nat : IsFiniteSet(T) /\ Cardinality(T) = m /\ ~Sortable(T)
    BY <2>2
  <2>4. CASE T = {}
    <3>1. m = 0
      BY <2>3, <2>4, FS_EmptySet
    <3>2. [i \in 1..0 |-> 0] \in [1..0 -> {}]
      OBVIOUS
    <3>3. Ascending([i \in 1..0 |-> 0])
      BY DEF Ascending
    <3> QED
      BY <2>3, <2>4, <3>1, <3>2, <3>3
  <2>5. CASE T # {}
    <3>1. PICK t \in T : \A x \in T : t <= x
      BY <2>3, <2>5, Least
    <3> DEFINE U == T \ {t}
    <3>2. IsFiniteSet(U) /\ Cardinality(U) = m - 1 /\ m \in Nat \ {0} /\ U \in SUBSET Nat
      BY <2>3, <2>5, FS_RemoveElement, FS_EmptySet, FS_CardinalityType
    <3>3. m - 1 \notin Bad
      BY <2>2, <3>2
    <3>4. Sortable(U)
      BY <3>2, <3>3
    <3>5. PICK u \in [1..m - 1 -> U] : Ascending(u)
      BY <3>2, <3>4
    <3> HIDE DEF U
    <3> DEFINE s == [i \in 1..m |-> IF i = 1 THEN t ELSE u[i - 1]]
    <3>6. s \in [1..m -> T]
      BY <3>2, <3>5 DEF U
    <3>7. ASSUME NEW i \in 1..m, NEW j \in 1..m, i < j PROVE s[i] < s[j]
      <4>1. j - 1 \in 1..m - 1 /\ s[j] = u[j - 1]
        BY <3>2, <3>7
      <4>2. u[j - 1] \in U /\ u[j - 1] \in Nat /\ t < u[j - 1]
        <5>1. u[j - 1] \in U
          BY <3>5, <4>1
        <5>2. u[j - 1] \in T \ {t} /\ u[j - 1] \in Nat
          BY <3>2, <5>1 DEF U
        <5>3. t \in Nat /\ t <= u[j - 1] /\ t # u[j - 1]
          BY <3>1, <5>2
        <5> QED
          BY <5>1, <5>2, <5>3
      <4>3. CASE i = 1
        BY <4>1, <4>2, <4>3
      <4>4. CASE i # 1
        <5>1. i - 1 \in 1..m - 1 /\ i - 1 < j - 1 /\ s[i] = u[i - 1]
          BY <3>2, <3>7, <4>4
        <5> QED
          BY <3>5, <4>1, <5>1 DEF Ascending
      <4> QED
        BY <4>3, <4>4
    <3>8. Ascending(s)
      BY <3>7 DEF Ascending
    <3> QED
      BY <2>3, <3>6, <3>8
  <2> QED
    BY <2>4, <2>5
<1>2. Cardinality(S) \in Nat
  BY FS_CardinalityType
<1>3. Sortable(S)
  BY <1>1, <1>2
<1>4. \E s \in [1..Cardinality(S) -> S] : \A i, j \in DOMAIN s : i < j => s[i] < s[j]
  BY <1>3 DEF Ascending
<1> QED
  BY <1>4 DEF InOrder, Ascending

(* An item that is given an owner has the fields it had. *)
LEMMA OwnedIs ==
  ASSUME NEW item, "type" \in DOMAIN item, NEW who
  PROVE  LET x == Owned(item, who)
         IN  /\ IsItem(x) /\ x.owner = who /\ x.type = item.type
             /\ DOMAIN x = DOMAIN item \cup {"owner"}
             /\ \A k \in DOMAIN item : k # "owner" => x[k] = item[k]
  BY DEF Owned, IsItem, IsFunction

(* The designer makes a trigger with a type. *)
LEMMA TriggerMade ==
  ASSUME NEW type \in Triggers, NEW d PROVE "type" \in DOMAIN Trigger(type, d)
<1>1. type \in {"deviceStateTrigger", "natsEventTrigger", "timeTrigger", "scheduleTrigger",
                "sunriseTrigger", "sunsetTrigger", "intervalTrigger", "stateChangeTrigger"}
  BY DEF Triggers
<1> QED
  BY <1>1 DEF Trigger

(* The designer makes a condition with a type. *)
LEMMA ConditionMade ==
  ASSUME NEW type \in Conditions \ Unconverted, NEW d PROVE "type" \in DOMAIN Condition(type, d)
<1>1. type \in {"deviceStateCondition", "timeCondition", "dayOfWeekCondition"}
  BY DEF Conditions, Unconverted
<1> QED
  BY <1>1 DEF Condition

(* The nodes of states make items with a type. *)
LEMMA StateItemMade ==
  ASSUME NEW type \in StateNodes, NEW d
  PROVE  "type" \in DOMAIN StateItem(type, d) /\ StateItem(type, d).type # "device_control"
<1>1. type \in {"getStateNode", "setStateNode", "watchStateNode", "compareStateNode",
                "incrementStateNode", "appendStateNode"}
  BY DEF StateNodes
<1> QED
  BY <1>1 DEF StateItem

(* The designer makes an action with a type, and no command of the builder. *)
LEMMA ActionMade ==
  ASSUME NEW type \in Actions \ Unconverted, NEW d
  PROVE  "type" \in DOMAIN Action(type, d) /\ Action(type, d).type # "device_control"
<1>1. type \in {"deviceAction", "publishEventAction", "updateStateAction", "sceneAction",
                "notificationAction", "delayAction"}
  BY DEF Actions, Unconverted
<1> QED
  BY <1>1 DEF Action

(* A node that is converted makes an item with a type, and no command of the builder. *)
LEMMA ItemMade ==
  ASSUME NEW type, Kind(type) # "none", NEW d
  PROVE  /\ "type" \in DOMAIN Item(type, d)
         /\ Kind(type) = "actions" => Item(type, d).type # "device_control"
<1>1. \/ type \in Triggers /\ Kind(type) = "triggers"
      \/ type \in Conditions \ Unconverted /\ Kind(type) = "conditions"
      \/ type \in StateNodes
      \/ type \in Actions \ Unconverted
  BY DEF Kind, StateNodes
<1>2. /\ \A t \in Triggers : t \notin Conditions /\ t \notin StateNodes /\ t \notin Actions
      /\ \A t \in Conditions : t \notin StateNodes /\ t \notin Actions
      /\ \A t \in StateNodes : t \notin Actions
  BY DEF Triggers, Conditions, StateNodes, Actions
<1>3. CASE type \in Triggers /\ Kind(type) = "triggers"
  <2>1. Item(type, d) = Trigger(type, d)
    BY <1>2, <1>3 DEF Item
  <2> QED
    BY <1>3, <2>1, TriggerMade
<1>4. CASE type \in Conditions \ Unconverted /\ Kind(type) = "conditions"
  <2>1. Item(type, d) = Condition(type, d)
    BY <1>2, <1>4 DEF Item
  <2> QED
    BY <1>4, <2>1, ConditionMade
<1>5. CASE type \in StateNodes
  <2>1. Item(type, d) = StateItem(type, d)
    BY <1>2, <1>5 DEF Item
  <2> QED
    BY <1>5, <2>1, StateItemMade
<1>6. CASE type \in Actions \ Unconverted
  <2>1. Item(type, d) = Action(type, d)
    BY <1>2, <1>6 DEF Item
  <2> QED
    BY <1>6, <2>1, ActionMade
<1> QED
  BY <1>1, <1>3, <1>4, <1>5, <1>6

(* The items of the canvas are those of its nodes. *)
LEMMA ItemsAre ==
  ASSUME nodes \in SUBSET Nat, IsFiniteSet(nodes), NEW kind, kind # "none"
  PROVE  /\ IsList(Items(kind))
         /\ \A i \in Range(Items(kind)) : \E n \in nodes : i.owner = node[n].owner
         /\ kind = "actions" => \A i \in Range(Items(kind)) : CommandOK(i)
<1> DEFINE S == {n \in nodes : Kind(node[n].type) = kind}
           order == InOrder(S)
           made(n) == Owned(Item(node[n].type, node[n].data), node[n].owner)
           l == Items(kind)
<1>1. S \in SUBSET Nat /\ IsFiniteSet(S)
  BY FS_Subset
<1>2. order \in [1..Cardinality(S) -> S] /\ Cardinality(S) \in Nat
  BY <1>1, InOrderIs, FS_CardinalityType
<1>3. l = [i \in DOMAIN order |-> made(order[i])]
  BY DEF Items
<1>4. ASSUME NEW n \in S
      PROVE  IsItem(made(n)) /\ made(n).owner = node[n].owner /\ (kind = "actions" => CommandOK(made(n)))
  <2> DEFINE item == Item(node[n].type, node[n].data)
  <2>1. Kind(node[n].type) = kind
    OBVIOUS
  <2>2. "type" \in DOMAIN item /\ (kind = "actions" => item.type # "device_control")
    BY <2>1, ItemMade
  <2> HIDE DEF item
  <2>3. /\ IsItem(Owned(item, node[n].owner)) /\ Owned(item, node[n].owner).owner = node[n].owner
        /\ Owned(item, node[n].owner).type = item.type
    BY <2>2, OwnedIs
  <2>4. made(n) = Owned(item, node[n].owner)
    BY DEF item
  <2> QED
    BY <2>2, <2>3, <2>4 DEF CommandOK
<1> HIDE DEF made, order, S
<1>5. DOMAIN l = 1..Cardinality(S) /\ IsFunction(l) /\ \A i \in 1..Cardinality(S) : l[i] = made(order[i]) /\ order[i] \in S
  BY <1>2, <1>3 DEF IsFunction
<1> HIDE DEF l
<1>6. \A i \in 1..Cardinality(S) : IsItem(l[i])
  BY <1>4, <1>5
<1>7. IsList(l) /\ Range(l) = {l[i] : i \in 1..Cardinality(S)}
  BY <1>2, <1>5, <1>6, ListIs
<1>8. ASSUME NEW x \in Range(l) PROVE \E n \in nodes : x.owner = node[n].owner /\ (kind = "actions" => CommandOK(x))
  <2>1. PICK i \in 1..Cardinality(S) : x = l[i]
    BY <1>7
  <2>2. x = made(order[i]) /\ order[i] \in S
    BY <1>5, <2>1
  <2>3. order[i] \in nodes
    BY <2>2 DEF S
  <2> QED
    BY <1>4, <2>2, <2>3
<1> QED
  BY <1>7, <1>8 DEF l

(***************************************************************************)
(* The items of the builder's dialogs.                                     *)
(***************************************************************************)

(* The builder's dialogs make items with a type, and commands with their data. *)
LEMMA DialogMade ==
  ASSUME NEW type, NEW in
  PROVE  /\ type \in TriggerTypes => "type" \in DOMAIN SavedTrigger(type, in)
         /\ type \in ConditionTypes => "type" \in DOMAIN SavedCondition(type, in)
         /\ type \in ActionTypes =>
              /\ "type" \in DOMAIN SavedAction(type, in)
              /\ CommandOK(SavedAction(type, in))
<1>1. ASSUME type \in TriggerTypes PROVE "type" \in DOMAIN SavedTrigger(type, in)
  BY <1>1 DEF TriggerTypes, SavedTrigger
<1>2. ASSUME type \in ConditionTypes PROVE "type" \in DOMAIN SavedCondition(type, in)
  BY <1>2 DEF ConditionTypes, SavedCondition
<1>3. ASSUME type \in ActionTypes
      PROVE  "type" \in DOMAIN SavedAction(type, in) /\ CommandOK(SavedAction(type, in))
  <2>1. CASE type = "device_control" /\ Parameter(in.command) = "none"
    <3>1. SavedAction(type, in) = [type |-> type, device_id |-> in.device, command |-> in.command]
      BY <2>1 DEF SavedAction
    <3>2. in.command \notin DataCommands
      BY <2>1 DEF Parameter, DataCommands
    <3> QED
      BY <3>1, <3>2 DEF CommandOK
  <2>2. CASE type = "device_control" /\ Parameter(in.command) # "none"
    <3>1. SavedAction(type, in) = [type |-> type, device_id |-> in.device, command |-> in.command,
                                   data |-> in.parameter]
      BY <2>2 DEF SavedAction
    <3> QED
      BY <3>1 DEF CommandOK
  <2>3. CASE type # "device_control"
    <3>1. "type" \in DOMAIN SavedAction(type, in) /\ SavedAction(type, in).type = type
      BY <1>3, <2>3 DEF ActionTypes, SavedAction
    <3> QED
      BY <2>3, <3>1 DEF CommandOK
  <2> QED
    BY <2>1, <2>2, <2>3
<1> QED
  BY <1>1, <1>2, <1>3

(***************************************************************************)
(* Types.                                                                  *)
(***************************************************************************)

DocsOK(docs) ==
  /\ docs = [id \in Ids |-> docs[id]]
  /\ \A id \in Ids : docs[id] # None => DocOK(docs[id])

(* An automation object, or the data of a save. *)
Holder(x) ==
  /\ IsFunction(x) /\ {"name", "enabled", "lists", "shared", "flow"} \subseteq DOMAIN x
  /\ ListsOK(x.lists)

ObjOK(o) == Holder(o) /\ "id" \in DOMAIN o /\ o.id \in Ids \cup {None}

RequestOK(r) ==
  /\ IsFunction(r) /\ {"op", "id", "status", "data", "doc", "strayed"} \subseteq DOMAIN r
  /\ r.op \in {"create", "update", "enable", "disable", "delete"}
  /\ r.status \in {"sent", "ok", "failed"}
  /\ r.id \in Ids \cup {None}
  /\ r.op # "create" \/ r.status = "ok" => r.id \in Ids
  /\ IsSave(r) => /\ Holder(r.data) /\ DocOK(r.doc)
                  /\ r.doc.name = r.data.name /\ r.doc.enabled = r.data.enabled

RequestsOK == \A r \in requests : RequestOK(r)

ServerOK == DocsOK(server) /\ (list # None => DocsOK(list))

CanvasOK ==
  /\ nextNodeId \in 1..MaxNodes + 1
  /\ nodes \subseteq 1..nextNodeId - 1
  /\ node = [n \in 1..MaxNodes |-> node[n]]

PageOK ==
  /\ automations \in [Ids -> Objs \cup {None}]
  /\ objs = [o \in {Blank} \cup Objs |-> objs[o]]
  /\ \A o \in {Blank} \cup Objs : ObjOK(objs[o])
  /\ selected \in {Blank} \cup Objs
  /\ ListsOK(builder)

(* Nothing is ever assigned to the literal of a new automation. *)
BlankOK == objs[Blank].lists = NoLists /\ ~objs[Blank].shared /\ objs[Blank].flow = None

ModalOK ==
  /\ dialog # "none" => body = "builder" /\ dialog \in {"triggers", "conditions", "actions"}
  /\ body = "builder" => footer = "builder"
  /\ body = "empty" => ~CanDraw(builder.triggers, builder.conditions, builder.actions)

(* The objects in use are of the right automation. *)
Linked ==
  /\ \A id \in Ids : automations[id] # None => objs[automations[id]].id = id
  /\ selected # Blank => objs[selected].id \in Ids

(* The numbers of the nodes of a flow have been given out. *)
Below(x) == x.flow # None => x.flow.nodes \subseteq 1..nextNodeId - 1
FlowsBelow ==
  /\ \A o \in {Blank} \cup Objs : Below(objs[o])
  /\ \A r \in requests : IsSave(r) => Below(r.data)

TypeInv ==
  ServerOK /\ CanvasOK /\ PageOK /\ BlankOK /\ ModalOK /\ Linked /\ RequestsOK /\ FlowsBelow

(* The bounds are numbers; null and the literal of a new automation are no objects. *)
LEMMA Bounds == MaxNodes \in Nat /\ MaxItems \in Nat /\ Blank \notin Objs /\ None \notin Objs
  BY EditorAssumption DEF Blank

(* The page begins empty, before its first list. *)
LEMMA TypeInit == Init => TypeInv
<1> SUFFICES ASSUME Init PROVE TypeInv
  OBVIOUS
<1>1. DocsOK(server) /\ list = server
  <2>1. \A id \in DOMAIN Stored : DocOK(Stored[id])
    BY StoredAssumption
  <2>2. ASSUME NEW id \in Ids, server[id] # None PROVE DocOK(server[id])
    BY <2>1, <2>2 DEF Init
  <2> QED
    BY <2>2 DEF Init, DocsOK
<1>2. ObjOK(NewObject)
  BY NoListsOK DEF ObjOK, Holder, NewObject, IsFunction
<1>3. PageOK
  BY <1>2, NoListsOK DEF Init, PageOK
<1>4. BlankOK
  BY DEF Init, BlankOK, NewObject
<1>5. CanvasOK
  BY Bounds DEF Init, CanvasOK
<1>6. ModalOK /\ Linked
  BY DEF Init, ModalOK, Linked
<1> QED
  BY <1>1, <1>3, <1>4, <1>5, <1>6 DEF Init, TypeInv, ServerOK, RequestsOK, FlowsBelow, Below, NewObject

(***************************************************************************)
(* Leaving arrays to those who share them.                                 *)
(***************************************************************************)

(* An object has lists, its own or the builder's. *)
LEMMA ListsOfOK == ASSUME PageOK, NEW x, Holder(x) PROVE ListsOK(ListsOf(x))
  BY DEF PageOK, Holder, ListsOf

(* An object that is left the builder's arrays has them as its own. *)
LEMMA LeaveListsIs ==
  ASSUME PageOK, NEW x, Holder(x)
  PROVE  LET y == LeaveLists(x)
         IN  /\ Holder(y) /\ DOMAIN y = DOMAIN x /\ ~y.shared /\ y.lists = ListsOf(x)
             /\ y.name = x.name /\ y.enabled = x.enabled /\ y.flow = x.flow
             /\ "id" \in DOMAIN x => y.id = x.id
<1>1. ListsOK(ListsOf(x))
  BY ListsOfOK
<1> QED
  BY <1>1 DEF LeaveLists, Holder, IsFunction

(* An object that is left the designer's connections changes in its flow only. *)
LEMMA LeaveConnectionsIs ==
  ASSUME PageOK, NEW x, Holder(x)
  PROVE  LET y == LeaveConnections(x)
         IN  /\ Holder(y) /\ DOMAIN y = DOMAIN x /\ y.shared = x.shared /\ y.lists = x.lists
             /\ y.name = x.name /\ y.enabled = x.enabled /\ y.flow = LeaveFlow(x.flow)
             /\ "id" \in DOMAIN x => y.id = x.id
  BY DEF LeaveConnections, Holder, IsFunction

(* q is r but for its data. *)
SameCall(q, r) ==
  /\ q.op = r.op /\ q.id = r.id /\ q.status = r.status /\ q.doc = r.doc /\ q.strayed = r.strayed

LeftBy(q, r, data) == SameCall(q, r) /\ RequestOK(q) /\ (IsSave(r) => q.data = data)

(* When the builder takes new arrays, objects and requests change in lists only. *)
LEMMA LeavingLists ==
  ASSUME TypeInv, Everywhere(LeaveLists)
  PROVE  /\ objs' = [o \in {Blank} \cup Objs |-> objs'[o]]
         /\ \A o \in {Blank} \cup Objs : objs'[o] = LeaveLists(objs[o])
         /\ \A q \in requests' : \E r \in requests : LeftBy(q, r, LeaveLists(r.data))
         /\ \A r \in requests : \E q \in requests' : LeftBy(q, r, LeaveLists(r.data))
<1>1. /\ objs' = [o \in {Blank} \cup Objs |-> objs'[o]]
      /\ \A o \in {Blank} \cup Objs : objs'[o] = LeaveLists(objs[o])
  BY DEF Everywhere, TypeInv, PageOK
<1> DEFINE left(r) == IF IsSave(r) THEN [r EXCEPT !.data = LeaveLists(r.data)] ELSE r
<1>2. requests' = {left(r) : r \in requests}
  BY DEF Everywhere
<1>3. ASSUME NEW r \in requests PROVE LeftBy(left(r), r, LeaveLists(r.data))
  <2>1. RequestOK(r) /\ PageOK
    BY DEF TypeInv, RequestsOK
  <2>2. CASE ~IsSave(r)
    BY <2>1, <2>2 DEF LeftBy, SameCall
  <2>3. CASE IsSave(r)
    <3> DEFINE d == LeaveLists(r.data)
    <3>1. Holder(d) /\ d.name = r.data.name /\ d.enabled = r.data.enabled
      BY <2>1, <2>3, LeaveListsIs DEF RequestOK
    <3> HIDE DEF d
    <3>2. left(r) = [r EXCEPT !.data = d]
      BY <2>3 DEF d
    <3>3. SameCall(left(r), r) /\ left(r).data = d /\ DOMAIN left(r) = DOMAIN r /\ IsFunction(left(r))
      BY <2>1, <3>2 DEF RequestOK, SameCall, IsFunction
    <3> HIDE DEF left
    <3>4. RequestOK(left(r))
      BY <2>1, <3>1, <3>3 DEF RequestOK, SameCall, IsSave
    <3> QED
      BY <3>3, <3>4 DEF LeftBy, d
  <2> QED
    BY <2>2, <2>3
<1> HIDE DEF left
<1> QED
  BY <1>1, <1>2, <1>3

(* When the designer takes a new array, objects and requests change in flows only. *)
LEMMA LeavingConnections ==
  ASSUME TypeInv, Everywhere(LeaveConnections)
  PROVE  /\ objs' = [o \in {Blank} \cup Objs |-> objs'[o]]
         /\ \A o \in {Blank} \cup Objs : objs'[o] = LeaveConnections(objs[o])
         /\ \A q \in requests' : \E r \in requests : LeftBy(q, r, LeaveConnections(r.data))
         /\ \A r \in requests : \E q \in requests' : LeftBy(q, r, LeaveConnections(r.data))
<1>1. /\ objs' = [o \in {Blank} \cup Objs |-> objs'[o]]
      /\ \A o \in {Blank} \cup Objs : objs'[o] = LeaveConnections(objs[o])
  BY DEF Everywhere, TypeInv, PageOK
<1> DEFINE left(r) == IF IsSave(r) THEN [r EXCEPT !.data = LeaveConnections(r.data)] ELSE r
<1>2. requests' = {left(r) : r \in requests}
  BY DEF Everywhere
<1>3. ASSUME NEW r \in requests PROVE LeftBy(left(r), r, LeaveConnections(r.data))
  <2>1. RequestOK(r) /\ PageOK
    BY DEF TypeInv, RequestsOK
  <2>2. CASE ~IsSave(r)
    BY <2>1, <2>2 DEF LeftBy, SameCall
  <2>3. CASE IsSave(r)
    <3> DEFINE d == LeaveConnections(r.data)
    <3>1. Holder(d) /\ d.name = r.data.name /\ d.enabled = r.data.enabled
      BY <2>1, <2>3, LeaveConnectionsIs DEF RequestOK
    <3> HIDE DEF d
    <3>2. left(r) = [r EXCEPT !.data = d]
      BY <2>3 DEF d
    <3>3. SameCall(left(r), r) /\ left(r).data = d /\ DOMAIN left(r) = DOMAIN r /\ IsFunction(left(r))
      BY <2>1, <3>2 DEF RequestOK, SameCall, IsFunction
    <3> HIDE DEF left
    <3>4. RequestOK(left(r))
      BY <2>1, <3>1, <3>3 DEF RequestOK, SameCall, IsSave
    <3> QED
      BY <3>3, <3>4 DEF LeftBy, d
  <2> QED
    BY <2>2, <2>3
<1> HIDE DEF left
<1> QED
  BY <1>1, <1>2, <1>3

ObjsLike ==
  /\ objs' = [o \in {Blank} \cup Objs |-> objs'[o]]
  /\ \A o \in {Blank} \cup Objs : ObjOK(objs'[o]) /\ objs'[o].id = objs[o].id

(* Objects and requests are well formed after the builder took new arrays. *)
LEMMA ListsLeft ==
  ASSUME TypeInv, Everywhere(LeaveLists), nextNodeId' = nextNodeId
  PROVE  ObjsLike /\ BlankOK' /\ RequestsOK' /\ FlowsBelow'
<1>1. \A o \in {Blank} \cup Objs :
        /\ ObjOK(objs[o]) /\ ObjOK(LeaveLists(objs[o])) /\ LeaveLists(objs[o]).id = objs[o].id
        /\ LeaveLists(objs[o]).flow = objs[o].flow
        /\ LeaveLists(objs[o]).lists = ListsOf(objs[o]) /\ ~LeaveLists(objs[o]).shared
  BY LeaveListsIs DEF TypeInv, PageOK, ObjOK
<1>2. ObjsLike
  BY <1>1, LeavingLists DEF ObjsLike
<1>3. BlankOK'
  BY <1>1, LeavingLists DEF BlankOK, ListsOf, TypeInv
<1>4. RequestsOK'
  BY LeavingLists DEF RequestsOK, LeftBy
<1>5. FlowsBelow'
  <2>1. \A o \in {Blank} \cup Objs : Below(objs[o])'
    BY <1>1, LeavingLists DEF FlowsBelow, Below, TypeInv
  <2>2. ASSUME NEW q \in requests', IsSave(q) PROVE Below(q.data)'
    <3>1. PICK r \in requests : LeftBy(q, r, LeaveLists(r.data))
      BY LeavingLists
    <3>2. IsSave(r) /\ q.data = LeaveLists(r.data) /\ Holder(r.data) /\ Below(r.data)
      BY <2>2, <3>1 DEF LeftBy, SameCall, IsSave, TypeInv, RequestsOK, RequestOK, FlowsBelow
    <3>3. q.data.flow = r.data.flow
      BY <3>2, LeaveListsIs DEF TypeInv
    <3> QED
      BY <3>2, <3>3 DEF Below
  <2> QED
    BY <2>1, <2>2 DEF FlowsBelow
<1> QED
  BY <1>2, <1>3, <1>4, <1>5

(* Objects and requests are well formed after the designer took a new array. *)
LEMMA ConnectionsLeft ==
  ASSUME TypeInv, Everywhere(LeaveConnections), nextNodeId' = nextNodeId
  PROVE  ObjsLike /\ BlankOK' /\ RequestsOK' /\ FlowsBelow'
<1>1. \A o \in {Blank} \cup Objs :
        /\ ObjOK(objs[o]) /\ ObjOK(LeaveConnections(objs[o]))
        /\ LeaveConnections(objs[o]).id = objs[o].id
        /\ LeaveConnections(objs[o]).flow = LeaveFlow(objs[o].flow)
        /\ LeaveConnections(objs[o]).lists = objs[o].lists
        /\ LeaveConnections(objs[o]).shared = objs[o].shared
  BY LeaveConnectionsIs DEF TypeInv, PageOK, ObjOK
<1>2. ObjsLike
  BY <1>1, LeavingConnections DEF ObjsLike
<1>3. BlankOK'
  BY <1>1, LeavingConnections DEF BlankOK, LeaveFlow, TypeInv
<1>4. RequestsOK'
  BY LeavingConnections DEF RequestsOK, LeftBy
<1>5. FlowsBelow'
  <2>1. ASSUME NEW o \in {Blank} \cup Objs PROVE Below(objs[o])'
    <3>1. objs'[o].flow = LeaveFlow(objs[o].flow) /\ Below(objs[o])
      BY <1>1, LeavingConnections DEF FlowsBelow, TypeInv
    <3> QED
      BY <3>1 DEF Below, LeaveFlow
  <2>2. ASSUME NEW q \in requests', IsSave(q) PROVE Below(q.data)'
    <3>1. PICK r \in requests : LeftBy(q, r, LeaveConnections(r.data))
      BY LeavingConnections
    <3>2. IsSave(r) /\ q.data = LeaveConnections(r.data) /\ Holder(r.data) /\ Below(r.data)
      BY <2>2, <3>1 DEF LeftBy, SameCall, IsSave, TypeInv, RequestsOK, RequestOK, FlowsBelow
    <3>3. q.data.flow = LeaveFlow(r.data.flow)
      BY <3>2, LeaveConnectionsIs DEF TypeInv
    <3> QED
      BY <3>2, <3>3 DEF Below, LeaveFlow
  <2> QED
    BY <2>1, <2>2 DEF FlowsBelow
<1> QED
  BY <1>2, <1>3, <1>4, <1>5

(***************************************************************************)
(* Every step keeps the types.                                             *)
(***************************************************************************)

(* After a flow is loaded the next number is above those of its nodes. *)
LEMMA LoadFlowOK ==
  ASSUME TypeInv, NEW o \in {Blank} \cup Objs, objs[o].flow # None, LoadFlow(objs[o].flow)
  PROVE  nextNodeId' = nextNodeId /\ nodes' = objs[o].flow.nodes /\ nodes' \subseteq 1..nextNodeId - 1
<1>1. objs[o].flow.nodes \subseteq 1..nextNodeId - 1 /\ nextNodeId \in Nat
  BY Bounds DEF TypeInv, FlowsBelow, Below, CanvasOK
<1>2. ~ \E n \in objs[o].flow.nodes : n >= nextNodeId
  BY <1>1
<1> QED
  BY <1>1, <1>2 DEF LoadFlow, NextId

(* The modal opens with the designer for an object of the page, or for a new one. *)
LEMMA ShowReteDesignerOK ==
  ASSUME TypeInv, NEW o \in {Blank} \cup Objs, o = Blank \/ objs[o].id \in Ids, ShowReteDesigner(o)
  PROVE  TypeInv'
<1>1. /\ UNCHANGED <<serverVars, automations, node, builder, dialog>>
      /\ selected' = o /\ body' = "designer" /\ dialog = "none"
  BY DEF ShowReteDesigner, Free
<1>2. CanvasOK' /\ ObjsLike /\ BlankOK' /\ RequestsOK' /\ FlowsBelow'
  <2>1. CASE objs[o].flow # None /\ LoadFlow(objs[o].flow)
    <3>1. nextNodeId' = nextNodeId /\ nodes' \subseteq 1..nextNodeId - 1
      BY <2>1, LoadFlowOK
    <3> QED
      BY <1>1, <2>1, <3>1, ConnectionsLeft DEF TypeInv, CanvasOK, LoadFlow
  <2>2. CASE UNCHANGED <<nodes, nextNodeId, connections, objs, requests>>
    BY <1>1, <2>2 DEF TypeInv, CanvasOK, PageOK, BlankOK, RequestsOK, FlowsBelow, Below, ObjsLike
  <2> QED
    BY <2>1, <2>2 DEF ShowReteDesigner, InitDesigner
<1>3. ServerOK' /\ PageOK' /\ ModalOK'
  BY <1>1, <1>2 DEF TypeInv, ServerOK, serverVars, PageOK, ObjsLike, ModalOK
<1>4. Linked'
  BY <1>1, <1>2 DEF TypeInv, Linked, ObjsLike, PageOK
<1> QED
  BY <1>2, <1>3, <1>4 DEF TypeInv

(* The form builder starts from the lists of the automation, or cannot draw them. *)
LEMMA ShowTraditionalBuilderOK == ASSUME TypeInv, ShowTraditionalBuilder PROVE TypeInv'
<1>1. /\ UNCHANGED <<serverVars, automations, canvasVars, selected, dialog>>
      /\ dialog = "none"
      /\ builder' = ListsOf(objs[selected])
      /\ Everywhere(LeaveLists)
  BY DEF ShowTraditionalBuilder, InitLists
<1>2. nextNodeId' = nextNodeId
  BY <1>1 DEF canvasVars
<1>3. ObjsLike /\ BlankOK' /\ RequestsOK' /\ FlowsBelow'
  BY <1>1, <1>2, ListsLeft
<1>4. ListsOK(builder')
  BY <1>1, ListsOfOK DEF TypeInv, PageOK, ObjOK
<1>5. ServerOK' /\ CanvasOK' /\ PageOK'
  BY <1>1, <1>3, <1>4 DEF TypeInv, ServerOK, serverVars, CanvasOK, canvasVars, PageOK, ObjsLike
<1>6. ModalOK'
  BY <1>1 DEF ShowTraditionalBuilder, ModalOK
<1>7. Linked'
  BY <1>1, <1>3 DEF TypeInv, Linked, ObjsLike, PageOK
<1> QED
  BY <1>3, <1>5, <1>6, <1>7 DEF TypeInv

(* Closing the modal changes nothing else. *)
LEMMA HideModalOK == ASSUME TypeInv, HideModal PROVE TypeInv'
  BY DEF HideModal, serverVars, canvasVars, TypeInv, ServerOK, CanvasOK, PageOK, BlankOK, ModalOK,
         Linked, RequestsOK, FlowsBelow, Below

(* Opening and closing a dialog of the builder changes nothing else. *)
LEMMA DialogsOK ==
  ASSUME TypeInv, CloseDialog \/ \E kind \in DOMAIN NoLists : OpenDialog(kind)
  PROVE  TypeInv'
<1>1. DOMAIN NoLists = {"triggers", "conditions", "actions"}
  BY DEF NoLists
<1>2. /\ UNCHANGED <<serverVars, automations, objs, canvasVars, selected, builder, modalVars, requests>>
      /\ dialog' # "none" => body = "builder" /\ dialog' \in {"triggers", "conditions", "actions"}
  BY <1>1 DEF CloseDialog, OpenDialog
<1> QED
  BY <1>2 DEF serverVars, canvasVars, modalVars, TypeInv, ServerOK, CanvasOK, PageOK, BlankOK, ModalOK,
              Linked, RequestsOK, FlowsBelow, Below

(* What a step on the canvas has to keep. *)
LEMMA CanvasFrame ==
  ASSUME TypeInv, Canvas, CanvasOK', ObjsLike, BlankOK', RequestsOK', FlowsBelow'
  PROVE  TypeInv'
<1>1. UNCHANGED <<serverVars, automations, selected, builder, modalVars, dialog>>
  BY DEF Canvas
<1>2. ServerOK' /\ PageOK' /\ ModalOK'
  BY <1>1 DEF TypeInv, ServerOK, serverVars, PageOK, ObjsLike, ModalOK, modalVars
<1>3. Linked'
  BY <1>1 DEF TypeInv, Linked, ObjsLike, PageOK
<1> QED
  BY <1>2, <1>3 DEF TypeInv

(* Numbers below one are below a larger one. *)
LEMMA Further == ASSUME NEW a \in Nat, NEW b \in Nat, b >= a PROVE 1..a - 1 \subseteq 1..b - 1
  OBVIOUS

(* A step on the canvas that leaves objects and requests alone keeps their types. *)
LEMMA SameObjs ==
  ASSUME TypeInv, UNCHANGED <<objs, requests>>, nextNodeId' \in Nat, nextNodeId' >= nextNodeId
  PROVE  ObjsLike /\ BlankOK' /\ RequestsOK' /\ FlowsBelow'
<1>1. nextNodeId \in Nat
  BY Bounds DEF TypeInv, CanvasOK
<1>2. 1..nextNodeId - 1 \subseteq 1..nextNodeId' - 1
  BY <1>1, Further
<1>3. \A x : Below(x) => Below(x)'
  BY <1>2 DEF Below
<1>4. FlowsBelow'
  BY <1>3 DEF TypeInv, FlowsBelow, Below
<1> QED
  BY <1>4 DEF TypeInv, ObjsLike, PageOK, BlankOK, RequestsOK

(* A new node has the next number, and the number after it is next. *)
LEMMA AddNodeOK == ASSUME TypeInv, NEW type, AddNode(type) PROVE TypeInv'
<1>1. Canvas /\ UNCHANGED <<objs, requests>> /\ nextNodeId' = nextNodeId + 1 /\ nextNodeId <= MaxNodes
  BY DEF AddNode, Draw
<1>2. nextNodeId \in 1..MaxNodes + 1 /\ MaxNodes \in Nat
  BY Bounds DEF TypeInv, CanvasOK
<1>3. CanvasOK'
  <2>1. nodes' = nodes \cup {nextNodeId}
    BY DEF AddNode
  <2>2. node' = [n \in 1..MaxNodes |-> node'[n]]
    BY DEF AddNode, TypeInv, CanvasOK
  <2>3. nodes' \subseteq 1..nextNodeId' - 1
    BY <1>1, <1>2, <2>1 DEF TypeInv, CanvasOK
  <2> QED
    BY <1>1, <1>2, <2>2, <2>3 DEF CanvasOK
<1> QED
  BY <1>1, <1>2, <1>3, SameObjs, CanvasFrame

(* An edit changes the data of one node. *)
LEMMA EditNodeOK == ASSUME TypeInv, NEW n, EditNode(n) PROVE TypeInv'
<1>1. Canvas /\ UNCHANGED <<nodes, nextNodeId, objs, requests>>
  BY DEF EditNode, Draw
<1>2. nextNodeId \in Nat
  BY Bounds DEF TypeInv, CanvasOK
<1>3. \E v : node' = [node EXCEPT ![n] = v]
  BY DEF EditNode
<1>4. node' = [i \in 1..MaxNodes |-> node'[i]]
  BY <1>3 DEF TypeInv, CanvasOK
<1>5. CanvasOK'
  BY <1>1, <1>4 DEF TypeInv, CanvasOK
<1> QED
  BY <1>1, <1>2, <1>5, SameObjs, CanvasFrame

(* A connection that is drawn or deleted changes no node. *)
LEMMA ConnectOK ==
  ASSUME TypeInv, (\E n, m : Connect(n, m)) \/ (\E c : DeleteConnection(c))
  PROVE  TypeInv'
<1>1. Canvas /\ UNCHANGED <<node, nodes, nextNodeId, objs, requests>>
  BY DEF Connect, DeleteConnection
<1>2. nextNodeId \in Nat
  BY Bounds DEF TypeInv, CanvasOK
<1>3. CanvasOK'
  BY <1>1 DEF TypeInv, CanvasOK
<1> QED
  BY <1>1, <1>2, <1>3, SameObjs, CanvasFrame

(* A node that is deleted, or all of them, gives no number back. *)
LEMMA DeleteNodeOK ==
  ASSUME TypeInv, ClearAll \/ \E n : DeleteNode(n)
  PROVE  TypeInv'
<1>1. /\ Canvas /\ UNCHANGED <<node, nextNodeId>> /\ nodes' \subseteq nodes
      /\ Everywhere(LeaveConnections)
  BY DEF ClearAll, DeleteNode
<1>2. CanvasOK'
  BY <1>1 DEF TypeInv, CanvasOK
<1> QED
  BY <1>1, <1>2, ConnectionsLeft, CanvasFrame

(* What a change of the builder's lists has to keep. *)
LEMMA RenderFrame ==
  ASSUME TypeInv, Render, ListsOK(builder'), body = "builder", UNCHANGED dialog \/ dialog' = "none"
  PROVE  TypeInv'
<1>1. UNCHANGED <<serverVars, automations, objs, canvasVars, selected, modalVars, requests>>
  BY DEF Render
<1>2. ServerOK' /\ CanvasOK' /\ PageOK' /\ BlankOK'
  BY <1>1 DEF TypeInv, ServerOK, serverVars, CanvasOK, canvasVars, PageOK, BlankOK
<1>3. ModalOK'
  BY <1>1 DEF TypeInv, ModalOK, modalVars
<1>4. Linked' /\ RequestsOK' /\ FlowsBelow'
  BY <1>1 DEF TypeInv, Linked, RequestsOK, FlowsBelow, Below, canvasVars
<1> QED
  BY <1>2, <1>3, <1>4 DEF TypeInv

(* What a dialog adds to the builder. *)
LEMMA Pushing ==
  ASSUME TypeInv, NEW kind \in {"triggers", "conditions", "actions"}, NEW item, "type" \in DOMAIN item,
         kind = "actions" => CommandOK(item), Push(kind, item)
  PROVE  /\ ListsOK(builder')
         /\ Everything(builder') = Everything(builder) \cup {Owned(item, Owner(selected))}
         /\ body = "builder" /\ dialog' = "none" /\ Render
<1> DEFINE x == Owned(item, Owner(selected))
<1>1. IsItem(x) /\ (kind = "actions" => CommandOK(x))
  <2>1. /\ IsItem(x) /\ x.type = item.type /\ DOMAIN x = DOMAIN item \cup {"owner"}
        /\ \A k \in DOMAIN item : k # "owner" => x[k] = item[k]
    BY OwnedIs
  <2> HIDE DEF x
  <2>2. CommandOK(item) => CommandOK(x)
    BY <2>1 DEF CommandOK
  <2> QED
    BY <2>1, <2>2
<1>2. /\ builder' = [builder EXCEPT ![kind] = Append(builder[kind], x)]
      /\ dialog = kind /\ dialog' = "none" /\ Render
  BY DEF Push
<1> HIDE DEF x
<1>3. body = "builder"
  BY <1>2 DEF TypeInv, ModalOK
<1>4. /\ ListsOK(builder)
      /\ builder = [triggers |-> builder.triggers, conditions |-> builder.conditions,
                    actions |-> builder.actions]
      /\ IsList(builder.triggers) /\ IsList(builder.conditions) /\ IsList(builder.actions)
      /\ \A i \in Range(builder.actions) : CommandOK(i)
  BY DEF TypeInv, PageOK, ListsOK
<1>5. IsList(Append(builder[kind], x)) /\ Range(Append(builder[kind], x)) = Range(builder[kind]) \cup {x}
  BY <1>1, <1>4, Appending
<1>6. ListsOK(builder') /\ Everything(builder') = Everything(builder) \cup {x}
  <2>1. CASE kind = "triggers"
    <3>1. builder' = [triggers |-> Append(builder.triggers, x), conditions |-> builder.conditions,
                      actions |-> builder.actions]
      BY <1>2, <1>4, <2>1
    <3> QED
      BY <1>4, <1>5, <2>1, <3>1 DEF ListsOK, Everything
  <2>2. CASE kind = "conditions"
    <3>1. builder' = [triggers |-> builder.triggers, conditions |-> Append(builder.conditions, x),
                      actions |-> builder.actions]
      BY <1>2, <1>4, <2>2
    <3> QED
      BY <1>4, <1>5, <2>2, <3>1 DEF ListsOK, Everything
  <2>3. CASE kind = "actions"
    <3>1. builder' = [triggers |-> builder.triggers, conditions |-> builder.conditions,
                      actions |-> Append(builder.actions, x)]
      BY <1>2, <1>4, <2>3
    <3> QED
      BY <1>1, <1>4, <1>5, <2>3, <3>1 DEF ListsOK, Everything
  <2> QED
    BY <2>1, <2>2, <2>3
<1> QED
  BY <1>2, <1>3, <1>6 DEF x

(* Saving a dialog adds an item that drawing can take to one of the lists. *)
LEMMA SaveItem ==
  ASSUME TypeInv,
         \/ \E type \in TriggerTypes \cap Chosen : SaveTrigger(type)
         \/ \E type \in ConditionTypes \cap Chosen : SaveCondition(type)
         \/ \E type \in ActionTypes \cap Chosen : SaveAction(type)
  PROVE  \E kind \in {"triggers", "conditions", "actions"} : \E item :
           "type" \in DOMAIN item /\ (kind = "actions" => CommandOK(item)) /\ Push(kind, item)
<1>1. CASE \E type \in TriggerTypes \cap Chosen : SaveTrigger(type)
  BY <1>1, DialogMade DEF SaveTrigger
<1>2. CASE \E type \in ConditionTypes \cap Chosen : SaveCondition(type)
  BY <1>2, DialogMade DEF SaveCondition
<1>3. CASE \E type \in ActionTypes \cap Chosen : SaveAction(type)
  BY <1>3, DialogMade DEF SaveAction
<1> QED
  BY <1>1, <1>2, <1>3

(* Removing an item leaves lists without others. *)
LEMMA RemovingItem ==
  ASSUME TypeInv, NEW kind \in {"triggers", "conditions", "actions"}, RemoveItem(kind)
  PROVE  /\ ListsOK(builder') /\ Everything(builder') \subseteq Everything(builder)
         /\ body = "builder" /\ UNCHANGED dialog /\ Render
<1>1. body = "builder" /\ UNCHANGED dialog /\ Render
  BY DEF RemoveItem
<1>2. PICK i \in DOMAIN builder[kind] : builder' = [builder EXCEPT ![kind] = RemoveAt(builder[kind], i)]
  BY DEF RemoveItem
<1>4. /\ ListsOK(builder)
      /\ builder = [triggers |-> builder.triggers, conditions |-> builder.conditions,
                    actions |-> builder.actions]
      /\ IsList(builder.triggers) /\ IsList(builder.conditions) /\ IsList(builder.actions)
      /\ \A x \in Range(builder.actions) : CommandOK(x)
  BY DEF TypeInv, PageOK, ListsOK
<1> DEFINE less == RemoveAt(builder[kind], i)
<1>5. IsList(less) /\ Range(less) \subseteq Range(builder[kind])
  BY <1>4, Removing
<1> HIDE DEF less
<1>6. ListsOK(builder') /\ Everything(builder') \subseteq Everything(builder)
  <2>1. CASE kind = "triggers"
    <3>1. builder' = [triggers |-> less, conditions |-> builder.conditions, actions |-> builder.actions]
      BY <1>2, <1>4, <2>1 DEF less
    <3> QED
      BY <1>4, <1>5, <2>1, <3>1 DEF ListsOK, Everything
  <2>2. CASE kind = "conditions"
    <3>1. builder' = [triggers |-> builder.triggers, conditions |-> less, actions |-> builder.actions]
      BY <1>2, <1>4, <2>2 DEF less
    <3> QED
      BY <1>4, <1>5, <2>2, <3>1 DEF ListsOK, Everything
  <2>3. CASE kind = "actions"
    <3>1. builder' = [triggers |-> builder.triggers, conditions |-> builder.conditions, actions |-> less]
      BY <1>2, <1>4, <2>3 DEF less
    <3> QED
      BY <1>4, <1>5, <2>3, <3>1 DEF ListsOK, Everything
  <2> QED
    BY <2>1, <2>2, <2>3
<1> QED
  BY <1>1, <1>6

(* The builder's dialogs keep the types. *)
LEMMA BuilderOK == ASSUME TypeInv, Builder PROVE TypeInv'
<1>1. DOMAIN NoLists = {"triggers", "conditions", "actions"}
  BY DEF NoLists
<1>2. CASE CloseDialog \/ \E kind \in DOMAIN NoLists : OpenDialog(kind)
  BY <1>2, DialogsOK
<1>3. CASE \E kind \in DOMAIN NoLists : RemoveItem(kind)
  BY <1>1, <1>3, RemovingItem, RenderFrame
<1>4. CASE \/ \E type \in TriggerTypes \cap Chosen : SaveTrigger(type)
           \/ \E type \in ConditionTypes \cap Chosen : SaveCondition(type)
           \/ \E type \in ActionTypes \cap Chosen : SaveAction(type)
  BY <1>4, SaveItem, Pushing, RenderFrame
<1> QED
  BY <1>2, <1>3, <1>4 DEF Builder

(***************************************************************************)
(* Requests.                                                               *)
(***************************************************************************)

PageStays ==
  UNCHANGED <<automations, objs, canvasVars, selected, builder, modalVars, dialog>>

(* What a step that leaves the page alone has to keep. *)
LEMMA PageFrame ==
  ASSUME TypeInv, PageStays, ServerOK', RequestsOK', \A r \in requests' : IsSave(r) => Below(r.data)'
  PROVE  TypeInv'
<1>1. CanvasOK' /\ PageOK' /\ BlankOK'
  BY DEF PageStays, canvasVars, TypeInv, CanvasOK, PageOK, BlankOK
<1>2. ModalOK' /\ Linked'
  BY DEF PageStays, modalVars, TypeInv, ModalOK, Linked
<1>3. FlowsBelow'
  BY DEF PageStays, canvasVars, TypeInv, FlowsBelow, Below
<1> QED
  BY <1>1, <1>2, <1>3 DEF TypeInv

SavedRequest(r) ==
  /\ requests' = requests \cup {r}
  /\ RequestOK(r) /\ IsSave(r) /\ r.status = "sent"
  /\ \/ selected = Blank /\ r.op = "create" /\ r.id = None
     \/ selected # Blank /\ r.op = "update" /\ r.id = objs[selected].id
  /\ r.doc = Kept(r.data.name, r.data.enabled, ListsOf(r.data))
  /\ PageStays /\ UNCHANGED <<serverVars, historyVars>>

(* A save sends what the server is to keep of the data. *)
LEMMA Saving ==
  ASSUME TypeInv, NEW data, Holder(data), NEW mixed, Save(data, mixed),
         PageStays, UNCHANGED <<serverVars, historyVars>>
  PROVE  \E r : SavedRequest(r) /\ r.data = data /\ r.strayed = mixed
<1> DEFINE doc == Kept(data.name, data.enabled, ListsOf(data))
<1>1. DocOK(doc) /\ doc.name = data.name /\ doc.enabled = data.enabled
  BY ListsOfOK, KeptIs DEF TypeInv
<1>a. doc = Kept(data.name, data.enabled, ListsOf(data))
  OBVIOUS
<1> HIDE DEF doc
<1>2. selected # Blank => objs[selected].id \in Ids
  BY DEF TypeInv, Linked
<1> DEFINE op == IF selected = Blank THEN "create" ELSE "update"
           id == IF selected = Blank THEN None ELSE objs[selected].id
           r == [n |-> used.traffic, op |-> op, id |-> id, status |-> "sent", data |-> data,
                 doc |-> doc, strayed |-> mixed]
<1>3. requests' = requests \cup {r}
  BY <1>a DEF Save, Request
<1>4. /\ IsFunction(r) /\ {"op", "id", "status", "data", "doc", "strayed"} \subseteq DOMAIN r
      /\ r.op = op /\ r.id = id /\ r.status = "sent" /\ r.data = data /\ r.doc = doc /\ r.strayed = mixed
  BY DEF IsFunction
<1> HIDE DEF r
<1>5. RequestOK(r) /\ IsSave(r)
  BY <1>1, <1>2, <1>4 DEF RequestOK, IsSave
<1>6. SavedRequest(r)
  BY <1>a, <1>3, <1>4, <1>5 DEF SavedRequest
<1> QED
  BY <1>4, <1>6

(* The nodes of the canvas are finitely many numbers. *)
LEMMA NodesAre == ASSUME CanvasOK PROVE nodes \in SUBSET Nat /\ IsFiniteSet(nodes)
<1>1. nodes \subseteq 1..nextNodeId - 1 /\ nextNodeId \in Nat
  BY Bounds DEF CanvasOK
<1>2. IsFiniteSet(1..nextNodeId - 1)
  BY <1>1, FS_Interval
<1>3. IsFiniteSet(nodes)
  BY <1>1, <1>2, FS_Subset
<1> QED
  BY <1>1, <1>3

(* What is saved from the canvas, and what from the builder. *)
Drawing(r) ==
  /\ ~r.data.shared
  /\ r.data.lists = [triggers |-> Items("triggers"), conditions |-> Items("conditions"),
                     actions |-> Items("actions")]
  /\ r.data.flow = [nodes |-> nodes, connections |-> {}, shared |-> TRUE]
  /\ r.strayed = (New \in strayed)
  /\ footer = "designer"
Filled(r) == r.data.shared /\ r.data.flow = None /\ r.strayed = FALSE /\ footer = "builder"

(* The designer's save sends the items of the canvas and shares its connections. *)
LEMMA SaveReteIs ==
  ASSUME TypeInv, SaveReteAutomation
  PROVE  \E r : SavedRequest(r) /\ Drawing(r)
<1>1. PICK name \in TypedNames, enabled \in Ticks : Save(ConvertToAutomation(name, enabled), New \in strayed)
  BY DEF SaveReteAutomation
<1> DEFINE data == ConvertToAutomation(name, enabled)
           lists == [triggers |-> Items("triggers"), conditions |-> Items("conditions"),
                     actions |-> Items("actions")]
           flow == [nodes |-> nodes, connections |-> {}, shared |-> TRUE]
<1>2. PageStays /\ UNCHANGED <<serverVars, historyVars>> /\ footer = "designer"
  BY DEF SaveReteAutomation, PageStays
<1>3. nodes \in SUBSET Nat /\ IsFiniteSet(nodes)
  BY NodesAre DEF TypeInv
<1>4. /\ IsList(Items("triggers")) /\ IsList(Items("conditions")) /\ IsList(Items("actions"))
      /\ \A i \in Range(Items("actions")) : CommandOK(i)
  BY <1>3, ItemsAre
<1>5. ListsOK(lists)
  BY <1>4 DEF ListsOK
<1>6. data = [name |-> name, enabled |-> enabled, lists |-> lists, shared |-> FALSE, flow |-> flow]
  BY DEF ConvertToAutomation
<1>7. Save(data, New \in strayed)
  BY <1>1
<1> HIDE DEF data, lists, flow
<1>8. Holder(data) /\ ~data.shared /\ data.lists = lists /\ data.flow = flow
  BY <1>5, <1>6 DEF Holder, IsFunction
<1>9. PICK r : SavedRequest(r) /\ r.data = data /\ r.strayed = (New \in strayed)
  BY <1>2, <1>7, <1>8, Saving
<1>10. Drawing(r)
  BY <1>2, <1>8, <1>9 DEF Drawing, lists, flow
<1> QED
  BY <1>9, <1>10

(* The builder's save shares the builder's lists. *)
LEMMA SaveFormIs ==
  ASSUME TypeInv, SaveAutomation
  PROVE  \E r : SavedRequest(r) /\ Filled(r)
<1>1. PICK name \in TypedNames :
        Save([name |-> name, enabled |-> TRUE, lists |-> NoLists, shared |-> TRUE, flow |-> None], FALSE)
  BY DEF SaveAutomation
<1>2. PageStays /\ UNCHANGED <<serverVars, historyVars>> /\ footer = "builder"
  BY DEF SaveAutomation, PageStays
<1> DEFINE data == [name |-> name, enabled |-> TRUE, lists |-> NoLists, shared |-> TRUE, flow |-> None]
<1>3. Holder(data) /\ data.shared /\ data.flow = None
  BY NoListsOK DEF Holder, IsFunction
<1>4. Save(data, FALSE)
  BY <1>1
<1> HIDE DEF data
<1>5. PICK r : SavedRequest(r) /\ r.data = data /\ r.strayed = FALSE
  BY <1>2, <1>3, <1>4, Saving
<1> QED
  BY <1>2, <1>3, <1>5 DEF Filled

(* Both saves add a well-formed request. *)
LEMMA SaveOK == ASSUME TypeInv, SaveReteAutomation \/ SaveAutomation PROVE TypeInv'
<1>1. PICK r : SavedRequest(r) /\ (Drawing(r) \/ Filled(r))
  BY SaveReteIs, SaveFormIs
<1>2. PageStays /\ UNCHANGED serverVars /\ requests' = requests \cup {r} /\ RequestOK(r)
  BY <1>1 DEF SavedRequest
<1>3. ServerOK' /\ RequestsOK'
  BY <1>2 DEF TypeInv, ServerOK, serverVars, RequestsOK
<1>4. nodes \subseteq 1..nextNodeId - 1 /\ UNCHANGED nextNodeId
  BY <1>2 DEF TypeInv, CanvasOK, PageStays, canvasVars
<1>5. r.data.flow # None => r.data.flow.nodes = nodes
  BY <1>1 DEF Drawing, Filled
<1>6. \A q \in requests' : IsSave(q) => Below(q.data)'
  BY <1>2, <1>4, <1>5 DEF TypeInv, FlowsBelow, Below
<1> QED
  BY <1>2, <1>3, <1>6, PageFrame

(* A request that is no save. *)
Asked(r) ==
  /\ requests' = requests \cup {r}
  /\ RequestOK(r) /\ ~IsSave(r) /\ r.status = "sent" /\ r.id \in Ids /\ automations[r.id] # None
  /\ PageStays /\ UNCHANGED <<serverVars, historyVars>>

(* The toggle and the deletion are requests without data. *)
LEMMA AskIs ==
  ASSUME NEW id \in Ids, ToggleAutomation(id) \/ DeleteAutomation(id)
  PROVE  \E r : Asked(r)
<1>1. PICK op \in {"enable", "disable", "delete"} : Ask(op, id)
  BY DEF ToggleAutomation, DeleteAutomation
<1> DEFINE r == [n |-> used.traffic, op |-> op, id |-> id, status |-> "sent", data |-> None,
                 doc |-> None, strayed |-> FALSE]
<1>2. requests' = requests \cup {r} /\ automations[id] # None
  BY <1>1 DEF Ask, Request
<1>3. PageStays /\ UNCHANGED <<serverVars, historyVars>>
  BY <1>1 DEF Ask, PageStays
<1>4. RequestOK(r) /\ ~IsSave(r)
  BY DEF RequestOK, IsSave, IsFunction
<1>5. Asked(r)
  BY <1>2, <1>3, <1>4 DEF Asked
<1> QED
  BY <1>5

(* The toggle and the deletion add a well-formed request. *)
LEMMA AskOK ==
  ASSUME TypeInv, NEW id \in Ids, ToggleAutomation(id) \/ DeleteAutomation(id)
  PROVE  TypeInv'
<1>1. PICK r : Asked(r)
  BY AskIs
<1>2. ServerOK' /\ RequestsOK'
  BY <1>1 DEF Asked, TypeInv, ServerOK, serverVars, RequestsOK
<1>3. \A q \in requests' : IsSave(q) => Below(q.data)'
  BY <1>1 DEF Asked, PageStays, canvasVars, TypeInv, FlowsBelow, Below
<1> QED
  BY <1>1, <1>2, <1>3, PageFrame DEF Asked

(***************************************************************************)
(* The server.                                                             *)
(***************************************************************************)

(* r has become q. *)
Settled(r, q) ==
  /\ requests' = (requests \ {r}) \cup {q}
  /\ RequestOK(q) /\ q.op = r.op /\ q.data = r.data /\ q.strayed = r.strayed

(* A request that is settled changes in status and id only. *)
LEMMA Settling ==
  ASSUME NEW r, RequestOK(r), NEW status \in {"ok", "failed"}, r.id \in Ids \/ status = "failed",
         Settle(r, status, r.id)
  PROVE  \E q : Settled(r, q) /\ q.status = status /\ q.id = r.id /\ q.doc = r.doc
<1> DEFINE q == [r EXCEPT !.status = status, !.id = r.id]
<1>1. requests' = (requests \ {r}) \cup {q}
  BY DEF Settle
<1>2. /\ IsFunction(q) /\ DOMAIN q = DOMAIN r /\ q.status = status /\ q.id = r.id
      /\ q.op = r.op /\ q.data = r.data /\ q.doc = r.doc /\ q.strayed = r.strayed
  BY DEF RequestOK, IsFunction
<1> HIDE DEF q
<1>3. RequestOK(q)
  BY <1>2 DEF RequestOK, IsSave
<1> QED
  BY <1>1, <1>2, <1>3 DEF Settled

Created(r, q) ==
  /\ r.op = "create" /\ q.status = "ok" /\ q.id \in Ids \ born
  /\ DocOK(q.doc) /\ q.doc = GivenDoc(r.doc, q.id)
  /\ server' = [id \in Ids |-> IF id = q.id THEN q.doc ELSE server[id]]
  /\ born' = born \cup {q.id}
  /\ strayed' = IF r.strayed THEN strayed \cup {q.id} ELSE strayed

(* What an automation becomes. *)
After(r, doc) ==
  CASE r.op = "update" -> [r.doc EXCEPT !.enabled = doc.enabled]
    [] r.op = "delete" -> None
    [] OTHER -> [doc EXCEPT !.enabled = (r.op = "enable")]

Changed(r, q) ==
  /\ r.op # "create" /\ q.id = r.id /\ r.id \in Ids /\ q.doc = r.doc
  /\ UNCHANGED <<born, strayed>>
  /\ \/ server[r.id] = None /\ q.status = "failed" /\ UNCHANGED server
     \/ /\ server[r.id] # None /\ q.status = "ok"
        /\ server' = [id \in Ids |-> IF id = r.id THEN After(r, server[r.id]) ELSE server[id]]

(* The server creates an automation, changes the one there is, or answers 404. *)
LEMMA Handling ==
  ASSUME TypeInv, NEW r \in requests, ServerHandles(r)
  PROVE  /\ r.status = "sent" /\ PageStays /\ UNCHANGED <<list, excused, loose>>
         /\ \E q : Settled(r, q) /\ (Created(r, q) \/ Changed(r, q))
<1>1. RequestOK(r) /\ server = [id \in Ids |-> server[id]]
  BY DEF TypeInv, RequestsOK, ServerOK, DocsOK
<1>2. r.status = "sent" /\ PageStays /\ UNCHANGED <<list, excused, loose>>
  BY DEF ServerHandles, PageStays
<1>3. CASE HandleCreateAutomation(r)
  <2>1. PICK id \in Ids \ born :
          /\ born' = born \cup {id}
          /\ server' = [server EXCEPT ![id] = GivenDoc(r.doc, id)]
          /\ requests' = (requests \ {r}) \cup
               {[r EXCEPT !.status = "ok", !.id = id, !.doc = GivenDoc(r.doc, id)]}
          /\ strayed' = IF r.strayed THEN strayed \cup {id} ELSE strayed
    BY <1>3 DEF HandleCreateAutomation
  <2>2. r.op = "create" /\ DocOK(r.doc)
    BY <1>1, <1>3 DEF HandleCreateAutomation, RequestOK, IsSave
  <2> DEFINE doc == GivenDoc(r.doc, id)
  <2>3. DocOK(doc) /\ doc.name = r.doc.name /\ doc.enabled = r.doc.enabled
    BY <2>2, GivenDocIs
  <2>a. doc = GivenDoc(r.doc, id)
    OBVIOUS
  <2> HIDE DEF doc
  <2> DEFINE q == [r EXCEPT !.status = "ok", !.id = id, !.doc = doc]
  <2>4. requests' = (requests \ {r}) \cup {q}
    BY <2>1, <2>a
  <2>5. /\ IsFunction(q) /\ DOMAIN q = DOMAIN r /\ q.status = "ok" /\ q.id = id
        /\ q.op = r.op /\ q.data = r.data /\ q.doc = doc /\ q.strayed = r.strayed
    BY <1>1 DEF RequestOK, IsFunction
  <2> HIDE DEF q
  <2>6. RequestOK(q)
    BY <1>1, <2>2, <2>3, <2>5 DEF RequestOK, IsSave
  <2>7. Settled(r, q)
    BY <2>4, <2>5, <2>6 DEF Settled
  <2>8. server' = [i \in Ids |-> IF i = q.id THEN q.doc ELSE server[i]]
    BY <1>1, <2>1, <2>a, <2>5
  <2>9. Created(r, q)
    BY <2>1, <2>2, <2>3, <2>a, <2>5, <2>8 DEF Created
  <2> QED
    BY <1>2, <2>7, <2>9
<1>4. CASE HandleMissing(r)
  <2>1. /\ r.op # "create" /\ server[r.id] = None /\ Settle(r, "failed", r.id)
        /\ UNCHANGED <<server, born, strayed>>
    BY <1>4 DEF HandleMissing
  <2>2. PICK q : Settled(r, q) /\ q.status = "failed" /\ q.id = r.id /\ q.doc = r.doc
    BY <1>1, <2>1, Settling
  <2>3. Changed(r, q)
    BY <1>1, <2>1, <2>2 DEF Changed, RequestOK
  <2> QED
    BY <1>2, <2>2, <2>3
<1>5. CASE HandleUpdateAutomation(r) \/ HandleEnableAutomation(r) \/ HandleDeleteAutomation(r)
  <2>1. /\ r.op # "create" /\ server[r.id] # None /\ Settle(r, "ok", r.id)
        /\ UNCHANGED <<born, strayed>>
    BY <1>5 DEF HandleUpdateAutomation, HandleEnableAutomation, HandleDeleteAutomation
  <2>2. r.id \in Ids
    BY <1>1, <2>1 DEF RequestOK
  <2>3. server' = [id \in Ids |-> IF id = r.id THEN After(r, server[r.id]) ELSE server[id]]
    <3>1. CASE HandleUpdateAutomation(r)
      BY <1>1, <2>2, <3>1 DEF HandleUpdateAutomation, After
    <3>2. CASE HandleEnableAutomation(r)
      BY <1>1, <2>2, <3>2 DEF HandleEnableAutomation, After
    <3>3. CASE HandleDeleteAutomation(r)
      BY <1>1, <2>2, <3>3 DEF HandleDeleteAutomation, After
    <3> QED
      BY <1>5, <3>1, <3>2, <3>3
  <2>4. PICK q : Settled(r, q) /\ q.status = "ok" /\ q.id = r.id /\ q.doc = r.doc
    BY <1>1, <2>1, <2>2, Settling
  <2>5. Changed(r, q)
    BY <2>1, <2>2, <2>3, <2>4 DEF Changed
  <2> QED
    BY <1>2, <2>4, <2>5
<1> QED
  BY <1>3, <1>4, <1>5 DEF ServerHandles

(* What an automation is after it was updated, toggled or deleted. *)
LEMMA AfterIs ==
  ASSUME NEW r, RequestOK(r), r.op # "create", NEW doc, DocOK(doc)
  PROVE  LET d == After(r, doc)
         IN  /\ d # None => DocOK(d)
             /\ r.op = "delete" => d = None
             /\ r.op = "update" => d.enabled = doc.enabled /\ d.name = r.doc.name /\ Lists(d) = Lists(r.doc)
             /\ r.op \in {"enable", "disable"} =>
                  d.enabled = (r.op = "enable") /\ d.name = doc.name /\ Lists(d) = Lists(doc)
<1>1. CASE r.op = "update"
  <2>1. DocOK(r.doc) /\ After(r, doc) = [r.doc EXCEPT !.enabled = doc.enabled]
    BY <1>1 DEF RequestOK, IsSave, After
  <2> QED
    BY <1>1, <2>1, DocTicked
<1>2. CASE r.op = "delete"
  BY <1>2 DEF After
<1>3. CASE r.op \in {"enable", "disable"}
  <2>1. After(r, doc) = [doc EXCEPT !.enabled = (r.op = "enable")]
    BY <1>3 DEF After
  <2> DEFINE e == r.op = "enable"
  <2> HIDE DEF e
  <2>2. After(r, doc) = [doc EXCEPT !.enabled = e]
    BY <2>1 DEF e
  <2>3. DocOK(After(r, doc)) /\ After(r, doc).enabled = e /\ After(r, doc).name = doc.name
        /\ Lists(After(r, doc)) = Lists(doc)
    BY <2>2, DocTicked
  <2> QED
    BY <1>3, <2>3 DEF e
<1> QED
  BY <1>1, <1>2, <1>3 DEF RequestOK

(* Requests are well formed after one was settled. *)
LEMMA SettledOK ==
  ASSUME TypeInv, NEW r \in requests, NEW q, Settled(r, q), PageStays
  PROVE  RequestsOK' /\ \A p \in requests' : IsSave(p) => Below(p.data)'
<1>1. RequestsOK'
  BY DEF Settled, TypeInv, RequestsOK
<1>2. Below(q.data) \/ ~IsSave(q)
  BY DEF Settled, TypeInv, FlowsBelow, IsSave
<1>3. \A p \in requests' : IsSave(p) => Below(p.data)'
  BY <1>2 DEF Settled, PageStays, canvasVars, TypeInv, FlowsBelow, Below
<1> QED
  BY <1>1, <1>3

(* The server keeps documents, and answers with them. *)
LEMMA ServerHandlesOK == ASSUME TypeInv, NEW r \in requests, ServerHandles(r) PROVE TypeInv'
<1>1. PageStays /\ UNCHANGED list
  BY Handling
<1>2. PICK q : Settled(r, q) /\ (Created(r, q) \/ Changed(r, q))
  BY Handling
<1>3. RequestsOK' /\ \A p \in requests' : IsSave(p) => Below(p.data)'
  BY <1>1, <1>2, SettledOK
<1>4. DocsOK(server')
  <2>1. DocsOK(server) /\ RequestOK(r)
    BY DEF TypeInv, ServerOK, RequestsOK
  <2>2. CASE Created(r, q)
    BY <2>1, <2>2 DEF Created, DocsOK
  <2>3. CASE Changed(r, q) /\ UNCHANGED server
    BY <2>1, <2>3
  <2>4. CASE Changed(r, q) /\ ~UNCHANGED server
    <3>1. DocOK(server[r.id]) /\ r.op # "create"
      BY <2>1, <2>4 DEF Changed, DocsOK
    <3>2. After(r, server[r.id]) # None => DocOK(After(r, server[r.id]))
      BY <2>1, <3>1, AfterIs
    <3> QED
      BY <2>1, <2>4, <3>2 DEF Changed, DocsOK
  <2> QED
    BY <1>2, <2>2, <2>3, <2>4
<1>5. ServerOK'
  BY <1>1, <1>4 DEF TypeInv, ServerOK
<1> QED
  BY <1>1, <1>3, <1>5, PageFrame

(* A loss settles one request as failed. *)
LEMMA LosingIs ==
  ASSUME TypeInv, NEW r \in requests, Lose(r)
  PROVE  /\ PageStays /\ UNCHANGED <<serverVars, strayed, loose>>
         /\ \E q : Settled(r, q) /\ q.status = "failed" /\ q.id = r.id /\ q.doc = r.doc
         /\ r.status \in {"sent", "ok"}
         /\ excused' = IF r.status = "ok" THEN excused \cup {r.id} ELSE excused
<1>1. RequestOK(r)
  BY DEF TypeInv, RequestsOK
<1>2. /\ PageStays /\ UNCHANGED <<serverVars, strayed, loose>>
      /\ Settle(r, "failed", r.id) /\ r.status \in {"sent", "ok"}
      /\ excused' = IF r.status = "ok" THEN excused \cup {r.id} ELSE excused
  BY DEF Lose, PageStays
<1>3. \E q : Settled(r, q) /\ q.status = "failed" /\ q.id = r.id /\ q.doc = r.doc
  BY <1>1, <1>2, Settling
<1> QED
  BY <1>2, <1>3

(* A loss keeps the types. *)
LEMMA LoseOK == ASSUME TypeInv, NEW r \in requests, Lose(r) PROVE TypeInv'
<1>1. PageStays /\ UNCHANGED serverVars /\ \E q : Settled(r, q)
  BY LosingIs
<1>2. RequestsOK' /\ \A p \in requests' : IsSave(p) => Below(p.data)'
  BY <1>1, SettledOK
<1>3. ServerOK'
  BY <1>1 DEF TypeInv, ServerOK, serverVars
<1> QED
  BY <1>1, <1>2, <1>3, PageFrame

(***************************************************************************)
(* Answers and lists.                                                      *)
(***************************************************************************)

(* The object of a document has what the document says, and no flow. *)
LEMMA ParsedIs ==
  ASSUME NEW id \in Ids, NEW d, DocOK(d)
  PROVE  LET o == Parsed(id, d)
         IN  /\ ObjOK(o) /\ o.id = id /\ ~o.shared /\ o.flow = None
             /\ o.name = d.name /\ o.enabled = d.enabled /\ o.lists = Lists(d)
<1> DEFINE o == Parsed(id, d)
<1>1. o = [id |-> id, name |-> d.name, enabled |-> d.enabled, lists |-> Lists(d),
           shared |-> FALSE, flow |-> None]
  BY DEF Parsed
<1>2. ListsOK(Lists(d))
  BY DEF DocOK
<1> HIDE DEF o
<1> QED
  BY <1>1, <1>2 DEF ObjOK, Holder, IsFunction, o

AnswerStays == UNCHANGED <<serverVars, canvasVars, selected, builder, body, footer, dialog, loose>>

(* What the handling of an answer has to keep. *)
LEMMA AnswerFrame ==
  ASSUME TypeInv, AnswerStays, requests' \subseteq requests,
         automations' \in [Ids -> Objs \cup {None}],
         objs' = [o \in {Blank} \cup Objs |-> objs'[o]],
         objs'[Blank] = objs[Blank],
         \A o \in Objs : ObjOK(objs'[o]) /\ Below(objs'[o]),
         \A id \in Ids : automations'[id] # None => objs'[automations'[id]].id = id,
         selected # Blank => objs'[selected].id \in Ids
  PROVE  TypeInv'
<1>1. ServerOK' /\ CanvasOK' /\ RequestsOK'
  BY DEF AnswerStays, serverVars, canvasVars, TypeInv, ServerOK, CanvasOK, RequestsOK
<1>2. PageOK' /\ BlankOK'
  BY DEF AnswerStays, TypeInv, PageOK, BlankOK
<1>3. ModalOK' /\ Linked'
  BY DEF AnswerStays, TypeInv, ModalOK, Linked
<1>4. FlowsBelow'
  <2>1. nextNodeId' = nextNodeId
    BY DEF AnswerStays, canvasVars
  <2>3. \A o \in {Blank} \cup Objs : Below(objs[o])'
    BY <2>1 DEF TypeInv, FlowsBelow, Below
  <2>4. \A q \in requests' : IsSave(q) => Below(q.data)'
    BY <2>1 DEF TypeInv, FlowsBelow, Below
  <2> QED
    BY <2>3, <2>4 DEF FlowsBelow
<1> QED
  BY <1>1, <1>2, <1>3, <1>4 DEF TypeInv

(* The object o has become x. *)
Becomes(o, x) ==
  /\ objs' = [p \in {Blank} \cup Objs |-> objs'[p]]
  /\ objs'[o] = x
  /\ \A p \in {Blank} \cup Objs : p # o => objs'[p] = objs[p]

(* An assignment to one object leaves the others. *)
LEMMA Becoming ==
  ASSUME PageOK, NEW o \in Objs, NEW x, objs' = [objs EXCEPT ![o] = x]
  PROVE  Becomes(o, x)
  BY DEF PageOK, Becomes

Assigned(o, x, r) ==
  /\ ObjOK(x) /\ x.id = o.id /\ x.name = r.data.name /\ x.enabled = r.data.enabled
  /\ x.lists = r.data.lists /\ x.shared = r.data.shared
  /\ x.flow = (IF r.data.flow = None THEN o.flow ELSE r.data.flow)

(* The answer to an update assigns the saved data to the selected automation. *)
LEMMA Assigning ==
  ASSUME TypeInv, NEW r \in requests, AnswerUpdate(r)
  PROVE  /\ selected \in Objs
         /\ \E x : Assigned(objs[selected], x, r) /\ Becomes(selected, x)
<1>1. r.op = "update" /\ selected \in Objs /\ Holder(r.data) /\ ObjOK(objs[selected])
  BY DEF AnswerUpdate, TypeInv, PageOK, RequestsOK, RequestOK, IsSave
<1> DEFINE flow == IF r.data.flow = None THEN objs[selected].flow ELSE r.data.flow
           x == [id |-> objs[selected].id, name |-> r.data.name, enabled |-> r.data.enabled,
                 lists |-> r.data.lists, shared |-> r.data.shared, flow |-> flow]
<1>2. objs' = [objs EXCEPT ![selected] = x]
  BY DEF AnswerUpdate, Assign
<1>3. Becomes(selected, x)
  BY <1>1, <1>2, Becoming DEF TypeInv
<1> HIDE DEF flow
<1>4. /\ IsFunction(x) /\ DOMAIN x = {"id", "name", "enabled", "lists", "shared", "flow"}
      /\ x.id = objs[selected].id /\ x.name = r.data.name /\ x.enabled = r.data.enabled
      /\ x.lists = r.data.lists /\ x.shared = r.data.shared /\ x.flow = flow
  BY DEF IsFunction
<1> HIDE DEF x
<1>5. Assigned(objs[selected], x, r)
  BY <1>1, <1>4 DEF Assigned, ObjOK, Holder, flow
<1> QED
  BY <1>1, <1>3, <1>5

(* The object of a created automation. *)
Made(r, o) ==
  /\ o \in Objs /\ o # selected /\ \A id \in Ids : automations[id] # o
  /\ ObjOK(Parsed(r.id, r.doc)) /\ Becomes(o, Parsed(r.id, r.doc))
  /\ automations' = [id \in Ids |-> IF id = r.id THEN o ELSE automations[id]]

(* The answer to a creation makes an object nothing refers to yet. *)
LEMMA Making ==
  ASSUME TypeInv, NEW r \in requests, r.status = "ok", AnswerCreate(r)
  PROVE  \E o : Made(r, o)
<1>1. PICK o \in Objs \ LiveObjs : /\ objs' = [objs EXCEPT ![o] = Parsed(r.id, r.doc)]
                                   /\ automations' = [automations EXCEPT ![r.id] = o]
  BY DEF AnswerCreate
<1>2. r.id \in Ids /\ DocOK(r.doc)
  BY DEF AnswerCreate, TypeInv, RequestsOK, RequestOK, IsSave
<1>3. o # selected /\ \A id \in Ids : automations[id] # o
  BY <1>1, Bounds DEF LiveObjs
<1>4. Becomes(o, Parsed(r.id, r.doc))
  BY <1>1, Becoming DEF TypeInv
<1>5. ObjOK(Parsed(r.id, r.doc))
  BY <1>2, ParsedIs
<1>6. automations' = [id \in Ids |-> IF id = r.id THEN o ELSE automations[id]]
  BY <1>1, <1>2 DEF TypeInv, PageOK
<1> QED
  BY <1>1, <1>3, <1>4, <1>5, <1>6 DEF Made

Switched(o, x, on) ==
  /\ ObjOK(x) /\ x.id = o.id /\ x.name = o.name /\ x.enabled = on /\ x.lists = o.lists
  /\ x.shared = o.shared /\ x.flow = o.flow

(* The answer to a toggle sets the box of the object the page has by then. *)
LEMMA Switching ==
  ASSUME TypeInv, NEW r \in requests, r.status = "ok", AnswerToggle(r)
  PROVE  /\ UNCHANGED automations
         /\ \/ automations[r.id] = None /\ UNCHANGED objs
            \/ /\ automations[r.id] \in Objs
               /\ \E x : Switched(objs[automations[r.id]], x, r.op = "enable") /\ Becomes(automations[r.id], x)
<1>1. r.id \in Ids /\ automations[r.id] \in Objs \cup {None} /\ UNCHANGED automations
  BY DEF AnswerToggle, TypeInv, PageOK, RequestsOK, RequestOK
<1>2. CASE automations[r.id] = None
  BY <1>1, <1>2 DEF AnswerToggle
<1>3. CASE automations[r.id] # None
  <2> DEFINE o == automations[r.id]
             on == (r.op = "enable")
             x == [objs[o] EXCEPT !.enabled = on]
  <2>1. objs' = [objs EXCEPT ![o] = x] /\ o \in Objs
    BY <1>1, <1>3 DEF AnswerToggle
  <2>2. Becomes(o, x)
    BY <2>1, Becoming DEF TypeInv
  <2>3. ObjOK(objs[o])
    BY <2>1 DEF TypeInv, PageOK
  <2> HIDE DEF o, on
  <2>4. /\ IsFunction(x) /\ DOMAIN x = DOMAIN objs[o] /\ x.id = objs[o].id /\ x.name = objs[o].name
        /\ x.enabled = on /\ x.lists = objs[o].lists /\ x.shared = objs[o].shared /\ x.flow = objs[o].flow
    BY <2>3 DEF IsFunction, ObjOK, Holder
  <2> HIDE DEF x
  <2>5. Switched(objs[o], x, on)
    BY <2>3, <2>4 DEF Switched, ObjOK, Holder
  <2> QED
    BY <1>1, <2>1, <2>2, <2>5 DEF o, on
<1> QED
  BY <1>2, <1>3

(* Answers keep the types. *)
LEMMA AnswerOK == ASSUME TypeInv, NEW r \in requests, Answer(r) PROVE TypeInv'
<1>1. AnswerStays /\ requests' \subseteq requests
  BY DEF Answer, AnswerStays
<1>2. /\ automations \in [Ids -> Objs \cup {None}] /\ objs = [o \in {Blank} \cup Objs |-> objs[o]]
      /\ \A o \in Objs : ObjOK(objs[o]) /\ Below(objs[o])
      /\ \A id \in Ids : automations[id] # None => objs[automations[id]].id = id
      /\ selected # Blank => objs[selected].id \in Ids
      /\ selected \in {Blank} \cup Objs
  BY DEF TypeInv, PageOK, FlowsBelow, Linked
<1>3. CASE UNCHANGED <<automations, objs>>
  BY <1>1, <1>2, <1>3, AnswerFrame
<1>4. CASE AnswerUpdate(r)
  <2>1. selected \in Objs /\ UNCHANGED automations
    BY <1>4, Assigning DEF AnswerUpdate
  <2>2. PICK x : Assigned(objs[selected], x, r) /\ Becomes(selected, x)
    BY <1>4, Assigning
  <2>3. Below(x)
    <3>1. Below(objs[selected]) /\ Below(r.data)
      BY <1>2, <1>4, <2>1 DEF AnswerUpdate, IsSave, TypeInv, FlowsBelow
    <3> QED
      BY <2>2, <3>1 DEF Assigned, Below
  <2>4. ObjOK(x) /\ x.id = objs[selected].id
    BY <2>2 DEF Assigned
  <2> QED
    BY <1>1, <1>2, <2>1, <2>2, <2>3, <2>4, Bounds, AnswerFrame DEF Becomes
<1>5. CASE r.status = "ok" /\ AnswerCreate(r)
  <2>1. PICK o : Made(r, o)
    BY <1>5, Making
  <2>2. r.id \in Ids /\ DocOK(r.doc)
    BY <1>5 DEF AnswerCreate, TypeInv, RequestsOK, RequestOK, IsSave
  <2>3. Parsed(r.id, r.doc).id = r.id /\ Below(Parsed(r.id, r.doc))
    BY <2>2, ParsedIs DEF Below
  <2>4. automations' \in [Ids -> Objs \cup {None}]
    BY <1>2, <2>1 DEF Made
  <2>5. \A p \in Objs : ObjOK(objs'[p]) /\ Below(objs'[p])
    BY <1>2, <2>1, <2>3 DEF Made, Becomes
  <2>6. \A id \in Ids : automations'[id] # None => objs'[automations'[id]].id = id
    BY <1>2, <2>1, <2>3 DEF Made, Becomes
  <2>7. objs'[Blank] = objs[Blank] /\ (selected # Blank => objs'[selected].id \in Ids)
    BY <1>2, <2>1, Bounds DEF Made, Becomes
  <2>8. objs' = [p \in {Blank} \cup Objs |-> objs'[p]]
    BY <2>1 DEF Made, Becomes
  <2> QED
    BY <1>1, <2>4, <2>5, <2>6, <2>7, <2>8, AnswerFrame
<1>6. CASE r.status = "ok" /\ AnswerToggle(r)
  <2>1. CASE UNCHANGED <<automations, objs>>
    BY <1>3, <2>1
  <2>2. CASE ~UNCHANGED <<automations, objs>>
    <3>1. UNCHANGED automations /\ automations[r.id] \in Objs
      BY <1>6, <2>2, Switching
    <3>2. PICK x : Switched(objs[automations[r.id]], x, r.op = "enable") /\ Becomes(automations[r.id], x)
      BY <1>6, <2>2, Switching
    <3>3. ObjOK(x) /\ x.id = objs[automations[r.id]].id /\ Below(x)
      BY <1>2, <3>1, <3>2 DEF Switched, Below
    <3> QED
      BY <1>1, <1>2, <3>1, <3>2, <3>3, Bounds, AnswerFrame DEF Becomes
  <2> QED
    BY <2>1, <2>2
<1>7. CASE AnswerDelete(r)
  <2>1. automations' = [automations EXCEPT ![r.id] = None] /\ UNCHANGED objs
    BY <1>7 DEF AnswerDelete
  <2>2. automations' \in [Ids -> Objs \cup {None}]
    BY <1>2, <2>1
  <2>3. \A id \in Ids : automations'[id] # None => automations'[id] = automations[id]
    BY <1>2, <2>1
  <2> QED
    BY <1>1, <1>2, <2>1, <2>2, <2>3, AnswerFrame
<1> QED
  BY <1>3, <1>4, <1>5, <1>6, <1>7 DEF Answer, AnswerUpdateNoSelection

(* A set that is no larger than another has an injection into it. *)
LEMMA Inject ==
  ASSUME NEW S, NEW T, IsFiniteSet(S), IsFiniteSet(T), Cardinality(S) <= Cardinality(T)
  PROVE  \E h \in [S -> T] : \A a, b \in S : a # b => h[a] # h[b]
<1> DEFINE m == Cardinality(S)
           n == Cardinality(T)
<1>1. m \in Nat /\ \E f \in Bijection(1..m, S) : TRUE
  BY FS_CardinalityType DEF ExistsBijection
<1>2. n \in Nat /\ \E g \in Bijection(1..n, T) : TRUE
  BY FS_CardinalityType DEF ExistsBijection
<1>a. PICK f \in Bijection(1..m, S) : TRUE
  BY <1>1
<1>b. PICK g \in Bijection(1..n, T) : TRUE
  BY <1>2
<1>3. /\ f \in [1..m -> S] /\ \A s \in S : \E i \in 1..m : f[i] = s
      /\ g \in [1..n -> T] /\ \A i, j \in 1..n : g[i] = g[j] => i = j
  BY <1>a, <1>b DEF Bijection, Injection, Surjection, IsInjective
<1>4. 1..m \subseteq 1..n
  BY <1>1, <1>2
<1> HIDE DEF m, n
<1> DEFINE index(s) == CHOOSE i \in 1..m : f[i] = s
           h == [s \in S |-> g[index(s)]]
<1>5. \A s \in S : index(s) \in 1..m /\ f[index(s)] = s
  BY <1>3
<1> HIDE DEF index
<1>6. \A s \in S : h[s] = g[index(s)] /\ g[index(s)] \in T
  BY <1>3, <1>4, <1>5
<1>7. ASSUME NEW a \in S, NEW b \in S, h[a] = h[b] PROVE a = b
  BY <1>3, <1>4, <1>5, <1>6, <1>7
<1>8. h \in [S -> T]
  BY <1>6
<1> QED
  BY <1>7, <1>8

(* The documents of list have become the objects obj. *)
Loaded(present, obj) ==
  /\ present = {id \in Ids : list[id] # None}
  /\ obj \in [present -> Objs \ {selected}]
  /\ \A a, b \in present : a # b => obj[a] # obj[b]
  /\ \A id \in present : /\ DocOK(list[id]) /\ ObjOK(Parsed(id, list[id]))
                         /\ objs'[obj[id]] = Parsed(id, list[id])
  /\ \A o \in {Blank} \cup Objs : (\A id \in present : o # obj[id]) => objs'[o] = objs[o]
  /\ objs' = [o \in {Blank} \cup Objs |-> objs'[o]]
  /\ automations' = [id \in Ids |-> IF id \in present THEN obj[id] ELSE None]

(* A list gives every document of its own an object, never the selected one. *)
LEMMA Loading ==
  ASSUME TypeInv, LoadAutomations
  PROVE  \E present, obj : Loaded(present, obj)
<1> DEFINE present == {id \in Ids : list[id] # None}
           free == Objs \ ({selected} \ {None, Blank})
           obj == CHOOSE f \in [present -> free] : \A a, b \in present : a # b => f[a] # f[b]
<1>1. IsFiniteSet(present) /\ IsFiniteSet(free)
  BY EditorAssumption, FS_Subset
<1>2. Cardinality(present) <= Cardinality(free)
  BY DEF LoadAutomations
<1>3. \E f \in [present -> free] : \A a, b \in present : a # b => f[a] # f[b]
  BY <1>1, <1>2, Inject
<1>4. obj \in [present -> free] /\ \A a, b \in present : a # b => obj[a] # obj[b]
  BY <1>3
<1>5. /\ objs' = [o \in DOMAIN objs |->
              IF o \in Range(obj)
              THEN LET id == CHOOSE i \in present : obj[i] = o IN Parsed(id, list[id])
              ELSE objs[o]]
      /\ automations' = [id \in Ids |-> IF id \in present THEN obj[id] ELSE None]
  BY DEF LoadAutomations
<1>6. DOMAIN objs = {Blank} \cup Objs /\ free \subseteq Objs \ {selected}
  BY Bounds DEF TypeInv, PageOK
<1>7. list # None /\ DocsOK(list)
  BY DEF LoadAutomations, TypeInv, ServerOK
<1>a. present = {id \in Ids : list[id] # None}
  OBVIOUS
<1> HIDE DEF present, free, obj
<1>8. Range(obj) = {obj[i] : i \in present} /\ obj \in [present -> Objs \ {selected}]
  BY <1>4, <1>6 DEF Range
<1>9. ASSUME NEW id \in present
      PROVE  DocOK(list[id]) /\ ObjOK(Parsed(id, list[id])) /\ objs'[obj[id]] = Parsed(id, list[id])
  <2>1. id \in Ids /\ DocOK(list[id])
    BY <1>7, <1>a DEF DocsOK
  <2>2. ObjOK(Parsed(id, list[id]))
    BY <2>1, ParsedIs
  <2>3. obj[id] \in Range(obj) /\ obj[id] \in DOMAIN objs
    BY <1>6, <1>8
  <2>4. (CHOOSE i \in present : obj[i] = obj[id]) = id
    BY <1>4
  <2> QED
    BY <1>5, <2>1, <2>2, <2>3, <2>4
<1>10. \A o \in {Blank} \cup Objs : (\A id \in present : o # obj[id]) => objs'[o] = objs[o]
  BY <1>5, <1>6, <1>8
<1>11. objs' = [o \in {Blank} \cup Objs |-> objs'[o]]
  BY <1>5, <1>6
<1>12. Loaded(present, obj)
  BY <1>4, <1>5, <1>8, <1>9, <1>10, <1>11, <1>a DEF Loaded
<1> QED
  BY <1>12

(* Loading a list keeps the types. *)
LEMMA LoadAutomationsOK == ASSUME TypeInv, LoadAutomations PROVE TypeInv'
<1>1. PICK present, obj : Loaded(present, obj)
  BY Loading
<1>2. /\ UNCHANGED <<server, born, canvasVars, selected, builder, modalVars, dialog, requests>>
      /\ list' = None
  BY DEF LoadAutomations
<1>3. \A id \in present : id \in Ids /\ obj[id] \in Objs /\ obj[id] # selected
  BY <1>1 DEF Loaded
<1>4. ASSUME NEW id \in present
      PROVE  Parsed(id, list[id]).id = id /\ Parsed(id, list[id]).flow = None
  <2>1. id \in Ids /\ DocOK(list[id])
    BY <1>1, <1>3 DEF Loaded
  <2> DEFINE d == list[id]
  <2> HIDE DEF d
  <2>2. Parsed(id, d).id = id /\ Parsed(id, d).flow = None
    BY <2>1, ParsedIs DEF d
  <2> QED
    BY <2>2 DEF d
<1>5. ASSUME NEW o \in {Blank} \cup Objs PROVE ObjOK(objs'[o]) /\ Below(objs[o])'
  <2>1. CASE \E id \in present : o = obj[id]
    <3>1. PICK id \in present : o = obj[id]
      BY <2>1
    <3>2. objs'[o] = Parsed(id, list[id]) /\ ObjOK(objs'[o]) /\ objs'[o].flow = None
      BY <1>1, <1>4, <3>1 DEF Loaded
    <3> QED
      BY <3>2 DEF Below
  <2>2. CASE \A id \in present : o # obj[id]
    BY <1>1, <1>2, <2>2 DEF Loaded, TypeInv, PageOK, FlowsBelow, Below, canvasVars
  <2> QED
    BY <2>1, <2>2
<1>6. objs'[Blank] = objs[Blank] /\ objs'[selected] = objs[selected]
  BY <1>1, <1>3, Bounds DEF Loaded, TypeInv, PageOK
<1>7. PageOK' /\ BlankOK'
  BY <1>1, <1>2, <1>3, <1>5, <1>6 DEF Loaded, TypeInv, PageOK, BlankOK
<1>8. ServerOK' /\ CanvasOK' /\ ModalOK' /\ RequestsOK'
  BY <1>2 DEF TypeInv, ServerOK, CanvasOK, canvasVars, ModalOK, modalVars, RequestsOK
<1>9. Linked'
  <2>1. ASSUME NEW id \in Ids, automations'[id] # None PROVE objs'[automations'[id]].id = id
    <3>1. id \in present /\ automations'[id] = obj[id]
      BY <1>1, <2>1 DEF Loaded
    <3> QED
      BY <1>1, <1>4, <3>1 DEF Loaded
  <2>2. selected' # Blank => objs'[selected'].id \in Ids
    BY <1>2, <1>6 DEF TypeInv, Linked
  <2> QED
    BY <2>1, <2>2 DEF Linked
<1>10. FlowsBelow'
  BY <1>2, <1>5 DEF TypeInv, FlowsBelow, Below, canvasVars
<1> QED
  BY <1>7, <1>8, <1>9, <1>10 DEF TypeInv

(* The list that is sent is what the server has. *)
LEMMA SendInitialDataOK == ASSUME TypeInv, SendInitialData PROVE TypeInv'
<1>1. UNCHANGED <<server, born, automations, objs, canvasVars, selected, builder, modalVars, dialog, requests>>
      /\ list' = server
  BY DEF SendInitialData
<1>2. ServerOK'
  BY <1>1 DEF TypeInv, ServerOK
<1> QED
  BY <1>1, <1>2, PageFrame DEF PageStays, TypeInv, RequestsOK, FlowsBelow, Below, canvasVars

(* The designer is opened for an object the page has under the id. *)
LEMMA EditingIs ==
  ASSUME TypeInv, NEW id \in Ids, EditAutomation(id)
  PROVE  automations[id] \in Objs /\ objs[automations[id]].id = id /\ ShowReteDesigner(automations[id])
  BY DEF EditAutomation, TypeInv, PageOK, Linked

(* Every step keeps the types. *)
LEMMA TypeNext == TypeInv /\ [Next]_vars => TypeInv'
<1> SUFFICES ASSUME TypeInv, [Next]_vars PROVE TypeInv'
  OBVIOUS
<1>1. CASE UNCHANGED vars
  BY <1>1 DEF vars, serverVars, canvasVars, modalVars, TypeInv, ServerOK, CanvasOK, PageOK, BlankOK,
              ModalOK, Linked, RequestsOK, FlowsBelow, Below
<1>2. CASE Designer
  BY <1>2, AddNodeOK, EditNodeOK, DeleteNodeOK, ConnectOK DEF Designer
<1>3. CASE Builder
  BY <1>3, BuilderOK
<1>4. CASE Modal
  BY <1>4, ShowReteDesignerOK, ShowTraditionalBuilderOK, HideModalOK, SaveOK
     DEF Modal, ShowCreateAutomation
<1>5. ASSUME NEW id \in Ids, EditAutomation(id) \/ ToggleAutomation(id) \/ DeleteAutomation(id)
      PROVE  TypeInv'
  BY <1>5, EditingIs, ShowReteDesignerOK, AskOK
<1>6. ASSUME NEW r \in requests, ServerHandles(r) \/ Lose(r) \/ Answer(r)
      PROVE  TypeInv'
  BY <1>6, ServerHandlesOK, LoseOK, AnswerOK
<1>7. CASE SendInitialData \/ LoadAutomations
  BY <1>7, SendInitialDataOK, LoadAutomationsOK
<1> QED
  BY <1>1, <1>2, <1>3, <1>4, <1>5, <1>6, <1>7 DEF Next

(* Server, page, canvas and requests are well formed throughout. *)
THEOREM TypeCorrect == Spec => []TypeInv
<1>1. Init => TypeInv
  BY TypeInit
<1>2. TypeInv /\ [Next]_vars => TypeInv'
  BY TypeNext
<1> QED
  BY <1>1, <1>2, PTL DEF Spec

(***************************************************************************)
(* The builder.                                                            *)
(***************************************************************************)

(* What cannot be drawn has one of the two causes that BuilderOpens names. *)
LEMMA Undrawn ==
  ASSUME ListsOK(builder), ~CanDraw(builder.triggers, builder.conditions, builder.actions)
  PROVE  \/ \E i \in Range(builder.triggers) : ~(TriggerNeeds(i) \subseteq TestedFields)
         \/ \E i \in Range(builder.conditions) : ~(ConditionNeeds(i) \subseteq TestedFields)
         \/ \E i \in Range(builder.actions) :
              \/ ~(ActionNeeds(i) \subseteq ActionFields)
              \/ i.type = "device_command" /\ ActionNeeds(i) # {}
<1>1. CASE \E i \in Range(builder.triggers) : ~(TriggerNeeds(i) \subseteq DOMAIN i)
  <2>1. PICK i \in Range(builder.triggers) : ~(TriggerNeeds(i) \subseteq DOMAIN i)
    BY <1>1
  <2>2. TriggerNeeds(i) = {"interval"}
    BY <2>1 DEF TriggerNeeds
  <2> QED
    BY <2>2 DEF TestedFields
<1>2. CASE \E i \in Range(builder.conditions) : ~(ConditionNeeds(i) \subseteq DOMAIN i)
  <2>1. PICK i \in Range(builder.conditions) : ~(ConditionNeeds(i) \subseteq DOMAIN i)
    BY <1>2
  <2>2. ConditionNeeds(i) = {"days"}
    BY <2>1 DEF ConditionNeeds
  <2> QED
    BY <2>2 DEF TestedFields
<1>3. CASE \E i \in Range(builder.actions) : ~(ActionNeeds(i) \subseteq DOMAIN i)
  <2>1. PICK i \in Range(builder.actions) : ~(ActionNeeds(i) \subseteq DOMAIN i)
    BY <1>3
  <2>2. CASE i.type = "delay"
    <3>1. ActionNeeds(i) = {"delay"}
      BY <2>2 DEF ActionNeeds
    <3> QED
      BY <3>1 DEF ActionFields
  <2>3. CASE i.type = "device_control"
    <3>1. CommandOK(i)
      BY DEF ListsOK
    <3>2. ActionNeeds(i) \subseteq DOMAIN i
      BY <2>3, <3>1 DEF ActionNeeds, CommandOK, DataCommands
    <3> QED
      BY <2>1, <3>2
  <2>4. CASE i.type = "device_command"
    BY <2>1, <2>4
  <2>5. CASE i.type \notin {"delay", "device_control", "device_command"}
    BY <2>1, <2>5 DEF ActionNeeds
  <2> QED
    BY <2>2, <2>3, <2>4, <2>5
<1> QED
  BY <1>1, <1>2, <1>3 DEF CanDraw

(* The builder opens an automation unless an item needs a field that the    *)
(* server drops, or is a command that was typed in the designer.            *)
THEOREM Opens == Spec => []BuilderOpens
<1>1. TypeInv => BuilderOpens
  BY Undrawn DEF TypeInv, PageOK, ModalOK, BuilderOpens
<1> QED
  BY <1>1, TypeCorrect, PTL

(***************************************************************************)
(* The canvas.                                                             *)
(***************************************************************************)

Joins(cs, ns) == \A c \in cs : Ends(c) \subseteq ns
FlowSound(cs, flow) == flow # None => Joins(IF flow.shared THEN cs ELSE flow.connections, flow.nodes)

(* The connections of the canvas, of a flow and of a flow to save join     *)
(* nodes of their own.                                                     *)
AllSound(cs) ==
  /\ \A id \in Ids : automations[id] # None => FlowSound(cs, objs[automations[id]].flow)
  /\ \A r \in requests : IsSave(r) => FlowSound(cs, r.data.flow)

SoundInv == loose \/ (Joins(connections, nodes) /\ AllSound(connections))

(* A flow that is left the connections has sound ones if it had. *)
LEMMA LeftSound ==
  ASSUME NEW flow, FlowSound(connections, flow), NEW cs
  PROVE  FlowSound(cs, LeaveFlow(flow))
  BY DEF FlowSound, LeaveFlow, ConnectionsOf

(* Flows are sound after the designer took a new array. *)
LEMMA AllLeftSound ==
  ASSUME TypeInv, AllSound(connections), NEW cs, UNCHANGED automations,
         Everywhere(LeaveConnections)
  PROVE  /\ \A id \in Ids : automations'[id] # None => FlowSound(cs, objs'[automations'[id]].flow)
         /\ \A q \in requests' : IsSave(q) => FlowSound(cs, q.data.flow)
<1>1. ASSUME NEW id \in Ids, automations[id] # None
      PROVE  FlowSound(cs, objs'[automations[id]].flow)
  <2>1. automations[id] \in Objs /\ FlowSound(connections, objs[automations[id]].flow)
    BY <1>1 DEF TypeInv, PageOK, AllSound
  <2> DEFINE o == automations[id]
  <2>a. o \in Objs
    BY <2>1
  <2> HIDE DEF o
  <2>b. objs'[o] = LeaveConnections(objs[o]) /\ Holder(objs[o]) /\ PageOK
    BY <2>a, LeavingConnections DEF TypeInv, PageOK, ObjOK
  <2>c. objs'[o].flow = LeaveFlow(objs[o].flow)
    BY <2>b, LeaveConnectionsIs
  <2>2. objs'[automations[id]].flow = LeaveFlow(objs[automations[id]].flow)
    BY <2>c DEF o
  <2> QED
    BY <2>1, <2>2, LeftSound
<1>2. ASSUME NEW q \in requests', IsSave(q) PROVE FlowSound(cs, q.data.flow)
  <2>1. PICK r \in requests : LeftBy(q, r, LeaveConnections(r.data))
    BY LeavingConnections
  <2>2. IsSave(r) /\ Holder(r.data) /\ q.data = LeaveConnections(r.data)
    BY <1>2, <2>1 DEF LeftBy, SameCall, IsSave, TypeInv, RequestsOK, RequestOK
  <2>3. FlowSound(connections, r.data.flow) /\ q.data.flow = LeaveFlow(r.data.flow)
    BY <2>2, LeaveConnectionsIs DEF AllSound, TypeInv
  <2> QED
    BY <2>3, LeftSound
<1> QED
  BY <1>1, <1>2

(* Opening the designer keeps connections among the nodes. *)
LEMMA SoundShow ==
  ASSUME TypeInv, SoundInv, NEW o \in {Blank} \cup Objs, ShowReteDesigner(o),
         o = Blank \/ \E id \in Ids : automations[id] = o
  PROVE  SoundInv'
<1>1. UNCHANGED <<automations, loose>>
  BY DEF ShowReteDesigner
<1>2. CASE loose
  BY <1>1, <1>2 DEF SoundInv
<1>3. CASE ~loose /\ UNCHANGED <<nodes, connections, objs, requests>>
  BY <1>1, <1>3 DEF SoundInv, AllSound
<1>4. CASE ~loose /\ objs[o].flow # None /\ LoadFlow(objs[o].flow)
  <2>1. AllSound(connections)
    BY <1>4 DEF SoundInv
  <2>2. FlowSound(connections, objs[o].flow)
    BY <1>4, <2>1, Bounds DEF AllSound, TypeInv, BlankOK
  <2>3. Joins(connections', nodes')
    BY <1>4, <2>2, LoadFlowOK DEF FlowSound, LoadFlow, ConnectionsOf
  <2>4. AllSound(connections)'
    BY <1>1, <1>4, <2>1, AllLeftSound DEF LoadFlow, AllSound
  <2> QED
    BY <2>3, <2>4 DEF SoundInv
<1> QED
  BY <1>2, <1>3, <1>4 DEF ShowReteDesigner, InitDesigner

(* Opening the builder leaves flows alone. *)
LEMMA SoundBuilder ==
  ASSUME TypeInv, SoundInv, ShowTraditionalBuilder
  PROVE  SoundInv'
<1>1. UNCHANGED <<automations, loose, connections, nodes>> /\ Everywhere(LeaveLists)
  BY DEF ShowTraditionalBuilder, historyVars, canvasVars
<1>2. ASSUME AllSound(connections) PROVE AllSound(connections)'
  <2>1. ASSUME NEW id \in Ids, automations[id] # None
        PROVE  FlowSound(connections, objs'[automations[id]].flow)
    <3>1. automations[id] \in Objs /\ FlowSound(connections, objs[automations[id]].flow)
      BY <1>2, <2>1 DEF TypeInv, PageOK, AllSound
    <3>2. objs'[automations[id]].flow = objs[automations[id]].flow
      BY <1>1, <3>1, LeavingLists, LeaveListsIs DEF TypeInv, PageOK, ObjOK
    <3> QED
      BY <3>1, <3>2
  <2>2. ASSUME NEW q \in requests', IsSave(q) PROVE FlowSound(connections, q.data.flow)
    <3>1. PICK r \in requests : LeftBy(q, r, LeaveLists(r.data))
      BY <1>1, LeavingLists
    <3>2. IsSave(r) /\ Holder(r.data) /\ q.data = LeaveLists(r.data)
      BY <2>2, <3>1 DEF LeftBy, SameCall, IsSave, TypeInv, RequestsOK, RequestOK
    <3>3. FlowSound(connections, r.data.flow) /\ q.data.flow = r.data.flow
      BY <1>2, <3>2, LeaveListsIs DEF AllSound, TypeInv
    <3> QED
      BY <3>3
  <2> QED
    BY <1>1, <2>1, <2>2 DEF AllSound
<1> QED
  BY <1>1, <1>2 DEF SoundInv

(* Drawing and deleting on the canvas keep connections among the nodes. *)
LEMMA SoundDesigner == ASSUME TypeInv, SoundInv, Designer PROVE SoundInv'
<1>1. CASE loose
  <2>1. loose'
    BY <1>1 DEF Designer, AddNode, DeleteNode, EditNode, Connect, DeleteConnection, ClearAll
  <2> QED
    BY <2>1 DEF SoundInv
<1> SUFFICES ASSUME ~loose PROVE SoundInv'
  BY <1>1
<1>2. Joins(connections, nodes) /\ AllSound(connections) /\ UNCHANGED automations
  BY DEF SoundInv, Designer, AddNode, DeleteNode, EditNode, Connect, DeleteConnection, ClearAll,
         Draw, Canvas
<1>3. ASSUME NEW type, AddNode(type) PROVE SoundInv'
  BY <1>2, <1>3 DEF AddNode, SoundInv, AllSound, Joins
<1>4. ASSUME NEW n, EditNode(n) PROVE SoundInv'
  BY <1>2, <1>4 DEF EditNode, SoundInv, AllSound
<1>5. ASSUME NEW c \in connections, DeleteConnection(c) PROVE SoundInv'
  <2>1. connections' \subseteq connections /\ UNCHANGED <<nodes, objs, requests>>
    BY <1>5 DEF DeleteConnection
  <2>2. \A flow : FlowSound(connections, flow) => FlowSound(connections', flow)
    BY <2>1 DEF FlowSound, Joins
  <2> QED
    BY <1>2, <2>1, <2>2 DEF SoundInv, AllSound, Joins
<1>6. ASSUME NEW n, DeleteNode(n) PROVE SoundInv'
  <2>1. nodes' = nodes \ {n} /\ connections' = Without(n) /\ Everywhere(LeaveConnections)
    BY <1>6 DEF DeleteNode
  <2>2. Joins(connections', nodes')
    BY <1>2, <2>1 DEF Joins, Without
  <2>3. AllSound(connections)'
    BY <1>2, <2>1, AllLeftSound DEF AllSound
  <2> QED
    BY <2>2, <2>3 DEF SoundInv
<1>7. CASE ClearAll
  <2>1. nodes' = {} /\ connections' = {} /\ Everywhere(LeaveConnections)
    BY <1>7 DEF ClearAll
  <2>2. AllSound(connections)'
    BY <1>2, <2>1, AllLeftSound DEF AllSound
  <2> QED
    BY <2>1, <2>2 DEF SoundInv, Joins
<1>8. ASSUME NEW n \in nodes, NEW m \in nodes, Connect(n, m) PROVE SoundInv'
  <2>1. PICK k \in 1..MaxItems : connections' = connections \cup {<<n, m, k>>}
    BY <1>8 DEF Connect
  <2>2. (ConnectionsShared => loose') /\ UNCHANGED <<nodes, objs, requests>>
    BY <1>8 DEF Connect
  <2>3. Joins(connections', nodes')
    BY <1>2, <2>1, <2>2 DEF Joins, Ends
  <2>4. ASSUME ~ConnectionsShared PROVE AllSound(connections)'
    BY <1>2, <2>2, <2>4 DEF AllSound, ConnectionsShared, SharesConnections, FlowSound
  <2> QED
    BY <2>2, <2>3, <2>4 DEF SoundInv
<1> QED
  BY <1>3, <1>4, <1>5, <1>6, <1>7, <1>8 DEF Designer

(* Steps that leave the canvas and the automations alone. *)
LEMMA SoundPage ==
  ASSUME SoundInv, UNCHANGED <<automations, objs, connections, nodes, loose>>,
         \A q \in requests' : IsSave(q) => \/ \E r \in requests : IsSave(r) /\ q.data = r.data
                                           \/ q.data.flow = None
                                           \/ q.data.flow.shared /\ q.data.flow.nodes = nodes
  PROVE  SoundInv'
  BY DEF SoundInv, AllSound, FlowSound

(* Answers hand flows on as they are. *)
LEMMA SoundAnswer == ASSUME TypeInv, SoundInv, NEW r \in requests, Answer(r) PROVE SoundInv'
<1>1. AnswerStays /\ requests' \subseteq requests
  BY DEF Answer, AnswerStays
<1>2. UNCHANGED <<connections, nodes, loose>>
  BY <1>1 DEF AnswerStays, canvasVars
<1> SUFFICES ASSUME ~loose PROVE AllSound(connections)'
  BY <1>2 DEF SoundInv
<1>3. AllSound(connections)
  BY DEF SoundInv
<1>4. SUFFICES \A id \in Ids : automations'[id] # None => FlowSound(connections, objs'[automations'[id]].flow)
  BY <1>1, <1>2, <1>3 DEF AllSound
<1>5. automations \in [Ids -> Objs \cup {None}]
  BY DEF TypeInv, PageOK
<1>6. CASE UNCHANGED <<automations, objs>>
  BY <1>3, <1>6 DEF AllSound
<1>7. CASE AnswerUpdate(r)
  <2>1. selected \in Objs /\ UNCHANGED automations /\ IsSave(r)
    BY <1>7, Assigning DEF AnswerUpdate, IsSave
  <2>2. PICK x : Assigned(objs[selected], x, r) /\ Becomes(selected, x)
    BY <1>7, Assigning
  <2>3. FlowSound(connections, r.data.flow)
    BY <1>3, <2>1 DEF AllSound
  <2> QED
    BY <1>3, <1>5, <2>1, <2>2, <2>3 DEF AllSound, Assigned, Becomes
<1>8. CASE r.status = "ok" /\ AnswerCreate(r)
  <2>1. PICK o : Made(r, o)
    BY <1>8, Making
  <2>2. FlowSound(connections, Parsed(r.id, r.doc).flow)
    BY DEF Parsed, FlowSound
  <2> QED
    BY <1>3, <1>5, <2>1, <2>2 DEF AllSound, Made, Becomes
<1>9. CASE r.status = "ok" /\ AnswerToggle(r) /\ ~UNCHANGED <<automations, objs>>
  <2>1. UNCHANGED automations /\ automations[r.id] \in Objs
    BY <1>9, Switching
  <2>2. PICK x : Switched(objs[automations[r.id]], x, r.op = "enable") /\ Becomes(automations[r.id], x)
    BY <1>9, Switching
  <2>3. r.id \in Ids /\ x.flow = objs[automations[r.id]].flow
    BY <1>9, <2>2 DEF Switched, TypeInv, RequestsOK, RequestOK
  <2> QED
    BY <1>3, <1>5, <2>1, <2>2, <2>3, Bounds DEF AllSound, Becomes
<1>10. CASE AnswerDelete(r)
  <2>1. automations' = [automations EXCEPT ![r.id] = None] /\ UNCHANGED objs
    BY <1>10 DEF AnswerDelete
  <2>2. \A id \in Ids : automations'[id] # None => automations'[id] = automations[id]
    BY <1>5, <2>1
  <2> QED
    BY <1>3, <2>1, <2>2 DEF AllSound
<1> QED
  BY <1>6, <1>7, <1>8, <1>9, <1>10 DEF Answer, AnswerUpdateNoSelection

(* A list brings objects without flows. *)
LEMMA SoundLoad == ASSUME TypeInv, SoundInv, LoadAutomations PROVE SoundInv'
<1>1. PICK present, obj : Loaded(present, obj)
  BY Loading
<1>2. UNCHANGED <<connections, nodes, loose, requests>>
  BY DEF LoadAutomations, canvasVars
<1>3. ASSUME NEW id \in Ids, automations'[id] # None
      PROVE  FlowSound(connections', objs'[automations'[id]].flow)
  <2>1. id \in present /\ automations'[id] = obj[id]
    BY <1>1, <1>3 DEF Loaded
  <2>2. objs'[obj[id]] = Parsed(id, list[id])
    BY <1>1, <2>1 DEF Loaded
  <2> QED
    BY <2>1, <2>2 DEF FlowSound, Parsed
<1> QED
  BY <1>2, <1>3 DEF SoundInv, AllSound

(* Every step keeps connections among the nodes, unless an array was shared. *)
LEMMA SoundNext == TypeInv /\ SoundInv /\ [Next]_vars => SoundInv'
<1> SUFFICES ASSUME TypeInv, SoundInv, [Next]_vars PROVE SoundInv'
  OBVIOUS
<1>1. CASE \/ UNCHANGED vars \/ Builder \/ HideModal \/ SendInitialData
           \/ \E id \in Ids : ToggleAutomation(id) \/ DeleteAutomation(id)
  <2>1. CASE UNCHANGED vars \/ Builder \/ HideModal \/ SendInitialData
    <3>1. UNCHANGED <<automations, objs, connections, nodes, loose, requests>>
      BY <2>1 DEF vars, canvasVars, historyVars, HideModal, SendInitialData, Builder, OpenDialog, CloseDialog,
                  RemoveItem, SaveTrigger, SaveCondition, SaveAction, Push, Render
    <3> QED
      BY <3>1, SoundPage
  <2>2. ASSUME NEW id \in Ids, ToggleAutomation(id) \/ DeleteAutomation(id) PROVE SoundInv'
    <3>1. PICK r : Asked(r)
      BY <2>2, AskIs
    <3> QED
      BY <3>1, SoundPage DEF Asked, PageStays, canvasVars, historyVars
  <2> QED
    BY <1>1, <2>1, <2>2
<1>2. CASE Designer
  BY <1>2, SoundDesigner
<1>3. CASE ShowCreateAutomation
  BY <1>3, SoundShow DEF ShowCreateAutomation
<1>4. CASE ShowTraditionalBuilder
  BY <1>4, SoundBuilder
<1>5. CASE SaveReteAutomation \/ SaveAutomation
  <2>1. PICK r : SavedRequest(r) /\ (Drawing(r) \/ Filled(r))
    BY <1>5, SaveReteIs, SaveFormIs
  <2>2. r.data.flow = None \/ (r.data.flow.shared /\ r.data.flow.nodes = nodes)
    BY <2>1 DEF Drawing, Filled
  <2> QED
    BY <2>1, <2>2, SoundPage DEF SavedRequest, PageStays, canvasVars, historyVars
<1>6. ASSUME NEW id \in Ids, EditAutomation(id) PROVE SoundInv'
  BY <1>6, EditingIs, SoundShow
<1>7. ASSUME NEW r \in requests, ServerHandles(r) \/ Lose(r) PROVE SoundInv'
  <2>1. PageStays /\ UNCHANGED loose /\ \E q : Settled(r, q)
    BY <1>7, Handling, LosingIs
  <2>2. PICK q : Settled(r, q)
    BY <2>1
  <2> QED
    BY <2>1, <2>2, SoundPage DEF Settled, IsSave, PageStays, canvasVars
<1>8. ASSUME NEW r \in requests, Answer(r) PROVE SoundInv'
  BY <1>8, SoundAnswer
<1>9. CASE LoadAutomations
  BY <1>9, SoundLoad
<1> QED
  BY <1>1, <1>2, <1>3, <1>4, <1>5, <1>6, <1>7, <1>8, <1>9 DEF Next, Modal

(* A new node never takes the number of one the canvas or a flow holds,     *)
(* and connections join nodes of the canvas.                               *)
THEOREM Sound == Spec => []CanvasSound
<1>1. Init => SoundInv
  BY DEF Init, SoundInv, AllSound, Joins
<1>2. TypeInv /\ SoundInv => CanvasSound
  <2> SUFFICES ASSUME TypeInv, SoundInv PROVE CanvasSound
    OBVIOUS
  <2>1. nodes \subseteq 1..nextNodeId - 1 /\ nextNodeId \in Nat
    BY Bounds DEF TypeInv, CanvasOK
  <2>2. \A n \in 1..nextNodeId - 1 : n < nextNodeId
    BY <2>1
  <2>3. \A o \in {automations[id] : id \in Ids} \ {None} : Below(objs[o])
    BY DEF TypeInv, PageOK, FlowsBelow
  <2> QED
    BY <2>1, <2>2, <2>3 DEF SoundInv, Joins, Below, CanvasSound
<1>3. TypeInv /\ SoundInv /\ [Next]_vars => SoundInv'
  BY SoundNext
<1> QED
  BY <1>1, <1>2, <1>3, TypeCorrect, PTL DEF Spec

(***************************************************************************)
(* For whom the items are made.                                            *)
(***************************************************************************)

(* x holds what was made for who: nd are the nodes, b is the builder.       *)
Held(nd, b, x, who) ==
  /\ MadeFor(IF x.shared THEN b ELSE x.lists, who)
  /\ x.flow # None => \A n \in x.flow.nodes : nd[n].owner = who

OwnDocs(docs, strays) ==
  \A id \in Ids : docs[id] # None /\ id \notin strays => MadeFor(Lists(docs[id]), id)

OwnObj(x, strays, nd, b) == x.id \in strays \/ Held(nd, b, x, x.id)

OwnRequest(r, strays, nd, b) ==
  /\ r.op = "update" /\ r.id \notin strays => Held(nd, b, r.data, r.id) /\ MadeFor(Lists(r.doc), r.id)
  /\ r.op = "create" /\ r.status = "sent" => (r.strayed \/ MadeFor(Lists(r.doc), New))
  /\ r.op = "create" /\ r.status = "ok" /\ r.id \notin strays => MadeFor(Lists(r.doc), r.id)

OwnCanvas == Owner(selected) \in strayed \/ \A n \in nodes : node[n].owner = Owner(selected)

(* The arrays that are shared are of the automation in the modal. *)
OwnBuilder ==
  footer = "builder" =>
    /\ Owner(selected) \in strayed \ {New} \/ MadeFor(builder, Owner(selected))
    /\ \A o \in Objs : objs[o].shared => objs[o].id \in strayed \cup {Owner(selected)}
    /\ \A r \in requests : r.op = "update" /\ r.data.shared => r.id \in strayed \cup {Owner(selected)}

OwnInv ==
  /\ OwnDocs(server, strayed) /\ (list # None => OwnDocs(list, strayed))
  /\ OwnCanvas
  /\ \A o \in Objs : OwnObj(objs[o], strayed, node, builder)
  /\ \A r \in requests : OwnRequest(r, strayed, node, builder)
  /\ OwnBuilder

(* The owner of an object is its id; of the literal of a new one it is New. *)
LEMMA OwnersAre ==
  ASSUME TypeInv
  PROVE  /\ Owner(Blank) = New /\ \A o \in Objs : Owner(o) = objs[o].id
         /\ \A o \in Objs : objs[o].id # New
         /\ Owner(selected) \in Ids \cup {New}
         /\ New \notin Ids
  BY Bounds, EditorAssumption DEF Owner, TypeInv, PageOK, ObjOK, Linked

(* The automations of the start are made for the ids they have. *)
LEMMA OwnInit == Init => OwnInv
<1> SUFFICES ASSUME Init PROVE OwnInv
  OBVIOUS
<1>1. OwnDocs(server, strayed) /\ list = server
  BY StoredAssumption DEF Init, OwnDocs
<1>2. \A o \in Objs : OwnObj(objs[o], strayed, node, builder)
  BY NoListsOK DEF Init, OwnObj, Held, NewObject
<1> QED
  BY <1>1, <1>2 DEF Init, OwnInv, OwnCanvas, OwnBuilder

(* Steps after which the page is as before. *)
LEMMA OwnPageStays ==
  ASSUME TypeInv, OwnInv, PageStays, strayed \subseteq strayed',
         OwnDocs(server', strayed'), list' # None => OwnDocs(list', strayed'),
         \A q \in requests' :
           /\ OwnRequest(q, strayed', node, builder)
           /\ footer = "builder" /\ q.op = "update" /\ q.data.shared
                => q.id \in strayed' \cup {Owner(selected)}
  PROVE  OwnInv'
<1>1. UNCHANGED <<objs, node, nodes, selected, builder, footer>>
  BY DEF PageStays, canvasVars, modalVars
<1>2. Owner(selected)' = Owner(selected)
  BY <1>1 DEF Owner
<1>3. OwnCanvas'
  BY <1>1, <1>2 DEF OwnInv, OwnCanvas
<1>4. \A o \in Objs : OwnObj(objs[o], strayed, node, builder)'
  BY <1>1 DEF OwnInv, OwnObj
<1>5. OwnBuilder'
  BY <1>1, <1>2 DEF OwnInv, OwnBuilder
<1> QED
  BY <1>1, <1>3, <1>4, <1>5 DEF OwnInv

(* What is made for its automation stays so when more go astray. *)
LEMMA OwnMore ==
  ASSUME NEW r, NEW strays, NEW more, strays \subseteq more, NEW nd, NEW b, OwnRequest(r, strays, nd, b)
  PROVE  OwnRequest(r, more, nd, b)
  BY DEF OwnRequest

(* A save sends what was made for the automation it saves. *)
LEMMA OwnSave ==
  ASSUME TypeInv, OwnInv, NEW r, SavedRequest(r), Drawing(r) \/ Filled(r)
  PROVE  OwnInv'
<1>1. /\ requests' = requests \cup {r} /\ PageStays /\ UNCHANGED <<serverVars, historyVars>>
      /\ r.status = "sent" /\ IsSave(r)
      /\ \/ selected = Blank /\ r.op = "create" /\ Owner(selected) = New
         \/ selected # Blank /\ r.op = "update" /\ r.id = Owner(selected) /\ r.id # New
  BY OwnersAre DEF SavedRequest, TypeInv, PageOK
<1>2. ListsOK(ListsOf(r.data)) /\ r.doc = Kept(r.data.name, r.data.enabled, ListsOf(r.data))
  BY <1>1, ListsOfOK DEF SavedRequest, RequestOK, TypeInv
<1>3. \A who : MadeFor(ListsOf(r.data), who) => MadeFor(Lists(r.doc), who)
  BY <1>2, KeptIs
<1>4. CASE Drawing(r)
  <2>1. ASSUME NEW who, \A n \in nodes : node[n].owner = who
        PROVE  Held(node, builder, r.data, who)
    <3>1. nodes \in SUBSET Nat /\ IsFiniteSet(nodes)
      BY NodesAre DEF TypeInv
    <3>2. \A i \in Range(Items("triggers")) : i.owner = who
      BY <2>1, <3>1, ItemsAre
    <3>3. \A i \in Range(Items("conditions")) : i.owner = who
      BY <2>1, <3>1, ItemsAre
    <3>4. \A i \in Range(Items("actions")) : i.owner = who
      BY <2>1, <3>1, ItemsAre
    <3>5. MadeFor(r.data.lists, who)
      BY <1>4, <3>2, <3>3, <3>4 DEF Drawing, MadeFor, Everything
    <3> QED
      BY <1>4, <2>1, <3>5 DEF Drawing, Held
  <2>2. \A who : Held(node, builder, r.data, who) => MadeFor(ListsOf(r.data), who)
    BY <1>4 DEF Drawing, Held, ListsOf
  <2>3. \/ Owner(selected) \in strayed
        \/ Held(node, builder, r.data, Owner(selected)) /\ MadeFor(Lists(r.doc), Owner(selected))
    <3>1. CASE Owner(selected) \in strayed
      BY <3>1
    <3>2. CASE \A n \in nodes : node[n].owner = Owner(selected)
      <4>1. Held(node, builder, r.data, Owner(selected))
        BY <2>1, <3>2
      <4> QED
        BY <1>3, <2>2, <4>1
    <3> QED
      BY <3>1, <3>2 DEF OwnInv, OwnCanvas
  <2>4. New \in strayed => r.strayed
    BY <1>4 DEF Drawing
  <2>5. OwnRequest(r, strayed, node, builder)
    BY <1>1, <2>3, <2>4 DEF OwnRequest
  <2>6. footer # "builder"
    BY <1>4 DEF Drawing
  <2> QED
    BY <1>1, <2>5, <2>6, OwnPageStays DEF OwnInv, serverVars, historyVars
<1>5. CASE Filled(r)
  <2>1. Owner(selected) \in strayed \ {New} \/ MadeFor(builder, Owner(selected))
    BY <1>5 DEF Filled, OwnInv, OwnBuilder
  <2>2. \A who : MadeFor(builder, who) => Held(node, builder, r.data, who) /\ MadeFor(ListsOf(r.data), who)
    BY <1>5 DEF Filled, Held, ListsOf
  <2>3. OwnRequest(r, strayed, node, builder)
    BY <1>1, <1>3, <2>1, <2>2 DEF OwnRequest
  <2>4. r.op = "update" => r.id = Owner(selected)
    BY <1>1
  <2>5. \A q \in requests' :
           /\ OwnRequest(q, strayed', node, builder)
           /\ footer = "builder" /\ q.op = "update" /\ q.data.shared
                => q.id \in strayed' \cup {Owner(selected)}
    BY <1>1, <2>3, <2>4 DEF OwnInv, OwnBuilder, historyVars
  <2> QED
    BY <1>1, <2>5, OwnPageStays DEF OwnInv, serverVars, historyVars
<1> QED
  BY <1>4, <1>5

(* The toggle and the deletion send no items. *)
LEMMA OwnAsk ==
  ASSUME TypeInv, OwnInv, NEW r, Asked(r)
  PROVE  OwnInv'
<1>1. /\ requests' = requests \cup {r} /\ PageStays /\ UNCHANGED <<serverVars, historyVars>>
      /\ r.op \notin {"create", "update"}
  BY DEF Asked, IsSave
<1>2. OwnRequest(r, strayed, node, builder)
  BY <1>1 DEF OwnRequest
<1>3. \A q \in requests' :
           /\ OwnRequest(q, strayed', node, builder)
           /\ footer = "builder" /\ q.op = "update" /\ q.data.shared
                => q.id \in strayed' \cup {Owner(selected)}
  BY <1>1, <1>2 DEF OwnInv, OwnBuilder, historyVars
<1> QED
  BY <1>1, <1>3, OwnPageStays DEF OwnInv, serverVars, historyVars

(* The server stores what was made for the automation, and gives new items its id. *)
LEMMA OwnServer ==
  ASSUME TypeInv, OwnInv, NEW r \in requests, ServerHandles(r)
  PROVE  OwnInv'
<1>1. PageStays /\ UNCHANGED list /\ r.status = "sent"
  BY Handling
<1>2. PICK q : Settled(r, q) /\ (Created(r, q) \/ Changed(r, q))
  BY Handling
<1>3. strayed \subseteq strayed'
  BY <1>2 DEF Created, Changed
<1>4. OwnRequest(r, strayed, node, builder) /\ RequestOK(r) /\ DocsOK(server)
  BY DEF OwnInv, TypeInv, RequestsOK, ServerOK
<1>5. list' # None => OwnDocs(list', strayed')
  BY <1>1, <1>3 DEF OwnInv, OwnDocs
<1>6. OwnDocs(server', strayed') /\ OwnRequest(q, strayed', node, builder)
  <2>1. CASE Created(r, q)
    <3>1. DocOK(r.doc) /\ q.doc = GivenDoc(r.doc, q.id)
      BY <1>4, <2>1 DEF Created, RequestOK, IsSave
    <3>2. q.id \notin strayed' => MadeFor(Lists(r.doc), New)
      BY <1>1, <1>4, <2>1 DEF Created, OwnRequest
    <3>3. q.id \notin strayed' => MadeFor(Lists(q.doc), q.id)
      BY <3>1, <3>2, GivenDocIs
    <3>4. OwnDocs(server', strayed')
      BY <1>3, <2>1, <3>3 DEF Created, OwnDocs, OwnInv, DocsOK
    <3>5. OwnRequest(q, strayed', node, builder)
      BY <1>2, <2>1, <3>3 DEF Created, Settled, OwnRequest
    <3> QED
      BY <3>4, <3>5
  <2>2. CASE Changed(r, q)
    <3>1. /\ q.op = r.op /\ q.data = r.data /\ q.id = r.id /\ q.doc = r.doc /\ r.op # "create"
          /\ strayed' = strayed
      BY <1>2, <2>2 DEF Settled, Changed
    <3>2. OwnRequest(q, strayed', node, builder)
      BY <1>4, <3>1 DEF OwnRequest
    <3>3. CASE UNCHANGED server
      BY <3>1, <3>2, <3>3 DEF OwnInv
    <3>4. CASE server[r.id] # None /\ server' = [id \in Ids |-> IF id = r.id THEN After(r, server[r.id]) ELSE server[id]]
      <4>1. r.id \in Ids /\ DocOK(server[r.id])
        BY <1>4, <2>2, <3>4 DEF Changed, DocsOK
      <4>2. r.id \notin strayed => MadeFor(Lists(server[r.id]), r.id)
        BY <3>4, <4>1 DEF OwnInv, OwnDocs, DocsOK
      <4>3. After(r, server[r.id]) # None /\ r.id \notin strayed => MadeFor(Lists(After(r, server[r.id])), r.id)
        <5>1. CASE r.op = "update"
          BY <1>4, <3>1, <4>1, <5>1, AfterIs DEF OwnRequest
        <5>2. CASE r.op = "delete"
          BY <1>4, <3>1, <4>1, <5>2, AfterIs
        <5>3. CASE r.op \in {"enable", "disable"}
          BY <1>4, <3>1, <4>1, <4>2, <5>3, AfterIs
        <5> QED
          BY <1>4, <3>1, <5>1, <5>2, <5>3 DEF RequestOK
      <4>4. OwnDocs(server', strayed')
        BY <3>1, <3>4, <4>3 DEF OwnInv, OwnDocs, DocsOK
      <4> QED
        BY <3>2, <4>4
    <3> QED
      BY <2>2, <3>3, <3>4 DEF Changed
  <2> QED
    BY <1>2, <2>1, <2>2
<1>7. \A p \in requests' :
           /\ OwnRequest(p, strayed', node, builder)
           /\ footer = "builder" /\ p.op = "update" /\ p.data.shared
                => p.id \in strayed' \cup {Owner(selected)}
  <2>1. q.op = r.op /\ q.data = r.data /\ (r.op = "update" => q.id = r.id)
    BY <1>2 DEF Settled, Created, Changed
  <2>2. \A p \in requests : OwnRequest(p, strayed', node, builder)
    BY <1>3, OwnMore DEF OwnInv
  <2>3. \A p \in requests' : p \in requests \/ p = q
    BY <1>2 DEF Settled
  <2> QED
    BY <1>3, <1>6, <2>1, <2>2, <2>3 DEF OwnInv, OwnBuilder
<1> QED
  BY <1>1, <1>3, <1>5, <1>6, <1>7, OwnPageStays

(* A loss changes no items. *)
LEMMA OwnLose ==
  ASSUME TypeInv, OwnInv, NEW r \in requests, Lose(r)
  PROVE  OwnInv'
<1>1. PageStays /\ UNCHANGED <<serverVars, strayed>>
  BY LosingIs
<1>2. PICK q : Settled(r, q) /\ q.status = "failed" /\ q.id = r.id /\ q.doc = r.doc
  BY LosingIs
<1>3. q.op = r.op /\ q.data = r.data
  BY <1>2 DEF Settled
<1>4. OwnRequest(q, strayed, node, builder)
  BY <1>2, <1>3 DEF OwnInv, OwnRequest
<1>5. \A p \in requests' : p \in requests \/ p = q
  BY <1>2 DEF Settled
<1>6. \A p \in requests' :
           /\ OwnRequest(p, strayed', node, builder)
           /\ footer = "builder" /\ p.op = "update" /\ p.data.shared
                => p.id \in strayed' \cup {Owner(selected)}
  BY <1>1, <1>2, <1>3, <1>4, <1>5 DEF OwnInv, OwnBuilder
<1> QED
  BY <1>1, <1>6, OwnPageStays DEF OwnInv, serverVars

(* An object that is left arrays has the items it had. *)
LEMMA LeftHeld ==
  ASSUME TypeInv, NEW x, Holder(x), NEW nd, NEW who
  PROVE  /\ \A b : Held(nd, b, x, who) => Held(nd, b, LeaveConnections(x), who)
         /\ \A b : Held(nd, builder, x, who) => Held(nd, b, LeaveLists(x), who)
<1>1. ASSUME NEW b, Held(nd, b, x, who) PROVE Held(nd, b, LeaveConnections(x), who)
  <2>1. /\ LeaveConnections(x).shared = x.shared /\ LeaveConnections(x).lists = x.lists
        /\ LeaveConnections(x).flow = LeaveFlow(x.flow)
    BY LeaveConnectionsIs DEF TypeInv
  <2> QED
    BY <1>1, <2>1 DEF Held, LeaveFlow
<1>2. ASSUME NEW b, Held(nd, builder, x, who) PROVE Held(nd, b, LeaveLists(x), who)
  <2>1. /\ ~LeaveLists(x).shared /\ LeaveLists(x).lists = ListsOf(x)
        /\ LeaveLists(x).flow = x.flow
    BY LeaveListsIs DEF TypeInv
  <2> QED
    BY <1>2, <2>1 DEF Held, ListsOf
<1> QED
  BY <1>1, <1>2

(* What is left by those who took new arrays. *)
LEMMA LeftRequest ==
  ASSUME NEW r, NEW q, NEW data, LeftBy(q, r, data), NEW strays, NEW nd, NEW b, NEW c,
         OwnRequest(r, strays, nd, b),
         IsSave(r) /\ Held(nd, b, r.data, r.id) => Held(nd, c, data, r.id)
  PROVE  OwnRequest(q, strays, nd, c)
  BY DEF LeftBy, SameCall, OwnRequest, IsSave

(* Items stay with their automations when the designer takes a new array. *)
LEMMA OwnConnectionsLeft ==
  ASSUME TypeInv, OwnInv, Everywhere(LeaveConnections)
  PROVE  /\ \A o \in Objs : /\ OwnObj(objs'[o], strayed, node, builder)
                            /\ objs'[o].shared = objs[o].shared /\ objs'[o].id = objs[o].id
         /\ \A q \in requests' : OwnRequest(q, strayed, node, builder)
         /\ \A q \in requests' : q.op = "update" /\ q.data.shared =>
              \E r \in requests : r.op = "update" /\ r.data.shared /\ q.id = r.id
<1>1. ASSUME NEW o \in Objs
      PROVE  /\ OwnObj(objs'[o], strayed, node, builder)
             /\ objs'[o].shared = objs[o].shared /\ objs'[o].id = objs[o].id
  <2>1. objs'[o] = LeaveConnections(objs[o]) /\ ObjOK(objs[o]) /\ OwnObj(objs[o], strayed, node, builder)
    BY LeavingConnections DEF TypeInv, PageOK, OwnInv
  <2>2. objs'[o].shared = objs[o].shared /\ objs'[o].id = objs[o].id
    BY <2>1, LeaveConnectionsIs DEF ObjOK, TypeInv
  <2>3. Holder(objs[o])
    BY <2>1 DEF ObjOK
  <2>4. Held(node, builder, objs[o], objs[o].id) => Held(node, builder, objs'[o], objs[o].id)
    BY <2>1, <2>3, LeftHeld
  <2> QED
    BY <2>1, <2>2, <2>4 DEF OwnObj
<1>2. ASSUME NEW q \in requests'
      PROVE  /\ OwnRequest(q, strayed, node, builder)
             /\ q.op = "update" /\ q.data.shared =>
                  \E r \in requests : r.op = "update" /\ r.data.shared /\ q.id = r.id
  <2>1. PICK r \in requests : LeftBy(q, r, LeaveConnections(r.data))
    BY LeavingConnections
  <2>2. OwnRequest(r, strayed, node, builder) /\ (IsSave(r) => Holder(r.data))
    BY DEF OwnInv, TypeInv, RequestsOK, RequestOK
  <2>3. IsSave(r) /\ Held(node, builder, r.data, r.id) =>
          Held(node, builder, LeaveConnections(r.data), r.id)
    BY <2>2, LeftHeld
  <2>4. OwnRequest(q, strayed, node, builder)
    BY <2>1, <2>2, <2>3, LeftRequest
  <2>5. IsSave(r) => LeaveConnections(r.data).shared = r.data.shared
    BY <2>2, LeaveConnectionsIs DEF TypeInv
  <2> QED
    BY <2>1, <2>4, <2>5 DEF LeftBy, SameCall, IsSave
<1> QED
  BY <1>1, <1>2

(* Items stay with their automations when the builder takes new arrays. *)
LEMMA OwnListsLeft ==
  ASSUME TypeInv, OwnInv, Everywhere(LeaveLists)
  PROVE  /\ \A o \in Objs : /\ OwnObj(objs'[o], strayed, node, builder')
                            /\ ~objs'[o].shared /\ objs'[o].id = objs[o].id
         /\ \A q \in requests' : OwnRequest(q, strayed, node, builder')
         /\ \A q \in requests' : ~(q.op = "update" /\ q.data.shared)
<1>1. ASSUME NEW o \in Objs
      PROVE  /\ OwnObj(objs'[o], strayed, node, builder')
             /\ ~objs'[o].shared /\ objs'[o].id = objs[o].id
  <2>1. objs'[o] = LeaveLists(objs[o]) /\ ObjOK(objs[o]) /\ OwnObj(objs[o], strayed, node, builder)
    BY LeavingLists DEF TypeInv, PageOK, OwnInv
  <2>2. ~objs'[o].shared /\ objs'[o].id = objs[o].id
    BY <2>1, LeaveListsIs DEF ObjOK, TypeInv
  <2>3. Holder(objs[o])
    BY <2>1 DEF ObjOK
  <2>4. Held(node, builder, objs[o], objs[o].id) => Held(node, builder', objs'[o], objs[o].id)
    BY <2>1, <2>3, LeftHeld
  <2> QED
    BY <2>1, <2>2, <2>4 DEF OwnObj
<1>2. ASSUME NEW q \in requests'
      PROVE  OwnRequest(q, strayed, node, builder') /\ ~(q.op = "update" /\ q.data.shared)
  <2>1. PICK r \in requests : LeftBy(q, r, LeaveLists(r.data))
    BY LeavingLists
  <2>2. OwnRequest(r, strayed, node, builder) /\ (IsSave(r) => Holder(r.data))
    BY DEF OwnInv, TypeInv, RequestsOK, RequestOK
  <2>3. IsSave(r) /\ Held(node, builder, r.data, r.id) =>
          Held(node, builder', LeaveLists(r.data), r.id)
    BY <2>2, LeftHeld
  <2>4. OwnRequest(q, strayed, node, builder')
    BY <2>1, <2>2, <2>3, LeftRequest
  <2>5. IsSave(r) => ~LeaveLists(r.data).shared
    BY <2>2, LeaveListsIs DEF TypeInv
  <2> QED
    BY <2>1, <2>4, <2>5 DEF LeftBy, SameCall, IsSave
<1> QED
  BY <1>1, <1>2

(* Nothing is of New but the canvas and the builder. *)
LEMMA OwnReset ==
  ASSUME TypeInv, NEW strays, strayed \ {New} \subseteq strays
  PROVE  /\ \A docs : OwnDocs(docs, strayed) => OwnDocs(docs, strays)
         /\ \A x, nd, b : x.id # New /\ OwnObj(x, strayed, nd, b) => OwnObj(x, strays, nd, b)
         /\ \A r, nd, b : RequestOK(r) /\ OwnRequest(r, strayed, nd, b) => OwnRequest(r, strays, nd, b)
<1>1. New \notin Ids /\ New # None
  BY EditorAssumption
<1>2. \A r : RequestOK(r) => r.id # New
  BY <1>1 DEF RequestOK
<1> QED
  BY <1>1, <1>2 DEF OwnDocs, OwnObj, OwnRequest

(* Opening the designer shows the nodes of the automation, or is noted as astray. *)
LEMMA OwnShow ==
  ASSUME TypeInv, OwnInv, NEW o \in {Blank} \cup Objs, ShowReteDesigner(o)
  PROVE  OwnInv'
<1>1. /\ UNCHANGED <<server, list, node, builder>> /\ selected' = o /\ footer' = "designer"
  BY DEF ShowReteDesigner, serverVars
<1>2. OwnBuilder'
  BY <1>1 DEF OwnBuilder
<1>3. CASE objs[o].flow # None /\ LoadFlow(objs[o].flow) /\ strayed' = strayed
  <2>1. /\ \A p \in Objs : OwnObj(objs'[p], strayed, node, builder) /\ objs'[p].id = objs[p].id
        /\ \A q \in requests' : OwnRequest(q, strayed, node, builder)
    BY <1>3, OwnConnectionsLeft DEF LoadFlow
  <2>2. o \in Objs /\ o # Blank
    BY <1>3, Bounds DEF TypeInv, BlankOK
  <2>3. Owner(selected)' = objs[o].id
    BY <1>1, <2>1, <2>2 DEF Owner
  <2>4. nodes' = objs[o].flow.nodes
    BY <1>3 DEF LoadFlow
  <2>5. OwnCanvas'
    BY <1>1, <1>3, <2>2, <2>3, <2>4 DEF OwnInv, OwnObj, Held, OwnCanvas
  <2> QED
    BY <1>1, <1>2, <1>3, <2>1, <2>5 DEF OwnInv
<1>4. CASE /\ strayed' = (IF o = Blank THEN strayed \ {New} ELSE strayed)
                     \cup (IF nodes = {} THEN {} ELSE {Owner(o)})
           /\ UNCHANGED <<nodes, nextNodeId, connections, objs, requests>>
  <2>1. strayed \ {New} \subseteq strayed' /\ (nodes # {} => Owner(o) \in strayed')
    BY <1>4
  <2>2. Owner(selected)' = Owner(o)
    BY <1>1, <1>4 DEF Owner
  <2>3. OwnCanvas'
    BY <1>1, <1>4, <2>1, <2>2 DEF OwnCanvas
  <2>4. \A p \in Objs : OwnObj(objs[p], strayed', node, builder)
    BY <2>1, OwnReset, OwnersAre DEF OwnInv
  <2>5. \A q \in requests : OwnRequest(q, strayed', node, builder)
    BY <2>1, OwnReset DEF OwnInv, TypeInv, RequestsOK
  <2>6. OwnDocs(server, strayed') /\ (list # None => OwnDocs(list, strayed'))
    BY <2>1, OwnReset DEF OwnInv
  <2> QED
    BY <1>1, <1>2, <1>4, <2>3, <2>4, <2>5, <2>6 DEF OwnInv
<1> QED
  BY <1>3, <1>4 DEF ShowReteDesigner, InitDesigner

(* Opening the builder shows the items of the selected automation. *)
LEMMA OwnOpen ==
  ASSUME TypeInv, OwnInv, ShowTraditionalBuilder
  PROVE  OwnInv'
<1>1. /\ UNCHANGED <<server, list, node, nodes, selected, strayed>> /\ Everywhere(LeaveLists)
      /\ builder' = ListsOf(objs[selected])
  BY DEF ShowTraditionalBuilder, InitLists, serverVars, canvasVars, historyVars
<1>2. /\ \A p \in Objs : /\ OwnObj(objs'[p], strayed, node, builder')
                         /\ ~objs'[p].shared /\ objs'[p].id = objs[p].id
      /\ \A q \in requests' : OwnRequest(q, strayed, node, builder')
      /\ \A q \in requests' : ~(q.op = "update" /\ q.data.shared)
  BY <1>1, OwnListsLeft
<1>3. Owner(selected)' = Owner(selected)
  BY <1>1, <1>2 DEF Owner, TypeInv, PageOK
<1>4. Owner(selected) \in strayed \ {New} \/ MadeFor(builder', Owner(selected))
  <2>1. CASE selected = Blank
    <3>1. builder' = NoLists
      BY <1>1, <2>1 DEF TypeInv, BlankOK, ListsOf
    <3> QED
      BY <3>1, NoListsOK
  <2>2. CASE selected \in Objs
    <3>1. OwnObj(objs[selected], strayed, node, builder) /\ Owner(selected) = objs[selected].id
          /\ objs[selected].id # New
      BY <2>2, OwnersAre DEF OwnInv
    <3> QED
      BY <1>1, <3>1 DEF OwnObj, Held, ListsOf
  <2> QED
    BY <2>1, <2>2 DEF TypeInv, PageOK
<1>5. OwnBuilder'
  BY <1>1, <1>2, <1>3, <1>4 DEF OwnBuilder
<1>6. OwnCanvas'
  BY <1>1, <1>3 DEF OwnInv, OwnCanvas
<1> QED
  BY <1>1, <1>2, <1>5, <1>6 DEF OwnInv

(* Steps that keep the owners of the nodes that are in use. *)
LEMMA OwnNodes ==
  ASSUME TypeInv, OwnInv, UNCHANGED <<server, list, selected, strayed, builder, footer, objs, requests>>,
         OwnCanvas', \A n \in 1..nextNodeId - 1 : node'[n].owner = node[n].owner
  PROVE  OwnInv'
<1>1. \A x, who : Below(x) /\ Held(node, builder, x, who) => Held(node', builder, x, who)
  BY DEF Below, Held
<1>2. \A o \in Objs : OwnObj(objs[o], strayed, node', builder)
  BY <1>1 DEF OwnInv, OwnObj, TypeInv, FlowsBelow
<1>3. \A r \in requests : OwnRequest(r, strayed, node', builder)
  BY <1>1 DEF OwnInv, OwnRequest, TypeInv, FlowsBelow, IsSave
<1>4. OwnBuilder'
  BY DEF OwnInv, OwnBuilder, Owner
<1> QED
  BY <1>2, <1>3, <1>4 DEF OwnInv

(* The canvas gets nodes for the selected automation only. *)
LEMMA OwnDesigner == ASSUME TypeInv, OwnInv, Designer PROVE OwnInv'
<1>1. UNCHANGED <<server, list, selected, strayed, builder, footer>> /\ body = "designer"
  BY DEF Designer, AddNode, DeleteNode, EditNode, Connect, DeleteConnection, ClearAll,
         Draw, Canvas, serverVars, modalVars
<1>2. nextNodeId \in Nat /\ nodes \subseteq 1..nextNodeId - 1 /\ DOMAIN node = 1..MaxNodes
      /\ nextNodeId <= MaxNodes + 1 /\ MaxNodes \in Nat
  BY Bounds DEF TypeInv, CanvasOK
<1>3. ASSUME NEW type, AddNode(type) PROVE OwnInv'
  <2>1. /\ nextNodeId <= MaxNodes /\ nodes' = nodes \cup {nextNodeId}
        /\ node' = [node EXCEPT ![nextNodeId] =
             [type |-> type, data |-> DefaultData(type), owner |-> Owner(selected)]]
        /\ UNCHANGED <<objs, requests>>
    BY <1>3 DEF AddNode
  <2>2. nextNodeId \in DOMAIN node
    BY <1>2, <2>1, Bounds DEF TypeInv, CanvasOK
  <2>3. node'[nextNodeId].owner = Owner(selected) /\ \A n \in 1..nextNodeId - 1 : node'[n] = node[n]
    BY <1>2, <2>1, <2>2
  <2>4. OwnCanvas'
    BY <1>1, <1>2, <2>1, <2>3 DEF OwnInv, OwnCanvas, Owner
  <2> QED
    BY <1>1, <2>1, <2>3, <2>4, OwnNodes
<1>4. ASSUME NEW n \in nodes, EditNode(n) PROVE OwnInv'
  <2>1. /\ \E type, data : node' = [node EXCEPT ![n] = [type |-> type, data |-> data, owner |-> node[n].owner]]
        /\ UNCHANGED <<nodes, objs, requests>>
    BY <1>4 DEF EditNode
  <2>2. \A m \in 1..nextNodeId - 1 : node'[m].owner = node[m].owner
    BY <1>2, <2>1
  <2>3. OwnCanvas'
    BY <1>1, <1>2, <2>1, <2>2 DEF OwnInv, OwnCanvas, Owner
  <2> QED
    BY <1>1, <2>1, <2>2, <2>3, OwnNodes
<1>5. CASE (\E n, m : Connect(n, m)) \/ (\E c : DeleteConnection(c))
  <2>1. UNCHANGED <<node, nodes, objs, requests>>
    BY <1>5 DEF Connect, DeleteConnection
  <2>2. OwnCanvas'
    BY <1>1, <2>1 DEF OwnInv, OwnCanvas, Owner
  <2> QED
    BY <1>1, <2>1, <2>2, OwnNodes
<1>6. CASE ClearAll \/ \E n : DeleteNode(n)
  <2>1. UNCHANGED node /\ nodes' \subseteq nodes /\ Everywhere(LeaveConnections)
    BY <1>6 DEF ClearAll, DeleteNode
  <2>2. /\ \A o \in Objs : OwnObj(objs'[o], strayed, node, builder) /\ objs'[o].id = objs[o].id
        /\ \A q \in requests' : OwnRequest(q, strayed, node, builder)
    BY <2>1, OwnConnectionsLeft
  <2>3. Owner(selected)' = Owner(selected)
    BY <1>1, <2>2 DEF Owner, TypeInv, PageOK
  <2>4. OwnCanvas'
    BY <1>1, <2>1, <2>3 DEF OwnInv, OwnCanvas
  <2>5. OwnBuilder'
    <3>1. CASE footer # "builder"
      BY <1>1, <3>1 DEF OwnBuilder
    <3>2. CASE footer = "builder"
      <4>1. /\ \A o \in Objs : objs'[o].shared => objs[o].shared
            /\ \A q \in requests' : q.op = "update" /\ q.data.shared =>
                 \E r \in requests : r.op = "update" /\ r.data.shared /\ q.id = r.id
        BY <2>1, OwnConnectionsLeft
      <4> QED
        BY <1>1, <2>2, <2>3, <3>2, <4>1 DEF OwnInv, OwnBuilder
    <3> QED
      BY <3>1, <3>2
  <2> QED
    BY <1>1, <2>1, <2>2, <2>4, <2>5 DEF OwnInv
<1> QED
  BY <1>3, <1>4, <1>5, <1>6 DEF Designer

(* The dialogs make items for the selected automation only. *)
LEMMA OwnForm == ASSUME TypeInv, OwnInv, Builder PROVE OwnInv'
<1>1. DOMAIN NoLists = {"triggers", "conditions", "actions"}
  BY DEF NoLists
<1>2. CASE CloseDialog \/ \E kind \in DOMAIN NoLists : OpenDialog(kind)
  <2>1. UNCHANGED <<server, list, selected, strayed, builder, footer, objs, requests, node, nodes>>
    BY <1>2 DEF CloseDialog, OpenDialog, serverVars, canvasVars, modalVars, historyVars
  <2> QED
    BY <2>1, OwnNodes DEF OwnInv, OwnCanvas, Owner
<1>3. ASSUME /\ body = "builder" /\ Render
             /\ Everything(builder') \subseteq Everything(builder) \cup {i \in Everything(builder') : i.owner = Owner(selected)}
      PROVE  OwnInv'
  <2>1. UNCHANGED <<server, list, selected, strayed, footer, objs, requests, node, nodes>>
    BY <1>3 DEF Render, serverVars, canvasVars, modalVars, historyVars
  <2>2. footer = "builder"
    BY <1>3 DEF TypeInv, ModalOK
  <2>3. MadeFor(builder, Owner(selected)) => MadeFor(builder', Owner(selected))
    BY <1>3 DEF MadeFor
  <2>4. Owner(selected)' = Owner(selected)
    BY <2>1 DEF Owner
  <2>5. OwnBuilder' /\ OwnCanvas'
    BY <2>1, <2>2, <2>3, <2>4 DEF OwnInv, OwnBuilder, OwnCanvas
  <2>6. \A o \in Objs : OwnObj(objs[o], strayed, node, builder')
    <3> TAKE o \in Objs
    <3>1. OwnObj(objs[o], strayed, node, builder)
      BY DEF OwnInv
    <3>2. objs[o].shared => objs[o].id \in strayed \/ MadeFor(builder', objs[o].id)
      BY <2>2, <2>3 DEF OwnInv, OwnBuilder
    <3> QED
      BY <3>1, <3>2 DEF OwnObj, Held
  <2>7. \A r \in requests : OwnRequest(r, strayed, node, builder')
    <3> TAKE r \in requests
    <3>1. OwnRequest(r, strayed, node, builder)
      BY DEF OwnInv
    <3>2. r.op = "update" /\ r.data.shared => r.id \in strayed \/ MadeFor(builder', r.id)
      BY <2>2, <2>3 DEF OwnInv, OwnBuilder
    <3> QED
      BY <3>1, <3>2 DEF OwnRequest, Held
  <2> QED
    BY <2>1, <2>5, <2>6, <2>7 DEF OwnInv
<1>4. CASE \E kind \in DOMAIN NoLists : RemoveItem(kind)
  <2>1. body = "builder" /\ Render /\ Everything(builder') \subseteq Everything(builder)
    BY <1>1, <1>4, RemovingItem
  <2> QED
    BY <1>3, <2>1
<1>5. CASE \/ \E type \in TriggerTypes \cap Chosen : SaveTrigger(type)
           \/ \E type \in ConditionTypes \cap Chosen : SaveCondition(type)
           \/ \E type \in ActionTypes \cap Chosen : SaveAction(type)
  <2>0. \E kind \in {"triggers", "conditions", "actions"} : \E item :
          "type" \in DOMAIN item /\ (kind = "actions" => CommandOK(item)) /\ Push(kind, item)
    BY <1>5, SaveItem
  <2>1. PICK kind \in {"triggers", "conditions", "actions"} : \E item :
          "type" \in DOMAIN item /\ (kind = "actions" => CommandOK(item)) /\ Push(kind, item)
    BY <2>0
  <2>2. PICK item : "type" \in DOMAIN item /\ (kind = "actions" => CommandOK(item)) /\ Push(kind, item)
    BY <2>1
  <2>3. /\ Everything(builder') = Everything(builder) \cup {Owned(item, Owner(selected))}
        /\ body = "builder" /\ Render
    BY <2>2, Pushing
  <2>4. Owned(item, Owner(selected)).owner = Owner(selected)
    BY <2>2, OwnedIs
  <2> QED
    BY <1>3, <2>3, <2>4
<1> QED
  BY <1>2, <1>4, <1>5 DEF Builder

(* An answer that is assigned to another automation is noted as astray. *)
LEMMA OwnAnswer == ASSUME TypeInv, OwnInv, NEW r \in requests, Answer(r) PROVE OwnInv'
<1>1. AnswerStays /\ requests' \subseteq requests
  BY DEF Answer, AnswerStays
<1>2. UNCHANGED <<server, list, node, nodes, selected, builder, footer>>
  BY <1>1 DEF AnswerStays, serverVars, canvasVars
<1>3. ASSUME /\ strayed \subseteq strayed'
             /\ selected # Blank => objs'[selected].id = objs[selected].id
             /\ \A o \in Objs : OwnObj(objs'[o], strayed', node, builder)
             /\ footer = "builder" =>
                  \A o \in Objs : objs'[o].shared => objs'[o].id \in strayed' \cup {Owner(selected)}
      PROVE  OwnInv'
  <2>1. Owner(selected)' = Owner(selected)
    BY <1>2, <1>3 DEF Owner
  <2>2. OwnDocs(server, strayed') /\ (list # None => OwnDocs(list, strayed'))
    BY <1>3 DEF OwnInv, OwnDocs
  <2>3. \A q \in requests' : OwnRequest(q, strayed', node, builder)
    BY <1>1, <1>3, OwnMore DEF OwnInv
  <2>4. OwnCanvas' /\ OwnBuilder'
    BY <1>1, <1>2, <1>3, <2>1 DEF OwnInv, OwnCanvas, OwnBuilder
  <2> QED
    BY <1>2, <1>3, <2>2, <2>3, <2>4 DEF OwnInv
<1>4. /\ \A o \in Objs : OwnObj(objs[o], strayed, node, builder)
      /\ OwnRequest(r, strayed, node, builder)
      /\ footer = "builder" =>
           /\ \A o \in Objs : objs[o].shared => objs[o].id \in strayed \cup {Owner(selected)}
           /\ r.op = "update" /\ r.data.shared => r.id \in strayed \cup {Owner(selected)}
      /\ selected # Blank => selected \in Objs /\ Owner(selected) = objs[selected].id
  BY OwnersAre DEF OwnInv, OwnBuilder, TypeInv, PageOK
<1>5. CASE UNCHANGED objs /\ UNCHANGED strayed
  BY <1>3, <1>4, <1>5
<1>6. CASE AnswerUpdate(r)
  <2>1. /\ selected \in Objs /\ r.op = "update"
        /\ strayed' = IF objs[selected].id = r.id THEN strayed ELSE strayed \cup {objs[selected].id}
    BY <1>6, Assigning DEF AnswerUpdate
  <2>2. PICK x : Assigned(objs[selected], x, r) /\ Becomes(selected, x)
    BY <1>6, Assigning
  <2>3. strayed \subseteq strayed' /\ x.id = objs[selected].id
    BY <2>1, <2>2 DEF Assigned
  <2>4. OwnObj(x, strayed', node, builder)
    <3>1. CASE objs[selected].id # r.id
      BY <2>1, <2>3, <3>1 DEF OwnObj
    <3>2. CASE objs[selected].id = r.id /\ r.id \notin strayed
      <4>1. Held(node, builder, r.data, r.id) /\ Held(node, builder, objs[selected], r.id)
        BY <1>4, <2>1, <3>2 DEF OwnRequest, OwnObj
      <4>2. Held(node, builder, x, r.id)
        BY <2>2, <4>1 DEF Assigned, Held
      <4> QED
        BY <2>3, <3>2, <4>2 DEF OwnObj
    <3> QED
      BY <2>3, <3>1, <3>2 DEF OwnObj
  <2>5. \A o \in Objs : OwnObj(objs'[o], strayed', node, builder)
    BY <1>4, <2>2, <2>3, <2>4 DEF Becomes, OwnObj
  <2>6. ASSUME footer = "builder", NEW o \in Objs, objs'[o].shared
        PROVE  objs'[o].id \in strayed' \cup {Owner(selected)}
    BY <1>4, <2>1, <2>2, <2>3, <2>6, Bounds DEF Becomes
  <2> QED
    BY <1>3, <2>2, <2>3, <2>5, <2>6 DEF Becomes
<1>7. CASE r.status = "ok" /\ AnswerCreate(r)
  <2>1. PICK o : Made(r, o)
    BY <1>7, Making
  <2>2. r.op = "create" /\ r.id \in Ids /\ DocOK(r.doc) /\ UNCHANGED strayed
    BY <1>7 DEF AnswerCreate, TypeInv, RequestsOK, RequestOK, IsSave
  <2> DEFINE x == Parsed(r.id, r.doc)
  <2>3. x.id = r.id /\ ~x.shared /\ x.flow = None /\ x.lists = Lists(r.doc)
    BY <2>2, ParsedIs
  <2> HIDE DEF x
  <2>4. OwnObj(x, strayed, node, builder)
    BY <1>4, <1>7, <2>2, <2>3 DEF OwnRequest, OwnObj, Held
  <2>5. o # selected /\ Becomes(o, x)
    BY <2>1 DEF Made, x
  <2> QED
    BY <1>3, <1>4, <2>2, <2>3, <2>4, <2>5 DEF Becomes
<1>8. CASE r.status = "ok" /\ AnswerToggle(r) /\ ~UNCHANGED objs
  <2>1. automations[r.id] \in Objs /\ UNCHANGED strayed
    BY <1>8, Switching DEF AnswerToggle
  <2>2. PICK x : Switched(objs[automations[r.id]], x, r.op = "enable") /\ Becomes(automations[r.id], x)
    BY <1>8, Switching
  <2> DEFINE o == automations[r.id]
  <2>3. OwnObj(x, strayed, node, builder) /\ x.id = objs[o].id /\ x.shared = objs[o].shared
    BY <1>4, <2>1, <2>2 DEF Switched, OwnObj, Held
  <2>4. o \in Objs /\ Becomes(o, x)
    BY <2>1, <2>2
  <2> HIDE DEF o
  <2> QED
    BY <1>3, <1>4, <2>1, <2>3, <2>4 DEF Becomes
<1> QED
  BY <1>5, <1>6, <1>7, <1>8
     DEF Answer, AnswerUpdateNoSelection, AnswerToggle, AnswerDelete

(* A list brings what the server had of each automation. *)
LEMMA OwnLoad == ASSUME TypeInv, OwnInv, LoadAutomations PROVE OwnInv'
<1>1. PICK present, obj : Loaded(present, obj)
  BY Loading
<1>2. UNCHANGED <<server, node, nodes, selected, builder, footer, requests, strayed>> /\ list' = None /\ list # None
  BY DEF LoadAutomations, canvasVars, modalVars
<1>3. objs'[selected] = objs[selected] \/ selected = Blank
  BY <1>1 DEF Loaded, TypeInv, PageOK
<1>4. Owner(selected)' = Owner(selected)
  BY <1>2, <1>3 DEF Owner
<1>5. ASSUME NEW o \in Objs
      PROVE  /\ OwnObj(objs'[o], strayed, node, builder)
             /\ objs'[o].shared => objs'[o] = objs[o]
  <2>1. CASE \E id \in present : o = obj[id]
    <3>1. PICK id \in present : o = obj[id]
      BY <2>1
    <3>2. id \in Ids /\ DocOK(list[id]) /\ objs'[o] = Parsed(id, list[id]) /\ list[id] # None
      BY <1>1, <3>1 DEF Loaded
    <3>3. id \notin strayed => MadeFor(Lists(list[id]), id)
      BY <1>2, <3>2 DEF OwnInv, OwnDocs
    <3> DEFINE d == list[id]
    <3> HIDE DEF d
    <3>4. Parsed(id, d).id = id /\ ~Parsed(id, d).shared /\ Parsed(id, d).flow = None /\ Parsed(id, d).lists = Lists(d)
      BY <3>2, ParsedIs DEF d
    <3> QED
      BY <3>2, <3>3, <3>4 DEF OwnObj, Held, d
  <2>2. CASE \A id \in present : o # obj[id]
    BY <1>1, <2>2 DEF Loaded, OwnInv
  <2> QED
    BY <2>1, <2>2
<1>6. OwnBuilder' /\ OwnCanvas'
  BY <1>2, <1>4, <1>5 DEF OwnInv, OwnBuilder, OwnCanvas
<1> QED
  BY <1>2, <1>5, <1>6 DEF OwnInv

(* Every step keeps items with their automations. *)
LEMMA OwnNext == TypeInv /\ OwnInv /\ [Next]_vars => OwnInv'
<1> SUFFICES ASSUME TypeInv, OwnInv, [Next]_vars PROVE OwnInv'
  OBVIOUS
<1>1. CASE UNCHANGED vars \/ HideModal \/ SendInitialData
  <2>1. /\ UNCHANGED <<server, objs, node, nodes, selected, builder, footer, requests, strayed>>
        /\ list' = list \/ list' = server
    BY <1>1 DEF vars, serverVars, canvasVars, modalVars, historyVars, HideModal, SendInitialData
  <2>2. OwnCanvas' /\ OwnBuilder'
    BY <2>1 DEF OwnInv, OwnCanvas, OwnBuilder, Owner
  <2> QED
    BY <2>1, <2>2 DEF OwnInv
<1>2. CASE Designer
  BY <1>2, OwnDesigner
<1>3. CASE Builder
  BY <1>3, OwnForm
<1>4. CASE ShowCreateAutomation
  BY <1>4, OwnShow DEF ShowCreateAutomation
<1>5. CASE ShowTraditionalBuilder
  BY <1>5, OwnOpen
<1>6. CASE SaveReteAutomation \/ SaveAutomation
  BY <1>6, SaveReteIs, SaveFormIs, OwnSave
<1>7. ASSUME NEW id \in Ids, EditAutomation(id) \/ ToggleAutomation(id) \/ DeleteAutomation(id)
      PROVE  OwnInv'
  BY <1>7, EditingIs, OwnShow, AskIs, OwnAsk
<1>8. ASSUME NEW r \in requests, ServerHandles(r) \/ Lose(r) \/ Answer(r)
      PROVE  OwnInv'
  BY <1>8, OwnServer, OwnLose, OwnAnswer
<1>9. CASE LoadAutomations
  BY <1>9, OwnLoad
<1> QED
  BY <1>1, <1>2, <1>3, <1>4, <1>5, <1>6, <1>7, <1>8, <1>9 DEF Next, Modal

(* What the server keeps of an automation was made for it, but for the      *)
(* exceptions that OwnItems names.                                         *)
THEOREM Own == Spec => []OwnItems
<1>1. Init => OwnInv
  BY OwnInit
<1>2. OwnInv => OwnItems
  BY DEF OwnInv, OwnDocs, OwnItems
<1>3. TypeInv /\ OwnInv /\ [Next]_vars => OwnInv'
  BY OwnNext
<1> QED
  BY <1>1, <1>2, <1>3, TypeCorrect, PTL DEF Spec

(***************************************************************************)
(* What the page shows.                                                    *)
(***************************************************************************)

(* Ids are given out once. *)
BornInv ==
  /\ \A id \in Ids : server[id] # None \/ (list # None /\ list[id] # None) => id \in born
  /\ \A o \in Objs : objs[o].id \in born \cup {None}
  /\ \A r \in requests : r.id \in born \cup {None}

(* The ids of the start have been given out. *)
LEMMA BornInit == Init => BornInv
<1> SUFFICES ASSUME Init PROVE BornInv
  OBVIOUS
<1>1. list = server /\ \A id \in Ids : server[id] # None => id \in born
  BY DEF Init
<1>2. \A o \in Objs : objs[o].id = None
  BY DEF Init, NewObject
<1>3. requests = {}
  BY DEF Init
<1> QED
  BY <1>1, <1>2, <1>3 DEF BornInv

(* Steps of the page bring no new ids. *)
LEMMA BornPage ==
  ASSUME TypeInv, BornInv, UNCHANGED <<serverVars, objs>>,
         \A q \in requests' : \/ \E r \in requests : q.id = r.id
                              \/ q.id = None
                              \/ \E o \in Objs : q.id = objs[o].id
  PROVE  BornInv'
<1>1. \A q \in requests' : q.id \in born \cup {None}
  BY DEF BornInv
<1> QED
  BY <1>1 DEF BornInv, serverVars

(* Leaving arrays to their owners brings no new ids. *)
LEMMA BornLeft ==
  ASSUME TypeInv, BornInv, UNCHANGED serverVars,
         Everywhere(LeaveLists) \/ Everywhere(LeaveConnections)
  PROVE  BornInv'
<1>1. ASSUME NEW o \in Objs PROVE objs'[o].id = objs[o].id
  <2>1. PageOK /\ Holder(objs[o]) /\ "id" \in DOMAIN objs[o]
    BY DEF TypeInv, PageOK, ObjOK
  <2>2. LeaveLists(objs[o]).id = objs[o].id /\ LeaveConnections(objs[o]).id = objs[o].id
    BY <2>1, LeaveListsIs, LeaveConnectionsIs
  <2>3. objs'[o] = LeaveLists(objs[o]) \/ objs'[o] = LeaveConnections(objs[o])
    BY LeavingLists, LeavingConnections
  <2> QED
    BY <2>2, <2>3
<1>2. \A q \in requests' : \E r \in requests : q.id = r.id
  BY LeavingLists, LeavingConnections DEF LeftBy, SameCall
<1> QED
  BY <1>1, <1>2 DEF BornInv, serverVars

(* Only a creation brings an id, and it has been given out then. *)
LEMMA BornServer == ASSUME TypeInv, BornInv, NEW r \in requests, ServerHandles(r) PROVE BornInv'
<1>1. PageStays /\ UNCHANGED list
  BY Handling
<1>2. PICK q : Settled(r, q) /\ (Created(r, q) \/ Changed(r, q))
  BY Handling
<1>3. born \subseteq born' /\ q.id \in born' \cup {None}
  BY <1>2 DEF Created, Changed, BornInv
<1>4. \A p \in requests' : p.id \in born' \cup {None}
  BY <1>2, <1>3 DEF Settled, BornInv
<1>5. \A id \in Ids : server'[id] # None => id \in born'
  <2>1. server = [id \in Ids |-> server[id]]
    BY DEF TypeInv, ServerOK, DocsOK
  <2>2. CASE Created(r, q)
    BY <2>2 DEF Created, BornInv
  <2>3. CASE Changed(r, q)
    BY <2>1, <2>3 DEF Changed, BornInv
  <2> QED
    BY <1>2, <2>2, <2>3
<1> QED
  BY <1>1, <1>3, <1>4, <1>5 DEF BornInv, PageStays

(* Answers bring ids that have been given out. *)
LEMMA BornAnswer == ASSUME TypeInv, BornInv, NEW r \in requests, Answer(r) PROVE BornInv'
<1>1. UNCHANGED serverVars /\ requests' \subseteq requests
  BY DEF Answer
<1>2. SUFFICES ASSUME NEW p \in Objs PROVE objs'[p].id \in born \cup {None}
  BY <1>1, <1>2 DEF BornInv, serverVars
<1>3. objs[p].id \in born \cup {None} /\ r.id \in born \cup {None}
  BY DEF BornInv
<1>4. CASE UNCHANGED objs
  BY <1>3, <1>4
<1>5. CASE AnswerUpdate(r)
  <2>1. PICK x : Assigned(objs[selected], x, r) /\ Becomes(selected, x)
    BY <1>5, Assigning
  <2>2. selected \in Objs
    BY <1>5, Assigning
  <2> QED
    BY <1>3, <2>1, <2>2 DEF Assigned, Becomes
<1>6. CASE r.status = "ok" /\ AnswerCreate(r)
  <2>1. PICK o : Made(r, o)
    BY <1>6, Making
  <2>2. Parsed(r.id, r.doc).id = r.id
    BY DEF Parsed
  <2> QED
    BY <1>3, <2>1, <2>2 DEF Made, Becomes
<1>7. CASE r.status = "ok" /\ AnswerToggle(r) /\ ~UNCHANGED objs
  <2>1. automations[r.id] \in Objs
    BY <1>7, Switching
  <2>2. PICK x : Switched(objs[automations[r.id]], x, r.op = "enable") /\ Becomes(automations[r.id], x)
    BY <1>7, Switching
  <2> QED
    BY <1>3, <2>1, <2>2 DEF Switched, Becomes
<1> QED
  BY <1>4, <1>5, <1>6, <1>7 DEF Answer, AnswerUpdateNoSelection, AnswerDelete

(* A list brings ids that have been given out. *)
LEMMA BornLoad == ASSUME TypeInv, BornInv, LoadAutomations PROVE BornInv'
<1>1. PICK present, obj : Loaded(present, obj)
  BY Loading
<1>2. UNCHANGED <<server, born, requests>> /\ list' = None /\ list # None
  BY DEF LoadAutomations
<1>3. ASSUME NEW o \in Objs PROVE objs'[o].id \in born \cup {None}
  <2>1. CASE \E id \in present : o = obj[id]
    <3>1. PICK id \in present : o = obj[id]
      BY <2>1
    <3>2. objs'[o] = Parsed(id, list[id]) /\ id \in Ids /\ list[id] # None
      BY <1>1, <3>1 DEF Loaded
    <3>3. objs'[o].id = id
      BY <3>2 DEF Parsed
    <3> QED
      BY <1>2, <3>2, <3>3 DEF BornInv
  <2>2. CASE \A id \in present : o # obj[id]
    BY <1>1, <2>2 DEF Loaded, BornInv
  <2> QED
    BY <2>1, <2>2
<1> QED
  BY <1>2, <1>3 DEF BornInv

(* Every step keeps to ids that have been given out. *)
LEMMA BornNext == TypeInv /\ BornInv /\ [Next]_vars => BornInv'
<1> SUFFICES ASSUME TypeInv, BornInv, [Next]_vars PROVE BornInv'
  OBVIOUS
<1>1. CASE UNCHANGED vars \/ HideModal \/ Builder
  <2>1. UNCHANGED <<serverVars, objs, requests>>
    BY <1>1 DEF vars, HideModal, Builder, OpenDialog, CloseDialog, RemoveItem, SaveTrigger, SaveCondition,
                SaveAction, Push, Render
  <2> QED
    BY <2>1, BornPage
<1>2. CASE SendInitialData
  BY <1>2 DEF SendInitialData, BornInv
<1>3. CASE Designer
  <2>1. /\ UNCHANGED serverVars
        /\ UNCHANGED <<objs, requests>> \/ Everywhere(LeaveConnections)
    BY <1>3 DEF Designer, AddNode, DeleteNode, EditNode, Connect, DeleteConnection, ClearAll, Draw, Canvas
  <2> QED
    BY <2>1, BornPage, BornLeft
<1>4. ASSUME NEW o, ShowReteDesigner(o) PROVE BornInv'
  <2>1. /\ UNCHANGED serverVars
        /\ UNCHANGED <<objs, requests>> \/ Everywhere(LeaveConnections)
    BY <1>4 DEF ShowReteDesigner, InitDesigner, LoadFlow
  <2> QED
    BY <2>1, BornPage, BornLeft
<1>5. CASE ShowTraditionalBuilder
  BY <1>5, BornLeft DEF ShowTraditionalBuilder
<1>6. CASE SaveReteAutomation \/ SaveAutomation
  <2>1. PICK r : SavedRequest(r)
    BY <1>6, SaveReteIs, SaveFormIs
  <2>2. UNCHANGED <<serverVars, objs>> /\ requests' = requests \cup {r}
    BY <2>1 DEF SavedRequest, PageStays
  <2>3. r.id = None \/ \E o \in Objs : r.id = objs[o].id
    BY <2>1 DEF SavedRequest, TypeInv, PageOK
  <2> QED
    BY <2>2, <2>3, BornPage
<1>7. ASSUME NEW id \in Ids, ToggleAutomation(id) \/ DeleteAutomation(id) PROVE BornInv'
  <2>1. PICK r : Asked(r)
    BY <1>7, AskIs
  <2>2. UNCHANGED <<serverVars, objs>> /\ requests' = requests \cup {r}
    BY <2>1 DEF Asked, PageStays
  <2>3. automations[r.id] \in Objs /\ objs[automations[r.id]].id = r.id
    BY <2>1 DEF Asked, TypeInv, PageOK, Linked
  <2> QED
    BY <2>2, <2>3, BornPage
<1>8. ASSUME NEW r \in requests, Lose(r) PROVE BornInv'
  <2>1. PageStays /\ UNCHANGED serverVars /\ \E q : Settled(r, q) /\ q.id = r.id
    BY <1>8, LosingIs
  <2> QED
    BY <2>1, BornPage DEF Settled, PageStays
<1>9. ASSUME NEW r \in requests, ServerHandles(r) \/ Answer(r) PROVE BornInv'
  BY <1>9, BornServer, BornAnswer
<1>10. CASE LoadAutomations
  BY <1>10, BornLoad
<1> QED
  BY <1>1, <1>2, <1>3, <1>4, <1>5, <1>6, <1>7, <1>8, <1>9, <1>10
     DEF Next, Modal, ShowCreateAutomation, EditAutomation

(* The lists an object shows when the builder has the lists b, and what    *)
(* the page shows: doc is what the server has, or that but for the box.    *)
ShownLists(x, b) == IF x.shared THEN b ELSE x.lists
AgreeAt(doc, a, x, b) ==
  IF a = None THEN doc = None ELSE doc = Kept(x.name, x.enabled, ShownLists(x, b))
NearAt(doc, a, x, b) ==
  IF a = None THEN doc = None ELSE doc = Kept(x.name, doc.enabled, ShownLists(x, b))

(* An answer is on its way that will set things right. *)
Waits(rs, id, ops) == \E r \in rs : r.id = id /\ r.status = "ok" /\ r.op \in ops
Lasting == {"create", "update", "delete"}
Ticking == {"enable", "disable"}
SettledAt(rs, id, doc, a, x, b) ==
  \/ Waits(rs, id, Lasting)
  \/ Waits(rs, id, Ticking) /\ NearAt(doc, a, x, b)
  \/ AgreeAt(doc, a, x, b)

Gone(rs, docs) == \A r \in rs : r.op = "delete" /\ r.status = "ok" => docs[r.id] = None

AgreeInv ==
  /\ Gone(requests, server)
  /\ \A id \in Ids : id \in excused \/
       SettledAt(requests, id, server[id], automations[id], objs[automations[id]], builder)

(* Agrees, in terms of what AgreeAt is about. *)
LEMMA AgreesIs ==
  ASSUME NEW id
  PROVE  /\ Agrees(id) <=> AgreeAt(server[id], automations[id], objs[automations[id]], builder)
         /\ Agrees(id)' <=> AgreeAt(server'[id], automations'[id], objs'[automations'[id]], builder')
<1>1. Agrees(id) <=> AgreeAt(server[id], automations[id], objs[automations[id]], builder)
  BY DEF Agrees, Shown, ListsOf, AgreeAt, ShownLists
<1>2. Agrees(id)' <=> AgreeAt(server'[id], automations'[id], objs'[automations'[id]], builder')
  BY DEF Agrees, Shown, ListsOf, AgreeAt, ShownLists
<1> QED
  BY <1>1, <1>2

(* What is not excused after an answer agrees, or had no excuse and got none. *)
LEMMA ExcuseIs ==
  ASSUME NEW ids, Excuse(ids), NEW id, id \notin excused'
  PROVE  \/ id \notin excused \cup ids
         \/ AgreeAt(server'[id], automations'[id], objs'[automations'[id]], builder')
<1>1. excused' = {i \in excused \cup ids : ~Agrees(i)'}
  BY DEF Excuse
<1>2. id \notin excused \cup ids \/ Agrees(id)'
  BY <1>1
<1> QED
  BY <1>2, AgreesIs

(* What agrees does so whatever the box says. *)
LEMMA Near ==
  ASSUME NEW doc, NEW a, NEW x, NEW b, AgreeAt(doc, a, x, b)
  PROVE  NearAt(doc, a, x, b)
<1>1. \A name, enabled, l : Kept(name, enabled, l).enabled = enabled
  BY DEF Kept
<1> QED
  BY <1>1 DEF AgreeAt, NearAt

(* The page shows of x under b what it shows of y under c. *)
SameFace(x, b, y, c) == y.name = x.name /\ y.enabled = x.enabled /\ ShownLists(y, c) = ShownLists(x, b)

(* What is settled stays so while the page shows the same and no answer is lost. *)
LEMMA FaceStays ==
  ASSUME NEW rs, NEW qs, NEW id, NEW doc, NEW a, NEW x, NEW b, NEW y, NEW c,
         SettledAt(rs, id, doc, a, x, b),
         \A ops : Waits(rs, id, ops) => Waits(qs, id, ops),
         a = None \/ SameFace(x, b, y, c)
  PROVE  SettledAt(qs, id, doc, a, y, c)
  BY DEF SettledAt, NearAt, AgreeAt, SameFace

(* No answer of importance to id is lost on the way from rs to qs. *)
Keeps(rs, qs, id) ==
  \A r \in rs : r.status = "ok" /\ r.id = id => \E q \in qs : q.op = r.op /\ q.id = r.id /\ q.status = "ok"

(* Requests that are kept are still waited for. *)
LEMMA WaitsOn ==
  ASSUME NEW rs, NEW qs, NEW id, Keeps(rs, qs, id)
  PROVE  \A ops : Waits(rs, id, ops) => Waits(qs, id, ops)
  BY DEF Keeps, Waits

(* What a step has to keep that changes nothing on the server. *)
LEMMA AgreeFrame ==
  ASSUME AgreeInv, server' = server, excused \subseteq excused',
         \A q \in requests' : q.op = "delete" /\ q.status = "ok" =>
           \E r \in requests : r.op = "delete" /\ r.status = "ok" /\ r.id = q.id,
         \A id \in Ids : id \in excused' \/
           /\ Keeps(requests, requests', id)
           /\ automations'[id] = automations[id]
           /\ \/ automations[id] = None
              \/ SameFace(objs[automations[id]], builder, objs'[automations[id]], builder')
  PROVE  AgreeInv'
<1>1. Gone(requests', server')
  BY DEF AgreeInv, Gone
<1>2. ASSUME NEW id \in Ids, id \notin excused'
      PROVE  SettledAt(requests', id, server'[id], automations'[id], objs'[automations'[id]], builder')
  <2>1. SettledAt(requests, id, server[id], automations[id], objs[automations[id]], builder)
    BY <1>2 DEF AgreeInv
  <2>2. \A ops : Waits(requests, id, ops) => Waits(requests', id, ops)
    BY <1>2, WaitsOn
  <2>3. /\ automations'[id] = automations[id]
        /\ \/ automations[id] = None
           \/ SameFace(objs[automations[id]], builder, objs'[automations[id]], builder')
    BY <1>2
  <2> QED
    BY <2>1, <2>2, <2>3, FaceStays
<1> QED
  BY <1>1, <1>2 DEF AgreeInv

(* The page begins without automations; the stored ones are excused. *)
LEMMA AgreeInit == Init => AgreeInv
<1> SUFFICES ASSUME Init PROVE AgreeInv
  OBVIOUS
<1>1. \A id \in Ids : id \in excused \/ (server[id] = None /\ automations[id] = None)
  BY DEF Init
<1>2. requests = {}
  BY DEF Init
<1> QED
  BY <1>1, <1>2 DEF AgreeInv, Gone, SettledAt, AgreeAt

(* Leaving arrays to their owners changes nothing the page shows. *)
LEMMA AgreeLeft ==
  ASSUME TypeInv, AgreeInv, UNCHANGED <<server, automations, excused>>,
         \/ Everywhere(LeaveLists)
         \/ Everywhere(LeaveConnections) /\ UNCHANGED builder
  PROVE  AgreeInv'
<1>1. /\ \A q \in requests' : \E r \in requests : SameCall(q, r)
      /\ \A r \in requests : \E q \in requests' : SameCall(q, r)
  BY LeavingLists, LeavingConnections DEF LeftBy
<1>2. ASSUME NEW o \in Objs PROVE SameFace(objs[o], builder, objs'[o], builder')
  <2>1. PageOK /\ Holder(objs[o])
    BY DEF TypeInv, PageOK, ObjOK
  <2>2. CASE Everywhere(LeaveLists)
    BY <2>1, <2>2, LeaveListsIs, LeavingLists DEF SameFace, ShownLists, ListsOf
  <2>3. CASE Everywhere(LeaveConnections) /\ UNCHANGED builder
    BY <2>1, <2>3, LeaveConnectionsIs, LeavingConnections DEF SameFace, ShownLists
  <2> QED
    BY <2>2, <2>3
<1>3. \A id \in Ids : Keeps(requests, requests', id)
  BY <1>1 DEF Keeps, SameCall
<1>4. \A id \in Ids : automations[id] = None \/ automations[id] \in Objs
  BY DEF TypeInv, PageOK
<1>5. \A q \in requests' : q.op = "delete" /\ q.status = "ok" =>
        \E r \in requests : r.op = "delete" /\ r.status = "ok" /\ r.id = q.id
  BY <1>1 DEF SameCall
<1> QED
  BY <1>2, <1>3, <1>4, <1>5, AgreeFrame

(* Nothing the page shows is changed. *)
LEMMA AgreePage ==
  ASSUME AgreeInv, UNCHANGED <<server, automations, objs, builder>>, excused \subseteq excused',
         \A q \in requests' : q \in requests \/ q.status # "ok",
         \A r \in requests : r \in requests' \/ r.status # "ok" \/ r.id \in excused'
  PROVE  AgreeInv'
<1>1. \A id \in Ids : id \in excused' \/ Keeps(requests, requests', id)
  BY DEF Keeps
<1> QED
  BY <1>1, AgreeFrame DEF SameFace

(* The builder changes only automations that share its lists. *)
LEMMA AgreeForm == ASSUME TypeInv, AgreeInv, Builder PROVE AgreeInv'
<1>1. DOMAIN NoLists = {"triggers", "conditions", "actions"}
  BY DEF NoLists
<1>2. CASE CloseDialog \/ \E kind \in DOMAIN NoLists : OpenDialog(kind)
  <2>1. UNCHANGED <<server, automations, objs, builder, requests, excused>>
    BY <1>2 DEF CloseDialog, OpenDialog, serverVars, historyVars
  <2> QED
    BY <2>1, AgreePage
<1>3. CASE Render
  <2>1. /\ UNCHANGED <<server, automations, objs, requests>>
        /\ excused' = excused \cup ListsShared
    BY <1>3 DEF Render, serverVars
  <2>2. ASSUME NEW id \in Ids, id \notin excused', automations[id] # None
        PROVE  SameFace(objs[automations[id]], builder, objs'[automations[id]], builder')
    BY <2>1, <2>2 DEF ListsShared, SameFace, ShownLists
  <2>3. \A id \in Ids : Keeps(requests, requests', id)
    BY <2>1 DEF Keeps
  <2> QED
    BY <2>1, <2>2, <2>3, AgreeFrame
<1> QED
  BY <1>1, <1>2, <1>3
     DEF Builder, RemoveItem, SaveTrigger, SaveCondition, SaveAction, Push

(* What the server changes, the answer to the request will tell. *)
LEMMA AgreeServer ==
  ASSUME TypeInv, BornInv, AgreeInv, NEW r \in requests, ServerHandles(r)
  PROVE  AgreeInv'
<1>1. r.status = "sent" /\ UNCHANGED <<automations, objs, builder, excused>>
  BY Handling DEF PageStays
<1>2. PICK q : Settled(r, q) /\ (Created(r, q) \/ Changed(r, q))
  BY Handling
<1>3. requests' = (requests \ {r}) \cup {q} /\ q.op = r.op
  BY <1>2 DEF Settled
<1>4. \A id, ops : Waits(requests, id, ops) => Waits(requests', id, ops)
  BY <1>1, <1>3 DEF Waits
<1>5. Gone(requests, server) /\ RequestOK(r)
  BY DEF AgreeInv, TypeInv, RequestsOK
<1>6. ASSUME NEW id \in Ids, id \notin excused, server'[id] = server[id]
      PROVE  SettledAt(requests', id, server'[id], automations'[id], objs'[automations'[id]], builder')
  <2>1. SettledAt(requests, id, server[id], automations[id], objs[automations[id]], builder)
    BY <1>6 DEF AgreeInv
  <2> QED
    BY <1>1, <1>4, <1>6, <2>1 DEF SettledAt
<1>7. CASE Created(r, q)
  <2>1. /\ q.id \in Ids \ born /\ q.status = "ok" /\ q.op = "create"
        /\ server' = [id \in Ids |-> IF id = q.id THEN q.doc ELSE server[id]]
    BY <1>3, <1>7 DEF Created
  <2>2. ASSUME NEW p \in requests', p.op = "delete", p.status = "ok" PROVE server'[p.id] = None
    <3>1. p \in requests /\ p.id \in born \cup {None} /\ server[p.id] = None
      BY <1>3, <1>5, <2>1, <2>2 DEF Gone, BornInv
    <3>2. p.id \in Ids
      BY <2>2, <3>1 DEF TypeInv, RequestsOK, RequestOK
    <3>3. p.id # q.id
      BY <2>1, <3>1, <3>2, EditorAssumption
    <3> QED
      BY <2>1, <3>1, <3>2, <3>3
  <2>3. Waits(requests', q.id, Lasting)
    BY <1>3, <2>1 DEF Waits, Lasting
  <2>4. \A id \in Ids : id # q.id => server'[id] = server[id]
    BY <2>1
  <2> QED
    BY <1>1, <1>6, <2>2, <2>3, <2>4 DEF AgreeInv, Gone, SettledAt
<1>8. CASE Changed(r, q) /\ UNCHANGED server /\ q.status = "failed"
  BY <1>1, <1>3, <1>5, <1>6, <1>8 DEF AgreeInv, Gone
<1>9. CASE Changed(r, q) /\ server[r.id] # None /\ q.status = "ok"
  <2>1. /\ r.op # "create" /\ q.id = r.id /\ r.id \in Ids
        /\ server' = [id \in Ids |-> IF id = r.id THEN After(r, server[r.id]) ELSE server[id]]
    BY <1>9 DEF Changed
  <2>2. ASSUME NEW p \in requests', p.op = "delete", p.status = "ok" PROVE server'[p.id] = None
    <3>1. CASE p = q
      BY <1>3, <2>1, <2>2, <3>1 DEF After
    <3>2. CASE p \in requests
      <4>1. p.id \in Ids /\ server[p.id] = None
        BY <1>5, <2>2, <3>2 DEF Gone, TypeInv, RequestsOK, RequestOK
      <4> QED
        BY <1>9, <2>1, <4>1
    <3> QED
      BY <1>3, <3>1, <3>2
  <2>3. ASSUME r.id \notin excused
        PROVE  SettledAt(requests', r.id, server'[r.id], automations'[r.id], objs'[automations'[r.id]], builder')
    <3>1. CASE r.op \in Lasting
      <4>1. Waits(requests', r.id, Lasting)
        BY <1>3, <1>9, <2>1, <3>1 DEF Waits
      <4> QED
        BY <4>1 DEF SettledAt
    <3>2. CASE r.op \in Ticking
      <4>1. Waits(requests', r.id, Ticking)
        BY <1>3, <1>9, <2>1, <3>2 DEF Waits
      <4>2. SettledAt(requests, r.id, server[r.id], automations[r.id], objs[automations[r.id]], builder)
        BY <2>1, <2>3 DEF AgreeInv
      <4>3. Waits(requests, r.id, Lasting)
            \/ NearAt(server[r.id], automations[r.id], objs[automations[r.id]], builder)
        BY <4>2, Near DEF SettledAt
      <4>4. ASSUME NearAt(server[r.id], automations[r.id], objs[automations[r.id]], builder)
            PROVE  NearAt(server'[r.id], automations[r.id], objs[automations[r.id]], builder)
        <5> DEFINE x == objs[automations[r.id]]
                   l == ShownLists(x, builder)
                   on == (r.op = "enable")
        <5>1. automations[r.id] # None /\ server[r.id] = Kept(x.name, server[r.id].enabled, l)
          BY <1>9, <4>4 DEF NearAt
        <5>2. server'[r.id] = [server[r.id] EXCEPT !.enabled = on]
          BY <2>1, <3>2 DEF After, Ticking
        <5> HIDE DEF x, l, on
        <5>3. server'[r.id] = Kept(x.name, on, l)
          BY <5>1, <5>2 DEF Kept
        <5>4. server'[r.id].enabled = on
          BY <5>3 DEF Kept
        <5> QED
          BY <5>1, <5>3, <5>4 DEF NearAt, x, l
      <4> QED
        BY <1>1, <1>4, <4>1, <4>3, <4>4 DEF SettledAt
    <3> QED
      BY <1>5, <2>1, <3>1, <3>2 DEF RequestOK, Lasting, Ticking
  <2>4. \A id \in Ids : id # r.id => server'[id] = server[id]
    BY <2>1
  <2> QED
    BY <1>1, <1>6, <2>2, <2>3, <2>4 DEF AgreeInv, Gone
<1> QED
  BY <1>2, <1>7, <1>8, <1>9 DEF Changed

(* What is left to show of an answer, when the rest is as before: of an    *)
(* automation that needs an excuse, of the one the answer is about, and of *)
(* another.                                                                *)
LEMMA AgreeAnswered ==
  ASSUME TypeInv, AgreeInv, NEW r \in requests, Answer(r), NEW ids, Excuse(ids),
         \A id \in Ids \ ids :
           \/ AgreeAt(server'[id], automations'[id], objs'[automations'[id]], builder')
           \/ /\ id # r.id
              /\ automations'[id] = automations[id]
              /\ automations[id] = None \/ objs'[automations[id]] = objs[automations[id]]
           \/ /\ NearAt(server[id], automations[id], objs[automations[id]], builder) =>
                   AgreeAt(server'[id], automations'[id], objs'[automations'[id]], builder')
              /\ r.op \in Ticking
  PROVE  AgreeInv'
<1>1. requests' = requests \ {r} /\ UNCHANGED <<server, builder>>
  BY DEF Answer, serverVars
<1>2. Gone(requests', server')
  BY <1>1 DEF AgreeInv, Gone
<1>3. ASSUME NEW id \in Ids, id \notin excused'
      PROVE  SettledAt(requests', id, server'[id], automations'[id], objs'[automations'[id]], builder')
  <2>1. CASE AgreeAt(server'[id], automations'[id], objs'[automations'[id]], builder')
    BY <2>1 DEF SettledAt
  <2>2. CASE id \notin excused \cup ids
    <3>1. SettledAt(requests, id, server[id], automations[id], objs[automations[id]], builder)
      BY <2>2 DEF AgreeInv
    <3>2. CASE /\ id # r.id
               /\ automations'[id] = automations[id]
               /\ automations[id] = None \/ objs'[automations[id]] = objs[automations[id]]
      <4>1. \A ops : Waits(requests, id, ops) => Waits(requests', id, ops)
        BY <1>1, <3>2 DEF Waits
      <4>2. automations[id] = None \/ SameFace(objs[automations[id]], builder, objs'[automations[id]], builder')
        BY <1>1, <3>2 DEF SameFace
      <4> QED
        BY <1>1, <3>1, <3>2, <4>1, <4>2, FaceStays
    <3>3. CASE /\ NearAt(server[id], automations[id], objs[automations[id]], builder) =>
                    AgreeAt(server'[id], automations'[id], objs'[automations'[id]], builder')
               /\ r.op \in Ticking
      <4>1. Waits(requests, id, Lasting) => Waits(requests', id, Lasting)
        BY <1>1, <3>3 DEF Waits, Lasting, Ticking
      <4> QED
        BY <3>1, <3>3, <4>1, Near DEF SettledAt
    <3> QED
      BY <2>1, <2>2, <3>2, <3>3
  <2> QED
    BY <1>3, <2>1, <2>2, ExcuseIs
<1> QED
  BY <1>2, <1>3 DEF AgreeInv

(* The answer to an update sets the automation right, if it is still the selected one. *)
LEMMA AgreeUpdated ==
  ASSUME TypeInv, AgreeInv, NEW r \in requests, Answer(r), AnswerUpdate(r)
  PROVE  AgreeInv'
<1> DEFINE wrong == \/ automations[r.id] # selected
                    \/ r.doc # server[r.id]
                    \/ Kept(r.doc.name, r.doc.enabled, ListsOf(r.data)) # r.doc
           ids == IF wrong THEN {r.id, objs[selected].id} ELSE {}
<1>1. Excuse(ids) /\ UNCHANGED <<server, builder, automations>> /\ r.op = "update"
  BY DEF AnswerUpdate, Answer, serverVars
<1>2. PICK x : Assigned(objs[selected], x, r) /\ Becomes(selected, x)
  BY Assigning
<1>3. selected \in Objs /\ r.doc.name = r.data.name /\ r.doc.enabled = r.data.enabled /\ r.id \in Ids
  BY <1>1, Assigning DEF TypeInv, RequestsOK, RequestOK, IsSave
<1>4. \A id \in Ids : automations[id] # None => objs[automations[id]].id = id /\ automations[id] \in Objs
  BY DEF TypeInv, PageOK, Linked
<1>5. ASSUME NEW id \in Ids \ ids
      PROVE  \/ AgreeAt(server'[id], automations'[id], objs'[automations'[id]], builder')
             \/ /\ id # r.id
                /\ automations'[id] = automations[id]
                /\ automations[id] = None \/ objs'[automations[id]] = objs[automations[id]]
  <2>1. CASE id = r.id
    <3>1. ~wrong
      BY <1>5, <2>1
    <3>2. objs'[selected] = x /\ automations'[id] = selected /\ selected # None
      BY <1>1, <1>2, <1>3, <2>1, <3>1, EditorAssumption DEF Becomes
    <3>3. ShownLists(x, builder) = ListsOf(r.data) /\ x.name = r.data.name /\ x.enabled = r.data.enabled
      BY <1>2 DEF Assigned, ShownLists, ListsOf
    <3>4. server[id] = Kept(x.name, x.enabled, ShownLists(x, builder))
      BY <1>3, <2>1, <3>1, <3>3
    <3> QED
      BY <1>1, <3>2, <3>4 DEF AgreeAt
  <2>2. CASE id # r.id
    <3>1. CASE automations[id] = selected
      <4>1. objs[selected].id = id
        BY <1>3, <1>4, <3>1, EditorAssumption
      <4>2. ~wrong
        BY <1>5, <4>1
      <4>3. objs[selected].id = r.id
        BY <1>3, <1>4, <4>2, EditorAssumption
      <4> QED
        BY <2>2, <4>1, <4>3
    <3>2. CASE automations[id] # selected
      BY <1>1, <1>2, <1>4, <2>2, <3>2 DEF Becomes
    <3> QED
      BY <3>1, <3>2
  <2> QED
    BY <2>1, <2>2
<1> HIDE DEF ids
<1> QED
  BY <1>1, <1>5, AgreeAnswered

(* The answer to a creation shows what was created. *)
LEMMA AgreeCreated ==
  ASSUME TypeInv, AgreeInv, NEW r \in requests, Answer(r), r.status = "ok", AnswerCreate(r)
  PROVE  AgreeInv'
<1> DEFINE ids == IF r.doc # server[r.id] THEN {r.id} ELSE {}
<1>1. Excuse(ids) /\ UNCHANGED <<server, builder>>
  BY DEF AnswerCreate, Answer, serverVars
<1>2. PICK o : Made(r, o)
  BY Making
<1>3. r.id \in Ids /\ DocOK(r.doc)
  BY DEF AnswerCreate, TypeInv, RequestsOK, RequestOK, IsSave
<1>4. \A id \in Ids : automations[id] # None => automations[id] \in Objs
  BY DEF TypeInv, PageOK
<1> DEFINE x == Parsed(r.id, r.doc)
<1>5. /\ ~x.shared /\ x.name = r.doc.name /\ x.enabled = r.doc.enabled /\ x.lists = Lists(r.doc)
      /\ Becomes(o, x)
  BY <1>2, <1>3, ParsedIs DEF Made
<1> HIDE DEF x
<1>6. r.doc = Kept(x.name, x.enabled, ShownLists(x, builder))
  BY <1>3, <1>5 DEF ShownLists, DocOK
<1>7. ASSUME NEW id \in Ids \ ids
      PROVE  \/ AgreeAt(server'[id], automations'[id], objs'[automations'[id]], builder')
             \/ /\ id # r.id
                /\ automations'[id] = automations[id]
                /\ automations[id] = None \/ objs'[automations[id]] = objs[automations[id]]
  <2>1. CASE id = r.id
    <3>1. server[id] = r.doc
      BY <1>7, <2>1
    <3>2. automations'[id] = o /\ o \in Objs /\ o # None /\ objs'[o] = x
      BY <1>2, <1>3, <1>5, <2>1, EditorAssumption DEF Made, Becomes
    <3> QED
      BY <1>1, <1>6, <3>1, <3>2 DEF AgreeAt
  <2>2. CASE id # r.id
    BY <1>2, <1>4, <1>5, <2>2 DEF Made, Becomes
  <2> QED
    BY <2>1, <2>2
<1> HIDE DEF ids
<1> QED
  BY <1>1, <1>7, AgreeAnswered

(* The answer to a toggle sets the box, which is all there was to set. *)
LEMMA AgreeToggled ==
  ASSUME TypeInv, AgreeInv, NEW r \in requests, Answer(r), r.status = "ok", AnswerToggle(r)
  PROVE  AgreeInv'
<1> DEFINE on == (r.op = "enable")
           ids == IF server[r.id] = None \/ server[r.id].enabled # on THEN {r.id} ELSE {}
<1>1. Excuse(ids) /\ UNCHANGED <<server, builder, automations>> /\ r.op \in Ticking /\ r.id \in Ids
  BY DEF AnswerToggle, Answer, serverVars, Ticking, TypeInv, RequestsOK, RequestOK
<1>2. \A id \in Ids : automations[id] # None => objs[automations[id]].id = id /\ automations[id] \in Objs
  BY DEF TypeInv, PageOK, Linked
<1>3. \/ automations[r.id] = None /\ UNCHANGED objs
      \/ /\ automations[r.id] \in Objs
         /\ \E x : Switched(objs[automations[r.id]], x, on) /\ Becomes(automations[r.id], x)
  BY Switching
<1>a. r.id \notin ids => server[r.id] # None /\ server[r.id].enabled = on
  OBVIOUS
<1> HIDE DEF on, ids
<1>4. ASSUME NEW id \in Ids \ ids, id # r.id
      PROVE  /\ automations'[id] = automations[id]
             /\ automations[id] = None \/ objs'[automations[id]] = objs[automations[id]]
  <2>1. CASE automations[r.id] = None /\ UNCHANGED objs
    BY <1>1, <2>1
  <2>2. CASE automations[r.id] \in Objs /\ automations[id] # None
    <3>1. PICK x : Becomes(automations[r.id], x)
      BY <1>3, <2>2, EditorAssumption
    <3>2. automations[id] # automations[r.id] /\ automations[id] \in Objs
      BY <1>1, <1>2, <1>4, <2>2, EditorAssumption
    <3> QED
      BY <1>1, <3>1, <3>2 DEF Becomes
  <2> QED
    BY <1>1, <1>3, <2>1, <2>2
<1>5. ASSUME r.id \notin ids, NearAt(server[r.id], automations[r.id], objs[automations[r.id]], builder)
      PROVE  AgreeAt(server'[r.id], automations'[r.id], objs'[automations'[r.id]], builder')
  <2>1. automations[r.id] \in Objs /\ automations[r.id] # None
    BY <1>a, <1>3, <1>5, EditorAssumption DEF NearAt
  <2> DEFINE o == automations[r.id]
  <2>2. PICK x : Switched(objs[o], x, on) /\ objs'[o] = x
    BY <1>3, <2>1, EditorAssumption DEF Becomes
  <2>3. x.name = objs[o].name /\ x.enabled = on /\ ShownLists(x, builder) = ShownLists(objs[o], builder)
    BY <2>2 DEF Switched, ShownLists
  <2>4. server[r.id] = Kept(x.name, x.enabled, ShownLists(x, builder))
    BY <1>a, <1>5, <2>1, <2>3 DEF NearAt
  <2> QED
    BY <1>1, <2>1, <2>2, <2>4 DEF AgreeAt
<1> QED
  BY <1>1, <1>4, <1>5, AgreeAnswered

(* The answer to a deletion takes the automation away, which the server has no more. *)
LEMMA AgreeDeleted ==
  ASSUME TypeInv, AgreeInv, NEW r \in requests, Answer(r), r.status = "ok", AnswerDelete(r)
  PROVE  AgreeInv'
<1>1. /\ Excuse({}) /\ UNCHANGED <<server, objs>> /\ r.id \in Ids /\ r.op = "delete"
      /\ automations' = [automations EXCEPT ![r.id] = None]
  BY DEF AnswerDelete, Answer, serverVars, TypeInv, RequestsOK, RequestOK
<1>2. server'[r.id] = None /\ automations'[r.id] = None
  BY <1>1 DEF AgreeInv, Gone, TypeInv, PageOK
<1>3. \A id \in Ids : id # r.id => automations'[id] = automations[id]
  BY <1>1 DEF TypeInv, PageOK
<1>4. \A id \in Ids \ {} :
        \/ AgreeAt(server'[id], automations'[id], objs'[automations'[id]], builder')
        \/ /\ id # r.id
           /\ automations'[id] = automations[id]
           /\ automations[id] = None \/ objs'[automations[id]] = objs[automations[id]]
  BY <1>1, <1>2, <1>3 DEF AgreeAt
<1> QED
  BY <1>1, <1>4, AgreeAnswered

(* Answers leave only what is excused different from the server. *)
LEMMA AgreeAnswer == ASSUME TypeInv, AgreeInv, NEW r \in requests, Answer(r) PROVE AgreeInv'
<1>1. CASE AnswerUpdateNoSelection(r)
  <2>1. Excuse({r.id}) /\ UNCHANGED <<automations, objs>>
    BY <1>1 DEF AnswerUpdateNoSelection
  <2> QED
    BY <2>1, AgreeAnswered
<1>2. CASE r.status = "failed" /\ UNCHANGED <<automations, objs, excused>>
  BY <1>2, AgreePage DEF Answer, serverVars
<1> QED
  BY <1>1, <1>2, AgreeUpdated, AgreeCreated, AgreeToggled, AgreeDeleted DEF Answer

(* A list shows what the server has, unless it was overtaken. *)
LEMMA AgreeLoad == ASSUME TypeInv, AgreeInv, LoadAutomations PROVE AgreeInv'
<1>1. PICK present, obj : Loaded(present, obj)
  BY Loading
<1> DEFINE ids == {id \in Ids : list[id] # server[id]}
<1>2. UNCHANGED <<server, builder, requests>> /\ Excuse(ids)
  BY DEF LoadAutomations
<1>3. ASSUME NEW id \in Ids, id \notin excused'
      PROVE  AgreeAt(server'[id], automations'[id], objs'[automations'[id]], builder')
  <2>1. CASE id \notin ids
    <3>1. list[id] = server[id]
      BY <2>1
    <3>2. CASE id \in present
      <4>1. /\ automations'[id] = obj[id] /\ obj[id] \in Objs /\ obj[id] # None
            /\ DocOK(list[id]) /\ objs'[obj[id]] = Parsed(id, list[id])
        BY <1>1, <3>2, EditorAssumption DEF Loaded
      <4> DEFINE d == list[id]
                 x == Parsed(id, d)
      <4> HIDE DEF d
      <4>2. ~x.shared /\ x.name = d.name /\ x.enabled = d.enabled /\ x.lists = Lists(d)
        BY <4>1, ParsedIs DEF d
      <4> HIDE DEF x
      <4>3. d = Kept(x.name, x.enabled, ShownLists(x, builder))
        BY <4>1, <4>2 DEF ShownLists, DocOK, d
      <4>4. objs'[obj[id]] = x
        BY <4>1 DEF d, x
      <4> QED
        BY <1>2, <3>1, <4>1, <4>3, <4>4 DEF AgreeAt, d
    <3>3. CASE id \notin present
      <4>1. automations'[id] = None /\ list[id] = None
        BY <1>1, <3>3 DEF Loaded
      <4> QED
        BY <1>2, <3>1, <4>1 DEF AgreeAt
    <3> QED
      BY <3>2, <3>3
  <2>2. CASE id \in ids
    <3> HIDE DEF ids
    <3> QED
      BY <1>2, <1>3, <2>2, ExcuseIs
  <2> QED
    BY <2>1, <2>2
<1> QED
  BY <1>2, <1>3 DEF AgreeInv, SettledAt

(* Every step keeps the page settled. *)
LEMMA AgreeNext == TypeInv /\ BornInv /\ AgreeInv /\ [Next]_vars => AgreeInv'
<1> SUFFICES ASSUME TypeInv, BornInv, AgreeInv, [Next]_vars PROVE AgreeInv'
  OBVIOUS
<1>1. CASE UNCHANGED vars \/ HideModal \/ SendInitialData
  <2>1. UNCHANGED <<server, automations, objs, builder, requests, excused>> \/ SendInitialData
    BY <1>1 DEF vars, serverVars, historyVars, HideModal
  <2>2. UNCHANGED <<server, automations, objs, builder, excused, requests>>
    BY <2>1 DEF SendInitialData, historyVars
  <2> QED
    BY <2>2, AgreePage
<1>2. CASE Designer
  <2>1. /\ UNCHANGED <<server, automations, builder, excused>>
        /\ UNCHANGED <<objs, requests>> \/ Everywhere(LeaveConnections)
    BY <1>2 DEF Designer, AddNode, DeleteNode, EditNode, Connect, DeleteConnection, ClearAll, Draw, Canvas,
                serverVars
  <2> QED
    BY <2>1, AgreePage, AgreeLeft
<1>3. CASE Builder
  BY <1>3, AgreeForm
<1>4. ASSUME NEW o, ShowReteDesigner(o) PROVE AgreeInv'
  <2>1. /\ UNCHANGED <<server, automations, builder, excused>>
        /\ UNCHANGED <<objs, requests>> \/ Everywhere(LeaveConnections)
    BY <1>4 DEF ShowReteDesigner, InitDesigner, LoadFlow, serverVars
  <2> QED
    BY <2>1, AgreePage, AgreeLeft
<1>5. CASE ShowTraditionalBuilder
  BY <1>5, AgreeLeft DEF ShowTraditionalBuilder, serverVars, historyVars
<1>6. CASE SaveReteAutomation \/ SaveAutomation
  <2>1. PICK r : SavedRequest(r)
    BY <1>6, SaveReteIs, SaveFormIs
  <2> QED
    BY <2>1, AgreePage DEF SavedRequest, PageStays, serverVars, historyVars
<1>7. ASSUME NEW id \in Ids, ToggleAutomation(id) \/ DeleteAutomation(id) PROVE AgreeInv'
  <2>1. PICK r : Asked(r)
    BY <1>7, AskIs
  <2> QED
    BY <2>1, AgreePage DEF Asked, PageStays, serverVars, historyVars
<1>8. ASSUME NEW r \in requests, Lose(r) PROVE AgreeInv'
  <2>1. PICK q : Settled(r, q) /\ q.status = "failed" /\ q.id = r.id
    BY <1>8, LosingIs
  <2>2. /\ UNCHANGED <<server, automations, objs, builder>>
        /\ excused' = IF r.status = "ok" THEN excused \cup {r.id} ELSE excused
    BY <1>8, LosingIs DEF PageStays, serverVars
  <2>3. requests' = (requests \ {r}) \cup {q}
    BY <2>1 DEF Settled
  <2> QED
    BY <2>1, <2>2, <2>3, AgreePage
<1>9. ASSUME NEW r \in requests, ServerHandles(r) \/ Answer(r) PROVE AgreeInv'
  BY <1>9, AgreeServer, AgreeAnswer
<1>10. CASE LoadAutomations
  BY <1>10, AgreeLoad
<1> QED
  BY <1>1, <1>2, <1>3, <1>4, <1>5, <1>6, <1>7, <1>8, <1>9, <1>10
     DEF Next, Modal, ShowCreateAutomation, EditAutomation

(* With no request for an automation in flight the page shows what the     *)
(* server has of it, but for the exceptions that LocalAgrees names.        *)
THEOREM Agree == Spec => []LocalAgrees
<1>1. Init => BornInv /\ AgreeInv
  BY BornInit, AgreeInit
<1>2. AgreeInv => LocalAgrees
  <2> SUFFICES ASSUME AgreeInv, NEW id \in Ids, \A r \in requests : r.id # id, id \notin excused
               PROVE  Agrees(id)
    BY DEF LocalAgrees
  <2>1. SettledAt(requests, id, server[id], automations[id], objs[automations[id]], builder)
    BY DEF AgreeInv
  <2>2. \A ops : ~Waits(requests, id, ops)
    BY DEF Waits
  <2> QED
    BY <2>1, <2>2, AgreesIs DEF SettledAt
<1>3. TypeInv /\ (BornInv /\ AgreeInv) /\ [Next]_vars => (BornInv /\ AgreeInv)'
  BY BornNext, AgreeNext
<1> QED
  BY <1>1, <1>2, <1>3, TypeCorrect, PTL DEF Spec

=============================================================================
