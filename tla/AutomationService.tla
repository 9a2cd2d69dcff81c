--------------------------- MODULE AutomationService ---------------------------
(***************************************************************************)
(* What a user of the automations' API may rely on.  Each request takes    *)
(* effect at one instant, on what the requests before it left; what it     *)
(* leaves is written to the bucket some time later, as a request would     *)
(* find it then; and a restart goes back to what was written.              *)
(*                                                                         *)
(* An automation is astray once the promise is off: a request came while   *)
(* another one on it was not written yet, a write or a read failed, or     *)
(* somebody else wrote it.  Only a restart brings it back.                 *)
(***************************************************************************)
CONSTANTS
  Ids, Bodies,  \* the automations, and what users submit for one
  NoDoc         \* no automation

VARIABLES
  shown,        \* the automations as a request finds them
  stored,       \* the automations in the bucket
  dirty,        \* those with a write to come
  astray        \* those nothing is promised of

serviceVars == <<shown, stored, dirty, astray>>

Documents == [id : Ids, enabled : BOOLEAN, trigs : Bodies, acts : Bodies]

Init ==
  /\ shown = [id \in Ids |-> NoDoc]
  /\ stored = [id \in Ids |-> NoDoc]
  /\ dirty = {}
  /\ astray = {}

(* A request leaves doc of the automation, which is to be written.         *)
Leave(id, doc) ==
  /\ shown' = [shown EXCEPT ![id] = doc]
  /\ dirty' = dirty \cup {id}
  /\ astray' = IF id \in dirty THEN astray \cup {id} ELSE astray
  /\ UNCHANGED stored

Create(id) == \E body \in Bodies, enabled \in BOOLEAN :
  Leave(id, [id |-> id, enabled |-> enabled, trigs |-> body, acts |-> body])

(* Triggers and actions of an edit take effect together.                   *)
Update(id) == \E body \in Bodies :
  shown[id] # NoDoc /\ Leave(id, [shown[id] EXCEPT !.trigs = body, !.acts = body])

SetEnabled(id) == \E enabled \in BOOLEAN :
  shown[id] # NoDoc /\ Leave(id, [shown[id] EXCEPT !.enabled = enabled])

Delete(id) == shown[id] # NoDoc /\ Leave(id, NoDoc)

(* What is written is what a request would find when it is written.        *)
Write(id) ==
  /\ id \in dirty \ astray
  /\ stored' = [stored EXCEPT ![id] = shown[id]]
  /\ dirty' = dirty \ {id}
  /\ UNCHANGED <<shown, astray>>

(* Of an automation that is astray another document may be written, and a  *)
(* second write be to come.                                                *)
WriteAstray(id) ==
  /\ id \in dirty \cap astray
  /\ \E doc \in Documents \cup {NoDoc} : stored' = [stored EXCEPT ![id] = doc]
  /\ dirty' \in {dirty, dirty \ {id}}
  /\ UNCHANGED <<shown, astray>>

(* The write fails.                                                        *)
WriteFails(id) ==
  /\ id \in dirty
  /\ dirty' \in {dirty, dirty \ {id}}
  /\ astray' = astray \cup {id}
  /\ UNCHANGED <<shown, stored>>

(* The bucket's automation cannot be read when the API starts.             *)
ReadFails(id) ==
  /\ shown' = [shown EXCEPT ![id] = NoDoc]
  /\ astray' = astray \cup {id}
  /\ UNCHANGED <<stored, dirty>>

(* Another one writes the bucket, which an API that is starting may load.  *)
Overwrite(id) == \E doc \in Documents :
  /\ stored' = [stored EXCEPT ![id] = doc]
  /\ shown' \in {shown, [shown EXCEPT ![id] = doc]}
  /\ astray' = astray \cup {id}
  /\ UNCHANGED dirty

Restart ==
  /\ shown' = stored
  /\ dirty' = {}
  /\ astray' = {}
  /\ UNCHANGED stored

Next ==
  \/ \E id \in Ids :
       \/ Create(id) \/ Update(id) \/ SetEnabled(id) \/ Delete(id)
       \/ Write(id) \/ WriteAstray(id) \/ WriteFails(id) \/ ReadFails(id) \/ Overwrite(id)
  \/ Restart

Spec == Init /\ [][Next]_serviceVars

(* What a request finds is not lost with a restart, but for what is to be  *)
(* written or astray.                                                      *)
Durable == \A id \in Ids \ (dirty \cup astray) : stored[id] = shown[id]
=============================================================================
