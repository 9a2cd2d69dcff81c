--------------------------- MODULE DeviceDirectory ---------------------------
(***************************************************************************)
(* What a client of the device registry may rely on: a directory whose     *)
(* answer for a device is what it announced last, nothing, or while an     *)
(* announcement or deletion of it is under way what the answer was before. *)
(* Once it is the new it does not go back to the old, and when the call    *)
(* has returned the old is gone.                                           *)
(*                                                                         *)
(* It answers with nothing whenever it likes: entries expire.  A device is *)
(* astray when a call that writes it overlapped another call on it, failed *)
(* or was cut off, until a call that writes it is alone with it again.     *)
(***************************************************************************)
CONSTANTS
    Ids,            \* devices
    Bodies, NoBody, \* what a device announces of itself; nothing
    Callers         \* those who call the directory, one call at a time

VARIABLES
    latest,  \* what each device announced last, or nothing after a deletion
    answer,  \* what the directory answers
    calls,   \* the calls under way
    astray   \* the devices nothing is promised of

directoryVars == <<latest, answer, calls, astray>>

NoCall == [active |-> FALSE]
CallOn(i, writes) == [active |-> TRUE, id |-> i, writes |-> writes]

On(i) == {p \in Callers : calls[p].active /\ calls[p].id = i}
Writers(i) == {p \in On(i) : calls[p].writes}

Init ==
    /\ latest = [i \in Ids |-> NoBody]
    /\ answer = [i \in Ids |-> NoBody]
    /\ calls = [p \in Callers |-> NoCall]
    /\ astray = {}

(* How answers may change, but for the devices that are astray.            *)
Settled(i) == answer'[i] \in {latest[i], NoBody}
Answers ==
    /\ answer' \in [Ids -> Bodies \cup {NoBody}]
    /\ \A i \in Ids \ astray' : answer'[i] = answer[i] \/ Settled(i)

(* A call that reads or updates what is there.                             *)
Look(p, i) ==
    /\ calls[p] = NoCall
    /\ calls' = [calls EXCEPT ![p] = CallOn(i, FALSE)]
    /\ astray' = IF Writers(i) # {} THEN astray \cup {i} ELSE astray
    /\ UNCHANGED <<latest, answer>>

(* An announcement, or the deletion of what was announced.                 *)
Change(p, i) ==
    /\ calls[p] = NoCall
    /\ \E body \in Bodies \cup {NoBody} : latest' = [latest EXCEPT ![i] = body]
    /\ calls' = [calls EXCEPT ![p] = CallOn(i, TRUE)]
    /\ astray' = IF On(i) = {} THEN astray \ {i} ELSE astray \cup {i}
    /\ UNCHANGED answer

(* A call works, or an entry expires.                                      *)
Work == Answers /\ UNCHANGED <<latest, calls, astray>>

Return(p) ==
    /\ calls[p].active
    /\ calls' = [calls EXCEPT ![p] = NoCall]
    /\ IF calls[p].writes
       THEN /\ astray' \in {astray, astray \cup {calls[p].id}}
            /\ calls[p].id \notin astray' => Settled(calls[p].id)
       ELSE UNCHANGED astray
    /\ Answers
    /\ UNCHANGED latest

Restart ==
    /\ calls' = [p \in Callers |-> NoCall]
    /\ astray' = astray \cup {i \in Ids : Writers(i) # {}}
    /\ answer' \in [Ids -> Bodies \cup {NoBody}]
    /\ \A i \in Ids \ astray' : Settled(i)
    /\ UNCHANGED latest

Next ==
    \/ \E p \in Callers, i \in Ids : Look(p, i) \/ Change(p, i)
    \/ \E p \in Callers : Return(p)
    \/ Work \/ Restart

Spec == Init /\ [][Next]_directoryVars
=============================================================================
