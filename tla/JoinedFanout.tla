----------------------------- MODULE JoinedFanout -----------------------------
(***************************************************************************)
(* What a page of the management UI may rely on when it is sent live       *)
(* updates over a WebSocket whose server puts what is waiting into one     *)
(* frame.  A source numbers what it broadcasts.  On the connection of a    *)
(* client that has joined, the updates of each source go out in order and  *)
(* without a gap from the moment it joined until the connection ends.  The *)
(* page can read a frame with one message only: it may miss updates that   *)
(* share a frame with another message, and those alone; what it reads is   *)
(* in order, never twice and never an update that is not the newest sent.  *)
(***************************************************************************)
EXTENDS Naturals, Sequences

CONSTANTS
  Sources,     \* who broadcasts
  Clients      \* the connections, each used once

VARIABLES
  published,   \* number of broadcasts of each source
  joined,      \* the connections that are open
  from,        \* number of broadcasts of each source before a client joined
  sent,        \* what went out on a connection of each source: their numbers
  got          \* what of it came in a frame of its own, which the page can read

joinedVars == <<published, joined, from, sent, got>>

None == [s \in Sources |-> <<>>]
SentUpTo(c, s) == from[c][s] + Len(sent[c][s])

Init ==
  /\ published = [s \in Sources |-> 0]
  /\ joined = {}
  /\ from = [c \in Clients |-> [s \in Sources |-> 0]]
  /\ sent = [c \in Clients |-> None]
  /\ got = [c \in Clients |-> None]

Join(c) ==
  /\ c \notin joined
  /\ sent[c] = None
  /\ got[c] = None
  /\ joined' = joined \cup {c}
  /\ from' = [from EXCEPT ![c] = published]
  /\ UNCHANGED <<published, sent, got>>

Publish(s) ==
  /\ published' = [published EXCEPT ![s] = @ + 1]
  /\ UNCHANGED <<joined, from, sent, got>>

(* A frame with one update. *)
Deliver(c, s) ==
  LET next == SentUpTo(c, s) + 1
  IN /\ c \in joined
     /\ next <= published[s]
     /\ sent' = [sent EXCEPT ![c][s] = Append(@, next)]
     /\ got' = [got EXCEPT ![c][s] = Append(@, next)]
     /\ UNCHANGED <<published, joined, from>>

(* A frame of several messages: of each source the next updates, up to any *)
(* that has been broadcast.                                                *)
DeliverJoined(c) ==
  /\ c \in joined
  /\ \E last \in [Sources -> UNION {0..published[s] : s \in Sources}] :
       /\ \A s \in Sources : SentUpTo(c, s) <= last[s] /\ last[s] <= published[s]
       /\ sent' = [sent EXCEPT ![c] =
            [s \in Sources |-> @[s] \o [i \in 1..(last[s] - SentUpTo(c, s)) |-> SentUpTo(c, s) + i]]]
  /\ UNCHANGED <<published, joined, from, got>>

Leave(c) ==
  /\ c \in joined
  /\ joined' = joined \ {c}
  /\ UNCHANGED <<published, from, sent, got>>

Next ==
  \/ \E s \in Sources : Publish(s)
  \/ \E c \in Clients : Join(c) \/ Leave(c) \/ DeliverJoined(c)
  \/ \E c \in Clients, s \in Sources : Deliver(c, s)

Spec == Init /\ [][Next]_joinedVars
=============================================================================
