-------------------------------- MODULE Fanout --------------------------------
(***************************************************************************)
(* What a page of the management UI or of the simulator may rely on when   *)
(* it is sent live updates over a WebSocket.  A source numbers what it     *)
(* broadcasts; a client that has joined receives the broadcasts of each    *)
(* source from the moment it joined, in order and without a gap, until its *)
(* connection ends.  It may be cut off early, it may never miss one update *)
(* and be given a later one.                                               *)
(***************************************************************************)
EXTENDS Naturals, Sequences

CONSTANTS
  Sources,     \* who broadcasts
  Clients      \* the connections, each used once

VARIABLES
  published,   \* number of broadcasts of each source
  joined,      \* the connections that are open
  from,        \* number of broadcasts of each source before a client joined
  got          \* what a client has received of each source: their numbers

fanoutVars == <<published, joined, from, got>>

Nothing == [c \in Clients |-> [s \in Sources |-> 0]]
NoneGot == [c \in Clients |-> [s \in Sources |-> <<>>]]

Init ==
  /\ published = [s \in Sources |-> 0]
  /\ joined = {}
  /\ from = Nothing
  /\ got = NoneGot

Join(c) ==
  /\ c \notin joined
  /\ got[c] = [s \in Sources |-> <<>>]
  /\ joined' = joined \cup {c}
  /\ from' = [from EXCEPT ![c] = published]
  /\ UNCHANGED <<published, got>>

Publish(s) ==
  /\ published' = [published EXCEPT ![s] = @ + 1]
  /\ UNCHANGED <<joined, from, got>>

Deliver(c, s) ==
  LET next == from[c][s] + Len(got[c][s]) + 1
  IN /\ c \in joined
     /\ next <= published[s]
     /\ got' = [got EXCEPT ![c][s] = Append(@, next)]
     /\ UNCHANGED <<published, joined, from>>

Leave(c) ==
  /\ c \in joined
  /\ joined' = joined \ {c}
  /\ UNCHANGED <<published, from, got>>

Next ==
  \/ \E s \in Sources : Publish(s)
  \/ \E c \in Clients : Join(c) \/ Leave(c)
  \/ \E c \in Clients, s \in Sources : Deliver(c, s)

Spec == Init /\ [][Next]_fanoutVars
=============================================================================
