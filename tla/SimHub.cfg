SPECIFICATION FairSpec
CONSTANTS
  Clients = {c1, c2}
  Senders = {s1}
  SendCap = 2
  MaxBroadcasts = 4
INVARIANTS
  NoPanic
PROPERTIES
  ImplementsFanout
  AllDelivered
  CleanedUp
CHECK_DEADLOCK FALSE
