SPECIFICATION Spec
CONSTANTS
  Clients = {c1, c2}
  Sources = {s1, s2}
  Reply = Reply
  SendCap = 1
  MaxBroadcasts = 1
  MaxReplies = 1
INVARIANTS
  NoPanic
CHECK_DEADLOCK FALSE
