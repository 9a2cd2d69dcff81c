SPECIFICATION FairSpec
CONSTANTS
  Clients = {c1}
  Sources = {s1, s2}
  Reply = Reply
  SendCap = 1
  MaxBroadcasts = 2
  MaxReplies = 1
INVARIANTS
  NoStaleEntry
PROPERTIES
  ImplementsJoinedFanout
  SlowClientGone
CHECK_DEADLOCK FALSE
