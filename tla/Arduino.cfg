SPECIFICATION FairSpec
CONSTANTS
  Subjects = {a}
  MaxSubscriptions = 2
  MaxPending = 2
  MaxAttempts = 5
  MaxSid = 4
  MaxMessages = 2
  MaxOutages = 1
INVARIANTS
  RightHandler
  InboxHeld
  ServerAgrees
PROPERTIES
  RequestEnds
  BackUnlessGivenUp
CHECK_DEADLOCK FALSE
