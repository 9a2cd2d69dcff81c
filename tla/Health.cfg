SPECIFICATION FairSpec
CONSTANTS
  Devices = {d1}
  Levels <- MCLevels
  Clients = {c1}
  ChannelSize = 1
  AlertsKept = 1
  None = None
  MaxChanges = 3
  MaxDrops = 1
INVARIANTS
  OfflineAlerted
  CountsAgree
PROPERTIES
  ShownForward
  CatchesUp
CHECK_DEADLOCK FALSE
