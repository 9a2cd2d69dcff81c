SPECIFICATION Spec
CONSTANTS
  lamp = lamp
  blind = blind
  Devices = {lamp, blind}
  DeviceType <- MCDeviceType
  Initial <- MCInitial
  Settings <- MCSettings
  Stored = {lamp}
  None = None
  MaxRequests = 3
  MaxMoves = 2
  MaxElsewhere = 1
  MaxDrops = 1
INVARIANTS
  PageAgrees
  CardsAsAsked
CHECK_DEADLOCK FALSE
