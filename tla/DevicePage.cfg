SPECIFICATION FairSpec
CONSTANTS
  lamp = lamp
  heater = heater
  Devices = {lamp, heater}
  DeviceType <- MCDeviceType
  States <- MCStates
  Stored <- MCStored
  None = None
  Live = Live
  MaxDrops = 1
  MaxUpdates = 1
  MaxTraffic = 3
  MaxVisits = 2
INVARIANTS
  DevicesAgree
  ButtonsAsDrawn
  DialogAsTitled
  RowsAsEvents
PROPERTIES
  Reconnects
CHECK_DEADLOCK FALSE
