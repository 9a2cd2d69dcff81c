SPECIFICATION Spec
CONSTANTS
  a1 = a1
  a2 = a2
  lamp = lamp
  Ids = {a1, a2}
  Devices = {lamp}
  DeviceType <- MCDeviceType
  Scenes <- Void
  Texts <- MCTexts
  Numerals <- MCTexts
  Stored <- MCStored
  Names <- MCNames
  Ticked = {TRUE}
  Palette <- MCPalette
  Chosen <- MCChosen
  New = New
  None = None
  Objs <- MCObjs
  MaxNodes = 2
  MaxItems = 1
  MaxTraffic = 2
  MaxEdits = 2
VIEW View
INVARIANTS
  LocalAgrees
  OwnItems
  CanvasSound
  BuilderOpens
CHECK_DEADLOCK FALSE
