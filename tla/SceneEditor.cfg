SPECIFICATION Spec
CONSTANTS
  s1 = s1
  s2 = s2
  s3 = s3
  lamp = lamp
  heater = heater
  sensor = sensor
  ghost = ghost
  Ids = {s1, s2, s3}
  Devices = {lamp, heater, sensor, ghost}
  Listed = {lamp, heater, sensor}
  None = None
  Stored <- MCStored
  TypeOf <- MCTypeOf
  Features <- MCFeatures
  Names <- MCNames
  Icons <- MCIcons
  Percent <- MCPercent
  Degrees <- MCDegrees
  Colors <- MCColors
  Customs <- MCCustoms
  Objs <- MCObjs
  Refs <- MCRefs
  MaxRequests = 2
  MaxEdits = 1
  MaxMishaps = 1
VIEW View
INVARIANTS
  LocalAgrees
  OnlyOfferedStates
PROPERTIES
  DialogKeepsScenes
  UnlistedDevicesKept
CHECK_DEADLOCK FALSE
