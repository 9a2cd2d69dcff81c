SPECIFICATION FairSpec
CONSTANTS
  Ids = {a}
  Bodies = {b1, b2}
  NoDoc = NoDoc
  MaxFaults = 1
  Handlers = {h1}
  Objs = {o1, o2}
  NoObj = NoObj
  MaxRequests = 2
  MaxUICrashes = 1
  Runs = {r1}
  MaxRuns = 1
  MaxEngineCrashes = 1
PROPERTIES
  ImplementsService
  EngineCatchesUp
CHECK_DEADLOCK FALSE
