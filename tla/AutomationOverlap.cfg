SPECIFICATION Spec
CONSTANTS
  Ids = {a}
  Bodies = {b1, b2}
  NoDoc = NoDoc
  MaxFaults = 0
  Handlers = {h1, h2}
  Objs = {o1, o2, o3}
  NoObj = NoObj
  MaxRequests = 3
  MaxUICrashes = 0
  Runs = {r1}
  MaxRuns = 1
  MaxEngineCrashes = 0
SYMMETRY Symmetry
INVARIANTS
  OnlyEnabledRun
  EngineStaleOnlyIfExcused
PROPERTIES
  EditsStayWhole
  ImplementsService
CHECK_DEADLOCK FALSE
