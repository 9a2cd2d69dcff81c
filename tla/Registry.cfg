SPECIFICATION RegistrySpec
CONSTANTS
  Ids = {d1}
  Refs = {r1, r2, r3}
  Bodies = {b1, b2}
  NoBody = NoBody
  NoRef = NoRef
  NoDoc = NoDoc
  Stale = 0
  TTL = 1
  MaxBusy = 2
SYMMETRY Symmetry
INVARIANTS
  BucketLatest
  OnlineUnlessTold
PROPERTIES
  ImplementsDirectory
