\* Two publishers and two cleanups at the same time, one set oversized; under fairness.
CONSTANTS
  s1 = s1
  s2 = s2
  s3 = s3
  s4 = s4
  t1 = t1
  t2 = t2
  TileSets = {s1, s2, s3}
  NoTileSet = NoTileSet
  Version <- OneVersion
  TilesOf <- MixedTiles
  Manifest = Manifest
  Publishers = {p1, p2}
  Cleaners = {c1, c2}
  ProtectedPrior = 0
  BatchLimit = 2
  TileBlobLimit = 1
  MaxFaults = 1
SPECIFICATION LiveSpec
INVARIANTS
  TypeOK
  OnlyExpendableLoseBlobs
  RemovedLeavesNothing
PROPERTIES
  ImplementsCatalog
  StaleIsRemoved
CHECK_DEADLOCK FALSE
