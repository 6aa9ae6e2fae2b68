\* The documented promise about latest.json, under the default protection.
CONSTANTS
  s1 = s1
  s2 = s2
  s3 = s3
  s4 = s4
  t1 = t1
  t2 = t2
  TileSets = {s1, s2, s3, s4}
  NoTileSet = NoTileSet
  Version <- OneVersion
  TilesOf <- OneTile
  Manifest = Manifest
  Publishers = {p1, p2}
  Cleaners = {c1}
  ProtectedPrior = 2
  BatchLimit = 1
  TileBlobLimit = 1
  MaxFaults = 1
SPECIFICATION Spec
SYMMETRY Symmetry
INVARIANTS
  PointerIsServed
CHECK_DEADLOCK FALSE
