\* A client reads and walks beside two publishers and a cleanup; nothing but the
\* latest tile set is protected.
CONSTANTS
  s1 = s1
  s2 = s2
  s3 = s3
  t1 = t1
  outside = outside
  TileSets = {s1, s2, s3}
  NoTileSet = NoTileSet
  Version <- OneVersion
  TilesOf <- OneTile
  Manifest = Manifest
  Publishers = {p1, p2}
  Cleaners = {c1}
  ProtectedPrior = 0
  BatchLimit = 1
  TileBlobLimit = 1
  MaxFaults = 1
  Clients = {a}
  Tiles = {t1, outside}
  NoTile = NoTile
  DatasetDate <- Dates
  PageLimit = 1
SPECIFICATION ReadsSpec
INVARIANTS
  UnservedIsExpendable
  WalksAreComplete
CHECK_DEADLOCK FALSE
