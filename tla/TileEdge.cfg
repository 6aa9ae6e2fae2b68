\* Granules of one row around 90 degrees west, which is the edge of a tile.
CONSTANTS
  LonUnits = 72
  LatUnits = 1000
  RowEdge <- Rows
  Latitude <- Latitudes
  GatePixels <- SomePixels
  MaxCloudPercent = 40
  GranuleIds <- AtEdge
  TileBounds <- CutBounds
  MinZoom = 1
  MaxZoom = 3
  RasterSize = 7
  MaxParallelism = 2
  MaxFailures = 2
SPECIFICATION Spec
INVARIANTS
  PlannedTilesHaveWindows
