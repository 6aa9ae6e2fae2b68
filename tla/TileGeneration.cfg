\* Granules cut by the bounds and by tile edges, zooms 1 to 3, two renders at a time.
CONSTANTS
  LonUnits = 72
  LatUnits = 1000
  RowEdge <- Rows
  Latitude <- Latitudes
  GatePixels <- SomePixels
  MaxCloudPercent = 40
  GranuleIds <- SomeGranules
  TileBounds <- CutBounds
  MinZoom = 1
  MaxZoom = 3
  RasterSize = 7
  MaxParallelism = 2
  MaxFailures = 2
SPECIFICATION Spec
INVARIANTS
  GeneratedIsPlan
  RedirectsAreRendered
  WindowsCutTheRaster
  RendersBounded
  VisiblePixelsAreVetted
  GateCountsWhatTilesShow
