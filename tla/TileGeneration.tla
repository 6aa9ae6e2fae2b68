--------------------------- MODULE TileGeneration ---------------------------
(***************************************************************************)
(* processing-svc: how a granule becomes the tiles of a tile set.  The     *)
(* planner turns the bounds of the granule into a range of map tiles for   *)
(* every zoom, each tile is mapped to the window of the granule's raster   *)
(* it shows, and a pool renders the windows on blocking threads, at most   *)
(* MaxParallelism at a time.  The first error gives the whole tile set up. *)
(*                                                                         *)
(* Positions are integers: west to east in LonUnits of a full circle, and  *)
(* north to south in LatUnits of the Web Mercator axis, both fine enough   *)
(* for every tile edge up to MaxZoom to be a position.                     *)
(***************************************************************************)
EXTENDS PixelScience

CONSTANTS
  LonUnits, LatUnits,
  RowEdge,         \* position of the upper edge of each VIIRS row, and of the last lower one
  Latitude,        \* latitude of a position, counted southwards from the pole
  GatePixels,      \* pixels that a granule may begin with
  MaxCloudPercent, \* MAX_CLOUD_FRACTION
  GranuleIds,      \* <<h, v>> of the granules that arrive
  TileBounds,      \* TILE_BOUNDS
  MinZoom, MaxZoom,    \* TILE_MIN_ZOOM, TILE_MAX_NATIVE_ZOOM
  RasterSize,      \* width and height of a granule's raster
  MaxParallelism,  \* PROCESSING_MAX_PARALLELISM
  MaxFailures      \* bound: tile sets that fail while rendering

\* parse_u8_range, parse_tile_bounds and parse_positive_usize
ASSUME ConfigAssumption ==
  /\ MinZoom \in Nat /\ MaxZoom \in Nat /\ MinZoom <= MaxZoom
  /\ MaxParallelism \in Nat \ {0}
  /\ MaxFailures \in Nat
  /\ MaxCloudPercent \in 0..100
  /\ TileBounds \in [west : 0..LonUnits, east : 0..LonUnits,
                     north : 0..LatUnits, south : 0..LatUnits]
  /\ TileBounds.west < TileBounds.east /\ TileBounds.north < TileBounds.south
\* viirs_tile_bounds has 36 columns and 18 rows.  Going south, positions and
\* latitudes grow together.
ASSUME GridAssumption ==
  /\ LonUnits \in Nat \ {0} /\ LatUnits \in Nat \ {0} /\ LonUnits % 36 = 0
  /\ \A z \in 0..MaxZoom :
       2^z \in Nat \ {0} /\ LonUnits % 2^z = 0 /\ LatUnits % 2^z = 0
  /\ RowEdge \in [0..18 -> 0..LatUnits] /\ \A v \in 0..17 : RowEdge[v] < RowEdge[v + 1]
  /\ Latitude \in [0..LatUnits -> Int]
  /\ \A p, q \in 0..LatUnits : p < q => Latitude[p] < Latitude[q]
  /\ GranuleIds \subseteq (0..35) \X (0..17)
  /\ RasterSize \in Nat \ {0}

VARIABLES
  phase,      \* what the worker is doing
  granule,    \* the granule of the tile set under way
  jobs,       \* tile_render_jobs: index to [coord, window]
  next,       \* next_job
  pool,       \* join_set: indices spawned and not yet joined
  running,    \* those of the pool whose blocking thread runs
  finished,   \* those of the pool whose thread is done: index to its outcome
  tiles,      \* indices of the joined tiles, in order of completion
  tileSet,    \* the generated tile set, or NoTileSet
  orphans,    \* blocking threads whose tile set was given up
  failures    \* tile sets given up while rendering

vars == <<phase, granule, jobs, next, pool, running, finished, tiles, tileSet,
          orphans, failures>>

NoTileSet == [coords |-> <<>>, tile_count |-> 0, bounds |-> TileBounds]
NoOutcome == [j \in {} |-> "rendered"]

Init ==
  /\ phase = "idle"
  /\ granule \in GranuleIds
  /\ jobs = <<>> /\ next = 1
  /\ pool = {} /\ running = {} /\ finished = NoOutcome
  /\ tiles = <<>>
  /\ tileSet = NoTileSet
  /\ orphans = 0 /\ failures = 0

-----------------------------------------------------------------------------
(* slippy_tiles: bounds and tiles *)

Least(a, b) == IF a < b THEN a ELSE b
Greatest(a, b) == IF a < b THEN b ELSE a

TilesPerAxis(z) == 2^z

\* clip_bounds: the overlap as a set, empty for None.
ClipBounds(bounds, clipTo) ==
  LET clipped == [west |-> Greatest(bounds.west, clipTo.west),
                  east |-> Least(bounds.east, clipTo.east),
                  north |-> Greatest(bounds.north, clipTo.north),
                  south |-> Least(bounds.south, clipTo.south)]
  IN  IF clipped.west < clipped.east /\ clipped.north < clipped.south THEN {clipped} ELSE {}

ViirsTileBounds(h, v) ==
  [west |-> h * (LonUnits \div 36), east |-> (h + 1) * (LonUnits \div 36),
   north |-> RowEdge[v], south |-> RowEdge[v + 1]]

\* Defect: the far edge of the bounds is left out, as if it were a tile edge.
TileRangeExclusive(bounds, z) ==
  LET range == [west |-> (bounds.west * TilesPerAxis(z)) \div LonUnits,
                east |-> (bounds.east * TilesPerAxis(z)) \div LonUnits,
                north |-> (bounds.north * TilesPerAxis(z)) \div LatUnits,
                south |-> (bounds.south * TilesPerAxis(z)) \div LatUnits]
  IN  [z |-> z, min_x |-> range.west, max_x |-> Greatest(range.west, range.east - 1),
       min_y |-> range.north, max_y |-> Greatest(range.north, range.south - 1)]

\* longitude_to_tile_x and latitude_to_tile_y: the position's tile, the last
\* one for the far edge of the map.
TileAt(position, units, z) ==
  Least((position * TilesPerAxis(z)) \div units, TilesPerAxis(z) - 1)

\* tile_range_for_bounds: ranges are inclusive.
TileRange(bounds, z) ==
  [z |-> z,
   min_x |-> TileAt(bounds.west, LonUnits, z), max_x |-> TileAt(bounds.east, LonUnits, z),
   min_y |-> TileAt(bounds.north, LatUnits, z), max_y |-> TileAt(bounds.south, LatUnits, z)]

TileBoundsOf(coord) ==
  LET width == LonUnits \div TilesPerAxis(coord.z)
      height == LatUnits \div TilesPerAxis(coord.z)
  IN  [west |-> coord.x * width, east |-> (coord.x + 1) * width,
       north |-> coord.y * height, south |-> (coord.y + 1) * height]

-----------------------------------------------------------------------------
(* planning.rs and window.rs *)

\* plan_tile_generation_for_bounds: the tiles of the ranges of every zoom.
RangeCoords(range) ==
  [z : {range.z}, x : range.min_x..range.max_x, y : range.min_y..range.max_y]
PlannedTiles(bounds) == UNION {RangeCoords(TileRange(bounds, z)) : z \in MinZoom..MaxZoom}

\* The loops of tile_render_jobs: zooms in ascending order, then columns, then rows.
PlannedBefore(c, d) ==
  c.z < d.z \/ (c.z = d.z /\ (c.x < d.x \/ (c.x = d.x /\ c.y < d.y)))
PlannedCoords(bounds) ==
  LET planned == PlannedTiles(bounds) IN
  [i \in 1..Cardinality(planned) |->
     CHOOSE c \in planned : Cardinality({d \in planned : PlannedBefore(d, c)}) = i - 1]

\* Fractions of the source's extent, in pixels of the raster.
FloorToRaster(part, whole) == (part * RasterSize) \div whole
CeilToRaster(part, whole) ==
  Least((part * RasterSize + whole - 1) \div whole, RasterSize)

\* Defect: the end is taken for the last pixel and the start for the one before.
SpanShort(start, end, whole) ==
  LET offset == FloorToRaster(start, whole)
      last == CeilToRaster(end, whole)
  IN  [offset |-> offset, size |-> Greatest(last - offset - 1, 1)]

\* The window between two offsets of the clipped tile, along one axis.
Span(start, end, whole) ==
  LET offset == FloorToRaster(start, whole)
      last == CeilToRaster(end, whole)
  IN  [offset |-> offset, size |-> Greatest(last - offset, 1)]

\* raster_window_for_tile: none for a tile that does not overlap the source.
RasterWindow(coord, source) ==
  {[columns |-> Span(clipped.west - source.west, clipped.east - source.west,
                     source.east - source.west),
    rows |-> Span(Latitude[clipped.north] - Latitude[source.north],
                  Latitude[clipped.south] - Latitude[source.north],
                  Latitude[source.south] - Latitude[source.north])] :
      clipped \in ClipBounds(TileBoundsOf(coord), source)}

\* tile_render_jobs: the first tile without a window fails all of them.
RenderJobs(source, coords) ==
  [i \in DOMAIN coords |->
     [coord |-> coords[i],
      window |-> CHOOSE w \in RasterWindow(coords[i], source) : TRUE]]
AllHaveWindows(source, coords) ==
  \A i \in DOMAIN coords : RasterWindow(coords[i], source) # {}

Source == ViirsTileBounds(granule[1], granule[2])
GenerationBounds == ClipBounds(Source, TileBounds)

-----------------------------------------------------------------------------
(* process_parsed_message_with_workspace, from the downloaded granule on *)

Ended == {"generated", "outside bounds", "no window", "unreadable", "rejected", "failed"}

\* The next message of the worker.
NextGranule(g) ==
  /\ phase \in Ended
  /\ phase' = "idle"
  /\ granule' = g
  /\ jobs' = <<>> /\ next' = 1 /\ tiles' = <<>> /\ tileSet' = NoTileSet
  /\ UNCHANGED <<pool, running, finished, orphans, failures>>

\* gdalinfo or gdal_translate fails, or the datasets disagree in their shapes or
\* in the number of samples.
InspectFails ==
  /\ phase = "idle"
  /\ phase' = "unreadable"
  /\ UNCHANGED <<granule, jobs, next, pool, running, finished, tiles, tileSet,
                 orphans, failures>>

\* The window of two by two pixels at the corner of the raster is classified,
\* summarized and held against the threshold.
QualityGate(product, window) ==
  LET classes == [i \in DOMAIN window |-> ClassifyPixel(Mapping(product), window[i])]
      summary == Summary([i \in DOMAIN window |-> CHOOSE c \in classes[i] : TRUE])
  IN
  /\ phase = "idle"
  /\ phase' = IF \E i \in DOMAIN window : classes[i] = {} THEN "unreadable"
              ELSE IF ExceedsMaxCloudFraction(summary, MaxCloudPercent) THEN "rejected"
              ELSE "accepted"
  /\ UNCHANGED <<granule, jobs, next, pool, running, finished, tiles, tileSet,
                 orphans, failures>>

-----------------------------------------------------------------------------
(* generate_tile_set_for_granule_with_manifest *)

\* clip_bounds of the source with TILE_BOUNDS is None.
OutsideConfiguredBounds ==
  /\ phase = "accepted"
  /\ GenerationBounds = {}
  /\ phase' = "outside bounds"
  /\ UNCHANGED <<granule, jobs, next, pool, running, finished, tiles, tileSet,
                 orphans, failures>>

PlanJobs ==
  /\ phase = "accepted"
  /\ \E bounds \in GenerationBounds :
       LET coords == PlannedCoords(bounds) IN
       IF AllHaveWindows(Source, coords)
       THEN /\ jobs' = RenderJobs(Source, coords)
            /\ phase' = "rendering"
       ELSE /\ phase' = "no window"
            /\ UNCHANGED jobs
  /\ UNCHANGED <<granule, next, pool, running, finished, tiles, tileSet,
                 orphans, failures>>

-----------------------------------------------------------------------------
(* generate_tiles_for_plan_with_renderer *)

\* Defect: one job too many.
MaySpawnOneMore == next <= Len(jobs) /\ Cardinality(pool) <= MaxParallelism
MaySpawn == next <= Len(jobs) /\ Cardinality(pool) < MaxParallelism

Spawn ==
  /\ phase = "rendering"
  /\ MaySpawn
  /\ pool' = pool \cup {next}
  /\ next' = next + 1
  /\ UNCHANGED <<phase, granule, jobs, running, finished, tiles, tileSet, orphans, failures>>

\* The task reaches spawn_blocking: from here on nothing stops the thread.
StartRender(j) ==
  /\ phase = "rendering"
  /\ j \in pool /\ j \notin running /\ j \notin DOMAIN finished
  /\ running' = running \cup {j}
  /\ UNCHANGED <<phase, granule, jobs, next, pool, finished, tiles, tileSet, orphans, failures>>

\* render_tile_window_from_granule: gdal_translate reads the window of every
\* dataset, the samples are classified and encoded; or one of these fails.
RenderTile(j) ==
  /\ j \in running
  /\ running' = running \ {j}
  /\ \E outcome \in {"rendered"} \cup (IF failures < MaxFailures THEN {"error"} ELSE {}) :
       finished' = [k \in DOMAIN finished \cup {j} |->
                      IF k = j THEN outcome ELSE finished[k]]
  /\ UNCHANGED <<phase, granule, jobs, next, pool, tiles, tileSet, orphans, failures>>

\* join_next, once no further job may be spawned: tasks are joined in any order.
JoinRendered(j) ==
  /\ phase = "rendering"
  /\ ~MaySpawn
  /\ j \in DOMAIN finished /\ finished[j] = "rendered"
  /\ pool' = pool \ {j}
  /\ finished' = [k \in DOMAIN finished \ {j} |-> finished[k]]
  /\ tiles' = Append(tiles, j)
  /\ UNCHANGED <<phase, granule, jobs, next, running, tileSet, orphans, failures>>

\* The first error returns: the JoinSet is dropped and its tasks are aborted,
\* but the blocking threads they wait for run on.
JoinError(j) ==
  /\ phase = "rendering"
  /\ ~MaySpawn
  /\ j \in DOMAIN finished /\ finished[j] = "error"
  /\ phase' = "failed"
  /\ failures' = failures + 1
  /\ orphans' = orphans + Cardinality(running)
  /\ pool' = {} /\ running' = {} /\ finished' = NoOutcome
  /\ UNCHANGED <<granule, jobs, next, tiles, tileSet>>

OrphanFinishes ==
  /\ orphans > 0
  /\ orphans' = orphans - 1
  /\ UNCHANGED <<phase, granule, jobs, next, pool, running, finished, tiles, tileSet, failures>>

\* Defect: tiles stay in the order in which they were completed.
InCompletionOrder(done) == done
\* tiles.sort_by_key(index), which keeps equal indices in their order.
InPlanOrder(done) ==
  LET Place(p) == Cardinality({q \in DOMAIN done :
                     done[q] < done[p] \/ (done[q] = done[p] /\ q <= p)})
  IN  [k \in DOMAIN done |-> done[CHOOSE p \in DOMAIN done : Place(p) = k]]

\* The loop ends, the tiles are sorted, and the manifest counts them and names
\* the bounds they were generated for; its zooms are those of the configuration.
FinishTileSet ==
  /\ phase = "rendering"
  /\ next > Len(jobs) /\ pool = {}
  /\ \E bounds \in GenerationBounds :
       LET sorted == InPlanOrder(tiles) IN
       tileSet' = [coords |-> [i \in DOMAIN sorted |-> jobs[sorted[i]].coord],
                   tile_count |-> Len(tiles), bounds |-> bounds]
  /\ phase' = "generated"
  /\ UNCHANGED <<granule, jobs, next, pool, running, finished, tiles, orphans, failures>>

-----------------------------------------------------------------------------
(* api-gateway: tile_redirect, which has nothing but the manifest *)

\* parse_tile_coord and validate_tile_coord
IsTileCoord(coord) == coord.x < TilesPerAxis(coord.z) /\ coord.y < TilesPerAxis(coord.z)

\* The coordinate is in the zooms of the manifest and overlaps its bounds.
Redirects(coord) ==
  /\ IsTileCoord(coord)
  /\ coord.z \in MinZoom..MaxZoom
  /\ ClipBounds(TileBoundsOf(coord), tileSet.bounds) # {}

-----------------------------------------------------------------------------

PoolStep ==
  \/ Spawn \/ FinishTileSet
  \/ \E j \in pool : StartRender(j) \/ RenderTile(j) \/ JoinRendered(j) \/ JoinError(j)

Next ==
  \/ InspectFails
  \/ \E product \in Products, window \in [1..4 -> GatePixels] : QualityGate(product, window)
  \/ OutsideConfiguredBounds \/ PlanJobs
  \/ PoolStep
  \/ OrphanFinishes
  \/ \E g \in GranuleIds : NextGranule(g)

Spec == Init /\ [][Next]_vars

-----------------------------------------------------------------------------
(* Properties *)

\* Every variable keeps its type.
TypeOK ==
  /\ phase \in {"idle", "accepted", "rendering"} \cup Ended
  /\ granule \in GranuleIds
  /\ jobs \in Seq([coord : [z : MinZoom..MaxZoom, x : Nat, y : Nat],
                   window : [columns : [offset : Nat, size : Nat], rows : [offset : Nat, size : Nat]]])
  /\ next \in 1..(Len(jobs) + 1)
  /\ pool \subseteq 1..Len(jobs)
  /\ running \subseteq pool
  /\ DOMAIN finished \subseteq pool
  /\ \A j \in DOMAIN finished : finished[j] \in {"rendered", "error"}
  /\ tiles \in Seq(1..Len(jobs))
  /\ DOMAIN tileSet.coords = 1..tileSet.tile_count
  /\ orphans \in Nat
  /\ failures \in 0..MaxFailures

\* A generated tile set has every planned tile once and in plan order, however
\* the renders overtake each other, and its manifest counts them.
GeneratedIsPlan ==
  phase = "generated" =>
    \A bounds \in GenerationBounds :
      /\ tileSet.coords = PlannedCoords(bounds)
      /\ tileSet.tile_count = Len(PlannedCoords(bounds))

\* Two services agree on what a tile set holds: whatever tile the gateway redirects
\* to, by the zooms and bounds of the manifest, the worker has planned and rendered
\* (tile_redirect, plan_tile_generation_for_bounds).
RedirectsAreRendered ==
  phase = "generated" =>
    \A z \in MinZoom..MaxZoom : \A x, y \in 0..TilesPerAxis(z) :
      LET coord == [z |-> z, x |-> x, y |-> y] IN
      Redirects(coord) => \E i \in DOMAIN tileSet.coords : tileSet.coords[i] = coord

Within(pixel, span) == pixel >= span.offset /\ pixel < span.offset + span.size
\* The pixels of one axis of the raster that overlap the generation bounds.
Showing(start, end, whole) ==
  {p \in 0..(RasterSize - 1) : p * whole < end * RasterSize /\ (p + 1) * whole > start * RasterSize}

\* At every zoom the windows show every pixel of the granule inside the
\* generation bounds: rounding to the raster leaves no gap between two tiles.
\* And none reaches beyond the raster, where gdal_translate refuses -srcwin.
WindowsCutTheRaster ==
  /\ phase = "rendering" /\ next = 1 =>
       \A bounds \in GenerationBounds, z \in MinZoom..MaxZoom :
         \A c \in Showing(bounds.west - Source.west, bounds.east - Source.west,
                          Source.east - Source.west),
            r \in Showing(Latitude[bounds.north] - Latitude[Source.north],
                          Latitude[bounds.south] - Latitude[Source.north],
                          Latitude[Source.south] - Latitude[Source.north]) :
           \E i \in DOMAIN jobs :
             /\ jobs[i].coord.z = z
             /\ Within(c, jobs[i].window.columns) /\ Within(r, jobs[i].window.rows)
  /\ \A i \in DOMAIN jobs :
       \A span \in {jobs[i].window.columns, jobs[i].window.rows} :
         span.offset >= 0 /\ span.size > 0 /\ span.offset + span.size <= RasterSize

\* Blocking renders under way: those of the pool, and what earlier tile sets
\* left behind, for each of them at most all but the one that failed.
RendersBounded ==
  Cardinality(running) + orphans <= MaxParallelism + failures * (MaxParallelism - 1)

\* Samples a granule may hold: fill values, values on both sides of every
\* border, and what no VIIRS file should hold.
Radiances ==
  {Sample(r) : r \in {-9999, -1, 0, 1, 2, 499, 500, 9999}} \cup {NonFinite(s) : s \in -1..1}
Qualities == {Sample(q) : q \in {0, 5, 10, 20, 30, 2550, 5120}} \cup {NonFinite(0)}
Clouds == {Sample(Tenths(m)) : m \in {0, 63, 64, 127, 128, 192, 255, 256, 65535}}
Counts == {Sample(0), Sample(5), Sample(Tenths(U16Max)), Sample(Tenths(U16Max + 1))}
Pixels ==
  [radiance : Radiances, quality : Qualities, cloud : {Sample(0)}, observations : Counts]
    \cup [radiance : Radiances, quality : Qualities, cloud : Clouds, observations : {Sample(0)}]

\* A pixel that gets a colour holds a real radiance, its product's quality flag
\* accepts it, and its cloud mask, which may be the fill value, does not say
\* cloudy: the borders and the order of the tests hide no bad pixel behind a
\* good one.
VisiblePixelsAreVetted ==
  phase = "accepted" => \A product \in Products, p \in Pixels :
    \A class \in ClassifyPixel(Mapping(product), p) :
      RenderPixel(class, p.radiance) # 0 =>
        /\ p.radiance.finite /\ p.radiance.value >= 0
        /\ p.quality \in (IF product = "VNP46A3" THEN {Sample(0), Sample(20)} ELSE {Sample(0)})
        /\ product # "VNP46A3" =>
             p.cloud \notin {Sample(Tenths(m)) : m \in {128, 192, 255, 65535}}

\* The gate that accepted the granule judged it by what its tiles will show: on finite samples a
\* pixel counts as valid and clear exactly when it gets a colour.
GateCountsWhatTilesShow ==
  phase = "accepted" => \A product \in Products, p \in {q \in Pixels : q.radiance.finite} :
    \A class \in ClassifyPixel(Mapping(product), p) :
      LET summary == Summary(<<class>>) IN
      summary.valid - summary.cloudy = IF RenderPixel(class, p.radiance) # 0 THEN 1 ELSE 0

\* "Plans all tile ranges required to cover the requested bounds": a planned
\* tile overlaps the granule, so none is refused as outside of it.
PlannedTilesHaveWindows == phase # "no window"

=============================================================================
