------------------------ MODULE TileGeneration_proofs ------------------------
(* Theorems about TileGeneration: what a generated tile set contains, what   *)
(* its windows show and how many renders run at a time, for any grid, zooms, *)
(* bounds, raster and parallelism.                                           *)
EXTENDS TileGeneration, RankLemmas, SequenceTheorems

-----------------------------------------------------------------------------
(* Arithmetic *)

LEMMA Quotient ==
  ASSUME NEW m \in Int, NEW n \in Nat \ {0}
  PROVE  m \div n \in Int /\ (m \div n) * n <= m /\ m < (m \div n + 1) * n
OBVIOUS

LEMMA Exact ==
  ASSUME NEW m \in Nat, NEW n \in Nat \ {0}, m % n = 0
  PROVE  (m \div n) * n = m /\ m \div n \in Nat
OBVIOUS

LEMMA Scaling ==
  ASSUME NEW a \in Int, NEW b \in Int, NEW n \in Nat \ {0}
  PROVE  a < b <=> a * n < b * n
OBVIOUS

LEMMA Associative ==
  ASSUME NEW a \in Int, NEW b \in Int, NEW c \in Int
  PROVE  a * (b * c) = (a * b) * c
OBVIOUS

LEMMA QuotientFrom ==
  ASSUME NEW m \in Int, NEW n \in Nat \ {0}, NEW k \in Int
  PROVE  /\ k * n <= m <=> k <= m \div n
         /\ m < k * n <=> m \div n < k
OBVIOUS

-----------------------------------------------------------------------------
(* Tiles and positions along one axis *)

LEMMA Zooms ==
  ASSUME NEW z \in MinZoom..MaxZoom
  PROVE  /\ z \in Nat /\ TilesPerAxis(z) \in Nat \ {0}
         /\ LonUnits % TilesPerAxis(z) = 0 /\ LatUnits % TilesPerAxis(z) = 0
<1>1. z \in 0..MaxZoom /\ z \in Nat
  BY ConfigAssumption
<1> QED BY <1>1, GridAssumption DEF TilesPerAxis

\* A tile's width in positions.
LEMMA TileWidth ==
  ASSUME NEW units \in Nat \ {0}, NEW n \in Nat \ {0}, units % n = 0
  PROVE  units \div n \in Nat \ {0} /\ (units \div n) * n = units
<1>1. (units \div n) * n = units /\ units \div n \in Nat
  BY Exact
<1> QED BY <1>1

\* The tile of a position is the one it lies in; the far edge belongs to the last.
LEMMA TileOfPosition ==
  ASSUME NEW units \in Nat \ {0}, NEW z, TilesPerAxis(z) \in Nat \ {0},
         units % TilesPerAxis(z) = 0, NEW a \in 0..units,
         NEW w, w = units \div TilesPerAxis(z)
  PROVE  /\ TileAt(a, units, z) \in 0..(TilesPerAxis(z) - 1)
         /\ \A x \in 0..(TilesPerAxis(z) - 1) :
              /\ x * w <= a => x <= TileAt(a, units, z)
              /\ a < (x + 1) * w => TileAt(a, units, z) <= x
         /\ a < units => TileAt(a, units, z) * w <= a /\ a < (TileAt(a, units, z) + 1) * w
<1> DEFINE n == TilesPerAxis(z)
           quotient == (a * n) \div units
<1>1. w \in Nat \ {0} /\ w * n = units
  BY TileWidth
<1>2. /\ quotient \in Int
      /\ \A k \in Int : (k * units <= a * n <=> k <= quotient) /\ (a * n < k * units <=> quotient < k)
  <2>1. a * n \in Int
    OBVIOUS
  <2> HIDE DEF n
  <2> QED BY <2>1, Quotient, QuotientFrom
<1>3. \A k \in Int : (k * units <= a * n <=> k * w <= a) /\ (a * n < k * units <=> a < k * w)
  <2> SUFFICES ASSUME NEW k \in Int
               PROVE  (k * units <= a * n <=> k * w <= a) /\ (a * n < k * units <=> a < k * w)
    OBVIOUS
  <2>1. k * units = (k * w) * n /\ k * w \in Int
    <3>1. k * (w * n) = (k * w) * n
      BY <1>1, Associative
    <3> QED BY <1>1, <3>1
  <2>2. a < k * w <=> a * n < (k * w) * n
    BY <2>1, Scaling
  <2> QED BY <2>1, <2>2
<1>4. \A k \in Int : (k * w <= a <=> k <= quotient) /\ (a < k * w <=> quotient < k)
  BY <1>2, <1>3
<1>5. TileAt(a, units, z) = IF quotient < n - 1 THEN quotient ELSE n - 1
  BY DEF TileAt, Least
<1> HIDE DEF quotient
<1>6. 0 <= quotient
  BY <1>1, <1>4
<1>7. ASSUME a < units PROVE quotient <= n - 1
  <2>1. a < n * w
    BY <1>1, <1>7
  <2>2. n \in Int
    OBVIOUS
  <2>3. quotient < n
    BY <1>4, <2>1, <2>2
  <2> QED BY <1>2, <2>2, <2>3
<1>8. n \in Nat \ {0}
  OBVIOUS
<1>9. TileAt(a, units, z) \in 0..(n - 1)
  BY <1>2, <1>5, <1>6, <1>8
<1>10. ASSUME NEW x \in 0..(n - 1)
       PROVE  /\ x * w <= a => x <= TileAt(a, units, z)
              /\ a < (x + 1) * w => TileAt(a, units, z) <= x
  <2>1. x \in Int /\ x + 1 \in Int
    BY <1>8
  <2>2. (x * w <= a => x <= quotient) /\ (a < (x + 1) * w => quotient < x + 1)
    BY <1>4, <2>1
  <2> HIDE DEF n
  <2> QED BY <1>2, <1>5, <1>8, <2>1, <2>2
<1>11. ASSUME a < units
       PROVE  TileAt(a, units, z) * w <= a /\ a < (TileAt(a, units, z) + 1) * w
  <2>1. TileAt(a, units, z) = quotient
    BY <1>2, <1>5, <1>7, <1>8, <1>11
  <2>2. quotient \in Int /\ quotient + 1 \in Int /\ quotient < quotient + 1 /\ quotient <= quotient
    BY <1>2
  <2> QED BY <1>4, <2>1, <2>2
<1> QED BY <1>9, <1>10, <1>11

-----------------------------------------------------------------------------
(* Bounds *)

Box == [west : 0..LonUnits, east : 0..LonUnits, north : 0..LatUnits, south : 0..LatUnits]
Proper(b) == b \in Box /\ b.west < b.east /\ b.north < b.south

\* The overlap of two bounds, if there is one.
LEMMA Clips ==
  ASSUME NEW a \in [west : Int, east : Int, north : Int, south : Int],
         NEW b \in [west : Int, east : Int, north : Int, south : Int]
  PROVE  /\ \A c \in ClipBounds(a, b) :
              /\ c.west \in {a.west, b.west} /\ c.west >= a.west /\ c.west >= b.west
              /\ c.east \in {a.east, b.east} /\ c.east <= a.east /\ c.east <= b.east
              /\ c.north \in {a.north, b.north} /\ c.north >= a.north /\ c.north >= b.north
              /\ c.south \in {a.south, b.south} /\ c.south <= a.south /\ c.south <= b.south
              /\ c.west < c.east /\ c.north < c.south
              /\ c = [west |-> c.west, east |-> c.east, north |-> c.north, south |-> c.south]
         /\ \A c, d \in ClipBounds(a, b) : c = d
         /\ /\ a.west < a.east /\ b.west < b.east /\ a.west < b.east /\ b.west < a.east
            /\ a.north < a.south /\ b.north < b.south /\ a.north < b.south /\ b.north < a.south
            => ClipBounds(a, b) # {}
<1> DEFINE c == [west |-> Greatest(a.west, b.west), east |-> Least(a.east, b.east),
                 north |-> Greatest(a.north, b.north), south |-> Least(a.south, b.south)]
<1>1. ClipBounds(a, b) = IF c.west < c.east /\ c.north < c.south THEN {c} ELSE {}
  BY DEF ClipBounds
<1>2. \A x, y \in Int :
        /\ Greatest(x, y) \in {x, y} /\ Greatest(x, y) >= x /\ Greatest(x, y) >= y
        /\ Least(x, y) \in {x, y} /\ Least(x, y) <= x /\ Least(x, y) <= y
  BY DEF Greatest, Least
<1>3. /\ c.west \in {a.west, b.west} /\ c.west >= a.west /\ c.west >= b.west
      /\ c.east \in {a.east, b.east} /\ c.east <= a.east /\ c.east <= b.east
      /\ c.north \in {a.north, b.north} /\ c.north >= a.north /\ c.north >= b.north
      /\ c.south \in {a.south, b.south} /\ c.south <= a.south /\ c.south <= b.south
      /\ c = [west |-> c.west, east |-> c.east, north |-> c.north, south |-> c.south]
  BY <1>2
<1> HIDE DEF c
<1> QED BY <1>1, <1>3

LEMMA SourceOK ==
  ASSUME granule \in GranuleIds
  PROVE  Proper(Source)
<1>1. PICK h \in 0..35, v \in 0..17 : granule[1] = h /\ granule[2] = v
  <2>1. GranuleIds \subseteq (0..35) \X (0..17)
    BY GridAssumption, Zenon
  <2>2. granule[1] \in 0..35 /\ granule[2] \in 0..17
    BY <2>1
  <2> QED BY <2>2
<1>2. PICK u \in Nat \ {0} : u = LonUnits \div 36 /\ u * 36 = LonUnits
  <2>1. 36 \in Nat \ {0} /\ LonUnits \in Nat \ {0} /\ LonUnits % 36 = 0
    BY GridAssumption
  <2> QED BY <2>1, TileWidth
<1>3. h * u \in 0..LonUnits /\ (h + 1) * u \in 0..LonUnits /\ h * u < (h + 1) * u
  BY <1>2
<1>4. RowEdge[v] \in 0..LatUnits /\ RowEdge[v + 1] \in 0..LatUnits /\ RowEdge[v] < RowEdge[v + 1]
  <2>1. RowEdge \in [0..18 -> 0..LatUnits] /\ \A r \in 0..17 : RowEdge[r] < RowEdge[r + 1]
    BY GridAssumption, Zenon
  <2> QED BY <2>1
<1>5. Source = [west |-> h * u, east |-> (h + 1) * u, north |-> RowEdge[v], south |-> RowEdge[v + 1]]
  BY <1>1, <1>2 DEF Source, ViirsTileBounds
<1> QED BY <1>3, <1>4, <1>5 DEF Proper, Box

\* What is generated lies in the granule.
LEMMA GenerationOK ==
  ASSUME granule \in GranuleIds
  PROVE  /\ \A b \in GenerationBounds :
              /\ Proper(b)
              /\ Source.west <= b.west /\ b.east <= Source.east
              /\ Source.north <= b.north /\ b.south <= Source.south
         /\ \A b, c \in GenerationBounds : b = c
<1>1. Source \in Box /\ TileBounds \in Box /\ LonUnits \in Nat /\ LatUnits \in Nat
  BY SourceOK, ConfigAssumption, GridAssumption DEF Proper, Box
<1>2. \A b \in Box : b \in [west : Int, east : Int, north : Int, south : Int]
  BY <1>1 DEF Box
<1>3. PICK s : s = Source
  OBVIOUS
<1>4. /\ \A c \in ClipBounds(s, TileBounds) :
           /\ c.west \in {s.west, TileBounds.west} /\ c.west >= s.west
           /\ c.east \in {s.east, TileBounds.east} /\ c.east <= s.east
           /\ c.north \in {s.north, TileBounds.north} /\ c.north >= s.north
           /\ c.south \in {s.south, TileBounds.south} /\ c.south <= s.south
           /\ c.west < c.east /\ c.north < c.south
           /\ c = [west |-> c.west, east |-> c.east, north |-> c.north, south |-> c.south]
      /\ \A c, d \in ClipBounds(s, TileBounds) : c = d
  BY <1>1, <1>2, <1>3, Clips
<1>5. GenerationBounds = ClipBounds(s, TileBounds)
  BY <1>3 DEF GenerationBounds
<1>6. ASSUME NEW c \in ClipBounds(s, TileBounds) PROVE c \in Box
  <2>1. /\ c.west \in 0..LonUnits /\ c.east \in 0..LonUnits
        /\ c.north \in 0..LatUnits /\ c.south \in 0..LatUnits
    BY <1>1, <1>3, <1>4 DEF Box
  <2>2. c = [west |-> c.west, east |-> c.east, north |-> c.north, south |-> c.south]
    BY <1>4
  <2> QED BY <2>1, <2>2 DEF Box
<1>7. \A c \in ClipBounds(s, TileBounds) :
         s.west <= c.west /\ c.east <= s.east /\ s.north <= c.north /\ c.south <= s.south
  BY <1>1, <1>3, <1>4, <1>6 DEF Box
<1> QED BY <1>3, <1>4, <1>5, <1>6, <1>7 DEF Proper

-----------------------------------------------------------------------------
(* The plan *)

TileCoords == [z : MinZoom..MaxZoom, x : Nat, y : Nat]

\* The tiles planned for bounds are those of the ranges, finitely many.
LEMMA Planned ==
  ASSUME NEW b, Proper(b)
  PROVE  /\ PlannedTiles(b) \subseteq TileCoords /\ IsFiniteSet(PlannedTiles(b))
         /\ \A z \in MinZoom..MaxZoom, x, y \in Nat :
              /\ x \in TileAt(b.west, LonUnits, z)..TileAt(b.east, LonUnits, z)
              /\ y \in TileAt(b.north, LatUnits, z)..TileAt(b.south, LatUnits, z)
              => [z |-> z, x |-> x, y |-> y] \in PlannedTiles(b)
         /\ \A c \in PlannedTiles(b) :
              c.x < TilesPerAxis(c.z) /\ c.y < TilesPerAxis(c.z)
<1> DEFINE Xs(z) == TileAt(b.west, LonUnits, z)..TileAt(b.east, LonUnits, z)
           Ys(z) == TileAt(b.north, LatUnits, z)..TileAt(b.south, LatUnits, z)
           Tiles(z) == [z : {z}, x : Xs(z), y : Ys(z)]
<1>1. PlannedTiles(b) = UNION {Tiles(z) : z \in MinZoom..MaxZoom}
  BY DEF PlannedTiles, RangeCoords, TileRange
<1>2. ASSUME NEW z \in MinZoom..MaxZoom
      PROVE  /\ TileAt(b.west, LonUnits, z) \in 0..(TilesPerAxis(z) - 1)
             /\ TileAt(b.east, LonUnits, z) \in 0..(TilesPerAxis(z) - 1)
             /\ TileAt(b.north, LatUnits, z) \in 0..(TilesPerAxis(z) - 1)
             /\ TileAt(b.south, LatUnits, z) \in 0..(TilesPerAxis(z) - 1)
             /\ TilesPerAxis(z) \in Nat \ {0}
  <2>1. LonUnits \in Nat \ {0} /\ LatUnits \in Nat \ {0}
    BY GridAssumption, Zenon
  <2>2. b.west \in 0..LonUnits /\ b.east \in 0..LonUnits /\ b.north \in 0..LatUnits
        /\ b.south \in 0..LatUnits
    BY DEF Proper, Box
  <2>3. \A a \in 0..LonUnits : TileAt(a, LonUnits, z) \in 0..(TilesPerAxis(z) - 1)
    BY <2>1, Zooms, TileOfPosition
  <2>4. \A a \in 0..LatUnits : TileAt(a, LatUnits, z) \in 0..(TilesPerAxis(z) - 1)
    BY <2>1, Zooms, TileOfPosition
  <2> QED BY <2>2, <2>3, <2>4, Zooms
<1>3. ASSUME NEW z \in MinZoom..MaxZoom
      PROVE  /\ Xs(z) \subseteq Nat /\ Ys(z) \subseteq Nat
             /\ \A x \in Xs(z) : x < TilesPerAxis(z)
             /\ \A y \in Ys(z) : y < TilesPerAxis(z)
             /\ IsFiniteSet(Tiles(z))
  <2>1. /\ Xs(z) \subseteq Nat /\ Ys(z) \subseteq Nat
        /\ \A x \in Xs(z) : x < TilesPerAxis(z)
        /\ \A y \in Ys(z) : y < TilesPerAxis(z)
    BY <1>2
  <2>2. IsFiniteSet(Xs(z)) /\ IsFiniteSet(Ys(z))
    BY <1>2, FS_Interval
  <2>3. PICK X, Y : X = Xs(z) /\ Y = Ys(z)
    OBVIOUS
  <2>4. IsFiniteSet(X \X Y)
    BY <2>2, <2>3, FS_Product
  <2>5. [c \in [z : {z}, x : X, y : Y] |-> <<c.x, c.y>>] \in Injection([z : {z}, x : X, y : Y], X \X Y)
    BY DEF Injection, IsInjective
  <2>6. IsFiniteSet([z : {z}, x : X, y : Y])
    BY <2>4, <2>5, FS_Injection
  <2> QED BY <2>1, <2>3, <2>6
<1> HIDE DEF Xs, Ys
<1>4. IsFiniteSet(UNION {Tiles(z) : z \in MinZoom..MaxZoom})
  <2> DEFINE All == {Tiles(z) : z \in MinZoom..MaxZoom}
             f == [z \in MinZoom..MaxZoom |-> Tiles(z)]
  <2>1. IsFiniteSet(MinZoom..MaxZoom)
    BY ConfigAssumption, FS_Interval
  <2>2. f \in Surjection(MinZoom..MaxZoom, All)
    BY DEF Surjection
  <2>3. \A T \in All : IsFiniteSet(T)
    BY <1>3
  <2> HIDE DEF All, f
  <2>4. IsFiniteSet(All)
    BY <2>1, <2>2, FS_Surjection
  <2>5. IsFiniteSet(UNION All)
    BY <2>3, <2>4, FS_UNION
  <2> QED BY <2>5 DEF All
<1>5. ASSUME NEW c \in PlannedTiles(b)
      PROVE  c \in TileCoords /\ c.x < TilesPerAxis(c.z) /\ c.y < TilesPerAxis(c.z)
  <2>1. PICK z \in MinZoom..MaxZoom : c \in Tiles(z)
    BY <1>1
  <2>2. c.z = z /\ c.x \in Xs(z) /\ c.y \in Ys(z) /\ c = [z |-> c.z, x |-> c.x, y |-> c.y]
    BY <2>1
  <2> QED BY <1>3, <2>2 DEF TileCoords
<1>6. ASSUME NEW z \in MinZoom..MaxZoom, NEW x \in Xs(z), NEW y \in Ys(z)
      PROVE  [z |-> z, x |-> x, y |-> y] \in PlannedTiles(b)
  BY <1>1
<1> QED BY <1>1, <1>4, <1>5, <1>6 DEF Xs, Ys

\* The jobs list every planned tile, each once.
LEMMA Jobs ==
  ASSUME NEW b, Proper(b), NEW coords, coords = PlannedCoords(b)
  PROVE  /\ coords \in Seq(TileCoords) /\ DOMAIN coords = 1..Len(coords) /\ Len(coords) \in Nat
         /\ \A i \in 1..Len(coords) : coords[i] \in PlannedTiles(b)
         /\ \A c \in PlannedTiles(b) : \E i \in 1..Len(coords) : coords[i] = c
<1> DEFINE S == PlannedTiles(b)
           R == {q \in S \X S : PlannedBefore(q[1], q[2])}
           n == Cardinality(S)
<1>1. S \subseteq TileCoords /\ IsFiniteSet(S)
  BY Planned
<1>2. \A c \in S : c.z \in Int /\ c.x \in Int /\ c.y \in Int /\ c \in TileCoords
  BY <1>1, ConfigAssumption DEF TileCoords
<1>3. OrdersStrictly(R, S)
  <2>1. \A c \in S : ~PlannedBefore(c, c)
    BY <1>2 DEF PlannedBefore
  <2>2. \A c, d, e \in S : PlannedBefore(c, d) /\ PlannedBefore(d, e) => PlannedBefore(c, e)
    BY <1>2 DEF PlannedBefore
  <2>3. ASSUME NEW c \in S, NEW d \in S, c # d
        PROVE  PlannedBefore(c, d) \/ PlannedBefore(d, c)
    <3>1. c.z # d.z \/ c.x # d.x \/ c.y # d.y
      BY <1>2, <2>3 DEF TileCoords
    <3> QED BY <1>2, <3>1 DEF PlannedBefore
  <2>4. \A c, d \in S : <<c, d>> \in R <=> PlannedBefore(c, d)
    OBVIOUS
  <2> HIDE DEF R, S
  <2> QED BY <2>1, <2>2, <2>3, <2>4 DEF OrdersStrictly
<1>4. ASSUME NEW c \in S
      PROVE  Rank(c, S, R) = Cardinality({d \in S : PlannedBefore(d, c)})
  <2>1. Before(c, S, R) = {d \in S : PlannedBefore(d, c)}
    BY DEF Before
  <2> QED BY <2>1 DEF Rank
<1>5. coords = [i \in 1..n |-> Ranked(i, S, R)]
  <2>1. coords = [i \in 1..n |->
                    CHOOSE c \in S : Cardinality({d \in S : PlannedBefore(d, c)}) = i - 1]
    BY DEF PlannedCoords
  <2>2. ASSUME NEW i
        PROVE  Ranked(i, S, R) = CHOOSE c \in S : Cardinality({d \in S : PlannedBefore(d, c)}) = i - 1
    <3> HIDE DEF S, R
    <3> QED BY <1>4 DEF Ranked
  <2> HIDE DEF S, R
  <2> QED BY <2>1, <2>2
<1> HIDE DEF S, R
<1>6. /\ n \in Nat /\ \A k \in 1..n : Ranked(k, S, R) \in S
      /\ \A x \in S : \E k \in 1..n : Ranked(k, S, R) = x
  BY <1>1, <1>3, RanksList
<1>7. coords \in Seq(TileCoords) /\ DOMAIN coords = 1..n /\ Len(coords) = n
  BY <1>1, <1>5, <1>6
<1> QED BY <1>5, <1>6, <1>7 DEF S

-----------------------------------------------------------------------------
(* The windows *)

\* The window of one axis lies in the raster and has every pixel that shows
\* some of the extent: the start is rounded down, the end up.
LEMMA Spans ==
  ASSUME NEW whole \in Nat \ {0}, NEW start \in 0..whole, NEW end \in 0..whole, start < end,
         NEW span, span = Span(start, end, whole)
  PROVE  /\ span.offset \in Nat /\ span.size \in Nat \ {0} /\ span.offset + span.size <= RasterSize
         /\ \A p \in Showing(start, end, whole) : Within(p, span)
         /\ span = [offset |-> span.offset, size |-> span.size]
<1>1. RasterSize \in Nat \ {0}
  BY GridAssumption, Zenon
<1> DEFINE a == start * RasterSize
           b == end * RasterSize
           full == RasterSize * whole
           offset == a \div whole
           ceiling == (b + whole - 1) \div whole
           last == Least(ceiling, RasterSize)
<1>2. a \in Int /\ b \in Int /\ a < b /\ 0 <= a /\ b <= full /\ full \in Int
  BY <1>1
<1> HIDE DEF a, b, full
<1>3. /\ offset \in Int
      /\ \A k \in Int : (k * whole <= a <=> k <= offset) /\ (a < k * whole <=> offset < k)
  BY <1>2, Quotient, QuotientFrom
<1>4. /\ ceiling \in Int
      /\ \A k \in Int : (k * whole <= b + whole - 1 <=> k <= ceiling)
                        /\ (b + whole - 1 < k * whole <=> ceiling < k)
  <2>1. b + whole - 1 \in Int
    BY <1>2
  <2> QED BY <2>1, Quotient, QuotientFrom
<1>5. \A k \in Int : k * whole \in Int /\ (k + 1) * whole = k * whole + whole /\ k + 1 \in Int
  OBVIOUS
<1>6. span = [offset |-> offset, size |-> Greatest(last - offset, 1)]
  BY DEF Span, FloorToRaster, CeilToRaster, a, b
<1> HIDE DEF offset, ceiling
<1>7. 0 <= offset /\ offset < RasterSize
  <2>1. 0 * whole <= a
    BY <1>2
  <2>2. a < RasterSize * whole
    BY <1>2 DEF full
  <2> QED BY <1>1, <1>3, <2>1, <2>2
<1>8. offset < ceiling
  <2>1. offset * whole <= a
    BY <1>3
  <2>2. (offset + 1) * whole <= b + whole - 1
    BY <1>2, <1>3, <1>5, <2>1
  <2>3. offset \in Int /\ offset + 1 \in Int
    BY <1>3
  <2>4. offset + 1 <= ceiling
    BY <1>4, <2>2, <2>3
  <2> QED BY <1>4, <2>3, <2>4
<1>9. /\ last \in Int /\ offset < last /\ last <= RasterSize /\ last \in {ceiling, RasterSize}
      /\ span = [offset |-> offset, size |-> last - offset]
  BY <1>1, <1>3, <1>4, <1>6, <1>7, <1>8 DEF Least, Greatest
<1> HIDE DEF last
<1>10. ASSUME NEW p \in Showing(start, end, whole) PROVE offset <= p /\ p < last
  <2>1. p \in 0..(RasterSize - 1) /\ p * whole < b /\ a < (p + 1) * whole
    BY DEF Showing, a, b
  <2>2. p \in Int /\ p + 1 \in Int /\ p < RasterSize
    BY <1>1, <2>1
  <2>3. offset < p + 1
    BY <1>3, <2>1, <2>2
  <2>4. p + 1 <= ceiling
    BY <1>2, <1>4, <1>5, <2>1, <2>2
  <2> QED BY <1>3, <1>4, <1>9, <2>2, <2>3, <2>4
<1>11. \A p \in Showing(start, end, whole) : Within(p, span)
  BY <1>3, <1>9, <1>10 DEF Within, Showing
<1> QED BY <1>1, <1>3, <1>7, <1>9, <1>11

\* An extent is cut at every position: whatever pixel shows some of it shows
\* some of a cell between two positions.
LEMMA Cells ==
  ASSUME NEW a \in Nat, NEW b \in Nat, a < b, NEW f, \A u \in a..b : f[u] \in Int,
         NEW whole \in Nat \ {0}, NEW p \in Int,
         p * whole < f[b] * RasterSize, f[a] * RasterSize < (p + 1) * whole
  PROVE  \E u \in a..(b - 1) :
           p * whole < f[u + 1] * RasterSize /\ f[u] * RasterSize < (p + 1) * whole
<1>1. RasterSize \in Nat \ {0}
  BY GridAssumption, Zenon
<1> DEFINE left == p * whole
           right == (p + 1) * whole
           g == [u \in a..b |-> f[u] * RasterSize]
           S == {u \in a..(b - 1) : g[u] < right}
<1>2. left \in Int /\ right \in Int /\ left < right
  OBVIOUS
<1>3. \A u \in a..b : g[u] \in Int /\ g[u] = f[u] * RasterSize
  BY <1>1
<1>4. left < g[b] /\ g[a] < right
  BY <1>3
<1> HIDE DEF left, right, g
<1>5. IsFiniteSet(S) /\ S # {} /\ S \in SUBSET Nat
  <2>1. a \in S /\ S \in SUBSET (a..(b - 1)) /\ S \in SUBSET Nat
    BY <1>4
  <2>2. IsFiniteSet(a..(b - 1))
    BY FS_Interval
  <2> HIDE DEF S
  <2> QED BY <2>1, <2>2, FS_Subset
<1>6. PICK u \in S : \A v \in S : v <= u
  <2> HIDE DEF S
  <2> QED BY <1>5, HasGreatest
<1>7. u \in a..(b - 1) /\ u + 1 \in a..b /\ u \in a..b /\ g[u] < right
  OBVIOUS
<1>8. left < g[u + 1]
  <2>1. CASE u + 1 = b
    BY <1>4, <2>1
  <2>2. CASE u + 1 # b
    <3>1. u + 1 \in a..(b - 1) /\ u + 1 \notin S
      BY <1>6, <1>7, <2>2
    <3>2. ~(g[u + 1] < right)
      BY <3>1
    <3> QED BY <1>2, <1>3, <1>7, <3>2
  <2> QED BY <2>1, <2>2
<1> QED BY <1>3, <1>7, <1>8 DEF left, right

\* What shows a part of the extent is in the window of the extent.
LEMMA PartsShown ==
  ASSUME NEW whole \in Nat \ {0}, NEW start \in 0..whole, NEW end \in 0..whole, start < end,
         NEW from \in Int, NEW to \in Int, start <= from, to <= end,
         NEW p \in 0..(RasterSize - 1),
         p * whole < to * RasterSize, from * RasterSize < (p + 1) * whole
  PROVE  Within(p, Span(start, end, whole))
<1>1. RasterSize \in Nat \ {0}
  BY GridAssumption, Zenon
<1>2. start * RasterSize <= from * RasterSize /\ to * RasterSize <= end * RasterSize
  BY <1>1
<1>3. /\ p * whole \in Int /\ (p + 1) * whole \in Int /\ start * RasterSize \in Int
      /\ from * RasterSize \in Int /\ to * RasterSize \in Int /\ end * RasterSize \in Int
  BY <1>1
<1>4. p * whole < end * RasterSize /\ (p + 1) * whole > start * RasterSize
  BY <1>2, <1>3
<1>5. p \in Showing(start, end, whole)
  BY <1>4 DEF Showing
<1> QED BY <1>5, Spans

Fits(span) == span \in [offset : Nat, size : Nat \ {0}] /\ span.offset + span.size <= RasterSize

\* A pixel that shows some of the cell between two positions.
Shows(p, from, to, whole) == p * whole < to * RasterSize /\ from * RasterSize < (p + 1) * whole

\* The window of a tile fits the raster, and a pixel that shows some of a cell of the
\* granule is in the window of the tile the cell belongs to.
LEMMA Windows ==
  ASSUME granule \in GranuleIds, NEW c \in TileCoords,
         NEW window \in RasterWindow(c, Source),
         NEW width \in Nat, width = LonUnits \div TilesPerAxis(c.z),
         NEW height \in Nat, height = LatUnits \div TilesPerAxis(c.z),
         NEW s, s = Source
  PROVE  /\ window = [columns |-> window.columns, rows |-> window.rows]
         /\ Fits(window.columns) /\ Fits(window.rows)
         /\ \A p \in 0..(RasterSize - 1), u \in s.west..(s.east - 1) :
              /\ c.x * width <= u /\ u < (c.x + 1) * width
              /\ Shows(p, u - s.west, (u + 1) - s.west, s.east - s.west)
              => Within(p, window.columns)
         /\ \A p \in 0..(RasterSize - 1), u \in s.north..(s.south - 1) :
              /\ c.y * height <= u /\ u < (c.y + 1) * height
              /\ Shows(p, Latitude[u] - Latitude[s.north], Latitude[u + 1] - Latitude[s.north],
                       Latitude[s.south] - Latitude[s.north])
              => Within(p, window.rows)
<1>1. /\ s.west \in 0..LonUnits /\ s.east \in 0..LonUnits
      /\ s.north \in 0..LatUnits /\ s.south \in 0..LatUnits
      /\ s.west < s.east /\ s.north < s.south /\ s \in Box
  BY SourceOK DEF Proper, Box
<1>2. /\ LonUnits \in Nat /\ LatUnits \in Nat /\ RasterSize \in Nat \ {0}
      /\ \A p \in 0..LatUnits : Latitude[p] \in Int
      /\ \A p, q \in 0..LatUnits : p < q => Latitude[p] < Latitude[q]
  <2>1. /\ LonUnits \in Nat \ {0} /\ LatUnits \in Nat \ {0} /\ RasterSize \in Nat \ {0}
        /\ Latitude \in [0..LatUnits -> Int]
        /\ \A p, q \in 0..LatUnits : p < q => Latitude[p] < Latitude[q]
    BY GridAssumption, Zenon
  <2> QED BY <2>1
<1> DEFINE West == c.x * width
           East == (c.x + 1) * width
           North == c.y * height
           South == (c.y + 1) * height
           tile == [west |-> West, east |-> East, north |-> North, south |-> South]
<1>3. West \in Int /\ East \in Int /\ North \in Int /\ South \in Int
  BY DEF TileCoords
<1>4. tile = TileBoundsOf(c)
  BY DEF TileBoundsOf
<1> HIDE DEF West, East, North, South
<1>5. PICK t \in ClipBounds(tile, s) :
        window = [columns |-> Span(t.west - s.west, t.east - s.west, s.east - s.west),
                  rows |-> Span(Latitude[t.north] - Latitude[s.north],
                                Latitude[t.south] - Latitude[s.north],
                                Latitude[s.south] - Latitude[s.north])]
  BY <1>4 DEF RasterWindow
<1>6. /\ t.west \in {West, s.west} /\ t.west >= West /\ t.west >= s.west
      /\ t.east \in {East, s.east} /\ t.east <= East /\ t.east <= s.east
      /\ t.north \in {North, s.north} /\ t.north >= North /\ t.north >= s.north
      /\ t.south \in {South, s.south} /\ t.south <= South /\ t.south <= s.south
      /\ t.west < t.east /\ t.north < t.south
  <2>1. tile \in [west : Int, east : Int, north : Int, south : Int]
        /\ s \in [west : Int, east : Int, north : Int, south : Int]
    BY <1>1, <1>2, <1>3 DEF Box
  <2>2. PICK a : a = tile
    OBVIOUS
  <2>3. /\ t.west \in {a.west, s.west} /\ t.west >= a.west /\ t.west >= s.west
        /\ t.east \in {a.east, s.east} /\ t.east <= a.east /\ t.east <= s.east
        /\ t.north \in {a.north, s.north} /\ t.north >= a.north /\ t.north >= s.north
        /\ t.south \in {a.south, s.south} /\ t.south <= a.south /\ t.south <= s.south
        /\ t.west < t.east /\ t.north < t.south
    BY <1>5, <2>1, <2>2, Clips
  <2> QED BY <2>2, <2>3
<1> DEFINE start == t.west - s.west
           end == t.east - s.west
           whole == s.east - s.west
           lat(u) == Latitude[u] - Latitude[s.north]
<1>7. whole \in Nat \ {0} /\ start \in 0..whole /\ end \in 0..whole /\ start < end
  BY <1>1, <1>2, <1>3, <1>6
<1>8. /\ t.north \in 0..LatUnits /\ t.south \in 0..LatUnits
      /\ \A u \in 0..LatUnits : lat(u) \in Int
      /\ \A u, v \in 0..LatUnits : (u < v => lat(u) < lat(v)) /\ (u <= v => lat(u) <= lat(v))
  BY <1>1, <1>2, <1>3, <1>6
<1>9. /\ lat(s.south) \in Nat \ {0} /\ lat(t.north) \in 0..lat(s.south)
      /\ lat(t.south) \in 0..lat(s.south) /\ lat(t.north) < lat(t.south)
  <2>1. lat(s.north) = 0
    BY <1>1, <1>2
  <2>2. s.north <= t.north /\ t.north <= s.south /\ t.south <= s.south /\ s.north <= t.south
    BY <1>1, <1>2, <1>6, <1>8
  <2>3. lat(s.north) < lat(s.south)
    BY <1>1, <1>8
  <2>4. /\ lat(s.north) <= lat(t.north) /\ lat(t.north) <= lat(s.south)
        /\ lat(t.south) <= lat(s.south) /\ lat(s.north) <= lat(t.south)
    BY <1>1, <1>8, <2>2
  <2>5. lat(t.north) < lat(t.south)
    BY <1>6, <1>8
  <2>6. lat(t.north) \in Int /\ lat(t.south) \in Int /\ lat(s.south) \in Int
    BY <1>1, <1>8
  <2> HIDE DEF lat
  <2> QED BY <2>1, <2>3, <2>4, <2>5, <2>6
<1>10. window = [columns |-> Span(start, end, whole),
                 rows |-> Span(lat(t.north), lat(t.south), lat(s.south))]
  BY <1>5
<1>11. ASSUME NEW p \in 0..(RasterSize - 1), NEW u \in s.west..(s.east - 1),
              West <= u, u < East, Shows(p, u - s.west, (u + 1) - s.west, whole)
       PROVE  Within(p, Span(start, end, whole))
  <2>1. start <= u - s.west /\ (u + 1) - s.west <= end
        /\ u - s.west \in Int /\ (u + 1) - s.west \in Int
    BY <1>1, <1>2, <1>3, <1>6, <1>11
  <2> HIDE DEF start, end, whole
  <2> QED BY <1>7, <1>11, <2>1, PartsShown DEF Shows
<1>12. ASSUME NEW p \in 0..(RasterSize - 1), NEW u \in s.north..(s.south - 1),
              North <= u, u < South, Shows(p, lat(u), lat(u + 1), lat(s.south))
       PROVE  Within(p, Span(lat(t.north), lat(t.south), lat(s.south)))
  <2>1. u \in 0..LatUnits /\ u + 1 \in 0..LatUnits /\ t.north <= u /\ u + 1 <= t.south
    BY <1>1, <1>2, <1>3, <1>6, <1>12
  <2>2. /\ lat(t.north) <= lat(u) /\ lat(u + 1) <= lat(t.south)
        /\ lat(u) \in Int /\ lat(u + 1) \in Int
    BY <1>8, <2>1
  <2> HIDE DEF lat
  <2> QED BY <1>9, <1>12, <2>2, PartsShown DEF Shows
<1>13. ASSUME NEW w \in Nat \ {0}, NEW x \in 0..w, NEW y \in 0..w, x < y
       PROVE  Fits(Span(x, y, w))
  <2>1. PICK span : span = Span(x, y, w)
    OBVIOUS
  <2>2. /\ span.offset \in Nat /\ span.size \in Nat \ {0} /\ span.offset + span.size <= RasterSize
        /\ span = [offset |-> span.offset, size |-> span.size]
    BY <1>13, <2>1, Spans
  <2>3. span \in [offset : Nat, size : Nat \ {0}]
    BY <2>2
  <2> QED BY <2>1, <2>2, <2>3 DEF Fits
<1> HIDE DEF start, end, whole, lat
<1>14. Fits(Span(start, end, whole)) /\ Fits(Span(lat(t.north), lat(t.south), lat(s.south)))
  BY <1>7, <1>9, <1>13
<1>15. /\ window.columns = Span(start, end, whole)
       /\ window.rows = Span(lat(t.north), lat(t.south), lat(s.south))
       /\ window = [columns |-> window.columns, rows |-> window.rows]
  BY <1>10
<1>16. \A p \in 0..(RasterSize - 1), u \in s.west..(s.east - 1) :
         /\ c.x * width <= u /\ u < (c.x + 1) * width
         /\ Shows(p, u - s.west, (u + 1) - s.west, s.east - s.west)
         => Within(p, window.columns)
  BY <1>11, <1>15, Zenon DEF West, East, whole
<1>17. \A p \in 0..(RasterSize - 1), u \in s.north..(s.south - 1) :
         /\ c.y * height <= u /\ u < (c.y + 1) * height
         /\ Shows(p, Latitude[u] - Latitude[s.north], Latitude[u + 1] - Latitude[s.north],
                  Latitude[s.south] - Latitude[s.north])
         => Within(p, window.rows)
  BY <1>12, <1>15, Zenon DEF North, South, lat
<1> QED BY <1>14, <1>15, <1>16, <1>17

-----------------------------------------------------------------------------
(* The order of the tiles *)

LEMMA FirstNumbers ==
  ASSUME NEW n \in Nat
  PROVE  IsFiniteSet(1..n) /\ Cardinality(1..n) = n
BY FS_Interval

\* Sorting a list that has every number up to n once restores their order.
LEMMA InOrder ==
  ASSUME NEW n \in Nat, NEW done \in Seq(1..n),
         \A p, q \in DOMAIN done : done[p] = done[q] => p = q,
         \A j \in 1..n : \E p \in DOMAIN done : done[p] = j
  PROVE  Len(done) = n /\ InPlanOrder(done) = [k \in 1..n |-> k]
<1> DEFINE P == DOMAIN done
           Upto(p) == {q \in P : done[q] < done[p] \/ (done[q] = done[p] /\ q <= p)}
<1>1. /\ P = 1..Len(done) /\ Len(done) \in Nat /\ \A p \in P : done[p] \in 1..n /\ p \in Nat
      /\ IsFiniteSet(P) /\ Cardinality(P) = Len(done) /\ done \in [P -> 1..n]
  <2>1. /\ P = 1..Len(done) /\ Len(done) \in Nat /\ \A p \in P : done[p] \in 1..n /\ p \in Nat
        /\ done \in [P -> 1..n]
    BY LenProperties
  <2>2. IsFiniteSet(1..Len(done)) /\ Cardinality(1..Len(done)) = Len(done)
    BY <2>1, FirstNumbers
  <2> HIDE DEF P
  <2> QED BY <2>1, <2>2
<1>2. Len(done) = n
  <2>1. done \in Injection(P, 1..n) /\ done \in Surjection(P, 1..n)
    BY <1>1 DEF Injection, IsInjective, Surjection
  <2>2. IsFiniteSet(1..n) /\ Cardinality(1..n) = n
    BY FirstNumbers
  <2> HIDE DEF P
  <2> QED BY <1>1, <2>1, <2>2, FS_Injection
<1>3. ASSUME NEW p \in P PROVE Cardinality(Upto(p)) = done[p]
  <2> DEFINE Q == Upto(p)
             f == [q \in Q |-> done[q]]
  <2>1. Q \in SUBSET P /\ \A q \in P : q \in Q <=> done[q] <= done[p]
    BY <1>1
  <2>2. f \in [Q -> 1..done[p]] /\ \A a, b \in Q : f[a] = f[b] => a = b
    BY <1>1, <2>1
  <2>3. \A j \in 1..done[p] : \E q \in Q : f[q] = j
    <3> SUFFICES ASSUME NEW j \in 1..done[p] PROVE \E q \in Q : f[q] = j
      OBVIOUS
    <3>1. j \in 1..n
      BY <1>1
    <3>2. PICK q \in P : done[q] = j
      BY <3>1
    <3> QED BY <1>1, <2>1, <3>2
  <2> HIDE DEF P, Q, f
  <2>4. f \in Injection(Q, 1..done[p]) /\ f \in Surjection(Q, 1..done[p])
    BY <2>2, <2>3 DEF Injection, IsInjective, Surjection
  <2>5. done[p] \in Nat
    BY <1>1
  <2>6. IsFiniteSet(1..done[p]) /\ Cardinality(1..done[p]) = done[p]
    BY <2>5, FirstNumbers
  <2>7. Cardinality(Q) = done[p]
    BY <2>4, <2>6, FS_Injection
  <2> QED BY <2>7 DEF Q
<1>4. InPlanOrder(done) = [k \in P |-> done[CHOOSE p \in P : Cardinality(Upto(p)) = k]]
  BY DEF InPlanOrder
<1> HIDE DEF Upto
<1>5. ASSUME NEW k \in 1..n PROVE done[CHOOSE p \in P : Cardinality(Upto(p)) = k] = k
  <2>1. PICK p \in P : Cardinality(Upto(p)) = k
    BY <1>3
  <2> DEFINE chosen == CHOOSE q \in P : Cardinality(Upto(q)) = k
  <2>2. chosen \in P /\ Cardinality(Upto(chosen)) = k
    BY <2>1
  <2> HIDE DEF chosen
  <2>3. done[chosen] = k
    BY <1>3, <2>2
  <2> QED BY <2>3 DEF chosen
<1> QED BY <1>1, <1>2, <1>4, <1>5

-----------------------------------------------------------------------------
(* The inductive invariant *)

\* What there is to render is the plan for the granule's bounds, from its making to the end.
JobsOK ==
  IF phase \in {"rendering", "generated", "failed"}
  THEN \E bounds \in GenerationBounds :
         /\ AllHaveWindows(Source, PlannedCoords(bounds))
         /\ jobs = RenderJobs(Source, PlannedCoords(bounds))
  ELSE jobs = <<>> /\ next = 1 /\ tiles = <<>>

\* Of the jobs spawned, those not yet joined are in the pool.
PoolOK ==
  /\ next \in 1..(Len(jobs) + 1)
  /\ pool \subseteq 1..(next - 1) /\ Cardinality(pool) <= MaxParallelism
  /\ running \subseteq pool /\ DOMAIN finished \subseteq pool /\ running \cap DOMAIN finished = {}
  /\ \A j \in DOMAIN finished :
       finished[j] \in {"rendered", "error"} /\ (finished[j] = "error" => failures < MaxFailures)
  /\ phase # "rendering" => pool = {}

\* The others have a tile each, unless the tile set was given up.
TilesOK ==
  /\ tiles \in Seq(Nat)
  /\ \A p \in DOMAIN tiles : tiles[p] \in 1..(next - 1) /\ tiles[p] \notin pool
  /\ \A p, q \in DOMAIN tiles : tiles[p] = tiles[q] => p = q
  /\ phase \in {"rendering", "generated"} =>
       \A j \in 1..(next - 1) : j \in pool \/ \E p \in DOMAIN tiles : tiles[p] = j

\* A tile set that fails leaves its running threads behind, and the one that failed is done.
OrphansOK ==
  /\ orphans \in Nat /\ failures \in 0..MaxFailures
  /\ orphans <= failures * (MaxParallelism - 1)

TileSetOK ==
  /\ DOMAIN tileSet.coords = 1..tileSet.tile_count
  /\ phase = "generated" =>
       \A bounds \in GenerationBounds :
         tileSet = [coords |-> PlannedCoords(bounds), tile_count |-> Len(PlannedCoords(bounds)),
                    bounds |-> bounds]

IInv ==
  /\ phase \in {"idle", "accepted", "rendering"} \cup Ended
  /\ granule \in GranuleIds
  /\ JobsOK /\ PoolOK /\ TilesOK /\ OrphansOK /\ TileSetOK

Job == [coord : [z : MinZoom..MaxZoom, x : Nat, y : Nat],
        window : [columns : [offset : Nat, size : Nat], rows : [offset : Nat, size : Nat]]]

\* The jobs of a plan whose tiles all have windows.
LEMMA PlannedJobs ==
  ASSUME granule \in GranuleIds, NEW b \in GenerationBounds, NEW coords, coords = PlannedCoords(b),
         AllHaveWindows(Source, coords), NEW listed, listed = RenderJobs(Source, coords)
  PROVE  /\ Len(coords) \in Nat /\ DOMAIN coords = 1..Len(coords)
         /\ listed \in Seq(Job) /\ Len(listed) = Len(coords) /\ DOMAIN listed = 1..Len(coords)
         /\ \A i \in 1..Len(coords) :
              /\ coords[i] \in TileCoords /\ listed[i].coord = coords[i]
              /\ listed[i].window \in RasterWindow(coords[i], Source)
              /\ Fits(listed[i].window.columns) /\ Fits(listed[i].window.rows)
<1>1. /\ coords \in Seq(TileCoords) /\ DOMAIN coords = 1..Len(coords) /\ Len(coords) \in Nat
      /\ \A i \in 1..Len(coords) : coords[i] \in TileCoords
  <2>1. Proper(b)
    BY GenerationOK
  <2>2. coords \in Seq(TileCoords) /\ DOMAIN coords = 1..Len(coords) /\ Len(coords) \in Nat
    BY <2>1, Jobs
  <2> QED BY <2>2, LenProperties
<1> DEFINE w(i) == CHOOSE v \in RasterWindow(coords[i], Source) : TRUE
<1>2. listed = [i \in 1..Len(coords) |-> [coord |-> coords[i], window |-> w(i)]]
  BY <1>1, Zenon DEF RenderJobs
<1>3. ASSUME NEW i \in 1..Len(coords) PROVE w(i) \in RasterWindow(coords[i], Source)
  BY <1>1 DEF AllHaveWindows
<1> HIDE DEF w
<1>4. ASSUME NEW i \in 1..Len(coords)
      PROVE  /\ Fits(w(i).columns) /\ Fits(w(i).rows)
             /\ w(i) = [columns |-> w(i).columns, rows |-> w(i).rows]
  <2>1. PICK c \in TileCoords : c = coords[i]
    BY <1>1
  <2>2. PICK width \in Nat, height \in Nat :
          width = LonUnits \div TilesPerAxis(c.z) /\ height = LatUnits \div TilesPerAxis(c.z)
    <3>1. c.z \in MinZoom..MaxZoom
      BY DEF TileCoords
    <3>2. LonUnits \in Nat \ {0} /\ LatUnits \in Nat \ {0}
      BY GridAssumption, Zenon
    <3> QED BY <3>1, <3>2, Zooms, TileWidth
  <2>3. PICK window \in RasterWindow(c, Source) : window = w(i)
    BY <1>3, <2>1
  <2>4. /\ Fits(window.columns) /\ Fits(window.rows)
        /\ window = [columns |-> window.columns, rows |-> window.rows]
    BY <2>2, Windows
  <2> QED BY <2>3, <2>4
<1>5. ASSUME NEW i \in 1..Len(coords)
      PROVE  [coord |-> coords[i], window |-> w(i)] \in Job
  <2>1. \A span : Fits(span) => span \in [offset : Nat, size : Nat]
    BY DEF Fits
  <2>2. w(i) \in [columns : [offset : Nat, size : Nat], rows : [offset : Nat, size : Nat]]
    BY <1>4, <2>1
  <2> QED BY <1>1, <2>2 DEF Job, TileCoords
<1>6. listed \in Seq(Job) /\ Len(listed) = Len(coords) /\ DOMAIN listed = 1..Len(coords)
  <2> HIDE DEF Job
  <2>1. listed \in [1..Len(coords) -> Job]
    BY <1>2, <1>5
  <2> QED BY <1>1, <2>1, LenProperties
<1>7. \A i \in 1..Len(coords) : listed[i].coord = coords[i] /\ listed[i].window = w(i)
  BY <1>2
<1> QED BY <1>1, <1>3, <1>4, <1>6, <1>7

\* There are finitely many jobs.
LEMMA JobsTyped ==
  ASSUME granule \in GranuleIds, JobsOK
  PROVE  jobs \in Seq(Job) /\ Len(jobs) \in Nat
<1>1. CASE phase \in {"rendering", "generated", "failed"}
  BY <1>1, PlannedJobs DEF JobsOK
<1>2. CASE phase \notin {"rendering", "generated", "failed"}
  <2> HIDE DEF Job
  <2> QED BY <1>2, EmptySeq DEF JobsOK
<1> QED BY <1>1, <1>2

LEMMA Initially == ASSUME Init PROVE IInv
<1> USE DEF Init
<1>1. GranuleIds # {} => granule \in GranuleIds
  OBVIOUS
<1>2. /\ MaxParallelism \in Nat \ {0} /\ MaxFailures \in Nat
  BY ConfigAssumption
<1>3. JobsOK
  BY DEF JobsOK
<1>4. PoolOK
  BY <1>2, FS_EmptySet DEF PoolOK, NoOutcome
<1>5. TilesOK
  BY DEF TilesOK
<1>6. OrphansOK
  BY <1>2 DEF OrphansOK
<1>7. TileSetOK
  BY DEF TileSetOK, NoTileSet
<1> QED BY <1>3, <1>4, <1>5, <1>6, <1>7 DEF IInv

\* Steps outside of rendering find the pool empty.
LEMMA Outside ==
  ASSUME IInv, phase # "rendering"
  PROVE  pool = {} /\ running = {} /\ DOMAIN finished = {}
BY DEF IInv, PoolOK

LEMMA OtherSteps ==
  ASSUME IInv,
         \/ InspectFails
         \/ \E product \in Products, window \in [1..4 -> GatePixels] : QualityGate(product, window)
         \/ OutsideConfiguredBounds
         \/ \E g \in GranuleIds : NextGranule(g)
  PROVE  IInv'
<1>1. CASE \E g \in GranuleIds : NextGranule(g)
  <2>1. PICK g \in GranuleIds : NextGranule(g)
    BY <1>1
  <2>2. pool = {} /\ running = {} /\ DOMAIN finished = {} /\ Len(jobs') = 0
    BY <2>1, Outside DEF NextGranule, Ended
  <2>3. phase' = "idle" /\ granule' \in GranuleIds
    BY <2>1 DEF NextGranule
  <2>4. JobsOK'
    BY <2>1 DEF NextGranule, JobsOK
  <2>5. PoolOK'
    BY <2>1, <2>2 DEF NextGranule, PoolOK, IInv
  <2>6. TilesOK'
    BY <2>1 DEF NextGranule, TilesOK
  <2>7. OrphansOK' /\ TileSetOK'
    BY <2>1 DEF NextGranule, OrphansOK, TileSetOK, NoTileSet, IInv
  <2> QED BY <2>3, <2>4, <2>5, <2>6, <2>7 DEF IInv
<1>2. CASE ~ \E g \in GranuleIds : NextGranule(g)
  <2>1. /\ phase \in {"idle", "accepted"}
        /\ phase' \in {"accepted", "unreadable", "rejected", "outside bounds"}
        /\ UNCHANGED <<granule, jobs, next, pool, running, finished, tiles, tileSet,
                       orphans, failures>>
    <3>1. CASE InspectFails
      BY <3>1 DEF InspectFails
    <3>2. CASE OutsideConfiguredBounds
      BY <3>2 DEF OutsideConfiguredBounds
    <3>3. CASE \E product \in Products, window \in [1..4 -> GatePixels] :
                 QualityGate(product, window)
      <4>1. PICK product \in Products, window \in [1..4 -> GatePixels] :
              QualityGate(product, window)
        BY <3>3
      <4> QED BY <4>1 DEF QualityGate
    <3> QED BY <1>2, <3>1, <3>2, <3>3
  <2>2. phase' \in {"idle", "accepted", "rendering"} \cup Ended /\ granule' \in GranuleIds
    BY <2>1 DEF Ended, IInv
  <2>3. JobsOK'
    BY <2>1 DEF JobsOK, IInv
  <2>4. PoolOK'
    BY <2>1 DEF PoolOK, IInv
  <2>5. TilesOK'
    BY <2>1 DEF TilesOK, IInv
  <2>6. OrphansOK' /\ TileSetOK'
    BY <2>1 DEF OrphansOK, TileSetOK, IInv
  <2> QED BY <2>2, <2>3, <2>4, <2>5, <2>6 DEF IInv
<1> QED BY <1>1, <1>2

LEMMA PlanStep == ASSUME IInv, PlanJobs PROVE IInv'
<1>1. /\ phase = "accepted"
      /\ UNCHANGED <<granule, next, pool, running, finished, tiles, tileSet, orphans, failures>>
      /\ jobs = <<>> /\ next = 1 /\ tiles = <<>> /\ granule \in GranuleIds
  BY DEF PlanJobs, IInv, JobsOK
<1>2. pool = {} /\ running = {} /\ DOMAIN finished = {}
  BY <1>1, Outside
<1>3. PICK bounds \in GenerationBounds :
        IF AllHaveWindows(Source, PlannedCoords(bounds))
        THEN jobs' = RenderJobs(Source, PlannedCoords(bounds)) /\ phase' = "rendering"
        ELSE phase' = "no window" /\ jobs' = jobs
  BY DEF PlanJobs
<1>4. Source' = Source /\ GenerationBounds' = GenerationBounds
  BY <1>1 DEF Source, GenerationBounds
<1>5. phase' \in {"rendering", "no window"} /\ granule' \in GranuleIds
  BY <1>1, <1>3
<1>6. JobsOK'
  BY <1>1, <1>3, <1>4 DEF JobsOK
<1>7. Len(jobs') \in Nat
  <2>1. CASE AllHaveWindows(Source, PlannedCoords(bounds))
    BY <1>1, <1>3, <2>1, PlannedJobs
  <2>2. CASE ~AllHaveWindows(Source, PlannedCoords(bounds))
    <3>1. jobs' = <<>>
      BY <1>1, <1>3, <2>2
    <3> QED BY <3>1
  <2> QED BY <2>1, <2>2
<1>8. PoolOK'
  <2>1. next' \in 1..(Len(jobs') + 1) /\ next' = 1
    BY <1>1, <1>7
  <2>2. pool' = {} /\ running' = {} /\ DOMAIN finished' = {}
    BY <1>1, <1>2
  <2>3. Cardinality(pool') <= MaxParallelism
    BY <1>1 DEF PoolOK, IInv
  <2> QED BY <2>1, <2>2, <2>3 DEF PoolOK
<1>9. TilesOK'
  <2>1. tiles' = <<>> /\ next' = 1
    BY <1>1
  <2> QED BY <2>1 DEF TilesOK
<1>10. OrphansOK' /\ TileSetOK'
  BY <1>1, <1>5 DEF OrphansOK, TileSetOK, IInv
<1> QED BY <1>5, <1>6, <1>8, <1>9, <1>10 DEF IInv, Ended

\* While the tile set is rendered and when it ends, its plan stays.
LEMMA PlanKept ==
  ASSUME IInv, phase = "rendering", phase' \in {"rendering", "generated", "failed"},
         granule' = granule, jobs' = jobs
  PROVE  JobsOK' /\ granule' \in GranuleIds /\ phase' \in {"idle", "accepted", "rendering"} \cup Ended
         /\ Len(jobs) \in Nat
<1>1. Source' = Source /\ GenerationBounds' = GenerationBounds
  BY DEF Source, GenerationBounds
<1>2. JobsOK'
  BY <1>1 DEF JobsOK, IInv
<1>3. Len(jobs) \in Nat
  BY JobsTyped DEF IInv
<1> QED BY <1>2, <1>3 DEF IInv, Ended

LEMMA PoolFinite ==
  ASSUME IInv
  PROVE  IsFiniteSet(pool) /\ Cardinality(pool) \in Nat /\ Len(jobs) \in Nat /\ next \in Nat
<1>1. Len(jobs) \in Nat
  BY JobsTyped DEF IInv
<1>2. next \in Nat /\ next - 1 \in Nat /\ pool \in SUBSET (1..(next - 1))
  BY <1>1 DEF IInv, PoolOK
<1>3. IsFiniteSet(pool)
  BY <1>2, FirstNumbers, FS_Subset
<1> QED BY <1>1, <1>2, <1>3, FS_CardinalityType

LEMMA SpawnStep == ASSUME IInv, Spawn PROVE IInv'
<1>1. /\ phase = "rendering" /\ next <= Len(jobs) /\ Cardinality(pool) < MaxParallelism
      /\ pool' = pool \cup {next} /\ next' = next + 1
      /\ UNCHANGED <<phase, granule, jobs, running, finished, tiles, tileSet, orphans, failures>>
  BY DEF Spawn, MaySpawn
<1>2. JobsOK' /\ granule' \in GranuleIds /\ phase' \in {"idle", "accepted", "rendering"} \cup Ended
      /\ Len(jobs) \in Nat
  BY <1>1, PlanKept
<1>3. next \in 1..Len(jobs) /\ next \in Nat
  BY <1>1, <1>2 DEF IInv, PoolOK
<1>4. PoolOK'
  <2>1. Cardinality(pool') <= MaxParallelism
    <3>1. Cardinality(pool') = IF next \in pool THEN Cardinality(pool) ELSE Cardinality(pool) + 1
      BY <1>1, PoolFinite, FS_AddElement
    <3> QED BY <1>1, <3>1, PoolFinite, ConfigAssumption
  <2>2. pool' \subseteq 1..(next' - 1) /\ next' \in 1..(Len(jobs') + 1)
    BY <1>1, <1>2, <1>3 DEF IInv, PoolOK
  <2>3. running' \subseteq pool' /\ DOMAIN finished' \subseteq pool'
    BY <1>1 DEF IInv, PoolOK
  <2> QED BY <1>1, <2>1, <2>2, <2>3 DEF IInv, PoolOK
<1>5. TilesOK'
  <2>1. \A p \in DOMAIN tiles : tiles[p] \in 1..(next - 1) /\ tiles[p] \notin pool
    BY DEF IInv, TilesOK
  <2>2. \A p \in DOMAIN tiles' : tiles'[p] \in 1..(next' - 1) /\ tiles'[p] \notin pool'
    BY <1>1, <1>3, <2>1
  <2>3. \A j \in 1..(next' - 1) : j \in 1..(next - 1) \/ j = next
    BY <1>1, <1>3
  <2>4. \A j \in 1..(next' - 1) : j \in pool' \/ \E p \in DOMAIN tiles' : tiles'[p] = j
    BY <1>1, <2>3 DEF IInv, TilesOK
  <2> QED BY <1>1, <2>2, <2>4 DEF IInv, TilesOK
<1>6. OrphansOK' /\ TileSetOK'
  BY <1>1 DEF OrphansOK, TileSetOK, IInv
<1> QED BY <1>2, <1>4, <1>5, <1>6 DEF IInv

LEMMA RenderSteps ==
  ASSUME IInv, NEW j \in pool, StartRender(j) \/ RenderTile(j)
  PROVE  IInv'
<1>1. /\ phase = "rendering"
      /\ UNCHANGED <<phase, granule, jobs, next, pool, tiles, tileSet, orphans, failures>>
  BY DEF StartRender, RenderTile, IInv, PoolOK
<1>2. JobsOK' /\ granule' \in GranuleIds /\ phase' \in {"idle", "accepted", "rendering"} \cup Ended
  BY <1>1, PlanKept
<1>3. /\ running' \subseteq pool /\ DOMAIN finished' \subseteq pool /\ running' \cap DOMAIN finished' = {}
      /\ \A k \in DOMAIN finished' :
           finished'[k] \in {"rendered", "error"} /\ (finished'[k] = "error" => failures < MaxFailures)
  <2>1. CASE StartRender(j)
    BY <2>1 DEF StartRender, IInv, PoolOK
  <2>2. CASE RenderTile(j)
    <3>1. PICK outcome \in {"rendered"} \cup (IF failures < MaxFailures THEN {"error"} ELSE {}) :
            finished' = [k \in DOMAIN finished \cup {j} |-> IF k = j THEN outcome ELSE finished[k]]
      BY <2>2 DEF RenderTile
    <3>2. outcome \in {"rendered", "error"} /\ (outcome = "error" => failures < MaxFailures)
      OBVIOUS
    <3>3. running' = running \ {j} /\ j \in running
      BY <2>2 DEF RenderTile
    <3>4. \A k \in DOMAIN finished' :
            finished'[k] = outcome \/ (k \in DOMAIN finished /\ finished'[k] = finished[k])
      BY <3>1
    <3>5. DOMAIN finished' = DOMAIN finished \cup {j}
      BY <3>1
    <3> QED BY <3>2, <3>3, <3>4, <3>5 DEF IInv, PoolOK
  <2> QED BY <2>1, <2>2
<1>4. PoolOK'
  BY <1>1, <1>3 DEF PoolOK, IInv
<1>5. TilesOK'
  BY <1>1 DEF TilesOK, IInv
<1>6. OrphansOK' /\ TileSetOK'
  BY <1>1 DEF OrphansOK, TileSetOK, IInv
<1> QED BY <1>2, <1>4, <1>5, <1>6 DEF IInv

LEMMA JoinStep ==
  ASSUME IInv, NEW j \in pool, JoinRendered(j)
  PROVE  IInv'
<1>1. /\ phase = "rendering" /\ j \in DOMAIN finished
      /\ pool' = pool \ {j} /\ tiles' = Append(tiles, j)
      /\ finished' = [k \in DOMAIN finished \ {j} |-> finished[k]]
      /\ UNCHANGED <<phase, granule, jobs, next, running, tileSet, orphans, failures>>
  BY DEF JoinRendered
<1>2. JobsOK' /\ granule' \in GranuleIds /\ phase' \in {"idle", "accepted", "rendering"} \cup Ended
  BY <1>1, PlanKept
<1>3. j \in 1..(next - 1) /\ next \in Nat /\ j \in Nat
  BY PoolFinite DEF IInv, PoolOK
<1>4. PoolOK'
  <2>1. Cardinality(pool') <= MaxParallelism
    <3>1. Cardinality(pool') = IF j \in pool THEN Cardinality(pool) - 1 ELSE Cardinality(pool)
      BY <1>1, PoolFinite, FS_RemoveElement
    <3> QED BY <3>1, PoolFinite, ConfigAssumption DEF IInv, PoolOK
  <2>2. DOMAIN finished' = DOMAIN finished \ {j} /\ \A k \in DOMAIN finished' : finished'[k] = finished[k]
    BY <1>1
  <2>3. running' \subseteq pool' /\ DOMAIN finished' \subseteq pool' /\ running' \cap DOMAIN finished' = {}
    BY <1>1, <2>2 DEF IInv, PoolOK
  <2> QED BY <1>1, <2>1, <2>2, <2>3 DEF IInv, PoolOK
<1>5. TilesOK'
  <2>1. tiles \in Seq(Nat)
    BY DEF IInv, TilesOK
  <2>2. /\ tiles' \in Seq(Nat) /\ Len(tiles') = Len(tiles) + 1 /\ Len(tiles) \in Nat
        /\ DOMAIN tiles = 1..Len(tiles) /\ DOMAIN tiles' = 1..Len(tiles')
        /\ \A p \in 1..Len(tiles) : tiles'[p] = tiles[p]
        /\ tiles'[Len(tiles) + 1] = j
    <3>1. /\ tiles' \in Seq(Nat) /\ Len(tiles') = Len(tiles) + 1
          /\ \A p \in 1..Len(tiles) : tiles'[p] = tiles[p]
          /\ tiles'[Len(tiles) + 1] = j
      BY <1>1, <1>3, <2>1, AppendProperties
    <3>2. DOMAIN tiles = 1..Len(tiles) /\ Len(tiles) \in Nat
      BY <2>1, LenProperties
    <3>3. DOMAIN tiles' = 1..Len(tiles')
      BY <3>1, LenProperties
    <3> QED BY <3>1, <3>2, <3>3
  <2>3. \A p \in DOMAIN tiles' : p \in DOMAIN tiles \/ p = Len(tiles) + 1
    BY <2>2
  <2>4. \A p \in DOMAIN tiles : tiles[p] \in 1..(next - 1) /\ tiles[p] \notin pool /\ tiles[p] # j
    BY DEF IInv, TilesOK
  <2>5. \A p \in DOMAIN tiles' : tiles'[p] \in 1..(next' - 1) /\ tiles'[p] \notin pool'
    BY <1>1, <1>3, <2>2, <2>3, <2>4
  <2>6. \A p, q \in DOMAIN tiles' : tiles'[p] = tiles'[q] => p = q
    BY <2>2, <2>3, <2>4 DEF IInv, TilesOK
  <2>7. \A p \in DOMAIN tiles : p \in DOMAIN tiles' /\ tiles'[p] = tiles[p]
    BY <2>2
  <2>8. Len(tiles) + 1 \in DOMAIN tiles'
    BY <2>2
  <2>9. \A k \in 1..(next' - 1) : k \in pool' \/ \E p \in DOMAIN tiles' : tiles'[p] = k
    BY <1>1, <2>2, <2>7, <2>8 DEF IInv, TilesOK
  <2> QED BY <2>2, <2>5, <2>6, <2>9 DEF TilesOK
<1>6. OrphansOK' /\ TileSetOK'
  BY <1>1 DEF OrphansOK, TileSetOK, IInv
<1> QED BY <1>2, <1>4, <1>5, <1>6 DEF IInv

LEMMA FailStep ==
  ASSUME IInv, NEW j \in pool, JoinError(j)
  PROVE  IInv'
<1>1. /\ phase = "rendering" /\ phase' = "failed" /\ j \in DOMAIN finished /\ finished[j] = "error"
      /\ failures' = failures + 1 /\ orphans' = orphans + Cardinality(running)
      /\ pool' = {} /\ running' = {} /\ finished' = NoOutcome
      /\ UNCHANGED <<granule, jobs, next, tiles, tileSet>>
  BY DEF JoinError
<1>2. JobsOK' /\ granule' \in GranuleIds /\ phase' \in {"idle", "accepted", "rendering"} \cup Ended
      /\ Len(jobs) \in Nat
  BY <1>1, PlanKept
<1>3. MaxParallelism \in Nat \ {0} /\ MaxFailures \in Nat
  BY ConfigAssumption
<1>4. PoolOK'
  <2>1. DOMAIN finished' = {}
    BY <1>1 DEF NoOutcome
  <2>2. Cardinality(pool') <= MaxParallelism
    BY <1>1, <1>3, FS_EmptySet
  <2>3. next' \in 1..(Len(jobs') + 1)
    BY <1>1 DEF IInv, PoolOK
  <2> QED BY <1>1, <2>1, <2>2, <2>3 DEF PoolOK
<1>5. TilesOK'
  BY <1>1 DEF TilesOK, IInv
<1>6. OrphansOK'
  <2>1. running \in SUBSET (pool \ {j})
    BY <1>1 DEF IInv, PoolOK
  <2>2. IsFiniteSet(pool \ {j}) /\ Cardinality(pool \ {j}) = Cardinality(pool) - 1
    BY PoolFinite, FS_RemoveElement
  <2>3. IsFiniteSet(running) /\ Cardinality(running) <= Cardinality(pool) - 1
    BY <2>1, <2>2, FS_Subset
  <2>4. Cardinality(running) \in Nat /\ Cardinality(running) <= MaxParallelism - 1
    BY <1>3, <2>3, PoolFinite, FS_CardinalityType DEF IInv, PoolOK
  <2>5. /\ orphans \in Nat /\ failures \in Nat /\ failures < MaxFailures
        /\ orphans <= failures * (MaxParallelism - 1)
    BY <1>1, <1>3 DEF IInv, PoolOK, OrphansOK
  <2>6. orphans' \in Nat /\ failures' \in 0..MaxFailures
    BY <1>1, <1>3, <2>4, <2>5
  <2>7. (failures + 1) * (MaxParallelism - 1) = failures * (MaxParallelism - 1) + (MaxParallelism - 1)
        /\ failures * (MaxParallelism - 1) \in Int
    BY <1>3, <2>5
  <2>8. orphans' <= (failures + 1) * (MaxParallelism - 1)
    BY <1>1, <1>3, <2>4, <2>5, <2>7
  <2> QED BY <1>1, <2>6, <2>8 DEF OrphansOK
<1>7. TileSetOK'
  BY <1>1 DEF TileSetOK, IInv
<1> QED BY <1>2, <1>4, <1>5, <1>6, <1>7 DEF IInv

LEMMA FinishStep == ASSUME IInv, FinishTileSet PROVE IInv'
<1>1. PICK bounds \in GenerationBounds :
        tileSet' = [coords |-> [i \in DOMAIN InPlanOrder(tiles) |-> jobs[InPlanOrder(tiles)[i]].coord],
                    tile_count |-> Len(tiles), bounds |-> bounds]
  BY DEF FinishTileSet
<1>2. /\ phase = "rendering" /\ phase' = "generated" /\ next > Len(jobs) /\ pool = {}
      /\ UNCHANGED <<granule, jobs, next, pool, running, finished, tiles, orphans, failures>>
  BY DEF FinishTileSet
<1>3. JobsOK' /\ granule' \in GranuleIds /\ phase' \in {"idle", "accepted", "rendering"} \cup Ended
      /\ Len(jobs) \in Nat
  BY <1>2, PlanKept
<1>4. next - 1 = Len(jobs)
  BY <1>2, <1>3 DEF IInv, PoolOK
<1>5. PoolOK'
  BY <1>2 DEF PoolOK, IInv
<1>6. TilesOK'
  BY <1>2 DEF TilesOK, IInv
<1>7. OrphansOK'
  BY <1>2 DEF OrphansOK, IInv
<1>8. PICK n \in Nat : n = Len(jobs)
  BY <1>3
<1>9. Len(tiles) = n /\ InPlanOrder(tiles) = [k \in 1..n |-> k]
  <2>1. /\ tiles \in Seq(Nat) /\ \A p \in DOMAIN tiles : tiles[p] \in 1..n
        /\ \A p, q \in DOMAIN tiles : tiles[p] = tiles[q] => p = q
        /\ \A j \in 1..n : \E p \in DOMAIN tiles : tiles[p] = j
    BY <1>2, <1>4, <1>8 DEF IInv, TilesOK
  <2>2. tiles \in Seq(1..n)
    <3>1. DOMAIN tiles = 1..Len(tiles) /\ Len(tiles) \in Nat /\ tiles \in [1..Len(tiles) -> Nat]
      BY <2>1, LenProperties
    <3>2. tiles \in [1..Len(tiles) -> 1..n]
      BY <2>1, <3>1
    <3> QED BY <3>1, <3>2
  <2> QED BY <2>1, <2>2, InOrder
<1>10. Source' = Source /\ GenerationBounds' = GenerationBounds
  BY <1>2 DEF Source, GenerationBounds
<1>11. PICK coords : /\ coords = PlannedCoords(bounds) /\ AllHaveWindows(Source, coords)
                     /\ jobs = RenderJobs(Source, coords)
  BY <1>2, GenerationOK DEF IInv, JobsOK
<1>12. /\ Len(coords) = n /\ DOMAIN coords = 1..n /\ coords \in Seq(TileCoords)
       /\ \A i \in 1..n : jobs[i].coord = coords[i]
  <2>1. Proper(bounds)
    BY GenerationOK DEF IInv
  <2> QED BY <1>8, <1>11, <2>1, PlannedJobs, Jobs DEF IInv
<1>13. tileSet' = [coords |-> coords, tile_count |-> n, bounds |-> bounds]
  <2>1. coords = [i \in 1..n |-> coords[i]]
    BY <1>12
  <2>2. [i \in DOMAIN InPlanOrder(tiles) |-> jobs[InPlanOrder(tiles)[i]].coord] = coords
    BY <1>9, <1>12, <2>1
  <2> QED BY <1>1, <1>9, <2>2, Zenon
<1>14. TileSetOK'
  <2>1. DOMAIN tileSet'.coords = 1..tileSet'.tile_count
    BY <1>12, <1>13
  <2>2. \A b \in GenerationBounds : b = bounds
    BY GenerationOK DEF IInv
  <2>3. ASSUME NEW b \in GenerationBounds'
        PROVE  tileSet' = [coords |-> PlannedCoords(b), tile_count |-> Len(PlannedCoords(b)),
                           bounds |-> b]
    <3>1. b = bounds
      BY <1>10, <2>2, <2>3
    <3> QED BY <1>11, <1>12, <1>13, <3>1, Zenon
  <2> QED BY <2>1, <2>3, Zenon DEF TileSetOK
<1> QED BY <1>3, <1>5, <1>6, <1>7, <1>14 DEF IInv

LEMMA Inductive == ASSUME IInv, [Next]_vars PROVE IInv'
<1>1. CASE \/ InspectFails
           \/ \E product \in Products, window \in [1..4 -> GatePixels] : QualityGate(product, window)
           \/ OutsideConfiguredBounds
           \/ \E g \in GranuleIds : NextGranule(g)
  BY <1>1, OtherSteps
<1>2. CASE PlanJobs
  BY <1>2, PlanStep
<1>3. CASE Spawn
  BY <1>3, SpawnStep
<1>4. CASE FinishTileSet
  BY <1>4, FinishStep
<1>5. CASE \E j \in pool : StartRender(j) \/ RenderTile(j) \/ JoinRendered(j) \/ JoinError(j)
  BY <1>5, RenderSteps, JoinStep, FailStep
<1>6. CASE OrphanFinishes \/ UNCHANGED vars
  <2>1. /\ orphans' \in {orphans, orphans - 1} /\ (orphans' # orphans => orphans > 0)
        /\ UNCHANGED <<phase, granule, jobs, next, pool, running, finished, tiles, tileSet, failures>>
    BY <1>6 DEF OrphanFinishes, vars
  <2>2. Source' = Source /\ GenerationBounds' = GenerationBounds
    BY <2>1 DEF Source, GenerationBounds
  <2>3. JobsOK' /\ TileSetOK'
    BY <2>1, <2>2 DEF IInv, JobsOK, TileSetOK
  <2>4. PoolOK' /\ TilesOK'
    BY <2>1 DEF IInv, PoolOK, TilesOK
  <2>5. OrphansOK'
    BY <2>1, ConfigAssumption DEF IInv, OrphansOK
  <2> QED BY <2>1, <2>3, <2>4, <2>5 DEF IInv
<1> QED BY <1>1, <1>2, <1>3, <1>4, <1>5, <1>6 DEF Next, PoolStep

\* Everything known of the reachable states.
THEOREM GenerationInvariant == Spec => []IInv
<1>1. Init => IInv
  BY Initially
<1>2. IInv /\ [Next]_vars => IInv'
  BY Inductive
<1> QED BY <1>1, <1>2, PTL DEF Spec

-----------------------------------------------------------------------------
(* What the invariant says of the tile sets *)

\* Every variable keeps its type, the jobs' windows included (tile_render_jobs).
THEOREM Typing == Spec => []TypeOK
<1>1. ASSUME IInv PROVE TypeOK
  <2>1. jobs \in Seq(Job) /\ Len(jobs) \in Nat
    BY <1>1, JobsTyped DEF IInv
  <2>2. next \in 1..(Len(jobs) + 1) /\ \A j \in 1..(next - 1) : j \in 1..Len(jobs)
    BY <1>1, <2>1 DEF IInv, PoolOK
  <2>3. tiles \in Seq(1..Len(jobs))
    <3>1. tiles \in Seq(Nat) /\ \A p \in DOMAIN tiles : tiles[p] \in 1..Len(jobs)
      BY <1>1, <2>2 DEF IInv, TilesOK
    <3>2. DOMAIN tiles = 1..Len(tiles) /\ Len(tiles) \in Nat /\ tiles \in [1..Len(tiles) -> Nat]
      BY <3>1, LenProperties
    <3>3. tiles \in [1..Len(tiles) -> 1..Len(jobs)]
      BY <3>1, <3>2
    <3> QED BY <3>2, <3>3
  <2>4. pool \subseteq 1..Len(jobs) /\ running \subseteq pool /\ DOMAIN finished \subseteq pool
        /\ \A j \in DOMAIN finished : finished[j] \in {"rendered", "error"}
    BY <1>1, <2>2 DEF IInv, PoolOK
  <2> QED BY <1>1, <2>1, <2>2, <2>3, <2>4 DEF TypeOK, IInv, TileSetOK, OrphansOK, Job
<1> QED BY <1>1, GenerationInvariant, PTL

\* However the renders overtake each other and whichever of them are joined first, a
\* generated tile set has the planned tiles, each once and in the planner's order
\* (generate_tiles_for_plan_with_renderer and its sort_by_key).
THEOREM PlanIsGenerated == Spec => []GeneratedIsPlan
<1>1. ASSUME IInv PROVE GeneratedIsPlan
  <2> SUFFICES ASSUME phase = "generated", NEW bounds \in GenerationBounds
               PROVE  /\ tileSet.coords = PlannedCoords(bounds)
                      /\ tileSet.tile_count = Len(PlannedCoords(bounds))
    BY DEF GeneratedIsPlan
  <2>1. PICK coords : coords = PlannedCoords(bounds)
    OBVIOUS
  <2>2. tileSet = [coords |-> coords, tile_count |-> Len(coords), bounds |-> bounds]
    BY <1>1, <2>1, Zenon DEF IInv, TileSetOK
  <2> QED BY <2>1, <2>2
<1> QED BY <1>1, GenerationInvariant, PTL

\* Aborting a tile set stops none of its blocking threads, yet they and those of the next
\* tile sets never exceed what the pools may have left behind (JoinSet, spawn_blocking).
THEOREM Bounded == Spec => []RendersBounded
<1>1. ASSUME IInv PROVE RendersBounded
  <2>1. running \in SUBSET pool /\ Cardinality(pool) <= MaxParallelism
    BY <1>1 DEF IInv, PoolOK
  <2>2. Cardinality(running) \in Nat /\ Cardinality(running) <= Cardinality(pool)
        /\ Cardinality(pool) \in Nat
    BY <1>1, <2>1, PoolFinite, FS_Subset, FS_CardinalityType
  <2>3. /\ orphans \in Nat /\ failures \in Nat /\ MaxParallelism \in Nat
        /\ orphans <= failures * (MaxParallelism - 1)
    BY <1>1, ConfigAssumption DEF IInv, OrphansOK
  <2> QED BY <2>1, <2>2, <2>3 DEF RendersBounded
<1> QED BY <1>1, GenerationInvariant, PTL

\* A tile that overlaps the bounds, even by its edge's last position, is in the plan:
\* the range of the planner is the one the gateway's overlap asks for.
LEMMA OverlapIsPlanned ==
  ASSUME NEW b, Proper(b), NEW z \in MinZoom..MaxZoom, NEW x \in Nat, NEW y \in Nat,
         NEW coord, coord = [z |-> z, x |-> x, y |-> y],
         IsTileCoord(coord), ClipBounds(TileBoundsOf(coord), b) # {}
  PROVE  coord \in PlannedTiles(b)
<1>1. /\ TilesPerAxis(z) \in Nat \ {0} /\ LonUnits % TilesPerAxis(z) = 0
      /\ LatUnits % TilesPerAxis(z) = 0 /\ LonUnits \in Nat \ {0} /\ LatUnits \in Nat \ {0}
  <2>1. LonUnits \in Nat \ {0} /\ LatUnits \in Nat \ {0}
    BY GridAssumption, Zenon
  <2> QED BY <2>1, Zooms
<1>2. PICK width \in Nat, height \in Nat :
        width = LonUnits \div TilesPerAxis(z) /\ height = LatUnits \div TilesPerAxis(z)
  BY <1>1, TileWidth
<1> DEFINE West == x * width
           East == (x + 1) * width
           North == y * height
           South == (y + 1) * height
<1>3. TileBoundsOf(coord) = [west |-> West, east |-> East, north |-> North, south |-> South]
  BY <1>2 DEF TileBoundsOf
<1>4. x \in 0..(TilesPerAxis(z) - 1) /\ y \in 0..(TilesPerAxis(z) - 1)
  BY <1>1 DEF IsTileCoord
<1>5. West \in Int /\ East \in Int /\ North \in Int /\ South \in Int
  BY <1>2
<1>6. /\ b.west \in 0..LonUnits /\ b.east \in 0..LonUnits
      /\ b.north \in 0..LatUnits /\ b.south \in 0..LatUnits
      /\ b \in [west : Int, east : Int, north : Int, south : Int]
  <2>1. LonUnits \in Int /\ LatUnits \in Int
    BY <1>1
  <2> QED BY <2>1 DEF Proper, Box
<1>7. West <= b.east /\ b.west < East /\ North <= b.south /\ b.north < South
  <2> HIDE DEF West, East, North, South
  <2>1. PICK a \in [west : Int, east : Int, north : Int, south : Int] :
          a = [west |-> West, east |-> East, north |-> North, south |-> South]
    BY <1>5
  <2>2. PICK c \in ClipBounds(a, b) : TRUE
    BY <1>3, <2>1
  <2>3. /\ c.west \in {a.west, b.west} /\ c.west >= a.west /\ c.west >= b.west
        /\ c.east \in {a.east, b.east} /\ c.east <= a.east /\ c.east <= b.east
        /\ c.north \in {a.north, b.north} /\ c.north >= a.north /\ c.north >= b.north
        /\ c.south \in {a.south, b.south} /\ c.south <= a.south /\ c.south <= b.south
        /\ c.west < c.east /\ c.north < c.south
    BY <1>6, Clips
  <2>4. a.west = West /\ a.east = East /\ a.north = North /\ a.south = South
    BY <2>1
  <2> QED BY <1>1, <1>5, <1>6, <2>3, <2>4
<1>8. TileAt(b.west, LonUnits, z) <= x /\ x <= TileAt(b.east, LonUnits, z)
  BY <1>1, <1>2, <1>4, <1>6, <1>7, TileOfPosition
<1>9. TileAt(b.north, LatUnits, z) <= y /\ y <= TileAt(b.south, LatUnits, z)
  BY <1>1, <1>2, <1>4, <1>6, <1>7, TileOfPosition
<1>10. /\ TileAt(b.west, LonUnits, z) \in Int /\ TileAt(b.east, LonUnits, z) \in Int
       /\ TileAt(b.north, LatUnits, z) \in Int /\ TileAt(b.south, LatUnits, z) \in Int
  <2>1. \A a \in 0..LonUnits : TileAt(a, LonUnits, z) \in 0..(TilesPerAxis(z) - 1)
    BY <1>1, TileOfPosition
  <2>2. \A a \in 0..LatUnits : TileAt(a, LatUnits, z) \in 0..(TilesPerAxis(z) - 1)
    BY <1>1, TileOfPosition
  <2> QED BY <1>1, <1>6, <2>1, <2>2
<1>11. /\ x \in TileAt(b.west, LonUnits, z)..TileAt(b.east, LonUnits, z)
       /\ y \in TileAt(b.north, LatUnits, z)..TileAt(b.south, LatUnits, z)
  BY <1>8, <1>9, <1>10
<1> QED BY <1>11, Planned

\* The gateway redirects to no tile that was not rendered: it knows the bounds and the zooms
\* from the manifest, and redoes the planner's test in the other direction
\* (tile_redirect, plan_tile_generation_for_bounds).
THEOREM RedirectsFindTiles == Spec => []RedirectsAreRendered
<1>1. ASSUME IInv PROVE RedirectsAreRendered
  <2> SUFFICES ASSUME phase = "generated", NEW z \in MinZoom..MaxZoom,
                      NEW x \in 0..TilesPerAxis(z), NEW y \in 0..TilesPerAxis(z),
                      NEW coord, coord = [z |-> z, x |-> x, y |-> y], Redirects(coord)
               PROVE  \E i \in DOMAIN tileSet.coords : tileSet.coords[i] = coord
    BY DEF RedirectsAreRendered
  <2>1. PICK b \in GenerationBounds : TRUE
    BY <1>1 DEF IInv, JobsOK
  <2>2. PICK coords : coords = PlannedCoords(b)
    OBVIOUS
  <2>3. tileSet = [coords |-> coords, tile_count |-> Len(coords), bounds |-> b]
    BY <1>1, <2>2, Zenon DEF IInv, TileSetOK
  <2>4. Proper(b)
    BY <1>1, GenerationOK DEF IInv
  <2>5. IsTileCoord(coord) /\ ClipBounds(TileBoundsOf(coord), b) # {} /\ x \in Nat /\ y \in Nat
    <3>1. x \in Nat /\ y \in Nat
      BY Zooms
    <3> QED BY <2>3, <3>1 DEF Redirects
  <2>6. coord \in PlannedTiles(b)
    BY <2>4, <2>5, OverlapIsPlanned
  <2>7. PICK i \in 1..Len(coords) : coords[i] = coord
    BY <2>2, <2>4, <2>6, Jobs
  <2>8. DOMAIN coords = 1..Len(coords)
    BY <2>2, <2>4, Jobs
  <2> QED BY <2>3, <2>7, <2>8
<1> QED BY <1>1, GenerationInvariant, PTL

-----------------------------------------------------------------------------
(* What the windows show *)

\* At every zoom some planned tile has both a column and a row of cells of the bounds.
LEMMA CellIsPlanned ==
  ASSUME NEW b, Proper(b), NEW z \in MinZoom..MaxZoom,
         NEW u \in b.west..(b.east - 1), NEW v \in b.north..(b.south - 1),
         NEW width \in Nat, width = LonUnits \div TilesPerAxis(z),
         NEW height \in Nat, height = LatUnits \div TilesPerAxis(z)
  PROVE  \E coord \in PlannedTiles(b) :
           /\ coord.z = z
           /\ coord.x * width <= u /\ u < (coord.x + 1) * width
           /\ coord.y * height <= v /\ v < (coord.y + 1) * height
<1>1. /\ TilesPerAxis(z) \in Nat \ {0} /\ LonUnits % TilesPerAxis(z) = 0
      /\ LatUnits % TilesPerAxis(z) = 0 /\ LonUnits \in Nat \ {0} /\ LatUnits \in Nat \ {0}
  <2>1. LonUnits \in Nat \ {0} /\ LatUnits \in Nat \ {0}
    BY GridAssumption, Zenon
  <2> QED BY <2>1, Zooms
<1>2. /\ b.west \in 0..LonUnits /\ b.east \in 0..LonUnits
      /\ b.north \in 0..LatUnits /\ b.south \in 0..LatUnits
      /\ b.west < b.east /\ b.north < b.south
      /\ b \in [west : Int, east : Int, north : Int, south : Int]
  <2>1. LonUnits \in Int /\ LatUnits \in Int
    BY <1>1
  <2> QED BY <2>1 DEF Proper, Box
<1>3. u \in 0..LonUnits /\ u < LonUnits /\ v \in 0..LatUnits /\ v < LatUnits
  BY <1>1, <1>2
<1>4. PICK x \in 0..(TilesPerAxis(z) - 1) : x * width <= u /\ u < (x + 1) * width
  BY <1>1, <1>3, TileOfPosition
<1>5. PICK y \in 0..(TilesPerAxis(z) - 1) : y * height <= v /\ v < (y + 1) * height
  BY <1>1, <1>3, TileOfPosition
<1>6. x \in Nat /\ y \in Nat /\ x < TilesPerAxis(z) /\ y < TilesPerAxis(z)
  BY <1>1
<1> DEFINE West == x * width
           East == (x + 1) * width
           North == y * height
           South == (y + 1) * height
<1>7. West \in Int /\ East \in Int /\ North \in Int /\ South \in Int
  BY <1>6
<1>8. PICK coord : coord = [z |-> z, x |-> x, y |-> y]
  OBVIOUS
<1>9. TileBoundsOf(coord) = [west |-> West, east |-> East, north |-> North, south |-> South]
  BY <1>8 DEF TileBoundsOf
<1>10. West <= u /\ u < East /\ North <= v /\ v < South
  BY <1>4, <1>5
<1>11. ClipBounds(TileBoundsOf(coord), b) # {}
  <2> HIDE DEF West, East, North, South
  <2>1. PICK a \in [west : Int, east : Int, north : Int, south : Int] :
          a = [west |-> West, east |-> East, north |-> North, south |-> South]
    BY <1>7
  <2>2. /\ a.west < a.east /\ b.west < b.east /\ a.west < b.east /\ b.west < a.east
        /\ a.north < a.south /\ b.north < b.south /\ a.north < b.south /\ b.north < a.south
    BY <1>1, <1>2, <1>3, <1>7, <1>10, <2>1
  <2>3. ClipBounds(a, b) # {}
    BY <1>2, <2>2, Clips
  <2> QED BY <1>9, <2>1, <2>3
<1>12. IsTileCoord(coord)
  BY <1>6, <1>8 DEF IsTileCoord
<1>13. coord \in PlannedTiles(b)
  BY <1>6, <1>8, <1>11, <1>12, OverlapIsPlanned
<1> QED BY <1>4, <1>5, <1>8, <1>13

\* A pixel of an axis that shows some of the bounds shows some of a cell of theirs.
LEMMA CellsOfBounds ==
  ASSUME granule \in GranuleIds, NEW b \in GenerationBounds, NEW s, s = Source,
         NEW c \in Showing(b.west - s.west, b.east - s.west, s.east - s.west),
         NEW r \in Showing(Latitude[b.north] - Latitude[s.north],
                           Latitude[b.south] - Latitude[s.north],
                           Latitude[s.south] - Latitude[s.north])
  PROVE  /\ Proper(b) /\ c \in 0..(RasterSize - 1) /\ r \in 0..(RasterSize - 1)
         /\ \E u \in b.west..(b.east - 1) :
              u \in s.west..(s.east - 1)
              /\ Shows(c, u - s.west, (u + 1) - s.west, s.east - s.west)
         /\ \E v \in b.north..(b.south - 1) :
              v \in s.north..(s.south - 1)
              /\ Shows(r, Latitude[v] - Latitude[s.north], Latitude[v + 1] - Latitude[s.north],
                       Latitude[s.south] - Latitude[s.north])
<1>1. /\ LonUnits \in Nat /\ LatUnits \in Nat /\ RasterSize \in Nat \ {0}
      /\ \A p \in 0..LatUnits : Latitude[p] \in Int
      /\ \A p, q \in 0..LatUnits : p < q => Latitude[p] < Latitude[q]
  <2>1. /\ LonUnits \in Nat \ {0} /\ LatUnits \in Nat \ {0} /\ RasterSize \in Nat \ {0}
        /\ Latitude \in [0..LatUnits -> Int]
        /\ \A p, q \in 0..LatUnits : p < q => Latitude[p] < Latitude[q]
    BY GridAssumption, Zenon
  <2> QED BY <2>1
<1>2. /\ Proper(b) /\ Proper(s)
      /\ s.west <= b.west /\ b.east <= s.east /\ s.north <= b.north /\ b.south <= s.south
  BY GenerationOK, SourceOK
<1>3. /\ b.west \in Nat /\ b.east \in Nat /\ b.west < b.east
      /\ b.north \in 0..LatUnits /\ b.south \in 0..LatUnits /\ b.north < b.south
      /\ s.west \in Nat /\ s.east \in Nat /\ s.west < s.east
      /\ s.north \in 0..LatUnits /\ s.south \in 0..LatUnits /\ s.north < s.south
  BY <1>1, <1>2 DEF Proper, Box
<1> DEFINE whole == s.east - s.west
           start == b.west - s.west
           end == b.east - s.west
           lon == [u \in b.west..b.east |-> u - s.west]
           height == Latitude[s.south] - Latitude[s.north]
           lat == [v \in b.north..b.south |-> Latitude[v] - Latitude[s.north]]
<1>4. /\ c \in 0..(RasterSize - 1) /\ c \in Int
      /\ c * whole < end * RasterSize /\ start * RasterSize < (c + 1) * whole
  <2>1. /\ c \in 0..(RasterSize - 1) /\ c * whole < end * RasterSize
        /\ (c + 1) * whole > start * RasterSize
    BY DEF Showing
  <2>2. c \in Int /\ whole \in Int /\ start \in Int
    BY <1>1, <1>3, <2>1
  <2> HIDE DEF whole, start, end
  <2> QED BY <1>1, <1>3, <2>1, <2>2
<1>5. /\ r \in 0..(RasterSize - 1) /\ r \in Int
      /\ r * height < (Latitude[b.south] - Latitude[s.north]) * RasterSize
      /\ (Latitude[b.north] - Latitude[s.north]) * RasterSize < (r + 1) * height
  <2>1. /\ r \in 0..(RasterSize - 1)
        /\ r * height < (Latitude[b.south] - Latitude[s.north]) * RasterSize
        /\ (r + 1) * height > (Latitude[b.north] - Latitude[s.north]) * RasterSize
    BY DEF Showing
  <2>2. r \in Int /\ height \in Int /\ Latitude[b.north] - Latitude[s.north] \in Int
    BY <1>1, <1>3, <2>1
  <2> HIDE DEF height
  <2> QED BY <1>1, <2>1, <2>2
<1>6. PICK u \in b.west..(b.east - 1) :
        c * whole < lon[u + 1] * RasterSize /\ lon[u] * RasterSize < (c + 1) * whole
  <2>1. /\ \A u \in b.west..b.east : lon[u] \in Int
        /\ lon[b.east] = end /\ lon[b.west] = start
        /\ whole \in Nat \ {0}
    <3>1. whole \in Nat \ {0} /\ start \in Int /\ end \in Int
      BY <1>3
    <3>2. b.west \in b.west..b.east /\ b.east \in b.west..b.east
      BY <1>3
    <3>3. \A w \in b.west..b.east : w - s.west \in Int
      BY <1>3
    <3>4. /\ \A w \in b.west..b.east : lon[w] = w - s.west
          /\ end = b.east - s.west /\ start = b.west - s.west
      OBVIOUS
    <3> HIDE DEF lon, whole, start, end
    <3> QED BY <3>1, <3>2, <3>3, <3>4
  <2> HIDE DEF lon, whole, start, end
  <2> QED BY <1>3, <1>4, <2>1, Cells
<1>7. PICK v \in b.north..(b.south - 1) :
        r * height < lat[v + 1] * RasterSize /\ lat[v] * RasterSize < (r + 1) * height
  <2>1. \A v \in b.north..b.south : v \in 0..LatUnits
    BY <1>1, <1>3
  <2>2. /\ \A v \in b.north..b.south : lat[v] \in Int
        /\ lat[b.south] = Latitude[b.south] - Latitude[s.north]
        /\ lat[b.north] = Latitude[b.north] - Latitude[s.north]
        /\ height \in Nat \ {0} /\ b.north \in Nat /\ b.south \in Nat
    <3>1. b.north \in Nat /\ b.south \in Nat
          /\ b.north \in b.north..b.south /\ b.south \in b.north..b.south
      BY <1>1, <1>3
    <3>2. height \in Nat \ {0}
      <4>1. /\ Latitude[s.north] \in Int /\ Latitude[s.south] \in Int
            /\ Latitude[s.north] < Latitude[s.south]
        BY <1>1, <1>3
      <4> QED BY <4>1
    <3>3. \A w \in b.north..b.south : lat[w] \in Int /\ lat[w] = Latitude[w] - Latitude[s.north]
      <4> SUFFICES ASSUME NEW w \in b.north..b.south
                   PROVE  lat[w] \in Int /\ lat[w] = Latitude[w] - Latitude[s.north]
        OBVIOUS
      <4>1. lat[w] = Latitude[w] - Latitude[s.north]
        OBVIOUS
      <4>2. Latitude[w] \in Int /\ Latitude[s.north] \in Int
        BY <1>1, <1>3, <2>1
      <4> HIDE DEF lat
      <4> QED BY <4>1, <4>2
    <3> HIDE DEF lat, height
    <3> QED BY <3>1, <3>2, <3>3
  <2> HIDE DEF lat, height
  <2> QED BY <1>3, <1>5, <2>2, Cells
<1>8. /\ u \in s.west..(s.east - 1) /\ u \in b.west..b.east /\ u + 1 \in b.west..b.east
      /\ v \in s.north..(s.south - 1) /\ v \in b.north..b.south /\ v + 1 \in b.north..b.south
  BY <1>1, <1>2, <1>3
<1>9. lon[u] = u - s.west /\ lon[u + 1] = (u + 1) - s.west
  BY <1>8
<1>10. lat[v] = Latitude[v] - Latitude[s.north] /\ lat[v + 1] = Latitude[v + 1] - Latitude[s.north]
  BY <1>8
<1>11. Shows(c, u - s.west, (u + 1) - s.west, whole)
  BY <1>6, <1>9, Zenon DEF Shows
<1>12. Shows(r, Latitude[v] - Latitude[s.north], Latitude[v + 1] - Latitude[s.north], height)
  BY <1>7, <1>10, Zenon DEF Shows
<1> QED BY <1>2, <1>4, <1>5, <1>8, <1>11, <1>12

\* The windows of a plan leave no pixel of the bounds out, at any zoom: each is rounded
\* outwards, and two that touch in the map touch or overlap in the raster.  And gdal_translate is never asked
\* for pixels beyond the raster (raster_window_for_tile).
THEOREM RasterIsCut == Spec => []WindowsCutTheRaster
<1>1. ASSUME IInv, phase = "rendering", NEW b \in GenerationBounds, NEW z \in MinZoom..MaxZoom,
             NEW c \in Showing(b.west - Source.west, b.east - Source.west,
                               Source.east - Source.west),
             NEW r \in Showing(Latitude[b.north] - Latitude[Source.north],
                               Latitude[b.south] - Latitude[Source.north],
                               Latitude[Source.south] - Latitude[Source.north])
      PROVE  \E i \in DOMAIN jobs :
               /\ jobs[i].coord.z = z
               /\ Within(c, jobs[i].window.columns) /\ Within(r, jobs[i].window.rows)
  <2>1. PICK s : s = Source
    OBVIOUS
  <2>2. granule \in GranuleIds
    BY <1>1 DEF IInv
  <2>3. /\ Proper(b) /\ c \in 0..(RasterSize - 1) /\ r \in 0..(RasterSize - 1)
        /\ \E u \in b.west..(b.east - 1) :
             u \in s.west..(s.east - 1)
             /\ Shows(c, u - s.west, (u + 1) - s.west, s.east - s.west)
        /\ \E v \in b.north..(b.south - 1) :
             v \in s.north..(s.south - 1)
             /\ Shows(r, Latitude[v] - Latitude[s.north], Latitude[v + 1] - Latitude[s.north],
                      Latitude[s.south] - Latitude[s.north])
    BY <2>1, <2>2, CellsOfBounds
  <2>4. PICK u \in b.west..(b.east - 1) :
          u \in s.west..(s.east - 1)
          /\ Shows(c, u - s.west, (u + 1) - s.west, s.east - s.west)
    BY <2>3
  <2>5. PICK v \in b.north..(b.south - 1) :
          v \in s.north..(s.south - 1)
          /\ Shows(r, Latitude[v] - Latitude[s.north], Latitude[v + 1] - Latitude[s.north],
                   Latitude[s.south] - Latitude[s.north])
    BY <2>3
  <2>6. PICK width \in Nat, height \in Nat :
          width = LonUnits \div TilesPerAxis(z) /\ height = LatUnits \div TilesPerAxis(z)
    <3>1. LonUnits \in Nat \ {0} /\ LatUnits \in Nat \ {0}
      BY GridAssumption, Zenon
    <3> QED BY <3>1, Zooms, TileWidth
  <2>7. PICK coord \in PlannedTiles(b) :
          /\ coord.z = z
          /\ coord.x * width <= u /\ u < (coord.x + 1) * width
          /\ coord.y * height <= v /\ v < (coord.y + 1) * height
    BY <2>3, <2>6, CellIsPlanned
  <2>8. PICK coords : /\ coords = PlannedCoords(b) /\ AllHaveWindows(Source, coords)
                      /\ jobs = RenderJobs(Source, coords)
    BY <1>1, GenerationOK DEF IInv, JobsOK
  <2>9. PICK i \in 1..Len(coords) : coords[i] = coord
    BY <2>3, <2>7, <2>8, Jobs
  <2>10. /\ DOMAIN jobs = 1..Len(coords) /\ coord \in TileCoords
         /\ jobs[i].coord = coord /\ jobs[i].window \in RasterWindow(coord, Source)
    BY <2>2, <2>8, <2>9, PlannedJobs
  <2>11. PICK window \in RasterWindow(coord, Source) : window = jobs[i].window
    BY <2>10
  <2>12. /\ \A p \in 0..(RasterSize - 1), n \in s.west..(s.east - 1) :
              /\ coord.x * width <= n /\ n < (coord.x + 1) * width
              /\ Shows(p, n - s.west, (n + 1) - s.west, s.east - s.west)
              => Within(p, window.columns)
         /\ \A p \in 0..(RasterSize - 1), n \in s.north..(s.south - 1) :
              /\ coord.y * height <= n /\ n < (coord.y + 1) * height
              /\ Shows(p, Latitude[n] - Latitude[s.north], Latitude[n + 1] - Latitude[s.north],
                       Latitude[s.south] - Latitude[s.north])
              => Within(p, window.rows)
    BY <2>1, <2>2, <2>6, <2>7, <2>10, Windows
  <2>13. Within(c, window.columns) /\ Within(r, window.rows)
    BY <2>3, <2>4, <2>5, <2>7, <2>12
  <2> QED BY <2>7, <2>10, <2>11, <2>13
<1>2. ASSUME IInv, NEW i \in DOMAIN jobs
      PROVE  Fits(jobs[i].window.columns) /\ Fits(jobs[i].window.rows)
  <2>1. CASE phase \in {"rendering", "generated", "failed"}
    <3>1. PICK b \in GenerationBounds : /\ AllHaveWindows(Source, PlannedCoords(b))
                                        /\ jobs = RenderJobs(Source, PlannedCoords(b))
      BY <1>2, <2>1 DEF IInv, JobsOK
    <3> QED BY <1>2, <3>1, PlannedJobs DEF IInv
  <2>2. CASE phase \notin {"rendering", "generated", "failed"}
    <3>1. jobs = <<>>
      BY <1>2, <2>2 DEF IInv, JobsOK
    <3> QED BY <1>2, <3>1
  <2> QED BY <2>1, <2>2
<1>3. \A span : Fits(span) => span.offset >= 0 /\ span.size > 0 /\ span.offset + span.size <= RasterSize
  BY DEF Fits
<1>4. IInv => WindowsCutTheRaster
  BY <1>1, <1>2, <1>3 DEF WindowsCutTheRaster
<1> QED BY <1>4, GenerationInvariant, PTL

-----------------------------------------------------------------------------
(* What the pixels show *)

LEMMA SampleFields ==
  ASSUME NEW t
  PROVE  /\ Sample(t).finite = TRUE /\ Sample(t).value = t
         /\ NonFinite(t).finite = FALSE /\ NonFinite(t).value = t
BY DEF Sample, NonFinite

\* Every sample an f32 may hold, and every pixel: not only those the runs enumerate.
AllSamples == {Sample(t) : t \in Int} \cup {NonFinite(s) : s \in -1..1}
AllPixels == [radiance : AllSamples, quality : AllSamples, cloud : AllSamples,
              observations : AllSamples]

LEMMA SamplesTyped ==
  ASSUME NEW r \in AllSamples
  PROVE  r.finite \in BOOLEAN /\ r.value \in Int /\ (r.finite => r = Sample(r.value))
<1>1. PICK t \in Int : r = Sample(t) \/ r = NonFinite(t)
  BY SMT DEF AllSamples
<1>2. CASE r = Sample(t)
  <2>1. r.finite = TRUE /\ r.value = t
    BY <1>2, SampleFields
  <2> QED BY <1>2, <2>1
<1>3. CASE r = NonFinite(t)
  <2>1. r.finite = FALSE /\ r.value = t
    BY <1>3, SampleFields
  <2> QED BY <2>1
<1> QED BY <1>1, <1>2, <1>3

LEMMA PixelsAreSome ==
  Pixels \subseteq AllPixels
<1>1. \A m : Tenths(m) = 10 * m
  BY DEF Tenths
<1>2. Radiances \subseteq AllSamples /\ Qualities \subseteq AllSamples
  BY <1>1, SMT DEF Radiances, Qualities, AllSamples
<1>3. Clouds \subseteq AllSamples /\ Counts \subseteq AllSamples
  BY <1>1, SMT DEF Clouds, Counts, AllSamples, U16Max
<1>4. Sample(0) \in AllSamples
  BY DEF AllSamples
<1> QED BY <1>2, <1>3, <1>4 DEF Pixels, AllPixels

LEMMA Casts ==
  ASSUME NEW sample, NEW q \in AsU16(sample)
  PROVE  /\ sample.finite /\ sample.value \in Nat /\ sample.value % 10 = 0
         /\ q = sample.value \div 10
<1>1. Tenths(U16Max) \in Nat
  BY SMT DEF Tenths, U16Max
<1>2. /\ sample.finite /\ sample.value \in 0..Tenths(U16Max) /\ sample.value % 10 = 0
      /\ q = sample.value \div 10
  BY SMT DEF AsU16
<1> QED BY <1>1, <1>2

\* What classify_pixel_sample makes of a pixel, when it is no error.
LEMMA Classes ==
  ASSUME NEW mapping, NEW p, NEW class \in ClassifyPixel(mapping, p)
  PROVE  \E q \in AsU16(p.quality) :
           /\ class.radiance <=> ClassifyRadiance(mapping, p.radiance)
           /\ class.quality <=> ClassifyQuality(mapping, QualityFlag(q))
           /\ class.cloudy <=> mapping.cloud_dataset /\ \A m \in AsU16(p.cloud) : IsCloudContaminated(m)
<1> DEFINE radiance == ClassifyRadiance(mapping, p.radiance)
           quality(q) == ClassifyQuality(mapping, QualityFlag(q))
           cloudy == mapping.cloud_dataset /\ \A m \in AsU16(p.cloud) : IsCloudContaminated(m)
<1>1. PICK q \in AsU16(p.quality) :
        class = [radiance |-> radiance, quality |-> quality(q), cloudy |-> cloudy]
  BY DEF ClassifyPixel
<1> HIDE DEF radiance, quality, cloudy
<1>2. (class.radiance <=> radiance) /\ (class.quality <=> quality(q)) /\ (class.cloudy <=> cloudy)
  BY <1>1
<1> QED BY <1>2, Zenon DEF radiance, quality, cloudy

\* Every radiance from 0 on has a dark-sky class.
LEMMA DarkSkyClasses ==
  ASSUME NEW v \in Nat
  PROVE  \E k \in 1..9 : v >= DarkSkyMin[k] /\ (k < 9 => v < DarkSkyMin[k + 1])
<1>1. /\ DarkSkyMin[1] = 0 /\ DarkSkyMin[2] = 2 /\ DarkSkyMin[3] = 4 /\ DarkSkyMin[4] = 10
      /\ DarkSkyMin[5] = 30 /\ DarkSkyMin[6] = 60 /\ DarkSkyMin[7] = 120 /\ DarkSkyMin[8] = 250
      /\ DarkSkyMin[9] = 500
  BY DEF DarkSkyMin
<1>2. PICK k \in 1..9 :
        /\ k = 1 => v < 2
        /\ k = 2 => v >= 2 /\ v < 4
        /\ k = 3 => v >= 4 /\ v < 10
        /\ k = 4 => v >= 10 /\ v < 30
        /\ k = 5 => v >= 30 /\ v < 60
        /\ k = 6 => v >= 60 /\ v < 120
        /\ k = 7 => v >= 120 /\ v < 250
        /\ k = 8 => v >= 250 /\ v < 500
        /\ k = 9 => v >= 500
  OBVIOUS
<1> QED BY <1>1, <1>2

\* A pixel gets a colour exactly when it is renderable and its radiance is a number from 0 on.
LEMMA Coloured ==
  ASSUME NEW class, NEW r \in AllSamples
  PROVE  RenderPixel(class, r) # 0 <=>
           Valid(class) /\ ~class.cloudy /\ r.finite /\ r.value >= 0
<1>1. r.finite \in BOOLEAN /\ r.value \in Int
  BY SamplesTyped
<1>2. CASE ~r.finite \/ r.value < 0
  BY <1>1, <1>2 DEF RenderPixel, ClassifyDarkSky
<1>3. CASE r.finite /\ r.value \in Nat
  <2>1. \E k \in 1..9 : r.value >= DarkSkyMin[k] /\ (k < 9 => r.value < DarkSkyMin[k + 1])
    BY <1>3, DarkSkyClasses
  <2> DEFINE k == CHOOSE k \in 1..9 : r.value >= DarkSkyMin[k] /\ (k < 9 => r.value < DarkSkyMin[k + 1])
  <2>2. k \in 1..9
    BY <2>1
  <2>3. ClassifyDarkSky(r) = k
    BY <1>3 DEF ClassifyDarkSky
  <2> HIDE DEF k
  <2>4. ClassifyDarkSky(r) # 0
    BY <2>2, <2>3
  <2> QED BY <1>3, <2>4 DEF RenderPixel, IsRenderable
<1> QED BY <1>1, <1>2, <1>3

\* The quality flags that are accepted, and the cloud masks that say cloudy.
LEMMA Flags ==
  ASSUME NEW sample \in AllSamples, NEW q \in AsU16(sample), NEW mapping,
         ClassifyQuality(mapping, QualityFlag(q))
  PROVE  sample \in (IF mapping.cadence = "daily" THEN {Sample(0)} ELSE {Sample(0), Sample(20)})
<1>1. PICK v \in Int : sample.finite /\ sample.value = v /\ v >= 0 /\ v % 10 = 0 /\ q = v \div 10
  BY Casts
<1>2. sample = Sample(v)
  BY <1>1, SamplesTyped
<1>3. q \in Nat /\ v = 10 * q
  BY <1>1
<1>4. QualityFlag(q) \in (IF mapping.cadence = "daily" THEN {0} ELSE {0, 2})
  BY DEF ClassifyQuality
<1>5. q \in {0, 2} /\ (mapping.cadence = "daily" => q = 0)
  BY <1>3, <1>4 DEF QualityFlag, U8Max
<1> QED BY <1>2, <1>3, <1>5

LEMMA WholeSamples ==
  ASSUME NEW m \in Nat
  PROVE  \A n \in AsU16(Sample(Tenths(m))) : n = m
<1>1. PICK sample : sample = Sample(Tenths(m))
  OBVIOUS
<1>2. sample.value = Tenths(m)
  BY <1>1, SampleFields, Zenon
<1>3. \A n \in AsU16(sample) : n = sample.value \div 10
  BY Casts
<1>4. Tenths(m) \div 10 = m
  BY DEF Tenths
<1> QED BY <1>1, <1>2, <1>3, <1>4

LEMMA Mappings ==
  ASSUME NEW product, NEW mapping, mapping = Mapping(product)
  PROVE  /\ mapping.cadence = IF product = "VNP46A3" THEN "monthly" ELSE "daily"
         /\ mapping.cloud_dataset <=> product # "VNP46A3"
<1> DEFINE cadence == IF product = "VNP46A3" THEN "monthly" ELSE "daily"
           daily == product # "VNP46A3"
           monthly == product = "VNP46A3"
           fill == Sample(-9999)
<1>1. Mapping(product) = [cadence |-> cadence, cloud_dataset |-> daily,
                          observation_count_dataset |-> monthly, radiance_fill_value |-> fill,
                          radiance_valid_min |-> 0]
  BY DEF Mapping
<1> HIDE DEF cadence, daily, monthly, fill
<1>2. mapping.cadence = cadence /\ (mapping.cloud_dataset <=> daily)
  BY <1>1
<1> QED BY <1>2, Zenon DEF cadence, daily

\* A tile shows no pixel that its radiance, its quality flag or its cloud mask speaks against,
\* whatever the granule's file holds (classify_pixel_sample, is_renderable_sample,
\* classify_dark_sky).
THEOREM EveryVisiblePixelIsVetted ==
  ASSUME NEW product, NEW p \in AllPixels,
         NEW class \in ClassifyPixel(Mapping(product), p), RenderPixel(class, p.radiance) # 0
  PROVE  /\ p.radiance.finite /\ p.radiance.value >= 0
         /\ p.quality \in (IF product = "VNP46A3" THEN {Sample(0), Sample(20)} ELSE {Sample(0)})
         /\ product # "VNP46A3" =>
              \A m \in Nat : p.cloud = Sample(Tenths(m)) => ~IsCloudContaminated(m)
<1>1. p.radiance \in AllSamples /\ p.quality \in AllSamples
  BY DEF AllPixels
<1>2. p.radiance.finite /\ p.radiance.value >= 0 /\ Valid(class) /\ ~class.cloudy
  BY <1>1, Coloured
<1>3. PICK mapping : mapping = Mapping(product)
  OBVIOUS
<1>4. PICK q \in AsU16(p.quality) :
        /\ class.quality <=> ClassifyQuality(mapping, QualityFlag(q))
        /\ class.cloudy <=> mapping.cloud_dataset /\ \A m \in AsU16(p.cloud) : IsCloudContaminated(m)
  BY <1>3, Classes
<1>5. ClassifyQuality(mapping, QualityFlag(q))
  BY <1>2, <1>4 DEF Valid
<1>6. p.quality \in (IF mapping.cadence = "daily" THEN {Sample(0)} ELSE {Sample(0), Sample(20)})
  BY <1>1, <1>5, Flags
<1>7. /\ mapping.cadence = IF product = "VNP46A3" THEN "monthly" ELSE "daily"
      /\ mapping.cloud_dataset <=> product # "VNP46A3"
  BY <1>3, Mappings
<1>8. ASSUME product # "VNP46A3", NEW m \in Nat, p.cloud = Sample(Tenths(m)), IsCloudContaminated(m)
      PROVE  FALSE
  <2>1. \A n \in AsU16(p.cloud) : n = m
    BY <1>8, WholeSamples
  <2>2. \A n \in AsU16(p.cloud) : IsCloudContaminated(n)
    BY <1>8, <2>1
  <2> QED BY <1>2, <1>4, <1>7, <1>8, <2>2
<1>9. p.quality \in (IF product = "VNP46A3" THEN {Sample(0), Sample(20)} ELSE {Sample(0)})
  BY <1>6, <1>7
<1> QED BY <1>2, <1>8, <1>9

\* So it is with the samples the runs enumerate.
THEOREM PixelsAreVetted == Spec => []VisiblePixelsAreVetted
<1>1. ASSUME NEW m \in {128, 192, 255, 65535}
      PROVE  IsCloudContaminated(m)
  BY DEF IsCloudContaminated
<1>2. ASSUME NEW product \in Products, NEW p \in Pixels,
             NEW class \in ClassifyPixel(Mapping(product), p), RenderPixel(class, p.radiance) # 0
      PROVE  /\ p.radiance.finite /\ p.radiance.value >= 0
             /\ p.quality \in (IF product = "VNP46A3" THEN {Sample(0), Sample(20)} ELSE {Sample(0)})
             /\ product # "VNP46A3" =>
                  p.cloud \notin {Sample(Tenths(m)) : m \in {128, 192, 255, 65535}}
  <2>1. p \in AllPixels
    BY PixelsAreSome
  <2>2. /\ p.radiance.finite /\ p.radiance.value >= 0
        /\ p.quality \in (IF product = "VNP46A3" THEN {Sample(0), Sample(20)} ELSE {Sample(0)})
        /\ product # "VNP46A3" =>
             \A m \in Nat : p.cloud = Sample(Tenths(m)) => ~IsCloudContaminated(m)
    BY <1>2, <2>1, EveryVisiblePixelIsVetted
  <2>3. {128, 192, 255, 65535} \subseteq Nat
    BY SMT
  <2>4. ASSUME product # "VNP46A3", NEW m \in {128, 192, 255, 65535}, p.cloud = Sample(Tenths(m))
        PROVE  FALSE
    <3>1. m \in Nat /\ IsCloudContaminated(m)
      BY <1>1, <2>3
    <3> QED BY <2>2, <2>4, <3>1
  <2>5. product # "VNP46A3" => p.cloud \notin {Sample(Tenths(m)) : m \in {128, 192, 255, 65535}}
    BY <2>4
  <2> QED BY <2>2, <2>5
<1>3. VisiblePixelsAreVetted
  BY <1>2 DEF VisiblePixelsAreVetted
<1> QED BY <1>3, PTL

\* A pixel of finite radiance gets a colour exactly when it counts as valid and clear.
LEMMA ColouredMeansClear ==
  ASSUME NEW product, NEW p \in AllPixels, p.radiance.finite,
         NEW class \in ClassifyPixel(Mapping(product), p)
  PROVE  RenderPixel(class, p.radiance) # 0 <=> Valid(class) /\ ~class.cloudy
<1>1. p.radiance \in AllSamples
  BY DEF AllPixels
<1>2. class.radiance <=> ClassifyRadiance(Mapping(product), p.radiance)
  BY Classes
<1>3. Valid(class) => p.radiance.value >= 0
  <2>1. ClassifyRadiance(Mapping(product), p.radiance) => ~(p.radiance.value < 0)
    BY DEF ClassifyRadiance, Mapping
  <2>2. p.radiance.value \in Int
    BY <1>1, SamplesTyped
  <2> QED BY <1>2, <2>1, <2>2 DEF Valid
<1> QED BY <1>1, <1>3, Coloured

\* The quality gate judges a window of pixels by as many as the tiles would show of it
\* (summarize_quality, render_pixels_from_samples).
THEOREM GateCountsEveryWindow ==
  ASSUME NEW product, NEW n \in Nat,
         NEW pixels, NEW classes \in [1..n -> UNION {ClassifyPixel(Mapping(product), p) : p \in AllPixels}],
         \A i \in 1..n : /\ pixels[i] \in AllPixels /\ pixels[i].radiance.finite
                         /\ classes[i] \in ClassifyPixel(Mapping(product), pixels[i])
  PROVE  Summary(classes).valid - Summary(classes).cloudy =
           Cardinality({i \in 1..n : RenderPixel(classes[i], pixels[i].radiance) # 0})
<1> DEFINE valid == {i \in 1..n : Valid(classes[i])}
           cloudy == {i \in valid : classes[i].cloudy}
           shown == {i \in 1..n : RenderPixel(classes[i], pixels[i].radiance) # 0}
<1>1. Summary(classes).valid = Cardinality(valid) /\ Summary(classes).cloudy = Cardinality(cloudy)
  BY DEF Summary
<1>2. \A i \in 1..n : RenderPixel(classes[i], pixels[i].radiance) # 0
                        <=> Valid(classes[i]) /\ ~classes[i].cloudy
  BY ColouredMeansClear
<1>3. shown = valid \ cloudy /\ cloudy \subseteq valid /\ valid \subseteq 1..n
  BY <1>2
<1> HIDE DEF valid, cloudy, shown
<1>4. IsFiniteSet(valid) /\ IsFiniteSet(cloudy)
  <2>1. IsFiniteSet(1..n)
    BY FS_Interval
  <2> QED BY <1>3, <2>1, FS_Subset
<1>5. /\ Cardinality(valid \ cloudy) = Cardinality(valid) - Cardinality(valid \cap cloudy)
      /\ valid \cap cloudy = cloudy
  BY <1>3, <1>4, FS_Difference
<1> QED BY <1>1, <1>3, <1>5 DEF shown

\* So it is for each pixel the runs enumerate.
THEOREM GateCounts == Spec => []GateCountsWhatTilesShow
<1>1. ASSUME NEW class
      PROVE  /\ Summary(<<class>>).valid = IF Valid(class) THEN 1 ELSE 0
             /\ Summary(<<class>>).cloudy = IF Valid(class) /\ class.cloudy THEN 1 ELSE 0
  <2> DEFINE valid == {i \in DOMAIN <<class>> : Valid(<<class>>[i])}
             cloudy == {i \in valid : <<class>>[i].cloudy}
  <2>1. valid = IF Valid(class) THEN {1} ELSE {}
    OBVIOUS
  <2>2. cloudy = IF Valid(class) /\ class.cloudy THEN {1} ELSE {}
    BY <2>1
  <2>3. Cardinality({1}) = 1 /\ Cardinality({}) = 0
    BY FS_EmptySet, FS_Singleton
  <2>4. Summary(<<class>>).valid = Cardinality(valid) /\ Summary(<<class>>).cloudy = Cardinality(cloudy)
    BY DEF Summary
  <2> HIDE DEF valid, cloudy
  <2> QED BY <2>1, <2>2, <2>3, <2>4
<1>2. ASSUME NEW product \in Products, NEW p \in {q \in Pixels : q.radiance.finite},
             NEW class \in ClassifyPixel(Mapping(product), p)
      PROVE  Summary(<<class>>).valid - Summary(<<class>>).cloudy =
               IF RenderPixel(class, p.radiance) # 0 THEN 1 ELSE 0
  <2>1. p \in AllPixels /\ p.radiance.finite
    BY PixelsAreSome
  <2>2. RenderPixel(class, p.radiance) # 0 <=> Valid(class) /\ ~class.cloudy
    BY <2>1, ColouredMeansClear
  <2> QED BY <1>1, <2>2
<1>3. GateCountsWhatTilesShow
  BY <1>2 DEF GateCountsWhatTilesShow
<1> QED BY <1>3, PTL

=============================================================================
