------------------------- MODULE MCTileGeneration -------------------------
(* Instances of TileGeneration for TLC: five degrees of longitude are one   *)
(* unit, and the Mercator axis is counted in thousandths.                   *)
EXTENDS TileGeneration

\* Mercator positions of 90, 80, ... 0 degrees north in thousandths, rounded;
\* the southern half mirrors them.
NorthEdge == <<0, 112, 224, 290, 339, 379, 413, 443, 472, 500>>
Rows == [v \in 0..18 |-> IF v <= 9 THEN NorthEdge[v + 1] ELSE 1000 - NorthEdge[19 - v]]

\* Latitudes: a thousand for each row, in proportion within it.
RowOf(p) == IF p = 1000 THEN 17 ELSE CHOOSE v \in 0..17 : Rows[v] <= p /\ p < Rows[v + 1]
Latitudes ==
  [p \in 0..1000 |->
     LET v == RowOf(p) IN 1000 * v + (1000 * (p - Rows[v])) \div (Rows[v + 1] - Rows[v])]

\* Bounds that cut through granules.
CutBounds == [west |-> 11, east |-> 47, north |-> 320, south |-> 480]

\* A clear pixel, a cloudy one, an invalid one, and one that is no quality flag.
Pixel(radiance, quality, cloud) ==
  [radiance |-> Sample(radiance), quality |-> Sample(quality),
   cloud |-> Sample(Tenths(cloud)), observations |-> Sample(0)]
SomePixels == {Pixel(5, 0, 0), Pixel(5, 0, 192), Pixel(-9999, 0, 0), Pixel(5, 5, 0)}

\* Granules across the map: outside of the bounds, cut by them, within them,
\* on the equator, and one that ends on 90 degrees west.
SomeGranules == ({4, 5, 16, 23} \X {2, 3, 4, 8}) \cup {<<8, 4>>}
\* Three neighbours, the second of which ends on 90 degrees west.
AtEdge == {<<7, 4>>, <<8, 4>>, <<9, 4>>}
=============================================================================
