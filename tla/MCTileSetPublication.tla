----------------------- MODULE MCTileSetPublication -----------------------
(* Instances of TileSetPublication for TLC. *)
EXTENDS TileSetPublication, TLC
CONSTANTS s1, s2, s3, s4, t1, t2

OneVersion == [ts \in TileSets |-> "v1"]
OneTile == [ts \in TileSets |-> {t1}]
\* s1 has more tiles than a limit of one.
MixedTiles == [ts \in TileSets |-> IF ts = s1 THEN {t1, t2} ELSE {t1}]

Symmetry == Permutations(Publishers) \cup Permutations(Cleaners)
=============================================================================
