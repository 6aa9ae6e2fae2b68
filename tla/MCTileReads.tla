----------------------------- MODULE MCTileReads -----------------------------
(* Instances of TileReads for TLC. *)
EXTENDS TileReads, TLC
CONSTANTS s1, s2, s3, t1, outside

OneVersion == [ts \in TileSets |-> "dark-sky-v1"]
OneTile == [ts \in TileSets |-> {t1}]
\* The tile set that is created first may be the one of the newest date.
Dates == (s1 :> 2) @@ (s2 :> 1) @@ (s3 :> 1)
=============================================================================
