----------------------------- MODULE TileCatalog -----------------------------
(***************************************************************************)
(* What clients of the tiles may rely on, whoever publishes and cleans up: *)
(* a tile set enters the catalogue whole, in one step; one whole tile set  *)
(* at a time is the latest; and a tile set is withdrawn only when it has   *)
(* outlived the retention window and enough newer ones of its version are  *)
(* there, for good.  TileSetPublication implements it.                     *)
(***************************************************************************)
EXTENDS Naturals, FiniteSets

CONSTANTS
  TileSets, NoTileSet,
  Version,         \* classification_version of each tile set
  ProtectedPrior   \* tile sets kept besides the newest of each version

VARIABLES
  created,    \* the order in which tile sets entered, 0 for one that has not
  whole,      \* tile sets with every tile and the manifest
  removed,    \* tile sets that are gone
  latest,
  aged        \* tile sets that entered up to here have outlived the window

vars == <<created, whole, removed, latest, aged>>

Entered == {ts \in TileSets : created[ts] # 0}

Init ==
  /\ created = [ts \in TileSets |-> 0]
  /\ whole = {} /\ removed = {}
  /\ latest = NoTileSet
  /\ aged = 0

\* The newer tile sets of a version protect no more than so many older ones.
Newer(ts) ==
  {n \in Entered \ removed : Version[n] = Version[ts] /\ created[n] > created[ts]}
Expendable(ts) ==
  /\ created[ts] \in 1..aged
  /\ ts # latest
  /\ Cardinality(Newer(ts)) > ProtectedPrior

Enter(ts) ==
  /\ created[ts] = 0
  /\ created' = [created EXCEPT ![ts] = Cardinality(Entered) + 1]
  /\ whole' = whole \cup {ts}
  /\ UNCHANGED <<removed, latest, aged>>

Promote(ts) ==
  /\ ts \in whole
  /\ latest' = ts
  /\ UNCHANGED <<created, whole, removed, aged>>

Age ==
  /\ \E ts \in TileSets : created[ts] = aged + 1
  /\ aged' = aged + 1
  /\ UNCHANGED <<created, whole, removed, latest>>

\* A tile set that lost a tile is no longer offered as whole...
Withdraw(ts) ==
  /\ ts \in whole /\ Expendable(ts)
  /\ whole' = whole \ {ts}
  /\ UNCHANGED <<created, removed, latest, aged>>

\* ... and is removed.
Remove(ts) ==
  /\ ts \notin whole \cup removed /\ Expendable(ts)
  /\ removed' = removed \cup {ts}
  /\ UNCHANGED <<created, whole, latest, aged>>

Next ==
  \/ \E ts \in TileSets : Enter(ts) \/ Promote(ts) \/ Withdraw(ts) \/ Remove(ts)
  \/ Age

Spec == Init /\ [][Next]_vars
=============================================================================
