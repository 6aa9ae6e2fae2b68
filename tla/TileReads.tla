------------------------------ MODULE TileReads ------------------------------
(***************************************************************************)
(* api-gateway: what clients read of the tile sets while workers publish   *)
(* and cleanups delete them.  A client asks for the latest manifest, for   *)
(* that of a tile set it knows, for a tile, or walks through the list of   *)
(* tile sets page by page.  Each answer is put together from one or two    *)
(* reads of the blob container or the table, without a transaction.        *)
(***************************************************************************)
EXTENDS TileSetPublication

CONSTANTS
  Clients,
  Tiles,         \* the tiles clients ask for
  NoTile,
  DatasetDate,   \* dataset_date of each tile set
  PageLimit      \* the limit of a walk

ASSUME ReadsAssumption ==
  /\ \A ts \in TileSets : TilesOf[ts] \subseteq Tiles
  /\ NoTile \notin Tiles
  /\ PageLimit \in Nat \ {0}
  /\ DatasetDate \in [TileSets -> Nat]

VARIABLES
  read,    \* the request each client waits for, and its answer
  walk     \* the walk through the list it is in: its cursor, what it has seen,
           \* and, for the properties, what was there when it began

readVars == <<created, removed, latest, aged, blobs, pointer, publisher, cleaner, faults,
              read, walk>>

NoRead == [pc |-> "idle", route |-> "none", ts |-> NoTileSet, tile |-> NoTile, status |-> 0]
NoWalk == [pc |-> "idle", offset |-> 0, seen |-> {}, listed |-> {}, removed |-> {},
           latest |-> NoTileSet]

ReadsInit ==
  /\ Init
  /\ read = [c \in Clients |-> NoRead]
  /\ walk = [c \in Clients |-> NoWalk]

-----------------------------------------------------------------------------
(* Manifests and tiles *)

ReadAt(c, pc) == read[c].pc = pc
WalkAt(c, pc) == walk[c].pc = pc
\* One thing at a time: no answer depends on what else a client waits for.
Idle(c) == ReadAt(c, "idle") /\ WalkAt(c, "idle")

\* The response, and with it the end of the request.
Respond(c, status) ==
  read' = [read EXCEPT ![c] = [read[c] EXCEPT !.pc = "answered", !.status = status]]

\* latest_manifest, first the pointer.  No pointer yet: 503.
LatestTileManifest(c) ==
  /\ Idle(c)
  /\ read' = [read EXCEPT ![c] =
       [pc |-> IF pointer = NoTileSet THEN "answered" ELSE "manifest", route |-> "latest",
        ts |-> pointer, tile |-> NoTile, status |-> IF pointer = NoTileSet THEN 503 ELSE 0]]
  /\ UNCHANGED <<vars, walk>>

\* tile_manifest_by_id and tile_redirect, past the validation of their paths:
\* ids are those of the list or of a manifest, or name nothing (NoTileSet).
TileManifestById(c, ts) ==
  /\ Idle(c)
  /\ ts \in Inserted \cup {NoTileSet}
  /\ read' = [read EXCEPT ![c] =
       [pc |-> "manifest", route |-> "by_id", ts |-> ts, tile |-> NoTile, status |-> 0]]
  /\ UNCHANGED <<vars, walk>>

TileRedirect(c, ts, t) ==
  /\ Idle(c)
  /\ ts \in Inserted \cup {NoTileSet}
  /\ read' = [read EXCEPT ![c] =
       [pc |-> "manifest", route |-> "redirect", ts |-> ts, tile |-> t, status |-> 0]]
  /\ UNCHANGED <<vars, walk>>

HasManifest(ts) == ts \in TileSets /\ Manifest \in blobs[ts]

\* Defect: a redirect does not look at the zooms and bounds of the manifest.
CoversAnything(ts, t) == TRUE
\* The zooms and bounds of the manifest, against the coordinate.
Covers(ts, t) == t \in TilesOf[ts]

\* read_json_blob of the manifest.  A redirect is decided by the manifest alone.
\* A missing manifest is 404, or 503 for the latest; a tile it does not cover is
\* 400 beyond its zooms and 404 outside its bounds.
ReadManifest(c) ==
  LET ts == read[c].ts
      t == read[c].tile
  IN
  /\ ReadAt(c, "manifest")
  /\ \/ /\ HasManifest(ts)
        /\ \/ read[c].route # "redirect" /\ Respond(c, 200)
           \/ /\ read[c].route = "redirect" /\ ~Covers(ts, t)
              /\ \E status \in {400, 404} : Respond(c, status)
           \/ /\ read[c].route = "redirect" /\ Covers(ts, t)
              /\ read' = [read EXCEPT ![c].pc = "redirected", ![c].status = 302]
     \/ /\ ~HasManifest(ts)
        /\ Respond(c, IF read[c].route = "latest" THEN 503 ELSE 404)
  /\ UNCHANGED <<vars, walk>>

\* The storage does not answer, whatever it has: 503, and nothing said of the
\* tile set.
StorageReadFails(c) ==
  /\ ReadAt(c, "manifest")
  /\ read' = [read EXCEPT ![c] = [read[c] EXCEPT !.pc = "failed", !.status = 503]]
  /\ UNCHANGED <<vars, walk>>

\* The client follows the redirect, at once or from its cache much later.
FetchTile(c) ==
  /\ ReadAt(c, "redirected")
  /\ read' = [read EXCEPT ![c] =
       [read[c] EXCEPT !.pc = "fetched",
                       !.status = IF read[c].tile \in blobs[read[c].ts] THEN 200 ELSE 404]]
  /\ UNCHANGED <<vars, walk>>

NextRequest(c) ==
  /\ read[c].pc \in {"answered", "failed", "fetched"}
  /\ read' = [read EXCEPT ![c] = NoRead]
  /\ UNCHANGED <<vars, walk>>

-----------------------------------------------------------------------------
(* list_tile_sets and the client that follows next_cursor *)

\* WHERE retention_deleted_at IS NULL
Listed == Inserted \ removed

\* ORDER BY latest DESC, dataset_date DESC, created_at DESC
ListedBefore(a, b) ==
  \/ a = latest /\ b # latest
  \/ (a = latest <=> b = latest) /\ DatasetDate[a] > DatasetDate[b]
  \/ (a = latest <=> b = latest) /\ DatasetDate[a] = DatasetDate[b] /\ created[a] > created[b]

\* LIMIT limit + 1 OFFSET offset
Rows(offset) ==
  {ts \in Listed :
     Cardinality({o \in Listed : ListedBefore(o, ts)}) \in offset..(offset + PageLimit)}
\* paged_response: one row too many tells that there is another page.
Page(offset) ==
  {ts \in Rows(offset) :
     Cardinality({o \in Rows(offset) : ListedBefore(o, ts)}) < PageLimit}

StartWalk(c) ==
  /\ Idle(c)
  /\ walk' = [walk EXCEPT ![c] =
       [pc |-> "page", offset |-> 0, seen |-> {}, listed |-> Listed, removed |-> removed,
        latest |-> latest]]
  /\ UNCHANGED <<vars, read>>

\* Defect: the cursor of the next page skips the row that told of it.
ListTileSetsSkipping(c) ==
  /\ WalkAt(c, "page")
  /\ walk' = [walk EXCEPT ![c] =
       [walk[c] EXCEPT
          !.seen = walk[c].seen \cup Page(walk[c].offset),
          !.pc = IF Cardinality(Rows(walk[c].offset)) > PageLimit THEN "page" ELSE "done",
          !.offset = IF Cardinality(Rows(walk[c].offset)) > PageLimit
                     THEN walk[c].offset + PageLimit + 1 ELSE walk[c].offset]]
  /\ UNCHANGED <<vars, read>>

\* list_tile_sets for the page at the cursor; the walk ends without next_cursor.
ListTileSets(c) ==
  LET offset == walk[c].offset
      more == Cardinality(Rows(offset)) > PageLimit
  IN
  /\ WalkAt(c, "page")
  /\ walk' = [walk EXCEPT ![c] =
       [walk[c] EXCEPT !.seen = walk[c].seen \cup Page(offset),
                       !.pc = IF more THEN "page" ELSE "done",
                       !.offset = IF more THEN offset + PageLimit ELSE offset]]
  /\ UNCHANGED <<vars, read>>

EndWalk(c) ==
  /\ WalkAt(c, "done")
  /\ walk' = [walk EXCEPT ![c] = NoWalk]
  /\ UNCHANGED <<vars, read>>

-----------------------------------------------------------------------------

ClientStep(c) ==
  \/ LatestTileManifest(c)
  \/ \E ts \in TileSets \cup {NoTileSet} :
       TileManifestById(c, ts) \/ \E t \in Tiles : TileRedirect(c, ts, t)
  \/ ReadManifest(c) \/ StorageReadFails(c) \/ FetchTile(c) \/ NextRequest(c)
  \/ StartWalk(c) \/ ListTileSets(c) \/ EndWalk(c)

ReadsNext ==
  \/ Next /\ UNCHANGED <<read, walk>>
  \/ \E c \in Clients : ClientStep(c)

ReadsSpec == ReadsInit /\ [][ReadsNext]_readVars

-----------------------------------------------------------------------------
(* Properties *)

\* A client is turned away from what it was promised - the latest manifest, one of
\* the list, a tile the manifest covers - or sent to a tile that is not there, only
\* if the retention policy has given that tile set up: neither the two reads of the
\* latest manifest, nor a redirect that nobody checks against the container, nor a
\* publication under way shows it a hole (latest_manifest, tile_redirect,
\* execute_tile_set_cleanup).  An outage of the storage turns nobody away.
UnservedIsExpendable ==
  \A c \in Clients :
    LET r == read[c]
        promised == r.ts # NoTileSet /\ r.tile \in TilesOf[r.ts] \cup {NoTile}
    IN  \/ r.pc = "answered" /\ promised /\ r.status # 200
        \/ r.pc = "fetched" /\ r.status # 200
        => Expendable(r.ts)

\* "Walk tile sets by following meta.next_cursor until it is absent": whatever is
\* inserted meanwhile, a walk shows every tile set that was there when it began,
\* unless a row was removed or another one promoted while it was under way - the
\* cursor is an offset, and both move rows to the front.
WalksAreComplete ==
  \A c \in Clients :
    WalkAt(c, "done") /\ walk[c].removed = removed /\ walk[c].latest = latest =>
      walk[c].listed \subseteq walk[c].seen

=============================================================================
