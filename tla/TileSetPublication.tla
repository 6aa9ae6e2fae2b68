------------------------ MODULE TileSetPublication ------------------------
(***************************************************************************)
(* processing-svc: publication of tile sets, and the retention cleanup     *)
(* that deletes them.  A publisher uploads tiles and manifest, inserts and *)
(* promotes the row, and moves manifests/latest.json; a cleaner selects    *)
(* stale rows and takes the same steps back.  Publishers and cleaners work *)
(* at the same time on the table and on the blob container, of which no    *)
(* transaction spans both.                                                 *)
(*                                                                         *)
(* Every attempt at a granule has a tile_set_id of its own, so a tile set  *)
(* is published at most once.                                              *)
(***************************************************************************)
EXTENDS Naturals, FiniteSets

CONSTANTS
  TileSets,          \* tile_set_ids
  NoTileSet,
  Version,           \* classification_version of each tile set
  TilesOf,           \* the tiles of each tile set
  Manifest,          \* the immutable manifest of a tile set
  Publishers,        \* processing workers, once the tiles are rendered
  Cleaners,          \* processes executing "retention-cleanup --execute"
  ProtectedPrior,    \* retention_protected_prior_tile_sets
  BatchLimit,        \* retention_batch_limit
  TileBlobLimit,     \* retention_tile_blob_limit
  MaxFaults          \* bound: publications and cleanups that fail midway

ASSUME TileSetsAssumption ==
  /\ IsFiniteSet(TileSets)
  /\ NoTileSet \notin TileSets
  /\ \A ts \in TileSets : IsFiniteSet(TilesOf[ts]) /\ Manifest \notin TilesOf[ts]
\* parse_u32_allow_zero for the first, parse_positive_u32 for the others
ASSUME LimitsAssumption ==
  /\ ProtectedPrior \in Nat
  /\ BatchLimit \in Nat \ {0}
  /\ TileBlobLimit \in Nat \ {0}
  /\ MaxFaults \in Nat

VARIABLES
  created,    \* tile_sets.created_at: order of insertion, 0 when there is no row
  removed,    \* rows with retention_deleted_at set
  latest,     \* the row with latest = true
  aged,       \* rows created up to here have outlived the retention window
  blobs,      \* the blobs of each tile set in the container
  pointer,    \* the tile set manifests/latest.json names
  publisher,  \* local state of each publisher
  cleaner,    \* local state of each cleaner
  faults      \* faults so far

vars == <<created, removed, latest, aged, blobs, pointer, publisher, cleaner, faults>>

IdlePublisher == [pc |-> "idle", ts |-> NoTileSet, left |-> {}, seen |-> NoTileSet]
IdleCleaner == [pc |-> "idle", ts |-> NoTileSet, left |-> {}, todo |-> {}]

Init ==
  /\ created = [ts \in TileSets |-> 0]
  /\ removed = {}
  /\ latest = NoTileSet
  /\ aged = 0
  /\ blobs = [ts \in TileSets |-> {}]
  /\ pointer = NoTileSet
  /\ publisher = [p \in Publishers |-> IdlePublisher]
  /\ cleaner = [c \in Cleaners |-> IdleCleaner]
  /\ faults = 0

Inserted == {ts \in TileSets : created[ts] # 0}

-----------------------------------------------------------------------------
(* The container of processed blobs: one request each.  Deleting a blob that  *)
(* is gone already succeeds.                                                  *)

UploadBlob(ts, b) == blobs' = [blobs EXCEPT ![ts] = @ \cup {b}]
DeleteBlob(ts, b) == blobs' = [blobs EXCEPT ![ts] = @ \ {b}]
TileListing(ts) == blobs[ts] \ {Manifest}

-----------------------------------------------------------------------------
(* publish_generated_tile_set *)

PublisherAt(p, pc) == publisher[p].pc = pc
PublisherGoto(p, pc) ==
  publisher' = [publisher EXCEPT ![p] =
                  IF pc = "idle" THEN IdlePublisher ELSE [publisher[p] EXCEPT !.pc = pc]]

\* A worker has rendered a tile set under an id never used before.
StartPublishing(p, ts) ==
  /\ PublisherAt(p, "idle")
  /\ ts \notin Inserted /\ blobs[ts] = {}
  /\ \A q \in Publishers : publisher[q].ts # ts
  /\ publisher' = [publisher EXCEPT ![p] =
       [pc |-> "tiles", ts |-> ts, left |-> TilesOf[ts], seen |-> NoTileSet]]
  /\ UNCHANGED <<created, removed, latest, aged, blobs, pointer, cleaner, faults>>

UploadTile(p, t) ==
  /\ PublisherAt(p, "tiles")
  /\ t \in publisher[p].left
  /\ UploadBlob(publisher[p].ts, t)
  /\ publisher' = [publisher EXCEPT ![p].left = @ \ {t}]
  /\ UNCHANGED <<created, removed, latest, aged, pointer, cleaner, faults>>

\* Defect: promotion before the row is there.
UploadManifestPromotes(p) ==
  /\ PublisherAt(p, "tiles")
  /\ publisher[p].left = {}
  /\ UploadBlob(publisher[p].ts, Manifest)
  /\ PublisherGoto(p, "promote")
  /\ UNCHANGED <<created, removed, latest, aged, pointer, cleaner, faults>>

\* Defect: the manifest does not wait for the tiles.
UploadManifestEarly(p) ==
  /\ PublisherAt(p, "tiles")
  /\ UploadBlob(publisher[p].ts, Manifest)
  /\ PublisherGoto(p, "insert")
  /\ UNCHANGED <<created, removed, latest, aged, pointer, cleaner, faults>>

UploadManifest(p) ==
  /\ PublisherAt(p, "tiles")
  /\ publisher[p].left = {}
  /\ UploadBlob(publisher[p].ts, Manifest)
  /\ PublisherGoto(p, "insert")
  /\ UNCHANGED <<created, removed, latest, aged, pointer, cleaner, faults>>

\* insert_tile_set, with latest = false
InsertTileSet(p) ==
  /\ PublisherAt(p, "insert")
  /\ created' = [created EXCEPT ![publisher[p].ts] = Cardinality(Inserted) + 1]
  /\ PublisherGoto(p, "promote")
  /\ UNCHANGED <<removed, latest, aged, blobs, pointer, cleaner, faults>>

\* promote_latest_tile_set, first statement: UPDATE ... WHERE latest = true
\* finds the row that is latest when the statement begins, and waits for its
\* lock if another promotion is under way.
DemoteLatest(p) ==
  /\ PublisherAt(p, "promote")
  /\ publisher' = [publisher EXCEPT ![p].pc = "commit", ![p].seen = latest]
  /\ UNCHANGED <<created, removed, latest, aged, blobs, pointer, cleaner, faults>>

\* Second statement and COMMIT.  When another promotion has committed since,
\* its row was not demoted: idx_tile_sets_latest_one turns this one down.
PromoteLatest(p) ==
  /\ PublisherAt(p, "commit")
  /\ \/ /\ publisher[p].seen = latest
        /\ latest' = publisher[p].ts
        /\ PublisherGoto(p, "pointer")
     \/ /\ publisher[p].seen # latest
        /\ UNCHANGED latest
        /\ PublisherGoto(p, "idle")
  /\ UNCHANGED <<created, removed, aged, blobs, pointer, cleaner, faults>>

UploadPointer(p) ==
  /\ PublisherAt(p, "pointer")
  /\ pointer' = publisher[p].ts
  /\ PublisherGoto(p, "idle")
  /\ UNCHANGED <<created, removed, latest, aged, blobs, cleaner, faults>>

\* Any step may fail (`?`) or the process die; a step that fails after taking
\* effect is that step followed by this one.
PublisherFails(p) ==
  /\ ~PublisherAt(p, "idle")
  /\ faults < MaxFaults /\ faults' = faults + 1
  /\ PublisherGoto(p, "idle")
  /\ UNCHANGED <<created, removed, latest, aged, blobs, pointer, cleaner>>

PublisherStep(p) ==
  \/ \E ts \in TileSets : \E t \in TilesOf[ts] : UploadTile(p, t)
  \/ UploadManifest(p) \/ InsertTileSet(p) \/ DemoteLatest(p)
  \/ PromoteLatest(p) \/ UploadPointer(p)

-----------------------------------------------------------------------------
(* run_retention_cleanup, the tile sets *)

\* created_at < now() - retention days: another row grows old.  The window is
\* in days; assumed: no publication takes that long.
Age ==
  /\ \E ts \in Inserted :
       created[ts] = aged + 1 /\ \A p \in Publishers : publisher[p].ts # ts
  /\ aged' = aged + 1
  /\ UNCHANGED <<created, removed, latest, blobs, pointer, publisher, cleaner, faults>>

\* Rows of the same version before ts in ORDER BY created_at DESC: its
\* retention_rank is one more than their number.
Newer(ts) ==
  {n \in Inserted \ removed : Version[n] = Version[ts] /\ created[n] > created[ts]}

\* Defect: the newest tile set counts as one of the protected prior ones.
StaleOffByOne(ts) ==
  /\ created[ts] \in 1..aged
  /\ ts # latest
  /\ Cardinality(Newer(ts)) + 1 > ProtectedPrior

Stale(ts) ==
  /\ created[ts] \in 1..aged
  /\ ts # latest
  /\ Cardinality(Newer(ts)) + 1 > ProtectedPrior + 1

\* select_tile_set_retention_candidates: ORDER BY created_at LIMIT
Candidates == {ts \in Inserted \ removed : Stale(ts)}
Batch ==
  {ts \in Candidates : Cardinality({o \in Candidates : created[o] < created[ts]}) < BatchLimit}

CleanerAt(c, pc) == cleaner[c].pc = pc
CleanerGoto(c, pc) == cleaner' = [cleaner EXCEPT ![c].pc = pc]

SelectCandidates(c) ==
  /\ CleanerAt(c, "idle")
  /\ Batch # {}
  /\ cleaner' = [cleaner EXCEPT ![c].pc = "list", ![c].todo = Batch]
  /\ UNCHANGED <<created, removed, latest, aged, blobs, pointer, publisher, faults>>

\* Defect: only the first page of a longer listing is deleted.
ListTilesOnePage(c, ts) ==
  /\ CleanerAt(c, "list")
  /\ ts \in cleaner[c].todo
  /\ \E listed \in SUBSET TileListing(ts) :
       /\ Cardinality(listed) <= 1
       /\ cleaner' = [cleaner EXCEPT ![c] =
            [pc |-> "tiles", ts |-> ts, left |-> listed, todo |-> cleaner[c].todo \ {ts}]]
  /\ UNCHANGED <<created, removed, latest, aged, blobs, pointer, publisher, faults>>

\* list_blobs_with_prefix for the oldest candidate left.  One whose listing
\* exceeds the limit is skipped.
ListTiles(c, ts) ==
  /\ CleanerAt(c, "list")
  /\ ts \in cleaner[c].todo
  /\ \A o \in cleaner[c].todo : created[ts] <= created[o]
  /\ cleaner' = [cleaner EXCEPT ![c] =
       IF Cardinality(TileListing(ts)) > TileBlobLimit
       THEN [cleaner[c] EXCEPT !.todo = cleaner[c].todo \ {ts}]
       ELSE [pc |-> "tiles", ts |-> ts, left |-> TileListing(ts),
             todo |-> cleaner[c].todo \ {ts}]]
  /\ UNCHANGED <<created, removed, latest, aged, blobs, pointer, publisher, faults>>

DeleteTile(c, t) ==
  /\ CleanerAt(c, "tiles")
  /\ t \in cleaner[c].left
  /\ DeleteBlob(cleaner[c].ts, t)
  /\ cleaner' = [cleaner EXCEPT ![c].left = @ \ {t}]
  /\ UNCHANGED <<created, removed, latest, aged, pointer, publisher, faults>>

\* Defect: a missing manifest is an error.
DeleteManifestOnce(c) ==
  /\ CleanerAt(c, "tiles")
  /\ cleaner[c].left = {}
  /\ Manifest \in blobs[cleaner[c].ts]
  /\ DeleteBlob(cleaner[c].ts, Manifest)
  /\ CleanerGoto(c, "mark")
  /\ UNCHANGED <<created, removed, latest, aged, pointer, publisher, faults>>

DeleteManifest(c) ==
  /\ CleanerAt(c, "tiles")
  /\ cleaner[c].left = {}
  /\ DeleteBlob(cleaner[c].ts, Manifest)
  /\ CleanerGoto(c, "mark")
  /\ UNCHANGED <<created, removed, latest, aged, pointer, publisher, faults>>

\* mark_tile_set_retention_deleted: no row updated is an error that ends the
\* run, whatever is left to do.
MarkRemoved(c) ==
  LET ts == cleaner[c].ts IN
  /\ CleanerAt(c, "mark")
  /\ \/ /\ ts # latest /\ ts \notin removed
        /\ removed' = removed \cup {ts}
        /\ cleaner' = [cleaner EXCEPT ![c].pc = "list", ![c].ts = NoTileSet]
     \/ /\ ts = latest \/ ts \in removed
        /\ UNCHANGED removed
        /\ cleaner' = [cleaner EXCEPT ![c] = IdleCleaner]
  /\ UNCHANGED <<created, latest, aged, blobs, pointer, publisher, faults>>

FinishCleanup(c) ==
  /\ CleanerAt(c, "list")
  /\ cleaner[c].todo = {}
  /\ cleaner' = [cleaner EXCEPT ![c] = IdleCleaner]
  /\ UNCHANGED <<created, removed, latest, aged, blobs, pointer, publisher, faults>>

\* A failed statement or request ends the run as well (`?`), as death does.
CleanerFails(c) ==
  /\ ~CleanerAt(c, "idle")
  /\ faults < MaxFaults /\ faults' = faults + 1
  /\ cleaner' = [cleaner EXCEPT ![c] = IdleCleaner]
  /\ UNCHANGED <<created, removed, latest, aged, blobs, pointer, publisher>>

CleanerStep(c) ==
  \/ SelectCandidates(c)
  \/ \E ts \in TileSets : ListTiles(c, ts) \/ \E t \in TilesOf[ts] : DeleteTile(c, t)
  \/ DeleteManifest(c) \/ MarkRemoved(c) \/ FinishCleanup(c)

-----------------------------------------------------------------------------

Next ==
  \/ \E p \in Publishers, ts \in TileSets : StartPublishing(p, ts)
  \/ \E p \in Publishers : PublisherStep(p) \/ PublisherFails(p)
  \/ \E c \in Cleaners : CleanerStep(c) \/ CleanerFails(c)
  \/ Age

Spec == Init /\ [][Next]_vars

\* Publications and cleanups under way go on, the operator keeps scheduling the
\* cleanup, and time passes.
Fairness ==
  /\ \A p \in Publishers : WF_vars(PublisherStep(p))
  /\ \A c \in Cleaners : WF_vars(CleanerStep(c))
  /\ WF_vars(Age)

LiveSpec == Spec /\ Fairness

-----------------------------------------------------------------------------
(* Properties *)

Blobs(ts) == TilesOf[ts] \cup {Manifest}
AllBlobs == UNION {Blobs(ts) : ts \in TileSets}

\* Every variable keeps its type.
TypeOK ==
  /\ created \in [TileSets -> 0..Cardinality(TileSets)]
  /\ removed \subseteq Inserted
  /\ latest \in Inserted \cup {NoTileSet}
  /\ aged \in 0..Cardinality(TileSets)
  /\ blobs \in [TileSets -> SUBSET AllBlobs]
  /\ \A ts \in TileSets : blobs[ts] \subseteq Blobs(ts)
  /\ pointer \in Inserted \cup {NoTileSet}
  /\ publisher \in [Publishers ->
       [pc : {"idle", "tiles", "insert", "promote", "commit", "pointer"},
        ts : TileSets \cup {NoTileSet}, left : SUBSET AllBlobs,
        seen : TileSets \cup {NoTileSet}]]
  /\ cleaner \in [Cleaners ->
       [pc : {"idle", "list", "tiles", "mark"},
        ts : TileSets \cup {NoTileSet}, left : SUBSET AllBlobs, todo : SUBSET TileSets]]
  /\ faults \in 0..MaxFaults

\* A row that may go: it has outlived the window, is not the latest, and the
\* protected number of newer ones of its version, plus one, is still there.
Expendable(ts) ==
  /\ created[ts] <= aged
  /\ ts # latest
  /\ Cardinality(Newer(ts)) > ProtectedPrior

\* "Latest plus two prior tile sets per classification version are protected"
\* and "Latest tile sets are not retention-deleted": a published tile set is
\* marked, or lacks a blob, only if it is expendable - although the cleaner acts
\* on candidates it selected before other publications, promotions and cleanups.
\* A cleanup that stopped midway therefore leaves a row the next one selects.
OnlyExpendableLoseBlobs ==
  \A ts \in Inserted : ts \in removed \/ blobs[ts] # Blobs(ts) => Expendable(ts)

\* "marks stale whole tile sets ... only after selected tile blobs and the
\* immutable manifest have been deleted or found missing": a marked row, which
\* nothing selects again, has no blob left (execute_tile_set_cleanup).
RemovedLeavesNothing ==
  \A ts \in removed : blobs[ts] = {}

\* The catalogue that clients see: a tile set enters it with its row.
Catalog == INSTANCE TileCatalog WITH
  whole <- {ts \in Inserted : blobs[ts] = Blobs(ts)}

\* Publishers and cleaners together keep the promises of the catalogue: a tile set
\* is whole when it enters, and the step that takes its first blob is taken only
\* while it is expendable, however long ago it was selected.
ImplementsCatalog == Catalog!Spec

\* "[latest.json] must point only to a retained immutable manifest".
PointerIsServed ==
  pointer # NoTileSet => Manifest \in blobs[pointer]

\* A stale tile set is eventually deleted, whichever runs stopped midway and
\* although others have too many tiles to be deleted ("rerunning should not fail
\* because an already-selected blob is gone").
StaleIsRemoved ==
  \A ts \in TileSets :
    ts \in Inserted /\ Expendable(ts) /\ Cardinality(TilesOf[ts]) <= TileBlobLimit
      ~> ts \in removed

=============================================================================
