# LumenHorizon in TLA+

This directory specifies and checks the backend of LumenHorizon: how a VIIRS granule is ingested, queued,
processed into map tiles, published, served and finally cleaned up, by services that share nothing but PostgreSQL,
Azure Blob Storage and an Azure Queue. Section 1 is the inventory of the system, section 2 how the specification is
split and why, section 3 the modules, section 4 the runs of TLC, section 5 the proofs, section 6 what is left out.
`PROJECT.json` holds the same information in detail: components, the source lines behind every definition, the
runs, the defects, the hazards, the theorems.

## 1. Inventory

### 1.1 Components

| Component (`src/backend/...`) | State it keeps | Operations | Model |
| --- | --- | --- | --- |
| `ingest-svc` pipeline: `jobs/pipeline.rs`, `jobs/ingest_log.rs`, `jobs/validation.rs` | `ingest_log` rows, raw blobs, outbox records | `ingest`: insert, download, upload, mark, validate, outbox, enqueue, mark, complete | `IngestPipeline` |
| `ingest-svc` recovery: `jobs/recovery.rs` | the same tables | `recover-ingest`, `replay-rejected` | `IngestPipeline` |
| `ingest-svc` discovery: `cmr.rs`, `jobs.rs` | resume point = newest row that is neither failed nor rejected, per product | page through CMR newest first; limit | `Discovery` |
| `ingest-svc` internal endpoint: `server.rs` | none | check the service token, acknowledge | `AdminRequests` |
| `processing-svc` worker: `process/*`, `db.rs` | `processing_log`, the queue and its dead letters | `worker`, `process-once` | `ProcessingWorker` |
| `processing-svc` science: `science/*` | none | classify, summarise, reject | `PixelScience` |
| `processing-svc` generation: `generate/*`, `shared/src/slippy_tiles.rs` | a pool of render jobs | plan, render in parallel, put in order | `TileGeneration` |
| `processing-svc` publication: `publish.rs`, `db.rs` | `tile_sets`, tile and manifest blobs, `manifests/latest.json` | upload, insert, promote, move the pointer | `TileSetPublication` |
| `processing-svc` retention: `retention.rs`, `db.rs` | the same, raw blobs, `retention_cleanup_events` | select, list, delete, mark | `TileSetPublication` (tile sets), `ProcessingWorker` (raw blobs) |
| `api-gateway` public reads: `server/routes.rs`, `storage.rs`, `db.rs` | none | latest manifest (pointer, then manifest), manifest by id, tile redirects, offset pages | `TileReads` |
| `api-gateway` admin routes: `server/routes.rs`, `server/middleware.rs`, `audit.rs` | none | read lists, trigger an ingest, requeue; audit | `AdminRequests`, `ProcessingWorker` (requeue) |
| `api-gateway` authentication: `auth.rs` | cached signing keys | look up, refresh | `AdminRequests` |
| `api-gateway` rate limits: `rate_limit.rs` | counters per key and window (memory or Redis) | increment and compare | `RateLimiting` |
| configuration of the three services: `config.rs` | fixed at start | parse or refuse to start; wire; report readiness | `ServiceConfig` |
| `shared` retry: `http_retry.rs` | none | resend after timeouts, 408, 429, 5xx | its effects, in every module |
| `db-migrate` | the schema | run migrations | its constraints, in every module |
| servers, signing, HDF tools, observability, app | none that matters between requests | | not modelled |

### 1.2 How they interact

    CMR/Earthdata -> ingest ---- ingest_log, outbox, raw blobs ---- recover-ingest / replay-rejected
                        \                       |                       /
                         \              retention-cleanup              /
                          `----> queue viirs-processing <-------------'  <---- gateway requeue <---- admin
                                      |                                        gateway trigger --> ingest-svc
                                   worker ---- processing_log
                                      |-------> dead-letter queue
                                      |
                        tiles, manifest, tile_sets, latest.json ---- retention-cleanup
                                      |
                                   gateway ----> app

No transaction spans two of these stores, and only the promotion of a tile set spans two statements. Everything
else is a sequence of independent statements and requests, each of which can fail, take effect and be reported
as failed, or be the last thing a process does.

### 1.3 What is hard

- *Interleaving.* `recover-ingest` selects rows a live `ingest` is working on (`ingest_log.rs:199` has no age
  condition), all status updates are by id and unconditional, so the last writer wins. Workers overlap once
  processing outlasts the visibility timeout. Cleanups and publications act on selections made earlier. Key
  refreshes of the gateway hold no lock while they are under way.
- *Partial failure and crashes.* Between any two statements. Which rows can recovery still find?
- *Delivery.* Enqueues are at least once, receives are retried, pop receipts go stale, messages come back.
- *Limits.* Outbox attempts, dequeue counts, protected tile sets, batch and listing limits, rate limits, render
  jobs, each with a boundary.
- *Agreement.* Two services decide independently which tiles exist, which queue and container they share, and
  which token one shows the other.
- *Numbers.* Tile edges, rounding to the raster, samples narrowed from `f32` to `u8`.
- *Progress.* Every message must leave the queue; every stale tile set and raw blob must go; recovery must not
  strand rows.

### 1.4 What makes each component correct

- Ingest: nothing is queued that was not stored and validated (or replayed by an operator); success is recorded
  only after the message is on the queue; one pending outbox record per row; settled records stay settled;
  recovery strands nothing.
- Discovery: no granule is left behind, except what a run gave up; rejected rows do not advance the resume point.
- Worker: a message is deleted only when its granule is settled; attempts, and so tile sets, belong to one
  delivery; a row links only to a published tile set; exhausted messages, and no others, are dead-lettered;
  every message settles.
- Generation: the planned tiles in the planned order, which show the whole granule and no pixel that the quality
  gate would not count; never more renders than allowed.
- Publication and retention: the latest and the protected prior tile sets keep all their blobs; a row marked as
  removed leaves nothing behind; the pointer names a manifest that exists; stale tile sets go.
- Reads: a client is turned away only from tile sets the retention policy has given up; a walk through the list is
  complete. Rate limits: at most the allowance per window, and no refusal before it is spent.
- Admin: retired keys fade, current keys are known; what an administrator is told of a write, and what the audit
  trail says of it, is true, and the trail misses no write but those whose handler was dropped; services configured
  alike understand each other; a gateway is ready when it has what its routes need. The plans ask for more: section 4
  lists where the code stays behind them.

## 2. How the specification is split

    IngestPipeline            Discovery               ProcessingWorker          PixelScience
         |                        |                         |                        |
    IngestPipeline_proofs    Discovery_proofs    ProcessingWorker_proofs        TileGeneration
                                                                                     |
                                                                          TileGeneration_proofs

    TileCatalog <--implements-- TileSetPublication --extended by--> TileReads        ServiceConfig
                                                                        |            /         \
                                                          TileReads_proofs   RateLimiting     AdminRequests
                                                                                 |                |
                                                                     RateLimiting_proofs  AdminRequests_proofs

`TileReads_proofs` holds the theorems about `TileSetPublication` as well, and `RankLemmas` what three of these modules
need of places in an order.

One module per component with state. Components meet in a module where one reads what another writes while both
are at work: recovery and ingest in `IngestPipeline`; workers, the requeue route and the cleanup of raw blobs in
`ProcessingWorker`; publication and the cleanup of tile sets in `TileSetPublication`; these two and the gateway's
readers in `TileReads`; gateway, ingest service and identity provider in `AdminRequests`. Elsewhere the hand-over is
narrow, and each side allows whatever the other may do: `IngestPipeline` lets a run discover any granule at any time,
`ProcessingWorker` receives messages in any order and number, and `TileSetPublication` publishes any tile set not
published yet. `TileCatalog` is the abstract specification between publication and readers: what clients may rely on,
whoever publishes and cleans up. `TileSetPublication` is shown to implement it, by TLC and by proof.

Every module takes its processes, granules, limits and numbers of faults as CONSTANTS with named assumptions,
has one action per statement or request, and declares no RECURSIVE operator. The `MC` modules add constants and
symmetry sets for TLC, nothing else.

What would come next: an abstract at-least-once hand-over between `IngestPipeline` and `ProcessingWorker`.

## 3. The modules

### 3.1 `IngestPipeline`

Models `process_granule_inner`, `run_recovery`, `replay_rejected_granule` and `enqueue_pending_outbox` for a set of
`Granules`, with `Runs` executing `ingest` and `Recoverers` executing the other two commands, all at once.

| Variable | Code |
| --- | --- |
| `status[g]` | `ingest_log.status`; "absent" before `insert_downloading_row`. The unique constraint gives a granule at most one row, so the granule stands for its `ingest_id` |
| `outbox[g]` | the row's `ingest_recovery_outbox` records, status and attempts; the index stands for the id |
| `raw[g]` | what the raw blob container holds: nothing, bytes that `validate_raw_granule_bytes` accepts, bytes it rejects |
| `emitted[g]` | how many processing messages were put on the queue |
| `replayed` | history: granules an operator replayed |
| `ingest[r]`, `recover[p]` | program counter and local variables (granule, bytes in memory, `outbox_id`; the rows and records selected and not yet worked through) |
| `faults` | how many requests or statements have failed and processes have died |

An action is one statement or request together with the early return its failure causes: `Download`,
`UploadRaw`, `MarkDownloaded` (with the validation that follows in memory), `MarkValidated`, `CreateOutbox`,
`EnqueueMessage`, `MarkEnqueued`, `CompleteOutbox`, `MarkFailed`, `MarkRejected` for a run; `StartRecovery` (the
SELECT), `ReadRaw`, the marks, `RecoveryCreateOutbox`, `SelectOutbox`, `DrainEnqueue`, `DrainMarkEnqueued`,
`DrainCompleteOutbox`, `DrainFailOutbox`, `ReplayRejected` for a recoverer. A run that fails gives up its granule
and goes on to the next; a recoverer that fails ends (`?`). A failing write may have taken effect. A crash
(`RunCrash`, `RecovererCrash`) may come between any two steps.

Abstractions: the bytes of a granule are one bit; error messages, summaries and logs are left out; the `LIMIT 100`
of the two SELECTs is larger than any batch here. Raw blobs are not deleted by retention.

### 3.2 `Discovery`

Models `run_ingest_inner` up to the point where a granule is taken, with `CmrClient::discover` and the resume point
query, for several `Runs` beside a CMR catalogue that grows.

| Variable | Code |
| --- | --- |
| `catalog` | what CMR has published; the listing is recomputed for each page, so publications move the page boundaries |
| `row[g]` | no row, a row that counts for the resume point, a row that is ignored (failed, rejected) |
| `run[r]` | program counter, resume points, product and page number, granules found and not yet taken |
| `passed` | history: granules published after a newer one of their product, or given up by a run (cut off by the limit, lost to an insert error or to its death) |

`FetchPage` is one request: the page at a position of the listing sorted by date, the entries that parse, and whether
`should_fetch_next_page` asks for another; after the last page of the last product the limit cuts the list.
`TakeGranule` is `insert_downloading_row` for the next granule. `StatusChange` stands for all that `IngestPipeline` and
an operator do to a row. `INGEST_MAX_GRANULES` is a constant of each run, 0 for unset.

Not claimed: the granules of one product are in order within a run's list only as long as fewer than a page of them is
published between two requests.

### 3.3 `ProcessingWorker`

Models `process_once_with_queue` with everything it calls, `dispatch`'s loop around it, the gateway's
`requeue_processing_item` and the raw-blob half of `run_retention_cleanup`, for a set of queue messages and `Workers`.

| Variable | Code |
| --- | --- |
| `queue[m]` | unsent, visible, hidden or deleted, and the dequeue count. A receive invalidates older pop receipts, so the count also stands for the receipt |
| `log[g]` | `processing_log`: status, attempts, `tile_set_id` (as the attempt that made it, 0 for NULL) |
| `tileSets` | `tile_sets`, as pairs of ingest and attempt: what `tile_set_id_for_message` is made from |
| `dlq` | bodies in the dead-letter queue |
| `requeues` | messages of requeue requests between the status check and the enqueue: as many at once as `RequeueMessages` has |
| `verdict[g]` | what becomes of the granule, chosen once: its message is malformed, it has no `ingest_log` row (orphan), its bytes are unreadable, the gate finds it cloudy or clear, or a tile planned for it has no window (the granules of `TileEdge`) and its generation fails every time |
| `raw`, `cleaned`, `cleanup` | raw blobs that exist, ingests with a `retention_cleanup_events` row, and the one whose deletion the cleanup is about to record |
| `worker[w]` | program counter, message, receipt, attempt |

Actions: `Receive` (with parsing), `Start` (`upsert_processing_started`), `Work` (download to quality gate),
`Publish`, `MarkProcessed`, `MarkRejected`, `MarkFailed`, `MarkDeadlettered`, `Deadletter` (the copy), `Delete`,
`Crash`; `RequeueCheck`, `RequeueSend`; the cleanup's `DeleteRaw` (with its selection) and `RecordRaw`; and the queue
itself: `VisibilityExpires`, `ReceiveLost` (a served receive whose answer was lost). A visibility timeout that passes
while a worker still has the message in hand counts as a fault, which bounds how often a worker is late. A worker
whose iteration fails exits and is started again. An update of `processing_log` that finds no row changes nothing and
reports no error, as in `db.rs`: the row is missing when `upsert_processing_started` itself failed.

### 3.4 `PixelScience` and `TileGeneration`

`PixelScience` holds the pure rules: how samples are narrowed (`AsU16`, `QualityFlag`), how radiance, quality flag,
cloud mask and observation count classify a pixel, what the quality summary counts and when the gate turns a granule
down, and which dark-sky class, and so which colour, a pixel gets. Samples are in tenths; a non-finite one keeps only
its sign.

`TileGeneration` carries a granule from the gate to its tiles. Positions are integers: west to east in `LonUnits` of a
full circle, north to south in `LatUnits` of the Mercator axis, both fine enough for every tile edge in use to be a
position, which is what the arithmetic of ranges and edges turns on. Rows of granules and latitudes grow southwards
with the position, which is all the model knows of the projection.

| Variable | Code |
| --- | --- |
| `phase`, `granule` | where `process_parsed_message_with_workspace` is, and with which granule |
| `jobs`, `next` | `tile_render_jobs` and `next_job` |
| `pool`, `running`, `finished` | the `JoinSet`: spawned jobs, those whose blocking thread runs, those that are done |
| `tiles`, `tileSet` | the joined tiles in order of completion; the result with its count and bounds |
| `orphans` | blocking threads whose tile set was given up: an aborted task does not stop its thread |

Actions: `InspectFails` and `QualityGate`; `OutsideConfiguredBounds` and `PlanJobs`; `Spawn`, `StartRender`,
`RenderTile`, `JoinRendered`, `JoinError`, `FinishTileSet`; `OrphanFinishes`, `NextGranule`. `ClipBounds`,
`TileRange`, `TileBoundsOf`, `RasterWindow` and `PlannedCoords` are the functions of `slippy_tiles.rs`, `planning.rs`
and `window.rs`: `PlannedCoords` puts each planned tile at the place given by the number of tiles planned before it,
by zoom, column and row, which is what the nested loops of `tile_render_jobs` do. `Redirects` is what the gateway
concludes from the manifest. As in the code, the gate samples a window of two by two pixels at the corner of the
raster, not the granule.

### 3.5 `TileCatalog` and `TileSetPublication`

`TileCatalog` is the promise: a tile set enters the catalogue whole and in one step, one whole tile set at a time is
promoted, and a tile set is withdrawn only while it is expendable, for good.

`TileSetPublication` models `publish_generated_tile_set` and the tile-set half of `run_retention_cleanup`, with
`Publishers` and `Cleaners` at work at once.

| Variable | Code |
| --- | --- |
| `created[ts]` | order of `tile_sets.created_at`, 0 without a row |
| `removed` | rows with `retention_deleted_at` |
| `latest` | the row with `latest = true`: at most one, by `idx_tile_sets_latest_one` |
| `aged` | rows created up to here have outlived the retention window |
| `blobs[ts]` | tiles and manifest in the container |
| `pointer` | what `manifests/latest.json` names |
| `publisher[p]`, `cleaner[c]` | program counters and what is left to upload, delete or go through |

Promotion is two steps. `DemoteLatest` is the first UPDATE, which sees the row that is latest when it starts;
`PromoteLatest` is the second UPDATE with COMMIT, which the unique index turns down if another promotion has
committed in between. `Newer` and `Stale` are the ranking and the WHERE clause of
`select_tile_set_retention_candidates`; `Batch` its ORDER BY and LIMIT. `ListTiles` skips a tile set whose listing
exceeds the limit. A deletion of a missing blob succeeds. `MarkRemoved` ends the whole run when no row was
updated. `PublisherFails` and `CleanerFails` may stop a process after any step.

The refinement mapping is short: `created`, `removed`, `latest` and `aged` are the catalogue's own, and `whole` is the
set of rows with all their blobs. `InsertTileSet` is `Enter`, the commit of a promotion `Promote`, the first deletion
of a blob `Withdraw`, the mark `Remove`; everything else stutters.

Assumption: a tile set's publication takes less time than the retention window, which is counted in days, so a
row does not age while its publisher is still at work. Attempts make ids unique, so no tile set is published twice.

### 3.6 `TileReads`

Extends `TileSetPublication` with clients of the gateway. `read[c]` is the request a client waits for and its answer,
`walk[c]` the walk through the list it is in, with what was there when it began. `LatestTileManifest` reads the
pointer, `ReadManifest` the manifest it named; `TileManifestById` and `TileRedirect` begin with an id; the redirect is
decided by the manifest alone, and `FetchTile` follows it whenever the client pleases. `ListTileSets` is one page by
offset, in the order of the query, which promotions change. `StorageReadFails` may answer any read, with 503; it
says nothing of the tile set, and `UnservedIsExpendable` does not count it as being turned away.

`validate_tile_set_id` accepts the word "latest" as an id, which then names no manifest; the model's id that names
nothing stands for it.

### 3.7 `ServiceConfig`, `RateLimiting`, `AdminRequests`

`ServiceConfig` has the parsers of the three services as predicates and records over an environment, which gives
every variable at most one value: `GatewayAccepts`, `IngestAccepts`, `ProcessingAccepts` with what each yields, `Wired`
(the clients `AppState::new` makes) and `Unavailable` (what the readiness probe reports). Text that a parser turns down
is one value, `Malformed`; where no parser looks, the client does: `Wired` leaves out a client that does not build, over
a database URL, a queue name, a storage account or emulator host (`EndpointParses`) or a token with control characters
(`Unprintable`), and `Unfit` names the variables that did it.

`RateLimiting` takes requests of several clients through the gateway's middleware at several replicas: hardening
checks (`TurnDown`), the limiter (`Limit`, with the counter of Redis or of the replica, or an error), the handler
(`Handle`) under its route's timeout. `counters` maps each store and key to its window. The configuration the replicas
run with is what `ServiceConfig` makes of the environment.

`AdminRequests` takes an admin request from its token to its audit record: `ReadCachedKeys`, `FetchKeys` and
`StoreKeys` (no lock is held between them), the limiter's verdict, the read, trigger and requeue handlers, the call to
the ingest service (`IngestReceives`, with its token check) or to the queue, and `FinishWrite`; `TimeOut` drops the
handler wherever it is. `IngestAnswers` follows the token through its header: under a header that the gateway has set
already (`OwnHeaders`) ingest-svc reads the other value, a token beyond ASCII (`NotAscii`) it does not read, and under
a header that frames the message (`FramingHeaders`) any of its answers may come. Around it keys are published and
retired, the gateway crashes, and time passes in ticks. The two services start with environments of their own
(`deployed`), equal or not.

In both modules a tick waits until every deadline that is due has been handled: a timer is not late.

### 3.8 Defects

Operators marked "Defect" in the modules are not part of any specification. Each is a plausible bug put in
the place of one definition (a dropped guard, a missing clause, a swapped order, an off-by-one) and breaks the
property listed with it in `PROJECT.json`; every property of a passing run has one.

## 4. The runs

| Run | Instance | Shows |
| --- | --- | --- |
| `IngestRecovery` | 1 granule, 1 run, 1 recoverer, 3 attempts, 4 faults, fairness (58 thousand states) | type invariant; `OnlyVettedBytesQueued`, `DeliveryOrdered`, `OutboxConsistent`, `InvalidGoesNoFurther`, `HistoryPreserved`; `DuplicatesBounded`: an `ingest` overlapped by recoveries queues a granule up to four times without a fault; `DownloadedIsRecovered`, `DrainableIsDrained` |
| `IngestPendingLost` | as above, 2 faults | `PendingIsRecovered` is violated |
| `Discovery` | 3 granules of one product, one of them with an entry that does not parse, pages of 1, 2 runs, one limited to 1 granule, 1 fault, fairness (112 thousand states) | `NoHoles`, `OnlySuccessOvertakes` |
| `WorkerRedelivery` | 1 ingest of any verdict, its message and a requeue of it, the raw-blob cleanup, 2 workers, 2 deliveries, 1 fault, fairness (102 thousand states) | type invariant; `DeletedMeansSettled`, `AttemptsAreExclusive`, `LinkedMeansPublished`, `OnlyClearIsPublished`, `OnlyExhaustedIsDeadlettered`; `MessagesSettle`, `RawBlobsExpire` |
| `WorkerIdempotence` | 1 ingest queued twice, 2 workers, no fault | `ProcessingIsIdempotent` is violated |
| `RetentionRace` | 3 tile sets, one of them oversized, 2 publishers, 2 cleaners, nothing but the latest protected, batch of 2, 1 fault, fairness (174 thousand states) | type invariant; `OnlyExpendableLoseBlobs`, `RemovedLeavesNothing`; `ImplementsCatalog`, the refinement; `StaleIsRemoved` |
| `PublicationPointerLost` | 4 tile sets, 2 publishers, 1 cleaner, 2 protected (the default), 1 fault | `PointerIsServed` is violated |
| `TileReads` | 3 tile sets, the first with the newest date, 1 client, 2 publishers, 1 cleaner, pages of 1, 1 fault (4.1 million states) | `UnservedIsExpendable`, `WalksAreComplete` |
| `TileGeneration` | 17 granules outside of, cut by and within the bounds, zooms 1 to 3, a raster of 7 by 7, 2 renders at a time, 2 failures, every 2-by-2 window over four kinds of pixels (6 thousand states) | `GeneratedIsPlan`, `RedirectsAreRendered`, `WindowsCutTheRaster`, `RendersBounded`; `VisiblePixelsAreVetted` and `GateCountsWhatTilesShow` over 3 products and all border values of samples |
| `TileEdge` | three granules, the second of which ends on a tile edge | `PlannedTilesHaveWindows` is violated |
| `RateLimiting` | 3 requests of 2 clients for 3 routes, 2 replicas, a window of 2 ticks, 1 crash; every combination of runtime environment, backend and Redis URL (1.3 million states) | `LimitHolds`, `RefusalsAreDue` |
| `AdminRequests` | 2 requests with old and new keys, cache of 1 tick, timeout of 1, 3 ticks, 1 crash; deployments in which every variable is unset, malformed or changed, the token among them to one that is no header or no text and its header to one that the call uses itself, and mismatched pairs (6.8 million states) | `RetiredKeysFade`, `CurrentKeysAreKnown`, `AnswersAreTrue`, `TriggerIsAuthorised`, `ServicesMeet`, `ReadyMeansWired` |

The invariants `TypeOK` of `Discovery`, `TileGeneration`, `RateLimiting` and `AdminRequests` hold on the instances of
these runs as well; the configurations list only the properties that say more. Those of the first two are proved.

### Bounds

- `IngestRecovery`: one granule suffices because rows of different granules share only the order in which a process
  takes them. One run and one recoverer at a time, because two recoverers can feed each other, each picking up what
  the other marks back, and no number bounds the messages then. The proofs of section 5 allow any number of
  everything, and for `DuplicatesBounded` any number of runs. Four faults are more than the attempts of an outbox
  record.
- `Discovery`: three granules with pages of one make every page boundary move, and put an entry that does not parse
  between two that do.
- `WorkerRedelivery`: two deliveries reach the dead-letter queue with a redelivery before it; the races are between two
  statements of one worker and any statements of another, of a requeue or of the cleanup. More workers, messages and
  faults: section 5.
- `RetentionRace`: two publishers race for one promotion, two cleaners for one candidate; with nothing protected but
  the latest, three tile sets give two candidates at once, one of them with more tiles than the listing limit.
- `TileReads`: the hazards are between two reads of one client, so one client is enough; three tile sets in pages of
  one leave a cursor between two that change places.
- `TileGeneration`: granules lie across a cut of the bounds and across tile edges at every zoom, in both directions; 7
  is odd, so window edges fall between pixels; a pool of two is left by a thread that runs on.
- `RateLimiting`: an allowance of one, so that three requests exceed twice the allowance; two ticks cross the boundary
  of a window. That one client gets twice an allowance of several through across a boundary does not happen with an
  allowance of one: the theorem `LimitsHold` covers it, for every allowance. `AdminRequests`: one key comes, one goes,
  and two requests fetch keys in either order; three ticks are more than the cache time and one timeout together.

Runs say `CHECK_DEADLOCK FALSE` where the instance comes to rest: all messages deleted, all tile sets published, all
requests answered, the last tick passed. The instances of `IngestPipeline`, `Discovery` and `TileGeneration` never do.

### Fairness

`IngestPipeline`: a process that has started keeps going, which any scheduler gives it, and the operator runs
`recover-ingest` again and again (`docs/DEVELOPER_GUIDE.md`, `justfile`). Discovering or replaying a granule is never
forced. `Discovery`: the same, with `ingest` scheduled again and again, at least by one run without a limit; with a
limit alone it may stop at granules that have rows already, which count for the limit. `ProcessingWorker`: workers
keep going and are restarted when they exit; a hidden message becomes visible when its timeout has passed; the cleanup
is scheduled again and again and rows grow old. No requeue and no ingest is forced. `TileSetPublication`: processes
keep going, cleanup is scheduled again and again, time passes. Weak fairness on each process as a whole is enough: no
action of a process waits for a condition that another keeps taking away. Faults are bounded, so they stop eventually;
that is what "eventually" means in the liveness properties. `TileReads`, `TileGeneration`, `RateLimiting` and
`AdminRequests` are checked for safety alone, and state no fairness.

### Where the code and its documentation differ

| Run | Documented | What the code does |
| --- | --- | --- |
| `IngestPendingLost` | `plans/backend/50-ingestion-service.md:11`: `recover-ingest` is to "Recover downloaded/validated rows and pending enqueue outbox records." | a failed enqueue marks the row failed; its pending record is then never selected |
| `WorkerIdempotence` | `50-ingestion-service.md:37`: "Queue emission is at least once; processing idempotency is required downstream." | each message of an ingest makes a tile set of its own, also after the first has been processed |
| `PublicationPointerLost` | `plans/backend/reference/message-and-api-contracts.md:97`: the pointer "must point only to a retained immutable manifest" | the promotion commits before the pointer is uploaded; a publisher that dies in between leaves it at a tile set that later cleanups delete |
| `TileEdge` | `processing-svc/src/generate/planning.rs:22`: "Plans all tile ranges required to cover the requested bounds." | ranges are inclusive (`shared/src/slippy_tiles.rs:124`): bounds that end on a tile edge plan a neighbour that only touches them, for which there is no window, and the whole tile set fails. Every granule of column h08 ends at 90 degrees west |
| `AdminRequests` | `plans/backend/reference/security-and-identity.md:19`: admin routes must keep "Audit events for admin reads and writes." | `AnswersAreTrue` says which deliveries have no record: those answered 503 by the route's timeout (`middleware.rs:72`), which drops the handler, and those a death cut off. The client's timeout is the route's, so a trigger that ingest-svc does not answer always ends so. Reads and refused authentications are never audited |
| `AdminRequests` | `plans/backend/reference/configuration.md:40`: `INTERNAL_SERVICE_AUTH_HEADER` is the "Header for internal admin auth." | with x-request-id or content-type, which both parsers take, the call has two values and ingest-svc reads the gateway's own (`upstream.rs:54`): 403 for every trigger; a token beyond ASCII is 401. `TriggerIsAuthorised` says that this happens then, and only then |
| `AdminRequests` | `docs/API_GUIDE.md:93`: "Readiness reports ... database wiring, tile manifest storage, processing queue wiring, and ingest-service admin wiring." | the probe asks what is configured; `AppState::new` (`state.rs:26`) goes on without a client that fails to build. `ReadyMeansWired` says for which values that is |

The same line of `50-ingestion-service.md` speaks of validated rows; a row that stays validated without a record (a
crash between `mark_validated` and `create_pending_enqueue_outbox`) is in neither query (`ingest_log.rs:199`, `:261`).
`IngestRecovery` is the counterpart: what recovery does guarantee, of downloaded rows and of rows with a record.

The last three rows belong to a passing run: its properties state what the code does exactly, in both directions, the
disagreement included.

Six more hazards in `PROJECT.json` have no property, because no document of the repository promises anything about
them: a row that a crash leaves in `replay_pending` without a record (`ingest_log.rs:324`), limited runs that meet as
many known granules as their limit (`jobs.rs:96`), oversized tile sets that fill the cleanup's batch (`processing-svc`
`db.rs:181`), blobs of a publication that died before its row (`publish.rs:72`), a late failure that overwrites the
status of a newer success (`processing-svc` `db.rs:343`), and a walk through the list of tile sets while one is promoted
or removed (`api-gateway` `db.rs:84`). The actions do in each case what the code does.

## 5. The proofs

Every invariant and every action property that a run checks, and the refinement, is proved here for any sets of
processes and data and any number of faults. Seven modules hold the proofs of the components; an eighth, `RankLemmas`,
counts: in a finite set with a strict total order, the number of smaller elements tells the elements apart and takes
every value below the size of the set (`RanksApart`, `RanksFill`). Positions in CMR's listing, places in the list of
tile sets and places in the plan of a tile set are such numbers.

**`IngestPipeline_proofs`**: every safety property of `IngestRecovery`. Assumptions: `NoGranuleAssumption` (the idle
value is not a granule), `AttemptsAssumption` (at least one attempt; the code has three), `FaultsAssumption` (the
bound is a number).

- `Typing` is `Spec => []TypeOK`. TypeOK also says that a working process has a granule, without which a status
  update would not be typed.
- `Vetting` is `Spec => []IInv`. None of the properties is inductive alone: that a message is queued only for vetted
  bytes depends on what each process checked several steps earlier, and on nobody having undone it since. `IInv`
  adds, per granule (`GranuleOK`), what each status and a non-empty outbox say about the stored bytes; per run
  (`RunOK`) and recoverer (`RecovererOK`), what it has established at each program point and for the records it has
  selected; and that two runs never have one granule (`RunsApart`), which is what the unique constraint is for.
  The proof goes process by process: `Grows` collects what no step takes back (a row stays, stored bytes stay as
  they are, a non-empty outbox stays non-empty, the number of messages does not fall). A step
  keeps the invariant of every process it does not belong to because of `Grows` alone, and its own by its guard.
- `OnlyVettedBytesAreQueued`, `DeliveryIsOrdered` and `InvalidStops` follow from `IInv`.
- `OutboxIsConsistent` and `HistoryIsPreserved` rest on one lemma: a step leaves a granule's records as they
  are or does to them what one of the three SQL statements does (`OutboxMoves`), and what a statement makes of a
  record follows from the record it finds (`RecordMoves`).
- `DuplicatesAreBounded` assumes `OneRecoverer`, for the reason given under the bounds: `recover-ingest` must not
  overlap itself, but is started as often as the operator likes, beside any number of runs. That four messages are
  enough is a matter of accounting. A granule has a `Ticket` while its row is where recovery looks, or the recoverer
  has it in hand and has not queued it; a run on the granule has what is `Left` of the three times it may still hand
  out a ticket or queue the granule itself. `DupInv` says that messages, ticket and what is left stay within four and
  the faults: a message uses up the ticket or what the run has left, a run that hands out a ticket has one less left,
  and whatever happens twice is a fault. `SelectionOK` adds that the recoverer never holds two records of one granule.

**`ProcessingWorker_proofs`**: every safety property of `WorkerRedelivery`: `Typing`, `DeletedIsSettled`,
`AttemptsAreApart`, `LinksAreGood`, `OnlyClear`, `OnlyExhausted`. Assumptions: `BodyAssumption` (every message has the
body of an ingest), `DistinctAssumption` (idle value, ingest and requeue messages are different things),
`CountsAssumption` (limits are numbers, and a message may be delivered at least once).

- `Handling` is `Spec => []IInv`. It says of every message that its deliveries are within the limit or paid for by
  faults (`QueueOK`), where one that a worker still holds counts; of every worker what it knows at its program point
  (`WorkerOK`): which attempt it recorded, what the gate said, that its receipt is not newer than the queue's count; of
  every ingest who may have a row and be dead-lettered (`RowsOK`); and the properties themselves.
- The difficult one is `DeletedMeansSettled`: a worker deletes at the end of a long path, and must still be right
  although another worker has overwritten the row meanwhile. `SettledStays` collects why it is (attempts do not fall,
  tile sets and dead letters stay), and `WorkerStands` carries a worker through the steps of others.

**`TileReads_proofs`**: of `TileSetPublication`, `Typing`, `ExpendableOnly`, `RemovedIsGone` and the refinement
`Implements`: `Spec => Catalog!Spec`; of `TileReads`, `UnservedAreExpendable` and `CompleteWalks`. Assumptions:
`TileSetsAssumption` (finitely many tile sets, and the idle value is not one), `LimitsAssumption`, `ReadsAssumption`.

- `Retaining` is `Spec => []IInv`. `OnlyExpendableLoseBlobs` is not inductive: a cleaner deletes what it selected long
  ago. `IInv` says that every candidate in a cleaner's hands is expendable and its listing complete (`CleanerOK`), that
  a row under promotion has not aged (`PublisherOK`), that publishers have different tile sets (`PublishersApart`), and
  that `created` numbers the rows (`Numbered`). Expendable tile sets stay so because a row is removed only while there
  are more newer ones than are protected; the lemmas on `Newer` count them.
- `Implements` takes each step to a step of the catalogue or a stutter. The first deletion of a blob needs
  `CleanerOK`, the promotion that a row's blobs are all there.
- `ReadsInvariant` is `ReadsSpec => []ReadsInv`. Of a request (`ReadOK`) it says that the tile set it has learnt of
  has a row, that a redirect leads to a tile of that set, and that one which was turned away is expendable; the steps
  of publishers and cleaners keep that because rows stay and what is expendable stays expendable (`SystemSteps`).
- Of a walk (`WalkOK`) it says that, as long as nothing was removed or promoted, every tile set listed at the
  beginning and not yet seen has its `Place` at or behind the offset. An insertion moves places back, never forward; a
  page takes the places from the offset on. To say "as long as" of a walk that has begun, what was latest then must
  not become latest a second time (`Settled`): a tile set is promoted once.

**`Discovery_proofs`**: `NothingLeftBehind`, for any catalogue, any number of runs and products, any page size and any
limits. Assumptions: `GranulesAssumption` (finitely many granules, of listed products, no two at the same place of the
listing) and `LimitsAssumption` (at least one product; its first clause is what is known of the sequence of products).

- `DiscoveryInvariant` is `Spec => []DInv`. Type correctness is part of it. A run that discovers newest first is about
  to violate `NoHoles` all the time: it holds newer granules and has not come to the older ones. `RunOK` says that
  whatever waits behind a granule it has found is found as well, or given up, or lies ahead (`Ahead`): on this page of
  the listing or a later one. Publications between two pages move the positions of what lies ahead, but only backwards
  unless something was published late, which is what `passed` records. When the last page is there, nothing lies
  ahead.
- Rows for which a run's resume point is too new are covered by `Overtaken` and the rows' own part, `RowsOK`.

**`TileGeneration_proofs`**: every invariant of the run `TileGeneration`, for any grid, zoom range, bounds, raster,
parallelism and number of failures. Assumptions: `ConfigAssumption` (what the parsers accept) and `GridAssumption`
(tile edges are positions, rows and latitudes grow southwards). Its clause that every `2^z` is a positive number is a
fact of arithmetic; the provers know nothing of exponentiation.

- `GenerationInvariant` is `Spec => []IInv`: the jobs are the plan of the granule's bounds and each has a window
  (`JobsOK`); those spawned and not joined are in the pool, within its size (`PoolOK`); the others have exactly one
  tile each (`TilesOK`); a failure leaves at most all but one thread of a pool behind (`OrphansOK`). `Typing` and
  `Bounded` follow at once.
- `PlanIsGenerated` needs that sorting undoes the order of completion: by `TilesOK` the joined tiles are a permutation
  of the jobs, and places in the plan tell them apart.
- `RedirectsFindTiles` compares the gateway's line with the planner's: both clip the same bounds and both round to
  tiles, one from the tile's edges and the other from the bounds' (`OverlapIsPlanned`).
- `RasterIsCut` is the geometry: every pixel of the bounds overlaps a cell between two positions (`Cells`), that cell
  lies in one planned tile (`CellIsPlanned`), whose window, rounded outwards, shows every pixel that overlaps it
  (`Windows`). Columns are cut by longitude and rows by latitude, which need not be in proportion to positions.
- `PixelsAreVetted` and `GateCounts` say of the pixels that the runs enumerate what `EveryVisiblePixelIsVetted` and
  `GateCountsEveryWindow` say of any pixel an `f32` file can hold and of windows of any size.

**`AdminRequests_proofs`**: the safety properties of `AdminRequests`: `KeysFade`, `KeysKnown`, `AnswersHold`,
`TriggersAuthorised`, `Meeting`, `ReadinessHolds`, for any requests, tokens, keys and deployments, any time to live
and any timeout. Assumption: `AdminAssumption` (known routes, well-formed tokens, positive timers).

- `Invariance` is `Spec => []IInv`. That a retired key fades is not inductive: keys may be cached long after they were
  fetched, and a slow refresh caches old keys over new ones. `IInv` bounds that by the deadline of the request that
  fetched them: the keys in its hands were published when it came or later (`KeysOK`), it is over at its deadline
  (`Timely`), so what is cached was the provider's at most one timeout ago (`CacheOK`). The reverse bound, on the keys
  it does not hold, gives `KeysKnown`.
- `AuditOK` says that only a request with a call behind it is delivered and only an answered one audited. With it
  `AnswersHold` covers every attempt at a call, and both ways of losing its handler.
  `AnswerSteps` and `AuditSteps` do all steps that answer a request once, and `Replaces` does what a step leaves
  alone.
- The three on configurations hold for every environment over the values that `ServiceConfig` tells apart, not only
  those the run deploys. `Meeting` and `ReadinessHolds` are about the parsers and clients alone (`ParsersAgree`,
  `ReadyHasClients`): ready and wired are the same except for the variables in `Unfit`. `TriggersAuthorised` says when
  a trigger is turned down for its token and when it is not; it also needs that what a service started with is what it
  was deployed with (`CredentialsOK`), whatever requests and crashes there were.

**`RateLimiting_proofs`**: both properties of `RateLimiting`, `LimitsHold` and `RefusalsDue`, for any number of
requests, replicas, clients and deaths, any allowance and any length of the window. Assumptions: `LimitAssumption`,
`RouteAssumption`, and `ProcessAssumption` (finitely many requests, and no replica is called "redis").

- `Counting` is `Spec => []IInv`. A window forgets what came before it, so the limit over any minute is not inductive.
  `Fits` says what a window must remember to carry it: no more than the allowance passed in it, no more in the part of
  the minute before that one minute can cover together with it, and nothing after it. `Counts` shows that counting a
  request, in the window there is or in a new one, makes room for it; `Passes` and `Refuses` do the two outcomes. That
  holds of stores whose counts are not lost (`Kept`), and `StrictMeansRedis` shows from the configuration parser that
  in staging and prod they are not.
- `Refusing` is `Spec => []DueInv`: up to the allowance, what a window has counted was spent on requests that were not
  refused (`WindowOK`), and stays so although windows are emptied by deaths (`Spending`). `RefusalsDue` follows.

The strengthened invariants were model-checked on small instances before they were proved. Model-checked only are the
liveness properties, which are out of the prover's reach: `DownloadedIsRecovered`, `DrainableIsDrained`,
`OnlySuccessOvertakes`, `MessagesSettle`, `RawBlobsExpire` and `StaleIsRemoved`.

## 6. What is not modelled

- *Formats and floating point*: the Mercator projection itself, resampling, PNG encoding, HDF and GDAL output, request
  signing, JWT signatures (an attribute of a token), the text of URLs, headers, manifests and messages. A message is named by
  its ingest, or is malformed.
- *The schedule of retries*: a request may take effect twice, or take effect and fail; when the next attempt is made is
  left out.
- *The `process-message` command*, which leaves a failed attempt in status processing, is not an action.
- *Start-up and servers* beyond what the parsers accept and how clients are wired; logs, metrics, shutdown. The site
  routes and the tile-class route answer with constants or are not implemented.
- *Running the migrations*; the constraints the code relies on are in the modules.
- *The iOS app*: a client library with value types and a cache keyed by tile; it has no part in the state above.

Clocks appear only as the order of rows, the expiry of a visibility timeout, the ageing of rows, and ticks where the
gateway counts them.
