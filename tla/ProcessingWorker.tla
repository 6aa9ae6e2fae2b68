------------------------- MODULE ProcessingWorker -------------------------
(***************************************************************************)
(* processing-svc: the queue workers.  A worker receives one message of    *)
(* the viirs-processing queue, processes the granule it names, records the *)
(* outcome in processing_log and deletes the message or moves it to the    *)
(* dead-letter queue.  Workers share nothing but the queue and the tables, *)
(* and processing may outlast the message's visibility timeout.            *)
(*                                                                         *)
(* processing_log has one row per ingest_id, so an ingest stands for its   *)
(* row; a tile set is named by the ingest and the attempt that made it.    *)
(*                                                                         *)
(* Beside the workers runs the half of the retention cleanup that deletes  *)
(* raw blobs by their age, whatever their granules wait for.               *)
(***************************************************************************)
EXTENDS Naturals, FiniteSets

CONSTANTS
  Ingests,           \* what messages say: each an ingest_id, or no message at all
  IngestMessages,    \* queue messages sent by ingest-svc
  RequeueMessages,   \* queue messages sent by the gateway's requeue route
  Body,              \* what each message says
  Workers,
  NoMessage,
  MaxDequeueCount,   \* processing_max_dequeue_count
  MaxFaults          \* bound: failed requests, dead processes, late workers

Messages == IngestMessages \cup RequeueMessages

ASSUME BodyAssumption == Body \in [Messages -> Ingests]
ASSUME DistinctAssumption ==
  /\ NoMessage \notin Messages
  /\ IngestMessages \cap RequeueMessages = {}
ASSUME CountsAssumption == MaxDequeueCount \in Nat \ {0} /\ MaxFaults \in Nat

VARIABLES
  queue,      \* per message: its state and how often it was received
  log,        \* processing_log: status, attempts, tile_set_id (0 is NULL)
  tileSets,   \* tile_sets: <<ingest, attempt>> of every published tile set
  dlq,        \* bodies that are in the dead-letter queue
  requeues,   \* messages of the requeue requests past the gateway's status check
  verdict,    \* what an ingest turns out to be, up to the quality gate
  worker,     \* local state of each worker
  raw,        \* ingests whose raw blob is stored
  cleaned,    \* ingests with an event that the blob was deleted, or missing
  cleanup,    \* the ingest, if any, whose deletion the cleanup is to record
  faults      \* faults so far

retention == <<raw, cleaned, cleanup>>
vars == <<queue, log, tileSets, dlq, requeues, verdict, worker, raw, cleaned, cleanup, faults>>

Statuses == {"processing", "processed", "rejected", "failed", "deadlettered"}
\* The message does not parse, its ingest_id has no ingest_log row, the data do not
\* validate, the quality gate turns the granule down, or a tile planned for it has
\* no window (TileGeneration).
Verdicts == {"malformed", "orphan", "unreadable", "cloudy", "windowless", "clear"}
Malformed(m) == verdict[Body[m]] = "malformed"
HasRow(g) == verdict[g] \notin {"malformed", "orphan"}

IdleWorker == [pc |-> "idle", m |-> NoMessage, receipt |-> 0, attempt |-> 0]

Init ==
  /\ queue = [m \in Messages |-> [state |-> "unsent", dequeues |-> 0]]
  /\ log = [g \in Ingests |-> [status |-> "none", attempts |-> 0, tileSet |-> 0]]
  /\ tileSets = {}
  /\ dlq = {}
  /\ requeues = {}
  /\ verdict \in [Ingests -> Verdicts]
  /\ raw = {g \in Ingests : HasRow(g)}
  /\ cleaned = {}
  /\ cleanup = {}
  /\ worker = [w \in Workers |-> IdleWorker]
  /\ faults = 0

Fault == faults < MaxFaults /\ faults' = faults + 1

-----------------------------------------------------------------------------
(* Azure Queue Storage.  Receiving hides a message until its visibility    *)
(* timeout and invalidates the pop receipts handed out before, so the      *)
(* dequeue count stands for the receipt.                                   *)

Waiting(m) == queue[m].state \in {"visible", "hidden"}
SetState(m, s) == queue' = [queue EXCEPT ![m].state = s]

SendFromIngest(m) ==
  /\ m \in IngestMessages
  /\ queue[m].state = "unsent"
  /\ SetState(m, "visible")
  /\ UNCHANGED <<log, tileSets, dlq, requeues, verdict, worker, faults, retention>>

\* The timeout passes.  That a worker still has the message in hand - it is
\* slower than the timeout - counts as a fault.
VisibilityExpires(m) ==
  /\ queue[m].state = "hidden"
  /\ SetState(m, "visible")
  /\ IF \E w \in Workers : worker[w].m = m /\ worker[w].receipt = queue[m].dequeues
     THEN Fault ELSE UNCHANGED faults
  /\ UNCHANGED <<log, tileSets, dlq, requeues, verdict, worker, retention>>

\* The queue served a receive whose response never arrived; send_with_retry
\* treats the request as idempotent.
ReceiveLost(m) ==
  /\ queue[m].state = "visible"
  /\ queue' = [queue EXCEPT ![m] = [state |-> "hidden", dequeues |-> @.dequeues + 1]]
  /\ Fault
  /\ UNCHANGED <<log, tileSets, dlq, requeues, verdict, worker, retention>>

-----------------------------------------------------------------------------
(* api-gateway: requeue_processing_item reads the status, then enqueues.   *)

Requeueable(g) == log[g].status \in {"failed", "rejected", "deadlettered"}

\* Any number of requests may have found the same ingest failed.
RequeueCheck(m) ==
  /\ m \in RequeueMessages \ requeues
  /\ queue[m].state = "unsent"
  /\ Requeueable(Body[m])
  /\ requeues' = requeues \cup {m}
  /\ UNCHANGED <<queue, log, tileSets, dlq, verdict, worker, faults, retention>>

RequeueSend(m) ==
  /\ m \in requeues
  /\ queue[m].state = "unsent"
  /\ requeues' = requeues \ {m}
  /\ SetState(m, "visible")
  /\ UNCHANGED <<log, tileSets, dlq, verdict, worker, faults, retention>>

-----------------------------------------------------------------------------
(* process_once_with_queue.  A worker that ends with an error leaves the   *)
(* message to its visibility timeout, and is started again.                *)

At(w, pc) == worker[w].pc = pc
Goto(w, pc) ==
  worker' = [worker EXCEPT ![w] =
    IF pc = "idle" THEN IdleWorker ELSE [worker[w] EXCEPT !.pc = pc]]
Exhausted(dequeues) == dequeues >= MaxDequeueCount

\* Defect: a malformed message is deleted unread.
ReceiveDropping(w, m) ==
  /\ At(w, "idle")
  /\ queue[m].state = "visible"
  /\ queue' = [queue EXCEPT ![m] = [state |-> "hidden", dequeues |-> @.dequeues + 1]]
  /\ worker' = [worker EXCEPT ![w] =
       [pc |-> IF Malformed(m) THEN "delete" ELSE "start",
        m |-> m, receipt |-> queue[m].dequeues + 1, attempt |-> 0]]
  /\ UNCHANGED <<log, tileSets, dlq, requeues, verdict, faults, retention>>

Receive(w, m) ==
  LET dequeues == queue[m].dequeues + 1 IN
  /\ At(w, "idle")
  /\ queue[m].state = "visible"
  /\ queue' = [queue EXCEPT ![m] = [state |-> "hidden", dequeues |-> dequeues]]
  /\ worker' = [worker EXCEPT ![w] =
       IF Malformed(m) /\ ~Exhausted(dequeues) THEN IdleWorker
       ELSE [pc |-> IF Malformed(m) THEN "deadletter" ELSE "start",
             m |-> m, receipt |-> dequeues, attempt |-> 0]]
  /\ UNCHANGED <<log, tileSets, dlq, requeues, verdict, faults, retention>>

\* Defect: a delivery does not count as an attempt of its own.
StartUncounted(w) ==
  LET g == Body[worker[w].m] IN
  /\ At(w, "start")
  /\ log' = [log EXCEPT ![g] = [@ EXCEPT !.status = "processing", !.attempts = 1]]
  /\ worker' = [worker EXCEPT ![w].pc = "work", ![w].attempt = 1]
  /\ UNCHANGED <<queue, tileSets, dlq, requeues, verdict, faults, retention>>

\* upsert_processing_started: INSERT ... SELECT FROM ingest_log ON CONFLICT
\* (ingest_id) DO UPDATE.  No ingest_log row: straight to the dead-letter queue.
Start(w) ==
  LET g == Body[worker[w].m]
      started == [h \in Ingests |->
        IF h = g /\ HasRow(g) THEN [log[h] EXCEPT !.status = "processing", !.attempts = @ + 1]
        ELSE log[h]]
  IN
  /\ At(w, "start")
  /\ \/ /\ HasRow(g)
        /\ log' = started
        /\ worker' = [worker EXCEPT ![w].pc = "work", ![w].attempt = log[g].attempts + 1]
        /\ UNCHANGED faults
     \/ Fault /\ log' \in {log, started} /\ Goto(w, "fail")
     \/ ~HasRow(g) /\ Goto(w, "deadletter") /\ UNCHANGED <<log, faults>>
  /\ UNCHANGED <<queue, tileSets, dlq, requeues, verdict, retention>>

\* Defect: the quality gate is ignored.
WorkUngated(w) ==
  /\ At(w, "work")
  /\ Goto(w, "publish")
  /\ UNCHANGED <<queue, log, tileSets, dlq, requeues, verdict, faults, retention>>

\* download_raw_blob_to_path finds the blob.
Downloadable(g) == g \in raw

\* Download, validation, sampling and the quality metadata; or any of them fails.
Work(w) ==
  LET g == Body[worker[w].m] IN
  /\ At(w, "work")
  /\ \/ /\ Downloadable(g) /\ verdict[g] \in {"windowless", "clear"}
        /\ Goto(w, "publish") /\ UNCHANGED faults
     \/ Downloadable(g) /\ verdict[g] = "cloudy" /\ Goto(w, "mark_rejected") /\ UNCHANGED faults
     \/ (~Downloadable(g) \/ verdict[g] = "unreadable") /\ Goto(w, "fail") /\ UNCHANGED faults
     \/ Downloadable(g) /\ verdict[g] # "unreadable" /\ Goto(w, "fail") /\ Fault
  /\ UNCHANGED <<queue, log, tileSets, dlq, requeues, verdict, retention>>

\* Defect: a publication that fails counts as done.
PublishAnyway(w) ==
  LET published == tileSets \cup {<<Body[worker[w].m], worker[w].attempt>>} IN
  /\ At(w, "publish")
  /\ \/ tileSets' = published /\ UNCHANGED faults
     \/ tileSets' = tileSets /\ Fault
  /\ Goto(w, "mark_processed")
  /\ UNCHANGED <<queue, log, dlq, requeues, verdict, retention>>

\* generate_tile_set_for_granule_with_manifest and publish_generated_tile_set,
\* seen from processing_log: the row in tile_sets exists afterwards, and may
\* exist although publishing failed.  A granule with a planned tile that has no
\* window fails before, every time; a lost race of two promotions counts as a fault.
Publish(w) ==
  LET g == Body[worker[w].m]
      published == tileSets \cup {<<g, worker[w].attempt>>}
  IN
  /\ At(w, "publish")
  /\ \/ /\ verdict[g] # "windowless"
        /\ \/ tileSets' = published /\ Goto(w, "mark_processed") /\ UNCHANGED faults
           \/ tileSets' \in {tileSets, published} /\ Goto(w, "fail") /\ Fault
     \/ verdict[g] = "windowless" /\ Goto(w, "fail") /\ UNCHANGED <<tileSets, faults>>
  /\ UNCHANGED <<queue, log, dlq, requeues, verdict, retention>>

\* UPDATE processing_log ... WHERE ingest_id: unconditional, whoever wrote the
\* row last, and no error when there is no row.  Only success sets the tile set.
Updated(w, s) ==
  [g \in Ingests |->
     IF g # Body[worker[w].m] \/ log[g].status = "none" THEN log[g]
     ELSE [log[g] EXCEPT !.status = s,
                         !.tileSet = IF s = "processed" THEN worker[w].attempt ELSE @]]

Marks(w, at, s, next, onError) ==
  /\ At(w, at)
  /\ \/ log' = Updated(w, s) /\ Goto(w, next) /\ UNCHANGED faults
     \/ log' \in {log, Updated(w, s)} /\ Goto(w, onError) /\ Fault
  /\ UNCHANGED <<queue, tileSets, dlq, requeues, verdict, retention>>

MarkRejected(w) == Marks(w, "mark_rejected", "rejected", "delete", "fail")
MarkProcessed(w) == Marks(w, "mark_processed", "processed", "delete", "fail")

\* Defects: any failure is dead-lettered; none is before one more delivery; a
\* status the table does not have.
MarkDeadletteredEarly(w) ==
  Marks(w, "fail", "deadlettered", "deadletter", "idle")
MarkDeadletteredLate(w) ==
  /\ worker[w].receipt > MaxDequeueCount
  /\ Marks(w, "fail", "deadlettered", "deadletter", "idle")
MarkFailedUnknown(w) ==
  /\ ~Exhausted(worker[w].receipt)
  /\ Marks(w, "fail", "error", "idle", "idle")

\* mark_processing_failure: the last delivery is dead-lettered, an earlier one
\* left for retry.
MarkDeadlettered(w) ==
  /\ Exhausted(worker[w].receipt)
  /\ Marks(w, "fail", "deadlettered", "deadletter", "idle")
MarkFailed(w) ==
  /\ ~Exhausted(worker[w].receipt)
  /\ Marks(w, "fail", "failed", "idle", "idle")

\* move_queue_message_to_deadletter: the copy first, then the original.
Deadletter(w) ==
  LET copied == dlq \cup {Body[worker[w].m]} IN
  /\ At(w, "deadletter")
  /\ \/ dlq' = copied /\ Goto(w, "delete") /\ UNCHANGED faults
     \/ dlq' \in {dlq, copied} /\ Goto(w, "idle") /\ Fault
  /\ UNCHANGED <<queue, log, tileSets, requeues, verdict, retention>>

\* delete_message works only with the receipt of the latest delivery.
Delete(w) ==
  LET m == worker[w].m
      deleted == IF Waiting(m) /\ queue[m].dequeues = worker[w].receipt
                 THEN [queue EXCEPT ![m].state = "deleted"] ELSE queue
  IN
  /\ At(w, "delete")
  /\ \/ queue' = deleted /\ UNCHANGED faults
     \/ queue' \in {queue, deleted} /\ Fault
  /\ Goto(w, "idle")
  /\ UNCHANGED <<log, tileSets, dlq, requeues, verdict, retention>>

-----------------------------------------------------------------------------
(* run_retention_cleanup --execute, its raw half.  An error ends the run.  *)

\* select_raw_blob_retention_candidates: rows that are old by now and have no
\* event yet; neither the queue nor processing_log is asked.  Nothing but the
\* cleanup itself changes what it selected, so the first step of a candidate
\* stands for its selection too.
Candidates == {g \in Ingests : HasRow(g) /\ cleanup = {}} \ cleaned

\* Defect: a deletion that fails counts as one of a missing blob.
DeleteRawAnyway(g) ==
  /\ g \in Candidates
  /\ \/ raw' = raw \ {g} /\ UNCHANGED faults
     \/ raw' = raw /\ Fault
  /\ cleanup' = {g}
  /\ UNCHANGED <<queue, log, tileSets, dlq, requeues, verdict, worker, cleaned>>

\* delete_blob: deleted or missing, both are recorded; or it fails, and the blob
\* may be deleted nevertheless.
DeleteRaw(g) ==
  /\ g \in Candidates
  /\ \/ raw' = raw \ {g} /\ cleanup' = {g} /\ UNCHANGED faults
     \/ raw' \in {raw, raw \ {g}} /\ UNCHANGED cleanup /\ Fault
  /\ UNCHANGED <<queue, log, tileSets, dlq, requeues, verdict, worker, cleaned>>

\* record_raw_event
RecordRaw ==
  /\ cleanup # {} /\ cleanup' = {}
  /\ \/ cleaned' = cleaned \cup cleanup /\ UNCHANGED faults
     \/ UNCHANGED cleaned /\ Fault
  /\ UNCHANGED <<queue, log, tileSets, dlq, requeues, verdict, worker, raw>>

CleanupStep == (\E g \in Ingests : DeleteRaw(g)) \/ RecordRaw

-----------------------------------------------------------------------------

Crash(w) ==
  /\ ~At(w, "idle")
  /\ Goto(w, "idle")
  /\ Fault
  /\ UNCHANGED <<queue, log, tileSets, dlq, requeues, verdict, retention>>

WorkerStep(w) ==
  \/ \E m \in Messages : Receive(w, m)
  \/ Start(w) \/ Work(w) \/ Publish(w) \/ MarkRejected(w) \/ MarkProcessed(w)
  \/ MarkDeadlettered(w) \/ MarkFailed(w) \/ Deadletter(w) \/ Delete(w)

-----------------------------------------------------------------------------

Next ==
  \/ \E m \in Messages :
       \/ SendFromIngest(m) \/ VisibilityExpires(m) \/ ReceiveLost(m)
       \/ RequeueCheck(m) \/ RequeueSend(m)
  \/ \E w \in Workers : WorkerStep(w) \/ Crash(w)
  \/ CleanupStep

Spec == Init /\ [][Next]_vars

\* Workers run, and are started again when they have exited; a message nobody
\* has in hand becomes visible again.  The cleanup is run again and again, and in
\* the end every row is old.
Fairness ==
  /\ \A w \in Workers : WF_vars(WorkerStep(w))
  /\ \A m \in Messages : WF_vars(VisibilityExpires(m))
  /\ WF_vars(CleanupStep)

LiveSpec == Spec /\ Fairness

-----------------------------------------------------------------------------
(* Properties *)

\* Every variable keeps its type (the statuses are processing_log's CHECK).
TypeOK ==
  /\ queue \in [Messages -> [state : {"unsent", "visible", "hidden", "deleted"},
                             dequeues : Nat]]
  /\ log \in [Ingests -> [status : Statuses \cup {"none"}, attempts : Nat, tileSet : Nat]]
  /\ tileSets \subseteq Ingests \X Nat
  /\ dlq \subseteq Ingests
  /\ requeues \subseteq RequeueMessages
  /\ verdict \in [Ingests -> Verdicts]
  /\ raw \subseteq Ingests /\ cleaned \subseteq Ingests
  /\ cleanup \subseteq Ingests
  /\ worker \in [Workers ->
       [pc : {"idle", "start", "work", "publish", "mark_rejected", "mark_processed",
              "fail", "deadletter", "delete"},
        m : Messages \cup {NoMessage}, receipt : Nat, attempt : Nat]]
  /\ faults \in 0..MaxFaults

Published(g) == \E k \in 1..log[g].attempts : <<g, k>> \in tileSets

\* "Delete messages only after successful processing": when a message is gone,
\* its granule has a published tile set, was turned down by the quality gate,
\* or its body is in the dead-letter queue - with late workers, lost responses
\* and crashes at every step (process_once_with_queue).
DeletedMeansSettled ==
  \A m \in Messages : queue[m].state = "deleted" =>
    \/ Body[m] \in dlq
    \/ Published(Body[m])
    \/ verdict[Body[m]] = "cloudy" /\ log[Body[m]].attempts > 0

\* Two workers on one ingest never write the same tile set: an attempt number,
\* and so a tile_set_id, belongs to one delivery (upsert_processing_started,
\* tile_set_id_for_message).
AttemptsAreExclusive ==
  \A v, w \in Workers :
    /\ v # w
    /\ worker[v].pc \in {"work", "publish", "mark_rejected", "mark_processed"}
    /\ worker[w].pc \in {"work", "publish", "mark_rejected", "mark_processed"}
    /\ Body[worker[v].m] = Body[worker[w].m]
    => worker[v].attempt # worker[w].attempt

\* "link processing logs to durable tile output only after publication succeeds":
\* the tile set a row names is in tile_sets, and a processed row names one.
LinkedMeansPublished ==
  \A g \in Ingests :
    /\ log[g].tileSet # 0 => <<g, log[g].tileSet>> \in tileSets
    /\ log[g].status = "processed" => log[g].tileSet # 0

\* A granule the quality gate turns down never reaches the tiles, however often
\* it is redelivered or requeued; nor does a tile set without a recorded attempt.
OnlyClearIsPublished ==
  \A ts \in tileSets :
    verdict[ts[1]] = "clear" /\ ts[2] \in 1..log[ts[1]].attempts

\* "Move exhausted work to the dead-letter queue", all of it and no other: a message
\* that fails every time is delivered at most max_dequeue_count times, plus once
\* for each fault, and an ingest is dead-lettered only when a message for it has
\* used up its deliveries (should_deadletter, move_queue_message_to_deadletter).
OnlyExhaustedIsDeadlettered ==
  /\ \A m \in Messages : queue[m].dequeues <= MaxDequeueCount + faults
  /\ \A g \in Ingests :
       HasRow(g) /\ (g \in dlq \/ log[g].status = "deadlettered") =>
         \E m \in Messages : Body[m] = g /\ Exhausted(queue[m].dequeues)

\* Every message that was sent is eventually deleted: no message circulates or
\* stays hidden for ever.
MessagesSettle ==
  \A m \in Messages : Waiting(m) ~> queue[m].state = "deleted"

\* Every raw blob is deleted in the end, and that is recorded, although a run of
\* the cleanup may end at any step; what is recorded is true
\* (select_raw_blob_retention_candidates, run_retention_cleanup).
RawBlobsExpire ==
  \A g \in Ingests : (HasRow(g) ~> g \in cleaned) /\ [](g \in cleaned => g \notin raw)

\* "processing idempotency is required downstream": an ingest delivered again
\* does not make a second tile set.
ProcessingIsIdempotent ==
  \A g \in Ingests : Cardinality({ts \in tileSets : ts[1] = g}) <= 1

=============================================================================
