-------------------------- MODULE IngestPipeline --------------------------
(***************************************************************************)
(* ingest-svc: how one granule goes from discovery to the processing       *)
(* queue.  Three commands act on the same tables, with no lock between     *)
(* them: "ingest" (the runs), "recover-ingest" and "replay-rejected" (the  *)
(* recoverers).  Every SQL statement, blob request and queue request is a  *)
(* step of its own, because a process can fail or die between any two.     *)
(*                                                                         *)
(* uq_ingest_log_product_tile_date gives a granule at most one row, so the *)
(* granule stands for its ingest_id.  A row's outbox records are a         *)
(* sequence, and a record's index stands for its id.                       *)
(***************************************************************************)
EXTENDS Naturals, Sequences

CONSTANTS
  Granules,           \* logical granules: (product, tile, date)
  Runs,               \* processes executing "ingest"
  Recoverers,         \* processes executing "recover-ingest" or "replay-rejected"
  NoGranule,          \* what an idle process works on
  OutboxMaxAttempts,  \* OUTBOX_MAX_ATTEMPTS
  MaxFaults           \* bound: requests that fail plus processes that die

ASSUME NoGranuleAssumption == NoGranule \notin Granules
ASSUME AttemptsAssumption == OutboxMaxAttempts \in Nat \ {0}
ASSUME FaultsAssumption == MaxFaults \in Nat

VARIABLES
  status,    \* ingest_log.status, "absent" before the row is inserted
  outbox,    \* the row's records in ingest_recovery_outbox, oldest first
  raw,       \* what the raw blob container holds at the granule's path
  emitted,   \* processing messages put on the queue for the granule
  replayed,  \* history: granules an operator has replayed
  ingest,    \* local state of each run
  recover,   \* local state of each recoverer
  faults     \* faults so far

vars == <<status, outbox, raw, emitted, replayed, ingest, recover, faults>>

Statuses == {"downloading", "downloaded", "validated", "enqueued", "rejected",
             "failed", "recovery_pending", "replay_pending"}
Bytes == {"valid", "invalid"}   \* validate_raw_granule_bytes accepts or not
OutboxRecord == [status : {"pending", "completed", "failed"}, attempts : Nat]
RunStates ==
  [pc : {"idle", "download", "upload", "mark_downloaded", "mark_rejected",
         "mark_validated", "create_outbox", "enqueue", "mark_enqueued",
         "complete_outbox", "mark_failed"},
   g : Granules \cup {NoGranule}, bytes : Bytes, ob : Nat]
RecovererStates ==
  [pc : {"idle", "raw", "mark_recovery_pending", "mark_rejected", "mark_validated",
         "create_outbox", "drain", "fail_outbox", "mark_enqueued", "complete_outbox"},
   rows : SUBSET Granules, obs : SUBSET (Granules \X Nat),
   g : Granules \cup {NoGranule}, ob : Nat]

IdleRun == [pc |-> "idle", g |-> NoGranule, bytes |-> "valid", ob |-> 0]
IdleRecoverer ==
  [pc |-> "idle", rows |-> {}, obs |-> {}, g |-> NoGranule, ob |-> 0]

Init ==
  /\ status = [g \in Granules |-> "absent"]
  /\ outbox = [g \in Granules |-> <<>>]
  /\ raw = [g \in Granules |-> "none"]
  /\ emitted = [g \in Granules |-> 0]
  /\ replayed = {}
  /\ ingest = [r \in Runs |-> IdleRun]
  /\ recover = [p \in Recoverers |-> IdleRecoverer]
  /\ faults = 0

-----------------------------------------------------------------------------
(* Statements and requests.  One that reports an error costs a fault and   *)
(* may have taken effect all the same.                                     *)

Fault == faults < MaxFaults /\ faults' = faults + 1

SetStatus(g, s) == status' = [status EXCEPT ![g] = s]
SetStatusFails(g, s) == Fault /\ status' \in {status, [status EXCEPT ![g] = s]}

Pending(g) == {i \in 1..Len(outbox[g]) : outbox[g][i].status = "pending"}

\* Defect: no ON CONFLICT clause.
UpsertedTwice(g) == Append(outbox[g], [status |-> "pending", attempts |-> 0])

\* INSERT ... ON CONFLICT (ingest_id, operation) WHERE status = 'pending':
\* the pending record is kept, its attempts too.
Upserted(g) ==
  IF Pending(g) = {}
  THEN Append(outbox[g], [status |-> "pending", attempts |-> 0])
  ELSE outbox[g]
UpsertedId(g) ==
  IF Pending(g) = {} THEN Len(outbox[g]) + 1 ELSE CHOOSE i \in Pending(g) : TRUE

\* UPDATE ... WHERE id: no condition on the status the record has by now.
Completed(g, i) == [outbox[g] EXCEPT ![i].status = "completed"]
\* Defect: a settled record revived.
FailedRevives(g, i) ==
  [outbox[g] EXCEPT ![i] =
     [status |-> IF @.attempts + 1 >= OutboxMaxAttempts THEN "failed" ELSE "pending",
      attempts |-> @.attempts + 1]]
Failed(g, i) ==
  [outbox[g] EXCEPT ![i] =
     [status |-> IF @.attempts + 1 >= OutboxMaxAttempts THEN "failed" ELSE @.status,
      attempts |-> @.attempts + 1]]

SetOutbox(g, records) == outbox' = [outbox EXCEPT ![g] = records]
SetOutboxFails(g, records) ==
  Fault /\ outbox' \in {outbox, [outbox EXCEPT ![g] = records]}

\* send_with_retry with RetryIdempotency::AtLeastOnce: a retried request
\* may have been accepted the first time as well.
Enqueue(g) ==
  \/ emitted' = [emitted EXCEPT ![g] = @ + 1] /\ UNCHANGED faults
  \/ emitted' = [emitted EXCEPT ![g] = @ + 2] /\ Fault
EnqueueFails(g) == Fault /\ emitted' \in {emitted, [emitted EXCEPT ![g] = @ + 1]}

-----------------------------------------------------------------------------
(* ingest: process_granule_inner.  A run takes its granules one at a time. *)

RunAt(r, pc) == ingest[r].pc = pc
RunGoto(r, pc) ==
  ingest' = [ingest EXCEPT ![r] = IF pc = "idle" THEN IdleRun ELSE [@ EXCEPT !.pc = pc]]

\* insert_downloading_row; an existing row or an error skips the granule.
InsertDownloadingRow(r, g) ==
  /\ RunAt(r, "idle")
  /\ status[g] = "absent"
  /\ SetStatus(g, "downloading")
  /\ \/ /\ ingest' = [ingest EXCEPT ![r] = [@ EXCEPT !.pc = "download", !.g = g]]
        /\ UNCHANGED faults
     \/ Fault /\ UNCHANGED ingest
  /\ UNCHANGED <<outbox, raw, emitted, replayed, recover>>

Download(r) ==
  /\ RunAt(r, "download")
  /\ \/ /\ \E b \in Bytes :
             ingest' = [ingest EXCEPT ![r] = [@ EXCEPT !.pc = "upload", !.bytes = b]]
        /\ UNCHANGED faults
     \/ Fault /\ RunGoto(r, "mark_failed")
  /\ UNCHANGED <<status, outbox, raw, emitted, replayed, recover>>

UploadRaw(r) ==
  LET uploaded == [raw EXCEPT ![ingest[r].g] = ingest[r].bytes] IN
  /\ RunAt(r, "upload")
  /\ \/ raw' = uploaded /\ RunGoto(r, "mark_downloaded") /\ UNCHANGED faults
     \/ Fault /\ raw' \in {raw, uploaded} /\ RunGoto(r, "mark_failed")
  /\ UNCHANGED <<status, outbox, emitted, replayed, recover>>

\* A status update of a run: where it goes next, and the granule given up
\* when the update fails.
RunMarks(r, at, s, next) ==
  /\ RunAt(r, at)
  /\ \/ SetStatus(ingest[r].g, s) /\ RunGoto(r, next) /\ UNCHANGED faults
     \/ SetStatusFails(ingest[r].g, s) /\ RunGoto(r, "idle")
  /\ UNCHANGED <<outbox, raw, emitted, replayed, recover>>

\* Defects: bytes not validated; outbox skipped; a status the table does not have.
MarkDownloadedUnchecked(r) ==
  RunMarks(r, "mark_downloaded", "downloaded", "mark_validated")
MarkValidatedOnly(r) == RunMarks(r, "mark_validated", "validated", "enqueue")
MarkFailedUnknown(r) == RunMarks(r, "mark_failed", "error", "idle")

\* The bytes the run has in memory are validated as soon as the row is marked.
MarkDownloaded(r) ==
  RunMarks(r, "mark_downloaded", "downloaded",
           IF ingest[r].bytes = "valid" THEN "mark_validated" ELSE "mark_rejected")
MarkRejected(r) == RunMarks(r, "mark_rejected", "rejected", "idle")
MarkValidated(r) == RunMarks(r, "mark_validated", "validated", "create_outbox")
MarkFailed(r) == RunMarks(r, "mark_failed", "failed", "idle")
MarkEnqueued(r) == RunMarks(r, "mark_enqueued", "enqueued", "complete_outbox")

CreateOutbox(r) ==
  LET g == ingest[r].g IN
  /\ RunAt(r, "create_outbox")
  /\ \/ /\ SetOutbox(g, Upserted(g))
        /\ ingest' = [ingest EXCEPT ![r] = [@ EXCEPT !.pc = "enqueue", !.ob = UpsertedId(g)]]
        /\ UNCHANGED faults
     \/ SetOutboxFails(g, Upserted(g)) /\ RunGoto(r, "mark_failed")
  /\ UNCHANGED <<status, raw, emitted, replayed, recover>>

\* Building the message is part of the step; a failure of either is recorded
\* on the row, and the pending record stays as it is.
EnqueueMessage(r) ==
  /\ RunAt(r, "enqueue")
  /\ \/ Enqueue(ingest[r].g) /\ RunGoto(r, "mark_enqueued")
     \/ EnqueueFails(ingest[r].g) /\ RunGoto(r, "mark_failed")
  /\ UNCHANGED <<status, outbox, raw, replayed, recover>>

CompleteOutbox(r) ==
  LET records == Completed(ingest[r].g, ingest[r].ob) IN
  /\ RunAt(r, "complete_outbox")
  /\ \/ SetOutbox(ingest[r].g, records) /\ UNCHANGED faults
     \/ SetOutboxFails(ingest[r].g, records)
  /\ RunGoto(r, "idle")
  /\ UNCHANGED <<status, raw, emitted, replayed, recover>>

RunCrash(r) ==
  /\ ~RunAt(r, "idle")
  /\ Fault
  /\ RunGoto(r, "idle")
  /\ UNCHANGED <<status, outbox, raw, emitted, replayed, recover>>

RunStep(r) ==
  \/ Download(r) \/ UploadRaw(r) \/ MarkDownloaded(r) \/ MarkRejected(r)
  \/ MarkValidated(r) \/ CreateOutbox(r) \/ EnqueueMessage(r)
  \/ MarkEnqueued(r) \/ CompleteOutbox(r) \/ MarkFailed(r)

-----------------------------------------------------------------------------
(* recover-ingest and replay-rejected.  Here a failed statement ends the   *)
(* command (`?`), and what it had selected is worked through without being *)
(* read again.                                                             *)

RecovererAt(p, pc) == recover[p].pc = pc
\* Back at a loop's head the loop variables are gone.
RecovererGoto(p, pc) ==
  recover' = [recover EXCEPT ![p] =
    CASE pc = "idle" -> IdleRecoverer
      [] pc \in {"raw", "drain"} -> [@ EXCEPT !.pc = pc, !.g = NoGranule, !.ob = 0]
      [] OTHER -> [@ EXCEPT !.pc = pc]]

\* Defects: rows already enqueued are recovered again; downloaded rows are not.
RecoverableEnqueued(g) ==
  status[g] \in {"downloading", "downloaded", "recovery_pending", "enqueued"}
RecoverableNotDownloaded(g) == status[g] \in {"downloading", "recovery_pending"}
Recoverable(g) == status[g] \in {"downloading", "downloaded", "recovery_pending"}

\* recoverable_raw_rows, a snapshot (fewer rows than its LIMIT of 100).
StartRecovery(p) ==
  /\ RecovererAt(p, "idle")
  /\ recover' = [recover EXCEPT ![p] =
       [@ EXCEPT !.pc = "raw", !.rows = {g \in Granules : Recoverable(g)}]]
  /\ UNCHANGED <<status, outbox, raw, emitted, replayed, ingest, faults>>

\* Defect: the bytes count as valid if they are there.
ReadRawUnchecked(p, g) ==
  /\ RecovererAt(p, "raw")
  /\ g \in recover[p].rows
  /\ recover' = [recover EXCEPT ![p] =
       [@ EXCEPT !.pc = IF raw[g] = "none" THEN "mark_recovery_pending" ELSE "mark_validated",
                 !.g = g, !.rows = recover[p].rows \ {g}]]
  /\ UNCHANGED <<status, outbox, raw, emitted, replayed, ingest, faults>>

\* download_raw_blob, then the verdict on what was read.
ReadRaw(p, g) ==
  /\ RecovererAt(p, "raw")
  /\ g \in recover[p].rows
  /\ \E verdict \in {"mark_recovery_pending", "mark_rejected", "mark_validated"} :
       /\ recover' = [recover EXCEPT ![p] =
            [@ EXCEPT !.pc = verdict, !.g = g, !.rows = recover[p].rows \ {g}]]
       /\ \/ raw[g] = "none" /\ verdict = "mark_recovery_pending" /\ UNCHANGED faults
          \/ raw[g] = "invalid" /\ verdict = "mark_rejected" /\ UNCHANGED faults
          \/ raw[g] = "valid" /\ verdict = "mark_validated" /\ UNCHANGED faults
          \/ raw[g] # "none" /\ verdict = "mark_recovery_pending" /\ Fault
  /\ UNCHANGED <<status, outbox, raw, emitted, replayed, ingest>>

RecovererMarks(p, at, s, next) ==
  /\ RecovererAt(p, at)
  /\ \/ SetStatus(recover[p].g, s) /\ RecovererGoto(p, next) /\ UNCHANGED faults
     \/ SetStatusFails(recover[p].g, s) /\ RecovererGoto(p, "idle")
  /\ UNCHANGED <<outbox, raw, emitted, replayed, ingest>>

RecoveryMarkPending(p) ==
  RecovererMarks(p, "mark_recovery_pending", "recovery_pending", "raw")
RecoveryMarkRejected(p) == RecovererMarks(p, "mark_rejected", "rejected", "raw")
RecoveryMarkValidated(p) ==
  RecovererMarks(p, "mark_validated", "validated", "create_outbox")
DrainMarkEnqueued(p) ==
  RecovererMarks(p, "mark_enqueued", "enqueued", "complete_outbox")

\* An outbox update of a recoverer.
RecovererSetsOutbox(p, at, records, next) ==
  /\ RecovererAt(p, at)
  /\ \/ SetOutbox(recover[p].g, records) /\ RecovererGoto(p, next) /\ UNCHANGED faults
     \/ SetOutboxFails(recover[p].g, records) /\ RecovererGoto(p, "idle")
  /\ UNCHANGED <<status, raw, emitted, replayed, ingest>>

RecoveryCreateOutbox(p) ==
  RecovererSetsOutbox(p, "create_outbox", Upserted(recover[p].g), "raw")
DrainCompleteOutbox(p) ==
  RecovererSetsOutbox(p, "complete_outbox",
                      Completed(recover[p].g, recover[p].ob), "drain")
DrainFailOutbox(p) ==
  RecovererSetsOutbox(p, "fail_outbox", Failed(recover[p].g, recover[p].ob), "drain")

\* replay_rejected: the row first, its outbox record in a second statement;
\* from there the command drains the outbox as recovery does.
ReplayRejected(p, g) ==
  /\ RecovererAt(p, "idle")
  /\ status[g] = "rejected"
  /\ SetStatus(g, "replay_pending")
  /\ replayed' = replayed \cup {g}
  /\ \/ /\ recover' = [recover EXCEPT ![p] = [@ EXCEPT !.pc = "create_outbox", !.g = g]]
        /\ UNCHANGED faults
     \/ Fault /\ UNCHANGED recover
  /\ UNCHANGED <<outbox, raw, emitted, ingest>>

\* Defect: replayed rows are not drained.
DrainableValidated(g) == status[g] = "validated" /\ Pending(g) # {}
Drainable(g) == status[g] \in {"validated", "replay_pending"} /\ Pending(g) # {}

\* pending_enqueue_outbox, once no raw row is left.
SelectOutbox(p) ==
  /\ RecovererAt(p, "raw")
  /\ recover[p].rows = {}
  /\ recover' = [recover EXCEPT ![p] = [@ EXCEPT !.pc = "drain",
       !.obs = UNION {{<<g, i>> : i \in Pending(g)} : g \in {h \in Granules : Drainable(h)}}]]
  /\ UNCHANGED <<status, outbox, raw, emitted, replayed, ingest, faults>>

DrainEnqueue(p, g, i) ==
  /\ RecovererAt(p, "drain")
  /\ <<g, i>> \in recover[p].obs
  /\ \E next \in {"mark_enqueued", "fail_outbox"} :
       /\ recover' = [recover EXCEPT ![p] =
            [@ EXCEPT !.pc = next, !.g = g, !.ob = i,
                      !.obs = recover[p].obs \ {<<g, i>>}]]
       /\ \/ next = "mark_enqueued" /\ Enqueue(g)
          \/ next = "fail_outbox" /\ EnqueueFails(g)
  /\ UNCHANGED <<status, outbox, raw, replayed, ingest>>

FinishRecovery(p) ==
  /\ RecovererAt(p, "drain")
  /\ recover[p].obs = {}
  /\ RecovererGoto(p, "idle")
  /\ UNCHANGED <<status, outbox, raw, emitted, replayed, ingest, faults>>

RecovererCrash(p) ==
  /\ ~RecovererAt(p, "idle")
  /\ Fault
  /\ RecovererGoto(p, "idle")
  /\ UNCHANGED <<status, outbox, raw, emitted, replayed, ingest>>

RecovererStep(p) ==
  \/ \E g \in Granules : ReadRaw(p, g)
  \/ \E record \in recover[p].obs : DrainEnqueue(p, record[1], record[2])
  \/ RecoveryMarkPending(p) \/ RecoveryMarkRejected(p) \/ RecoveryMarkValidated(p)
  \/ RecoveryCreateOutbox(p) \/ SelectOutbox(p) \/ DrainMarkEnqueued(p)
  \/ DrainCompleteOutbox(p) \/ DrainFailOutbox(p) \/ FinishRecovery(p)

-----------------------------------------------------------------------------

Next ==
  \/ \E r \in Runs, g \in Granules : InsertDownloadingRow(r, g)
  \/ \E r \in Runs : RunStep(r) \/ RunCrash(r)
  \/ \E p \in Recoverers, g \in Granules : ReplayRejected(p, g)
  \/ \E p \in Recoverers : StartRecovery(p) \/ RecovererStep(p) \/ RecovererCrash(p)

Spec == Init /\ [][Next]_vars

\* A process that is running keeps running (or dies, which costs a fault), and
\* the operator keeps scheduling recover-ingest.  Nothing obliges anyone to
\* discover a granule or to replay one.
Fairness ==
  /\ \A r \in Runs : WF_vars(RunStep(r))
  /\ \A p \in Recoverers : WF_vars(RecovererStep(p)) /\ WF_vars(StartRecovery(p))

LiveSpec == Spec /\ Fairness

-----------------------------------------------------------------------------
(* Properties *)

\* Every variable keeps its type.  (The status sets are the CHECK constraints
\* of ingest_log and ingest_recovery_outbox.)
TypeOK ==
  /\ status \in [Granules -> Statuses \cup {"absent"}]
  /\ outbox \in [Granules -> Seq(OutboxRecord)]
  /\ raw \in [Granules -> Bytes \cup {"none"}]
  /\ emitted \in [Granules -> Nat]
  /\ replayed \in SUBSET Granules
  /\ ingest \in [Runs -> RunStates]
  /\ recover \in [Recoverers -> RecovererStates]
  /\ \A r \in Runs : ingest[r].pc # "idle" => ingest[r].g \in Granules
  /\ \A p \in Recoverers :
       recover[p].pc \notin {"idle", "raw", "drain"} => recover[p].g \in Granules
  /\ faults \in 0..MaxFaults

\* A message is queued only for bytes that are stored and passed validation, or
\* for a granule an operator replayed on purpose - whatever recovery does to a
\* row that a run is still working on (process_granule_inner, run_recovery).
OnlyVettedBytesQueued ==
  \A g \in Granules :
    emitted[g] > 0 => raw[g] = "valid" \/ (raw[g] = "invalid" /\ g \in replayed)

SuccessMeansQueued ==
  \A g \in Granules :
    emitted[g] = 0 =>
      /\ status[g] # "enqueued"
      /\ \A i \in 1..Len(outbox[g]) : outbox[g][i].status # "completed"

OutboxPrecedesMessage ==
  \A g \in Granules : emitted[g] > 0 => outbox[g] # <<>>

\* The durable record precedes the message, and success follows it: whatever is on
\* the queue has an outbox record behind it, and no row is called enqueued, and no
\* record completed, before a message for the granule is on the queue - success is
\* never recorded for work that a failure or a crash then loses (flow steps 7 and 8
\* of 50-ingestion-service.md; mark_enqueued, mark_outbox_completed).
DeliveryOrdered == OutboxPrecedesMessage /\ SuccessMeansQueued

OnePendingRecord ==
  \A g \in Granules : \A i, j \in Pending(g) : i = j

AttemptsAccounted ==
  \A g \in Granules : \A i \in 1..Len(outbox[g]) :
    LET record == outbox[g][i] IN
    /\ record.status = "pending" => record.attempts < OutboxMaxAttempts
    /\ record.status = "failed" => record.attempts >= OutboxMaxAttempts

\* Runs, recovery and replay may all want a record for one row; they share one
\* pending record (create_pending_enqueue_outbox and its partial unique index).  A
\* record given up has used its attempts, one still pending has not: two recoverers
\* failing over one record count every attempt (mark_outbox_failed).
OutboxConsistent == OnePendingRecord /\ AttemptsAccounted

\* Bytes that fail validation go no further unless an operator replays the
\* granule, although a run and recoverers overwrite each other's verdicts on the
\* row (mark_rejected, mark_validated and mark_downloaded are unconditional).
InvalidGoesNoFurther ==
  \A g \in Granules :
    raw[g] = "invalid" /\ g \notin replayed =>
      /\ status[g] \notin {"validated", "enqueued", "replay_pending"}
      /\ outbox[g] = <<>>

\* "Keep one retryable pending enqueue record while preserving completed/failed
\* history": no step drops a record or makes a settled one pending again, so
\* what was delivered or given up is not retried (ingest_log.rs:228).
HistoryPreserved ==
  [][\A g \in Granules : \A i \in 1..Len(outbox[g]) :
       /\ i <= Len(outbox'[g])
       /\ outbox[g][i].status # "pending" => outbox'[g][i].status # "pending"
       /\ outbox'[g][i].attempts >= outbox[g][i].attempts]_vars

\* One recoverer at a time, however often it is started, and the runs queue at
\* most four messages for a granule, plus one for each fault: recovery can pick
\* up the row while it is downloading, downloaded and validated, and each time
\* the run then marks it back (recoverable_raw_rows, send_with_retry).
DuplicatesBounded == \A g \in Granules : emitted[g] <= 4 + faults

\* Recovery leaves no downloaded row behind: its bytes are stored, so some
\* recovery run validates or rejects it (recoverable_raw_rows, run_recovery).
DownloadedIsRecovered ==
  \A g \in Granules :
    status[g] = "downloaded" ~>
      status[g] \notin {"downloading", "downloaded", "recovery_pending"}

\* A pending record of a validated or replayed row is eventually delivered or
\* given up (enqueue_pending_outbox, mark_outbox_failed).
DrainableIsDrained ==
  \A g \in Granules :
    /\ status[g] = "validated" /\ Pending(g) # {} ~> status[g] # "validated" \/ Pending(g) = {}
    /\ status[g] = "replay_pending" /\ Pending(g) # {} ~>
         status[g] # "replay_pending" \/ Pending(g) = {}

\* What `recover-ingest` is documented to do: "Recover downloaded/validated rows
\* and pending enqueue outbox records" - a pending record does not stay pending
\* for ever.
PendingIsRecovered ==
  \A g \in Granules : Pending(g) # {} ~> Pending(g) = {}

=============================================================================
