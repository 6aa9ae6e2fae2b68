---------------------- MODULE IngestPipeline_proofs ----------------------
(* Theorems about IngestPipeline, for any number of granules, runs and     *)
(* recoverers (one for DuplicatesAreBounded), any attempt limit and any    *)
(* number of faults.                                                       *)
EXTENDS IngestPipeline, SequenceTheorems, TLAPS

-----------------------------------------------------------------------------
(* The outbox helpers *)

\* create_pending_enqueue_outbox leaves a list of records that keeps what it had
\* and is not empty.
LEMMA UpsertedFacts ==
  ASSUME NEW g \in Granules, outbox[g] \in Seq(OutboxRecord)
  PROVE  /\ Upserted(g) \in Seq(OutboxRecord)
         /\ Upserted(g) # <<>>
         /\ Len(Upserted(g)) >= Len(outbox[g])
         /\ UpsertedId(g) \in Nat
         /\ \A i \in 1..Len(Upserted(g)) :
              \/ i \in 1..Len(outbox[g]) /\ Upserted(g)[i] = outbox[g][i]
              \/ Upserted(g)[i].status = "pending"
<1> DEFINE new == [status |-> "pending", attempts |-> 0]
<1>1. new \in OutboxRecord
  BY DEF OutboxRecord
<1>2. CASE Pending(g) = {}
  <2>1. Upserted(g) = Append(outbox[g], new) /\ UpsertedId(g) = Len(outbox[g]) + 1
    BY <1>2 DEF Upserted, UpsertedId
  <2> QED BY <2>1, <1>1
<1>3. CASE Pending(g) # {}
  <2>1. Upserted(g) = outbox[g]
    BY <1>3 DEF Upserted
  <2>2. UpsertedId(g) \in Pending(g)
    BY <1>3 DEF UpsertedId
  <2>3. UpsertedId(g) \in 1..Len(outbox[g])
    BY <2>2 DEF Pending
  <2> QED BY <2>1, <2>3
<1> QED BY <1>2, <1>3

\* mark_outbox_completed changes records in place.
LEMMA CompletedFacts ==
  ASSUME NEW g \in Granules, outbox[g] \in Seq(OutboxRecord), NEW i
  PROVE  /\ Completed(g, i) \in Seq(OutboxRecord)
         /\ Len(Completed(g, i)) = Len(outbox[g])
<1> DEFINE old == outbox[g]
<1>1. \A j \in 1..Len(old) : old[j] \in OutboxRecord
  BY ElementOfSeq
<1>2. Completed(g, i) = [j \in 1..Len(old) |->
                           IF j = i THEN [old[j] EXCEPT !.status = "completed"] ELSE old[j]]
  BY DEF Completed
<1>3. \A j \in 1..Len(old) : [old[j] EXCEPT !.status = "completed"] \in OutboxRecord
  BY <1>1 DEF OutboxRecord
<1>4. Completed(g, i) \in [1..Len(old) -> OutboxRecord]
  BY <1>1, <1>2, <1>3
<1> QED BY <1>4, SeqDef, LenProperties

\* mark_outbox_failed changes records in place, and completes none.
LEMMA FailedFacts ==
  ASSUME NEW g \in Granules, outbox[g] \in Seq(OutboxRecord), NEW i
  PROVE  /\ Failed(g, i) \in Seq(OutboxRecord)
         /\ Len(Failed(g, i)) = Len(outbox[g])
         /\ \A j \in 1..Len(outbox[g]) :
              Failed(g, i)[j].status = "completed" => outbox[g][j].status = "completed"
<1> DEFINE old == outbox[g]
           failed(j) == [status |-> IF old[j].attempts + 1 >= OutboxMaxAttempts
                                    THEN "failed" ELSE old[j].status,
                         attempts |-> old[j].attempts + 1]
<1>1. \A j \in 1..Len(old) : old[j] \in OutboxRecord
  BY ElementOfSeq
<1>2. Failed(g, i) = [j \in 1..Len(old) |-> IF j = i THEN failed(j) ELSE old[j]]
  BY DEF Failed
<1>3. \A j \in 1..Len(old) : failed(j) \in OutboxRecord
  BY <1>1 DEF OutboxRecord
<1>4. \A j \in 1..Len(old) : failed(j).status = "completed" => old[j].status = "completed"
  OBVIOUS
<1> HIDE DEF failed
<1>5. Failed(g, i) \in [1..Len(old) -> OutboxRecord]
  BY <1>1, <1>2, <1>3
<1> QED BY <1>2, <1>4, <1>5, SeqDef, LenProperties

-----------------------------------------------------------------------------
(* Types *)

\* What a fault, a status update or an outbox update leaves is of its type.
LEMMA FaultType ==
  ASSUME TypeOK, Fault
  PROVE  faults' \in 0..MaxFaults
BY FaultsAssumption DEF TypeOK, Fault

\* ... the statuses (mark_success_status, mark_failed_status).
LEMMA StatusType ==
  ASSUME TypeOK, NEW g \in Granules, NEW s \in Statuses,
         SetStatus(g, s) \/ SetStatusFails(g, s)
  PROVE  status' \in [Granules -> Statuses \cup {"absent"}]
BY DEF TypeOK, SetStatus, SetStatusFails

\* ... the outbox (create_pending_enqueue_outbox, mark_outbox_completed, _failed).
LEMMA OutboxType ==
  ASSUME TypeOK, NEW g \in Granules, NEW records \in Seq(OutboxRecord),
         SetOutbox(g, records) \/ SetOutboxFails(g, records)
  PROVE  outbox' \in [Granules -> Seq(OutboxRecord)]
<1>1. CASE outbox' = [outbox EXCEPT ![g] = records]
  BY <1>1 DEF TypeOK
<1>2. CASE outbox' = outbox
  BY <1>2 DEF TypeOK
<1> QED BY <1>1, <1>2 DEF SetOutbox, SetOutboxFails

\* ... the number of messages (enqueue_processing_message).
LEMMA EmittedType ==
  ASSUME TypeOK, NEW g \in Granules, Enqueue(g) \/ EnqueueFails(g)
  PROVE  emitted' \in [Granules -> Nat] /\ faults' \in 0..MaxFaults
<1>1. faults' \in 0..MaxFaults
  BY FaultsAssumption DEF TypeOK, Enqueue, EnqueueFails, Fault
<1>2. emitted[g] + 1 \in Nat /\ emitted[g] + 2 \in Nat
  BY DEF TypeOK
<1> QED BY <1>1, <1>2 DEF TypeOK, Enqueue, EnqueueFails

\* What TypeOK says of the processes.
RunsTyped ==
  /\ ingest \in [Runs -> RunStates]
  /\ \A r \in Runs : ingest[r].pc # "idle" => ingest[r].g \in Granules
RecoverersTyped ==
  /\ recover \in [Recoverers -> RecovererStates]
  /\ \A p \in Recoverers :
       recover[p].pc \notin {"idle", "raw", "drain"} => recover[p].g \in Granules

RunPcs == {"idle", "download", "upload", "mark_downloaded", "mark_rejected",
           "mark_validated", "create_outbox", "enqueue", "mark_enqueued",
           "complete_outbox", "mark_failed"}
RecovererPcs ==
  {"idle", "raw", "mark_recovery_pending", "mark_rejected", "mark_validated",
   "create_outbox", "drain", "fail_outbox", "mark_enqueued", "complete_outbox"}

\* A step that gives one run a state of its type (process_granule_inner).
LEMMA RunSetType ==
  ASSUME RunsTyped, NEW r \in Runs, NEW state \in RunStates,
         state.pc # "idle" => state.g \in Granules,
         ingest' = [ingest EXCEPT ![r] = state]
  PROVE  RunsTyped'
BY DEF RunsTyped

\* A step that gives one recoverer a state of its type (run_recovery).
LEMMA RecovererSetType ==
  ASSUME RecoverersTyped, NEW p \in Recoverers, NEW state \in RecovererStates,
         state.pc \notin {"idle", "raw", "drain"} => state.g \in Granules,
         recover' = [recover EXCEPT ![p] = state]
  PROVE  RecoverersTyped'
BY DEF RecoverersTyped

\* A process that goes on to its next step keeps its granule.
LEMMA RunGotoType ==
  ASSUME TypeOK, NEW r \in Runs, ~RunAt(r, "idle"), NEW pc \in RunPcs, RunGoto(r, pc)
  PROVE  RunsTyped'
<1> DEFINE state == IF pc = "idle" THEN IdleRun ELSE [ingest[r] EXCEPT !.pc = pc]
<1>1. IdleRun \in RunStates /\ IdleRun.pc = "idle"
  BY DEF IdleRun, RunStates, Bytes
<1>2. pc # "idle" => state \in RunStates /\ state.g \in Granules
  BY DEF TypeOK, RunStates, RunPcs, RunAt
<1>3. ingest' = [ingest EXCEPT ![r] = state]
  BY DEF RunGoto
<1>4. RunsTyped
  BY DEF TypeOK, RunsTyped
<1> QED BY <1>1, <1>2, <1>3, <1>4, RunSetType

\* The same for a step that moves a recoverer on (enqueue_pending_outbox).
LEMMA RecovererGotoType ==
  ASSUME TypeOK, NEW p \in Recoverers, NEW pc \in RecovererPcs, RecovererGoto(p, pc),
         pc \in {"idle", "raw", "drain"}
           \/ recover[p].pc \notin {"idle", "raw", "drain"}
  PROVE  RecoverersTyped'
<1>1. RecoverersTyped
  BY DEF TypeOK, RecoverersTyped
<1>2. CASE pc = "idle"
  <2>1. IdleRecoverer \in RecovererStates /\ IdleRecoverer.pc = "idle"
    BY DEF IdleRecoverer, RecovererStates
  <2> QED BY <1>1, <1>2, <2>1, RecovererSetType DEF RecovererGoto
<1>3. CASE pc \in {"raw", "drain"}
  <2> DEFINE state == [recover[p] EXCEPT !.pc = pc, !.g = NoGranule, !.ob = 0]
  <2>1. state \in RecovererStates /\ state.pc = pc
    BY <1>3 DEF TypeOK, RecovererStates, RecovererPcs
  <2>2. recover' = [recover EXCEPT ![p] = state]
    BY <1>3 DEF RecovererGoto
  <2> HIDE DEF state
  <2> QED BY <1>1, <1>3, <2>1, <2>2, RecovererSetType
<1>4. CASE pc \notin {"idle", "raw", "drain"}
  <2> DEFINE state == [recover[p] EXCEPT !.pc = pc]
  <2>1. recover[p] \in RecovererStates /\ recover[p].g \in Granules
    BY <1>4 DEF TypeOK
  <2>2. state \in RecovererStates
    BY <2>1 DEF RecovererStates, RecovererPcs
  <2>3. state.g \in Granules
    BY <2>1 DEF RecovererStates
  <2>4. recover' = [recover EXCEPT ![p] = state]
    BY <1>4 DEF RecovererGoto
  <2> HIDE DEF state
  <2> QED BY <1>1, <2>2, <2>3, <2>4, RecovererSetType
<1> QED BY <1>2, <1>3, <1>4

\* The steps of a run keep the types.
LEMMA RunTyping ==
  ASSUME TypeOK, NEW r \in Runs, RunStep(r) \/ RunCrash(r)
  PROVE  TypeOK'
<1> DEFINE g == ingest[r].g
<1>1. ~RunAt(r, "idle")
  BY DEF RunStep, RunCrash, RunAt, Download, UploadRaw, MarkDownloaded, MarkRejected,
         MarkValidated, MarkFailed, MarkEnqueued, RunMarks, CreateOutbox,
         EnqueueMessage, CompleteOutbox
<1>2. g \in Granules /\ ingest[r] \in RunStates
  BY <1>1 DEF TypeOK, RunAt
<1>3. ASSUME NEW pc \in RunPcs, RunGoto(r, pc)
      PROVE  RunsTyped'
  BY <1>1, <1>3, RunGotoType
<1> USE DEF RunPcs
<1>4. CASE Download(r)
  <2>1. ASSUME NEW b \in Bytes,
               ingest' = [ingest EXCEPT ![r] = [@ EXCEPT !.pc = "upload", !.bytes = b]]
        PROVE  RunsTyped'
    <3>1. [ingest[r] EXCEPT !.pc = "upload", !.bytes = b] \in RunStates
      BY <1>2 DEF RunStates
    <3> QED BY <1>2, <2>1, <3>1, RunSetType DEF TypeOK, RunsTyped, RunStates
  <2>2. RunsTyped'
    BY <1>3, <1>4, <2>1 DEF Download
  <2>3. faults' \in 0..MaxFaults
    BY <1>4, FaultType DEF Download, TypeOK
  <2> QED BY <1>4, <2>2, <2>3 DEF Download, TypeOK, RunsTyped
<1>5. CASE UploadRaw(r)
  <2>1. RunsTyped'
    BY <1>3, <1>5 DEF UploadRaw
  <2>2. raw' \in [Granules -> Bytes \cup {"none"}]
    BY <1>2, <1>5 DEF UploadRaw, TypeOK, RunStates
  <2>3. faults' \in 0..MaxFaults
    BY <1>5, FaultType DEF UploadRaw, TypeOK
  <2> QED BY <1>5, <2>1, <2>2, <2>3 DEF UploadRaw, TypeOK, RunsTyped
<1>6. ASSUME NEW at, NEW st \in Statuses, NEW next \in RunPcs, RunMarks(r, at, st, next)
      PROVE  TypeOK'
  <2>1. RunsTyped'
    BY <1>3, <1>6 DEF RunMarks
  <2>2. status' \in [Granules -> Statuses \cup {"absent"}]
    BY <1>2, <1>6, StatusType DEF RunMarks
  <2>3. faults' \in 0..MaxFaults
    BY <1>6, FaultType DEF RunMarks, SetStatusFails, TypeOK
  <2> QED BY <1>6, <2>1, <2>2, <2>3 DEF RunMarks, TypeOK, RunsTyped
<1>7. CASE MarkDownloaded(r) \/ MarkRejected(r) \/ MarkValidated(r)
             \/ MarkFailed(r) \/ MarkEnqueued(r)
  BY <1>6, <1>7 DEF MarkDownloaded, MarkRejected, MarkValidated, MarkFailed,
                    MarkEnqueued, Statuses
<1>8. CASE CreateOutbox(r)
  <2>1. Upserted(g) \in Seq(OutboxRecord) /\ UpsertedId(g) \in Nat
    BY <1>2, UpsertedFacts DEF TypeOK
  <2>2. ASSUME ingest' = [ingest EXCEPT
                 ![r] = [@ EXCEPT !.pc = "enqueue", !.ob = UpsertedId(g)]]
        PROVE  RunsTyped'
    <3>1. [ingest[r] EXCEPT !.pc = "enqueue", !.ob = UpsertedId(g)] \in RunStates
      BY <1>2, <2>1 DEF RunStates
    <3> QED BY <1>2, <2>2, <3>1, RunSetType DEF TypeOK, RunsTyped, RunStates
  <2>3. RunsTyped'
    BY <1>3, <1>8, <2>2 DEF CreateOutbox
  <2>4. outbox' \in [Granules -> Seq(OutboxRecord)]
    BY <1>2, <1>8, <2>1, OutboxType DEF CreateOutbox
  <2>5. faults' \in 0..MaxFaults
    BY <1>8, FaultType DEF CreateOutbox, SetOutboxFails, TypeOK
  <2> QED BY <1>8, <2>3, <2>4, <2>5 DEF CreateOutbox, TypeOK, RunsTyped
<1>9. CASE EnqueueMessage(r)
  <2>1. RunsTyped'
    BY <1>3, <1>9 DEF EnqueueMessage
  <2>2. emitted' \in [Granules -> Nat] /\ faults' \in 0..MaxFaults
    BY <1>2, <1>9, EmittedType DEF EnqueueMessage
  <2> QED BY <1>9, <2>1, <2>2 DEF EnqueueMessage, TypeOK, RunsTyped
<1>10. CASE CompleteOutbox(r)
  <2>1. Completed(g, ingest[r].ob) \in Seq(OutboxRecord)
    BY <1>2, CompletedFacts DEF TypeOK
  <2>2. RunsTyped'
    BY <1>3, <1>10 DEF CompleteOutbox
  <2>3. outbox' \in [Granules -> Seq(OutboxRecord)]
    BY <1>2, <1>10, <2>1, OutboxType DEF CompleteOutbox
  <2>4. faults' \in 0..MaxFaults
    BY <1>10, FaultType DEF CompleteOutbox, SetOutboxFails, TypeOK
  <2> QED BY <1>10, <2>2, <2>3, <2>4 DEF CompleteOutbox, TypeOK, RunsTyped
<1>11. CASE RunCrash(r)
  <2>1. RunsTyped' /\ faults' \in 0..MaxFaults
    BY <1>3, <1>11, FaultType DEF RunCrash
  <2> QED BY <1>11, <2>1 DEF RunCrash, TypeOK, RunsTyped
<1> QED BY <1>4, <1>5, <1>7, <1>8, <1>9, <1>10, <1>11 DEF RunStep

\* The steps of a recoverer keep the types.
LEMMA RecovererTyping ==
  ASSUME TypeOK, NEW p \in Recoverers,
         StartRecovery(p) \/ RecovererStep(p) \/ RecovererCrash(p)
           \/ \E h \in Granules : ReplayRejected(p, h)
  PROVE  TypeOK'
<1> DEFINE g == recover[p].g
           Working == recover[p].pc \notin {"idle", "raw", "drain"}
<1>1. recover[p] \in RecovererStates /\ (Working => g \in Granules)
  BY DEF TypeOK
<1>2. RecoverersTyped /\ RunsTyped
  BY DEF TypeOK, RecoverersTyped, RunsTyped
<1>3. ASSUME NEW pc \in RecovererPcs, RecovererGoto(p, pc),
             pc \in {"idle", "raw", "drain"} \/ Working
      PROVE  RecoverersTyped'
  BY <1>3, RecovererGotoType
<1> USE DEF RecovererPcs
<1>4. CASE StartRecovery(p)
  <2> DEFINE state == [recover[p] EXCEPT !.pc = "raw",
                                         !.rows = {h \in Granules : Recoverable(h)}]
  <2>1. state \in RecovererStates /\ state.pc = "raw"
    BY <1>1 DEF RecovererStates
  <2>2. recover' = [recover EXCEPT ![p] = state]
    BY <1>4 DEF StartRecovery
  <2>3. RecoverersTyped'
    BY <1>2, <2>1, <2>2, RecovererSetType
  <2> QED BY <1>4, <2>3 DEF StartRecovery, TypeOK, RecoverersTyped
<1>5. ASSUME NEW h \in Granules, ReadRaw(p, h)
      PROVE  TypeOK'
  <2>1. PICK verdict \in {"mark_recovery_pending", "mark_rejected", "mark_validated"} :
          recover' = [recover EXCEPT ![p] =
            [recover[p] EXCEPT !.pc = verdict, !.g = h, !.rows = recover[p].rows \ {h}]]
    BY <1>5 DEF ReadRaw
  <2> DEFINE state == [recover[p] EXCEPT !.pc = verdict, !.g = h,
                                         !.rows = recover[p].rows \ {h}]
  <2>2. state \in RecovererStates /\ state.g \in Granules
    BY <1>1 DEF RecovererStates
  <2>3. recover' = [recover EXCEPT ![p] = state]
    BY <2>1
  <2>4. RecoverersTyped'
    BY <1>2, <2>2, <2>3, RecovererSetType
  <2>5. faults' \in 0..MaxFaults
    BY <1>5, FaultType DEF ReadRaw, TypeOK
  <2> QED BY <1>5, <2>4, <2>5 DEF ReadRaw, TypeOK, RecoverersTyped
<1>6. ASSUME NEW at \in {"mark_recovery_pending", "mark_rejected", "mark_validated",
                         "mark_enqueued"},
             NEW st \in Statuses, NEW next \in RecovererPcs,
             RecovererMarks(p, at, st, next)
      PROVE  TypeOK'
  <2>1. Working
    BY <1>6 DEF RecovererMarks, RecovererAt
  <2>2. RecoverersTyped'
    BY <1>3, <1>6, <2>1 DEF RecovererMarks
  <2>3. status' \in [Granules -> Statuses \cup {"absent"}]
    BY <1>1, <1>6, <2>1, StatusType DEF RecovererMarks
  <2>4. faults' \in 0..MaxFaults
    BY <1>6, FaultType DEF RecovererMarks, SetStatusFails, TypeOK
  <2> QED BY <1>6, <2>2, <2>3, <2>4 DEF RecovererMarks, TypeOK, RecoverersTyped
<1>7. CASE RecoveryMarkPending(p) \/ RecoveryMarkRejected(p) \/ RecoveryMarkValidated(p)
             \/ DrainMarkEnqueued(p)
  BY <1>6, <1>7 DEF RecoveryMarkPending, RecoveryMarkRejected, RecoveryMarkValidated,
                    DrainMarkEnqueued, Statuses
<1>8. ASSUME NEW at \in {"create_outbox", "complete_outbox", "fail_outbox"},
             NEW records, Working => records \in Seq(OutboxRecord),
             NEW next \in {"raw", "drain"}, RecovererSetsOutbox(p, at, records, next)
      PROVE  TypeOK'
  <2>1. Working
    BY <1>8 DEF RecovererSetsOutbox, RecovererAt
  <2>2. RecoverersTyped'
    BY <1>3, <1>8 DEF RecovererSetsOutbox
  <2>3. outbox' \in [Granules -> Seq(OutboxRecord)]
    BY <1>1, <1>8, <2>1, OutboxType DEF RecovererSetsOutbox
  <2>4. faults' \in 0..MaxFaults
    BY <1>8, FaultType DEF RecovererSetsOutbox, SetOutboxFails, TypeOK
  <2> QED BY <1>8, <2>2, <2>3, <2>4 DEF RecovererSetsOutbox, TypeOK, RecoverersTyped
<1>9. CASE RecoveryCreateOutbox(p) \/ DrainCompleteOutbox(p) \/ DrainFailOutbox(p)
  <2>1. Working => /\ Upserted(g) \in Seq(OutboxRecord)
                   /\ Completed(g, recover[p].ob) \in Seq(OutboxRecord)
                   /\ Failed(g, recover[p].ob) \in Seq(OutboxRecord)
    BY <1>1, UpsertedFacts, CompletedFacts, FailedFacts DEF TypeOK
  <2> QED BY <1>8, <1>9, <2>1
          DEF RecoveryCreateOutbox, DrainCompleteOutbox, DrainFailOutbox
<1>10. ASSUME NEW h \in Granules, ReplayRejected(p, h)
       PROVE  TypeOK'
  <2> DEFINE state == [recover[p] EXCEPT !.pc = "create_outbox", !.g = h]
  <2>1. state \in RecovererStates /\ state.g \in Granules
    BY <1>1 DEF RecovererStates
  <2>2. RecoverersTyped'
    BY <1>2, <1>10, <2>1, RecovererSetType DEF ReplayRejected, RecoverersTyped
  <2>3. status' \in [Granules -> Statuses \cup {"absent"}]
    BY <1>10, StatusType DEF ReplayRejected, Statuses
  <2>4. faults' \in 0..MaxFaults
    BY <1>10, FaultType DEF ReplayRejected, TypeOK
  <2> QED BY <1>10, <2>2, <2>3, <2>4 DEF ReplayRejected, TypeOK, RecoverersTyped
<1>11. CASE SelectOutbox(p)
  <2> DEFINE picked == UNION {{<<h, i>> : i \in Pending(h)} :
                                h \in {k \in Granules : Drainable(k)}}
             state == [recover[p] EXCEPT !.pc = "drain", !.obs = picked]
  <2>1. picked \subseteq Granules \X Nat
    BY DEF Pending
  <2>2. state \in RecovererStates /\ state.pc = "drain"
    BY <1>1, <2>1 DEF RecovererStates
  <2>3. recover' = [recover EXCEPT ![p] = state]
    BY <1>11 DEF SelectOutbox
  <2>4. RecoverersTyped'
    BY <1>2, <2>2, <2>3, RecovererSetType
  <2> QED BY <1>11, <2>4 DEF SelectOutbox, TypeOK, RecoverersTyped
<1>12. ASSUME NEW h, NEW i, DrainEnqueue(p, h, i)
       PROVE  TypeOK'
  <2>1. h \in Granules /\ i \in Nat
    BY <1>1, <1>12 DEF DrainEnqueue, RecovererStates
  <2>2. PICK next \in {"mark_enqueued", "fail_outbox"} :
          recover' = [recover EXCEPT ![p] =
            [recover[p] EXCEPT !.pc = next, !.g = h, !.ob = i,
                               !.obs = recover[p].obs \ {<<h, i>>}]]
    BY <1>12 DEF DrainEnqueue
  <2> DEFINE state == [recover[p] EXCEPT !.pc = next, !.g = h, !.ob = i,
                                         !.obs = recover[p].obs \ {<<h, i>>}]
  <2>3. state \in RecovererStates /\ state.g \in Granules
    BY <1>1, <2>1 DEF RecovererStates
  <2>4. recover' = [recover EXCEPT ![p] = state]
    BY <2>2
  <2>5. RecoverersTyped'
    BY <1>2, <2>3, <2>4, RecovererSetType
  <2>6. emitted' \in [Granules -> Nat] /\ faults' \in 0..MaxFaults
    BY <1>12, <2>1, EmittedType DEF DrainEnqueue
  <2> QED BY <1>12, <2>5, <2>6 DEF DrainEnqueue, TypeOK, RecoverersTyped
<1>13. CASE FinishRecovery(p)
  BY <1>3, <1>13 DEF FinishRecovery, TypeOK, RecoverersTyped
<1>14. CASE RecovererCrash(p)
  BY <1>3, <1>14, FaultType DEF RecovererCrash, TypeOK, RecoverersTyped
<1> QED BY <1>4, <1>5, <1>7, <1>9, <1>10, <1>11, <1>12, <1>13, <1>14 DEF RecovererStep

\* The tables' values stay within their CHECK constraints, and each process
\* within its states, under every statement of the three commands.
THEOREM Typing == Spec => []TypeOK
<1>1. Init => TypeOK
  BY FaultsAssumption
     DEF Init, TypeOK, IdleRun, RunStates, IdleRecoverer, RecovererStates, Bytes
<1>2. ASSUME TypeOK, [Next]_vars
      PROVE  TypeOK'
  <2>1. ASSUME NEW r \in Runs, NEW g \in Granules, InsertDownloadingRow(r, g)
        PROVE  TypeOK'
    <3>1. [ingest[r] EXCEPT !.pc = "download", !.g = g] \in RunStates
      BY <1>2 DEF TypeOK, RunStates
    <3>2. RunsTyped'
      BY <1>2, <2>1, <3>1, RunSetType DEF InsertDownloadingRow, TypeOK, RunsTyped, RunStates
    <3>3. status' \in [Granules -> Statuses \cup {"absent"}]
      BY <1>2, <2>1, StatusType DEF InsertDownloadingRow, Statuses
    <3>4. faults' \in 0..MaxFaults
      BY <1>2, <2>1, FaultType DEF InsertDownloadingRow, TypeOK
    <3> QED BY <1>2, <2>1, <3>2, <3>3, <3>4 DEF InsertDownloadingRow, TypeOK, RunsTyped
  <2>2. CASE UNCHANGED vars
    BY <1>2, <2>2 DEF vars, TypeOK
  <2> QED BY <1>2, <2>1, <2>2, RunTyping, RecovererTyping DEF Next
<1> QED BY <1>1, <1>2, PTL DEF Spec

-----------------------------------------------------------------------------
(* What the bytes at a granule's path say of everything derived from them. *)

\* The bytes passed validation, or an operator replayed the granule.
Vetted(g) == raw[g] = "valid" \/ g \in replayed

\* A row: its status, its outbox records and its messages.
GranuleOK(g) ==
  /\ status[g] = "absent" => raw[g] = "none"
  /\ g \in replayed => raw[g] = "invalid"
  /\ status[g] = "rejected" => raw[g] = "invalid"
  /\ status[g] \in {"validated", "enqueued", "replay_pending"} => Vetted(g)
  /\ outbox[g] # <<>> => Vetted(g)
  /\ emitted[g] > 0 => outbox[g] # <<>>
  /\ emitted[g] = 0 =>
       /\ status[g] # "enqueued"
       /\ \A i \in 1..Len(outbox[g]) : outbox[g][i].status # "completed"

\* A run: what it has established of its granule.
RunOK(r) ==
  LET g == ingest[r].g
      pc == ingest[r].pc
  IN
  /\ pc # "idle" => status[g] # "absent"
  /\ pc \in {"download", "upload"} => raw[g] = "none"
  /\ pc = "mark_downloaded" => raw[g] = ingest[r].bytes
  /\ pc = "mark_rejected" => raw[g] = "invalid"
  /\ pc \in {"mark_validated", "create_outbox", "enqueue", "mark_enqueued",
             "complete_outbox"} => raw[g] = "valid"
  /\ pc \in {"enqueue", "mark_enqueued", "complete_outbox"} => outbox[g] # <<>>
  /\ pc \in {"mark_enqueued", "complete_outbox"} => emitted[g] > 0

\* No two runs have the same granule (uq_ingest_log_product_tile_date).
RunsApart ==
  \A q, r \in Runs :
    q # r /\ ingest[q].pc # "idle" /\ ingest[r].pc # "idle" => ingest[q].g # ingest[r].g

\* A recoverer, of which several may work on one granule.
RecovererOK(p) ==
  LET g == recover[p].g
      pc == recover[p].pc
  IN
  /\ pc = "mark_rejected" => raw[g] = "invalid"
  /\ pc \in {"mark_validated", "create_outbox", "fail_outbox", "mark_enqueued",
             "complete_outbox"} => Vetted(g)
  /\ pc \in {"mark_enqueued", "complete_outbox"} => emitted[g] > 0
  /\ \A h \in Granules, i \in Nat : <<h, i>> \in recover[p].obs => outbox[h] # <<>>

IInv ==
  /\ TypeOK
  /\ \A g \in Granules : GranuleOK(g)
  /\ \A r \in Runs : RunOK(r)
  /\ RunsApart
  /\ \A p \in Recoverers : RecovererOK(p)

\* What no step takes back ...
Grows(g) ==
  /\ status[g] # "absent" => status'[g] # "absent"
  /\ raw[g] # "none" => raw'[g] = raw[g]
  /\ g \in replayed => g \in replayed'
  /\ outbox[g] # <<>> => outbox'[g] # <<>>
  /\ emitted'[g] >= emitted[g]
\* ... and what a step on one granule leaves alone.
Elsewhere(g) ==
  \A h \in Granules \ {g} :
    /\ status'[h] = status[h] /\ outbox'[h] = outbox[h] /\ raw'[h] = raw[h]
    /\ emitted'[h] = emitted[h] /\ (h \in replayed' <=> h \in replayed)

\* A recoverer that takes no step keeps what it has established.
LEMMA RecovererStands ==
  ASSUME TypeOK, TypeOK', NEW p \in Recoverers, RecovererOK(p), recover'[p] = recover[p],
         \A h \in Granules : Grows(h)
  PROVE  RecovererOK(p)'
<1>1. recover[p].pc \notin {"idle", "raw", "drain"} => recover[p].g \in Granules
  BY DEF TypeOK
<1>2. \A h \in Granules :
        /\ raw[h] = "invalid" => raw'[h] = "invalid"
        /\ Vetted(h) => raw'[h] = "valid" \/ h \in replayed'
        /\ emitted[h] > 0 => emitted'[h] > 0
        /\ outbox[h] # <<>> => outbox'[h] # <<>>
  <2> SUFFICES ASSUME NEW h \in Granules
               PROVE  /\ raw[h] = "invalid" => raw'[h] = "invalid"
                      /\ Vetted(h) => raw'[h] = "valid" \/ h \in replayed'
                      /\ emitted[h] > 0 => emitted'[h] > 0
                      /\ outbox[h] # <<>> => outbox'[h] # <<>>
    OBVIOUS
  <2>1. emitted[h] \in Nat /\ emitted'[h] \in Nat
    BY DEF TypeOK
  <2> QED BY <2>1 DEF Grows, Vetted
<1> DEFINE g == recover[p].g
           pc == recover[p].pc
<1>3. /\ pc = "mark_rejected" => raw[g] = "invalid"
      /\ pc \in {"mark_validated", "create_outbox", "fail_outbox", "mark_enqueued",
                 "complete_outbox"} => Vetted(g)
      /\ pc \in {"mark_enqueued", "complete_outbox"} => emitted[g] > 0
      /\ \A h \in Granules, i \in Nat : <<h, i>> \in recover[p].obs => outbox[h] # <<>>
  BY DEF RecovererOK
<1>4. /\ pc = "mark_rejected" => raw'[g] = "invalid"
      /\ pc \in {"mark_validated", "create_outbox", "fail_outbox", "mark_enqueued",
                 "complete_outbox"} => raw'[g] = "valid" \/ g \in replayed'
      /\ pc \in {"mark_enqueued", "complete_outbox"} => emitted'[g] > 0
      /\ \A h \in Granules, i \in Nat : <<h, i>> \in recover[p].obs => outbox'[h] # <<>>
  <2> HIDE DEF g, pc
  <2>1. pc \notin {"idle", "raw", "drain"} => g \in Granules
    BY <1>1 DEF g, pc
  <2>2. pc = "mark_rejected" => raw'[g] = "invalid"
    BY <1>2, <1>3, <2>1
  <2>3. pc \in {"mark_validated", "create_outbox", "fail_outbox", "mark_enqueued",
                "complete_outbox"} => raw'[g] = "valid" \/ g \in replayed'
    BY <1>2, <1>3, <2>1
  <2>4. pc \in {"mark_enqueued", "complete_outbox"} => emitted'[g] > 0
    BY <1>2, <1>3, <2>1
  <2>5. \A h \in Granules, i \in Nat : <<h, i>> \in recover[p].obs => outbox'[h] # <<>>
    BY <1>2, <1>3, Zenon
  <2> QED BY <2>2, <2>3, <2>4, <2>5
<1> QED BY <1>4 DEF RecovererOK, Vetted

\* A step of a run on its granule preserves the invariant if it does for the
\* row and the run.
LEMMA RunFrame ==
  ASSUME IInv, TypeOK', NEW r \in Runs, NEW g \in Granules,
         \A q \in Runs \ {r} : ingest[q].pc # "idle" => ingest[q].g # g,
         \A q \in Runs \ {r} : ingest'[q] = ingest[q],
         ingest'[r].pc # "idle" => ingest'[r].g = g,
         UNCHANGED recover,
         Grows(g), Elsewhere(g), GranuleOK(g)', RunOK(r)'
  PROVE  IInv'
<1> USE DEF IInv, Elsewhere
<1>1. ASSUME NEW h \in Granules
      PROVE  GranuleOK(h)'
  <2>1. CASE h # g
    BY <2>1 DEF GranuleOK, Vetted
  <2> QED BY <2>1
<1>2. ASSUME NEW q \in Runs
      PROVE  RunOK(q)'
  <2>1. CASE q # r /\ ingest[q].pc # "idle"
    <3>1. ingest[q].g \in Granules \ {g} /\ ingest'[q] = ingest[q]
      BY <2>1 DEF TypeOK
    <3> QED BY <3>1 DEF RunOK
  <2>2. CASE q # r /\ ingest[q].pc = "idle"
    BY <2>2 DEF RunOK
  <2> QED BY <2>1, <2>2
<1>3. RunsApart'
  BY DEF RunsApart
<1>4. ASSUME NEW p \in Recoverers
      PROVE  RecovererOK(p)'
  <2>1. \A h \in Granules : Grows(h)
    BY DEF Grows, TypeOK
  <2> QED BY <2>1, RecovererStands
<1> QED BY <1>1, <1>2, <1>3, <1>4

\* A step of a recoverer on a granule likewise; it never touches the raw blob.
LEMMA RecovererFrame ==
  ASSUME IInv, TypeOK', NEW p \in Recoverers, NEW g \in Granules,
         \A q \in Recoverers \ {p} : recover'[q] = recover[q],
         UNCHANGED <<ingest, raw>>,
         Grows(g), Elsewhere(g), GranuleOK(g)', RecovererOK(p)'
  PROVE  IInv'
<1> USE DEF IInv, Elsewhere
<1>1. ASSUME NEW h \in Granules
      PROVE  GranuleOK(h)'
  <2>1. CASE h # g
    BY <2>1 DEF GranuleOK, Vetted
  <2> QED BY <2>1
<1>2. \A h \in Granules : Grows(h)
  BY DEF Grows, TypeOK
<1>3. ASSUME NEW r \in Runs
      PROVE  RunOK(r)'
  BY <1>2 DEF RunOK, Grows, TypeOK
<1>4. RunsApart'
  BY DEF RunsApart
<1>5. ASSUME NEW q \in Recoverers \ {p}
      PROVE  RecovererOK(q)'
  BY <1>2, RecovererStands
<1> QED BY <1>1, <1>3, <1>4, <1>5

\* The steps of a run preserve the invariant.
LEMMA RunVetting ==
  ASSUME IInv, TypeOK', NEW r \in Runs, RunStep(r) \/ RunCrash(r)
  PROVE  IInv'
<1>1. ~RunAt(r, "idle")
  BY DEF RunStep, RunCrash, RunAt, Download, UploadRaw, MarkDownloaded, MarkRejected,
         MarkValidated, MarkFailed, MarkEnqueued, RunMarks, CreateOutbox,
         EnqueueMessage, CompleteOutbox
<1>2. PICK g \in Granules : g = ingest[r].g
  BY <1>1 DEF IInv, TypeOK, RunAt
<1>3. /\ \A q \in Runs \ {r} : ingest[q].pc # "idle" => ingest[q].g # g
      /\ GranuleOK(g) /\ RunOK(r) /\ status[g] # "absent"
  BY <1>1, <1>2 DEF IInv, RunsApart, RunAt, RunOK
<1>4. IdleRun.pc = "idle"
  BY DEF IdleRun
<1>5. ASSUME NEW pc \in RunPcs, RunGoto(r, pc)
      PROVE  /\ \A q \in Runs \ {r} : ingest'[q] = ingest[q]
             /\ ingest'[r].pc = pc
             /\ pc # "idle" => ingest'[r].g = g /\ ingest'[r].bytes = ingest[r].bytes
  BY <1>2, <1>4, <1>5 DEF RunGoto, IInv, TypeOK, RunStates, RunPcs
<1>6. SUFFICES /\ \A q \in Runs \ {r} : ingest'[q] = ingest[q]
               /\ ingest'[r].pc # "idle" => ingest'[r].g = g
               /\ UNCHANGED recover
               /\ Grows(g) /\ Elsewhere(g) /\ GranuleOK(g)' /\ RunOK(r)'
  BY <1>3, RunFrame
<1> USE DEF Grows, Elsewhere, GranuleOK, RunOK, Vetted, RunPcs
<1>7. CASE Download(r)
  <2>1. ASSUME NEW b \in Bytes,
               ingest' = [ingest EXCEPT ![r] = [@ EXCEPT !.pc = "upload", !.bytes = b]]
        PROVE  /\ \A q \in Runs \ {r} : ingest'[q] = ingest[q]
               /\ ingest'[r].pc = "upload" /\ ingest'[r].g = g
    BY <1>2, <2>1 DEF IInv, TypeOK, RunStates
  <2>2. /\ \A q \in Runs \ {r} : ingest'[q] = ingest[q]
        /\ ingest'[r].pc \in {"upload", "mark_failed"} /\ ingest'[r].g = g
    BY <1>5, <1>7, <2>1 DEF Download
  <2>3. UNCHANGED <<status, outbox, raw, emitted, replayed, recover>>
    BY <1>7 DEF Download
  <2>4. raw[g] = "none" /\ emitted[g] \in Nat
    BY <1>2, <1>3, <1>7 DEF Download, RunAt, IInv, TypeOK
  <2> QED BY <1>3, <2>2, <2>3, <2>4
<1>8. CASE UploadRaw(r)
  <2>1. /\ \A q \in Runs \ {r} : ingest'[q] = ingest[q]
        /\ ingest'[r].g = g /\ ingest'[r].bytes = ingest[r].bytes
        /\ ingest'[r].pc \in {"mark_downloaded", "mark_failed"}
        /\ ingest'[r].pc = "mark_downloaded" => raw'[g] = ingest[r].bytes
    BY <1>2, <1>5, <1>8 DEF UploadRaw, IInv, TypeOK
  <2>2. raw[g] = "none"
    BY <1>2, <1>3, <1>8 DEF UploadRaw, RunAt
  <2>3. UNCHANGED <<status, outbox, emitted, replayed, recover>>
    BY <1>8 DEF UploadRaw
  <2>4. Grows(g) /\ Elsewhere(g)
    BY <1>2, <1>8, <2>2, <2>3 DEF UploadRaw, IInv, TypeOK
  <2>5. GranuleOK(g)'
    BY <1>3, <2>2, <2>3
  <2>6. RunOK(r)'
    BY <1>3, <2>1, <2>3
  <2> QED BY <2>1, <2>3, <2>4, <2>5, <2>6
<1>9. ASSUME NEW at, NEW st \in Statuses, NEW next \in RunPcs, RunMarks(r, at, st, next)
      PROVE  /\ \A q \in Runs \ {r} : ingest'[q] = ingest[q]
             /\ ingest'[r].pc # "idle" =>
                  /\ ingest'[r].pc = next /\ ingest'[r].g = g
             /\ ingest[r].pc = at
             /\ UNCHANGED <<outbox, raw, emitted, replayed, recover>>
             /\ status'[g] \in {st, status[g]}
             /\ Grows(g) /\ Elsewhere(g)
  <2>1. /\ status'[g] \in {st, status[g]} /\ st # "absent"
        /\ \A h \in Granules \ {g} : status'[h] = status[h]
    BY <1>2, <1>9 DEF RunMarks, SetStatus, SetStatusFails, IInv, TypeOK, Statuses
  <2>2. UNCHANGED <<outbox, raw, emitted, replayed, recover>>
    BY <1>9 DEF RunMarks
  <2>3. Grows(g) /\ Elsewhere(g)
    BY <2>1, <2>2 DEF IInv, TypeOK
  <2> QED BY <1>5, <1>9, <2>1, <2>2, <2>3 DEF RunMarks, RunAt
<1>10. CASE MarkDownloaded(r)
  <2> DEFINE next == IF ingest[r].bytes = "valid" THEN "mark_validated" ELSE "mark_rejected"
  <2>1. /\ raw[g] = ingest[r].bytes
        /\ raw[g] \in {"valid", "invalid"}
    BY <1>2, <1>3, <1>10
       DEF MarkDownloaded, RunMarks, RunAt, IInv, TypeOK, RunStates, Bytes
  <2>2. next \in RunPcs /\ RunMarks(r, "mark_downloaded", "downloaded", next)
    BY <1>10 DEF MarkDownloaded
  <2>3. /\ next = "mark_validated" => raw[g] = "valid"
        /\ next = "mark_rejected" => raw[g] = "invalid"
        /\ next \in {"mark_validated", "mark_rejected"}
    BY <2>1
  <2> HIDE DEF next
  <2>4. /\ \A q \in Runs \ {r} : ingest'[q] = ingest[q]
        /\ ingest'[r].pc # "idle" => ingest'[r].pc = next /\ ingest'[r].g = g
        /\ UNCHANGED <<outbox, raw, emitted, replayed, recover>>
        /\ status'[g] \in {"downloaded", status[g]}
        /\ Grows(g) /\ Elsewhere(g)
    <3> HIDE DEF Grows, Elsewhere
    <3> QED BY <1>9, <2>2, SMTT(30) DEF Statuses
  <2>5. GranuleOK(g)'
    BY <1>3, <2>1, <2>4
  <2>6. RunOK(r)'
    BY <1>3, <2>1, <2>3, <2>4
  <2> HIDE DEF Grows, Elsewhere, GranuleOK, RunOK
  <2> QED BY <2>4, <2>5, <2>6
<1>11. CASE MarkRejected(r)
  <2>1. raw[g] = "invalid"
    BY <1>2, <1>3, <1>11 DEF MarkRejected, RunMarks, RunAt
  <2>2. /\ \A q \in Runs \ {r} : ingest'[q] = ingest[q]
        /\ ingest'[r].pc # "idle" => ingest'[r].pc = "idle" /\ ingest'[r].g = g
        /\ UNCHANGED <<outbox, raw, emitted, replayed, recover>>
        /\ status'[g] \in {"rejected", status[g]}
        /\ Grows(g) /\ Elsewhere(g)
    <3>1. RunMarks(r, "mark_rejected", "rejected", "idle")
      BY <1>11 DEF MarkRejected
    <3> HIDE DEF Grows, Elsewhere
    <3> QED BY <1>9, <3>1 DEF Statuses
  <2>3. GranuleOK(g)'
    BY <1>3, <2>1, <2>2
  <2>4. RunOK(r)'
    BY <1>3, <2>1, <2>2
  <2> HIDE DEF Grows, Elsewhere, GranuleOK, RunOK
  <2> QED BY <2>2, <2>3, <2>4
<1>12. CASE MarkValidated(r)
  <2>1. raw[g] = "valid"
    BY <1>2, <1>3, <1>12 DEF MarkValidated, RunMarks, RunAt
  <2>2. /\ \A q \in Runs \ {r} : ingest'[q] = ingest[q]
        /\ ingest'[r].pc # "idle" => ingest'[r].pc = "create_outbox" /\ ingest'[r].g = g
        /\ UNCHANGED <<outbox, raw, emitted, replayed, recover>>
        /\ status'[g] \in {"validated", status[g]}
        /\ Grows(g) /\ Elsewhere(g)
    <3>1. RunMarks(r, "mark_validated", "validated", "create_outbox")
      BY <1>12 DEF MarkValidated
    <3> HIDE DEF Grows, Elsewhere
    <3> QED BY <1>9, <3>1 DEF Statuses
  <2>3. GranuleOK(g)'
    BY <1>3, <2>1, <2>2
  <2>4. RunOK(r)'
    BY <1>3, <2>1, <2>2
  <2> HIDE DEF Grows, Elsewhere, GranuleOK, RunOK
  <2> QED BY <2>2, <2>3, <2>4
<1>13. CASE MarkFailed(r)
  <2>1. ingest[r].pc = "mark_failed"
    BY <1>13 DEF MarkFailed, RunMarks, RunAt
  <2>2. /\ \A q \in Runs \ {r} : ingest'[q] = ingest[q]
        /\ ingest'[r].pc # "idle" => ingest'[r].pc = "idle" /\ ingest'[r].g = g
        /\ UNCHANGED <<outbox, raw, emitted, replayed, recover>>
        /\ status'[g] \in {"failed", status[g]}
        /\ Grows(g) /\ Elsewhere(g)
    <3>1. RunMarks(r, "mark_failed", "failed", "idle")
      BY <1>13 DEF MarkFailed
    <3> HIDE DEF Grows, Elsewhere
    <3> QED BY <1>9, <3>1 DEF Statuses
  <2>3. GranuleOK(g)'
    BY <1>3, <2>1, <2>2
  <2>4. RunOK(r)'
    BY <1>3, <2>1, <2>2
  <2> HIDE DEF Grows, Elsewhere, GranuleOK, RunOK
  <2> QED BY <2>2, <2>3, <2>4
<1>14. CASE MarkEnqueued(r)
  <2>1. raw[g] = "valid" /\ outbox[g] # <<>> /\ emitted[g] > 0
    BY <1>2, <1>3, <1>14 DEF MarkEnqueued, RunMarks, RunAt
  <2>2. /\ \A q \in Runs \ {r} : ingest'[q] = ingest[q]
        /\ ingest'[r].pc # "idle" => ingest'[r].pc = "complete_outbox" /\ ingest'[r].g = g
        /\ UNCHANGED <<outbox, raw, emitted, replayed, recover>>
        /\ status'[g] \in {"enqueued", status[g]}
        /\ Grows(g) /\ Elsewhere(g)
    <3>1. RunMarks(r, "mark_enqueued", "enqueued", "complete_outbox")
      BY <1>14 DEF MarkEnqueued
    <3> HIDE DEF Grows, Elsewhere
    <3> QED BY <1>9, <3>1 DEF Statuses
  <2>3. GranuleOK(g)'
    BY <1>3, <2>1, <2>2
  <2>4. RunOK(r)'
    BY <1>3, <2>1, <2>2
  <2> HIDE DEF Grows, Elsewhere, GranuleOK, RunOK
  <2> QED BY <2>2, <2>3, <2>4
<1>15. CASE CreateOutbox(r)
  <2>1. /\ outbox[g] \in Seq(OutboxRecord)
        /\ raw[g] = "valid"
    BY <1>2, <1>3, <1>15 DEF CreateOutbox, RunAt, IInv, TypeOK
  <2> DEFINE Moved == /\ \A q \in Runs \ {r} : ingest'[q] = ingest[q]
                      /\ ingest'[r].g = g /\ ingest'[r].pc \in {"enqueue", "mark_failed"}
                      /\ ingest'[r].pc = "enqueue" => outbox'[g] = Upserted(g)
  <2>2. ASSUME RunGoto(r, "mark_failed")
        PROVE  Moved
    BY <1>5, <2>2
  <2>3. ASSUME SetOutbox(g, Upserted(g)),
               ingest' = [ingest EXCEPT
                 ![r] = [@ EXCEPT !.pc = "enqueue", !.ob = UpsertedId(g)]]
        PROVE  Moved
    <3>1. outbox'[g] = Upserted(g)
      BY <2>3 DEF SetOutbox, IInv, TypeOK
    <3> QED BY <1>2, <2>3, <3>1 DEF IInv, TypeOK, RunStates
  <2>4. Moved
    BY <1>2, <1>15, <2>2, <2>3 DEF CreateOutbox
  <2>5. UNCHANGED <<status, raw, emitted, replayed, recover>>
    BY <1>15 DEF CreateOutbox
  <2>6. /\ outbox'[g] \in {Upserted(g), outbox[g]}
        /\ \A h \in Granules \ {g} : outbox'[h] = outbox[h]
    BY <1>2, <1>15 DEF CreateOutbox, SetOutbox, SetOutboxFails, IInv, TypeOK
  <2>7. Grows(g) /\ Elsewhere(g)
    BY <2>1, <2>5, <2>6, UpsertedFacts DEF IInv, TypeOK
  <2>8. GranuleOK(g)'
    BY <1>3, <2>1, <2>5, <2>6, UpsertedFacts
  <2>9. RunOK(r)'
    BY <1>3, <2>1, <2>4, <2>5, UpsertedFacts
  <2> QED BY <2>4, <2>5, <2>7, <2>8, <2>9
<1>16. CASE EnqueueMessage(r)
  <2>1. raw[g] = "valid" /\ outbox[g] # <<>> /\ emitted[g] \in Nat
    BY <1>2, <1>3, <1>16 DEF EnqueueMessage, RunAt, IInv, TypeOK
  <2>2. /\ \A q \in Runs \ {r} : ingest'[q] = ingest[q]
        /\ ingest'[r].g = g /\ ingest'[r].pc \in {"mark_enqueued", "mark_failed"}
        /\ ingest'[r].pc = "mark_enqueued" => emitted'[g] > 0
    BY <1>2, <1>5, <1>16, <2>1 DEF EnqueueMessage, Enqueue, IInv, TypeOK
  <2>3. UNCHANGED <<status, outbox, raw, replayed, recover>>
    BY <1>16 DEF EnqueueMessage
  <2>4. /\ emitted'[g] >= emitted[g]
        /\ \A h \in Granules \ {g} : emitted'[h] = emitted[h]
    BY <1>2, <1>16, <2>1 DEF EnqueueMessage, Enqueue, EnqueueFails, IInv, TypeOK
  <2>5. GranuleOK(g)' /\ RunOK(r)'
    BY <1>3, <2>1, <2>2, <2>3, <2>4
  <2> QED BY <2>2, <2>3, <2>4, <2>5
<1>17. CASE CompleteOutbox(r)
  <2>1. /\ outbox[g] \in Seq(OutboxRecord) /\ outbox[g] # <<>>
        /\ raw[g] = "valid" /\ emitted[g] > 0
    BY <1>2, <1>3, <1>17 DEF CompleteOutbox, RunAt, IInv, TypeOK
  <2>2. PICK i : outbox'[g] \in {Completed(g, i), outbox[g]}
    BY <1>2, <1>17 DEF CompleteOutbox, SetOutbox, SetOutboxFails, IInv, TypeOK
  <2>3. /\ UNCHANGED <<status, raw, emitted, replayed, recover>>
        /\ \A h \in Granules \ {g} : outbox'[h] = outbox[h]
    BY <1>2, <1>17 DEF CompleteOutbox, SetOutbox, SetOutboxFails, IInv, TypeOK
  <2>4. outbox'[g] # <<>>
    BY <2>1, <2>2, CompletedFacts, EmptySeq
  <2>5. GranuleOK(g)' /\ Grows(g) /\ Elsewhere(g)
    BY <1>3, <2>1, <2>3, <2>4 DEF IInv, TypeOK
  <2> QED BY <1>5, <1>17, <2>3, <2>5 DEF CompleteOutbox
<1>18. CASE RunCrash(r)
  BY <1>3, <1>5, <1>18 DEF RunCrash, IInv, TypeOK
<1> QED BY <1>7, <1>8, <1>10, <1>11, <1>12, <1>13, <1>14, <1>15, <1>16, <1>17, <1>18
        DEF RunStep
\* The steps of a recoverer preserve the invariant.
LEMMA RecovererVetting ==
  ASSUME IInv, TypeOK', NEW p \in Recoverers,
         StartRecovery(p) \/ RecovererStep(p) \/ RecovererCrash(p)
           \/ \E h \in Granules : ReplayRejected(p, h)
  PROVE  IInv'
<1> DEFINE pc == recover[p].pc
           Working == pc \notin {"idle", "raw", "drain"}
           Others == \A q \in Recoverers \ {p} : recover'[q] = recover[q]
           SameTables == UNCHANGED <<status, outbox, raw, emitted, replayed, ingest>>
<1>1. /\ recover[p] \in RecovererStates /\ RecovererOK(p)
      /\ Working => recover[p].g \in Granules
      /\ \A h \in Granules : GranuleOK(h) /\ emitted[h] \in Nat
      /\ \A h \in Granules : outbox[h] \in Seq(OutboxRecord)
  BY DEF IInv, TypeOK
<1>2. ASSUME NEW next \in RecovererPcs, RecovererGoto(p, next)
      PROVE  /\ Others
             /\ recover'[p].pc = next
             /\ next \notin {"idle", "raw", "drain"} => recover'[p].g = recover[p].g
             /\ recover'[p].obs \in {{}, recover[p].obs}
  BY <1>2 DEF RecovererGoto, IdleRecoverer, IInv, TypeOK, RecovererStates, RecovererPcs
\* A step that only moves the recoverer.
<1>3. ASSUME Others, SameTables, RecovererOK(p)'
      PROVE  IInv'
  BY <1>3 DEF IInv, GranuleOK, RunOK, RunsApart, RecovererOK, Vetted
<1>4. CASE StartRecovery(p)
  <2>1. Others /\ SameTables /\ recover'[p].pc = "raw" /\ recover'[p].obs = recover[p].obs
    BY <1>1, <1>4 DEF StartRecovery, IInv, TypeOK, RecovererStates
  <2> QED BY <1>1, <1>3, <2>1 DEF RecovererOK
<1>5. ASSUME NEW h \in Granules, ReadRaw(p, h)
      PROVE  IInv'
  <2>1. Others /\ SameTables
    BY <1>5 DEF ReadRaw, IInv, TypeOK
  <2>2. /\ recover'[p].g = h /\ recover'[p].obs = recover[p].obs
        /\ \/ recover'[p].pc = "mark_recovery_pending"
           \/ recover'[p].pc = "mark_rejected" /\ raw[h] = "invalid"
           \/ recover'[p].pc = "mark_validated" /\ raw[h] = "valid"
    BY <1>1, <1>5 DEF ReadRaw, IInv, TypeOK, RecovererStates
  <2> QED BY <1>1, <1>3, <2>1, <2>2 DEF RecovererOK, Vetted
<1>6. CASE SelectOutbox(p)
  <2> DEFINE picked == UNION {{<<h, i>> : i \in Pending(h)} :
                                h \in {k \in Granules : Drainable(k)}}
  <2>1. Others /\ SameTables /\ recover'[p].pc = "drain" /\ recover'[p].obs = picked
    BY <1>1, <1>6 DEF SelectOutbox, IInv, TypeOK, RecovererStates
  <2>2. \A h \in Granules, i \in Nat : <<h, i>> \in picked => i \in Pending(h)
    OBVIOUS
  <2>3. \A h \in Granules, i \in Nat : <<h, i>> \in picked => outbox[h] # <<>>
    BY <1>1, <2>2, EmptySeq DEF Pending
  <2> QED BY <1>3, <2>1, <2>3 DEF RecovererOK
<1>7. CASE FinishRecovery(p) \/ RecovererCrash(p)
  <2>1. RecovererGoto(p, "idle") /\ SameTables
    BY <1>7 DEF FinishRecovery, RecovererCrash
  <2> QED BY <1>1, <1>2, <1>3, <2>1 DEF RecovererOK, RecovererPcs
\* A status update.
<1>8. ASSUME NEW at \in {"mark_recovery_pending", "mark_rejected", "mark_validated",
                         "mark_enqueued"},
             NEW st \in Statuses, NEW next \in RecovererPcs,
             RecovererMarks(p, at, st, next),
             next \in {"raw", "create_outbox", "complete_outbox"},
             st \in {"validated", "enqueued"} => Vetted(recover[p].g),
             st = "enqueued" \/ next = "complete_outbox" => emitted[recover[p].g] > 0,
             next \in {"create_outbox", "complete_outbox"} => Vetted(recover[p].g),
             st = "rejected" => raw[recover[p].g] = "invalid",
             st # "replay_pending"
      PROVE  IInv'
  <2>1. PICK g \in Granules : g = recover[p].g
    BY <1>1, <1>8 DEF RecovererMarks, RecovererAt
  <2>2. /\ status'[g] \in {st, status[g]} /\ st # "absent"
        /\ \A h \in Granules \ {g} : status'[h] = status[h]
    BY <1>8, <2>1 DEF RecovererMarks, SetStatus, SetStatusFails, IInv, TypeOK, Statuses
  <2>3. UNCHANGED <<outbox, raw, emitted, replayed, ingest>>
    BY <1>8 DEF RecovererMarks
  <2>4. /\ Others /\ recover'[p].pc \in {next, "idle"}
        /\ next # "raw" /\ recover'[p].pc = next => recover'[p].g = g
        /\ recover'[p].obs \in {{}, recover[p].obs}
    BY <1>2, <1>8, <2>1 DEF RecovererMarks, RecovererPcs
  <2>5. Grows(g) /\ Elsewhere(g)
    BY <1>1, <2>2, <2>3 DEF Grows, Elsewhere
  <2>6. GranuleOK(g)'
    BY <1>1, <1>8, <2>1, <2>2, <2>3 DEF GranuleOK, Vetted
  <2>7. RecovererOK(p)'
    BY <1>1, <1>8, <2>1, <2>3, <2>4 DEF RecovererOK, Vetted
  <2> QED BY <2>3, <2>4, <2>5, <2>6, <2>7, RecovererFrame
<1>9. CASE RecoveryMarkPending(p) \/ RecoveryMarkRejected(p) \/ RecoveryMarkValidated(p)
             \/ DrainMarkEnqueued(p)
  BY <1>1, <1>8, <1>9
     DEF RecoveryMarkPending, RecoveryMarkRejected, RecoveryMarkValidated,
         DrainMarkEnqueued, RecovererMarks, RecovererAt, RecovererOK, RecovererPcs, Statuses
\* An outbox update.
<1>10. ASSUME NEW g \in Granules, g = recover[p].g, Vetted(g),
              NEW next \in {"raw", "drain"},
              NEW records \in Seq(OutboxRecord), Len(records) >= Len(outbox[g]),
              emitted[g] = 0 => \A i \in 1..Len(records) : records[i].status # "completed",
              NEW at, RecovererSetsOutbox(p, at, records, next)
       PROVE  IInv'
  <2>1. /\ outbox'[g] \in {records, outbox[g]}
        /\ \A h \in Granules \ {g} : outbox'[h] = outbox[h]
    BY <1>10 DEF RecovererSetsOutbox, SetOutbox, SetOutboxFails, IInv, TypeOK
  <2>2. UNCHANGED <<status, raw, emitted, replayed, ingest>>
    BY <1>10 DEF RecovererSetsOutbox
  <2>3. /\ Others /\ recover'[p].pc \in {"raw", "drain", "idle"}
        /\ recover'[p].obs \in {{}, recover[p].obs}
    BY <1>2, <1>10 DEF RecovererSetsOutbox, RecovererPcs
  <2>4. outbox[g] # <<>> => outbox'[g] # <<>>
    BY <1>1, <1>10, <2>1, EmptySeq
  <2>5. Grows(g) /\ Elsewhere(g)
    BY <1>1, <2>1, <2>2, <2>4 DEF Grows, Elsewhere
  <2>6. GranuleOK(g)'
    BY <1>1, <1>10, <2>1, <2>2, <2>4 DEF GranuleOK, Vetted
  <2>7. RecovererOK(p)'
    BY <1>1, <2>1, <2>3, <2>4 DEF RecovererOK
  <2> QED BY <2>2, <2>3, <2>5, <2>6, <2>7, RecovererFrame
<1>11. CASE RecoveryCreateOutbox(p)
  <2>1. PICK g \in Granules : g = recover[p].g /\ Vetted(g)
    BY <1>1, <1>11 DEF RecoveryCreateOutbox, RecovererSetsOutbox, RecovererAt, RecovererOK
  <2>2. emitted[g] = 0 =>
          \A i \in 1..Len(Upserted(g)) : Upserted(g)[i].status # "completed"
    BY <1>1, UpsertedFacts DEF GranuleOK
  <2> QED BY <1>1, <1>10, <1>11, <2>1, <2>2, UpsertedFacts DEF RecoveryCreateOutbox
<1>12. CASE DrainCompleteOutbox(p)
  <2>1. PICK g \in Granules : g = recover[p].g /\ Vetted(g) /\ emitted[g] > 0
    BY <1>1, <1>12 DEF DrainCompleteOutbox, RecovererSetsOutbox, RecovererAt, RecovererOK
  <2>2. /\ Completed(g, recover[p].ob) \in Seq(OutboxRecord)
        /\ Len(Completed(g, recover[p].ob)) >= Len(outbox[g])
    BY <1>1, CompletedFacts, LenProperties
  <2> QED BY <1>10, <1>12, <2>1, <2>2 DEF DrainCompleteOutbox
<1>13. CASE DrainFailOutbox(p)
  <2>1. PICK g \in Granules : g = recover[p].g /\ Vetted(g)
    BY <1>1, <1>13 DEF DrainFailOutbox, RecovererSetsOutbox, RecovererAt, RecovererOK
  <2> DEFINE failed == Failed(g, recover[p].ob)
  <2>2. /\ failed \in Seq(OutboxRecord)
        /\ Len(failed) >= Len(outbox[g])
        /\ emitted[g] = 0 => \A i \in 1..Len(failed) : failed[i].status # "completed"
    BY <1>1, FailedFacts, LenProperties DEF GranuleOK
  <2>3. RecovererSetsOutbox(p, "fail_outbox", failed, "drain")
    BY <1>13, <2>1 DEF DrainFailOutbox
  <2> HIDE DEF failed
  <2> QED BY <1>10, <2>1, <2>2, <2>3
<1>14. ASSUME NEW g \in Granules, ReplayRejected(p, g)
       PROVE  IInv'
  <2>a. /\ status' = [status EXCEPT ![g] = "replay_pending"]
        /\ status[g] = "rejected"
        /\ replayed' = replayed \cup {g}
        /\ UNCHANGED <<outbox, raw, emitted, ingest>>
    BY <1>14 DEF ReplayRejected, SetStatus
  <2>b. raw[g] = "invalid"
    BY <1>1, <2>a DEF GranuleOK
  <2>1. /\ status'[g] = "replay_pending" /\ raw[g] = "invalid"
        /\ \A h \in Granules \ {g} : status'[h] = status[h]
        /\ replayed' = replayed \cup {g}
        /\ UNCHANGED <<outbox, raw, emitted, ingest>>
    BY <2>a, <2>b DEF IInv, TypeOK
  <2> DEFINE Moved == /\ Others /\ recover'[p].obs = recover[p].obs
                      /\ \/ recover'[p].pc = "create_outbox" /\ recover'[p].g = g
                         \/ recover'[p].pc = "idle"
  <2>2. ASSUME recover' = [recover EXCEPT ![p] = [@ EXCEPT !.pc = "create_outbox", !.g = g]]
        PROVE  Moved
    BY <1>1, <2>2 DEF IInv, TypeOK, RecovererStates
  <2>3. ASSUME UNCHANGED recover
        PROVE  Moved
    BY <1>14, <2>3 DEF ReplayRejected, RecovererAt
  <2>4. Moved
    BY <1>14, <2>2, <2>3 DEF ReplayRejected
  <2>5. Grows(g) /\ Elsewhere(g)
    BY <1>1, <2>1 DEF Grows, Elsewhere
  <2>6. GranuleOK(g)'
    BY <1>1, <2>1 DEF GranuleOK, Vetted
  <2>7. RecovererOK(p)'
    BY <1>1, <2>1, <2>4 DEF RecovererOK, Vetted
  <2>8. Others
    BY <2>4
  <2> HIDE DEF Moved
  <2> QED BY <2>1, <2>5, <2>6, <2>7, <2>8, RecovererFrame
<1>15. ASSUME NEW record \in recover[p].obs, DrainEnqueue(p, record[1], record[2])
       PROVE  IInv'
  <2>1. PICK g \in Granules, i \in Nat : record = <<g, i>>
    BY <1>1 DEF RecovererStates
  <2>2. outbox[g] # <<>> /\ Vetted(g)
    BY <1>1, <2>1 DEF RecovererOK, GranuleOK
  <2>a. /\ Enqueue(g) \/ EnqueueFails(g)
        /\ UNCHANGED <<status, outbox, raw, replayed, ingest>>
    BY <1>15, <2>1 DEF DrainEnqueue
  <2>b. /\ emitted'[g] >= emitted[g]
        /\ \A h \in Granules \ {g} : emitted'[h] = emitted[h]
    BY <1>1, <2>a DEF Enqueue, EnqueueFails, IInv, TypeOK
  <2>3. /\ emitted'[g] >= emitted[g]
        /\ \A h \in Granules \ {g} : emitted'[h] = emitted[h]
        /\ UNCHANGED <<status, outbox, raw, replayed, ingest>>
    BY <2>a, <2>b
  <2>4. /\ Others /\ recover'[p].g = g
        /\ recover'[p].pc \in {"mark_enqueued", "fail_outbox"}
        /\ recover'[p].obs \subseteq recover[p].obs
    BY <1>1, <1>15, <2>1 DEF DrainEnqueue, IInv, TypeOK, RecovererStates
  <2>5. recover'[p].pc = "mark_enqueued" => emitted'[g] > 0
    BY <1>1, <1>15, <2>1 DEF DrainEnqueue, Enqueue, IInv, TypeOK, RecovererStates
  <2>6. Grows(g) /\ Elsewhere(g)
    BY <2>3 DEF Grows, Elsewhere
  <2>7. GranuleOK(g)'
    BY <1>1, <2>2, <2>3 DEF GranuleOK, Vetted
  <2>8. RecovererOK(p)'
    BY <1>1, <2>2, <2>3, <2>4, <2>5 DEF RecovererOK, Vetted
  <2> QED BY <2>3, <2>4, <2>6, <2>7, <2>8, RecovererFrame
<1> QED BY <1>4, <1>5, <1>6, <1>7, <1>9, <1>11, <1>12, <1>13, <1>14, <1>15
        DEF RecovererStep

\* The invariant is inductive.
THEOREM Vetting == Spec => []IInv
<1>1. Init => IInv
  BY Typing, FaultsAssumption, EmptySeq
     DEF Init, IInv, TypeOK, GranuleOK, RunOK, RunsApart, RecovererOK, Vetted,
         IdleRun, RunStates, IdleRecoverer, RecovererStates, Bytes
<1>2. ASSUME IInv, TypeOK', [Next]_vars
      PROVE  IInv'
  <2>1. ASSUME NEW r \in Runs, NEW g \in Granules, InsertDownloadingRow(r, g)
        PROVE  IInv'
    <3>1. /\ status[g] = "absent" /\ status'[g] = "downloading"
          /\ \A h \in Granules \ {g} : status'[h] = status[h]
          /\ UNCHANGED <<outbox, raw, emitted, replayed, recover>>
      BY <1>2, <2>1 DEF InsertDownloadingRow, SetStatus, IInv, TypeOK
    <3>2. /\ \A q \in Runs : ingest[q].pc # "idle" => ingest[q].g # g
          /\ GranuleOK(g) /\ emitted[g] \in Nat
      BY <1>2, <3>1 DEF IInv, TypeOK, RunOK
    <3> DEFINE Moved == /\ \A q \in Runs \ {r} : ingest'[q] = ingest[q]
                        /\ \/ ingest'[r].pc = "download" /\ ingest'[r].g = g
                           \/ ingest'[r].pc = "idle"
    <3>3. ASSUME ingest' = [ingest EXCEPT ![r] = [@ EXCEPT !.pc = "download", !.g = g]]
          PROVE  Moved
      BY <1>2, <3>3 DEF IInv, TypeOK, RunStates
    <3>4. ASSUME UNCHANGED ingest
          PROVE  Moved
      BY <2>1, <3>4 DEF InsertDownloadingRow, RunAt
    <3>5. Moved
      BY <2>1, <3>3, <3>4 DEF InsertDownloadingRow
    <3>6. Grows(g) /\ Elsewhere(g) /\ GranuleOK(g)'
      BY <3>1, <3>2 DEF Grows, Elsewhere, GranuleOK, Vetted
    <3>7. RunOK(r)'
      BY <3>1, <3>2, <3>5 DEF RunOK, GranuleOK
    <3> QED BY <1>2, <3>1, <3>2, <3>5, <3>6, <3>7, RunFrame
  <2>2. CASE UNCHANGED vars
    BY <1>2, <2>2 DEF vars, IInv, TypeOK, GranuleOK, RunOK, RunsApart, RecovererOK, Vetted
  <2> QED BY <1>2, <2>1, <2>2, RunVetting, RecovererVetting DEF Next
<1> QED BY <1>1, <1>2, Typing, PTL DEF Spec

\* Nothing reaches the queue that was not validated or replayed, for any number
\* of runs and recoverers interleaving over one row.
THEOREM OnlyVettedBytesAreQueued == Spec => []OnlyVettedBytesQueued
<1>1. IInv => OnlyVettedBytesQueued
  BY DEF IInv, GranuleOK, Vetted, OnlyVettedBytesQueued
<1> QED BY <1>1, Vetting, PTL

\* Success is recorded only for what is on the queue.
THEOREM SuccessIsQueued == Spec => []SuccessMeansQueued
<1>1. IInv => SuccessMeansQueued
  BY DEF IInv, GranuleOK, SuccessMeansQueued
<1> QED BY <1>1, Vetting, PTL

\* What is on the queue has an outbox record.
THEOREM OutboxComesFirst == Spec => []OutboxPrecedesMessage
<1>1. IInv => OutboxPrecedesMessage
  BY DEF IInv, GranuleOK, OutboxPrecedesMessage
<1> QED BY <1>1, Vetting, PTL

\* Invalid bytes stop at the row.
THEOREM InvalidStops == Spec => []InvalidGoesNoFurther
<1>1. IInv => InvalidGoesNoFurther
  BY DEF IInv, GranuleOK, Vetted, InvalidGoesNoFurther
<1> QED BY <1>1, Vetting, PTL

-----------------------------------------------------------------------------
(* The outbox *)

\* All that a step does to a granule's records is one of the three statements.
OutboxSteps(g) ==
  \/ outbox'[g] = outbox[g]
  \/ outbox'[g] = Upserted(g)
  \/ \E i : outbox'[g] = Completed(g, i)
  \/ \E i : outbox'[g] = Failed(g, i)

\* Every step of the three commands leaves a granule's records to one of them.
LEMMA OutboxMoves ==
  ASSUME TypeOK, [Next]_vars, NEW g \in Granules
  PROVE  OutboxSteps(g)
<1>1. ASSUME NEW h, NEW records, SetOutbox(h, records) \/ SetOutboxFails(h, records)
      PROVE  outbox'[g] = outbox[g] \/ (h = g /\ outbox'[g] = records)
  BY <1>1 DEF SetOutbox, SetOutboxFails, TypeOK
<1>2. ASSUME NEW r \in Runs, CreateOutbox(r) \/ CompleteOutbox(r)
      PROVE  OutboxSteps(g)
  BY <1>1, <1>2 DEF CreateOutbox, CompleteOutbox, OutboxSteps
<1>3. ASSUME NEW r \in Runs, RunStep(r), ~CreateOutbox(r), ~CompleteOutbox(r)
      PROVE  UNCHANGED outbox
  BY <1>3 DEF RunStep, Download, UploadRaw, RunMarks, MarkDownloaded, MarkRejected,
              MarkValidated, MarkFailed, MarkEnqueued, EnqueueMessage
<1>4. ASSUME NEW p \in Recoverers, NEW at, NEW records, NEW next,
             RecovererSetsOutbox(p, at, records, next)
      PROVE  outbox'[g] = outbox[g] \/ (recover[p].g = g /\ outbox'[g] = records)
  BY <1>1, <1>4 DEF RecovererSetsOutbox
<1>5. ASSUME NEW p \in Recoverers,
             RecoveryCreateOutbox(p) \/ DrainCompleteOutbox(p) \/ DrainFailOutbox(p)
      PROVE  OutboxSteps(g)
  <2>1. CASE RecoveryCreateOutbox(p)
    BY <1>4, <2>1 DEF RecoveryCreateOutbox, OutboxSteps
  <2>2. CASE DrainCompleteOutbox(p)
    BY <1>4, <2>2 DEF DrainCompleteOutbox, OutboxSteps
  <2>3. CASE DrainFailOutbox(p)
    BY <1>4, <2>3 DEF DrainFailOutbox, OutboxSteps
  <2> QED BY <1>5, <2>1, <2>2, <2>3
<1>6. ASSUME NEW p \in Recoverers, RecovererStep(p),
             ~RecoveryCreateOutbox(p), ~DrainCompleteOutbox(p), ~DrainFailOutbox(p)
      PROVE  UNCHANGED outbox
  BY <1>6 DEF RecovererStep, ReadRaw, RecovererMarks, RecoveryMarkPending,
              RecoveryMarkRejected, RecoveryMarkValidated, DrainMarkEnqueued,
              SelectOutbox, DrainEnqueue, FinishRecovery
<1>7. ASSUME NEW r \in Runs, NEW h \in Granules, InsertDownloadingRow(r, h)
      PROVE  UNCHANGED outbox
  BY <1>7 DEF InsertDownloadingRow
<1>8. ASSUME NEW r \in Runs, RunCrash(r)
      PROVE  UNCHANGED outbox
  BY <1>8 DEF RunCrash
<1>9. ASSUME NEW p \in Recoverers,
             StartRecovery(p) \/ RecovererCrash(p) \/ \E h \in Granules : ReplayRejected(p, h)
      PROVE  UNCHANGED outbox
  BY <1>9 DEF StartRecovery, RecovererCrash, ReplayRejected
<1>10. CASE UNCHANGED vars
  BY <1>10 DEF vars, OutboxSteps
<1> QED BY <1>2, <1>3, <1>5, <1>6, <1>7, <1>8, <1>9, <1>10 DEF Next, OutboxSteps

\* What a statement makes of a record: nothing, completes it, or counts an attempt.
Follows(new, old) ==
  /\ old \in OutboxRecord
  /\ \/ new = old
     \/ new.status = "completed" /\ new.attempts = old.attempts
     \/ /\ new.attempts = old.attempts + 1
        /\ new.status = IF new.attempts >= OutboxMaxAttempts THEN "failed" ELSE old.status

\* No statement drops a record, and what it makes of one Follows from it.
LEMMA RecordMoves ==
  ASSUME TypeOK, NEW g \in Granules, NEW i, NEW j \in 1..Len(outbox[g])
  PROVE  /\ outbox[g][j] \in OutboxRecord
         /\ Follows(Completed(g, i)[j], outbox[g][j])
         /\ Follows(Failed(g, i)[j], outbox[g][j])
<1>1. outbox[g] \in Seq(OutboxRecord)
  BY DEF TypeOK
<1>2. outbox[g][j] \in OutboxRecord /\ DOMAIN outbox[g] = 1..Len(outbox[g])
  BY <1>1, ElementOfSeq, LenProperties
<1>3. Follows(Completed(g, i)[j], outbox[g][j])
  BY <1>2 DEF Completed, Follows, OutboxRecord
<1>4. Follows(Failed(g, i)[j], outbox[g][j])
  BY <1>2 DEF Failed, Follows, OutboxRecord
<1> QED BY <1>2, <1>3, <1>4

\* What a step makes of a granule's records: there is a new one only if none was
\* pending.
LEMMA RecordSteps ==
  ASSUME TypeOK, [Next]_vars, NEW g \in Granules
  PROVE  /\ Len(outbox[g]) \in Nat /\ Len(outbox'[g]) \in Nat
         /\ Len(outbox'[g]) >= Len(outbox[g])
         /\ \A i \in 1..Len(outbox[g]) : Follows(outbox'[g][i], outbox[g][i])
         /\ \A i \in 1..Len(outbox'[g]) : i \notin 1..Len(outbox[g]) =>
              /\ outbox'[g][i] = [status |-> "pending", attempts |-> 0]
              /\ Pending(g) = {} /\ i = Len(outbox[g]) + 1
              /\ \A j \in 1..Len(outbox[g]) : outbox'[g][j] = outbox[g][j]
<1>1. outbox[g] \in Seq(OutboxRecord) /\ Len(outbox[g]) \in Nat
  BY LenProperties DEF TypeOK
<1>2. ASSUME outbox'[g] = outbox[g]
      PROVE  /\ Len(outbox'[g]) = Len(outbox[g])
             /\ \A i \in 1..Len(outbox[g]) : Follows(outbox'[g][i], outbox[g][i])
  BY <1>2, RecordMoves DEF Follows
<1>3. CASE outbox'[g] = Upserted(g) /\ Pending(g) = {}
  <2> DEFINE record == [status |-> "pending", attempts |-> 0]
  <2>1. record \in OutboxRecord
    BY DEF OutboxRecord
  <2>2. outbox'[g] = Append(outbox[g], record)
    BY <1>3 DEF Upserted
  <2>3. /\ Len(outbox'[g]) = Len(outbox[g]) + 1
        /\ outbox'[g][Len(outbox[g]) + 1] = record
        /\ \A i \in 1..Len(outbox[g]) : outbox'[g][i] = outbox[g][i]
    BY <1>1, <2>1, <2>2, AppendProperties
  <2>4. \A i \in 1..Len(outbox[g]) : Follows(outbox'[g][i], outbox[g][i])
    BY <2>3, RecordMoves DEF Follows
  <2>5. \A i \in 1..Len(outbox'[g]) : i \notin 1..Len(outbox[g]) => i = Len(outbox[g]) + 1
    BY <1>1, <2>3
  <2> HIDE DEF record
  <2> QED BY <1>1, <1>3, <2>3, <2>4, <2>5 DEF record
<1>4. CASE outbox'[g] = Upserted(g) /\ Pending(g) # {}
  BY <1>1, <1>2, <1>4 DEF Upserted
<1>5. ASSUME NEW i, outbox'[g] = Completed(g, i) \/ outbox'[g] = Failed(g, i)
      PROVE  /\ Len(outbox'[g]) = Len(outbox[g])
             /\ \A j \in 1..Len(outbox[g]) : Follows(outbox'[g][j], outbox[g][j])
  <2>1. CASE outbox'[g] = Completed(g, i)
    BY <1>1, <2>1, CompletedFacts, RecordMoves, ZenonT(30)
  <2>2. CASE outbox'[g] = Failed(g, i)
    BY <1>1, <2>2, FailedFacts, RecordMoves
  <2> QED BY <1>5, <2>1, <2>2
<1> QED BY <1>1, <1>2, <1>3, <1>4, <1>5, OutboxMoves, SMTT(30) DEF OutboxSteps

\* Concurrent runs, recoveries and replays share one pending record.
THEOREM PendingIsUnique == Spec => []OnePendingRecord
<1>1. Init => OnePendingRecord
  BY EmptySeq DEF Init, OnePendingRecord, Pending
<1>2. ASSUME TypeOK, OnePendingRecord, [Next]_vars
      PROVE  OnePendingRecord'
  <2> SUFFICES ASSUME NEW g \in Granules, NEW i \in Pending(g)', NEW j \in Pending(g)'
               PROVE  i = j
    BY DEF OnePendingRecord
  <2>1. /\ i \in 1..Len(outbox'[g]) /\ outbox'[g][i].status = "pending"
        /\ j \in 1..Len(outbox'[g]) /\ outbox'[g][j].status = "pending"
    BY DEF Pending
  <2>2. ASSUME NEW k \in 1..Len(outbox[g]), outbox'[g][k].status = "pending"
        PROVE  k \in Pending(g)
    <3>1. Follows(outbox'[g][k], outbox[g][k])
      BY <1>2, RecordSteps
    <3> QED BY <2>2, <3>1 DEF Pending, Follows, OutboxRecord
  <2>3. ASSUME NEW k \in 1..Len(outbox'[g]), k \notin 1..Len(outbox[g])
        PROVE  Pending(g) = {} /\ k = Len(outbox[g]) + 1
    BY <1>2, <2>3, RecordSteps
  <2> QED BY <1>2, <2>1, <2>2, <2>3 DEF OnePendingRecord
<1> QED BY <1>1, <1>2, Typing, PTL DEF Spec

\* Every attempt counts, whoever makes it.
THEOREM AttemptsCount == Spec => []AttemptsAccounted
<1>1. Init => AttemptsAccounted
  BY EmptySeq DEF Init, AttemptsAccounted
<1>2. ASSUME TypeOK, AttemptsAccounted, [Next]_vars
      PROVE  AttemptsAccounted'
  <2> SUFFICES ASSUME NEW g \in Granules, NEW i \in 1..Len(outbox'[g])
               PROVE  /\ outbox'[g][i].status = "pending" =>
                           outbox'[g][i].attempts < OutboxMaxAttempts
                      /\ outbox'[g][i].status = "failed" =>
                           outbox'[g][i].attempts >= OutboxMaxAttempts
    BY DEF AttemptsAccounted
  <2>1. CASE i \in 1..Len(outbox[g])
    <3>1. Follows(outbox'[g][i], outbox[g][i])
      BY <1>2, <2>1, RecordSteps
    <3> QED BY <1>2, <2>1, <3>1, AttemptsAssumption
            DEF AttemptsAccounted, Follows, OutboxRecord
  <2>2. CASE i \notin 1..Len(outbox[g])
    BY <1>2, <2>2, RecordSteps, AttemptsAssumption
  <2> QED BY <2>1, <2>2
<1> QED BY <1>1, <1>2, Typing, PTL DEF Spec

\* The outbox record comes before the message, and success after it.
THEOREM DeliveryIsOrdered == Spec => []DeliveryOrdered
BY OutboxComesFirst, SuccessIsQueued, PTL DEF DeliveryOrdered

\* One pending record for a row, and every attempt at it counted.
THEOREM OutboxIsConsistent == Spec => []OutboxConsistent
BY PendingIsUnique, AttemptsCount, PTL DEF OutboxConsistent

\* No step of any process drops a record, revives a settled one or forgets an
\* attempt.
THEOREM HistoryIsPreserved == Spec => HistoryPreserved
<1>1. ASSUME TypeOK, [Next]_vars
      PROVE  [\A g \in Granules : \A i \in 1..Len(outbox[g]) :
                /\ i <= Len(outbox'[g])
                /\ outbox[g][i].status # "pending" => outbox'[g][i].status # "pending"
                /\ outbox'[g][i].attempts >= outbox[g][i].attempts]_vars
  <2> SUFFICES ASSUME NEW g \in Granules, NEW i \in 1..Len(outbox[g])
               PROVE  /\ i <= Len(outbox'[g])
                      /\ outbox[g][i].status # "pending" =>
                           outbox'[g][i].status # "pending"
                      /\ outbox'[g][i].attempts >= outbox[g][i].attempts
    OBVIOUS
  <2>1. Follows(outbox'[g][i], outbox[g][i])
    BY <1>1, RecordSteps
  <2>2. Len(outbox'[g]) \in Nat /\ Len(outbox[g]) \in Nat
        /\ Len(outbox'[g]) >= Len(outbox[g])
    BY <1>1, RecordSteps
  <2> QED BY <2>1, <2>2 DEF Follows, OutboxRecord
<1> QED BY <1>1, Typing, PTL DEF Spec, HistoryPreserved

-----------------------------------------------------------------------------
(* Duplicates, with at most one recoverer at a time *)

\* What a run may still queue its granule for, its own message and the times it
\* still marks the row back into recovery's reach.
Left(pc) ==
  CASE pc \in {"download", "upload", "mark_downloaded"} -> 3
    [] pc = "mark_validated" -> 2
    [] pc \in {"mark_rejected", "create_outbox", "enqueue"} -> 1
    [] OTHER -> 0

\* The granule's row is where recovery or a replay picks it up ...
InReach(g) == status[g] \in {"downloading", "downloaded", "recovery_pending",
                             "validated", "replay_pending", "rejected"}
\* ... or a recoverer has picked it up and not queued it yet ...
Engaged(p, g) ==
  \/ g \in recover[p].rows
  \/ \E i \in Nat : <<g, i>> \in recover[p].obs
  \/ /\ recover[p].pc \in {"mark_recovery_pending", "mark_rejected", "mark_validated",
                           "create_outbox"}
     /\ recover[p].g = g
\* ... or has just queued it, and is about to take the row out of reach.
Taken(p, g) == recover[p].pc = "mark_enqueued" /\ recover[p].g = g

\* Whether a recoverer may still queue the granule.
Ticket(g) ==
  IF (\E p \in Recoverers : Taken(p, g)) THEN 0
  ELSE IF InReach(g) \/ (\E p \in Recoverers : Engaged(p, g)) THEN 1 ELSE 0

BudgetOK(g) ==
  /\ status[g] = "absent" => emitted[g] = 0
  /\ emitted[g] + Ticket(g) <= 4 + faults
  /\ \A r \in Runs :
       ingest[r].pc # "idle" /\ ingest[r].g = g =>
         emitted[g] + Ticket(g) + Left(ingest[r].pc) <= 4 + faults

\* A recoverer has no rows left when it drains the outbox, no records before that,
\* and never two of one granule.
SelectionOK(p) ==
  /\ recover[p].pc \in {"idle", "drain", "fail_outbox", "mark_enqueued", "complete_outbox"} =>
       recover[p].rows = {}
  /\ recover[p].pc \notin {"drain", "fail_outbox", "mark_enqueued", "complete_outbox"} =>
       recover[p].obs = {}
  /\ \A g \in Granules, i, j \in Nat :
       <<g, i>> \in recover[p].obs /\ <<g, j>> \in recover[p].obs => i = j
  /\ recover[p].pc \in {"fail_outbox", "mark_enqueued", "complete_outbox"} =>
       \A i \in Nat : <<recover[p].g, i>> \notin recover[p].obs

DupInv ==
  /\ \A p \in Recoverers : SelectionOK(p)
  /\ \A g \in Granules : BudgetOK(g)

\* There is at most one recoverer; how often it is started does not matter.
OneRecoverer == \A p, q \in Recoverers : p = q

\* A ticket is one or none, and it is the one recoverer's.
LEMMA Tickets ==
  ASSUME NEW g \in Granules
  PROVE  /\ Ticket(g) \in {0, 1} /\ Ticket(g)' \in {0, 1}
         /\ \A p \in Recoverers : OneRecoverer =>
              /\ Ticket(g) = IF Taken(p, g) THEN 0
                             ELSE IF InReach(g) \/ Engaged(p, g) THEN 1 ELSE 0
              /\ Ticket(g)' = IF Taken(p, g)' THEN 0
                              ELSE IF InReach(g)' \/ Engaged(p, g)' THEN 1 ELSE 0
<1>1. Ticket(g) \in {0, 1} /\ Ticket(g)' \in {0, 1}
  BY DEF Ticket
<1>2. ASSUME NEW p \in Recoverers, OneRecoverer
      PROVE  /\ (\E q \in Recoverers : Taken(q, g)) <=> Taken(p, g)
             /\ (\E q \in Recoverers : Engaged(q, g)) <=> Engaged(p, g)
             /\ (\E q \in Recoverers : Taken(q, g)') <=> Taken(p, g)'
             /\ (\E q \in Recoverers : Engaged(q, g)') <=> Engaged(p, g)'
  BY <1>2, Zenon DEF OneRecoverer
<1> QED BY <1>1, <1>2, Zenon DEF Ticket

\* Bounds of what a run has left.
LEMMA LeftIs ==
  ASSUME NEW pc
  PROVE  Left(pc) \in 0..3 /\ Left("idle") = 0
BY DEF Left

\* A step of a run keeps to the budget if it does for its own granule.
LEMMA RunSpends ==
  ASSUME IInv, \A h \in Granules : BudgetOK(h), TypeOK', NEW r \in Runs, NEW g \in Granules,
         UNCHANGED recover,
         \A q \in Runs \ {r} : /\ ingest'[q] = ingest[q]
                               /\ ingest[q].pc # "idle" => ingest[q].g # g,
         ingest'[r].pc # "idle" => ingest'[r].g = g,
         \A h \in Granules \ {g} : status'[h] = status[h] /\ emitted'[h] = emitted[h],
         status'[g] # "absent",
         faults' >= faults,
         emitted'[g] + Ticket(g)' + Left(ingest'[r].pc) <= 4 + faults'
  PROVE  \A h \in Granules : BudgetOK(h)'
<1> TAKE h \in Granules
<1>1. faults \in Nat /\ faults' \in Nat /\ emitted[h] \in Nat /\ emitted'[h] \in Nat
  BY FaultsAssumption DEF IInv, TypeOK
<1>2. Ticket(h) \in {0, 1} /\ Ticket(h)' \in {0, 1}
  BY Tickets
<1>3. \A q \in Runs : Left(ingest[q].pc) \in 0..3 /\ Left(ingest'[q].pc) \in 0..3
  BY LeftIs
<1>4. CASE h = g
  <2>1. emitted'[h] + Ticket(h)' <= 4 + faults'
    BY <1>1, <1>2, <1>3, <1>4
  <2>2. ASSUME NEW q \in Runs, ingest'[q].pc # "idle", ingest'[q].g = h
        PROVE  q = r
    BY <1>4, <2>2
  <2> QED BY <1>4, <2>1, <2>2 DEF BudgetOK
<1>5. CASE h # g
  <2>1. status'[h] = status[h] /\ emitted'[h] = emitted[h]
    BY <1>5
  <2>2. Ticket(h)' = Ticket(h)
    BY <2>1, Zenon DEF Ticket, Taken, InReach, Engaged
  <2>3. ASSUME NEW q \in Runs, ingest'[q].pc # "idle", ingest'[q].g = h
        PROVE  ingest'[q] = ingest[q]
    BY <1>5, <2>3
  <2>4. BudgetOK(h)
    OBVIOUS
  <2> QED BY <1>1, <1>2, <1>3, <2>1, <2>2, <2>3, <2>4 DEF BudgetOK
<1> QED BY <1>4, <1>5

\* A step of a recoverer keeps to the budget if every message is paid for with
\* its ticket or with a fault.
LEMMA RecovererSpends ==
  ASSUME TypeOK, TypeOK', \A h \in Granules : BudgetOK(h), UNCHANGED ingest,
         \A h \in Granules :
           /\ status'[h] = "absent" => status[h] = "absent" /\ emitted'[h] = emitted[h]
           /\ emitted'[h] + Ticket(h)' + faults <= emitted[h] + Ticket(h) + faults'
  PROVE  \A h \in Granules : BudgetOK(h)'
<1> TAKE h \in Granules
<1>1. faults \in Nat /\ faults' \in Nat /\ emitted[h] \in Nat /\ emitted'[h] \in Nat
  BY FaultsAssumption DEF TypeOK
<1>2. Ticket(h) \in {0, 1} /\ Ticket(h)' \in {0, 1}
  BY Tickets
<1>3. \A q \in Runs : Left(ingest[q].pc) \in 0..3 /\ ingest'[q] = ingest[q]
  BY LeftIs
<1>4. BudgetOK(h)
  OBVIOUS
<1> QED BY <1>1, <1>2, <1>3, <1>4 DEF BudgetOK

\* With the recoverers where they are, a ticket changes only as the row comes
\* within their reach.
LEMMA TicketsOfRows ==
  ASSUME UNCHANGED recover, NEW g \in Granules
  PROVE  /\ status'[g] = status[g] => Ticket(g)' = Ticket(g)
         /\ status'[g] \in {"enqueued", "failed"} => Ticket(g)' <= Ticket(g)
<1>1. \A p \in Recoverers : (Taken(p, g)' <=> Taken(p, g)) /\ (Engaged(p, g)' <=> Engaged(p, g))
  BY DEF Taken, Engaged
<1>2. status'[g] \in {"enqueued", "failed"} => ~InReach(g)'
  BY DEF InReach
<1>3. status'[g] = status[g] => (InReach(g)' <=> InReach(g))
  BY DEF InReach
<1>4. status'[g] = status[g] => Ticket(g)' = Ticket(g)
  BY <1>1, <1>3, Zenon DEF Ticket
<1>5. /\ (\E p \in Recoverers : Taken(p, g)') <=> (\E p \in Recoverers : Taken(p, g))
      /\ (\E p \in Recoverers : Engaged(p, g)') <=> (\E p \in Recoverers : Engaged(p, g))
  BY <1>1
<1>6. ~InReach(g)' => Ticket(g)' = 0 \/ (Ticket(g)' = 1 /\ Ticket(g) = 1)
  BY <1>5, Zenon DEF Ticket
<1> QED BY <1>2, <1>4, <1>6, Tickets

\* The steps of a run keep to the budget.
LEMMA RunBudget ==
  ASSUME IInv, \A h \in Granules : BudgetOK(h), TypeOK', NEW r \in Runs,
         RunStep(r) \/ RunCrash(r)
  PROVE  \A h \in Granules : BudgetOK(h)'
<1>1. ~RunAt(r, "idle")
  BY DEF RunStep, RunCrash, RunAt, Download, UploadRaw, MarkDownloaded, MarkRejected,
         MarkValidated, MarkFailed, MarkEnqueued, RunMarks, CreateOutbox,
         EnqueueMessage, CompleteOutbox
<1>2. PICK g \in Granules : g = ingest[r].g
  BY <1>1 DEF IInv, TypeOK, RunAt
<1>3. PICK pc \in RunPcs : pc = ingest[r].pc
  BY DEF IInv, TypeOK, RunStates, RunPcs
<1>4. /\ \A q \in Runs \ {r} : ingest[q].pc # "idle" => ingest[q].g # g
      /\ status[g] # "absent" /\ BudgetOK(g)
  BY <1>1, <1>2 DEF IInv, RunsApart, RunAt, RunOK
<1>5. emitted[g] + Ticket(g) + Left(pc) <= 4 + faults
  BY <1>1, <1>2, <1>3, <1>4 DEF BudgetOK, RunAt
<1>6. /\ faults \in Nat /\ faults' \in Nat /\ emitted[g] \in Nat /\ emitted'[g] \in Nat
      /\ Ticket(g) \in {0, 1} /\ Ticket(g)' \in {0, 1}
  BY FaultsAssumption, Tickets DEF IInv, TypeOK
\* Where a step leads, what it does to the row and what it costs.
<1> DEFINE Leads(next) == /\ \A q \in Runs \ {r} : ingest'[q] = ingest[q]
                          /\ ingest'[r].pc = next
                          /\ next # "idle" => ingest'[r].g = g
           Elsewhen == \A h \in Granules \ {g} :
                         status'[h] = status[h] /\ emitted'[h] = emitted[h]
<1>7. ASSUME NEW next \in RunPcs, Leads(next), Elsewhen, UNCHANGED recover,
             status'[g] # "absent", faults' >= faults,
             emitted'[g] + Ticket(g)' + Left(next) + faults <=
               emitted[g] + Ticket(g) + Left(pc) + faults'
      PROVE  \A h \in Granules : BudgetOK(h)'
  <2>1. Left(pc) \in Nat /\ Left(next) \in Nat
    BY LeftIs
  <2>2. emitted'[g] + Ticket(g)' + Left(ingest'[r].pc) <= 4 + faults'
    BY <1>5, <1>6, <1>7, <2>1
  <2> HIDE DEF Leads
  <2>3. /\ \A q \in Runs \ {r} : ingest'[q] = ingest[q]
        /\ ingest'[r].pc # "idle" => ingest'[r].g = g
    BY <1>7 DEF Leads
  <2> QED BY <1>4, <1>7, <2>2, <2>3, RunSpends
<1>8. ASSUME NEW next \in RunPcs, RunGoto(r, next)
      PROVE  Leads(next)
  BY <1>2, <1>8 DEF RunGoto, IdleRun, IInv, TypeOK, RunStates, RunPcs
<1>9. Fault => faults' = faults + 1
  BY DEF Fault
<1> HIDE DEF Leads, Elsewhen
\* A step that leaves the row and the queue alone.
<1>10. ASSUME NEW next \in RunPcs, Leads(next), UNCHANGED <<status, emitted, recover>>,
              faults' >= faults, Left(next) <= Left(pc)
       PROVE  \A h \in Granules : BudgetOK(h)'
  <2>1. Elsewhen /\ status'[g] # "absent" /\ emitted'[g] = emitted[g] /\ Ticket(g)' = Ticket(g)
    BY <1>4, <1>10, TicketsOfRows DEF Elsewhen
  <2>2. Left(pc) \in Nat /\ Left(next) \in Nat
    BY LeftIs
  <2> QED BY <1>6, <1>7, <1>10, <2>1, <2>2
\* A status update of a run gives up what brings the row within reach.
<1>11. ASSUME NEW st \in Statuses, NEW next \in RunPcs, RunMarks(r, pc, st, next),
              Left(next) < Left(pc) \/ (Left(next) = Left(pc) /\ st \in {"enqueued", "failed"})
       PROVE  \A h \in Granules : BudgetOK(h)'
  <2>1. /\ UNCHANGED <<emitted, recover>> /\ Elsewhen
        /\ status'[g] \in {st, status[g]} /\ status'[g] # "absent"
    BY <1>2, <1>4, <1>11
       DEF RunMarks, SetStatus, SetStatusFails, IInv, TypeOK, Statuses, Elsewhen
  <2>2. Left(pc) \in Nat /\ Left(next) \in Nat /\ Left("idle") = 0
    BY LeftIs
  <2>3. "idle" \in RunPcs
    BY DEF RunPcs
  <2>4. emitted'[g] = emitted[g]
    BY <2>1
  <2>5. CASE status'[g] = st /\ RunGoto(r, next) /\ UNCHANGED faults
    <3>1. st \in {"enqueued", "failed"} => Ticket(g)' <= Ticket(g)
      BY <2>1, <2>5, TicketsOfRows
    <3>2. emitted'[g] + Ticket(g)' + Left(next) + faults <=
            emitted[g] + Ticket(g) + Left(pc) + faults'
      BY <1>6, <1>11, <2>2, <2>4, <2>5, <3>1
    <3> QED BY <1>6, <1>7, <1>8, <2>1, <2>5, <3>2
  <2>6. CASE Fault /\ RunGoto(r, "idle")
    <3>1. emitted'[g] + Ticket(g)' + Left("idle") + faults <=
            emitted[g] + Ticket(g) + Left(pc) + faults'
      BY <1>6, <1>9, <2>2, <2>4, <2>6
    <3> QED BY <1>6, <1>7, <1>8, <1>9, <2>1, <2>3, <2>6, <3>1
  <2>7. (status'[g] = st /\ RunGoto(r, next) /\ UNCHANGED faults) \/ (Fault /\ RunGoto(r, "idle"))
    BY <1>2, <1>11 DEF RunMarks, SetStatus, SetStatusFails, IInv, TypeOK
  <2> QED BY <2>5, <2>6, <2>7
<1>12. CASE Download(r)
  <2>1. ASSUME NEW b \in Bytes,
               ingest' = [ingest EXCEPT ![r] = [@ EXCEPT !.pc = "upload", !.bytes = b]]
        PROVE  Leads("upload")
    BY <1>2, <2>1 DEF Leads, IInv, TypeOK, RunStates
  <2>2. Leads("upload") \/ Leads("mark_failed")
    BY <1>8, <1>12, <2>1 DEF Download, RunPcs
  <2>3. Left(pc) = 3 /\ Left("upload") = 3 /\ Left("mark_failed") = 0
    BY <1>3, <1>12 DEF Download, RunAt, Left
  <2>4. UNCHANGED <<status, emitted, recover>> /\ (faults' = faults \/ Fault)
    BY <1>12, Zenon DEF Download
  <2>5. faults' >= faults
    BY <1>6, <1>9, <2>4
  <2> QED BY <1>10, <2>2, <2>3, <2>4, <2>5 DEF RunPcs
<1>13. CASE UploadRaw(r)
  <2>1. Leads("mark_downloaded") \/ Leads("mark_failed")
    BY <1>8, <1>13 DEF UploadRaw, RunPcs
  <2>2. Left(pc) = 3 /\ Left("mark_downloaded") = 3 /\ Left("mark_failed") = 0
    BY <1>3, <1>13 DEF UploadRaw, RunAt, Left
  <2>3. UNCHANGED <<status, emitted, recover>> /\ faults' >= faults
    BY <1>6, <1>9, <1>13 DEF UploadRaw
  <2> QED BY <1>10, <2>1, <2>2, <2>3 DEF RunPcs
<1>14. CASE MarkDownloaded(r)
  <2>1. PICK next \in {"mark_validated", "mark_rejected"} :
          RunMarks(r, "mark_downloaded", "downloaded", next)
    BY <1>14 DEF MarkDownloaded
  <2>2. pc = "mark_downloaded" /\ next \in RunPcs /\ "downloaded" \in Statuses
    BY <1>3, <2>1 DEF RunMarks, RunAt, RunPcs, Statuses
  <2>3. Left(next) < Left(pc)
    BY <2>2 DEF Left
  <2> QED BY <1>11, <2>1, <2>2, <2>3
<1>15. CASE MarkRejected(r)
  <2>1. RunMarks(r, "mark_rejected", "rejected", "idle") /\ pc = "mark_rejected"
    BY <1>3, <1>15 DEF MarkRejected, RunMarks, RunAt
  <2>2. Left("idle") < Left(pc) /\ "idle" \in RunPcs /\ "rejected" \in Statuses
    BY <2>1 DEF Left, RunPcs, Statuses
  <2> QED BY <1>11, <2>1, <2>2
<1>16. CASE MarkValidated(r)
  <2>1. RunMarks(r, "mark_validated", "validated", "create_outbox") /\ pc = "mark_validated"
    BY <1>3, <1>16 DEF MarkValidated, RunMarks, RunAt
  <2>2. Left("create_outbox") < Left(pc) /\ "create_outbox" \in RunPcs /\ "validated" \in Statuses
    BY <2>1 DEF Left, RunPcs, Statuses
  <2> QED BY <1>11, <2>1, <2>2
<1>17. CASE MarkFailed(r)
  <2>1. RunMarks(r, "mark_failed", "failed", "idle") /\ pc = "mark_failed"
    BY <1>3, <1>17 DEF MarkFailed, RunMarks, RunAt
  <2>2. Left("idle") = Left(pc) /\ "idle" \in RunPcs /\ "failed" \in Statuses
    BY <2>1 DEF Left, RunPcs, Statuses
  <2> QED BY <1>11, <2>1, <2>2
<1>18. CASE MarkEnqueued(r)
  <2>1. RunMarks(r, "mark_enqueued", "enqueued", "complete_outbox") /\ pc = "mark_enqueued"
    BY <1>3, <1>18 DEF MarkEnqueued, RunMarks, RunAt
  <2>2. /\ Left("complete_outbox") = Left(pc) /\ "complete_outbox" \in RunPcs
        /\ "enqueued" \in Statuses
    BY <2>1 DEF Left, RunPcs, Statuses
  <2> QED BY <1>11, <2>1, <2>2
<1>19. CASE CreateOutbox(r)
  <2>1. ASSUME NEW i,
               ingest' = [ingest EXCEPT ![r] = [@ EXCEPT !.pc = "enqueue", !.ob = i]]
        PROVE  Leads("enqueue")
    BY <1>2, <2>1 DEF Leads, IInv, TypeOK, RunStates
  <2>2. Leads("enqueue") \/ Leads("mark_failed")
    BY <1>8, <1>19, <2>1 DEF CreateOutbox, RunPcs
  <2>3. Left(pc) = 1 /\ Left("enqueue") = 1 /\ Left("mark_failed") = 0
    BY <1>3, <1>19 DEF CreateOutbox, RunAt, Left
  <2>4. UNCHANGED <<status, emitted, recover>> /\ faults' >= faults
    BY <1>6, <1>9, <1>19 DEF CreateOutbox, SetOutboxFails
  <2> QED BY <1>10, <2>2, <2>3, <2>4 DEF RunPcs
<1>20. CASE EnqueueMessage(r)
  <2>1. /\ Leads("mark_enqueued") \/ Leads("mark_failed")
        /\ UNCHANGED <<status, recover>>
    BY <1>8, <1>20 DEF EnqueueMessage, RunPcs
  <2>2. /\ \A h \in Granules \ {g} : emitted'[h] = emitted[h]
        /\ faults' >= faults
        /\ emitted'[g] + faults <= emitted[g] + 1 + faults'
    BY <1>2, <1>6, <1>9, <1>20 DEF EnqueueMessage, Enqueue, EnqueueFails, IInv, TypeOK
  <2>3. Left(pc) = 1 /\ Left("mark_enqueued") = 0 /\ Left("mark_failed") = 0
    BY <1>3, <1>20 DEF EnqueueMessage, RunAt, Left
  <2>4. Ticket(g)' = Ticket(g) /\ Elsewhen /\ status'[g] # "absent"
    BY <1>4, <2>1, <2>2, TicketsOfRows DEF Elsewhen
  <2>5. emitted'[g] + Ticket(g)' + 0 + faults <= emitted[g] + Ticket(g) + Left(pc) + faults'
    BY <1>6, <2>2, <2>3, <2>4
  <2> QED BY <1>7, <2>1, <2>2, <2>3, <2>4, <2>5 DEF RunPcs
<1>21. CASE CompleteOutbox(r) \/ RunCrash(r)
  <2>1. Leads("idle") /\ UNCHANGED <<status, emitted, recover>> /\ "idle" \in RunPcs
    BY <1>8, <1>21 DEF CompleteOutbox, RunCrash, RunPcs
  <2>2. faults' >= faults
    BY <1>6, <1>9, <1>21 DEF CompleteOutbox, RunCrash, SetOutboxFails
  <2>3. Left("idle") <= Left(pc)
    BY LeftIs
  <2> QED BY <1>10, <2>1, <2>2, <2>3
<1> QED BY <1>12, <1>13, <1>14, <1>15, <1>16, <1>17, <1>18, <1>19, <1>20, <1>21 DEF RunStep

\* The steps of the recoverer keep to the budget.
LEMMA RecovererBudget ==
  ASSUME IInv, OnePendingRecord, OneRecoverer, NEW p \in Recoverers, SelectionOK(p),
         \A h \in Granules : BudgetOK(h), TypeOK',
         StartRecovery(p) \/ RecovererStep(p) \/ RecovererCrash(p)
           \/ \E h \in Granules : ReplayRejected(p, h)
  PROVE  SelectionOK(p)' /\ \A h \in Granules : BudgetOK(h)'
<1> DEFINE m == recover[p]
           n == recover'[p]
           Spends(h) == emitted'[h] + Ticket(h)' + faults <= emitted[h] + Ticket(h) + faults'
           Rows(h) == status'[h] = "absent" => status[h] = "absent" /\ emitted'[h] = emitted[h]
           Loses(h) == \/ ~Taken(p, h) /\ (InReach(h)' \/ Engaged(p, h)' =>
                                             InReach(h) \/ Engaged(p, h))
                       \/ ~InReach(h)' /\ ~Engaged(p, h)'
           Reaches(h) == Engaged(p, h)' => InReach(h) \/ Engaged(p, h)
<1>1. /\ m \in RecovererStates /\ m.obs \subseteq Granules \X Nat /\ m.rows \subseteq Granules
      /\ m.pc \notin {"idle", "raw", "drain"} => m.g \in Granules
      /\ faults \in Nat /\ faults' \in Nat
      /\ \A h \in Granules : emitted[h] \in Nat /\ emitted'[h] \in Nat
  BY FaultsAssumption DEF IInv, TypeOK, RecovererStates
<1>2. \A h \in Granules :
        /\ Ticket(h) \in {0, 1} /\ Ticket(h)' \in {0, 1}
        /\ Ticket(h) = IF Taken(p, h) THEN 0 ELSE IF InReach(h) \/ Engaged(p, h) THEN 1 ELSE 0
        /\ Ticket(h)' = IF Taken(p, h)' THEN 0 ELSE IF InReach(h)' \/ Engaged(p, h)' THEN 1 ELSE 0
  BY Tickets
<1>3. Fault => faults' = faults + 1
  BY DEF Fault
<1>4. ASSUME UNCHANGED ingest, \A h \in Granules : Rows(h) /\ Spends(h)
      PROVE  \A h \in Granules : BudgetOK(h)'
  BY <1>4, RecovererSpends DEF IInv
\* A step that queues nothing and loses its granule's ticket or has a fault to pay with.
<1>5. ASSUME UNCHANGED <<ingest, emitted>>, \A h \in Granules : Rows(h),
             (faults' = faults /\ \A h \in Granules : Loses(h)) \/ faults' = faults + 1
      PROVE  \A h \in Granules : BudgetOK(h)'
  <2> HIDE DEF Loses, Rows
  <2>1. ASSUME NEW h \in Granules
        PROVE  Spends(h)
    <3>1. Loses(h) => Ticket(h)' <= Ticket(h)
      BY <1>2 DEF Loses
    <3>2. emitted'[h] = emitted[h]
      BY <1>5
    <3> QED BY <1>1, <1>2, <1>5, <3>1, <3>2
  <2> QED BY <1>4, <1>5, <2>1
\* Rows that keep their status.
<1>6. ASSUME UNCHANGED <<ingest, emitted, status>>,
             faults' = faults \/ faults' = faults + 1,
             faults' = faults => \A h \in Granules : ~Taken(p, h) /\ Reaches(h)
      PROVE  \A h \in Granules : BudgetOK(h)'
  <2>1. \A h \in Granules : Rows(h) /\ (InReach(h)' <=> InReach(h))
    BY <1>6 DEF InReach
  <2>2. faults' = faults => \A h \in Granules : Loses(h)
    BY <1>6, <2>1
  <2> HIDE DEF Loses, Rows
  <2> QED BY <1>5, <1>6, <2>1, <2>2
\* Where RecovererGoto leads.
<1>7. ASSUME NEW next \in RecovererPcs, RecovererGoto(p, next)
      PROVE  /\ n.pc = next
             /\ next = "idle" => n.rows = {} /\ n.obs = {}
             /\ next # "idle" => n.rows = m.rows /\ n.obs = m.obs
             /\ next \notin {"idle", "raw", "drain"} => n.g = m.g
  BY <1>7 DEF RecovererGoto, IdleRecoverer, IInv, TypeOK, RecovererStates, RecovererPcs
<1>8. ASSUME RecovererGoto(p, "idle")
      PROVE  SelectionOK(p)' /\ \A h \in Granules : ~Engaged(p, h)' /\ ~Taken(p, h)'
  BY <1>7, <1>8 DEF SelectionOK, Engaged, Taken, RecovererPcs
<1> HIDE DEF Spends
<1>9. CASE StartRecovery(p)
  <2>1. /\ UNCHANGED <<status, emitted, ingest, faults>> /\ m.pc = "idle"
        /\ n.pc = "raw" /\ n.rows = {h \in Granules : Recoverable(h)} /\ n.obs = m.obs
    BY <1>1, <1>9 DEF StartRecovery, RecovererAt, IInv, TypeOK, RecovererStates
  <2>2. n.obs = {} /\ m.obs = {} /\ m.rows = {}
    BY <2>1 DEF SelectionOK
  <2>3. \A h \in Granules : ~Taken(p, h) /\ Reaches(h)
    BY <2>1, <2>2 DEF Taken, Engaged, InReach, Recoverable
  <2>4. SelectionOK(p)'
    BY <2>1, <2>2 DEF SelectionOK
  <2> QED BY <1>6, <2>1, <2>3, <2>4
<1>10. ASSUME NEW k \in Granules, ReadRaw(p, k)
       PROVE  SelectionOK(p)' /\ \A h \in Granules : BudgetOK(h)'
  <2>1. /\ UNCHANGED <<status, emitted, ingest>> /\ m.pc = "raw" /\ k \in m.rows
        /\ n.pc \in {"mark_recovery_pending", "mark_rejected", "mark_validated"}
        /\ n.g = k /\ n.rows = m.rows \ {k} /\ n.obs = m.obs
    BY <1>1, <1>10 DEF ReadRaw, RecovererAt, IInv, TypeOK, RecovererStates
  <2>2. faults' = faults \/ faults' = faults + 1
    BY <1>3, <1>10 DEF ReadRaw
  <2>3. m.obs = {}
    BY <2>1 DEF SelectionOK
  <2>4. \A h \in Granules : ~Taken(p, h) /\ Reaches(h)
    BY <2>1 DEF Taken, Engaged
  <2>5. SelectionOK(p)'
    BY <2>1, <2>3 DEF SelectionOK
  <2> QED BY <1>6, <2>1, <2>2, <2>4, <2>5
<1>11. CASE SelectOutbox(p)
  <2> DEFINE picked == UNION {{<<h, i>> : i \in Pending(h)} :
                                h \in {k \in Granules : Drainable(k)}}
  <2>1. /\ UNCHANGED <<status, emitted, ingest, faults>> /\ m.pc = "raw" /\ m.rows = {}
        /\ n.pc = "drain" /\ n.rows = m.rows /\ n.obs = picked
    BY <1>1, <1>11 DEF SelectOutbox, RecovererAt, IInv, TypeOK, RecovererStates
  <2>2. \A h \in Granules, i \in Nat : <<h, i>> \in picked => i \in Pending(h) /\ Drainable(h)
    OBVIOUS
  <2>3. \A h \in Granules, i, j \in Nat :
          <<h, i>> \in picked /\ <<h, j>> \in picked => i = j
    BY <2>2 DEF OnePendingRecord
  <2> HIDE DEF picked
  <2>4. \A h \in Granules : ~Taken(p, h) /\ Reaches(h)
    BY <2>1, <2>2 DEF Taken, Engaged, InReach, Drainable
  <2>5. SelectionOK(p)'
    BY <2>1, <2>3 DEF SelectionOK
  <2> QED BY <1>6, <2>1, <2>4, <2>5
<1>12. CASE FinishRecovery(p)
  <2>1. /\ UNCHANGED <<status, emitted, ingest, faults>> /\ m.pc = "drain"
        /\ RecovererGoto(p, "idle")
    BY <1>12 DEF FinishRecovery, RecovererAt
  <2>2. \A h \in Granules : ~Taken(p, h) /\ Reaches(h)
    BY <1>8, <2>1 DEF Taken
  <2> QED BY <1>6, <1>8, <2>1, <2>2
\* A step that fails.
<1>13. ASSUME UNCHANGED <<ingest, emitted>>, \A h \in Granules : Rows(h), Fault,
              RecovererGoto(p, "idle")
       PROVE  SelectionOK(p)' /\ \A h \in Granules : BudgetOK(h)'
  BY <1>3, <1>5, <1>8, <1>13
<1>14. CASE RecovererCrash(p)
  <2>1. /\ UNCHANGED <<status, emitted, ingest>> /\ Fault /\ RecovererGoto(p, "idle")
    BY <1>14 DEF RecovererCrash
  <2>2. \A h \in Granules : Rows(h)
    BY <2>1
  <2> QED BY <1>13, <2>1, <2>2
\* A status update: it fails, or the next step follows.
<1>15. ASSUME NEW at, NEW st \in Statuses, NEW next, RecovererMarks(p, at, st, next),
              at \notin {"idle", "raw", "drain"}
       PROVE  /\ m.pc = at /\ m.g \in Granules
              /\ UNCHANGED <<emitted, ingest>>
              /\ \A h \in Granules : Rows(h)
              /\ \A h \in Granules : h # m.g => (InReach(h)' <=> InReach(h))
              /\ \/ status'[m.g] = st /\ RecovererGoto(p, next) /\ faults' = faults
                 \/ Fault /\ RecovererGoto(p, "idle")
  <2>1. m.pc = at /\ m.g \in Granules
    BY <1>1, <1>15 DEF RecovererMarks, RecovererAt
  <2>2. /\ UNCHANGED <<emitted, ingest>>
        /\ \A h \in Granules : h # m.g => status'[h] = status[h]
        /\ status'[m.g] \in {st, status[m.g]}
        /\ \/ status'[m.g] = st /\ RecovererGoto(p, next) /\ faults' = faults
           \/ Fault /\ RecovererGoto(p, "idle")
    BY <1>15, <2>1 DEF RecovererMarks, SetStatus, SetStatusFails, IInv, TypeOK
  <2>3. st # "absent"
    BY DEF Statuses
  <2> QED BY <2>1, <2>2, <2>3 DEF InReach
<1>16. CASE RecoveryMarkPending(p) \/ RecoveryMarkRejected(p) \/ RecoveryMarkValidated(p)
  <2>1. PICK at \in {"mark_recovery_pending", "mark_rejected", "mark_validated"},
             st \in {"recovery_pending", "rejected", "validated"},
             next \in {"raw", "create_outbox"} : RecovererMarks(p, at, st, next)
    BY <1>16 DEF RecoveryMarkPending, RecoveryMarkRejected, RecoveryMarkValidated
  <2>2. st \in Statuses /\ next \in RecovererPcs
    BY DEF Statuses, RecovererPcs
  <2>3. CASE Fault /\ RecovererGoto(p, "idle")
    BY <1>13, <1>15, <2>1, <2>2, <2>3
  <2>4. CASE RecovererGoto(p, next) /\ faults' = faults
    <3>1. /\ n.pc = next /\ n.rows = m.rows /\ n.obs = m.obs
          /\ next = "create_outbox" => n.g = m.g
      BY <1>7, <2>2, <2>4
    <3>2. m.pc = at /\ \A h \in Granules : h # m.g => (InReach(h)' <=> InReach(h))
      BY <1>15, <2>1, <2>2
    <3>3. \A h \in Granules : ~Taken(p, h) /\ Reaches(h)
      BY <3>1, <3>2 DEF Taken, Engaged
    <3>4. Engaged(p, m.g)
      BY <3>2 DEF Engaged
    <3>5. ASSUME NEW h \in Granules
          PROVE  Loses(h)
      <4>1. CASE h = m.g
        BY <3>3, <3>4, <4>1
      <4>2. CASE h # m.g
        BY <3>2, <3>3, <4>2, Zenon
      <4> QED BY <4>1, <4>2
    <3>6. SelectionOK(p)'
      BY <3>1, <3>2 DEF SelectionOK
    <3> QED BY <1>5, <1>15, <2>1, <2>2, <2>4, <3>5, <3>6
  <2>5. (RecovererGoto(p, next) /\ faults' = faults) \/ (Fault /\ RecovererGoto(p, "idle"))
    BY <2>1 DEF RecovererMarks, SetStatusFails
  <2> QED BY <2>3, <2>4, <2>5
<1>17. CASE DrainMarkEnqueued(p)
  <2>1. RecovererMarks(p, "mark_enqueued", "enqueued", "complete_outbox")
    BY <1>17 DEF DrainMarkEnqueued
  <2>2. "enqueued" \in Statuses /\ "complete_outbox" \in RecovererPcs
    BY DEF Statuses, RecovererPcs
  <2>3. CASE Fault /\ RecovererGoto(p, "idle")
    BY <1>13, <1>15, <2>1, <2>2, <2>3
  <2>4. CASE status'[m.g] = "enqueued" /\ RecovererGoto(p, "complete_outbox") /\ faults' = faults
    <3>1. n.pc = "complete_outbox" /\ n.g = m.g /\ n.rows = m.rows /\ n.obs = m.obs
      BY <1>7, <2>2, <2>4
    <3>2. /\ m.pc = "mark_enqueued"
          /\ \A h \in Granules : h # m.g => (InReach(h)' <=> InReach(h))
      BY <1>15, <2>1, <2>2
    <3>3. m.rows = {} /\ \A i \in Nat : <<m.g, i>> \notin m.obs
      BY <3>2 DEF SelectionOK
    <3>4. \A h \in Granules : h = m.g => ~InReach(h)' /\ ~Engaged(p, h)'
      BY <2>4, <3>1, <3>3 DEF InReach, Engaged
    <3>5. \A h \in Granules : h # m.g => ~Taken(p, h) /\ Reaches(h)
      BY <3>1, <3>2 DEF Taken, Engaged
    <3>6. ASSUME NEW h \in Granules
          PROVE  Loses(h)
      <4>1. CASE h = m.g
        BY <3>4, <4>1, Zenon
      <4>2. CASE h # m.g
        BY <3>2, <3>5, <4>2, Zenon
      <4> QED BY <4>1, <4>2
    <3>7. SelectionOK(p)'
      BY <3>1, <3>2, <3>3 DEF SelectionOK
    <3> QED BY <1>5, <1>15, <2>1, <2>2, <2>4, <3>6, <3>7
  <2>5. \/ status'[m.g] = "enqueued" /\ RecovererGoto(p, "complete_outbox") /\ faults' = faults
        \/ Fault /\ RecovererGoto(p, "idle")
    BY <1>15, <2>1, <2>2
  <2> QED BY <2>3, <2>4, <2>5
<1>18. CASE RecoveryCreateOutbox(p) \/ DrainCompleteOutbox(p) \/ DrainFailOutbox(p)
  <2>1. PICK at \in {"create_outbox", "complete_outbox", "fail_outbox"},
             records \in {Upserted(m.g), Completed(m.g, m.ob), Failed(m.g, m.ob)},
             next \in {"raw", "drain"} :
          /\ RecovererSetsOutbox(p, at, records, next)
          /\ next = "raw" <=> at = "create_outbox"
    BY <1>18 DEF RecoveryCreateOutbox, DrainCompleteOutbox, DrainFailOutbox
  <2>2. /\ m.pc = at /\ UNCHANGED <<status, emitted, ingest>>
        /\ (RecovererGoto(p, next) /\ faults' = faults) \/ (Fault /\ RecovererGoto(p, "idle"))
    BY <2>1 DEF RecovererSetsOutbox, RecovererAt, SetOutboxFails
  <2>3. \A h \in Granules : Rows(h)
    BY <2>2
  <2>4. CASE RecovererGoto(p, next) /\ faults' = faults
    <3>1. n.pc = next /\ n.rows = m.rows /\ n.obs = m.obs
      BY <1>7, <2>4 DEF RecovererPcs
    <3>2. \A h \in Granules : ~Taken(p, h) /\ Reaches(h)
      BY <2>2, <3>1 DEF Taken, Engaged
    <3>3. SelectionOK(p)'
      BY <2>1, <2>2, <3>1 DEF SelectionOK
    <3> QED BY <1>6, <2>2, <2>4, <3>2, <3>3
  <2> QED BY <1>13, <2>2, <2>3, <2>4
<1>19. ASSUME NEW k \in Granules, ReplayRejected(p, k)
       PROVE  SelectionOK(p)' /\ \A h \in Granules : BudgetOK(h)'
  <2>1. /\ UNCHANGED <<emitted, ingest>> /\ m.pc = "idle" /\ status[k] = "rejected"
        /\ status'[k] = "replay_pending"
        /\ \A h \in Granules : h # k => status'[h] = status[h]
    <3>1. status \in [Granules -> Statuses \cup {"absent"}]
      BY DEF IInv, TypeOK
    <3>2. /\ UNCHANGED <<emitted, ingest>> /\ m.pc = "idle" /\ status[k] = "rejected"
          /\ status' = [status EXCEPT ![k] = "replay_pending"]
      BY <1>19, Zenon DEF ReplayRejected, RecovererAt, SetStatus
    <3> QED BY <3>1, <3>2
  <2>2. (\A h \in Granules : Rows(h)) /\ m.rows = {} /\ m.obs = {}
    BY <2>1 DEF SelectionOK
  <2>3. CASE Fault /\ UNCHANGED recover
    <3>1. SelectionOK(p)'
      BY <2>3 DEF SelectionOK
    <3> QED BY <1>3, <1>5, <2>1, <2>2, <2>3, <3>1
  <2>4. CASE /\ faults' = faults
             /\ recover' = [recover EXCEPT ![p] = [@ EXCEPT !.pc = "create_outbox", !.g = k]]
    <3>1. n.pc = "create_outbox" /\ n.g = k /\ n.rows = m.rows /\ n.obs = m.obs
      BY <1>1, <2>4 DEF IInv, TypeOK, RecovererStates
    <3>2. \A h \in Granules : ~Taken(p, h) /\ (Engaged(p, h)' => h = k)
      BY <2>1, <2>2, <3>1 DEF Taken, Engaged
    <3>3. InReach(k) /\ \A h \in Granules : h # k => (InReach(h)' <=> InReach(h))
      BY <2>1 DEF InReach
    <3>4. \A h \in Granules : Loses(h)
      BY <3>2, <3>3
    <3>5. SelectionOK(p)'
      BY <2>2, <3>1 DEF SelectionOK
    <3> QED BY <1>5, <2>1, <2>2, <2>4, <3>4, <3>5
  <2> QED BY <1>19, <2>3, <2>4 DEF ReplayRejected
<1>20. ASSUME NEW k \in Granules, NEW i \in Nat, DrainEnqueue(p, k, i)
       PROVE  SelectionOK(p)' /\ \A h \in Granules : BudgetOK(h)'
  <2>1. /\ UNCHANGED <<status, ingest>> /\ m.pc = "drain" /\ <<k, i>> \in m.obs
        /\ n.g = k /\ n.rows = m.rows /\ n.obs = m.obs \ {<<k, i>>}
        /\ \/ n.pc = "mark_enqueued" /\ Enqueue(k)
           \/ n.pc = "fail_outbox" /\ EnqueueFails(k)
    BY <1>1, <1>20 DEF DrainEnqueue, RecovererAt, IInv, TypeOK, RecovererStates
  <2>2. /\ \A h \in Granules : h # k => emitted'[h] = emitted[h]
        /\ faults' >= faults
        /\ \/ n.pc = "mark_enqueued" /\ emitted'[k] + faults <= emitted[k] + 1 + faults'
           \/ n.pc = "fail_outbox" /\ emitted'[k] + faults <= emitted[k] + faults'
    <3>1. emitted \in [Granules -> Nat]
      BY DEF IInv, TypeOK
    <3> QED BY <1>1, <1>3, <2>1, <3>1 DEF Enqueue, EnqueueFails
  <2>3. status[k] # "absent"
    BY <2>1 DEF IInv, RecovererOK, GranuleOK, Vetted
  <2>4. \A h \in Granules : Rows(h)
    BY <2>1, <2>2, <2>3
  <2>5. m.rows = {} /\ \A j \in Nat : <<k, j>> \notin n.obs
    BY <2>1 DEF SelectionOK
  <2>6. SelectionOK(p)'
    BY <2>1, <2>5 DEF SelectionOK
  <2>7. \A h \in Granules : ~Taken(p, h) /\ Reaches(h) /\ (InReach(h)' <=> InReach(h))
    BY <2>1 DEF Taken, Engaged, InReach
  <2>8. Engaged(p, k) /\ (n.pc = "mark_enqueued" => Taken(p, k)')
    BY <2>1 DEF Engaged, Taken
  <2>9. Ticket(k) = 1 /\ (n.pc = "mark_enqueued" => Ticket(k)' = 0)
    BY <1>2, <2>7, <2>8
  <2>10. ASSUME NEW h \in Granules
         PROVE  Spends(h)
    <3>1. CASE h = k
      BY <1>1, <1>2, <2>2, <2>9, <3>1 DEF Spends
    <3>2. CASE h # k
      <4>1. Ticket(h)' <= Ticket(h)
        BY <1>2, <2>7
      <4> QED BY <1>1, <1>2, <2>2, <3>2, <4>1 DEF Spends
    <3> QED BY <3>1, <3>2
  <2> QED BY <1>4, <2>1, <2>4, <2>6, <2>10
<1>21. ASSUME NEW record \in m.obs, DrainEnqueue(p, record[1], record[2])
       PROVE  SelectionOK(p)' /\ \A h \in Granules : BudgetOK(h)'
  <2>1. record[1] \in Granules /\ record[2] \in Nat
    BY <1>1
  <2> QED BY <1>20, <1>21, <2>1
<1> QED BY <1>9, <1>10, <1>11, <1>12, <1>14, <1>16, <1>17, <1>18, <1>19, <1>21 DEF RecovererStep

\* One recoverer at a time, however often it is started, and any number of runs
\* queue a granule at most four times, and once more for each fault.
THEOREM DuplicatesAreBounded ==
  ASSUME OneRecoverer
  PROVE  Spec => []DuplicatesBounded
<1>1. Init => DupInv
  <2> SUFFICES ASSUME Init  PROVE DupInv
    OBVIOUS
  <2>1. \A p \in Recoverers : SelectionOK(p)
    BY DEF Init, SelectionOK, IdleRecoverer
  <2>2. ASSUME NEW g \in Granules
        PROVE  BudgetOK(g)
    <3>1. Ticket(g) \in {0, 1} /\ emitted[g] = 0 /\ faults = 0
      BY Tickets DEF Init
    <3> QED BY <3>1 DEF Init, BudgetOK, IdleRun
  <2> QED BY <2>1, <2>2 DEF DupInv
<1>2. ASSUME IInv, TypeOK', OnePendingRecord, DupInv, [Next]_vars
      PROVE  DupInv'
  <2>1. ASSUME NEW r \in Runs, RunStep(r) \/ RunCrash(r)
        PROVE  DupInv'
    <3>1. UNCHANGED recover
      BY <2>1 DEF RunStep, RunCrash, Download, UploadRaw, MarkDownloaded, MarkRejected,
                  MarkValidated, MarkFailed, MarkEnqueued, RunMarks, CreateOutbox,
                  EnqueueMessage, CompleteOutbox
    <3>2. \A p \in Recoverers : SelectionOK(p)'
      BY <1>2, <3>1 DEF DupInv, SelectionOK
    <3> QED BY <1>2, <2>1, <3>2, RunBudget DEF DupInv
  <2>2. ASSUME NEW p \in Recoverers,
               StartRecovery(p) \/ RecovererStep(p) \/ RecovererCrash(p)
                 \/ \E h \in Granules : ReplayRejected(p, h)
        PROVE  DupInv'
    <3>1. SelectionOK(p)' /\ \A h \in Granules : BudgetOK(h)'
      BY <1>2, <2>2, RecovererBudget DEF DupInv
    <3> QED BY <3>1 DEF OneRecoverer, DupInv
  <2>3. ASSUME NEW r \in Runs, NEW g \in Granules, InsertDownloadingRow(r, g)
        PROVE  DupInv'
    <3>1. /\ UNCHANGED <<recover, emitted>> /\ status[g] = "absent" /\ status'[g] = "downloading"
          /\ \A h \in Granules \ {g} : status'[h] = status[h]
      BY <1>2, <2>3 DEF InsertDownloadingRow, SetStatus, IInv, TypeOK
    <3>2. \A p \in Recoverers : SelectionOK(p)'
      BY <1>2, <3>1 DEF DupInv, SelectionOK
    <3>3. \A q \in Runs : ingest[q].pc # "idle" => ingest[q].g # g
      BY <1>2, <3>1 DEF IInv, RunOK
    <3> DEFINE Moved == /\ \A q \in Runs \ {r} : ingest'[q] = ingest[q]
                        /\ ingest'[r].pc # "idle" => ingest'[r].g = g
                        /\ ingest'[r].pc \in {"download", "idle"}
    <3>4. ASSUME ingest' = [ingest EXCEPT ![r] = [@ EXCEPT !.pc = "download", !.g = g]]
          PROVE  Moved
      BY <1>2, <3>4 DEF IInv, TypeOK, RunStates
    <3>5. ASSUME UNCHANGED ingest
          PROVE  Moved
      BY <2>3, <3>5 DEF InsertDownloadingRow, RunAt
    <3>6. Moved
      BY <2>3, <3>4, <3>5 DEF InsertDownloadingRow
    <3>7. faults \in Nat /\ faults' \in Nat /\ faults' >= faults
      BY <1>2, <2>3, FaultsAssumption DEF InsertDownloadingRow, Fault, IInv, TypeOK
    <3>8. emitted'[g] = 0
      BY <1>2, <3>1 DEF DupInv, BudgetOK
    <3>9. Ticket(g)' \in {0, 1} /\ Left(ingest'[r].pc) \in 0..3
      BY Tickets, LeftIs
    <3>10. emitted'[g] + Ticket(g)' + Left(ingest'[r].pc) <= 4 + faults'
      BY <3>7, <3>8, <3>9
    <3>11. \A h \in Granules \ {g} : status'[h] = status[h] /\ emitted'[h] = emitted[h]
      BY <3>1
    <3>12. \A h \in Granules : BudgetOK(h)'
      BY <1>2, <3>1, <3>3, <3>6, <3>7, <3>10, <3>11, RunSpends DEF DupInv
    <3> QED BY <3>2, <3>12 DEF DupInv
  <2>4. CASE UNCHANGED vars
    <3>1. UNCHANGED <<status, emitted, recover, ingest, faults>>
      BY <2>4 DEF vars
    <3>2. \A p \in Recoverers : SelectionOK(p)'
      BY <1>2, <3>1 DEF DupInv, SelectionOK
    <3>3. ASSUME NEW g \in Granules
          PROVE  BudgetOK(g)'
      <4>1. Ticket(g)' = Ticket(g)
        BY <3>1, TicketsOfRows
      <4> QED BY <1>2, <3>1, <4>1 DEF DupInv, BudgetOK
    <3> QED BY <3>2, <3>3 DEF DupInv
  <2> QED BY <1>2, <2>1, <2>2, <2>3, <2>4 DEF Next
<1>3. TypeOK /\ DupInv => DuplicatesBounded
  <2> SUFFICES ASSUME TypeOK, DupInv, NEW g \in Granules
               PROVE  emitted[g] <= 4 + faults
    BY DEF DuplicatesBounded
  <2>1. emitted[g] \in Nat /\ faults \in Nat /\ Ticket(g) \in {0, 1}
    BY FaultsAssumption, Tickets DEF TypeOK
  <2> QED BY <2>1 DEF DupInv, BudgetOK
<1> QED BY <1>1, <1>2, <1>3, Typing, Vetting, PendingIsUnique, PTL DEF Spec

=============================================================================
