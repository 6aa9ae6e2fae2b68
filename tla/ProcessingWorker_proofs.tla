----------------------- MODULE ProcessingWorker_proofs -----------------------
(* Theorems about ProcessingWorker, for any number of ingests, messages,     *)
(* workers and faults, and any max_dequeue_count.                            *)
EXTENDS ProcessingWorker, TLAPS

-----------------------------------------------------------------------------
(* The inductive invariant *)

Counted == {"work", "publish", "mark_rejected", "mark_processed"}

\* What allows a message for g to be deleted.
Settled(g) ==
  \/ g \in dlq
  \/ Published(g)
  \/ verdict[g] = "cloudy" /\ log[g].attempts > 0

\* A worker holds the latest delivery of m.
Held(m) == \E w \in Workers : worker[w].m = m /\ worker[w].receipt = queue[m].dequeues

\* Another delivery of a message is left, is being made, or was paid for by a fault.
QueueOK(m) ==
  /\ queue[m].state = "unsent" => queue[m].dequeues = 0
  /\ queue[m].dequeues <= MaxDequeueCount + faults
  /\ queue[m].state = "visible" => queue[m].dequeues < MaxDequeueCount + faults
  /\ queue[m].state = "hidden" => queue[m].dequeues < MaxDequeueCount + faults \/ Held(m)

\* What a worker has established at each step.
WorkerOK(w) ==
  LET g == Body[worker[w].m] IN
  /\ At(w, "idle") => worker[w].m = NoMessage
  /\ ~At(w, "idle") => /\ worker[w].m \in Messages
                       /\ worker[w].receipt <= queue[worker[w].m].dequeues
  /\ worker[w].pc \in Counted =>
       worker[w].attempt \in 1..log[g].attempts /\ HasRow(g)
  /\ At(w, "publish") => verdict[g] \in {"windowless", "clear"}
  /\ At(w, "mark_processed") => verdict[g] = "clear"
  /\ At(w, "mark_rejected") => verdict[g] = "cloudy"
  /\ At(w, "mark_processed") => <<g, worker[w].attempt>> \in tileSets
  /\ At(w, "deadletter") => ~HasRow(g) \/ Exhausted(worker[w].receipt)
  /\ At(w, "delete") => Settled(g)

\* Only an ingest_log row gets a processing_log row, and only one of a message that
\* has used up its deliveries is dead-lettered.
RowsOK ==
  \A g \in Ingests :
    /\ ~HasRow(g) => log[g].status = "none"
    /\ HasRow(g) /\ (g \in dlq \/ log[g].status = "deadlettered") =>
         \E m \in Messages : Body[m] = g /\ Exhausted(queue[m].dequeues)

IInv ==
  /\ TypeOK
  /\ \A m \in Messages : QueueOK(m)
  /\ \A w \in Workers : WorkerOK(w)
  /\ AttemptsAreExclusive
  /\ RowsOK
  /\ DeletedMeansSettled
  /\ LinkedMeansPublished
  /\ OnlyClearIsPublished

-----------------------------------------------------------------------------
(* What every step keeps *)

PCs == {"idle", "start", "work", "publish", "mark_rejected", "mark_processed",
        "fail", "deadletter", "delete"}
WorkerStates ==
  [pc : PCs, m : Messages \cup {NoMessage}, receipt : Nat, attempt : Nat]

\* Nothing that was published, dead-lettered, counted or found out is taken back.
Grows ==
  /\ verdict' = verdict
  /\ \A g \in Ingests : log'[g].attempts >= log[g].attempts
  /\ tileSets \subseteq tileSets' /\ dlq \subseteq dlq'
  /\ \A m \in Messages : queue'[m].dequeues >= queue[m].dequeues

\* A settled ingest stays settled.
LEMMA SettledStays ==
  ASSUME TypeOK, TypeOK', Grows, NEW g \in Ingests, Settled(g)
  PROVE  Settled(g)'
<1>1. log[g].attempts \in Nat /\ log'[g].attempts \in Nat /\ log'[g].attempts >= log[g].attempts
  BY DEF TypeOK, Grows
<1>2. CASE g \in dlq
  BY <1>2 DEF Settled, Grows
<1>3. CASE Published(g)
  <2>1. PICK k \in 1..log[g].attempts : <<g, k>> \in tileSets
    BY <1>3 DEF Published
  <2>2. k \in 1..log'[g].attempts /\ <<g, k>> \in tileSets'
    BY <1>1, <2>1 DEF Grows
  <2> QED BY <2>2 DEF Settled, Published
<1>4. CASE verdict[g] = "cloudy" /\ log[g].attempts > 0
  BY <1>1, <1>4 DEF Settled, Grows
<1> QED BY <1>2, <1>3, <1>4 DEF Settled

\* A worker that does not move loses nothing by what the others do.
LEMMA WorkerStands ==
  ASSUME IInv, TypeOK', Grows, NEW w \in Workers, worker'[w] = worker[w]
  PROVE  WorkerOK(w)'
<1> USE DEF IInv
<1>1. CASE At(w, "idle")
  BY <1>1 DEF WorkerOK, At, Counted
<1>2. CASE ~At(w, "idle")
  <2> DEFINE m == worker[w].m
             g == Body[m]
  <2>1. m \in Messages /\ g \in Ingests /\ worker[w].receipt <= queue[m].dequeues
    BY <1>2, BodyAssumption DEF WorkerOK
  <2>2. worker[w].receipt <= queue'[m].dequeues
    BY <2>1 DEF TypeOK, Grows
  <2>3. \A k \in 1..log[g].attempts : k \in 1..log'[g].attempts
    BY <2>1 DEF TypeOK, Grows
  <2>4. Settled(g) => Settled(g)'
    BY <2>1, SettledStays
  <2>5. verdict' = verdict /\ tileSets \subseteq tileSets'
    BY DEF Grows
  <2> QED BY <1>2, <2>1, <2>2, <2>3, <2>4, <2>5 DEF WorkerOK, At, HasRow
<1> QED BY <1>1, <1>2

\* A worker goes on with the same delivery, or puts it down.
LEMMA Goes ==
  ASSUME TypeOK, NEW w \in Workers, NEW pc \in PCs, Goto(w, pc)
  PROVE  /\ worker' \in [Workers -> WorkerStates]
         /\ \A v \in Workers \ {w} : worker'[v] = worker[v]
         /\ pc = "idle" => worker'[w] = IdleWorker
         /\ pc # "idle" =>
              /\ worker'[w].pc = pc /\ worker'[w].m = worker[w].m
              /\ worker'[w].receipt = worker[w].receipt /\ worker'[w].attempt = worker[w].attempt
<1>1. worker \in [Workers -> WorkerStates]
  BY DEF TypeOK, WorkerStates, PCs
<1>2. CASE pc = "idle"
  BY <1>1, <1>2 DEF Goto, IdleWorker, WorkerStates, PCs
<1>3. CASE pc # "idle"
  <2>1. worker' = [worker EXCEPT ![w] = [worker[w] EXCEPT !.pc = pc]]
    BY <1>3 DEF Goto
  <2> QED BY <1>1, <1>3, <2>1 DEF WorkerStates
<1> QED BY <1>2, <1>3

\* The deliveries of all messages are still paid for when the queue stays as it is
\* and w keeps its delivery, meets a fault, or puts down one that was not the last.
LEMMA QueueStays ==
  ASSUME IInv, NEW w \in Workers, queue' = queue, faults' \in {faults, faults + 1},
         \A v \in Workers \ {w} : worker'[v] = worker[v],
         \/ worker'[w].m = worker[w].m /\ worker'[w].receipt = worker[w].receipt
         \/ faults' # faults
         \/ ~Exhausted(worker[w].receipt)
  PROVE  \A m \in Messages : QueueOK(m)'
<1> SUFFICES ASSUME NEW m \in Messages PROVE QueueOK(m)'
  OBVIOUS
<1>1. /\ faults \in Nat /\ queue[m].dequeues \in Nat /\ MaxDequeueCount \in Nat
      /\ QueueOK(m) /\ worker[w].receipt \in Nat
  BY CountsAssumption DEF IInv, TypeOK
<1>2. CASE faults' # faults
  BY <1>1, <1>2 DEF QueueOK
<1>3. CASE Held(m) => Held(m)'
  BY <1>1, <1>3 DEF QueueOK
<1>4. CASE faults' = faults /\ Held(m) /\ ~(Held(m)')
  <2>1. worker[w].receipt = queue[m].dequeues
    BY <1>4 DEF Held
  <2>2. ~Exhausted(worker[w].receipt)
    BY <1>4 DEF Held
  <2>3. queue[m].dequeues < MaxDequeueCount
    BY <1>1, <2>1, <2>2 DEF Exhausted
  <2> QED BY <1>1, <1>4, <2>3 DEF QueueOK
<1> QED BY <1>2, <1>3, <1>4

\* Messages that are gone were settled, and stay so.
LEMMA DeletedStays ==
  ASSUME IInv, TypeOK', Grows,
         \A m \in Messages : queue'[m].state = "deleted" =>
           queue[m].state = "deleted" \/ Settled(Body[m])
  PROVE  DeletedMeansSettled'
<1> SUFFICES ASSUME NEW m \in Messages, queue'[m].state = "deleted"
             PROVE  Settled(Body[m])'
  BY DEF DeletedMeansSettled, Settled
<1>1. Body[m] \in Ingests
  BY BodyAssumption
<1>2. Settled(Body[m])
  BY DEF IInv, DeletedMeansSettled, Settled
<1> QED BY <1>1, <1>2, SettledStays DEF IInv

\* The tables and the dead-letter queue stay as they are, and deliveries only grow.
LEMMA TablesStay ==
  ASSUME IInv, TypeOK', Grows, UNCHANGED <<log, tileSets, dlq>>
  PROVE  RowsOK' /\ LinkedMeansPublished' /\ OnlyClearIsPublished'
<1>1. LinkedMeansPublished' /\ OnlyClearIsPublished'
  BY DEF IInv, LinkedMeansPublished, OnlyClearIsPublished, Grows
<1>2. \A m \in Messages : Exhausted(queue[m].dequeues) => Exhausted(queue'[m].dequeues)
  BY CountsAssumption DEF IInv, TypeOK, Grows, Exhausted
<1>3. RowsOK'
  BY <1>2 DEF IInv, RowsOK, HasRow, Grows
<1> QED BY <1>1, <1>3

\* An attempt stays that of one worker: w keeps the one it has, or takes a new one.
LEMMA AttemptsStay ==
  ASSUME IInv, NEW w \in Workers, \A v \in Workers \ {w} : worker'[v] = worker[v],
         worker'[w].pc \in Counted =>
           \/ /\ worker[w].pc \in Counted
              /\ worker'[w].m = worker[w].m /\ worker'[w].attempt = worker[w].attempt
           \/ /\ worker'[w].m = worker[w].m /\ ~At(w, "idle")
              /\ worker'[w].attempt > log[Body[worker[w].m]].attempts
  PROVE  AttemptsAreExclusive'
<1>1. \A v \in Workers \ {w} :
        /\ worker'[v].pc \in Counted /\ worker'[w].pc \in Counted
        /\ Body[worker'[v].m] = Body[worker'[w].m]
        => worker'[v].attempt # worker'[w].attempt
  <2> SUFFICES ASSUME NEW v \in Workers \ {w},
                      worker'[v].pc \in Counted, worker'[w].pc \in Counted,
                      Body[worker'[v].m] = Body[worker'[w].m]
               PROVE  worker'[v].attempt # worker'[w].attempt
    OBVIOUS
  <2>1. worker'[v] = worker[v] /\ worker'[w].m = worker[w].m
    OBVIOUS
  <2>2. CASE worker[w].pc \in Counted /\ worker'[w].attempt = worker[w].attempt
    BY <2>1, <2>2 DEF IInv, AttemptsAreExclusive, Counted
  <2>3. CASE worker'[w].attempt > log[Body[worker[w].m]].attempts /\ ~At(w, "idle")
    <3>1. Body[worker[w].m] \in Ingests
      BY <2>3, BodyAssumption DEF IInv, WorkerOK
    <3>2. worker[v].attempt \in 1..log[Body[worker[v].m]].attempts
      BY <2>1 DEF IInv, WorkerOK
    <3>3. log[Body[worker[w].m]].attempts \in Nat
      BY <3>1 DEF IInv, TypeOK
    <3> QED BY <2>1, <2>3, <3>2, <3>3
  <2> QED BY <2>2, <2>3
<1>2. AttemptsAreExclusive
  BY DEF IInv
<1> QED BY <1>1, <1>2 DEF AttemptsAreExclusive, Counted

-----------------------------------------------------------------------------
(* The steps of a worker *)

\* What remains to be shown of a step that leaves the queue alone.
LEMMA WorkerMoves ==
  ASSUME IInv, NEW w \in Workers, TypeOK', Grows, queue' = queue,
         faults' \in {faults, faults + 1},
         \A v \in Workers \ {w} : worker'[v] = worker[v], WorkerOK(w)',
         RowsOK', LinkedMeansPublished', OnlyClearIsPublished',
         \/ worker'[w].m = worker[w].m /\ worker'[w].receipt = worker[w].receipt
         \/ faults' # faults
         \/ ~Exhausted(worker[w].receipt),
         worker'[w].pc \in Counted =>
           \/ /\ worker[w].pc \in Counted
              /\ worker'[w].m = worker[w].m /\ worker'[w].attempt = worker[w].attempt
           \/ /\ worker'[w].m = worker[w].m /\ ~At(w, "idle")
              /\ worker'[w].attempt > log[Body[worker[w].m]].attempts
  PROVE  IInv'
<1>1. \A m \in Messages : QueueOK(m)'
  BY QueueStays
<1>2. \A v \in Workers : WorkerOK(v)'
  BY WorkerStands
<1>3. AttemptsAreExclusive'
  BY AttemptsStay
<1>4. DeletedMeansSettled'
  BY DeletedStays
<1> QED BY <1>1, <1>2, <1>3, <1>4 DEF IInv

\* Faults are counted one by one.
LEMMA FaultsCount ==
  ASSUME TypeOK, Fault \/ UNCHANGED faults
  PROVE  /\ faults' \in 0..MaxFaults /\ faults' \in {faults, faults + 1}
         /\ Fault => faults' # faults
BY CountsAssumption DEF TypeOK, Fault

\* What a worker has in hand.
LEMMA InHand ==
  ASSUME IInv, NEW w \in Workers, ~At(w, "idle")
  PROVE  /\ worker[w].m \in Messages /\ Body[worker[w].m] \in Ingests
         /\ worker[w].receipt \in Nat /\ worker[w].attempt \in Nat
         /\ worker[w].receipt <= queue[worker[w].m].dequeues
         /\ Exhausted(worker[w].receipt) => Exhausted(queue[worker[w].m].dequeues)
<1>1. /\ worker[w].m \in Messages /\ worker[w].receipt <= queue[worker[w].m].dequeues
      /\ worker[w].receipt \in Nat /\ worker[w].attempt \in Nat
  BY DEF IInv, WorkerOK, TypeOK
<1>2. queue[worker[w].m].dequeues \in Nat
  BY <1>1 DEF IInv, TypeOK
<1> QED BY <1>1, <1>2, BodyAssumption, CountsAssumption DEF Exhausted

\* upsert_processing_started: one attempt more, for an ingest with a row.
LEMMA LogStarts ==
  ASSUME IInv, NEW w \in Workers, ~At(w, "idle"),
         log' = [h \in Ingests |-> log'[h]],
         \A h \in Ingests :
           IF h = Body[worker[w].m] /\ HasRow(h)
           THEN log'[h] = [status |-> "processing", attempts |-> log[h].attempts + 1,
                           tileSet |-> log[h].tileSet]
           ELSE log'[h] = log[h],
         UNCHANGED <<queue, tileSets, dlq, verdict>>
  PROVE  /\ log' \in [Ingests -> [status : Statuses \cup {"none"}, attempts : Nat, tileSet : Nat]]
         /\ Grows /\ RowsOK' /\ LinkedMeansPublished' /\ OnlyClearIsPublished'
         /\ HasRow(Body[worker[w].m]) =>
              log'[Body[worker[w].m]].attempts = log[Body[worker[w].m]].attempts + 1
<1> DEFINE g == Body[worker[w].m]
           Row == [status : Statuses \cup {"none"}, attempts : Nat, tileSet : Nat]
<1>1. log \in [Ingests -> Row] /\ g \in Ingests
  BY InHand DEF IInv, TypeOK
<1>2. \A h \in Ingests :
        /\ log'[h] \in Row
        /\ log'[h].attempts >= log[h].attempts /\ log'[h].tileSet = log[h].tileSet
        /\ log'[h].status = log[h].status \/ (log'[h].status = "processing" /\ HasRow(h))
        /\ log[h].attempts \in Nat /\ log'[h].attempts \in Nat
  <2> SUFFICES ASSUME NEW h \in Ingests
               PROVE  /\ log'[h] \in Row
                      /\ log'[h].attempts >= log[h].attempts /\ log'[h].tileSet = log[h].tileSet
                      /\ \/ log'[h].status = log[h].status
                         \/ log'[h].status = "processing" /\ HasRow(h)
                      /\ log[h].attempts \in Nat /\ log'[h].attempts \in Nat
    OBVIOUS
  <2>1. log[h] \in Row /\ log[h].attempts \in Nat /\ log[h].tileSet \in Nat
    BY <1>1
  <2>2. CASE h = g /\ HasRow(h)
    BY <2>1, <2>2, SMTT(30) DEF Statuses
  <2>3. CASE ~(h = g /\ HasRow(h))
    BY <2>1, <2>3
  <2> QED BY <2>2, <2>3
<1>3. log' \in [Ingests -> Row]
  BY <1>2
<1>4. Grows
  BY <1>2 DEF Grows, IInv, TypeOK
<1>5. RowsOK'
  BY <1>2 DEF IInv, RowsOK, HasRow
<1>6. LinkedMeansPublished'
  BY <1>2 DEF IInv, LinkedMeansPublished
<1>7. OnlyClearIsPublished'
  <2> SUFFICES ASSUME NEW ts \in tileSets
               PROVE  verdict[ts[1]] = "clear" /\ ts[2] \in 1..log'[ts[1]].attempts
    BY DEF OnlyClearIsPublished
  <2>1. ts[1] \in Ingests /\ verdict[ts[1]] = "clear" /\ ts[2] \in 1..log[ts[1]].attempts
    BY DEF IInv, TypeOK, OnlyClearIsPublished
  <2> QED BY <1>1, <1>2, <2>1
<1>8. HasRow(g) => log'[g].attempts = log[g].attempts + 1
  BY <1>1 DEF HasRow
<1> QED BY <1>3, <1>4, <1>5, <1>6, <1>7, <1>8

\* UPDATE processing_log: a status that the row may have, and the tile set with it.
LEMMA LogMarks ==
  ASSUME IInv, NEW w \in Workers, ~At(w, "idle"),
         NEW s \in {"processed", "rejected", "failed", "deadlettered"},
         log' = log \/ log' = Updated(w, s),
         s = "processed" =>
           worker[w].attempt # 0 /\ <<Body[worker[w].m], worker[w].attempt>> \in tileSets,
         s = "deadlettered" => Exhausted(worker[w].receipt),
         UNCHANGED <<queue, tileSets, dlq, verdict>>
  PROVE  /\ log' \in [Ingests -> [status : Statuses \cup {"none"}, attempts : Nat, tileSet : Nat]]
         /\ \A h \in Ingests : log'[h].attempts = log[h].attempts
         /\ Grows /\ RowsOK' /\ LinkedMeansPublished' /\ OnlyClearIsPublished'
<1> DEFINE g == Body[worker[w].m]
           Row == [status : Statuses \cup {"none"}, attempts : Nat, tileSet : Nat]
           marked == [status |-> s, attempts |-> log[g].attempts,
                      tileSet |-> IF s = "processed" THEN worker[w].attempt ELSE log[g].tileSet]
<1>1. log \in [Ingests -> Row] /\ g \in Ingests /\ worker[w].m \in Messages /\ worker[w].attempt \in Nat
  BY InHand DEF IInv, TypeOK
<1>2. log' \in [Ingests -> Row] /\ \A h \in Ingests \ {g} : log'[h] = log[h]
  <2>1. CASE log' = log
    BY <1>1, <2>1
  <2>2. CASE log' = Updated(w, s)
    BY <1>1, <2>2, ZenonT(30) DEF Updated, Statuses
  <2> QED BY <2>1, <2>2
<1>3. log'[g] = log[g] \/ (log[g].status # "none" /\ log'[g] = marked)
  <2>1. CASE log' = log
    BY <2>1
  <2>2. CASE log' = Updated(w, s) /\ log[g].status = "none"
    BY <1>1, <2>2 DEF Updated
  <2>3. CASE log' = Updated(w, s) /\ log[g].status # "none"
    BY <1>1, <2>3 DEF Updated
  <2> QED BY <2>1, <2>2, <2>3
<1>4. \A h \in Ingests : log'[h].attempts = log[h].attempts
  BY <1>1, <1>2, <1>3
<1>5. Grows
  BY <1>4 DEF Grows, IInv, TypeOK
<1>6. RowsOK'
  <2> SUFFICES ASSUME NEW h \in Ingests
               PROVE  /\ ~HasRow(h) => log'[h].status = "none"
                      /\ HasRow(h) /\ (h \in dlq \/ log'[h].status = "deadlettered") =>
                           \E m \in Messages : Body[m] = h /\ Exhausted(queue[m].dequeues)
    BY DEF RowsOK, HasRow
  <2>1. CASE log'[h] = log[h]
    BY <2>1 DEF IInv, RowsOK
  <2>2. CASE h = g /\ log[g].status # "none" /\ log'[g] = marked
    <3>1. HasRow(h) /\ log'[h].status = s
      BY <1>1, <2>2 DEF IInv, RowsOK
    <3>2. CASE s = "deadlettered"
      BY <1>1, <2>2, <3>1, <3>2, InHand
    <3>3. CASE s # "deadlettered"
      BY <3>1, <3>3 DEF IInv, RowsOK
    <3> QED BY <3>2, <3>3
  <2> QED BY <1>2, <1>3, <2>1, <2>2
<1>7. LinkedMeansPublished'
  <2> SUFFICES ASSUME NEW h \in Ingests
               PROVE  /\ log'[h].tileSet # 0 => <<h, log'[h].tileSet>> \in tileSets
                      /\ log'[h].status = "processed" => log'[h].tileSet # 0
    BY DEF LinkedMeansPublished
  <2>1. CASE log'[h] = log[h]
    BY <2>1 DEF IInv, LinkedMeansPublished
  <2>2. CASE h = g /\ log'[g] = marked
    BY <2>2 DEF IInv, LinkedMeansPublished
  <2> QED BY <1>2, <1>3, <2>1, <2>2
<1>8. OnlyClearIsPublished'
  <2> SUFFICES ASSUME NEW ts \in tileSets
               PROVE  verdict[ts[1]] = "clear" /\ ts[2] \in 1..log'[ts[1]].attempts
    BY DEF OnlyClearIsPublished
  <2>1. ts[1] \in Ingests /\ verdict[ts[1]] = "clear" /\ ts[2] \in 1..log[ts[1]].attempts
    BY DEF IInv, TypeOK, OnlyClearIsPublished
  <2> QED BY <1>4, <2>1
<1> QED BY <1>2, <1>4, <1>5, <1>6, <1>7, <1>8

\* Start: the delivery takes the attempt it has just counted.
LEMMA Starts ==
  ASSUME IInv, NEW w \in Workers, Start(w)
  PROVE  IInv'
<1> DEFINE g == Body[worker[w].m]
           started == [h \in Ingests |->
             IF h = g /\ HasRow(g) THEN [log[h] EXCEPT !.status = "processing", !.attempts = @ + 1]
             ELSE log[h]]
<1>1. /\ UNCHANGED <<queue, tileSets, dlq, requeues, verdict, raw, cleaned, cleanup>>
      /\ At(w, "start") /\ ~At(w, "idle")
  BY DEF Start, retention, At
<1>2. TypeOK
  BY DEF IInv
<1>3. log \in [Ingests -> [status : Statuses \cup {"none"}, attempts : Nat, tileSet : Nat]] /\ g \in Ingests
  BY <1>1, <1>2, InHand DEF TypeOK
<1>4. log' = log \/ log' = started
  BY DEF Start
<1>5. /\ log' \in [Ingests -> [status : Statuses \cup {"none"}, attempts : Nat, tileSet : Nat]]
      /\ Grows /\ RowsOK' /\ LinkedMeansPublished' /\ OnlyClearIsPublished'
      /\ log' = started /\ HasRow(g) => log'[g].attempts = log[g].attempts + 1
  <2>1. CASE log' = started
    <3>1. log' = [h \in Ingests |-> log'[h]]
      BY <2>1
    <3>2. \A h \in Ingests :
            IF h = g /\ HasRow(h)
            THEN log'[h] = [status |-> "processing", attempts |-> log[h].attempts + 1,
                            tileSet |-> log[h].tileSet]
            ELSE log'[h] = log[h]
      <4> SUFFICES ASSUME NEW h \in Ingests
                   PROVE  IF h = g /\ HasRow(h)
                          THEN log'[h] = [status |-> "processing", attempts |-> log[h].attempts + 1,
                                          tileSet |-> log[h].tileSet]
                          ELSE log'[h] = log[h]
        OBVIOUS
      <4>1. log[h] \in [status : Statuses \cup {"none"}, attempts : Nat, tileSet : Nat]
        BY <1>3
      <4>2. CASE h = g /\ HasRow(h)
        <5>1. log'[h] = [log[h] EXCEPT !.status = "processing", !.attempts = @ + 1]
          BY <2>1, <4>2 DEF HasRow
        <5> QED BY <4>1, <4>2, <5>1
      <4>3. CASE ~(h = g /\ HasRow(h))
        BY <2>1, <4>3 DEF HasRow
      <4> QED BY <4>2, <4>3
    <3> QED BY <1>1, <3>1, <3>2, LogStarts
  <2>2. CASE log' = log
    <3>1. TypeOK /\ Grows
      BY <1>1, <1>2, <1>3, <2>2 DEF Grows, TypeOK
    <3>2. LinkedMeansPublished' /\ OnlyClearIsPublished' /\ RowsOK'
      BY <1>1, <2>2 DEF IInv, LinkedMeansPublished, OnlyClearIsPublished, RowsOK, HasRow
    <3>3. log[g].attempts + 1 # log[g].attempts
      BY <1>3
    <3> QED BY <1>3, <2>2, <3>1, <3>2
  <2> QED BY <1>4, <2>1, <2>2
<1>6. faults' \in 0..MaxFaults /\ faults' \in {faults, faults + 1}
  BY <1>2, FaultsCount DEF Start
<1>7. CASE /\ HasRow(g) /\ log' = started
           /\ worker' = [worker EXCEPT ![w].pc = "work", ![w].attempt = log[g].attempts + 1]
  <2>1. worker \in [Workers -> WorkerStates] /\ log[g].attempts \in Nat
    BY <1>2, <1>3 DEF TypeOK, WorkerStates, PCs
  <2>2. /\ worker'[w] = [worker[w] EXCEPT !.pc = "work", !.attempt = log[g].attempts + 1]
        /\ \A v \in Workers \ {w} : worker'[v] = worker[v]
        /\ worker' = [v \in Workers |-> worker'[v]]
    BY <1>7, <2>1
  <2>3. worker'[w] = [pc |-> "work", m |-> worker[w].m, receipt |-> worker[w].receipt,
                      attempt |-> log[g].attempts + 1]
    <3>1. worker[w] \in WorkerStates
      BY <2>1
    <3> QED BY <2>2, <3>1 DEF WorkerStates
  <2>4. worker'[w] \in WorkerStates
    BY <2>1, <2>3 DEF WorkerStates, PCs
  <2>5. worker' \in [Workers -> WorkerStates]
    BY <2>1, <2>2, <2>4
  <2>6. TypeOK'
    BY <1>1, <1>2, <1>5, <1>6, <2>5 DEF TypeOK, WorkerStates, PCs
  <2>7. WorkerOK(w)'
    <3>1. /\ worker'[w].pc = "work" /\ worker'[w].m = worker[w].m
          /\ worker'[w].receipt = worker[w].receipt /\ worker'[w].attempt = log[g].attempts + 1
      BY <2>3
    <3>2. worker[w].m \in Messages /\ worker[w].receipt <= queue[worker[w].m].dequeues
      BY <1>1, InHand
    <3>3. log[g].attempts + 1 \in 1..log'[g].attempts
      <4>1. log'[g].attempts = log[g].attempts + 1
        BY <1>5, <1>7
      <4> QED BY <2>1, <4>1
    <3> QED BY <1>1, <1>7, <3>1, <3>2, <3>3 DEF WorkerOK, At, HasRow, Counted
  <2>8. /\ worker'[w].m = worker[w].m /\ worker'[w].receipt = worker[w].receipt
        /\ worker'[w].attempt > log[g].attempts
    BY <2>1, <2>3
  <2> QED BY <1>1, <1>5, <1>6, <2>2, <2>6, <2>7, <2>8, WorkerMoves
<1>8. CASE Goto(w, "fail") \/ (~HasRow(g) /\ Goto(w, "deadletter"))
  <2>1. PICK pc \in {"fail", "deadletter"} : Goto(w, pc) /\ (pc = "deadletter" => ~HasRow(g))
    BY <1>8
  <2>2. /\ worker' \in [Workers -> WorkerStates]
        /\ \A v \in Workers \ {w} : worker'[v] = worker[v]
        /\ worker'[w].pc = pc /\ worker'[w].m = worker[w].m
        /\ worker'[w].receipt = worker[w].receipt /\ worker'[w].attempt = worker[w].attempt
    BY <1>2, <2>1, Goes DEF PCs
  <2>3. TypeOK'
    BY <1>1, <1>2, <1>5, <1>6, <2>2 DEF TypeOK, WorkerStates, PCs
  <2>4. WorkerOK(w)'
    <3>1. worker[w].m \in Messages /\ worker[w].receipt <= queue[worker[w].m].dequeues
      BY <1>1, InHand
    <3> QED BY <1>1, <2>1, <2>2, <3>1 DEF WorkerOK, At, HasRow, Counted
  <2>5. worker'[w].pc \notin Counted
    BY <2>1, <2>2 DEF Counted
  <2> QED BY <1>1, <1>5, <1>6, <2>2, <2>3, <2>4, <2>5, WorkerMoves
<1> QED BY <1>7, <1>8 DEF Start

\* Work: a clear granule goes on to publication, a cloudy one to rejection; every
\* other outcome is a failure.
LEMMA Works ==
  ASSUME IInv, NEW w \in Workers, Work(w)
  PROVE  IInv'
<1> DEFINE g == Body[worker[w].m]
<1>1. /\ UNCHANGED <<queue, log, tileSets, dlq, requeues, verdict, raw, cleaned, cleanup>>
      /\ worker[w].pc = "work" /\ ~At(w, "idle")
  BY DEF Work, retention, At
<1>2. PICK pc \in {"publish", "mark_rejected", "fail"} :
        /\ Goto(w, pc)
        /\ pc = "publish" => verdict[g] \in {"windowless", "clear"}
        /\ pc = "mark_rejected" => verdict[g] = "cloudy"
  BY DEF Work
<1>3. TypeOK /\ faults' \in 0..MaxFaults /\ faults' \in {faults, faults + 1}
  BY FaultsCount DEF IInv, Work
<1>4. /\ worker' \in [Workers -> WorkerStates]
      /\ \A v \in Workers \ {w} : worker'[v] = worker[v]
      /\ worker'[w].pc = pc /\ worker'[w].m = worker[w].m
      /\ worker'[w].receipt = worker[w].receipt /\ worker'[w].attempt = worker[w].attempt
  BY <1>2, <1>3, Goes DEF PCs
<1>5. TypeOK'
  BY <1>1, <1>3, <1>4 DEF TypeOK, WorkerStates, PCs
<1>6. Grows
  BY <1>1, <1>3 DEF Grows, TypeOK
<1>7. RowsOK' /\ LinkedMeansPublished' /\ OnlyClearIsPublished'
  BY <1>1, <1>5, <1>6, TablesStay
<1>8. WorkerOK(w)'
  <2>1. worker[w].m \in Messages /\ worker[w].receipt <= queue[worker[w].m].dequeues
    BY <1>1, InHand
  <2>2. worker[w].attempt \in 1..log[g].attempts /\ HasRow(g)
    BY <1>1 DEF IInv, WorkerOK, Counted
  <2> QED BY <1>1, <1>2, <1>4, <2>1, <2>2 DEF WorkerOK, At, HasRow, Counted
<1>9. worker[w].pc \in Counted
  BY <1>1 DEF Counted
<1> QED BY <1>1, <1>3, <1>4, <1>5, <1>6, <1>7, <1>8, <1>9, WorkerMoves

\* Publish: only a clear granule, under the attempt of this delivery.
LEMMA Publishes ==
  ASSUME IInv, NEW w \in Workers, Publish(w)
  PROVE  IInv'
<1> DEFINE g == Body[worker[w].m]
           ts == <<g, worker[w].attempt>>
<1>1. /\ UNCHANGED <<queue, log, dlq, requeues, verdict, raw, cleaned, cleanup>>
      /\ worker[w].pc = "publish" /\ ~At(w, "idle")
  BY DEF Publish, retention, At
<1>2. PICK pc \in {"mark_processed", "fail"} :
        /\ Goto(w, pc)
        /\ tileSets' = tileSets \/ tileSets' = tileSets \cup {ts}
        /\ pc = "mark_processed" => ts \in tileSets'
        /\ verdict[g] = "windowless" => pc = "fail" /\ tileSets' = tileSets
  BY DEF Publish
<1>3. TypeOK /\ faults' \in 0..MaxFaults /\ faults' \in {faults, faults + 1}
  BY FaultsCount DEF IInv, Publish
<1>4. /\ worker' \in [Workers -> WorkerStates]
      /\ \A v \in Workers \ {w} : worker'[v] = worker[v]
      /\ worker'[w].pc = pc /\ worker'[w].m = worker[w].m
      /\ worker'[w].receipt = worker[w].receipt /\ worker'[w].attempt = worker[w].attempt
  BY <1>2, <1>3, Goes DEF PCs
<1>5. /\ worker[w].m \in Messages /\ g \in Ingests /\ worker[w].attempt \in Nat
      /\ worker[w].receipt <= queue[worker[w].m].dequeues
  BY <1>1, InHand
<1>6. worker[w].attempt \in 1..log[g].attempts /\ HasRow(g)
      /\ verdict[g] \in {"windowless", "clear"}
  BY <1>1 DEF IInv, WorkerOK, Counted, At
<1>7. TypeOK'
  BY <1>1, <1>2, <1>3, <1>4, <1>5 DEF TypeOK, WorkerStates, PCs
<1>8. Grows
  BY <1>1, <1>2, <1>3 DEF Grows, TypeOK
<1>9. RowsOK'
  BY <1>1 DEF IInv, RowsOK, HasRow
<1>10. LinkedMeansPublished'
  BY <1>1, <1>2 DEF IInv, LinkedMeansPublished
<1>11. OnlyClearIsPublished'
  BY <1>1, <1>2, <1>6 DEF IInv, OnlyClearIsPublished
<1>12. WorkerOK(w)'
  BY <1>1, <1>2, <1>4, <1>5, <1>6 DEF WorkerOK, At, HasRow, Counted
<1>13. worker[w].pc \in Counted
  BY <1>1 DEF Counted
<1> QED BY <1>1, <1>3, <1>4, <1>7, <1>8, <1>9, <1>10, <1>11, <1>12, <1>13, WorkerMoves

\* Any update of the row: a worker goes on to delete what it has recorded as settled,
\* to the dead-letter queue with the last delivery, or leaves the message for another.
LEMMA RowMarks ==
  ASSUME IInv, NEW w \in Workers,
         NEW at \in {"mark_rejected", "mark_processed", "fail"},
         NEW s \in {"processed", "rejected", "failed", "deadlettered"},
         NEW next \in {"delete", "deadletter", "idle"}, NEW onError \in {"fail", "idle"},
         Marks(w, at, s, next, onError),
         s = "processed" => at = "mark_processed",
         s = "deadlettered" => Exhausted(worker[w].receipt),
         next = "delete" => at # "fail",
         next = "deadletter" => Exhausted(worker[w].receipt),
         next = "idle" => ~Exhausted(worker[w].receipt)
  PROVE  IInv'
<1> DEFINE g == Body[worker[w].m]
<1>1. /\ UNCHANGED <<queue, tileSets, dlq, requeues, verdict, raw, cleaned, cleanup>>
      /\ worker[w].pc = at /\ ~At(w, "idle")
      /\ log' = log \/ log' = Updated(w, s)
  BY DEF Marks, retention, At
<1>2. PICK pc \in {next, onError} :
        Goto(w, pc) /\ (pc = next \/ Fault) /\ (Fault \/ UNCHANGED faults)
  BY DEF Marks
<1>3. TypeOK /\ faults' \in 0..MaxFaults /\ faults' \in {faults, faults + 1} /\ (Fault => faults' # faults)
  BY <1>2, FaultsCount DEF IInv
<1>4. pc \in {"delete", "deadletter", "idle", "fail"}
  BY <1>2
<1>5. /\ worker' \in [Workers -> WorkerStates]
      /\ \A v \in Workers \ {w} : worker'[v] = worker[v]
      /\ pc = "idle" => worker'[w] = IdleWorker
      /\ pc # "idle" =>
           /\ worker'[w].pc = pc /\ worker'[w].m = worker[w].m
           /\ worker'[w].receipt = worker[w].receipt /\ worker'[w].attempt = worker[w].attempt
  BY <1>2, <1>3, <1>4, Goes DEF PCs
<1>6. /\ worker[w].m \in Messages /\ g \in Ingests /\ worker[w].attempt \in Nat
      /\ worker[w].receipt <= queue[worker[w].m].dequeues
  BY <1>1, InHand
<1>7. at # "fail" =>
        /\ worker[w].attempt \in 1..log[g].attempts
        /\ at = "mark_processed" => <<g, worker[w].attempt>> \in tileSets
        /\ at = "mark_rejected" => verdict[g] = "cloudy"
  BY <1>1 DEF IInv, WorkerOK, Counted, At
<1>8. s = "processed" => worker[w].attempt # 0 /\ <<g, worker[w].attempt>> \in tileSets
  BY <1>7
<1>9. /\ log' \in [Ingests -> [status : Statuses \cup {"none"}, attempts : Nat, tileSet : Nat]]
      /\ \A h \in Ingests : log'[h].attempts = log[h].attempts
      /\ Grows /\ RowsOK' /\ LinkedMeansPublished' /\ OnlyClearIsPublished'
  BY <1>1, <1>8, LogMarks
<1>10. TypeOK'
  BY <1>1, <1>3, <1>5, <1>9 DEF TypeOK, WorkerStates, PCs
<1>11. at # "fail" => Settled(g)
  <2>1. log[g].attempts \in Nat
    BY <1>3, <1>6 DEF TypeOK
  <2> QED BY <1>6, <1>7, <2>1 DEF Settled, Published
<1>12. WorkerOK(w)'
  <2>1. CASE pc = "idle"
    BY <1>5, <2>1 DEF WorkerOK, At, IdleWorker, Counted
  <2>2. CASE pc = "fail"
    BY <1>1, <1>5, <1>6, <2>2 DEF WorkerOK, At, Counted
  <2>3. CASE pc = "deadletter"
    <3>1. Exhausted(worker[w].receipt)
      BY <1>2, <2>3
    <3> QED BY <1>1, <1>5, <1>6, <2>3, <3>1 DEF WorkerOK, At, Counted, Exhausted
  <2>4. CASE pc = "delete"
    <3>1. PICK h \in Ingests : h = g
      BY <1>6
    <3>2. Settled(h)
      BY <1>2, <1>11, <2>4, <3>1 DEF Settled, Published
    <3>3. Settled(h)'
      BY <1>3, <1>9, <1>10, <3>2, SettledStays
    <3> QED BY <1>1, <1>5, <1>6, <2>4, <3>1, <3>3 DEF WorkerOK, At, Counted, Settled, Published
  <2> QED BY <1>4, <2>1, <2>2, <2>3, <2>4
<1>13. \/ worker'[w].m = worker[w].m /\ worker'[w].receipt = worker[w].receipt
       \/ faults' # faults
       \/ ~Exhausted(worker[w].receipt)
  BY <1>2, <1>3, <1>5
<1>14. worker'[w].pc \notin Counted
  BY <1>4, <1>5 DEF Counted, IdleWorker
<1> QED BY <1>1, <1>3, <1>5, <1>9, <1>10, <1>12, <1>13, <1>14, WorkerMoves

\* MarkRejected, MarkProcessed, MarkDeadlettered and MarkFailed.
LEMMA AllMark ==
  ASSUME IInv, NEW w \in Workers,
         MarkRejected(w) \/ MarkProcessed(w) \/ MarkDeadlettered(w) \/ MarkFailed(w)
  PROVE  IInv'
<1>1. CASE MarkRejected(w)
  BY <1>1, RowMarks DEF MarkRejected
<1>2. CASE MarkProcessed(w)
  BY <1>2, RowMarks DEF MarkProcessed
<1>3. CASE MarkDeadlettered(w)
  BY <1>3, RowMarks DEF MarkDeadlettered
<1>4. CASE MarkFailed(w)
  BY <1>4, RowMarks DEF MarkFailed
<1> QED BY <1>1, <1>2, <1>3, <1>4

\* Deadletter: the copy is of a message without a row, or whose deliveries are used up.
LEMMA Deadletters ==
  ASSUME IInv, NEW w \in Workers, Deadletter(w)
  PROVE  IInv'
<1> DEFINE g == Body[worker[w].m]
<1>1. /\ UNCHANGED <<queue, log, tileSets, requeues, verdict, raw, cleaned, cleanup>>
      /\ worker[w].pc = "deadletter" /\ ~At(w, "idle")
  BY DEF Deadletter, retention, At
<1>2. PICK pc \in {"delete", "idle"} :
        /\ Goto(w, pc)
        /\ dlq' = dlq \/ dlq' = dlq \cup {g}
        /\ pc = "delete" => g \in dlq'
        /\ pc = "idle" => Fault
        /\ Fault \/ UNCHANGED faults
  BY DEF Deadletter
<1>3. TypeOK /\ faults' \in 0..MaxFaults /\ faults' \in {faults, faults + 1} /\ (Fault => faults' # faults)
  BY <1>2, FaultsCount DEF IInv
<1>4. /\ worker' \in [Workers -> WorkerStates]
      /\ \A v \in Workers \ {w} : worker'[v] = worker[v]
      /\ pc = "idle" => worker'[w] = IdleWorker
      /\ pc # "idle" =>
           /\ worker'[w].pc = pc /\ worker'[w].m = worker[w].m
           /\ worker'[w].receipt = worker[w].receipt /\ worker'[w].attempt = worker[w].attempt
  BY <1>2, <1>3, Goes DEF PCs
<1>5. /\ worker[w].m \in Messages /\ g \in Ingests
      /\ worker[w].receipt <= queue[worker[w].m].dequeues
      /\ Exhausted(worker[w].receipt) => Exhausted(queue[worker[w].m].dequeues)
  BY <1>1, InHand
<1>6. HasRow(g) => Exhausted(queue[worker[w].m].dequeues)
  BY <1>1, <1>5 DEF IInv, WorkerOK, At
<1>7. TypeOK'
  BY <1>1, <1>2, <1>3, <1>4, <1>5 DEF TypeOK, WorkerStates, PCs
<1>8. Grows
  BY <1>1, <1>2, <1>3 DEF Grows, TypeOK
<1>9. RowsOK'
  <2> SUFFICES ASSUME NEW h \in Ingests
               PROVE  /\ ~HasRow(h) => log[h].status = "none"
                      /\ HasRow(h) /\ (h \in dlq' \/ log[h].status = "deadlettered") =>
                           \E m \in Messages : Body[m] = h /\ Exhausted(queue[m].dequeues)
    BY <1>1 DEF RowsOK, HasRow
  <2>1. CASE h = g
    <3>1. HasRow(h) => Exhausted(queue[worker[w].m].dequeues)
      BY <1>6, <2>1 DEF HasRow
    <3> QED BY <1>5, <2>1, <3>1 DEF IInv, RowsOK
  <2>2. CASE h # g
    BY <1>2, <2>2 DEF IInv, RowsOK
  <2> QED BY <2>1, <2>2
<1>10. LinkedMeansPublished' /\ OnlyClearIsPublished'
  BY <1>1 DEF IInv, LinkedMeansPublished, OnlyClearIsPublished
<1>11. WorkerOK(w)'
  <2>1. CASE pc = "idle"
    BY <1>4, <2>1 DEF WorkerOK, At, IdleWorker, Counted
  <2>2. CASE pc = "delete"
    BY <1>1, <1>2, <1>4, <1>5, <2>2 DEF WorkerOK, At, Counted, Settled
  <2> QED BY <2>1, <2>2
<1>12. \/ worker'[w].m = worker[w].m /\ worker'[w].receipt = worker[w].receipt
       \/ faults' # faults
  BY <1>2, <1>3, <1>4
<1>13. worker'[w].pc \notin Counted
  BY <1>4 DEF Counted, IdleWorker
<1> QED BY <1>1, <1>3, <1>4, <1>7, <1>8, <1>9, <1>10, <1>11, <1>12, <1>13, WorkerMoves

\* Crash: the delivery is lost with the worker, and the fault pays for another.
LEMMA Crashes ==
  ASSUME IInv, NEW w \in Workers, Crash(w)
  PROVE  IInv'
<1>1. /\ UNCHANGED <<queue, log, tileSets, dlq, requeues, verdict, raw, cleaned, cleanup>>
      /\ Goto(w, "idle") /\ Fault
  BY DEF Crash, retention
<1>2. TypeOK /\ faults' \in 0..MaxFaults /\ faults' \in {faults, faults + 1} /\ faults' # faults
  BY <1>1, FaultsCount DEF IInv
<1>3. /\ worker' \in [Workers -> WorkerStates] /\ worker'[w] = IdleWorker
      /\ \A v \in Workers \ {w} : worker'[v] = worker[v]
  BY <1>1, <1>2, Goes DEF PCs
<1>4. TypeOK'
  BY <1>1, <1>2, <1>3 DEF TypeOK, WorkerStates, PCs
<1>5. Grows
  BY <1>1, <1>2 DEF Grows, TypeOK
<1>6. RowsOK' /\ LinkedMeansPublished' /\ OnlyClearIsPublished'
  BY <1>1, <1>4, <1>5, TablesStay
<1>7. WorkerOK(w)' /\ worker'[w].pc \notin Counted
  BY <1>3 DEF WorkerOK, At, IdleWorker, Counted
<1> QED BY <1>1, <1>2, <1>3, <1>4, <1>5, <1>6, <1>7, WorkerMoves

-----------------------------------------------------------------------------
(* The steps that touch the queue *)

\* What remains to be shown of a step that leaves the tables alone.
LEMMA QueueMoves ==
  ASSUME IInv, TypeOK', Grows, UNCHANGED <<log, tileSets, dlq>>,
         \A m \in Messages : QueueOK(m)',
         \A m \in Messages : queue'[m].state = "deleted" =>
           queue[m].state = "deleted" \/ Settled(Body[m]),
         \/ worker' = worker
         \/ \E w \in Workers :
              /\ \A v \in Workers \ {w} : worker'[v] = worker[v]
              /\ WorkerOK(w)' /\ worker'[w].pc \notin Counted
  PROVE  IInv'
<1>1. RowsOK' /\ LinkedMeansPublished' /\ OnlyClearIsPublished'
  BY TablesStay
<1>2. DeletedMeansSettled'
  BY DeletedStays
<1>3. (\A v \in Workers : WorkerOK(v)') /\ AttemptsAreExclusive'
  <2>1. CASE worker' = worker
    <3>1. \A v \in Workers : WorkerOK(v)'
      BY <2>1, WorkerStands
    <3> QED BY <2>1, <3>1 DEF IInv, AttemptsAreExclusive
  <2>2. CASE \E w \in Workers :
               /\ \A v \in Workers \ {w} : worker'[v] = worker[v]
               /\ WorkerOK(w)' /\ worker'[w].pc \notin Counted
    <3>1. PICK w \in Workers :
               /\ \A v \in Workers \ {w} : worker'[v] = worker[v]
               /\ WorkerOK(w)' /\ worker'[w].pc \notin Counted
      BY <2>2
    <3>2. \A v \in Workers : WorkerOK(v)'
      BY <3>1, WorkerStands
    <3>3. AttemptsAreExclusive'
      BY <3>1, AttemptsStay
    <3> QED BY <3>2, <3>3
  <2> QED BY <2>1, <2>2
<1> QED BY <1>1, <1>2, <1>3 DEF IInv

\* SendFromIngest and RequeueSend: a message that was never received.
LEMMA Sends ==
  ASSUME IInv, NEW m \in Messages, SendFromIngest(m) \/ RequeueSend(m)
  PROVE  IInv'
<1>1. /\ UNCHANGED <<log, tileSets, dlq, verdict, worker, faults, raw, cleaned, cleanup>>
      /\ queue' = [queue EXCEPT ![m].state = "visible"]
      /\ queue[m].state = "unsent" /\ requeues' \subseteq requeues
  BY DEF SendFromIngest, RequeueSend, SetState, retention
<1>2. TypeOK
  BY DEF IInv
<1>3. /\ queue'[m].state = "visible" /\ queue'[m].dequeues = queue[m].dequeues
      /\ \A o \in Messages \ {m} : queue'[o] = queue[o]
      /\ queue' \in [Messages -> [state : {"unsent", "visible", "hidden", "deleted"}, dequeues : Nat]]
  BY <1>1, <1>2 DEF TypeOK
<1>4. TypeOK'
  BY <1>1, <1>2, <1>3 DEF TypeOK
<1>5. Grows
  BY <1>1, <1>2, <1>3 DEF Grows, TypeOK
<1>6. \A o \in Messages : QueueOK(o)'
  <2> SUFFICES ASSUME NEW o \in Messages PROVE QueueOK(o)'
    OBVIOUS
  <2>1. QueueOK(o) /\ faults \in Nat
    BY DEF IInv, TypeOK
  <2>2. CASE o = m
    BY <1>1, <1>3, <2>1, <2>2, CountsAssumption DEF QueueOK
  <2>3. CASE o # m
    BY <1>1, <1>3, <2>1, <2>3 DEF QueueOK, Held
  <2> QED BY <2>2, <2>3
<1>7. \A o \in Messages : queue'[o].state = "deleted" => queue[o].state = "deleted"
  BY <1>3
<1> QED BY <1>1, <1>4, <1>5, <1>6, <1>7, QueueMoves

\* VisibilityExpires: the delivery after one still in hand is paid for by the fault.
LEMMA Expires ==
  ASSUME IInv, NEW m \in Messages, VisibilityExpires(m)
  PROVE  IInv'
<1>1. /\ UNCHANGED <<log, tileSets, dlq, requeues, verdict, worker, raw, cleaned, cleanup>>
      /\ queue' = [queue EXCEPT ![m].state = "visible"]
      /\ queue[m].state = "hidden"
      /\ IF Held(m) THEN Fault ELSE UNCHANGED faults
  BY DEF VisibilityExpires, SetState, retention, Held
<1>2. TypeOK /\ faults' \in 0..MaxFaults /\ faults' \in {faults, faults + 1} /\ (Fault => faults' # faults)
  BY <1>1, FaultsCount DEF IInv
<1>3. /\ queue'[m].state = "visible" /\ queue'[m].dequeues = queue[m].dequeues
      /\ \A o \in Messages \ {m} : queue'[o] = queue[o]
      /\ queue' \in [Messages -> [state : {"unsent", "visible", "hidden", "deleted"}, dequeues : Nat]]
  BY <1>1, <1>2 DEF TypeOK
<1>4. TypeOK'
  BY <1>1, <1>2, <1>3 DEF TypeOK
<1>5. Grows
  BY <1>1, <1>2, <1>3 DEF Grows, TypeOK
<1>6. \A o \in Messages : QueueOK(o)'
  <2> SUFFICES ASSUME NEW o \in Messages PROVE QueueOK(o)'
    OBVIOUS
  <2>1. QueueOK(o) /\ faults \in Nat /\ queue[o].dequeues \in Nat /\ MaxDequeueCount \in Nat
    BY CountsAssumption DEF IInv, TypeOK
  <2>2. CASE o = m
    <3>1. queue[m].dequeues < MaxDequeueCount + faults'
      BY <1>1, <1>2, <2>1, <2>2 DEF QueueOK
    <3> QED BY <1>3, <2>1, <2>2, <3>1, <1>2 DEF QueueOK
  <2>3. CASE o # m
    <3>1. queue'[o] = queue[o] /\ (Held(o) => Held(o)')
      BY <1>1, <1>3, <2>3 DEF Held
    <3> QED BY <1>2, <2>1, <3>1 DEF QueueOK
  <2> QED BY <2>2, <2>3
<1>7. \A o \in Messages : queue'[o].state = "deleted" => queue[o].state = "deleted"
  BY <1>3
<1> QED BY <1>1, <1>4, <1>5, <1>6, <1>7, QueueMoves

\* ReceiveLost: a delivery that nobody has, and a fault that pays for another.
LEMMA DeliveryIsLost ==
  ASSUME IInv, NEW m \in Messages, ReceiveLost(m)
  PROVE  IInv'
<1>1. /\ UNCHANGED <<log, tileSets, dlq, requeues, verdict, worker, raw, cleaned, cleanup>>
      /\ queue' = [queue EXCEPT ![m] = [state |-> "hidden", dequeues |-> queue[m].dequeues + 1]]
      /\ queue[m].state = "visible" /\ Fault
  BY DEF ReceiveLost, retention
<1>2. TypeOK /\ faults' \in 0..MaxFaults /\ faults' = faults + 1
  BY <1>1, FaultsCount DEF IInv
<1>3. /\ queue'[m].state = "hidden" /\ queue'[m].dequeues = queue[m].dequeues + 1
      /\ queue[m].dequeues \in Nat
      /\ \A o \in Messages \ {m} : queue'[o] = queue[o]
      /\ queue' \in [Messages -> [state : {"unsent", "visible", "hidden", "deleted"}, dequeues : Nat]]
  BY <1>1, <1>2 DEF TypeOK
<1>4. TypeOK'
  BY <1>1, <1>2, <1>3 DEF TypeOK
<1>5. Grows
  BY <1>1, <1>2, <1>3 DEF Grows, TypeOK
<1>6. \A o \in Messages : QueueOK(o)'
  <2> SUFFICES ASSUME NEW o \in Messages PROVE QueueOK(o)'
    OBVIOUS
  <2>1. QueueOK(o) /\ faults \in Nat /\ queue[o].dequeues \in Nat /\ MaxDequeueCount \in Nat
    BY CountsAssumption DEF IInv, TypeOK
  <2>2. CASE o = m
    <3>1. queue[m].dequeues + 1 < MaxDequeueCount + faults'
      BY <1>1, <1>2, <2>1, <2>2 DEF QueueOK
    <3> QED BY <1>3, <2>1, <2>2, <3>1, <1>2 DEF QueueOK
  <2>3. CASE o # m
    <3>1. queue'[o] = queue[o] /\ (Held(o) => Held(o)')
      BY <1>1, <1>3, <2>3 DEF Held
    <3> QED BY <1>2, <2>1, <3>1 DEF QueueOK
  <2> QED BY <2>2, <2>3
<1>7. \A o \in Messages : queue'[o].state = "deleted" => queue[o].state = "deleted"
  BY <1>3
<1> QED BY <1>1, <1>4, <1>5, <1>6, <1>7, QueueMoves

\* Receive: the worker holds the latest delivery; a malformed message goes to the
\* dead-letter queue with its last one, and is left alone before.
LEMMA Receives ==
  ASSUME IInv, NEW w \in Workers, NEW m \in Messages, Receive(w, m)
  PROVE  IInv'
<1> DEFINE dequeues == queue[m].dequeues + 1
           inhand == [pc |-> IF Malformed(m) THEN "deadletter" ELSE "start",
                      m |-> m, receipt |-> dequeues, attempt |-> 0]
<1>1. /\ UNCHANGED <<log, tileSets, dlq, requeues, verdict, faults, raw, cleaned, cleanup>>
      /\ queue' = [queue EXCEPT ![m] = [state |-> "hidden", dequeues |-> dequeues]]
      /\ queue[m].state = "visible" /\ At(w, "idle")
      /\ worker' = [worker EXCEPT ![w] =
           IF Malformed(m) /\ ~Exhausted(dequeues) THEN IdleWorker ELSE inhand]
  BY DEF Receive, retention
<1>2. TypeOK
  BY DEF IInv
<1>3. /\ queue'[m].state = "hidden" /\ queue'[m].dequeues = dequeues
      /\ dequeues \in Nat /\ queue[m].dequeues \in Nat
      /\ \A o \in Messages \ {m} : queue'[o] = queue[o]
      /\ queue' \in [Messages -> [state : {"unsent", "visible", "hidden", "deleted"}, dequeues : Nat]]
  BY <1>1, <1>2 DEF TypeOK
<1>4. inhand \in WorkerStates /\ IdleWorker \in WorkerStates
  BY <1>3 DEF WorkerStates, IdleWorker, PCs
<1>5. /\ worker' \in [Workers -> WorkerStates]
      /\ \A v \in Workers \ {w} : worker'[v] = worker[v]
      /\ \/ worker'[w] = IdleWorker /\ ~Exhausted(dequeues)
         \/ worker'[w] = inhand
  BY <1>1, <1>2, <1>4 DEF TypeOK, WorkerStates, PCs
<1>6. TypeOK'
  BY <1>1, <1>2, <1>3, <1>5 DEF TypeOK, WorkerStates, PCs
<1>7. Grows
  BY <1>1, <1>2, <1>3 DEF Grows, TypeOK
<1>8. \A o \in Messages : QueueOK(o)'
  <2> SUFFICES ASSUME NEW o \in Messages PROVE QueueOK(o)'
    OBVIOUS
  <2>1. QueueOK(o) /\ faults \in Nat /\ MaxDequeueCount \in Nat
    BY CountsAssumption DEF IInv, TypeOK
  <2>2. CASE o = m
    <3>1. dequeues <= MaxDequeueCount + faults
      BY <1>1, <1>3, <2>1, <2>2 DEF QueueOK
    <3>2. dequeues < MaxDequeueCount + faults \/ Held(m)'
      <4>1. CASE ~Exhausted(dequeues)
        BY <1>3, <2>1, <4>1 DEF Exhausted
      <4>2. CASE worker'[w] = inhand
        BY <1>3, <4>2 DEF Held
      <4> QED BY <1>5, <4>1, <4>2
    <3> QED BY <1>1, <1>3, <2>2, <3>1, <3>2 DEF QueueOK
  <2>3. CASE o # m
    <3>1. worker[w].m # o
      BY <1>1, DistinctAssumption DEF IInv, WorkerOK
    <3>2. Held(o) => Held(o)'
      BY <1>3, <1>5, <2>3, <3>1 DEF Held
    <3> QED BY <1>1, <1>3, <2>1, <2>3, <3>2 DEF QueueOK
  <2> QED BY <2>2, <2>3
<1>9. WorkerOK(w)' /\ worker'[w].pc \notin Counted
  <2>1. CASE worker'[w] = IdleWorker
    BY <2>1 DEF WorkerOK, At, IdleWorker, Counted
  <2>2. CASE worker'[w] = inhand
    <3>1. /\ worker'[w].pc \in {"start", "deadletter"}
          /\ worker'[w].m = m /\ worker'[w].receipt = dequeues
          /\ worker'[w].pc = "deadletter" => Malformed(m)
      BY <2>2
    <3> QED BY <1>1, <1>3, <3>1, SMTT(30) DEF WorkerOK, At, Counted, Malformed, HasRow
  <2> QED BY <1>5, <2>1, <2>2
<1>10. \A o \in Messages : queue'[o].state = "deleted" => queue[o].state = "deleted"
  BY <1>3
<1> QED BY <1>1, <1>5, <1>6, <1>7, <1>8, <1>9, <1>10, QueueMoves

\* Delete: only with the latest receipt, and only what is settled.
LEMMA Deletes ==
  ASSUME IInv, NEW w \in Workers, Delete(w)
  PROVE  IInv'
<1> DEFINE m == worker[w].m
           deleted == [queue EXCEPT ![m].state = "deleted"]
<1>1. /\ UNCHANGED <<log, tileSets, dlq, requeues, verdict, raw, cleaned, cleanup>>
      /\ Goto(w, "idle") /\ (Fault \/ UNCHANGED faults)
      /\ worker[w].pc = "delete" /\ ~At(w, "idle")
      /\ \/ queue' = queue /\ Fault
         \/ queue' = queue /\ ~(Waiting(m) /\ queue[m].dequeues = worker[w].receipt)
         \/ queue' = deleted
  BY DEF Delete, retention, At
<1>2. TypeOK /\ faults' \in 0..MaxFaults /\ faults' \in {faults, faults + 1} /\ (Fault => faults' # faults)
  BY <1>1, FaultsCount DEF IInv
<1>3. /\ worker' \in [Workers -> WorkerStates] /\ worker'[w] = IdleWorker
      /\ \A v \in Workers \ {w} : worker'[v] = worker[v]
  BY <1>1, <1>2, Goes DEF PCs
<1>4. m \in Messages /\ Body[m] \in Ingests
  BY <1>1, InHand
<1>5. /\ queue' \in [Messages -> [state : {"unsent", "visible", "hidden", "deleted"}, dequeues : Nat]]
      /\ \A o \in Messages : queue'[o].dequeues = queue[o].dequeues
      /\ \A o \in Messages \ {m} : queue'[o] = queue[o]
  <2>1. CASE queue' = queue
    BY <1>2, <2>1 DEF TypeOK
  <2>2. CASE queue' = deleted
    BY <1>2, <1>4, <2>2 DEF TypeOK
  <2> QED BY <1>1, <2>1, <2>2
<1>6. TypeOK'
  BY <1>1, <1>2, <1>3, <1>5 DEF TypeOK, WorkerStates, PCs
<1>7. Grows
  BY <1>1, <1>2, <1>5 DEF Grows, TypeOK
<1>8. \A o \in Messages : QueueOK(o)'
  <2> SUFFICES ASSUME NEW o \in Messages PROVE QueueOK(o)'
    OBVIOUS
  <2>1. QueueOK(o) /\ faults \in Nat /\ queue[o].dequeues \in Nat /\ MaxDequeueCount \in Nat
    BY CountsAssumption DEF IInv, TypeOK
  <2>2. CASE o # m
    <3>1. queue'[o] = queue[o] /\ (Held(o) => Held(o)')
      BY <1>3, <1>5, <2>2 DEF Held
    <3> QED BY <1>2, <2>1, <3>1 DEF QueueOK
  <2>3. CASE o = m /\ queue' = deleted
    <3>1. queue'[o].state = "deleted" /\ queue'[o].dequeues = queue[o].dequeues
      BY <1>2, <1>4, <2>3 DEF TypeOK
    <3> QED BY <1>2, <2>1, <3>1 DEF QueueOK
  <2>4. CASE queue' = queue /\ Fault
    BY <1>2, <2>1, <2>4 DEF QueueOK
  <2>5. CASE o = m /\ queue' = queue /\ ~(Waiting(m) /\ queue[m].dequeues = worker[w].receipt)
    <3>1. CASE ~Waiting(o)
      BY <1>2, <2>1, <2>5, <3>1 DEF QueueOK, Waiting
    <3>2. CASE queue[o].dequeues # worker[w].receipt
      <4>1. Held(o) => Held(o)'
        BY <1>3, <2>5, <3>2 DEF Held
      <4> QED BY <1>2, <2>1, <2>5, <4>1 DEF QueueOK
    <3> QED BY <2>5, <3>1, <3>2
  <2> QED BY <1>1, <2>2, <2>3, <2>4, <2>5
<1>9. \A o \in Messages : queue'[o].state = "deleted" =>
        queue[o].state = "deleted" \/ Settled(Body[o])
  <2> SUFFICES ASSUME NEW o \in Messages
               PROVE  queue'[o].state = "deleted" => queue[o].state = "deleted" \/ Settled(Body[o])
    OBVIOUS
  <2>1. CASE o = m
    BY <1>1, <2>1 DEF IInv, WorkerOK, At, Settled, Published
  <2>2. CASE o # m
    BY <1>5, <2>2
  <2> QED BY <2>1, <2>2
<1>10. WorkerOK(w)' /\ worker'[w].pc \notin Counted
  BY <1>3 DEF WorkerOK, At, IdleWorker, Counted
<1> QED BY <1>1, <1>3, <1>6, <1>7, <1>8, <1>9, <1>10, QueueMoves

-----------------------------------------------------------------------------
(* Theorems of the specification *)

\* RequeueCheck and the raw cleanup touch nothing that the workers' invariant speaks
\* of: raw blobs may go while their granules are queued, and work fails then.
LEMMA OthersKeep ==
  ASSUME IInv, UNCHANGED <<queue, log, tileSets, dlq, verdict, worker>>,
         requeues' \subseteq RequeueMessages, raw' \subseteq Ingests, cleaned' \subseteq Ingests,
         cleanup' \subseteq Ingests, faults' \in 0..MaxFaults, faults' \in {faults, faults + 1}
  PROVE  IInv'
<1>1. TypeOK'
  BY DEF IInv, TypeOK
<1>2. Grows
  BY DEF IInv, TypeOK, Grows
<1>3. \A m \in Messages : QueueOK(m)'
  <2> SUFFICES ASSUME NEW m \in Messages PROVE QueueOK(m)'
    OBVIOUS
  <2>1. QueueOK(m) /\ faults \in Nat /\ queue[m].dequeues \in Nat /\ MaxDequeueCount \in Nat
    BY CountsAssumption DEF IInv, TypeOK
  <2> QED BY <2>1 DEF QueueOK, Held
<1> QED BY <1>1, <1>2, <1>3, QueueMoves

\* Nothing has been sent at first.
LEMMA InitOK ==
  ASSUME Init
  PROVE  IInv
<1>1. TypeOK
  BY CountsAssumption DEF Init, TypeOK, IdleWorker, Statuses
<1>2. \A m \in Messages : QueueOK(m)
  BY CountsAssumption DEF Init, QueueOK
<1>3. (\A w \in Workers : WorkerOK(w)) /\ AttemptsAreExclusive
  BY DEF Init, WorkerOK, At, IdleWorker, Counted, AttemptsAreExclusive
<1>4. RowsOK /\ LinkedMeansPublished
  BY DEF Init, RowsOK, LinkedMeansPublished
<1>5. DeletedMeansSettled /\ OnlyClearIsPublished
  BY DEF Init, DeletedMeansSettled, OnlyClearIsPublished
<1> QED BY <1>1, <1>2, <1>3, <1>4, <1>5 DEF IInv

\* A worker keeps the invariant, whichever step it takes.
LEMMA WorkerKeeps ==
  ASSUME IInv, NEW w \in Workers, WorkerStep(w) \/ Crash(w)
  PROVE  IInv'
<1>1. CASE \E m \in Messages : Receive(w, m)
  BY <1>1, Receives
<1>2. CASE Start(w)
  BY <1>2, Starts
<1>3. CASE Work(w)
  BY <1>3, Works
<1>4. CASE Publish(w)
  BY <1>4, Publishes
<1>5. CASE MarkRejected(w) \/ MarkProcessed(w) \/ MarkDeadlettered(w) \/ MarkFailed(w)
  BY <1>5, AllMark
<1>6. CASE Deadletter(w)
  BY <1>6, Deadletters
<1>7. CASE Delete(w)
  BY <1>7, Deletes
<1>8. CASE Crash(w)
  BY <1>8, Crashes
<1> QED BY <1>1, <1>2, <1>3, <1>4, <1>5, <1>6, <1>7, <1>8 DEF WorkerStep

\* The inductive invariant is one.
THEOREM Handling == Spec => []IInv
<1>1. Init => IInv
  BY InitOK
<1>2. IInv /\ [Next]_vars => IInv'
  <2> SUFFICES ASSUME IInv, [Next]_vars PROVE IInv'
    OBVIOUS
  <2>1. TypeOK
    BY DEF IInv
  <2>2. CASE \E m \in Messages :
               \/ SendFromIngest(m) \/ VisibilityExpires(m) \/ ReceiveLost(m) \/ RequeueSend(m)
    BY <2>2, Sends, Expires, DeliveryIsLost
  <2>3. CASE \E m \in Messages : RequeueCheck(m)
    <3>1. PICK m \in Messages : RequeueCheck(m)
      BY <2>3
    <3> QED BY <2>1, <3>1, OthersKeep DEF RequeueCheck, retention, TypeOK
  <2>4. CASE \E w \in Workers : WorkerStep(w) \/ Crash(w)
    BY <2>4, WorkerKeeps
  <2>5. CASE \E g \in Ingests : DeleteRaw(g)
    <3>1. PICK g \in Ingests : DeleteRaw(g)
      BY <2>5
    <3>2. /\ UNCHANGED <<queue, log, tileSets, dlq, requeues, verdict, worker, cleaned>>
          /\ raw' \subseteq raw /\ cleanup' \subseteq cleanup \cup {g}
          /\ Fault \/ UNCHANGED faults
      BY <3>1 DEF DeleteRaw
    <3>3. faults' \in 0..MaxFaults /\ faults' \in {faults, faults + 1}
      BY <2>1, <3>2, FaultsCount
    <3> QED BY <2>1, <3>2, <3>3, OthersKeep DEF TypeOK
  <2>6. CASE RecordRaw
    <3>1. /\ UNCHANGED <<queue, log, tileSets, dlq, requeues, verdict, worker, raw>>
          /\ cleaned' \subseteq cleaned \cup cleanup /\ cleanup' = {}
          /\ Fault \/ UNCHANGED faults
      BY <2>6 DEF RecordRaw
    <3>2. faults' \in 0..MaxFaults /\ faults' \in {faults, faults + 1}
      BY <2>1, <3>1, FaultsCount
    <3> QED BY <2>1, <3>1, <3>2, OthersKeep DEF TypeOK
  <2>7. CASE UNCHANGED vars
    BY <2>1, <2>7, OthersKeep DEF vars, TypeOK
  <2> QED BY <2>2, <2>3, <2>4, <2>5, <2>6, <2>7 DEF Next, CleanupStep
<1> QED BY <1>1, <1>2, PTL DEF Spec

\* Types.
THEOREM Typing == Spec => []TypeOK
<1>1. IInv => TypeOK
  BY DEF IInv
<1> QED BY <1>1, Handling, PTL

\* "Delete messages only after successful processing": no message of any ingest is
\* lost, with any number of workers, late or dead.
THEOREM DeletedIsSettled == Spec => []DeletedMeansSettled
<1>1. IInv => DeletedMeansSettled
  BY DEF IInv
<1> QED BY <1>1, Handling, PTL

\* A tile_set_id belongs to one delivery, however many workers handle one ingest.
THEOREM AttemptsAreApart == Spec => []AttemptsAreExclusive
<1>1. IInv => AttemptsAreExclusive
  BY DEF IInv
<1> QED BY <1>1, Handling, PTL

\* A row of processing_log names a tile set only after its publication succeeded.
THEOREM LinksAreGood == Spec => []LinkedMeansPublished
<1>1. IInv => LinkedMeansPublished
  BY DEF IInv
<1> QED BY <1>1, Handling, PTL

\* No redelivery, requeue or race gets a granule past the quality gate.
THEOREM OnlyClear == Spec => []OnlyClearIsPublished
<1>1. IInv => OnlyClearIsPublished
  BY DEF IInv
<1> QED BY <1>1, Handling, PTL

\* Deliveries are bounded by max_dequeue_count and the faults met, and nothing that
\* has one left is dead-lettered.
THEOREM OnlyExhausted == Spec => []OnlyExhaustedIsDeadlettered
<1>1. IInv => OnlyExhaustedIsDeadlettered
  BY DEF IInv, QueueOK, RowsOK, OnlyExhaustedIsDeadlettered
<1> QED BY <1>1, Handling, PTL

=============================================================================
