\* Two workers on one ingest: a late worker, a requeue, crashes, a message that
\* does not parse or has no row, and the cleanup; under fairness.
CONSTANTS
  g1 = g1
  m1 = m1
  m2 = m2
  r1 = r1
  Ingests = {g1}
  IngestMessages = {m1}
  RequeueMessages = {r1}
  Body <- RedeliveryBody
  Workers = {w1, w2}
  NoMessage = NoMessage
  MaxDequeueCount = 2
  MaxFaults = 1
SPECIFICATION LiveSpec
INVARIANTS
  TypeOK
  DeletedMeansSettled
  AttemptsAreExclusive
  LinkedMeansPublished
  OnlyClearIsPublished
  OnlyExhaustedIsDeadlettered
PROPERTIES
  MessagesSettle
  RawBlobsExpire
CHECK_DEADLOCK FALSE
