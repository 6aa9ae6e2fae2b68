\* One ingest queued twice, no fault.
CONSTANTS
  g1 = g1
  m1 = m1
  m2 = m2
  r1 = r1
  Ingests = {g1}
  IngestMessages = {m1, m2}
  RequeueMessages = {}
  Body <- TwiceBody
  Workers = {w1, w2}
  NoMessage = NoMessage
  MaxDequeueCount = 2
  MaxFaults = 0
SPECIFICATION Spec
INVARIANTS
  ProcessingIsIdempotent
CHECK_DEADLOCK FALSE
