\* The documented promise of recover-ingest, under fairness.
CONSTANTS
  Granules = {g1}
  Runs = {r1}
  Recoverers = {p1}
  NoGranule = NoGranule
  OutboxMaxAttempts = 3
  MaxFaults = 2
SPECIFICATION LiveSpec
PROPERTIES
  PendingIsRecovered
