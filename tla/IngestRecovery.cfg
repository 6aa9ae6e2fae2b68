\* One granule, a run and a recoverer, under fairness; more faults than attempts.
CONSTANTS
  Granules = {g1}
  Runs = {r1}
  Recoverers = {p1}
  NoGranule = NoGranule
  OutboxMaxAttempts = 3
  MaxFaults = 4
SPECIFICATION LiveSpec
INVARIANTS
  TypeOK
  OnlyVettedBytesQueued
  DeliveryOrdered
  OutboxConsistent
  InvalidGoesNoFurther
  DuplicatesBounded
PROPERTIES
  HistoryPreserved
  DownloadedIsRecovered
  DrainableIsDrained
