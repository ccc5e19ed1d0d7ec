CONSTANTS
  Engines = {"postgres", "mariadb"}
  WriterStride = 100
  RecordsPerRun = 2
  ReviewEvery = 2
  SeedArtifacts = 1
  Procs = {"reparse","probe1","probe2"}
  Kind <- MCWriterKind
  WriterId <- MCWriterId
  BatchRows = 2
  DailyBatches = 2
  MaxBatches = 0
  MaxStarts = 4
  MaxFaults = 2
SPECIFICATION FairSpec
INVARIANTS OneObservationPerKey BatchesWhole ProbesKeepOne
PROPERTIES ReparseAddsNothing TransactionsEnd
CHECK_DEADLOCK FALSE
