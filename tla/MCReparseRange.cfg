\* One reparse after another, nothing else running.
CONSTANTS
  WriterStride = 100
  RecordsPerRun = 2
  ReviewEvery = 2
  SeedArtifacts = 1
  Engines = {"postgres", "mariadb"}
  Procs = {"reparse"}
  Kind <- MCWriterKind
  WriterId <- MCWriterId
  BatchRows = 2
  DailyBatches = 2
  MaxBatches = 0
  MaxStarts = 2
  MaxFaults = 0
SPECIFICATION Spec
INVARIANT ReparseContinuesItsRange
CHECK_DEADLOCK FALSE
