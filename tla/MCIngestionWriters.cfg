CONSTANTS
  Engines = {"postgres"}
  WriterStride = 100
  RecordsPerRun = 2
  ReviewEvery = 2
  SeedArtifacts = 0
  Procs = {"daily","bench","loop"}
  Kind <- MCWriterKind
  WriterId <- MCWriterId
  BatchRows = 2
  DailyBatches = 2
  MaxBatches = 3
  MaxStarts = 4
  MaxFaults = 1
SPECIFICATION Spec
INVARIANTS TypeOK ArtifactBodiesStored OnlyReparseRefused 
PROPERTIES  ImplementsStore
CHECK_DEADLOCK FALSE
