CONSTANTS
  Interval = 1
  MissedCycles = 3
  MinMaxAge = 9
  ConnectTimeout = 3
  CheckEvery = 9
  Retries = 3
  StartPeriod = 12
  Grace = 6
  DbStates = {"up", "refusing", "silent"}
  StorageStates = {TRUE}
SPECIFICATION Spec
INVARIANTS TypeOK ReadersSeeWholeHeartbeats NeverStaleUnlessHeld HealthyUnlessHeld HangNoticed
PROPERTY StopEndsTheCycle
CHECK_DEADLOCK FALSE
