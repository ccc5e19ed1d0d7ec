CONSTANTS
  Interval = 1
  MissedCycles = 3
  MinMaxAge = 3
  ConnectTimeout = 1
  CheckEvery = 2
  Retries = 1
  StartPeriod = 1
  Grace = 2
  DbStates = {"up", "refusing", "silent"}
  StorageStates = {TRUE, FALSE}
SPECIFICATION FairSpec
PROPERTY StorageOutageReported
CHECK_DEADLOCK FALSE
