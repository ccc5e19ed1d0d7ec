CONSTANTS
  Engines = {"postgres", "mariadb"}
  Items = {1, 2, 3}
  A = a
  B = b
  NoOne = nobody
  MaxRuns = 3
  MaxFaults = 2
SPECIFICATION FairSpec
INVARIANTS TypeOK DecidedOnce WinnerIsTold UndisturbedChecksPass
PROPERTY ChecksEnd
CHECK_DEADLOCK FALSE
