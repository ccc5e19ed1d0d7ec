CONSTANTS
  Clients = {"check", "browser", "script"}
  Check = "check"
  ConnectTimeout = 1
  RequestTimeout = 1
  CheckEvery = 3
  Retries = 3
  StartPeriod = 4
  StartTime = 4
  Grace = 2
SPECIFICATION Spec
INVARIANTS TypeOK NeverUnhealthy
PROPERTY StopInTime
