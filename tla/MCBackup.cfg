CONSTANTS
  Engines = {"postgres", "mariadb"}
  Stored = {1, 2}
  Reparsed = {3}
  Loaded = {1}
  HashSample = 1
  RowSample = 1
  MaxBackups = 2
  MaxRestores = 2
  MaxFaults = 1
SPECIFICATION Spec
INVARIANTS TypeOK AcceptedRestoreAgrees BasisCovered SoundBackupAccepted PlainTextGone
CHECK_DEADLOCK FALSE
