CONSTANTS
  Engines = {"postgres", "mariadb"}
  Drifts <- MCDrifts
SPECIFICATION Spec
INVARIANTS TypeOK RevisionTellsSchema FailingStepCleansUp OldQueriesSurvive GrantsExact RoleCheckHonest
CHECK_DEADLOCK FALSE
