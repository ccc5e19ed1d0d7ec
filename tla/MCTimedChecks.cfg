CONSTANTS
  Tps = 2
  Start = 11
  Step = 6
SPECIFICATION Spec
INVARIANTS TypeOK TimedVerdicts
