CONSTANTS
  Readers = {"r1", "r2", "r3"}
  Writers = {"w1", "w2"}
  DayReader = "day"
  Holder = "holder"
  OldReader = "query"
  OldWriter = "insert"
  Helpers = {"h1", "h2"}
  Batches = 2
SPECIFICATION Spec
INVARIANTS TypeOK PassInterrupts
PROPERTY OnlyLostReportsHang
