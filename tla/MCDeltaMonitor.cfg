SPECIFICATION Spec
CONSTANTS
  Ids = {e1}
  Paths <- Nested
  Vals = {"x"}
  DeltasCap = 1
  MaxPairs = 3
INVARIANTS NoConflictingKeys NothingLost StopSavesAll
CHECK_DEADLOCK FALSE
