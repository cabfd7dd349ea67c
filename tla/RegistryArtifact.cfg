\* The expired record, and one request that verifies the same package again.
SPECIFICATION Spec
CONSTANTS
  Requests = {r1, r2}
  Inputs <- CleanupInputs
  Cleanups = 1
  NoRow = NoRow
  Cleaner = Cleaner
INVARIANTS
  RowHasArtifact
CHECK_DEADLOCK FALSE
