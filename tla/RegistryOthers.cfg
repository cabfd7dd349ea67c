\* The expired record, and one request of another source for the same package.
SPECIFICATION Spec
CONSTANTS
  Requests = {r1, r2}
  Inputs <- CleanupInputs
  Cleanups = 1
  NoRow = NoRow
  Cleaner = Cleaner
PROPERTIES
  OthersStay
CHECK_DEADLOCK FALSE
