\* One cleanup: an expired record of one request, and two requests that race it.
SPECIFICATION Spec
CONSTANTS
  Requests = {r1, r2, r3}
  Inputs <- CleanupInputs
  Cleanups = 1
  NoRow = NoRow
  Cleaner = Cleaner
INVARIANTS
  ReferencesLive
  NobodyWaitsInCircle
  KeptPackagesKeepArtifact
PROPERTIES
  EarlierRecordsStay
SYMMETRY Symmetry
CHECK_DEADLOCK FALSE
