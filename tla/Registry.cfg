\* Three requests: two race and the third finds, or finds locked, what they left.
SPECIFICATION Spec
CONSTANTS
  Requests = {r1, r2, r3}
  Inputs <- RaceInputs
  Cleanups = 0
  NoRow = NoRow
  Cleaner = Cleaner
INVARIANTS
  TypeOK
  OneRowPerKey
  ArtifactBeforeRow
  RecordedWhole
  AnswersTrue
PROPERTIES
  EveryRequestAnswered
CHECK_DEADLOCK FALSE
