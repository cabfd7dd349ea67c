\* One request makes the account code, one the package, two verify both.
SPECIFICATION Spec
CONSTANTS
  Requests = {r1, r2, r3, r4}
  Inputs <- DuplicateInputs
  Cleanups = 0
  NoRow = NoRow
  Cleaner = Cleaner
INVARIANT
  ComponentOnce
SYMMETRY Symmetry
CHECK_DEADLOCK FALSE
