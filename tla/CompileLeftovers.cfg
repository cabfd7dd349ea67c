\* Two requests: the first already shows what /verify leaves behind.
SPECIFICATION Spec
CONSTANTS
  Requests = {r1, r2}
  Concurrency = 1
  QueueSize = 1
  MaxGone = 2
  MaxLogged = 1
INVARIANT
  NothingLeftBehind
CHECK_DEADLOCK FALSE
