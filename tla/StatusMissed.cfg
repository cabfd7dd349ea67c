\* Two runs are enough: an outage, then a recovery whose fetch fails.
SPECIFICATION Spec
CONSTANTS
  Services = {s1}
  Endpoints = 2
  Period = 2
  MaxTime = 3
  NoSnapshot = NoSnapshot
INVARIANT
  NothingMissed
CHECK_DEADLOCK FALSE
