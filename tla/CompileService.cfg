\* One slot and one place, as in production but for the length of the queue:
\* with three requests one builds, one waits and one is refused, and a fourth
\* role, verifying without a slot, is taken by whichever built first.
SPECIFICATION Spec
CONSTANTS
  Requests = {r1, r2, r3}
  Concurrency = 1
  QueueSize = 1
  MaxGone = 2
  MaxLogged = 1
INVARIANTS
  TypeOK
  VerifierSeesPackage
  SlotsHeldByBuilds
  BuildLeavesNothing
  ExitLosesOnlyTheGone
PROPERTIES
  EveryRequestAnswered
  ShutdownCompletes
CHECK_DEADLOCK FALSE
