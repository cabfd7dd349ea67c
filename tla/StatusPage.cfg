\* One service: the services share a snapshot, and nothing else.  Two checks
\* give it all three states.  Six hours are two ticks, so runs come several in
\* one period and with whole periods between them, and seven ticks see an outage
\* through several reminders.
SPECIFICATION Spec
CONSTANTS
  Services = {s1}
  Endpoints = 2
  Period = 2
  MaxTime = 7
  NoSnapshot = NoSnapshot
INVARIANTS
  OutageClock
  OutageRemembered
  BadNewsKnown
PROPERTIES
  SameStateOnlyReminded
CHECK_DEADLOCK FALSE
