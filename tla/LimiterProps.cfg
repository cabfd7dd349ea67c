\* More calls than slots and queue places together, so that one is refused,
\* and two slots, so that they free in either order.
SPECIFICATION Spec
CONSTANTS
  Tasks = {t1, t2, t3, t4, t5}
  Concurrency = 2
  QueueSize = 2
INVARIANTS
  TypeOK
  NobodyForgotten
  SlotAccounting
  NoIdleSlot
PROPERTIES
  FirstComeFirstServed
  BusyOnlyWhenFull
  ImplementsSlotQueue
  EveryCallSettles
\* A call is made once: when all of them settled, nothing is left to happen.
CHECK_DEADLOCK FALSE
