---------------------------- MODULE LimiterProps ----------------------------
(***************************************************************************)
(* What the limiter must guarantee, over the states and steps of Limiter.  *)
(***************************************************************************)
EXTENDS Limiter

Elements(q) == {q[i] : i \in 1..Len(q)}
Distinct(q) == \A i, j \in 1..Len(q) : q[i] = q[j] => i = j

\* A task is never lost: the queue holds the callback of every waiting call
\* exactly once and no other, and those calls are the ones that still listen
\* for an abort (a listener left on a started call would splice another one's
\* callback out, and that call would wait for ever).
NobodyForgotten ==
  /\ Waiting = Elements(queue)
  /\ Distinct(queue)
  /\ listening = Waiting

\* The counter agrees with the calls a slot was given to: no slot leaks when a
\* task throws, aborts or hands its slot over, and none is given twice.
SlotAccounting ==
  /\ IsFiniteSet(Holders)
  /\ active = Cardinality(Holders)
  /\ active <= Concurrency

\* Nobody waits while a slot is free, and no more wait than the queue allows.
NoIdleSlot ==
  /\ queue # <<>> => active = Concurrency
  /\ Len(queue) <= QueueSize

\* A client that went away no longer stands in the queue.
AbortedLeavesQueue == \A t \in aborted : status[t] # "waiting"

\* The inductive invariant behind the five.
Inv ==
  /\ TypeOK
  /\ NobodyForgotten
  /\ SlotAccounting
  /\ NoIdleSlot
  /\ AbortedLeavesQueue

\* First come, first served: a waiting call gets its slot only when every call
\* that queued before it has its own or gave up, and a newcomer never takes one
\* while somebody waits.
FirstComeFirstServed ==
  [][\A t \in Tasks :
       (t \notin Holders /\ t \in Holders') =>
         /\ t \notin Waiting => Waiting = {}
         /\ \A i, j \in 1..Len(queue) : queue[j] = t /\ i < j => queue[i] \notin Waiting'
    ]_limiter

\* "Past that, BusyError is thrown right away": a call is turned away only when
\* Concurrency calls hold a slot and QueueSize more wait, aborted ones aside.
BusyOnlyWhenFull ==
  [][\A t \in Tasks :
       (status[t] # "busy" /\ status'[t] = "busy") =>
         /\ Cardinality(Holders) = Concurrency
         /\ Cardinality(Waiting) = QueueSize
         /\ Waiting \cap aborted = {}
    ]_limiter

\* The limiter implements the abstract slot queue.
Slots == INSTANCE SlotQueue WITH
  holding <- Holders,
  line <- queue,
  refused <- {t \in Tasks : status[t] = "busy"},
  gone <- {t \in Tasks : status[t] \in {"finished", "cancelled"}}

ImplementsSlotQueue == Slots!Spec

\* Every call is answered: one that waits gets a slot or gave up, and one that
\* got a slot finishes.
EveryCallSettles == \A t \in Tasks : status[t] # "new" ~> status[t] \in Settled
=============================================================================
