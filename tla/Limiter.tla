------------------------------ MODULE Limiter ------------------------------
(***************************************************************************)
(* createLimiter of apps/api-compile/src/lib/limiter.ts: an async          *)
(* semaphore with a bounded first-come queue, shared by every compiling    *)
(* request of the process.                                                 *)
(*                                                                         *)
(* The code is single-threaded: each action below is one run to            *)
(* completion.  A task calls limit(task, signal) once, so a task's name    *)
(* also names its `start` callback in `queue` and its abort listener.      *)
(* Resolving the promise of `acquire` and running the code after           *)
(* `await acquire(signal)` are two steps: "granted" is the time between.   *)
(***************************************************************************)
EXTENDS Naturals, Sequences, FiniteSets

CONSTANTS Tasks,        \* the calls of limit()
          Concurrency,  \* COMPILE_CONCURRENCY
          QueueSize     \* COMPILE_QUEUE_SIZE

\* Both come from Number(process.env...), 1 and 8 by default.
ASSUME LimiterAssumption ==
  /\ Concurrency \in Nat \ {0}
  /\ QueueSize \in Nat

VARIABLES active,     \* the counter of taken slots
          queue,      \* the `start` callbacks, oldest first
          status,     \* where each call is
          listening,  \* the calls whose onAbort listens to their signal
          aborted     \* the calls whose signal is aborted

limiter == <<active, queue, status, listening, aborted>>

Status == {"new", "waiting", "granted", "running", "finished", "busy", "cancelled"}

Waiting == {t \in Tasks : status[t] = "waiting"}
\* The calls a slot belongs to.
Holders == {t \in Tasks : status[t] \in {"granted", "running"}}
Settled == {"finished", "busy", "cancelled"}

TypeOK ==
  /\ active \in Nat
  /\ queue \in Seq(Tasks)
  /\ status \in [Tasks -> Status]
  /\ listening \subseteq Tasks
  /\ aborted \subseteq Tasks

Init ==
  /\ active = 0
  /\ queue = <<>>
  /\ status = [t \in Tasks |-> "new"]
  /\ listening = {}
  /\ aborted = {}

-----------------------------------------------------------------------------
(* Variants of the code below, each with one plausible mistake: a run's     *)
(* properties must tell them from it.                                      *)

\* The abort listener stays on when the task is started.
StartKeepsListener(t, others) ==
  /\ status' = [others EXCEPT ![t] = "granted"]
  /\ UNCHANGED listening

\* The slot goes back to the counter although somebody is waiting for it.
ReleaseDropsHandOver(t) ==
  LET left == [status EXCEPT ![t] = "finished"] IN
  /\ active' = active - 1
  /\ status' = left
  /\ UNCHANGED <<queue, listening>>

\* The newest waiting task is started first.
ReleaseNewestFirst(t) ==
  LET left == [status EXCEPT ![t] = "finished"] IN
  IF queue = <<>>
  THEN /\ active' = active - 1
       /\ status' = left
       /\ UNCHANGED <<queue, listening>>
  ELSE /\ queue' = SubSeq(queue, 1, Len(queue) - 1)
       /\ status' = [left EXCEPT ![queue[Len(queue)]] = "granted"]
       /\ listening' = listening \ {queue[Len(queue)]}
       /\ UNCHANGED active

\* A handed over slot is given back to the counter as well.
ReleaseCountsTwice(t) ==
  LET left == [status EXCEPT ![t] = "finished"] IN
  IF queue = <<>>
  THEN /\ active' = active - 1
       /\ status' = left
       /\ UNCHANGED <<queue, listening>>
  ELSE /\ queue' = Tail(queue)
       /\ status' = [left EXCEPT ![Head(queue)] = "granted"]
       /\ listening' = listening \ {Head(queue)}
       /\ active' = active - 1

\* A waiting task's abort rejects it but leaves its callback in the queue.
AbortStaysQueued(t) ==
  /\ t \notin aborted
  /\ aborted' = aborted \cup {t}
  /\ IF t \in listening
     THEN /\ status' = [status EXCEPT ![t] = "cancelled"]
          /\ listening' = listening \ {t}
          /\ UNCHANGED queue
     ELSE UNCHANGED <<queue, status, listening>>
  /\ UNCHANGED active

\* The places are counted one short.
RefuseEarly(t) ==
  /\ active >= Concurrency
  /\ Len(queue) + 1 >= QueueSize
  /\ status' = [status EXCEPT ![t] = "busy"]
  /\ UNCHANGED <<active, queue, listening>>

-----------------------------------------------------------------------------
\* queue.indexOf(start): 0 stands for JavaScript's -1.
IndexOf(q, t) ==
  IF \E i \in 1..Len(q) : q[i] = t
  THEN CHOOSE i \in 1..Len(q) : q[i] = t /\ \A j \in 1..(i - 1) : q[j] # t
  ELSE 0

\* queue.splice(k, 1).  At -1 splice counts from the end: it removes the last
\* callback, whoever's it is.
Splice(q, k) ==
  IF q = <<>> THEN q
  ELSE LET at == IF k = 0 THEN Len(q) ELSE k
       IN  [i \in 1..(Len(q) - 1) |-> IF i < at THEN q[i] ELSE q[i + 1]]

\* start(): the listener goes and the promise of `acquire` resolves.  `others`
\* is what the step that calls it does to the statuses.
Start(t, others) ==
  /\ status' = [others EXCEPT ![t] = "granted"]
  /\ listening' = listening \ {t}

\* release(), run as t's task settles: the slot goes straight to the next
\* waiting task, and `active` only falls when there is none.
Release(t) ==
  LET left == [status EXCEPT ![t] = "finished"] IN
  IF queue = <<>>
  THEN /\ active' = active - 1
       /\ status' = left
       /\ UNCHANGED <<queue, listening>>
  ELSE /\ queue' = Tail(queue)
       /\ Start(Head(queue), left)
       /\ UNCHANGED active

\* acquire(signal), when the signal aborted before the call.
ThrowIfAborted(t) ==
  /\ t \in aborted
  /\ status' = [status EXCEPT ![t] = "cancelled"]
  /\ UNCHANGED <<active, queue, listening>>

TakeSlot(t) ==
  /\ active < Concurrency
  /\ active' = active + 1
  /\ status' = [status EXCEPT ![t] = "granted"]
  /\ UNCHANGED <<queue, listening>>

Refuse(t) ==
  /\ active >= Concurrency
  /\ Len(queue) >= QueueSize
  /\ status' = [status EXCEPT ![t] = "busy"]
  /\ UNCHANGED <<active, queue, listening>>

Enqueue(t) ==
  /\ active >= Concurrency
  /\ Len(queue) < QueueSize
  /\ queue' = Append(queue, t)
  /\ listening' = listening \cup {t}
  /\ status' = [status EXCEPT ![t] = "waiting"]
  /\ UNCHANGED active

Acquire(t) ==
  /\ status[t] = "new"
  /\ \/ ThrowIfAborted(t)
     \/ t \notin aborted /\ (TakeSlot(t) \/ Refuse(t) \/ Enqueue(t))
  /\ UNCHANGED aborted

\* `await acquire(signal)` returns: task() is called.
Begin(t) ==
  /\ status[t] = "granted"
  /\ status' = [status EXCEPT ![t] = "running"]
  /\ UNCHANGED <<active, queue, listening, aborted>>

\* The task's promise settles, either way: `finally { release() }`.
Finish(t) ==
  /\ status[t] = "running"
  /\ Release(t)
  /\ UNCHANGED aborted

\* The signal aborts.  Only a waiting call listens to it here; a running task
\* was given the signal too, and settles by Finish.
Abort(t) ==
  /\ t \notin aborted
  /\ aborted' = aborted \cup {t}
  /\ IF t \in listening
     THEN /\ queue' = Splice(queue, IndexOf(queue, t))
          /\ status' = [status EXCEPT ![t] = "cancelled"]
          /\ listening' = listening \ {t}
     ELSE UNCHANGED <<queue, status, listening>>
  /\ UNCHANGED active

Next == \E t \in Tasks : Acquire(t) \/ Begin(t) \/ Finish(t) \/ Abort(t)

\* A resolved promise's continuation always runs, and every task settles: the
\* subprocesses it waits for have timeouts.  Calls and aborts are the clients'.
Fairness == \A t \in Tasks : WF_limiter(Begin(t)) /\ WF_limiter(Finish(t))

Spec == Init /\ [][Next]_limiter /\ Fairness
=============================================================================
