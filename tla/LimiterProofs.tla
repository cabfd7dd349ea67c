--------------------------- MODULE LimiterProofs ---------------------------
(***************************************************************************)
(* Inv of LimiterProps is inductive, for any tasks, slots and places.      *)
(***************************************************************************)
EXTENDS LimiterProps, FiniteSetTheorems, TLAPS

\* The initial state.
LEMMA InitInv == Init => Inv
<1> SUFFICES ASSUME Init PROVE Inv
  OBVIOUS
<1>1. TypeOK
  BY DEF Init, TypeOK, Status
<1>2. NobodyForgotten /\ AbortedLeavesQueue
  BY DEF Init, NobodyForgotten, Elements, Distinct, AbortedLeavesQueue, Waiting
<1>3. Holders = {}
  BY DEF Init, Holders
<1>4. SlotAccounting
  BY <1>3, FS_EmptySet, LimiterAssumption DEF Init, SlotAccounting
<1>5. NoIdleSlot
  BY LimiterAssumption DEF Init, NoIdleSlot
<1> QED
  BY <1>1, <1>2, <1>4, <1>5 DEF Inv

\* Splicing a present callback out keeps every other one, in order.
LEMMA SpliceProperties ==
  ASSUME NEW S, NEW q \in Seq(S), NEW t \in S,
         Distinct(q), NEW k \in 1..Len(q), q[k] = t
  PROVE  /\ IndexOf(q, t) = k
         /\ Splice(q, k) \in Seq(S)
         /\ Len(Splice(q, k)) = Len(q) - 1
         /\ Distinct(Splice(q, k))
         /\ Elements(Splice(q, k)) = Elements(q) \ {t}
<1> DEFINE s == [i \in 1..(Len(q) - 1) |-> IF i < k THEN q[i] ELSE q[i + 1]]
           r == Splice(q, k)
<1>1. IndexOf(q, t) = k
  BY DEF IndexOf, Distinct
<1>2. Len(q) \in Nat /\ q # <<>>
  OBVIOUS
<1>3. r = s
  BY <1>2 DEF Splice
<1>4. r \in Seq(S) /\ Len(r) = Len(q) - 1
  <2>1. s \in [1..(Len(q) - 1) -> S]
    OBVIOUS
  <2> HIDE DEF s
  <2> QED
    BY <2>1, <1>2, <1>3
<1>5. \A i \in 1..Len(r) : r[i] = IF i < k THEN q[i] ELSE q[i + 1]
  BY <1>3, <1>4
<1> HIDE DEF r
<1>6. Distinct(r)
  <2>1. \A i, j \in 1..Len(q) : q[i] = q[j] => i = j
    BY DEF Distinct
  <2>2. \A i, j \in 1..Len(r) : r[i] = r[j] => i = j
    BY <2>1, <1>4, <1>5
  <2> QED
    BY <2>2 DEF Distinct
<1>7. \A i \in 1..Len(r) : r[i] \in Elements(q) \ {t}
  BY <1>4, <1>5 DEF Distinct, Elements
<1>8. ASSUME NEW j \in 1..Len(q), q[j] # t
      PROVE  \E i \in 1..Len(r) : r[i] = q[j]
  <2>1. CASE j < k
    BY <2>1, <1>4, <1>5
  <2>2. CASE j > k
    <3>1. j - 1 \in 1..Len(r) /\ r[j - 1] = q[j]
      BY <2>2, <1>4, <1>5
    <3> QED
      BY <3>1
  <2> QED
    BY <1>8, <2>1, <2>2
<1>9. Elements(r) = Elements(q) \ {t}
  <2>1. \A x : x \in Elements(r) => x \in Elements(q) \ {t}
    BY <1>7 DEF Elements
  <2>2. ASSUME NEW x \in Elements(q) \ {t}
        PROVE  x \in Elements(r)
    <3>1. PICK j \in 1..Len(q) : x = q[j]
      BY DEF Elements
    <3>2. PICK i \in 1..Len(r) : r[i] = q[j]
      BY <3>1, <1>8
    <3> QED
      BY <3>1, <3>2 DEF Elements
  <2> QED
    BY <2>1, <2>2
<1> QED
  BY <1>1, <1>4, <1>6, <1>9 DEF r

-----------------------------------------------------------------------------
(* Each action preserves Inv.                                              *)

LEMMA AcquireInv ==
  ASSUME Inv, NEW t \in Tasks, Acquire(t)
  PROVE  Inv'
<1> USE DEF Inv, Acquire
<1>1. CASE ThrowIfAborted(t)
  <2> USE <1>1 DEF ThrowIfAborted
  <2>1. TypeOK'
    BY DEF TypeOK, Status
  <2>2. Waiting' = Waiting /\ Holders' = Holders
    BY DEF TypeOK, Waiting, Holders
  <2>3. NobodyForgotten' /\ NoIdleSlot'
    BY <2>2 DEF NobodyForgotten, Elements, Distinct, NoIdleSlot
  <2>4. SlotAccounting'
    BY <2>2 DEF SlotAccounting
  <2>5. AbortedLeavesQueue'
    BY DEF AbortedLeavesQueue, TypeOK
  <2> QED
    BY <2>1, <2>3, <2>4, <2>5
<1>2. CASE TakeSlot(t)
  <2> USE <1>2 DEF TakeSlot
  <2>1. TypeOK'
    BY DEF TypeOK, Status
  <2>2. Waiting' = Waiting /\ Holders' = Holders \cup {t} /\ t \notin Holders
    BY DEF TypeOK, Waiting, Holders
  <2>3. NobodyForgotten'
    BY <2>2 DEF NobodyForgotten, Elements, Distinct
  <2>4. NoIdleSlot'
    BY LimiterAssumption DEF NoIdleSlot, TypeOK
  <2>5. SlotAccounting'
    <3>1. IsFiniteSet(Holders') /\ Cardinality(Holders') = Cardinality(Holders) + 1
      BY <2>2, FS_AddElement DEF SlotAccounting
    <3> QED
      BY <3>1, LimiterAssumption DEF SlotAccounting, TypeOK
  <2>6. AbortedLeavesQueue'
    BY DEF AbortedLeavesQueue, TypeOK
  <2> QED
    BY <2>1, <2>3, <2>4, <2>5, <2>6
<1>3. CASE Refuse(t)
  <2> USE <1>3 DEF Refuse
  <2>1. TypeOK'
    BY DEF TypeOK, Status
  <2>2. Waiting' = Waiting /\ Holders' = Holders
    BY DEF TypeOK, Waiting, Holders
  <2>3. NobodyForgotten' /\ NoIdleSlot'
    BY <2>2 DEF NobodyForgotten, Elements, Distinct, NoIdleSlot
  <2>4. SlotAccounting'
    BY <2>2 DEF SlotAccounting
  <2>5. AbortedLeavesQueue'
    BY DEF AbortedLeavesQueue, TypeOK
  <2> QED
    BY <2>1, <2>3, <2>4, <2>5
<1>4. CASE Enqueue(t) /\ t \notin aborted
  <2> USE <1>4 DEF Enqueue
  <2>1. TypeOK'
    BY DEF TypeOK, Status
  <2>2. Waiting' = Waiting \cup {t} /\ Holders' = Holders /\ t \notin Waiting
    BY DEF TypeOK, Waiting, Holders
  <2>3. /\ Len(queue') = Len(queue) + 1
        /\ \A i \in 1..Len(queue) : queue'[i] = queue[i]
        /\ queue'[Len(queue) + 1] = t
    BY DEF TypeOK
  <2>4. NobodyForgotten'
    <3>1. \A i \in 1..Len(queue) : queue[i] # t
      BY <2>2 DEF NobodyForgotten, Elements, Distinct
    <3>2. \A i, j \in 1..Len(queue') : queue'[i] = queue'[j] => i = j
      BY <2>3, <3>1 DEF NobodyForgotten, Elements, Distinct, TypeOK
    <3>3. \A x : x \in Waiting' <=> \E i \in 1..Len(queue') : queue'[i] = x
      <4>1. ASSUME NEW x \in Waiting' PROVE \E i \in 1..Len(queue') : queue'[i] = x
        BY <2>2, <2>3 DEF NobodyForgotten, Elements, Distinct, TypeOK
      <4>2. ASSUME NEW i \in 1..Len(queue') PROVE queue'[i] \in Waiting'
        BY <2>2, <2>3 DEF NobodyForgotten, Elements, Distinct, TypeOK
      <4> QED
        BY <4>1, <4>2
    <3>4. Waiting' = {queue'[i] : i \in 1..Len(queue')}
      BY <3>3
    <3> QED
      BY <2>2, <3>2, <3>4 DEF NobodyForgotten, Elements, Distinct
  <2>5. NoIdleSlot'
    BY <2>3, LimiterAssumption DEF NoIdleSlot, SlotAccounting, TypeOK
  <2>6. SlotAccounting'
    BY <2>2 DEF SlotAccounting
  <2>7. AbortedLeavesQueue'
    BY DEF AbortedLeavesQueue, TypeOK
  <2> QED
    BY <2>1, <2>4, <2>5, <2>6, <2>7
<1> QED
  BY <1>1, <1>2, <1>3, <1>4

LEMMA BeginInv ==
  ASSUME Inv, NEW t \in Tasks, Begin(t)
  PROVE  Inv'
<1> USE DEF Inv, Begin
<1>1. TypeOK'
  BY DEF TypeOK, Status
<1>2. Waiting' = Waiting /\ Holders' = Holders
  BY DEF TypeOK, Waiting, Holders
<1>3. NobodyForgotten' /\ NoIdleSlot'
  BY <1>2 DEF NobodyForgotten, Elements, Distinct, NoIdleSlot
<1>4. SlotAccounting'
  BY <1>2 DEF SlotAccounting
<1>5. AbortedLeavesQueue'
  BY DEF AbortedLeavesQueue, TypeOK
<1> QED
  BY <1>1, <1>3, <1>4, <1>5

\* The slot that t holds is freed, or handed to the head of the queue: then the
\* holders change and their number doesn't.
LEMMA FinishInv ==
  ASSUME Inv, NEW t \in Tasks, Finish(t)
  PROVE  Inv'
<1> USE DEF Inv, Finish, Release
<1>0. t \in Holders /\ t \notin Waiting /\ Cardinality(Holders) \in Nat \ {0}
  <2>1. t \in Holders /\ t \notin Waiting
    BY DEF Holders, Waiting
  <2> QED
    BY <2>1, FS_CardinalityType, FS_EmptySet DEF SlotAccounting
<1>1. CASE queue = <<>>
  <2> USE <1>1
  <2>1. TypeOK'
    BY <1>0 DEF TypeOK, Status, SlotAccounting
  <2>2. Waiting' = Waiting /\ Holders' = Holders \ {t}
    BY DEF TypeOK, Waiting, Holders
  <2>3. NobodyForgotten' /\ NoIdleSlot'
    BY <2>2 DEF NobodyForgotten, Elements, Distinct, NoIdleSlot
  <2>4. SlotAccounting'
    <3>1. IsFiniteSet(Holders') /\ Cardinality(Holders') = Cardinality(Holders) - 1
      BY <2>2, <1>0, FS_RemoveElement DEF SlotAccounting
    <3> QED
      BY <3>1, LimiterAssumption DEF SlotAccounting, TypeOK
  <2>5. AbortedLeavesQueue'
    BY DEF AbortedLeavesQueue, TypeOK
  <2> QED
    BY <2>1, <2>3, <2>4, <2>5
<1>2. CASE queue # <<>>
  <2> DEFINE h == Head(queue)
  <2> USE <1>2 DEF Start
  <2>1. /\ h = queue[1] /\ 1 \in 1..Len(queue)
        /\ Len(queue') = Len(queue) - 1
        /\ \A i \in 1..Len(queue') : queue'[i] = queue[i + 1]
        /\ queue' \in Seq(Tasks)
    BY DEF TypeOK
  <2>2. h \in Waiting /\ h # t /\ h \in Tasks /\ h \notin Holders
    BY <2>1, <1>0 DEF NobodyForgotten, Elements, Distinct, Waiting, Holders
  <2>3. TypeOK'
    BY <2>1, <2>2 DEF TypeOK, Status
  <2>4. Waiting' = Waiting \ {h} /\ Holders' = (Holders \ {t}) \cup {h}
    BY <2>2 DEF TypeOK, Waiting, Holders
  <2> HIDE DEF h
  <2>5. listening' = listening \ {h}
    BY DEF h
  <2>6. NobodyForgotten'
    <3>1. \A i, j \in 1..Len(queue') : queue'[i] = queue'[j] => i = j
      BY <2>1 DEF NobodyForgotten, Elements, Distinct, TypeOK
    <3>2. ASSUME NEW x \in Waiting' PROVE \E i \in 1..Len(queue') : queue'[i] = x
      <4>1. PICK j \in 1..Len(queue) : queue[j] = x
        BY <2>4 DEF NobodyForgotten, Elements, Distinct
      <4>2. j # 1
        BY <4>1, <2>1, <2>4
      <4>3. j - 1 \in 1..Len(queue') /\ queue'[j - 1] = x
        BY <4>1, <4>2, <2>1 DEF TypeOK
      <4> QED
        BY <4>3
    <3>3. ASSUME NEW i \in 1..Len(queue') PROVE queue'[i] \in Waiting'
      <4>1. i + 1 \in 1..Len(queue) /\ queue'[i] = queue[i + 1]
        BY <2>1 DEF TypeOK
      <4>2. queue[i + 1] # h
        BY <4>1, <2>1 DEF NobodyForgotten, Elements, Distinct
      <4> QED
        BY <4>1, <4>2, <2>4 DEF NobodyForgotten, Elements, Distinct
    <3>4. Waiting' = {queue'[i] : i \in 1..Len(queue')}
      BY <3>2, <3>3
    <3> QED
      BY <3>1, <3>4, <2>4, <2>5 DEF NobodyForgotten, Elements, Distinct
  <2>7. NoIdleSlot'
    BY <2>1, LimiterAssumption DEF NoIdleSlot, TypeOK
  <2>8. SlotAccounting'
    <3>1. IsFiniteSet(Holders \ {t}) /\ Cardinality(Holders \ {t}) = Cardinality(Holders) - 1
      BY <1>0, FS_RemoveElement DEF SlotAccounting
    <3>2. IsFiniteSet(Holders') /\ Cardinality(Holders') = Cardinality(Holders \ {t}) + 1
      BY <3>1, <2>2, <2>4, FS_AddElement
    <3> QED
      BY <3>1, <3>2, <1>0, LimiterAssumption DEF SlotAccounting, TypeOK
  <2>9. AbortedLeavesQueue'
    BY <2>4 DEF AbortedLeavesQueue, Waiting, TypeOK
  <2> QED
    BY <2>3, <2>6, <2>7, <2>8, <2>9
<1> QED
  BY <1>1, <1>2

LEMMA AbortInv ==
  ASSUME Inv, NEW t \in Tasks, Abort(t)
  PROVE  Inv'
<1> USE DEF Inv, Abort
<1>1. CASE t \in listening
  <2> DEFINE k == IndexOf(queue, t)
  <2>1. t \in Waiting
    BY <1>1 DEF NobodyForgotten, Elements, Distinct
  <2>2. PICK m \in 1..Len(queue) : queue[m] = t
    BY <2>1 DEF NobodyForgotten, Elements, Distinct
  <2>3. queue \in Seq(Tasks) /\ Distinct(queue)
    BY DEF NobodyForgotten, TypeOK
  <2>4. /\ queue' \in Seq(Tasks)
        /\ Len(queue') = Len(queue) - 1
        /\ Distinct(queue')
        /\ Elements(queue') = Elements(queue) \ {t}
    <3>1. k = m
      BY <2>2, <2>3, SpliceProperties
    <3>2. queue' = Splice(queue, m)
      BY <3>1, <1>1
    <3> QED
      BY <3>2, <2>2, <2>3, SpliceProperties
  <2>5. TypeOK'
    BY <1>1, <2>4 DEF TypeOK, Status
  <2>6. Waiting' = Waiting \ {t} /\ Holders' = Holders
    BY <1>1, <2>1 DEF TypeOK, Waiting, Holders
  <2>7. NobodyForgotten'
    BY <1>1, <2>4, <2>6 DEF NobodyForgotten
  <2>8. NoIdleSlot'
    BY <2>2, <2>4, LimiterAssumption DEF NoIdleSlot, TypeOK
  <2>9. SlotAccounting'
    BY <2>6 DEF SlotAccounting
  <2>10. AbortedLeavesQueue'
    BY <1>1 DEF AbortedLeavesQueue, TypeOK
  <2> QED
    BY <2>5, <2>7, <2>8, <2>9, <2>10
<1>2. CASE t \notin listening
  <2> USE <1>2
  <2>1. TypeOK'
    BY DEF TypeOK
  <2>2. Waiting' = Waiting /\ Holders' = Holders
    BY DEF Waiting, Holders
  <2>3. NobodyForgotten' /\ NoIdleSlot'
    BY <2>2 DEF NobodyForgotten, Elements, Distinct, NoIdleSlot
  <2>4. SlotAccounting'
    BY <2>2 DEF SlotAccounting
  <2>5. AbortedLeavesQueue'
    BY DEF AbortedLeavesQueue, NobodyForgotten, Elements, Distinct, Waiting, TypeOK
  <2> QED
    BY <2>1, <2>3, <2>4, <2>5
<1> QED
  BY <1>1, <1>2

LEMMA StutterInv ==
  ASSUME Inv, UNCHANGED limiter
  PROVE  Inv'
<1>1. Waiting' = Waiting /\ Holders' = Holders
  BY DEF limiter, Waiting, Holders
<1> QED
  BY <1>1 DEF limiter, Inv, TypeOK, NobodyForgotten, Elements, Distinct, SlotAccounting, NoIdleSlot,
              AbortedLeavesQueue

LEMMA NextInv == Inv /\ [Next]_limiter => Inv'
<1> SUFFICES ASSUME Inv, [Next]_limiter PROVE Inv'
  OBVIOUS
<1>1. CASE UNCHANGED limiter
  BY <1>1, StutterInv
<1>2. ASSUME NEW t \in Tasks, Acquire(t) PROVE Inv'
  BY <1>2, AcquireInv
<1>3. ASSUME NEW t \in Tasks, Begin(t) PROVE Inv'
  BY <1>3, BeginInv
<1>4. ASSUME NEW t \in Tasks, Finish(t) PROVE Inv'
  BY <1>4, FinishInv
<1>5. ASSUME NEW t \in Tasks, Abort(t) PROVE Inv'
  BY <1>5, AbortInv
<1> QED
  BY <1>1, <1>2, <1>3, <1>4, <1>5 DEF Next

-----------------------------------------------------------------------------
(* The theorems.                                                           *)

\* The five invariants hold of the limiter for every concurrency of at least
\* one, every queue size and any tasks, finitely many or not.
THEOREM Invariance == Spec => []Inv
<1>1. Init => Inv
  BY InitInv
<1>2. Inv /\ [Next]_limiter => Inv'
  BY NextInv
<1> QED
  BY <1>1, <1>2, PTL DEF Spec

\* Type correctness, on its own.
THEOREM TypeCorrect == Spec => []TypeOK
<1>1. Inv => TypeOK
  BY DEF Inv
<1> QED
  BY <1>1, Invariance, PTL

\* No waiting call is ever forgotten (lib/limiter.ts: queue and onAbort).
THEOREM NoCallForgotten == Spec => []NobodyForgotten
<1>1. Inv => NobodyForgotten
  BY DEF Inv
<1> QED
  BY <1>1, Invariance, PTL

\* At most Concurrency tasks run, and the counter never drifts.
THEOREM SlotsAccounted == Spec => []SlotAccounting
<1>1. Inv => SlotAccounting
  BY DEF Inv
<1> QED
  BY <1>1, Invariance, PTL

\* No slot is idle while a call waits, and the queue keeps its bound.
THEOREM SlotsUsed == Spec => []NoIdleSlot
<1>1. Inv => NoIdleSlot
  BY DEF Inv
<1> QED
  BY <1>1, Invariance, PTL

\* First come, first served, for any tasks.
THEOREM ServedInOrder == Spec => FirstComeFirstServed
<1> DEFINE Fair(t) ==
             (t \notin Holders /\ t \in Holders') =>
               /\ t \notin Waiting => Waiting = {}
               /\ \A i, j \in 1..Len(queue) :
                    queue[j] = t /\ i < j => queue[i] \notin Waiting'
<1>1. ASSUME Inv, [Next]_limiter, NEW t \in Tasks, t \notin Holders, t \in Holders'
      PROVE  Fair(t)
  <2> USE DEF Inv
  <2>1. CASE UNCHANGED limiter
    BY <2>1, <1>1 DEF limiter, Holders
  <2>2. ASSUME NEW u \in Tasks, Acquire(u) PROVE Fair(t)
    <3>1. TakeSlot(u) /\ u = t
      BY <1>1, <2>2 DEF Acquire, ThrowIfAborted, TakeSlot, Refuse, Enqueue, Holders, TypeOK
    <3>2. queue = <<>>
      BY <3>1, <1>1, LimiterAssumption DEF TakeSlot, NoIdleSlot, TypeOK
    <3> QED
      BY <3>2, <1>1 DEF NobodyForgotten, Elements, Distinct
  <2>3. ASSUME NEW u \in Tasks, Begin(u) PROVE Fair(t)
    BY <1>1, <2>3 DEF Begin, Holders, TypeOK
  <2>4. ASSUME NEW u \in Tasks, Finish(u) PROVE Fair(t)
    <3>1. queue # <<>> /\ t = Head(queue)
      BY <1>1, <2>4 DEF Finish, Release, Start, Holders, TypeOK
    <3>2. t = queue[1] /\ 1 \in 1..Len(queue)
      BY <3>1, <1>1 DEF TypeOK
    <3>3. \A j \in 1..Len(queue) : queue[j] = t => j = 1
      BY <3>2, <1>1 DEF NobodyForgotten, Elements, Distinct
    <3>4. t \in Waiting
      BY <3>2, <1>1 DEF NobodyForgotten, Elements, Distinct
    <3> QED
      BY <3>3, <3>4, <1>1 DEF TypeOK
  <2>5. ASSUME NEW u \in Tasks, Abort(u) PROVE Fair(t)
    BY <1>1, <2>5 DEF Abort, Holders, TypeOK
  <2> QED
    BY <1>1, <2>1, <2>2, <2>3, <2>4, <2>5 DEF Next
<1>2. Inv /\ [Next]_limiter => [\A t \in Tasks : Fair(t)]_limiter
  BY <1>1
<1> QED
  BY <1>2, Invariance, PTL DEF Spec, FirstComeFirstServed

\* As many calls wait as the queue is long.
LEMMA WaitingCount ==
  ASSUME Inv
  PROVE  Cardinality(Waiting) = Len(queue)
<1> DEFINE n == Len(queue)
           f == [i \in 1..n |-> queue[i]]
<1>1. n \in Nat
  BY DEF Inv, TypeOK
<1>2. f \in [1..n -> Waiting]
  BY DEF Inv, NobodyForgotten, Elements
<1>3. \A i, j \in 1..n : f[i] = f[j] => i = j
  BY DEF Inv, NobodyForgotten, Distinct
<1>4. \A x \in Waiting : \E i \in 1..n : f[i] = x
  BY DEF Inv, NobodyForgotten, Elements
<1>5. f \in Bijection(1..n, Waiting)
  <2> HIDE DEF f, n
  <2> QED
    BY <1>2, <1>3, <1>4 DEF Bijection, Injection, Surjection, IsInjective
<1>6. ExistsBijection(1..n, Waiting)
  BY <1>5 DEF ExistsBijection
<1> QED
  BY <1>1, <1>6, FS_CountingElements

\* A call is refused only when the slots are held and the places are taken by
\* calls whose clients are still there, for any tasks.
THEOREM RefusedOnlyWhenFull == Spec => BusyOnlyWhenFull
<1> DEFINE Full(t) ==
             (status[t] # "busy" /\ status'[t] = "busy") =>
               /\ Cardinality(Holders) = Concurrency
               /\ Cardinality(Waiting) = QueueSize
               /\ Waiting \cap aborted = {}
<1>1. ASSUME Inv, [Next]_limiter, NEW t \in Tasks, status[t] # "busy", status'[t] = "busy"
      PROVE  Full(t)
  <2>1. Refuse(t)
    <3>1. ~ UNCHANGED limiter
      BY <1>1 DEF limiter
    <3>2. ASSUME NEW u \in Tasks, Acquire(u) PROVE Refuse(t)
      BY <1>1, <3>2
         DEF Acquire, ThrowIfAborted, TakeSlot, Refuse, Enqueue, Inv, TypeOK
    <3>3. ASSUME NEW u \in Tasks, Begin(u) PROVE FALSE
      BY <1>1, <3>3 DEF Begin, Inv, TypeOK
    <3>4. ASSUME NEW u \in Tasks, Finish(u) PROVE FALSE
      BY <1>1, <3>4 DEF Finish, Release, Start, Inv, TypeOK
    <3>5. ASSUME NEW u \in Tasks, Abort(u) PROVE FALSE
      BY <1>1, <3>5 DEF Abort, Inv, TypeOK
    <3> QED
      BY <1>1, <3>1, <3>2, <3>3, <3>4, <3>5 DEF Next
  <2>2. Cardinality(Holders) = Concurrency
    BY <1>1, <2>1, LimiterAssumption DEF Refuse, Inv, SlotAccounting, TypeOK
  <2>3. Cardinality(Waiting) = QueueSize
    <3>1. Len(queue) = QueueSize
      BY <1>1, <2>1, LimiterAssumption DEF Refuse, Inv, NoIdleSlot, TypeOK
    <3> QED
      BY <3>1, <1>1, WaitingCount
  <2>4. Waiting \cap aborted = {}
    BY <1>1 DEF Inv, AbortedLeavesQueue, Waiting
  <2> QED
    BY <2>2, <2>3, <2>4
<1>2. Inv /\ [Next]_limiter => [\A t \in Tasks : Full(t)]_limiter
  BY <1>1
<1> QED
  BY <1>2, Invariance, PTL DEF Spec, BusyOnlyWhenFull

-----------------------------------------------------------------------------
(* Refinement: every step of the limiter is a step of the slot queue, or   *)
(* leaves it as it is.                                                     *)

USE DEF Slots!InLine, Slots!New, Slots!slots

\* Cardinality as the instance of SlotQueue names it.
LEMMA SameCardinality == Slots!Cardinality(Holders) = Cardinality(Holders)
BY DEF Slots!Cardinality, Cardinality, Slots!IsFiniteSet, IsFiniteSet

LEMMA NewIsNew ==
  ASSUME Inv
  PROVE  /\ Slots!New = {t \in Tasks : status[t] = "new"}
         /\ Slots!InLine = Waiting
BY DEF Inv, TypeOK, Status, NobodyForgotten, Elements, Waiting, Holders

LEMMA AcquireRefines ==
  ASSUME Inv, NEW t \in Tasks, Acquire(t)
  PROVE  Slots!Next
<1> USE DEF Inv, Acquire
<1>0. t \in Slots!New
  BY NewIsNew
<1>1. CASE ThrowIfAborted(t)
  <2>1. Slots!GiveUp(t)
    BY <1>0, <1>1 DEF ThrowIfAborted, Slots!GiveUp, TypeOK, Holders
  <2> QED
    BY <2>1 DEF Slots!Next
<1>2. CASE TakeSlot(t)
  <2>1. queue = <<>> /\ Cardinality(Holders) < Concurrency
    BY <1>2, LimiterAssumption DEF TakeSlot, NoIdleSlot, SlotAccounting, TypeOK
  <2>2. Slots!Enter(t)
    BY <1>0, <1>2, <2>1, SameCardinality DEF TakeSlot, Slots!Enter, TypeOK, Holders
  <2> QED
    BY <2>2 DEF Slots!Next
<1>3. CASE Refuse(t)
  <2>1. Cardinality(Holders) = Concurrency /\ Len(queue) = QueueSize
    BY <1>3, LimiterAssumption DEF Refuse, NoIdleSlot, SlotAccounting, TypeOK
  <2>2. Slots!TurnAway(t)
    BY <1>0, <1>3, <2>1, SameCardinality DEF Refuse, Slots!TurnAway, TypeOK, Holders
  <2> QED
    BY <2>2 DEF Slots!Next
<1>4. CASE Enqueue(t)
  <2>1. Cardinality(Holders) = Concurrency
    BY <1>4, LimiterAssumption DEF Enqueue, SlotAccounting, TypeOK
  <2>2. Slots!Join(t)
    BY <1>0, <1>4, <2>1, SameCardinality DEF Enqueue, Slots!Join, TypeOK, Holders
  <2> QED
    BY <2>2 DEF Slots!Next
<1> QED
  BY <1>1, <1>2, <1>3, <1>4

LEMMA FinishRefines ==
  ASSUME Inv, NEW t \in Tasks, Finish(t)
  PROVE  Slots!Next
<1> USE DEF Inv, Finish, Release
<1>1. t \in Holders
  BY DEF Holders
<1>2. {u \in Tasks : status[u] = "busy"}' = {u \in Tasks : status[u] = "busy"}
  <2>1. \A u \in Tasks : status'[u] = "busy" <=> status[u] = "busy"
    <3>1. CASE queue = <<>>
      BY <3>1 DEF TypeOK
    <3>2. CASE queue # <<>>
      <4>1. Head(queue) \in Waiting
        BY <3>2 DEF NobodyForgotten, Elements, TypeOK
      <4> QED
        BY <3>2, <4>1 DEF Start, Waiting, TypeOK
    <3> QED
      BY <3>1, <3>2
  <2> QED
    BY <2>1
<1>3. CASE queue = <<>>
  <2>1. Slots!Leave(t)
    BY <1>1, <1>2, <1>3 DEF Slots!Leave, TypeOK, Holders
  <2> QED
    BY <2>1 DEF Slots!Next
<1>4. CASE queue # <<>>
  <2> DEFINE h == Head(queue)
  <2>1. h \in Waiting /\ h # t /\ h \in Tasks
    BY <1>4 DEF NobodyForgotten, Elements, Waiting, TypeOK
  <2>2. Holders' = (Holders \ {t}) \cup {h}
    BY <1>4, <2>1 DEF Start, Holders, Waiting, TypeOK
  <2>3. {u \in Tasks : status'[u] \in {"finished", "cancelled"}}
          = {u \in Tasks : status[u] \in {"finished", "cancelled"}} \cup {t}
    BY <1>4, <2>1 DEF Start, Waiting, TypeOK
  <2>4. Slots!Leave(t)
    BY <1>1, <1>2, <1>4, <2>2, <2>3 DEF Slots!Leave
  <2> QED
    BY <2>4 DEF Slots!Next
<1> QED
  BY <1>3, <1>4

LEMMA AbortRefines ==
  ASSUME Inv, NEW t \in Tasks, Abort(t)
  PROVE  Slots!Next \/ UNCHANGED Slots!slots
<1> USE DEF Inv, Abort
<1>1. CASE t \in listening
  <2>1. PICK k \in 1..Len(queue) : queue[k] = t
    BY <1>1 DEF NobodyForgotten, Elements
  <2>2. t \in Waiting
    BY <1>1 DEF NobodyForgotten
  <2>3. queue' = [i \in 1..(Len(queue) - 1) |-> IF i < k THEN queue[i] ELSE queue[i + 1]]
    <3>1. queue \in Seq(Tasks) /\ Distinct(queue)
      BY DEF NobodyForgotten, TypeOK
    <3>2. IndexOf(queue, t) = k
      BY <2>1, <3>1, SpliceProperties
    <3>3. queue # <<>> /\ k # 0
      BY <2>1, <3>1
    <3> QED
      BY <1>1, <3>2, <3>3 DEF Splice
  <2>4. Slots!GiveUp(t)
    BY <1>1, <2>1, <2>2, <2>3 DEF Slots!GiveUp, TypeOK, Holders, Waiting
  <2> QED
    BY <2>4 DEF Slots!Next
<1>2. CASE t \notin listening
  BY <1>2 DEF Holders
<1> QED
  BY <1>1, <1>2

\* The limiter keeps every promise of SlotQueue: arrival order, full use of
\* the slots, and refusal only when every place is taken.
THEOREM Refinement == Spec => ImplementsSlotQueue
<1>1. Init => Slots!Init
  BY DEF Init, Slots!Init, Holders
<1>2. Inv /\ [Next]_limiter => [Slots!Next]_(Slots!slots)
  <2> SUFFICES ASSUME Inv, [Next]_limiter
               PROVE  Slots!Next \/ UNCHANGED Slots!slots
    OBVIOUS
  <2>1. CASE UNCHANGED limiter
    BY <2>1 DEF limiter, Holders
  <2>2. ASSUME NEW t \in Tasks, Begin(t) PROVE UNCHANGED Slots!slots
    BY <2>2 DEF Begin, Holders, Inv, TypeOK
  <2> QED
    BY <2>1, <2>2, AcquireRefines, FinishRefines, AbortRefines DEF Next
<1> QED
  BY <1>1, <1>2, Invariance, PTL DEF Spec, ImplementsSlotQueue, Slots!Spec
=============================================================================
