------------------------ MODULE CompileServiceProofs ------------------------
(***************************************************************************)
(* The requests of api-compile and the directories they own, for any       *)
(* requests, slots and places.  What the limiter keeps is LimiterProofs's, *)
(* instantiated.                                                           *)
(***************************************************************************)
EXTENDS CompileService, FiniteSetTheorems, TLAPS

LP == INSTANCE LimiterProofs WITH Tasks <- Requests

-----------------------------------------------------------------------------
(* The inductive invariant.                                                *)

\* How far the limiter is with a request, by where the request is.
StatusOfPhase(r) ==
  /\ phase[r] \in {"out", "received"} => status[r] = "new"
  /\ phase[r] = "limit" => status[r] \in {"waiting", "granted", "busy", "cancelled"}
  /\ phase[r] = "limit" /\ r \in gone => status[r] # "waiting"
  /\ phase[r] \in InSlot => status[r] = "running"
  /\ phase[r] \in InUse \cup {"clean", "answered"} => status[r] = "finished"
  /\ phase[r] = "refused" => status[r] \in {"new", "busy", "cancelled"}

\* What it has on disk, by where it is.
DirsOfPhase(r) ==
  /\ phase[r] \in {"out", "received", "limit", "mkdtemp", "refused"} => dirs[r] = {}
  /\ phase[r] \in {"build", "undo"} \cup InUse => "build" \in dirs[r]
  /\ phase[r] = "answered" => "build" \notin dirs[r] \/ r \in logged

IInv ==
  /\ TypeOK /\ LP!Inv
  /\ \A r \in Requests : StatusOfPhase(r) /\ DirsOfPhase(r)
  /\ server = "drained" => \A r \in Requests : phase[r] \in InFlight => r \in gone

-----------------------------------------------------------------------------
(* The limiter's steps, seen from the requests.                            *)

\* The constants of the service are what the limiter assumes.
LEMMA Assumed == LP!LimiterAssumption
BY ServiceAssumption DEF LP!LimiterAssumption

\* Its cardinalities are ours.
LEMMA SameCardinality ==
  ASSUME NEW S
  PROVE  LP!Cardinality(S) = Cardinality(S) /\ (LP!IsFiniteSet(S) <=> IsFiniteSet(S))
BY Zenon DEF Cardinality, LP!Cardinality, IsFiniteSet, LP!IsFiniteSet

\* Its slots are counted as LimiterProofs says.
LEMMA SlotsCounted ==
  ASSUME IInv
  PROVE  /\ IsFiniteSet(LP!Holders) /\ active = Cardinality(LP!Holders)
         /\ active <= Concurrency
BY SameCardinality DEF IInv, LP!Inv, LP!SlotAccounting

\* A call of the limiter: r's status, and what happens to the others'.
LEMMA Acquired ==
  ASSUME IInv, NEW r \in Requests, L!Acquire(r)
  PROVE  /\ LP!Next /\ status[r] = "new"
         /\ status'[r] \in {"waiting", "granted", "busy", "cancelled"}
         /\ \A q \in Requests \ {r} : status'[q] = status[q]
<1>1. LP!Acquire(r)
  BY DEF L!Acquire, LP!Acquire, L!ThrowIfAborted, LP!ThrowIfAborted, L!TakeSlot, LP!TakeSlot,
         L!Refuse, LP!Refuse, L!Enqueue, LP!Enqueue
<1>2. LP!Next
  BY <1>1 DEF LP!Next
<1> QED
  BY <1>2 DEF IInv, TypeOK, L!TypeOK, L!Acquire, L!ThrowIfAborted, L!TakeSlot, L!Refuse, L!Enqueue

LEMMA Begun ==
  ASSUME IInv, NEW r \in Requests, L!Begin(r)
  PROVE  /\ LP!Next /\ status[r] = "granted" /\ status'[r] = "running"
         /\ \A q \in Requests \ {r} : status'[q] = status[q]
<1>1. LP!Begin(r)
  BY DEF L!Begin, LP!Begin
<1>2. LP!Next
  BY <1>1 DEF LP!Next
<1> QED
  BY <1>2 DEF IInv, TypeOK, L!TypeOK, L!Begin

\* The slot may go to another request, that was waiting for it.
LEMMA Finished ==
  ASSUME IInv, NEW r \in Requests, L!Finish(r)
  PROVE  /\ LP!Next /\ status[r] = "running" /\ status'[r] = "finished"
         /\ \A q \in Requests \ {r} :
              status'[q] = status[q] \/ (status[q] = "waiting" /\ status'[q] = "granted")
<1>1. LP!Finish(r)
  BY DEF L!Finish, LP!Finish, L!Release, LP!Release, L!Start, LP!Start
<1>2. LP!Next
  BY <1>1 DEF LP!Next
<1>3. /\ status \in [Requests -> L!Status] /\ queue \in Seq(Requests) /\ status[r] = "running"
  BY DEF IInv, TypeOK, L!TypeOK, L!Finish
<1>4. CASE queue = <<>>
  BY <1>2, <1>3, <1>4 DEF L!Finish, L!Release
<1>5. CASE queue # <<>>
  <2>1. Head(queue) = queue[1] /\ 1 \in 1..Len(queue)
    BY <1>3, <1>5
  <2>2. Head(queue) \in Requests /\ status[Head(queue)] = "waiting"
    BY <2>1 DEF IInv, LP!Inv, LP!NobodyForgotten, LP!Elements, LP!Waiting
  <2> QED
    BY <1>2, <1>3, <1>5, <2>2 DEF L!Finish, L!Release, L!Start
<1> QED
  BY <1>4, <1>5

LEMMA Aborted ==
  ASSUME IInv, NEW r \in Requests, L!Abort(r)
  PROVE  /\ LP!Next
         /\ status'[r] = status[r] \/ (status[r] = "waiting" /\ status'[r] = "cancelled")
         /\ status'[r] # "waiting"
         /\ \A q \in Requests \ {r} : status'[q] = status[q]
<1>1. LP!Abort(r)
  BY DEF L!Abort, LP!Abort, L!IndexOf, LP!IndexOf, L!Splice, LP!Splice
<1>2. LP!Next
  BY <1>1 DEF LP!Next
<1>3. r \in listening <=> status[r] = "waiting"
  BY DEF IInv, LP!Inv, LP!NobodyForgotten, LP!Waiting
<1> QED
  BY <1>2, <1>3 DEF IInv, TypeOK, L!TypeOK, L!Abort

\* Its own invariant survives either way.
LEMMA LimiterKept ==
  ASSUME LP!Inv, LP!Next \/ UNCHANGED limiter
  PROVE  LP!Inv' /\ L!TypeOK'
<1>1. [LP!Next]_LP!limiter
  BY DEF limiter, LP!limiter
<1>2. LP!Inv'
  BY <1>1, Assumed, LP!NextInv
<1> QED
  BY <1>2 DEF LP!Inv, LP!TypeOK, L!TypeOK, LP!Status, L!Status

-----------------------------------------------------------------------------
(* The steps of a request.                                                 *)

\* What a step of r does to all the others: at most the limiter starts one.
Steps(r) ==
  /\ LP!Next \/ UNCHANGED limiter
  /\ Alive /\ UNCHANGED server /\ gone' \in {gone, gone \cup {r}}
  /\ \A q \in Requests \ {r} :
       /\ phase'[q] = phase[q] /\ dirs'[q] = dirs[q]
       /\ status'[q] = status[q] \/ (status[q] = "waiting" /\ status'[q] = "granted")
  /\ logged \subseteq logged'

\* What is left to show of such a step.
LEMMA StepsInv ==
  ASSUME IInv, NEW r \in Requests, Steps(r),
         phase' \in [Requests -> Phases], dirs' \in [Requests -> SUBSET Dirs],
         logged' \subseteq Requests, StatusOfPhase(r)', DirsOfPhase(r)'
  PROVE  IInv'
<1>1. TypeOK'
  BY LimiterKept DEF IInv, TypeOK, Steps
<1>2. LP!Inv'
  BY LimiterKept DEF IInv, Steps
<1>3. ASSUME NEW q \in Requests \ {r}
      PROVE  StatusOfPhase(q)' /\ DirsOfPhase(q)'
  <2>1. StatusOfPhase(q) /\ DirsOfPhase(q) /\ phase[q] \in Phases
    BY DEF IInv, TypeOK
  <2>2. /\ phase'[q] = phase[q] /\ dirs'[q] = dirs[q] /\ logged \subseteq logged'
        /\ status'[q] = status[q] \/ (status[q] = "waiting" /\ status'[q] = "granted")
    BY DEF Steps
  <2>3. StatusOfPhase(q)'
    BY <2>1, <2>2 DEF StatusOfPhase, Phases, InSlot, InUse, Steps
  <2>4. DirsOfPhase(q)'
    BY <2>1, <2>2 DEF DirsOfPhase
  <2> QED
    BY <2>3, <2>4
<1>4. server' # "drained"
  BY DEF Steps, Alive
<1> QED
  BY <1>1, <1>2, <1>3, <1>4 DEF IInv

\* The steps that leave the limiter alone.
LEMMA OutsideLimiter ==
  ASSUME IInv, NEW r \in Requests,
         \/ Receive(r) \/ Rejected(r) \/ DirMade(r) \/ BuildThrows(r) \/ UseInMemory(r)
         \/ UseVerify(r) \/ ResourceFails(r) \/ VerifyEnds(r) \/ RemoveResource(r) \/ Cleanup(r)
  PROVE  IInv'
<1> USE DEF Goto
<1>1. TypeOK /\ StatusOfPhase(r) /\ DirsOfPhase(r)
  BY DEF IInv
<1>2. UNCHANGED limiter /\ status' = status
  BY DEF limiter, Receive, Rejected, DirMade, BuildThrows, UseInMemory, UseVerify, ResourceFails,
         VerifyEnds, RemoveResource, Cleanup
<1> DEFINE Kept ==
      /\ Steps(r) /\ phase' \in [Requests -> Phases] /\ dirs' \in [Requests -> SUBSET Dirs]
      /\ logged' \subseteq Requests /\ StatusOfPhase(r)' /\ DirsOfPhase(r)'
<1> USE DEF TypeOK, Steps, outside, Phases, StatusOfPhase, DirsOfPhase, InSlot, InUse, Answered
<1>3. CASE Receive(r)
  <2>1. Kept
    BY <1>1, <1>2, <1>3 DEF Receive
  <2> QED
    BY <2>1, StepsInv
<1>4. CASE Rejected(r)
  <2>1. Kept
    BY <1>1, <1>2, <1>4 DEF Rejected
  <2> QED
    BY <2>1, StepsInv
<1>5. CASE DirMade(r)
  <2>1. Kept
    BY <1>1, <1>2, <1>5 DEF DirMade, Dirs
  <2> QED
    BY <2>1, StepsInv
<1>6. CASE BuildThrows(r)
  <2>1. Kept
    BY <1>1, <1>2, <1>6 DEF BuildThrows
  <2> QED
    BY <2>1, StepsInv
<1>7. CASE UseInMemory(r)
  <2>1. Kept
    BY <1>1, <1>2, <1>7 DEF UseInMemory
  <2> QED
    BY <2>1, StepsInv
<1>8. CASE UseVerify(r)
  <2>1. Kept
    BY <1>1, <1>2, <1>8 DEF UseVerify, Dirs
  <2> QED
    BY <2>1, StepsInv
<1>9. CASE ResourceFails(r)
  <2>1. Kept
    BY <1>1, <1>2, <1>9 DEF ResourceFails, Dirs
  <2> QED
    BY <2>1, StepsInv
<1>10. CASE VerifyEnds(r)
  <2>1. Kept
    BY <1>1, <1>2, <1>10 DEF VerifyEnds
  <2> QED
    BY <2>1, StepsInv
<1>11. CASE RemoveResource(r)
  <2>1. Kept
    BY <1>1, <1>2, <1>11 DEF RemoveResource, RemoveDir
  <2> QED
    BY <2>1, StepsInv
<1>12. CASE Cleanup(r)
  <2>1. Kept
    BY <1>1, <1>2, <1>12 DEF Cleanup, RemoveDir
  <2> QED
    BY <2>1, StepsInv
<1> QED
  BY <1>3, <1>4, <1>5, <1>6, <1>7, <1>8, <1>9, <1>10, <1>11, <1>12

\* The steps that call it.
LEMMA InsideLimiter ==
  ASSUME IInv, NEW r \in Requests,
         Handle(r) \/ CompileStarts(r) \/ DirFailed(r) \/ BuildEnds(r) \/ Undo(r) \/ Disconnect(r)
  PROVE  IInv'
<1> USE DEF Goto
<1>1. TypeOK /\ StatusOfPhase(r) /\ DirsOfPhase(r)
  BY DEF IInv
<1> DEFINE Kept ==
      /\ Steps(r) /\ phase' \in [Requests -> Phases] /\ dirs' \in [Requests -> SUBSET Dirs]
      /\ logged' \subseteq Requests /\ StatusOfPhase(r)' /\ DirsOfPhase(r)'
<1> USE DEF TypeOK, Steps, outside, Phases, StatusOfPhase, DirsOfPhase, InSlot, InUse, Answered
<1>2. CASE Handle(r) /\ UNCHANGED limiter
  <2>1. Kept
    BY <1>1, <1>2, Acquired DEF Handle, limiter
  <2> QED
    BY <2>1, StepsInv
<1>3. CASE Handle(r) /\ r \notin gone /\ L!Acquire(r) /\ Goto(r, "limit")
  <2>1. Kept
    BY <1>1, <1>3, Acquired DEF Handle
  <2> QED
    BY <2>1, StepsInv
<1>4. CASE CompileStarts(r)
  <2>1. Kept
    BY <1>1, <1>4, Begun DEF CompileStarts
  <2> QED
    BY <2>1, StepsInv
<1>5. CASE DirFailed(r)
  <2>1. Kept
    BY <1>1, <1>5, Finished DEF DirFailed
  <2> QED
    BY <2>1, StepsInv
<1>6. CASE BuildEnds(r)
  <2>1. Kept
    BY <1>1, <1>6, Finished DEF BuildEnds
  <2> QED
    BY <2>1, StepsInv
<1>7. CASE Undo(r)
  <2>1. Kept
    BY <1>1, <1>7, Finished DEF Undo, RemoveDir
  <2> QED
    BY <2>1, StepsInv
<1>8. CASE Disconnect(r)
  <2>1. Kept
    <3>1. phase[r] \in {"limit"} \cup InSlot => L!Abort(r)
      BY <1>8 DEF Disconnect
    <3>2. phase[r] \notin {"limit"} \cup InSlot => UNCHANGED limiter
      BY <1>8 DEF Disconnect
    <3> QED
      BY <1>1, <1>8, <3>1, <3>2, Aborted DEF Disconnect, request, limiter
  <2> QED
    BY <2>1, StepsInv
<1> QED
  BY <1>2, <1>3, <1>4, <1>5, <1>6, <1>7, <1>8 DEF Handle

LEMMA RequestInv ==
  ASSUME IInv, NEW r \in Requests, Receive(r) \/ Disconnect(r) \/ Progress(r)
  PROVE  IInv'
BY OutsideLimiter, InsideLimiter DEF Progress

-----------------------------------------------------------------------------
(* The server's steps, and the theorems.                                   *)

LEMMA ServerInv ==
  ASSUME IInv, Sigterm \/ Exit \/ ForceExit \/ UNCHANGED vars
  PROVE  IInv'
<1>1. UNCHANGED <<limiter, gone, phase, dirs, logged, status>>
  BY DEF Sigterm, Exit, ForceExit, vars, outside, request, limiter
<1>2. TypeOK'
  BY <1>1, LimiterKept DEF IInv, TypeOK, Sigterm, Exit, ForceExit, vars, outside
<1>3. LP!Inv'
  BY <1>1, LimiterKept DEF IInv
<1>4. \A r \in Requests : StatusOfPhase(r)' /\ DirsOfPhase(r)'
  BY <1>1 DEF IInv, StatusOfPhase, DirsOfPhase
<1>5. server' = "drained" => \A r \in Requests : phase'[r] \in InFlight => r \in gone'
  BY <1>1 DEF IInv, Sigterm, Exit, ForceExit, vars, outside
<1> QED
  BY <1>2, <1>3, <1>4, <1>5 DEF IInv

LEMMA InitInv == Init => IInv
<1> SUFFICES ASSUME Init PROVE IInv
  OBVIOUS
<1>1. LP!Inv
  <2>1. LP!Init
    BY DEF Init, L!Init, LP!Init
  <2> QED
    BY <2>1, Assumed, LP!InitInv
<1>2. TypeOK
  BY <1>1 DEF Init, TypeOK, Phases, LP!Inv, LP!TypeOK, L!TypeOK, LP!Status, L!Status
<1> QED
  BY <1>1, <1>2 DEF Init, L!Init, IInv, StatusOfPhase, DirsOfPhase, InSlot, InUse

\* IInv holds in every state of the service.
THEOREM ServiceInvariant == Spec => []IInv
<1>1. IInv /\ [Next]_vars => IInv'
  BY RequestInv, ServerInv DEF Next
<1> QED
  BY <1>1, InitInv, PTL DEF Spec

\* The types of the limiter's, the server's and the requests' variables.
THEOREM TypeCorrect == Spec => []TypeOK
<1>1. IInv => TypeOK
  BY DEF IInv
<1> QED
  BY <1>1, ServiceInvariant, PTL

\* The package is on disk as long as the verifier reads it, after the slot went
\* to another build (lib/compile.ts: queueCompile).
THEOREM PackageOnDisk == Spec => []VerifierSeesPackage
<1>1. IInv => VerifierSeesPackage
  BY DEF IInv, DirsOfPhase, VerifierSeesPackage, InUse
<1> QED
  BY <1>1, ServiceInvariant, PTL

\* Whatever throws or goes away, slots are held by the requests inside compile()
\* alone, so by at most Concurrency of them (lib/compile.ts, lib/limiter.ts).
THEOREM SlotsOnlyBuild == Spec => []SlotsHeldByBuilds
<1>1. ASSUME IInv, NEW r \in Requests
      PROVE  /\ phase[r] \in InSlot <=> status[r] = "running"
             /\ status[r] \in {"waiting", "granted"} => phase[r] = "limit"
  <2>1. StatusOfPhase(r) /\ phase[r] \in Phases
    BY <1>1 DEF IInv, TypeOK
  <2> QED
    BY <2>1 DEF StatusOfPhase, Phases, InSlot, InUse
<1>2. ASSUME IInv
      PROVE  Cardinality({r \in Requests : phase[r] \in InSlot}) <= Concurrency
  <2> DEFINE building == {r \in Requests : phase[r] \in InSlot}
  <2>1. building \subseteq LP!Holders
    BY <1>1, <1>2 DEF LP!Holders
  <2> HIDE DEF building
  <2>2. /\ IsFiniteSet(LP!Holders) /\ Cardinality(LP!Holders) \in Nat
        /\ Cardinality(LP!Holders) <= Concurrency
    BY <1>2, SlotsCounted, FS_CardinalityType
  <2>3. Cardinality(building) \in Nat /\ Cardinality(building) <= Cardinality(LP!Holders)
    BY <2>1, <2>2, FS_Subset, FS_CardinalityType
  <2>4. Cardinality(building) <= Concurrency
    BY <2>2, <2>3, ServiceAssumption
  <2> QED
    BY <2>4 DEF building
<1>3. IInv => SlotsHeldByBuilds
  BY <1>1, <1>2 DEF SlotsHeldByBuilds
<1> QED
  BY <1>3, ServiceInvariant, PTL

\* An answered request has left no copy of its project and no build output,
\* unless deleting them failed (lib/compile.ts).
THEOREM NothingOfBuildsStays == Spec => []BuildLeavesNothing
<1>1. IInv => BuildLeavesNothing
  BY DEF IInv, DirsOfPhase, BuildLeavesNothing, Answered
<1> QED
  BY <1>1, ServiceInvariant, PTL

\* A server that exited by itself has cut short requests of clients that had
\* left, and no others: no slot and no build is anybody else's, and nobody was
\* waiting (server.ts, lib/utils.ts).
THEOREM NobodyElseLost == Spec => []ExitLosesOnlyTheGone
<1>1. ASSUME IInv, server = "drained"
      PROVE  queue = <<>>
  <2>1. ASSUME NEW r \in Requests, status[r] = "waiting"
        PROVE  FALSE
    <3>1. StatusOfPhase(r) /\ phase[r] \in Phases
      BY <1>1 DEF IInv, TypeOK
    <3>2. phase[r] = "limit"
      BY <2>1, <3>1 DEF StatusOfPhase, Phases, InSlot, InUse
    <3>3. phase[r] \in InFlight
      BY <3>2 DEF InFlight, Phases, Answered
    <3> QED
      BY <1>1, <2>1, <3>1, <3>2, <3>3 DEF IInv, StatusOfPhase
  <2>2. queue \in Seq(Requests) /\ LP!Elements(queue) = {}
    BY <1>1, <2>1 DEF IInv, TypeOK, L!TypeOK, LP!Inv, LP!NobodyForgotten, LP!Waiting
  <2> QED
    BY <2>2 DEF LP!Elements
<1>2. ASSUME IInv, server = "drained", NEW r \in Requests \ gone
      PROVE  /\ status[r] \notin {"granted", "running"}
             /\ "build" \in dirs[r] => r \in logged
  <2>1. StatusOfPhase(r) /\ DirsOfPhase(r)
    BY <1>2 DEF IInv
  <2>2. phase[r] \in {"out"} \cup Answered
    BY <1>2 DEF IInv, TypeOK, InFlight
  <2> QED
    BY <2>1, <2>2 DEF StatusOfPhase, DirsOfPhase, Answered
<1>3. IInv => ExitLosesOnlyTheGone
  BY <1>1, <1>2 DEF ExitLosesOnlyTheGone
<1> QED
  BY <1>3, ServiceInvariant, PTL

\* The service only uses the limiter as limiter.ts lets it: what LimiterProofs
\* says of every behaviour of the limiter's steps is so in the service.
THEOREM UsesLimiter == Spec => LP!Init /\ [][LP!Next]_(LP!limiter)
<1>1. Init => LP!Init
  BY DEF Init, L!Init, LP!Init
<1>2. ASSUME IInv, [Next]_vars
      PROVE  [LP!Next]_(LP!limiter)
  <2>1. ASSUME NEW r \in Requests, Receive(r) \/ Disconnect(r) \/ Progress(r)
        PROVE  LP!Next \/ UNCHANGED limiter
    BY <1>2, <2>1, Acquired, Begun, Finished, Aborted
    DEF Progress, Receive, Disconnect, Handle, Rejected, CompileStarts, DirMade, DirFailed,
        BuildEnds, BuildThrows, Undo, UseInMemory, UseVerify, ResourceFails, VerifyEnds,
        RemoveResource, Cleanup
  <2>2. LP!Next \/ UNCHANGED limiter
    BY <1>2, <2>1 DEF Next, Sigterm, Exit, ForceExit, vars
  <2> QED
    BY <2>2 DEF limiter, LP!limiter
<1>3. IInv /\ [Next]_vars => [LP!Next]_(LP!limiter)
  BY <1>2
<1> QED
  BY <1>1, <1>3, ServiceInvariant, PTL DEF Spec
=============================================================================
