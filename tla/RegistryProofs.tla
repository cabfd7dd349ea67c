--------------------------- MODULE RegistryProofs ---------------------------
(***************************************************************************)
(* The invariants of the registry's database, for any requests, inputs and *)
(* number of cleanups.                                                     *)
(***************************************************************************)
EXTENDS RegistryProps, TLAPS

-----------------------------------------------------------------------------
(* The inductive invariant.                                                *)

\* Where a request is that may have committed: it inserts nothing any more.
Past == {"debugPut", "debugRow"} \cup Answers

\* A committed row is the one its request was to insert.
RowsOfRequests ==
  /\ \A p \in packages :
       /\ pc[p.id] \in Past /\ input[p.id] \in Inputs
       /\ p.commitment = input[p.id].commitment
  /\ \A a \in accounts :
       /\ pc[a.id] \in Past /\ input[a.id] \in Inputs
       /\ a.root = input[a.id].root
  /\ \A c \in components :
       /\ pc[c.id] \in Past /\ input[c.id] \in Inputs
       /\ c.source = input[c.id].source
  /\ \A n \in notes :
       /\ pc[n.id] \in Past /\ input[n.id] \in Inputs
       /\ n.source = input[n.id].source

\* Where a request knows its package, and its account code.
HasPackage == (InTx \ {"found"}) \cup {"debugPut", "debugRow"}
HasAccount(r) ==
  \/ pc[r] \in {"component", "newComponent"}
  \/ pc[r] = "commit" /\ input[r].kind = "account"

\* Which input leads where.
InputOfStep(r) ==
  /\ pc[r] \notin {"out", "false"} => input[r] \in Inputs
  /\ pc[r] \in {"put", "package"} \cup InTx => input[r].kind # "debug"
  /\ pc[r] \in {"account", "newAccount", "component", "newComponent"} =>
       input[r].kind = "account"
  /\ pc[r] \in {"note", "newNote"} => input[r].kind = "note"

\* A request's package and account code are its own or a committed row's, with
\* its own commitment and root, whether or not that row is still there.
OwnOrFound(r) ==
  /\ pc[r] \in HasPackage =>
       /\ pkg[r] \in Requests
       /\ pkg[r] = r \/ pc[pkg[r]] \in Past
       /\ input[pkg[r]] \in Inputs
       /\ input[pkg[r]].commitment = input[r].commitment
  /\ pc[r] \notin HasPackage => pkg[r] = NoRow
  /\ HasAccount(r) =>
       /\ acct[r] \in Requests
       /\ acct[r] = r \/ pc[acct[r]] \in Past
       /\ input[acct[r]] \in Inputs
       /\ input[acct[r]].root = input[r].root
  /\ pc[r] \notin Past /\ ~HasAccount(r) => acct[r] = NoRow

\* An uncommitted row's key is nobody else's: what the unique indexes ensure.
NewPackageKey(r) ==
  NewPackage(r) =>
    /\ \A p \in packages : p.commitment # input[r].commitment
    /\ \A q \in Requests \ {r} :
         NewPackage(q) => input[q].commitment # input[r].commitment
NewAccountKey(r) ==
  NewAccount(r) =>
    /\ \A a \in accounts : a.root # input[r].root
    /\ \A q \in Requests \ {r} : NewAccount(q) => input[q].root # input[r].root
NewNote(r) == NewRecord(r) /\ input[r].kind = "note"
NewNoteKey(r) ==
  NewNote(r) =>
    /\ \A n \in notes : n.root # input[r].root
    /\ \A q \in Requests \ {r} : NewNote(q) => input[q].root # input[r].root

\* What an uncommitted record refers to is there, and the cleanup has not
\* deleted it: what the foreign keys and their locks ensure.
Locked(r) ==
  NewRecord(r) =>
    /\ pkg[r] # r => pkg[r] \in Ids(packages)
    /\ pkg[r] \notin cleanup.packages
    /\ input[r].kind = "account" =>
         /\ acct[r] # r => acct[r] \in Ids(accounts)
         /\ acct[r] \notin cleanup.accounts

OfRequests ==
  \A r \in Requests :
    /\ InputOfStep(r) /\ OwnOrFound(r) /\ Locked(r)
    /\ NewPackageKey(r) /\ NewAccountKey(r) /\ NewNoteKey(r)

\* What the cleanup's transaction has deleted: rows that are there, and all
\* that refers to them.
CleanupCoherent ==
  /\ cleanup.at # "idle" => cleanup.runs < Cleanups
  /\ cleanup.at # "commit" => cleanup.packages = {}
  /\ cleanup.at \notin {"packages", "sweepPackages", "commit"} => cleanup.accounts = {}
  /\ cleanup.at = "sweepAccounts" => cleanup.chosen \subseteq Ids(accounts)
  /\ cleanup.at = "sweepPackages" => cleanup.chosen \subseteq Ids(packages)
  /\ cleanup.packages \subseteq Ids(packages)
  /\ cleanup.accounts \subseteq Ids(accounts)
  /\ \A c \in components :
       c.account \in cleanup.accounts \/ c.package \in cleanup.packages =>
         c.id \in cleanup.components
  /\ \A n \in notes : n.package \in cleanup.packages => n.id \in cleanup.notes

\* Of the records that were there when it began, the cleanup has deleted, or is
\* about to, only expired ones of the playground's.
EarlierSpared ==
  /\ \A id \in cleanup.before.records : pc[id] \in Past
  /\ \A id \in cleanup.expired : pc[id] \in Past /\ input[id].source = Playground
  /\ \A c \in components :
       /\ c.id \in cleanup.before.records
       /\ \/ c.id \in cleanup.components
          \/ cleanup.at = "sweepAccounts" /\ c.account \in cleanup.chosen
          \/ cleanup.at = "sweepPackages" /\ c.package \in cleanup.chosen
       => c.id \in cleanup.expired
  /\ \A n \in notes :
       /\ n.id \in cleanup.before.records
       /\ \/ n.id \in cleanup.notes
          \/ cleanup.at = "sweepPackages" /\ n.package \in cleanup.chosen
       => n.id \in cleanup.expired

IInv ==
  /\ TypeOK /\ RowsOfRequests /\ OfRequests /\ CleanupCoherent /\ EarlierSpared
  /\ OneRowPerKey /\ ReferencesLive

-----------------------------------------------------------------------------
(* Lemmas about the operators of the model.                                *)

\* The statements that wait, and for whom (the CASEs of Registry, one by one).
LEMMA HoldersCases ==
  ASSUME NEW r
  PROVE  /\ pc[r] = "package" => Holders(r) =
              {q \in Requests \ {r} :
                 NewPackage(q) /\ input[q].commitment = input[r].commitment}
              \cup (IF Ids({p \in packages : p.commitment = input[r].commitment})
                         \cap cleanup.packages = {} THEN {} ELSE {Cleaner})
         /\ pc[r] = "newAccount" => Holders(r) =
              {q \in Requests \ {r} : NewAccount(q) /\ input[q].root = input[r].root}
              \cup (IF Ids({a \in accounts : a.root = input[r].root})
                         \cap cleanup.accounts = {} THEN {} ELSE {Cleaner})
         /\ pc[r] = "newComponent" => Holders(r) =
              (IF Ids({a \in accounts : a.id = acct[r]}) \cap cleanup.accounts = {}
               THEN {} ELSE {Cleaner})
              \cup (IF Ids({p \in packages : p.id = pkg[r]}) \cap cleanup.packages = {}
                    THEN {} ELSE {Cleaner})
         /\ pc[r] = "newNote" => Holders(r) =
              {q \in Requests \ {r} : NewRecord(q) /\ input[q].kind = "note"
                                                   /\ input[q].root = input[r].root}
              \cup (IF Ids({n \in notes : n.root = input[r].root}) \cap cleanup.notes = {}
                    THEN {} ELSE {Cleaner})
              \cup (IF Ids({p \in packages : p.id = pkg[r]}) \cap cleanup.packages = {}
                    THEN {} ELSE {Cleaner})
         /\ pc[r] = "debugRow" => Holders(r) =
              (IF Ids({p \in packages : p.id = pkg[r]}) \cap cleanup.packages = {}
               THEN {} ELSE {Cleaner})
         /\ pc[r] \notin {"package", "newAccount", "newComponent", "newNote", "debugRow"} =>
              Holders(r) = {}
<1>1. CASE pc[r] = "package"
  BY <1>1, Zenon DEF Holders
<1>2. CASE pc[r] = "newAccount"
  BY <1>2, Zenon DEF Holders
<1>3. CASE pc[r] = "newComponent"
  BY <1>3, Zenon DEF Holders
<1>4. CASE pc[r] = "newNote"
  BY <1>4, Zenon DEF Holders
<1>5. CASE pc[r] = "debugRow"
  BY <1>5, Zenon DEF Holders
<1>6. CASE pc[r] \notin {"package", "newAccount", "newComponent", "newNote", "debugRow"}
  BY <1>6, Zenon DEF Holders
<1> QED
  BY <1>1, <1>2, <1>3, <1>4, <1>5, <1>6

-----------------------------------------------------------------------------
(* The steps of a request up to its COMMIT: only unique indexes and foreign *)
(* keys see them.                                                           *)

LEMMA InitInv == Init => IInv
<1> SUFFICES ASSUME Init PROVE IInv
  OBVIOUS
<1> USE DEF Init
<1>1. TypeOK
  BY RegistryAssumption DEF TypeOK, Idle, Steps
<1>2. RowsOfRequests /\ OneRowPerKey /\ ReferencesLive
  BY DEF RowsOfRequests, OneRowPerKey, ReferencesLive
<1>3. OfRequests
  BY DEF OfRequests, InputOfStep, OwnOrFound, HasPackage, HasAccount, InTx, Locked, NewRecord,
         NewPackageKey, NewPackage, NewAccountKey, NewAccount, NewNoteKey, NewNote
<1>4. CleanupCoherent /\ EarlierSpared
  BY DEF CleanupCoherent, EarlierSpared, Idle, Ids
<1> QED
  BY <1>1, <1>2, <1>3, <1>4 DEF IInv

\* A step of r that changes no committed row and not the cleanup.
Moves(r) ==
  /\ UNCHANGED <<tables, cleanup>>
  /\ \A q \in Requests \ {r} :
       pc'[q] = pc[q] /\ input'[q] = input[q] /\ pkg'[q] = pkg[q] /\ acct'[q] = acct[q]
  /\ pc[r] \in Past => pc'[r] \in Past
  /\ pc[r] # "out" => input'[r] = input[r]

\* What such a step leaves alone.
LEMMA MovesFrame ==
  ASSUME IInv, NEW r \in Requests, Moves(r)
  PROVE  /\ RowsOfRequests' /\ CleanupCoherent' /\ EarlierSpared'
         /\ OneRowPerKey' /\ ReferencesLive'
         /\ \A q \in Requests \ {r} :
              InputOfStep(q)' /\ OwnOrFound(q)' /\ Locked(q)'
<1> USE DEF IInv
<1>1. \A q \in Requests : pc[q] \in Past => pc'[q] \in Past /\ input'[q] = input[q]
  BY DEF Moves, Past, Answers
<1>2. UNCHANGED <<packages, accounts, components, notes, cleanup>>
  BY DEF Moves, tables
<1>3. /\ \A p \in packages : p.id \in Requests
      /\ \A a \in accounts : a.id \in Requests
      /\ \A c \in components : c.id \in Requests
      /\ \A n \in notes : n.id \in Requests
      /\ cleanup.before.records \subseteq Requests /\ cleanup.expired \subseteq Requests
  BY DEF TypeOK, Package, Account, Component, Note
<1>4. RowsOfRequests'
  BY <1>1, <1>2, <1>3 DEF RowsOfRequests
<1>5. CleanupCoherent' /\ OneRowPerKey' /\ ReferencesLive'
  BY <1>2 DEF CleanupCoherent, OneRowPerKey, ReferencesLive
<1>6. EarlierSpared'
  BY <1>1, <1>2, <1>3 DEF EarlierSpared
<1>7. ASSUME NEW q \in Requests \ {r}
      PROVE  InputOfStep(q)' /\ OwnOrFound(q)' /\ Locked(q)'
  <2>1. pc'[q] = pc[q] /\ input'[q] = input[q] /\ pkg'[q] = pkg[q] /\ acct'[q] = acct[q]
    BY DEF Moves
  <2>2. InputOfStep(q)'
    BY <2>1 DEF OfRequests, InputOfStep
  <2>3. OwnOrFound(q)'
    BY <1>1, <2>1 DEF OfRequests, OwnOrFound, HasAccount
  <2>4. Locked(q)'
    BY <1>2, <2>1 DEF OfRequests, Locked, NewRecord
  <2> QED
    BY <2>2, <2>3, <2>4
<1> QED
  BY <1>4, <1>5, <1>6, <1>7

\* And nobody's keys are taken, when it inserts nothing.
LEMMA NoKeyTaken ==
  ASSUME IInv, NEW r \in Requests, Moves(r),
         NewPackage(r)' => NewPackage(r), NewAccount(r)' => NewAccount(r),
         NewNote(r)' => NewNote(r)
  PROVE  \A q \in Requests : NewPackageKey(q)' /\ NewAccountKey(q)' /\ NewNoteKey(q)'
<1> USE DEF IInv
<1>1. UNCHANGED <<packages, accounts, notes>>
  BY DEF Moves, tables
<1>2. \A q \in Requests :
        /\ NewPackage(q)' => NewPackage(q) /\ input'[q] = input[q]
        /\ NewAccount(q)' => NewAccount(q) /\ input'[q] = input[q]
        /\ NewNote(q)' => NewNote(q) /\ input'[q] = input[q]
  BY DEF Moves, NewPackage, NewAccount, NewNote, NewRecord, InTx
<1> HIDE DEF IInv
<1>3. \A q \in Requests : NewPackageKey(q) /\ NewAccountKey(q) /\ NewNoteKey(q)
  BY DEF IInv, OfRequests
<1> QED
  BY <1>1, <1>2, <1>3 DEF NewPackageKey, NewAccountKey, NewNoteKey

\* What is left to show of such a step.
LEMMA MovesInv ==
  ASSUME IInv, NEW r \in Requests, Moves(r), TypeOK',
         InputOfStep(r)', OwnOrFound(r)', Locked(r)',
         \A q \in Requests : NewPackageKey(q)' /\ NewAccountKey(q)' /\ NewNoteKey(q)'
  PROVE  IInv'
<1>1. RowsOfRequests' /\ CleanupCoherent' /\ EarlierSpared' /\ OneRowPerKey' /\ ReferencesLive'
  BY MovesFrame
<1>2. \A q \in Requests : InputOfStep(q)' /\ OwnOrFound(q)' /\ Locked(q)'
  BY MovesFrame
<1>3. OfRequests'
  BY <1>2 DEF OfRequests
<1> QED
  BY <1>1, <1>3 DEF IInv

\* What IInv says of one request.
LEMMA OfRequest ==
  ASSUME IInv, NEW r \in Requests
  PROVE  /\ InputOfStep(r) /\ OwnOrFound(r) /\ Locked(r)
         /\ NewPackageKey(r) /\ NewAccountKey(r) /\ NewNoteKey(r)
         /\ pc[r] \in Steps /\ pkg[r] \in Requests \cup {NoRow}
         /\ acct[r] \in Requests \cup {NoRow} /\ input[r] \in Inputs \cup {NoRow}
BY DEF IInv, OfRequests, TypeOK

\* A request that ends, rolled back, leaves nothing.
LEMMA RollbackInv ==
  ASSUME IInv, NEW r \in Requests, NEW answer \in Answers, pc[r] \notin {"out"} \cup Answers,
         Rollback(r, answer)
  PROVE  IInv'
<1> USE DEF Rollback, Answer, Goto
<1>1. TypeOK /\ InputOfStep(r)
  BY OfRequest DEF IInv
<1>2. pc'[r] = answer /\ pkg'[r] = NoRow /\ UNCHANGED input
  BY <1>1 DEF TypeOK
<1>3. Moves(r)
  BY <1>1, <1>2 DEF TypeOK, Moves, tables, Past
<1>4. TypeOK'
  BY <1>1 DEF TypeOK, tables, store, Steps
<1>5. answer \notin InTx \cup {"put", "package", "out", "debugPut", "debugRow"}
  BY DEF InTx, Answers
<1>6. InputOfStep(r)' /\ OwnOrFound(r)' /\ Locked(r)'
  BY <1>1, <1>2, <1>5
  DEF InputOfStep, OwnOrFound, HasPackage, HasAccount, Locked, NewRecord, InTx, Past, Answers
<1>7. ~NewPackage(r)' /\ ~NewAccount(r)' /\ ~NewNote(r)'
  BY <1>2, <1>5 DEF NewPackage, NewAccount, NewNote, NewRecord, InTx
<1> QED
  BY <1>3, <1>4, <1>6, <1>7, NoKeyTaken, MovesInv

LEMMA ArriveInv ==
  ASSUME IInv, NEW r \in Requests, Arrive(r)
  PROVE  IInv'
<1> USE DEF Arrive, Goto
<1>1. TypeOK /\ OwnOrFound(r) /\ InputOfStep(r)
  BY OfRequest DEF IInv
<1>2. /\ pc[r] = "out" /\ pc'[r] \in {"read", "false"}
      /\ pc'[r] = "read" => input'[r] \in Inputs
      /\ UNCHANGED <<pkg, acct, tables, cleanup>>
  BY <1>1 DEF TypeOK
<1>3. Moves(r)
  BY <1>1, <1>2 DEF TypeOK, Moves, Past, Answers
<1>4. TypeOK'
  BY <1>1 DEF TypeOK, tables, store, Steps, Answers
<1>5. InputOfStep(r)' /\ OwnOrFound(r)' /\ Locked(r)'
  BY <1>1, <1>2
  DEF InputOfStep, OwnOrFound, HasPackage, HasAccount, Locked, NewRecord, InTx, Past, Answers
<1>6. ~NewPackage(r)' /\ ~NewAccount(r)' /\ ~NewNote(r)'
  BY <1>2 DEF NewPackage, NewAccount, NewNote, NewRecord, InTx
<1> QED
  BY <1>3, <1>4, <1>5, <1>6, NoKeyTaken, MovesInv

LEMMA ReadStoredInv ==
  ASSUME IInv, NEW r \in Requests, ReadStored(r)
  PROVE  IInv'
<1> USE DEF ReadStored, Goto
<1>1. TypeOK /\ RowsOfRequests /\ OwnOrFound(r) /\ InputOfStep(r) /\ pc[r] = "read"
  BY OfRequest DEF IInv
<1>2. input[r] \in Inputs /\ input[r].kind \in {"account", "note", "debug"}
  BY <1>1, RegistryAssumption DEF InputOfStep
<1>3. CASE /\ Goto(r, IF input[r].kind = "debug" THEN "missing" ELSE "put")
           /\ UNCHANGED locals
  <2> USE <1>3 DEF locals
  <2>1. pc'[r] \in {"missing", "put"} /\ (pc'[r] = "put" => input[r].kind # "debug")
    BY <1>1 DEF TypeOK
  <2>2. Moves(r)
    BY <1>1, <2>1 DEF TypeOK, Moves, tables, Past, Answers
  <2>3. TypeOK'
    BY <1>1 DEF TypeOK, tables, store, Steps, Answers
  <2>4. InputOfStep(r)' /\ OwnOrFound(r)' /\ Locked(r)'
    BY <1>1, <1>2, <2>1
    DEF InputOfStep, OwnOrFound, HasPackage, HasAccount, Locked, NewRecord, InTx, Past, Answers
  <2>5. ~NewPackage(r)' /\ ~NewAccount(r)' /\ ~NewNote(r)'
    BY <2>1 DEF NewPackage, NewAccount, NewNote, NewRecord, InTx
  <2> QED
    BY <2>2, <2>3, <2>4, <2>5, NoKeyTaken, MovesInv
<1>4. CASE Answer(r, "ok")
  <2>1. Rollback(r, "ok")
    BY <1>4 DEF Rollback
  <2> QED
    BY <2>1, <1>1, RollbackInv DEF Answers
<1>5. ASSUME NEW p \in packages, p.commitment = input[r].commitment,
             pkg' = [pkg EXCEPT ![r] = p.id],
             debugged' = [debugged EXCEPT ![r] = p.debug],
             Goto(r, IF input[r].kind = "debug" THEN "debugPut" ELSE First(r)),
             UNCHANGED <<input, acct>>
      PROVE  IInv'
  <2>1. /\ pc'[r] \in {"debugPut", "account", "note"}
        /\ pc'[r] = "account" => input[r].kind = "account"
        /\ pc'[r] = "note" => input[r].kind = "note"
    BY <1>1, <1>2, <1>5 DEF TypeOK, First
  <2>2. /\ p.id \in Requests /\ pc[p.id] \in Past /\ input[p.id] \in Inputs
        /\ input[p.id].commitment = input[r].commitment /\ p.id # r
        /\ p.debug \in BOOLEAN
    BY <1>1, <1>5 DEF TypeOK, Package, RowsOfRequests, Past, Answers
  <2>3. pkg'[r] = p.id /\ pc'[p.id] = pc[p.id] /\ acct'[r] = acct[r]
    BY <1>1, <1>5, <2>2 DEF TypeOK
  <2>4. Moves(r)
    BY <1>1, <1>5 DEF TypeOK, Moves, tables, Past, Answers
  <2>5. TypeOK'
    BY <1>1, <1>5, <2>1, <2>2 DEF TypeOK, tables, store, Steps, InTx
  <2>6. InputOfStep(r)' /\ OwnOrFound(r)' /\ Locked(r)'
    BY <1>1, <1>2, <1>5, <2>1, <2>2, <2>3
    DEF InputOfStep, OwnOrFound, HasPackage, HasAccount, Locked, NewRecord, InTx, Past, Answers
  <2>7. ~NewPackage(r)' /\ ~NewAccount(r)' /\ ~NewNote(r)'
    <3>1. acct[r] = NoRow
      BY <1>1 DEF OwnOrFound, HasAccount, Past, Answers
    <3> QED
      BY <2>1, <2>2, <2>3, <3>1, RegistryAssumption DEF NewPackage, NewAccount, NewNote, NewRecord
  <2> QED
    BY <2>4, <2>5, <2>6, <2>7, NoKeyTaken, MovesInv
<1> QED
  BY <1>3, <1>4, <1>5

LEMMA PutReleaseInv ==
  ASSUME IInv, NEW r \in Requests, PutRelease(r)
  PROVE  IInv'
<1> USE DEF PutRelease, Goto
<1>1. TypeOK /\ OwnOrFound(r) /\ InputOfStep(r) /\ pc[r] = "put"
  BY OfRequest DEF IInv
<1>2. pc'[r] = "package" /\ UNCHANGED <<input, pkg, acct, tables, cleanup>>
  BY <1>1 DEF TypeOK, locals
<1>3. Moves(r)
  BY <1>1, <1>2 DEF TypeOK, Moves, Past, Answers
<1>4. TypeOK'
  BY <1>1, <1>2 DEF TypeOK, tables, store, locals, Steps, InTx, InputOfStep, Commitments
<1>5. InputOfStep(r)' /\ OwnOrFound(r)' /\ Locked(r)'
  BY <1>1, <1>2 DEF InputOfStep, OwnOrFound, HasPackage, HasAccount, Locked, NewRecord, InTx, Past, Answers
<1>6. ~NewPackage(r)' /\ ~NewAccount(r)' /\ ~NewNote(r)'
  BY <1>1, <1>2, RegistryAssumption
  DEF OwnOrFound, HasPackage, HasAccount, NewPackage, NewAccount, NewNote, NewRecord, InTx, Past,
      Answers
<1> QED
  BY <1>3, <1>4, <1>5, <1>6, NoKeyTaken, MovesInv

LEMMA PutDebugInv ==
  ASSUME IInv, NEW r \in Requests, PutDebug(r)
  PROVE  IInv'
<1> USE DEF PutDebug, Goto
<1>1. TypeOK /\ OwnOrFound(r) /\ InputOfStep(r) /\ pc[r] = "debugPut"
  BY OfRequest DEF IInv
<1>2. pc'[r] = "debugRow" /\ UNCHANGED <<input, pkg, acct, tables, cleanup>>
  BY <1>1 DEF TypeOK, locals
<1>3. Moves(r)
  BY <1>1, <1>2 DEF TypeOK, Moves, Past
<1>4. TypeOK'
  BY <1>1, <1>2 DEF TypeOK, tables, locals, Steps, InputOfStep, Commitments
<1>5. InputOfStep(r)' /\ OwnOrFound(r)' /\ Locked(r)'
  BY <1>1, <1>2 DEF InputOfStep, OwnOrFound, HasPackage, HasAccount, Locked, NewRecord, InTx, Past, Answers
<1>6. ~NewPackage(r)' /\ ~NewAccount(r)' /\ ~NewNote(r)'
  BY <1>2 DEF NewPackage, NewAccount, NewNote, NewRecord, InTx
<1> QED
  BY <1>3, <1>4, <1>5, <1>6, NoKeyTaken, MovesInv

\* The unique index on the commitment makes r's row the only one.
LEMMA InsertPackageInv ==
  ASSUME IInv, NEW r \in Requests, InsertPackage(r)
  PROVE  IInv'
<1> USE DEF InsertPackage, Goto
<1>1. TypeOK /\ OwnOrFound(r) /\ InputOfStep(r) /\ pc[r] = "package" /\ RowsOfRequests
  BY OfRequest DEF IInv
<1>2. /\ input[r] \in Inputs /\ input[r].kind \in {"account", "note"}
      /\ acct[r] = NoRow /\ pkg[r] = NoRow
      /\ UNCHANGED <<input, acct, tables, cleanup>>
  BY <1>1, RegistryAssumption DEF InputOfStep, OwnOrFound, HasPackage, HasAccount, Past, Answers, InTx
<1>3. CASE input[r].commitment \in {p.commitment : p \in packages}
  <2>1. pc'[r] = "found" /\ UNCHANGED pkg
    BY <1>1, <1>3 DEF TypeOK
  <2>2. Moves(r)
    BY <1>1, <1>2, <1>3 DEF TypeOK, Moves, Past, Answers
  <2>3. TypeOK'
    BY <1>1, <1>3 DEF TypeOK, tables, store, Steps, InTx
  <2>4. InputOfStep(r)' /\ OwnOrFound(r)' /\ Locked(r)'
    BY <1>1, <1>2, <2>1 DEF InputOfStep, OwnOrFound, HasPackage, HasAccount, Locked, NewRecord, InTx, Past, Answers
  <2>5. ~NewPackage(r)' /\ ~NewAccount(r)' /\ ~NewNote(r)'
    BY <1>2, <2>1, RegistryAssumption DEF NewPackage, NewAccount, NewNote, NewRecord
  <2> QED
    BY <2>2, <2>3, <2>4, <2>5, NoKeyTaken, MovesInv
<1>4. CASE input[r].commitment \notin {p.commitment : p \in packages}
  <2>1. pc'[r] = First(r) /\ pkg'[r] = r /\ First(r) \in {"account", "note"}
    BY <1>1, <1>4 DEF TypeOK, First
  <2>2. Moves(r)
    BY <1>1, <1>2, <1>4 DEF TypeOK, Moves, Past, Answers
  <2>3. TypeOK'
    BY <1>1, <1>4, <2>1 DEF TypeOK, tables, store, Steps, InTx
  <2>4. InputOfStep(r)' /\ OwnOrFound(r)' /\ Locked(r)'
    BY <1>1, <1>2, <2>1
    DEF First, InputOfStep, OwnOrFound, HasPackage, HasAccount, Locked, NewRecord, InTx, Past, Answers
  <2>5. ~NewAccount(r)' /\ ~NewNote(r)'
    BY <1>2, <2>1, RegistryAssumption DEF NewAccount, NewNote, NewRecord
  <2>6. \A q \in Requests \ {r} :
          /\ NewPackage(q)' <=> NewPackage(q)
          /\ NewAccount(q)' <=> NewAccount(q)
          /\ NewNote(q)' <=> NewNote(q)
          /\ input'[q] = input[q]
    BY <2>2 DEF Moves, NewPackage, NewAccount, NewNote, NewRecord
  <2>7. \A q \in Requests \ {r} :
          NewPackage(q) => input[q].commitment # input[r].commitment
    <3>1. Holders(r) = {}
      OBVIOUS
    <3> QED
      BY <3>1, <1>1, HoldersCases
  <2>8. \A p \in packages : p.commitment # input[r].commitment
    BY <1>4
  <2>9. \A q \in Requests : NewPackageKey(q)'
    <3>1. \A q \in Requests : NewPackageKey(q)
      BY OfRequest
    <3> QED
      BY <1>2, <2>6, <2>7, <2>8, <3>1 DEF NewPackageKey, tables
  <2>10. \A q \in Requests : NewAccountKey(q)' /\ NewNoteKey(q)'
    <3>1. \A q \in Requests : NewAccountKey(q) /\ NewNoteKey(q)
      BY OfRequest
    <3> QED
      BY <1>2, <2>5, <2>6, <3>1 DEF NewAccountKey, NewNoteKey, tables
  <2> QED
    BY <2>2, <2>3, <2>4, <2>9, <2>10, MovesInv
<1> QED
  BY <1>3, <1>4

LEMMA FindPackageInv ==
  ASSUME IInv, NEW r \in Requests, FindPackage(r)
  PROVE  IInv'
<1> USE DEF FindPackage, Goto
<1>1. TypeOK /\ OwnOrFound(r) /\ InputOfStep(r) /\ pc[r] = "found" /\ RowsOfRequests
  BY OfRequest DEF IInv
<1>2. /\ input[r] \in Inputs /\ input[r].kind \in {"account", "note"} /\ acct[r] = NoRow
  BY <1>1, RegistryAssumption DEF InputOfStep, OwnOrFound, HasAccount, Past, Answers, InTx
<1>3. ASSUME NEW p \in packages, p.commitment = input[r].commitment,
             pkg' = [pkg EXCEPT ![r] = p.id], Goto(r, First(r)),
             UNCHANGED <<tables, store, input, acct, debugged, cleanup>>
      PROVE  IInv'
  <2>1. /\ p.id \in Requests /\ pc[p.id] \in Past /\ input[p.id] \in Inputs
        /\ input[p.id].commitment = input[r].commitment /\ p.id # r
    BY <1>1, <1>3 DEF TypeOK, Package, RowsOfRequests, Past, Answers
  <2>2. /\ pc'[r] = First(r) /\ First(r) \in {"account", "note"} /\ pkg'[r] = p.id
        /\ pc'[p.id] = pc[p.id]
    BY <1>1, <1>3, <2>1 DEF TypeOK, First
  <2>3. Moves(r)
    BY <1>1, <1>3 DEF TypeOK, Moves, Past, Answers
  <2>4. TypeOK'
    BY <1>1, <1>3, <2>1, <2>2 DEF TypeOK, tables, store, Steps, InTx
  <2>5. InputOfStep(r)' /\ OwnOrFound(r)' /\ Locked(r)'
    BY <1>1, <1>2, <1>3, <2>1, <2>2
    DEF First, InputOfStep, OwnOrFound, HasPackage, HasAccount, Locked, NewRecord, InTx, Past, Answers
  <2>6. ~NewPackage(r)' /\ ~NewAccount(r)' /\ ~NewNote(r)'
    BY <1>2, <1>3, <2>1, <2>2, RegistryAssumption DEF NewPackage, NewAccount, NewNote, NewRecord
  <2> QED
    BY <2>3, <2>4, <2>5, <2>6, NoKeyTaken, MovesInv
<1>4. CASE Rollback(r, "failed")
  BY <1>1, <1>4, RollbackInv DEF Answers
<1> QED
  BY <1>3, <1>4

LEMMA FindAccountInv ==
  ASSUME IInv, NEW r \in Requests, FindAccount(r)
  PROVE  IInv'
<1> USE DEF FindAccount, Goto
<1>1. /\ TypeOK /\ OwnOrFound(r) /\ InputOfStep(r) /\ pc[r] = "account" /\ RowsOfRequests
      /\ UNCHANGED <<tables, store, input, pkg, debugged, cleanup>>
  BY OfRequest DEF IInv
<1>2. /\ input[r] \in Inputs /\ input[r].kind = "account" /\ acct[r] = NoRow
  BY <1>1 DEF InputOfStep, OwnOrFound, HasAccount, Past, Answers
<1>3. ASSUME NEW a \in accounts, a.root = input[r].root,
             acct' = [acct EXCEPT ![r] = a.id], Goto(r, "component")
      PROVE  IInv'
  <2>1. /\ a.id \in Requests /\ pc[a.id] \in Past /\ input[a.id] \in Inputs
        /\ input[a.id].root = input[r].root /\ a.id # r
    BY <1>1, <1>3 DEF TypeOK, Account, RowsOfRequests, Past, Answers
  <2>2. pc'[r] = "component" /\ acct'[r] = a.id /\ pc'[a.id] = pc[a.id]
    BY <1>1, <1>3, <2>1 DEF TypeOK
  <2>3. Moves(r)
    BY <1>1, <1>3 DEF TypeOK, Moves, Past, Answers
  <2>4. TypeOK'
    BY <1>1, <1>3, <2>1 DEF TypeOK, tables, store, Steps, InTx
  <2>5. InputOfStep(r)' /\ OwnOrFound(r)' /\ Locked(r)'
    <3>1. pkg[r] = r \/ pc'[pkg[r]] \in Past
      BY <1>1, <2>3 DEF OwnOrFound, HasPackage, InTx, Moves
    <3> QED
      BY <1>1, <1>2, <1>3, <2>1, <2>2, <3>1 DEF InputOfStep, OwnOrFound, HasPackage, HasAccount, Locked, NewRecord, InTx, Past, Answers
  <2>6. /\ NewPackage(r)' => NewPackage(r)
        /\ ~NewAccount(r)' /\ ~NewNote(r)'
    BY <1>1, <2>1, <2>2 DEF NewPackage, NewAccount, NewNote, NewRecord, InTx
  <2> QED
    BY <2>3, <2>4, <2>5, <2>6, NoKeyTaken, MovesInv
<1>4. CASE Goto(r, "newAccount") /\ UNCHANGED acct
  <2>2. pc'[r] = "newAccount"
    BY <1>1, <1>4 DEF TypeOK
  <2>3. Moves(r)
    BY <1>1, <1>4 DEF TypeOK, Moves, Past, Answers
  <2>4. TypeOK'
    BY <1>1, <1>4 DEF TypeOK, tables, store, Steps, InTx
  <2>5. InputOfStep(r)' /\ OwnOrFound(r)' /\ Locked(r)'
    <3>1. pkg[r] = r \/ pc'[pkg[r]] \in Past
      BY <1>1, <2>3 DEF OwnOrFound, HasPackage, InTx, Moves
    <3> QED
      BY <1>1, <1>2, <1>4, <2>2, <3>1 DEF InputOfStep, OwnOrFound, HasPackage, HasAccount, Locked, NewRecord, InTx, Past, Answers
  <2>6. /\ NewPackage(r)' => NewPackage(r)
        /\ ~NewAccount(r)' /\ ~NewNote(r)'
    BY <1>1, <1>2, <1>4, <2>2, RegistryAssumption
    DEF NewPackage, NewAccount, NewNote, NewRecord, InTx
  <2> QED
    BY <2>3, <2>4, <2>5, <2>6, NoKeyTaken, MovesInv
<1> QED
  BY <1>3, <1>4

\* The unique index on the root makes r's account code the only one.
LEMMA InsertAccountInv ==
  ASSUME IInv, NEW r \in Requests, InsertAccount(r)
  PROVE  IInv'
<1> USE DEF InsertAccount, Goto
<1>1. TypeOK /\ OwnOrFound(r) /\ InputOfStep(r) /\ pc[r] = "newAccount" /\ RowsOfRequests
  BY OfRequest DEF IInv
<1>2. input[r] \in Inputs /\ input[r].kind = "account"
  BY <1>1 DEF InputOfStep
<1>3. CASE input[r].root \in {a.root : a \in accounts}
  BY <1>1, <1>3, RollbackInv DEF Answers
<1>4. CASE input[r].root \notin {a.root : a \in accounts}
  <2>1. /\ acct' = [acct EXCEPT ![r] = r] /\ Goto(r, "component")
        /\ UNCHANGED <<tables, store, input, pkg, debugged, cleanup>>
        /\ pc'[r] = "component" /\ acct'[r] = r
    BY <1>1, <1>4 DEF TypeOK
  <2>2. Moves(r)
    BY <1>1, <2>1 DEF TypeOK, Moves, Past, Answers
  <2>3. TypeOK'
    BY <1>1, <2>1 DEF TypeOK, tables, store, Steps, InTx
  <2>4. InputOfStep(r)' /\ OwnOrFound(r)' /\ Locked(r)'
    <3>1. pkg[r] = r \/ pc'[pkg[r]] \in Past
      BY <1>1, <2>2 DEF OwnOrFound, HasPackage, InTx, Moves
    <3> QED
      BY <1>1, <1>2, <2>1, <3>1 DEF InputOfStep, OwnOrFound, HasPackage, HasAccount, Locked, NewRecord, InTx, Past, Answers
  <2>5. NewPackage(r)' <=> NewPackage(r)
    BY <1>1, <2>1 DEF NewPackage, InTx
  <2>6. \A q \in Requests \ {r} :
          /\ NewPackage(q)' <=> NewPackage(q)
          /\ NewAccount(q)' <=> NewAccount(q)
          /\ NewNote(q)' <=> NewNote(q)
          /\ input'[q] = input[q]
    BY <2>2 DEF Moves, NewPackage, NewAccount, NewNote, NewRecord
  <2>7. \A q \in Requests \ {r} : NewAccount(q) => input[q].root # input[r].root
    <3>1. Holders(r) = {}
      OBVIOUS
    <3> QED
      BY <3>1, <1>1, HoldersCases
  <2>8. \A a \in accounts : a.root # input[r].root
    BY <1>4
  <2>9. \A q \in Requests : NewAccountKey(q)'
    <3>1. \A q \in Requests : NewAccountKey(q)
      BY OfRequest
    <3> QED
      BY <2>1, <2>6, <2>7, <2>8, <3>1 DEF NewAccountKey, tables
  <2>10. \A q \in Requests : NewPackageKey(q)' /\ NewNoteKey(q)'
    <3>1. \A q \in Requests : NewPackageKey(q) /\ NewNoteKey(q)
      BY OfRequest
    <3>2. ~NewNote(r)'
      BY <2>1 DEF NewNote, NewRecord
    <3> QED
      BY <2>1, <2>5, <2>6, <3>1, <3>2 DEF NewPackageKey, NewNoteKey, tables
  <2> QED
    BY <2>2, <2>3, <2>4, <2>9, <2>10, MovesInv
<1> QED
  BY <1>3, <1>4

LEMMA FindComponentInv ==
  ASSUME IInv, NEW r \in Requests, FindComponent(r)
  PROVE  IInv'
<1> USE DEF FindComponent, Goto
<1>1. TypeOK /\ OwnOrFound(r) /\ InputOfStep(r) /\ pc[r] = "component"
  BY OfRequest DEF IInv
<1>2. CASE Rollback(r, "conflict")
  BY <1>1, <1>2, RollbackInv DEF Answers
<1>3. CASE Goto(r, "newComponent") /\ UNCHANGED <<tables, store, locals, cleanup>>
  <2>1. pc'[r] = "newComponent" /\ UNCHANGED <<input, pkg, acct, debugged>>
    BY <1>1, <1>3 DEF TypeOK, locals
  <2>2. Moves(r)
    BY <1>1, <1>3, <2>1 DEF TypeOK, Moves, Past, Answers
  <2>3. TypeOK'
    BY <1>1, <1>3, <2>1 DEF TypeOK, tables, store, Steps, InTx
  <2>4. InputOfStep(r)' /\ OwnOrFound(r)' /\ Locked(r)'
    <3>1. /\ pkg[r] = r \/ pc'[pkg[r]] \in Past
          /\ acct[r] = r \/ pc'[acct[r]] \in Past
      BY <1>1, <2>2 DEF OwnOrFound, HasPackage, HasAccount, InTx, Moves
    <3> QED
      BY <1>1, <2>1, <3>1 DEF InputOfStep, OwnOrFound, HasPackage, HasAccount, Locked, NewRecord, InTx, Past, Answers
  <2>5. /\ NewPackage(r)' => NewPackage(r)
        /\ NewAccount(r)' => NewAccount(r)
        /\ ~NewNote(r)'
    BY <1>1, <2>1 DEF NewPackage, NewAccount, NewNote, NewRecord, InTx
  <2> QED
    BY <2>2, <2>3, <2>4, <2>5, NoKeyTaken, MovesInv
<1> QED
  BY <1>2, <1>3

\* The foreign keys find both rows, and lock them.
LEMMA InsertComponentInv ==
  ASSUME IInv, NEW r \in Requests, InsertComponent(r)
  PROVE  IInv'
<1> USE DEF InsertComponent, Goto
<1>1. /\ TypeOK /\ OwnOrFound(r) /\ InputOfStep(r) /\ pc[r] = "newComponent"
      /\ RowsOfRequests /\ CleanupCoherent
  BY OfRequest DEF IInv
<1>2. CASE Rollback(r, "failed")
  BY <1>1, <1>2, RollbackInv DEF Answers
<1>3. CASE /\ AccountExists(r) /\ PackageExists(r)
           /\ Goto(r, "commit") /\ UNCHANGED <<tables, store, locals, cleanup>>
  <2>1. pc'[r] = "commit" /\ UNCHANGED <<input, pkg, acct, debugged>>
    BY <1>1, <1>3 DEF TypeOK, locals
  <2>2. Moves(r)
    BY <1>1, <1>3, <2>1 DEF TypeOK, Moves, Past, Answers
  <2>3. TypeOK'
    BY <1>1, <1>3, <2>1 DEF TypeOK, tables, store, Steps, InTx
  <2>4. r \notin Ids(packages) /\ r \notin Ids(accounts)
    BY <1>1 DEF RowsOfRequests, Ids, Past, Answers
  <2>5. /\ Ids({a \in accounts : a.id = acct[r]}) \cap cleanup.accounts = {}
        /\ Ids({p \in packages : p.id = pkg[r]}) \cap cleanup.packages = {}
    <3>1. Holders(r) = {}
      OBVIOUS
    <3> QED
      BY <3>1, <1>1, HoldersCases
  <2>6. acct[r] \notin cleanup.accounts /\ pkg[r] \notin cleanup.packages
    BY <1>1, <1>3, <2>4, <2>5 DEF CleanupCoherent, AccountExists, PackageExists, Ids
  <2>7. Locked(r)'
    BY <1>3, <2>1, <2>6 DEF Locked, AccountExists, PackageExists, tables
  <2>8. InputOfStep(r)' /\ OwnOrFound(r)'
    <3>1. /\ pkg[r] = r \/ pc'[pkg[r]] \in Past
          /\ acct[r] = r \/ pc'[acct[r]] \in Past
      BY <1>1, <2>2 DEF OwnOrFound, HasPackage, HasAccount, InTx, Moves
    <3> QED
      BY <1>1, <2>1, <3>1 DEF InputOfStep, OwnOrFound, HasPackage, HasAccount, Locked, NewRecord, InTx, Past, Answers
  <2>9. /\ NewPackage(r)' => NewPackage(r)
        /\ NewAccount(r)' => NewAccount(r)
        /\ ~NewNote(r)'
    BY <1>1, <2>1 DEF NewPackage, NewAccount, NewNote, NewRecord, InTx, InputOfStep
  <2> QED
    BY <2>2, <2>3, <2>7, <2>8, <2>9, NoKeyTaken, MovesInv
<1> QED
  BY <1>2, <1>3

LEMMA FindNoteInv ==
  ASSUME IInv, NEW r \in Requests, FindNote(r)
  PROVE  IInv'
<1> USE DEF FindNote, Goto
<1>1. TypeOK /\ OwnOrFound(r) /\ InputOfStep(r) /\ pc[r] = "note"
  BY OfRequest DEF IInv
<1>2. CASE Rollback(r, "conflict")
  BY <1>1, <1>2, RollbackInv DEF Answers
<1>3. CASE Goto(r, "newNote") /\ UNCHANGED <<tables, store, locals, cleanup>>
  <2>1. pc'[r] = "newNote" /\ UNCHANGED <<input, pkg, acct, debugged>>
    BY <1>1, <1>3 DEF TypeOK, locals
  <2>2. Moves(r)
    BY <1>1, <1>3, <2>1 DEF TypeOK, Moves, Past, Answers
  <2>3. TypeOK'
    BY <1>1, <1>3, <2>1 DEF TypeOK, tables, store, Steps, InTx
  <2>4. InputOfStep(r)' /\ OwnOrFound(r)' /\ Locked(r)'
    <3>1. pkg[r] = r \/ pc'[pkg[r]] \in Past
      BY <1>1, <2>2 DEF OwnOrFound, HasPackage, InTx, Moves
    <3> QED
      BY <1>1, <2>1, <3>1 DEF InputOfStep, OwnOrFound, HasPackage, HasAccount, Locked, NewRecord, InTx, Past, Answers
  <2>5. /\ NewPackage(r)' => NewPackage(r)
        /\ NewAccount(r)' => NewAccount(r)
        /\ ~NewNote(r)'
    BY <1>1, <2>1 DEF NewPackage, NewAccount, NewNote, NewRecord, InTx
  <2> QED
    BY <2>2, <2>3, <2>4, <2>5, NoKeyTaken, MovesInv
<1> QED
  BY <1>2, <1>3

\* The unique index on the root and the foreign key, both.
LEMMA InsertNoteInv ==
  ASSUME IInv, NEW r \in Requests, InsertNote(r)
  PROVE  IInv'
<1> USE DEF InsertNote, Goto
<1>1. /\ TypeOK /\ OwnOrFound(r) /\ InputOfStep(r) /\ pc[r] = "newNote"
      /\ RowsOfRequests /\ CleanupCoherent
  BY OfRequest DEF IInv
<1>2. CASE Rollback(r, "failed")
  BY <1>1, <1>2, RollbackInv DEF Answers
<1>3. CASE /\ input[r].root \notin {n.root : n \in notes} /\ PackageExists(r)
           /\ Goto(r, "commit") /\ UNCHANGED <<tables, store, locals, cleanup>>
  <2>1. pc'[r] = "commit" /\ UNCHANGED <<input, pkg, acct, debugged>> /\ input[r].kind = "note"
    BY <1>1, <1>3 DEF TypeOK, locals, InputOfStep
  <2>2. Moves(r)
    BY <1>1, <1>3, <2>1 DEF TypeOK, Moves, Past, Answers
  <2>3. TypeOK'
    BY <1>1, <1>3, <2>1 DEF TypeOK, tables, store, Steps, InTx
  <2>4. /\ Ids({p \in packages : p.id = pkg[r]}) \cap cleanup.packages = {}
        /\ \A q \in Requests \ {r} : NewNote(q) => input[q].root # input[r].root
    <3>1. Holders(r) = {}
      OBVIOUS
    <3> QED
      BY <3>1, <1>1, HoldersCases DEF NewNote
  <2>5. pkg[r] \notin cleanup.packages
    <3>1. r \notin Ids(packages)
      BY <1>1 DEF RowsOfRequests, Ids, Past, Answers
    <3> QED
      BY <1>1, <1>3, <2>4, <3>1 DEF CleanupCoherent, PackageExists, Ids
  <2>6. Locked(r)'
    BY <1>3, <2>1, <2>5 DEF Locked, PackageExists, tables
  <2>7. InputOfStep(r)' /\ OwnOrFound(r)'
    <3>1. pkg[r] = r \/ pc'[pkg[r]] \in Past
      BY <1>1, <2>2 DEF OwnOrFound, HasPackage, InTx, Moves
    <3> QED
      BY <1>1, <2>1, <3>1 DEF InputOfStep, OwnOrFound, HasPackage, HasAccount, Locked, NewRecord, InTx, Past, Answers
  <2>8. /\ NewPackage(r)' <=> NewPackage(r)
        /\ NewAccount(r)' <=> NewAccount(r)
    BY <1>1, <2>1 DEF NewPackage, NewAccount, InTx
  <2>9. \A q \in Requests \ {r} :
          /\ NewPackage(q)' <=> NewPackage(q)
          /\ NewAccount(q)' <=> NewAccount(q)
          /\ NewNote(q)' <=> NewNote(q)
          /\ input'[q] = input[q]
    BY <2>2 DEF Moves, NewPackage, NewAccount, NewNote, NewRecord
  <2>10. \A q \in Requests : NewPackageKey(q)' /\ NewAccountKey(q)'
    <3>1. \A q \in Requests : NewPackageKey(q) /\ NewAccountKey(q)
      BY OfRequest
    <3> QED
      BY <1>3, <2>1, <2>8, <2>9, <3>1 DEF NewPackageKey, NewAccountKey, tables
  <2>11. \A q \in Requests : NewNoteKey(q)'
    <3>1. \A q \in Requests : NewNoteKey(q)
      BY OfRequest
    <3>2. \A n \in notes : n.root # input[r].root
      BY <1>3
    <3> QED
      BY <1>3, <2>1, <2>4, <2>9, <3>1, <3>2 DEF NewNoteKey, tables
  <2> QED
    BY <2>2, <2>3, <2>6, <2>7, <2>10, <2>11, MovesInv
<1> QED
  BY <1>2, <1>3

LEMMA FailsInv ==
  ASSUME IInv, NEW r \in Requests, Fails(r)
  PROVE  IInv'
<1>1. PICK answer \in {"failed", "ok"} : Rollback(r, answer)
  BY DEF Fails
<1>2. pc[r] \notin {"out"} \cup Answers
  BY DEF Fails, InTx, Answers
<1> QED
  BY <1>1, <1>2, RollbackInv DEF Answers

-----------------------------------------------------------------------------
(* COMMIT, and the debug build's UPDATE.                                    *)

\* After its commit r holds no key and no lock.
LEMMA CommittedRequest ==
  ASSUME IInv, NEW r \in Requests, Commit(r)
  PROVE  /\ input' = input
         /\ \A q \in Requests \ {r} : pc'[q] = pc[q] /\ pkg'[q] = pkg[q] /\ acct'[q] = acct[q]
         /\ pc'[r] \in {"ok", "failed", "debugPut"}
         /\ pc'[r] = "debugPut" => pkg'[r] = pkg[r] /\ acct'[r] = acct[r]
         /\ pc'[r] # "debugPut" => pkg'[r] = NoRow /\ acct'[r] = NoRow
         /\ pc' \in [Requests -> Steps] /\ debugged' \in [Requests -> BOOLEAN]
         /\ pkg' \in [Requests -> Requests \cup {NoRow}]
         /\ acct' \in [Requests -> Requests \cup {NoRow}]
BY DEF IInv, TypeOK, Commit, Answer, Goto, locals, Steps, Answers

\* The rows r publishes.
PackageOf(r) == [id |-> r, commitment |-> input[r].commitment, debug |-> FALSE]
AccountOf(r) == [id |-> r, root |-> input[r].root]
ComponentOf(r) ==
  [id |-> r, account |-> acct[r], package |-> pkg[r],
   commitment |-> input[r].commitment, source |-> input[r].source]
NoteOf(r) ==
  [id |-> r, root |-> input[r].root, package |-> pkg[r], source |-> input[r].source]

\* Their columns.
LEMMA Columns ==
  ASSUME NEW r
  PROVE  /\ PackageOf(r).id = r /\ PackageOf(r).commitment = input[r].commitment
         /\ AccountOf(r).id = r /\ AccountOf(r).root = input[r].root
         /\ ComponentOf(r).id = r /\ ComponentOf(r).account = acct[r]
         /\ ComponentOf(r).package = pkg[r] /\ ComponentOf(r).source = input[r].source
         /\ ComponentOf(r).commitment = input[r].commitment
         /\ NoteOf(r).id = r /\ NoteOf(r).package = pkg[r]
         /\ NoteOf(r).root = input[r].root /\ NoteOf(r).source = input[r].source
BY DEF PackageOf, AccountOf, ComponentOf, NoteOf

\* They are typed and there is one record, with its package and account code.
LEMMA PublishedRows ==
  ASSUME IInv, NEW r \in Requests, Commit(r)
  PROVE  /\ input[r] \in Inputs /\ input[r].kind \in {"account", "note"}
         /\ pc[r] = "commit" /\ Locked(r) /\ OwnOrFound(r)
         /\ packages' = IF NewPackage(r) THEN packages \cup {PackageOf(r)} ELSE packages
         /\ accounts' = IF NewAccount(r) THEN accounts \cup {AccountOf(r)} ELSE accounts
         /\ components' = IF NewNote(r) THEN components ELSE components \cup {ComponentOf(r)}
         /\ notes' = IF NewNote(r) THEN notes \cup {NoteOf(r)} ELSE notes
         /\ PackageOf(r) \in Package /\ AccountOf(r) \in Account
         /\ ~NewNote(r) => /\ ComponentOf(r) \in Component
                           /\ input[r].kind = "account" /\ HasAccount(r)
         /\ NewNote(r) => NoteOf(r) \in Note
<1>1. pc[r] = "commit" /\ InputOfStep(r) /\ OwnOrFound(r) /\ Locked(r)
  BY OfRequest DEF Commit
<1>2. input[r] \in Inputs /\ input[r].kind \in {"account", "note"} /\ pkg[r] \in Requests
  BY <1>1, RegistryAssumption DEF InputOfStep, OwnOrFound, HasPackage, InTx
<1>3. input[r].kind = "account" => acct[r] \in Requests
  BY <1>1 DEF OwnOrFound, HasAccount
<1>4. input[r].kind = "note" => acct[r] = NoRow
  BY <1>1 DEF OwnOrFound, HasAccount, Past, Answers
<1>5. /\ input[r].commitment \in Commitments /\ input[r].root \in Roots
      /\ input[r].source \in Sources
  BY <1>2 DEF Commitments, Roots, Sources
<1>6. /\ NewPackage(r) <=> pkg[r] = r
      /\ NewAccount(r) <=> (input[r].kind = "account" /\ acct[r] = r)
      /\ NewNote(r) <=> input[r].kind = "note"
  BY <1>1, <1>2, <1>4, RegistryAssumption DEF NewPackage, NewAccount, NewNote, NewRecord, InTx
<1>7. /\ packages' = IF NewPackage(r) THEN packages \cup {PackageOf(r)} ELSE packages
      /\ accounts' = IF NewAccount(r) THEN accounts \cup {AccountOf(r)} ELSE accounts
      /\ components' = IF NewNote(r) THEN components ELSE components \cup {ComponentOf(r)}
      /\ notes' = IF NewNote(r) THEN notes \cup {NoteOf(r)} ELSE notes
  BY <1>2, <1>6 DEF Commit, PublishPackage, PublishAccountComponent, PublishNote,
     PackageOf, AccountOf, ComponentOf, NoteOf
<1>8. /\ PackageOf(r) \in Package /\ AccountOf(r) \in Account
      /\ ~NewNote(r) => ComponentOf(r) \in Component
      /\ NewNote(r) => NoteOf(r) \in Note
  BY <1>2, <1>3, <1>5, <1>6
  DEF Package, Account, Component, Note, PackageOf, AccountOf, ComponentOf, NoteOf
<1> QED
  BY <1>1, <1>2, <1>6, <1>7, <1>8 DEF HasAccount

LEMMA CommitInv ==
  ASSUME IInv, NEW r \in Requests, Commit(r)
  PROVE  IInv'
<1>1. TypeOK /\ RowsOfRequests /\ CleanupCoherent /\ EarlierSpared /\ OneRowPerKey /\ ReferencesLive
  BY DEF IInv
<1>2. UNCHANGED <<releases, debugs, cleanup, input>>
  BY CommittedRequest DEF Commit, store
<1>3. TypeOK'
  <2>1. packages' \subseteq Package /\ accounts' \subseteq Account
        /\ components' \subseteq Component /\ notes' \subseteq Note
    BY <1>1, PublishedRows DEF TypeOK
  <2> QED
    BY <2>1, <1>1, <1>2, CommittedRequest DEF TypeOK
<1>4. pc[r] \notin Past /\ pc'[r] \in Past /\ pc'[r] \notin InTx
  BY PublishedRows, CommittedRequest DEF Past, Answers, InTx
<1>5. \A q \in Requests : pc[q] \in Past => pc'[q] \in Past
  BY <1>4, CommittedRequest
<1>6. RowsOfRequests'
  <2>1. /\ \A p \in packages : p.id \in Requests
        /\ \A a \in accounts : a.id \in Requests
        /\ \A c \in components : c.id \in Requests
        /\ \A n \in notes : n.id \in Requests
    BY <1>1 DEF TypeOK, Package, Account, Component, Note
  <2>2. \A p \in packages' :
          pc'[p.id] \in Past /\ input[p.id] \in Inputs /\ p.commitment = input[p.id].commitment
    BY <1>1, <1>4, <1>5, <2>1, PublishedRows, Columns DEF RowsOfRequests
  <2>3. \A a \in accounts' :
          pc'[a.id] \in Past /\ input[a.id] \in Inputs /\ a.root = input[a.id].root
    BY <1>1, <1>4, <1>5, <2>1, PublishedRows, Columns DEF RowsOfRequests
  <2>4. \A c \in components' :
          pc'[c.id] \in Past /\ input[c.id] \in Inputs /\ c.source = input[c.id].source
    BY <1>1, <1>4, <1>5, <2>1, PublishedRows, Columns DEF RowsOfRequests
  <2>5. \A n \in notes' :
          pc'[n.id] \in Past /\ input[n.id] \in Inputs /\ n.source = input[n.id].source
    BY <1>1, <1>4, <1>5, <2>1, PublishedRows, Columns DEF RowsOfRequests
  <2> QED
    BY <1>2, <2>2, <2>3, <2>4, <2>5 DEF RowsOfRequests
<1>7. OfRequests'
  <2>1. ~NewPackage(r)' /\ ~NewAccount(r)' /\ ~NewNote(r)' /\ ~NewRecord(r)'
    BY <1>4 DEF NewPackage, NewAccount, NewNote, NewRecord, InTx
  <2>2. InputOfStep(r)' /\ OwnOrFound(r)'
    <3>1. InputOfStep(r) /\ OwnOrFound(r)
      BY OfRequest
    <3> QED
      BY <1>2, <1>4, <3>1, PublishedRows, CommittedRequest
      DEF InputOfStep, OwnOrFound, HasPackage, HasAccount, InTx, Past, Answers
  <2>3. ASSUME NEW q \in Requests \ {r}
        PROVE  InputOfStep(q)' /\ OwnOrFound(q)' /\ Locked(q)'
    <3>1. /\ pc'[q] = pc[q] /\ input'[q] = input[q] /\ pkg'[q] = pkg[q] /\ acct'[q] = acct[q]
          /\ InputOfStep(q) /\ OwnOrFound(q) /\ Locked(q)
      BY <1>2, CommittedRequest, OfRequest
    <3>2. InputOfStep(q)' /\ OwnOrFound(q)'
      BY <1>2, <1>5, <3>1 DEF InputOfStep, OwnOrFound, HasAccount
    <3>3. Ids(packages) \subseteq Ids(packages') /\ Ids(accounts) \subseteq Ids(accounts')
      BY PublishedRows DEF Ids
    <3>4. Locked(q)'
      BY <1>2, <3>1, <3>3 DEF Locked, NewRecord, Ids
    <3> QED
      BY <3>2, <3>4
  <2>4. ASSUME NEW q \in Requests
        PROVE  NewPackageKey(q)' /\ NewAccountKey(q)' /\ NewNoteKey(q)'
    <3>1. \A s \in Requests :
            /\ NewPackage(s)' => NewPackage(s) /\ s # r
            /\ NewAccount(s)' => NewAccount(s) /\ s # r
            /\ NewNote(s)' => NewNote(s) /\ s # r
      BY <1>2, <2>1, CommittedRequest DEF NewPackage, NewAccount, NewNote, NewRecord
    <3>2. /\ NewPackageKey(q) /\ NewAccountKey(q) /\ NewNoteKey(q)
      BY OfRequest
    <3>4. NewPackageKey(q)'
      BY <1>2, <3>1, <3>2, PublishedRows, Columns DEF NewPackageKey
    <3>5. NewAccountKey(q)'
      BY <1>2, <3>1, <3>2, PublishedRows, Columns DEF NewAccountKey
    <3>6. NewNoteKey(q)'
      BY <1>2, <3>1, <3>2, PublishedRows, Columns DEF NewNoteKey
    <3> QED
      BY <3>4, <3>5, <3>6
  <2> QED
    BY <2>1, <2>2, <2>3, <2>4 DEF OfRequests, Locked
<1>8. CleanupCoherent'
  <2>1. Ids(packages) \subseteq Ids(packages)' /\ Ids(accounts) \subseteq Ids(accounts)'
    BY PublishedRows DEF Ids
  <2>2. \A c \in components' :
          c.account \in cleanup.accounts \/ c.package \in cleanup.packages =>
            c.id \in cleanup.components
    BY <1>1, PublishedRows, Columns DEF CleanupCoherent, Locked, NewRecord
  <2>3. \A n \in notes' : n.package \in cleanup.packages => n.id \in cleanup.notes
    BY <1>1, PublishedRows, Columns DEF CleanupCoherent, Locked, NewRecord
  <2> QED
    BY <1>1, <1>2, <2>1, <2>2, <2>3 DEF CleanupCoherent
<1>9. EarlierSpared'
  <2>1. /\ cleanup.before.records \subseteq Requests /\ cleanup.expired \subseteq Requests
        /\ r \notin cleanup.before.records
    BY <1>1, <1>4 DEF TypeOK, EarlierSpared
  <2> QED
    BY <1>1, <1>2, <1>5, <2>1, PublishedRows, Columns DEF EarlierSpared
<1>10. OneRowPerKey'
  <2>1. NewPackageKey(r) /\ NewAccountKey(r) /\ NewNoteKey(r)
    BY OfRequest
  <2>2. \A p, q \in packages' : p.commitment = q.commitment => p = q
    BY <1>1, <2>1, PublishedRows, Columns DEF OneRowPerKey, NewPackageKey
  <2>3. \A a, b \in accounts' : a.root = b.root => a = b
    BY <1>1, <2>1, PublishedRows, Columns DEF OneRowPerKey, NewAccountKey
  <2>4. \A m, n \in notes' : m.root = n.root => m = n
    BY <1>1, <2>1, PublishedRows, Columns DEF OneRowPerKey, NewNoteKey
  <2> QED
    BY <2>2, <2>3, <2>4 DEF OneRowPerKey
<1>11. ReferencesLive'
  <2>1. packages \subseteq packages' /\ Ids(accounts) \subseteq Ids(accounts')
    BY PublishedRows DEF Ids
  <2>2. \E p \in packages' : p.id = pkg[r] /\ p.commitment = input[r].commitment
    <3>1. CASE pkg[r] = r
      BY <3>1, PublishedRows, Columns DEF NewPackage, InTx
    <3>2. CASE pkg[r] # r
      <4>1. PICK p \in packages : p.id = pkg[r]
        BY <3>2, PublishedRows DEF Locked, NewRecord, Ids
      <4>2. p.commitment = input[r].commitment
        BY <1>1, <4>1, PublishedRows DEF RowsOfRequests, OwnOrFound, HasPackage, InTx
      <4> QED
        BY <2>1, <4>1, <4>2
    <3> QED
      BY <3>1, <3>2
  <2>3. ~NewNote(r) => acct[r] \in Ids(accounts')
    <3>1. CASE acct[r] = r
      BY <3>1, PublishedRows, Columns DEF NewAccount, InTx, Ids
    <3>2. CASE acct[r] # r
      BY <2>1, <3>2, PublishedRows DEF Locked, NewRecord
    <3> QED
      BY <3>1, <3>2
  <2>4. \A c \in components' :
          /\ c.account \in Ids(accounts')
          /\ \E p \in packages' : p.id = c.package /\ p.commitment = c.commitment
    BY <1>1, <2>1, <2>2, <2>3, PublishedRows, Columns DEF ReferencesLive
  <2>5. \A n \in notes' : n.package \in Ids(packages')
    BY <1>1, <2>1, <2>2, PublishedRows, Columns DEF ReferencesLive, Ids
  <2> QED
    BY <2>4, <2>5 DEF ReferencesLive, Ids
<1> QED
  BY <1>3, <1>6, <1>7, <1>8, <1>9, <1>10, <1>11 DEF IInv

LEMMA UpdatePackageInv ==
  ASSUME IInv, NEW r \in Requests, UpdatePackage(r)
  PROVE  IInv'
<1>1. TypeOK /\ RowsOfRequests /\ CleanupCoherent /\ EarlierSpared /\ OneRowPerKey /\ ReferencesLive
  BY DEF IInv
<1>2. /\ pc[r] = "debugRow" /\ pc' = [pc EXCEPT ![r] = "ok"]
      /\ pkg' = [pkg EXCEPT ![r] = NoRow] /\ acct' = [acct EXCEPT ![r] = NoRow]
      /\ debugged' = [debugged EXCEPT ![r] = FALSE]
      /\ UNCHANGED <<input, accounts, components, notes, releases, debugs, cleanup>>
  BY DEF UpdatePackage, Answer, Goto, store
<1>3. /\ \A p \in packages' : /\ p \in Package
                              /\ \E q \in packages : p.id = q.id /\ p.commitment = q.commitment
      /\ \A q \in packages :
           \E p \in packages' : p.id = q.id /\ p.commitment = q.commitment
  <2>1. \A q \in packages : q \in Package
    BY <1>1 DEF TypeOK
  <2>2. \A q \in packages :
          LET p == IF q.id = pkg[r] THEN [q EXCEPT !.debug = TRUE] ELSE q
          IN  p \in Package /\ p.id = q.id /\ p.commitment = q.commitment
    BY <2>1 DEF Package
  <2>3. packages' = {IF p.id = pkg[r] THEN [p EXCEPT !.debug = TRUE] ELSE p : p \in packages}
    BY DEF UpdatePackage
  <2> QED
    BY <2>2, <2>3
<1>4. Ids(packages') = Ids(packages)
  BY <1>3 DEF Ids
<1>5. \A p, q \in packages' : p.commitment = q.commitment => p = q
  <2> SUFFICES ASSUME NEW p \in packages', NEW q \in packages', p.commitment = q.commitment
               PROVE  p = q
    OBVIOUS
  <2> DEFINE updated(o) == IF o.id = pkg[r] THEN [o EXCEPT !.debug = TRUE] ELSE o
  <2>1. PICK old \in packages : p = updated(old)
    BY DEF UpdatePackage
  <2>2. PICK other \in packages : q = updated(other)
    BY DEF UpdatePackage
  <2>3. \A o \in packages : updated(o).commitment = o.commitment
    BY <1>1 DEF TypeOK, Package
  <2> HIDE DEF updated
  <2>4. old.commitment = other.commitment
    BY <2>1, <2>2, <2>3
  <2>5. old = other
    BY <1>1, <2>4 DEF OneRowPerKey
  <2> QED
    BY <2>1, <2>2, <2>5
<1>6. TypeOK'
  BY <1>1, <1>2, <1>3 DEF TypeOK, Steps, Answers
<1>7. \A q \in Requests : pc[q] \in Past => pc'[q] \in Past
  BY <1>1, <1>2 DEF TypeOK, Past, Answers
<1>8. RowsOfRequests'
  <2>1. /\ \A p \in packages : p.id \in Requests
        /\ \A a \in accounts : a.id \in Requests
        /\ \A c \in components : c.id \in Requests
        /\ \A n \in notes : n.id \in Requests
    BY <1>1 DEF TypeOK, Package, Account, Component, Note
  <2>2. \A p \in packages' :
          pc'[p.id] \in Past /\ input[p.id] \in Inputs /\ p.commitment = input[p.id].commitment
    BY <1>1, <1>3, <1>7, <2>1 DEF RowsOfRequests
  <2> QED
    BY <1>1, <1>2, <1>7, <2>1, <2>2 DEF RowsOfRequests
<1>9. OfRequests'
  <2>1. /\ pc'[r] = "ok" /\ pkg'[r] = NoRow
        /\ \A q \in Requests \ {r} :
             pc'[q] = pc[q] /\ input'[q] = input[q] /\ pkg'[q] = pkg[q] /\ acct'[q] = acct[q]
    BY <1>1, <1>2 DEF TypeOK
  <2>2. ~NewPackage(r)' /\ ~NewAccount(r)' /\ ~NewNote(r)' /\ ~NewRecord(r)'
    BY <2>1 DEF NewPackage, NewAccount, NewNote, NewRecord, InTx
  <2>3. InputOfStep(r)' /\ OwnOrFound(r)'
    <3>1. InputOfStep(r)
      BY OfRequest
    <3> QED
      BY <1>2, <2>1, <3>1 DEF InputOfStep, OwnOrFound, HasPackage, HasAccount, InTx, Past, Answers
  <2>4. ASSUME NEW q \in Requests \ {r}
        PROVE  InputOfStep(q)' /\ OwnOrFound(q)' /\ Locked(q)'
    <3>1. InputOfStep(q) /\ OwnOrFound(q) /\ Locked(q)
      BY OfRequest
    <3>2. InputOfStep(q)' /\ OwnOrFound(q)'
      BY <1>2, <1>7, <2>1, <3>1 DEF InputOfStep, OwnOrFound, HasAccount
    <3>3. Locked(q)'
      BY <1>2, <1>4, <2>1, <3>1 DEF Locked, NewRecord, Ids
    <3> QED
      BY <3>2, <3>3
  <2>5. ASSUME NEW q \in Requests
        PROVE  NewPackageKey(q)' /\ NewAccountKey(q)' /\ NewNoteKey(q)'
    <3>1. \A s \in Requests :
            /\ NewPackage(s)' => NewPackage(s)
            /\ NewAccount(s)' => NewAccount(s)
            /\ NewNote(s)' => NewNote(s)
      BY <1>2, <2>1, <2>2 DEF NewPackage, NewAccount, NewNote, NewRecord
    <3>2. NewPackageKey(q) /\ NewAccountKey(q) /\ NewNoteKey(q)
      BY OfRequest
    <3>3. NewPackageKey(q)'
      BY <1>2, <1>3, <3>1, <3>2 DEF NewPackageKey
    <3>4. NewAccountKey(q)' /\ NewNoteKey(q)'
      BY <1>2, <3>1, <3>2 DEF NewAccountKey, NewNoteKey
    <3> QED
      BY <3>3, <3>4
  <2> QED
    BY <2>2, <2>3, <2>4, <2>5 DEF OfRequests, Locked
<1>10. CleanupCoherent'
  BY <1>1, <1>2, <1>4 DEF CleanupCoherent, Ids
<1>11. EarlierSpared'
  BY <1>1, <1>2, <1>7 DEF EarlierSpared, TypeOK
<1>12. OneRowPerKey'
  BY <1>1, <1>2, <1>5 DEF OneRowPerKey
<1>13. ReferencesLive'
  BY <1>1, <1>2, <1>3, <1>4 DEF ReferencesLive, Ids
<1> QED
  BY <1>6, <1>8, <1>9, <1>10, <1>11, <1>12, <1>13 DEF IInv

-----------------------------------------------------------------------------
(* The cleanup.                                                            *)

\* Its own statements change no committed row, and no request.
LEMMA CleanupFrame ==
  ASSUME IInv, UNCHANGED <<tables, locals, pc>>,
         \A r \in Requests :
           NewRecord(r) =>
             /\ pkg[r] \notin cleanup'.packages
             /\ input[r].kind = "account" => acct[r] \notin cleanup'.accounts
  PROVE  RowsOfRequests' /\ OfRequests' /\ OneRowPerKey' /\ ReferencesLive'
<1>1. UNCHANGED <<packages, accounts, components, notes, pc, input, pkg, acct, debugged>>
  BY DEF tables, locals
<1>2. RowsOfRequests' /\ OneRowPerKey' /\ ReferencesLive'
  BY <1>1 DEF IInv, RowsOfRequests, OneRowPerKey, ReferencesLive, Ids
<1>3. ASSUME NEW r \in Requests
      PROVE  /\ InputOfStep(r)' /\ OwnOrFound(r)' /\ Locked(r)'
             /\ NewPackageKey(r)' /\ NewAccountKey(r)' /\ NewNoteKey(r)'
  <2>1. /\ InputOfStep(r) /\ OwnOrFound(r) /\ Locked(r)
        /\ NewPackageKey(r) /\ NewAccountKey(r) /\ NewNoteKey(r)
    BY OfRequest
  <2>2. InputOfStep(r)' /\ OwnOrFound(r)'
    BY <1>1, <2>1 DEF InputOfStep, OwnOrFound, HasAccount
  <2>3. Locked(r)'
    BY <1>1, <2>1 DEF Locked, NewRecord, Ids
  <2>4. NewPackageKey(r)' /\ NewAccountKey(r)' /\ NewNoteKey(r)'
    BY <1>1, <2>1
    DEF NewPackageKey, NewAccountKey, NewNoteKey, NewPackage, NewAccount, NewNote, NewRecord
  <2> QED
    BY <2>2, <2>3, <2>4
<1> QED
  BY <1>2, <1>3 DEF OfRequests

\* The rows' ids and the cleanup's fields, typed.
LEMMA CleanupTypes ==
  ASSUME TypeOK
  PROVE  /\ \A c \in components :
              c.id \in Requests /\ c.account \in Requests /\ c.package \in Requests
         /\ \A n \in notes : n.id \in Requests /\ n.package \in Requests
         /\ \A p \in packages : p.id \in Requests /\ p.commitment \in Commitments
         /\ \A a \in accounts : a.id \in Requests
         /\ cleanup.runs \in 0..Cleanups
         /\ cleanup.expired \subseteq Requests /\ cleanup.chosen \subseteq Requests
         /\ cleanup.components \subseteq Requests /\ cleanup.notes \subseteq Requests
         /\ cleanup.accounts \subseteq Requests /\ cleanup.packages \subseteq Requests
BY DEF TypeOK, Package, Account, Component, Note

LEMMA IdleInv ==
  ASSUME IInv, cleanup' = Idle(cleanup.runs + 1), UNCHANGED <<tables, store, locals, pc>>,
         cleanup.runs < Cleanups
  PROVE  IInv'
<1>1. TypeOK /\ UNCHANGED <<packages, accounts, components, notes, releases, debugs,
                            pc, input, pkg, acct, debugged>>
  BY DEF IInv, tables, store, locals
<1>2. TypeOK'
  BY <1>1, RegistryAssumption DEF TypeOK, Idle
<1>3. CleanupCoherent' /\ EarlierSpared'
  BY DEF CleanupCoherent, EarlierSpared, Idle
<1>4. cleanup'.packages = {} /\ cleanup'.accounts = {}
  BY DEF Idle
<1> QED
  BY <1>2, <1>3, <1>4, CleanupFrame DEF IInv

LEMMA DeleteExpiredInv ==
  ASSUME IInv, DeleteExpired
  PROVE  IInv'
<1>1. /\ TypeOK /\ RowsOfRequests /\ CleanupCoherent
      /\ cleanup.at = "idle" /\ cleanup.runs < Cleanups
      /\ UNCHANGED <<packages, accounts, components, notes, releases, debugs,
                     pc, input, pkg, acct, debugged>>
  BY DEF IInv, DeleteExpired, tables, store, locals
<1>2. PICK expired \in SUBSET {row.id : row \in {n \in components \cup notes :
                                   n.source = Playground /\ pc[n.id] \in Answers}} :
        cleanup' = [cleanup EXCEPT
          !.at = "accounts",
          !.expired = expired,
          !.components = Ids(components) \cap expired,
          !.notes = Ids(notes) \cap expired,
          !.before = [packages |-> Ids(packages), records |-> Ids(components \cup notes)]]
  BY DEF DeleteExpired
<1>3. /\ expired \subseteq Requests /\ Ids(packages) \subseteq Requests
      /\ Ids(components \cup notes) \subseteq Requests
  BY <1>1, <1>2, CleanupTypes DEF Ids
<1>4. /\ cleanup'.at = "accounts" /\ cleanup'.expired = expired
      /\ cleanup'.components = Ids(components) \cap expired
      /\ cleanup'.notes = Ids(notes) \cap expired
      /\ cleanup'.before.records = Ids(components \cup notes)
      /\ cleanup'.packages = {} /\ cleanup'.accounts = {} /\ cleanup'.runs = cleanup.runs
  BY <1>1, <1>2 DEF TypeOK, CleanupCoherent
<1>5. TypeOK'
  BY <1>1, <1>2, <1>3 DEF TypeOK
<1>6. CleanupCoherent'
  BY <1>1, <1>4 DEF CleanupCoherent
<1>7. EarlierSpared'
  <2>1. \A id \in Ids(components \cup notes) : pc[id] \in Past
    BY <1>1 DEF RowsOfRequests, Ids
  <2>2. \A id \in expired : pc[id] \in Past /\ input[id].source = Playground
    BY <1>1, <1>2 DEF RowsOfRequests
  <2> QED
    BY <1>1, <1>4, <2>1, <2>2 DEF EarlierSpared
<1> QED
  BY <1>1, <1>4, <1>5, <1>6, <1>7, CleanupFrame DEF IInv, tables, locals

\* Its accounts are there, and all their components left are expired.
LEMMA ChooseAccountsInv ==
  ASSUME IInv, ChooseAccounts
  PROVE  IInv'
<1> DEFINE chosen == {c.account : c \in {d \in components : d.id \in cleanup.expired}}
                       \ {c.account : c \in LeftComponents}
<1>1. /\ TypeOK /\ CleanupCoherent /\ EarlierSpared /\ ReferencesLive
      /\ UNCHANGED <<packages, accounts, components, notes, releases, debugs,
                     pc, input, pkg, acct, debugged>>
      /\ cleanup.at = "accounts"
      /\ cleanup' = [cleanup EXCEPT !.at = "sweepAccounts", !.chosen = chosen]
  BY DEF IInv, ChooseAccounts, tables, store, locals
<1>2. /\ chosen \subseteq Requests /\ chosen \subseteq Ids(accounts)
      /\ \A c \in components : c.account \in chosen => c.id \in cleanup.components
  BY <1>1, CleanupTypes DEF ReferencesLive, LeftComponents
<1> HIDE DEF chosen
<1>3. /\ cleanup'.at = "sweepAccounts" /\ cleanup'.chosen = chosen
      /\ cleanup'.packages = cleanup.packages /\ cleanup'.accounts = cleanup.accounts
      /\ cleanup'.components = cleanup.components /\ cleanup'.notes = cleanup.notes
      /\ cleanup'.expired = cleanup.expired /\ cleanup'.before = cleanup.before
      /\ cleanup'.runs = cleanup.runs
  BY <1>1 DEF TypeOK
<1>4. TypeOK'
  BY <1>1, <1>2 DEF TypeOK
<1>5. CleanupCoherent'
  BY <1>1, <1>2, <1>3 DEF CleanupCoherent
<1>6. EarlierSpared'
  BY <1>1, <1>2, <1>3 DEF EarlierSpared
<1>7. \A r \in Requests : NewRecord(r) =>
        /\ pkg[r] \notin cleanup'.packages
        /\ input[r].kind = "account" => acct[r] \notin cleanup'.accounts
  BY <1>3, OfRequest DEF Locked
<1> QED
  BY <1>1, <1>4, <1>5, <1>6, <1>7, CleanupFrame DEF IInv, tables, locals

\* The locks of uncommitted records keep the rows they refer to.
LEMMA NobodyHolds ==
  ASSUME CleanupHolders = {}
  PROVE  /\ cleanup.at = "sweepAccounts" =>
              \A r \in Requests : \A id \in cleanup.chosen : ~AccountLocked(r, id)
         /\ cleanup.at = "sweepPackages" =>
              \A r \in Requests : \A id \in cleanup.chosen : ~PackageLocked(r, id)
<1>1. CASE cleanup.at = "sweepAccounts"
  <2>1. CleanupHolders = {r \in Requests : \E id \in cleanup.chosen : AccountLocked(r, id)}
    BY <1>1, Zenon DEF CleanupHolders
  <2> QED
    BY <1>1, <2>1
<1>2. CASE cleanup.at = "sweepPackages"
  <2>1. CleanupHolders = {r \in Requests : \E id \in cleanup.chosen : PackageLocked(r, id)}
    BY <1>2, Zenon DEF CleanupHolders
  <2> QED
    BY <1>2, <2>1
<1> QED
  BY <1>1, <1>2

LEMMA SweepAccountsInv ==
  ASSUME IInv, SweepAccounts
  PROVE  IInv'
<1> DEFINE swept == Ids({c \in components : c.account \in cleanup.chosen})
<1>1. /\ TypeOK /\ CleanupCoherent /\ EarlierSpared /\ ReferencesLive
      /\ UNCHANGED <<packages, accounts, components, notes, releases, debugs,
                     pc, input, pkg, acct, debugged>>
      /\ cleanup.at = "sweepAccounts" /\ CleanupHolders = {}
      /\ cleanup' = [cleanup EXCEPT
           !.at = "packages", !.accounts = cleanup.chosen,
           !.components = cleanup.components \cup swept, !.chosen = {}]
  BY DEF IInv, SweepAccounts, tables, store, locals
<1>2. /\ swept \subseteq Requests
      /\ \A c \in components : c.account \in cleanup.chosen => c.id \in swept
      /\ \A id \in swept : \E c \in components : c.id = id /\ c.account \in cleanup.chosen
  BY <1>1, CleanupTypes DEF Ids
<1> HIDE DEF swept
<1>3. /\ cleanup'.at = "packages" /\ cleanup'.chosen = {}
      /\ cleanup'.packages = cleanup.packages /\ cleanup'.accounts = cleanup.chosen
      /\ cleanup'.components = cleanup.components \cup swept /\ cleanup'.notes = cleanup.notes
      /\ cleanup'.expired = cleanup.expired /\ cleanup'.before = cleanup.before
      /\ cleanup'.runs = cleanup.runs
  BY <1>1 DEF TypeOK
<1>4. TypeOK'
  BY <1>1, <1>2 DEF TypeOK
<1>5. CleanupCoherent'
  BY <1>1, <1>2, <1>3 DEF CleanupCoherent
<1>6. EarlierSpared'
  BY <1>1, <1>2, <1>3 DEF EarlierSpared
<1>7. \A r \in Requests : NewRecord(r) =>
        /\ pkg[r] \notin cleanup'.packages
        /\ input[r].kind = "account" => acct[r] \notin cleanup'.accounts
  BY <1>1, <1>3, OfRequest, NobodyHolds DEF Locked, AccountLocked
<1> QED
  BY <1>1, <1>4, <1>5, <1>6, <1>7, CleanupFrame DEF IInv, tables, locals

LEMMA ChoosePackagesInv ==
  ASSUME IInv, ChoosePackages
  PROVE  IInv'
<1> DEFINE chosen ==
      {n.package : n \in {m \in components \cup notes : m.id \in cleanup.expired}}
        \ {n.package : n \in LeftComponents \cup LeftNotes}
<1>1. /\ TypeOK /\ CleanupCoherent /\ EarlierSpared /\ ReferencesLive
      /\ UNCHANGED <<packages, accounts, components, notes, releases, debugs,
                     pc, input, pkg, acct, debugged>>
      /\ cleanup.at = "packages"
      /\ cleanup' = [cleanup EXCEPT !.at = "sweepPackages", !.chosen = chosen]
  BY DEF IInv, ChoosePackages, tables, store, locals
<1>2. /\ chosen \subseteq Requests /\ chosen \subseteq Ids(packages)
      /\ \A c \in components : c.package \in chosen => c.id \in cleanup.components
      /\ \A n \in notes : n.package \in chosen => n.id \in cleanup.notes
  BY <1>1, CleanupTypes DEF ReferencesLive, LeftComponents, LeftNotes, Ids
<1> HIDE DEF chosen
<1>3. /\ cleanup'.at = "sweepPackages" /\ cleanup'.chosen = chosen
      /\ cleanup'.packages = cleanup.packages /\ cleanup'.accounts = cleanup.accounts
      /\ cleanup'.components = cleanup.components /\ cleanup'.notes = cleanup.notes
      /\ cleanup'.expired = cleanup.expired /\ cleanup'.before = cleanup.before
      /\ cleanup'.runs = cleanup.runs
  BY <1>1 DEF TypeOK
<1>4. TypeOK'
  BY <1>1, <1>2 DEF TypeOK
<1>5. CleanupCoherent'
  BY <1>1, <1>2, <1>3 DEF CleanupCoherent
<1>6. EarlierSpared'
  BY <1>1, <1>2, <1>3 DEF EarlierSpared
<1>7. \A r \in Requests : NewRecord(r) =>
        /\ pkg[r] \notin cleanup'.packages
        /\ input[r].kind = "account" => acct[r] \notin cleanup'.accounts
  BY <1>3, OfRequest DEF Locked
<1> QED
  BY <1>1, <1>4, <1>5, <1>6, <1>7, CleanupFrame DEF IInv, tables, locals

LEMMA SweepPackagesInv ==
  ASSUME IInv, SweepPackages
  PROVE  IInv'
<1> DEFINE sweptC == Ids({c \in components : c.package \in cleanup.chosen})
           sweptN == Ids({n \in notes : n.package \in cleanup.chosen})
<1>1. /\ TypeOK /\ CleanupCoherent /\ EarlierSpared /\ ReferencesLive
      /\ UNCHANGED <<packages, accounts, components, notes, releases, debugs,
                     pc, input, pkg, acct, debugged>>
      /\ cleanup.at = "sweepPackages" /\ CleanupHolders = {}
      /\ cleanup' = [cleanup EXCEPT
           !.at = "commit", !.packages = cleanup.chosen,
           !.components = cleanup.components \cup sweptC,
           !.notes = cleanup.notes \cup sweptN, !.chosen = {}]
  BY DEF IInv, SweepPackages, tables, store, locals
<1>2. /\ sweptC \subseteq Requests /\ sweptN \subseteq Requests
      /\ \A c \in components : c.package \in cleanup.chosen => c.id \in sweptC
      /\ \A id \in sweptC : \E c \in components : c.id = id /\ c.package \in cleanup.chosen
      /\ \A n \in notes : n.package \in cleanup.chosen => n.id \in sweptN
      /\ \A id \in sweptN : \E n \in notes : n.id = id /\ n.package \in cleanup.chosen
  BY <1>1, CleanupTypes DEF Ids
<1> HIDE DEF sweptC, sweptN
<1>3. /\ cleanup'.at = "commit" /\ cleanup'.chosen = {}
      /\ cleanup'.packages = cleanup.chosen /\ cleanup'.accounts = cleanup.accounts
      /\ cleanup'.components = cleanup.components \cup sweptC
      /\ cleanup'.notes = cleanup.notes \cup sweptN
      /\ cleanup'.expired = cleanup.expired /\ cleanup'.before = cleanup.before
      /\ cleanup'.runs = cleanup.runs
  BY <1>1 DEF TypeOK
<1>4. TypeOK'
  BY <1>1, <1>2 DEF TypeOK
<1>5. CleanupCoherent'
  BY <1>1, <1>2, <1>3 DEF CleanupCoherent
<1>6. EarlierSpared'
  BY <1>1, <1>2, <1>3 DEF EarlierSpared
<1>7. \A r \in Requests : NewRecord(r) =>
        /\ pkg[r] \notin cleanup'.packages
        /\ input[r].kind = "account" => acct[r] \notin cleanup'.accounts
  BY <1>1, <1>3, OfRequest, NobodyHolds DEF Locked, PackageLocked
<1> QED
  BY <1>1, <1>4, <1>5, <1>6, <1>7, CleanupFrame DEF IInv, tables, locals

LEMMA CommitCleanupInv ==
  ASSUME IInv, CommitCleanup
  PROVE  IInv'
<1> DEFINE left == {p.commitment : p \in packages \ packages'} \X {"release", "debug"}
<1>1. /\ TypeOK /\ RowsOfRequests /\ CleanupCoherent /\ EarlierSpared
      /\ OneRowPerKey /\ ReferencesLive
      /\ UNCHANGED <<releases, debugs, pc, input, pkg, acct, debugged>>
      /\ packages' = {p \in packages : p.id \notin cleanup.packages}
      /\ accounts' = {a \in accounts : a.id \notin cleanup.accounts}
      /\ components' = {c \in components : c.id \notin cleanup.components}
      /\ notes' = {n \in notes : n.id \notin cleanup.notes}
      /\ cleanup.at = "commit"
      /\ cleanup' = [cleanup EXCEPT
           !.at = "artifacts", !.packages = {}, !.accounts = {}, !.components = {},
           !.notes = {}, !.left = left]
  BY DEF IInv, CommitCleanup, store, locals, LeftComponents, LeftNotes
<1>2. left \subseteq Commitments \X {"release", "debug"}
  BY <1>1, CleanupTypes
<1> HIDE DEF left
<1>3. /\ cleanup'.at = "artifacts" /\ cleanup'.chosen = cleanup.chosen
      /\ cleanup'.packages = {} /\ cleanup'.accounts = {}
      /\ cleanup'.components = {} /\ cleanup'.notes = {}
      /\ cleanup'.expired = cleanup.expired /\ cleanup'.before = cleanup.before
      /\ cleanup'.runs = cleanup.runs
  BY <1>1 DEF TypeOK
<1>4. /\ packages' \subseteq packages /\ accounts' \subseteq accounts
      /\ components' \subseteq components /\ notes' \subseteq notes
  BY <1>1
<1>5. /\ \A id \in Ids(packages) \ cleanup.packages : id \in Ids(packages')
      /\ \A id \in Ids(accounts) \ cleanup.accounts : id \in Ids(accounts')
  BY <1>1 DEF Ids
<1>6. TypeOK'
  BY <1>1, <1>2, <1>4 DEF TypeOK
<1>7. RowsOfRequests' /\ OneRowPerKey'
  BY <1>1, <1>4 DEF RowsOfRequests, OneRowPerKey
<1>8. OfRequests'
  <2> SUFFICES ASSUME NEW r \in Requests
               PROVE  /\ InputOfStep(r)' /\ OwnOrFound(r)' /\ Locked(r)'
                      /\ NewPackageKey(r)' /\ NewAccountKey(r)' /\ NewNoteKey(r)'
    BY DEF OfRequests
  <2>1. /\ InputOfStep(r) /\ OwnOrFound(r) /\ Locked(r)
        /\ NewPackageKey(r) /\ NewAccountKey(r) /\ NewNoteKey(r)
    BY OfRequest
  <2>2. InputOfStep(r)' /\ OwnOrFound(r)'
    BY <1>1, <2>1 DEF InputOfStep, OwnOrFound, HasAccount
  <2>3. Locked(r)'
    BY <1>1, <1>3, <1>5, <2>1 DEF Locked, NewRecord, Ids
  <2>4. NewPackageKey(r)' /\ NewAccountKey(r)' /\ NewNoteKey(r)'
    BY <1>1, <1>4, <2>1
    DEF NewPackageKey, NewAccountKey, NewNoteKey, NewPackage, NewAccount, NewNote, NewRecord
  <2> QED
    BY <2>2, <2>3, <2>4
<1>9. CleanupCoherent'
  BY <1>1, <1>3 DEF CleanupCoherent
<1>10. EarlierSpared'
  BY <1>1, <1>3 DEF EarlierSpared
<1>11. ReferencesLive'
  <2>1. \A c \in components' :
          c.account \notin cleanup.accounts /\ c.package \notin cleanup.packages
    BY <1>1 DEF CleanupCoherent
  <2>2. \A n \in notes' : n.package \notin cleanup.packages
    BY <1>1 DEF CleanupCoherent
  <2>3. \A c \in components' :
          \E p \in packages' : p.id = c.package /\ p.commitment = c.commitment
    BY <1>1, <1>4, <2>1 DEF ReferencesLive
  <2> QED
    BY <1>1, <1>4, <1>5, <2>1, <2>2, <2>3 DEF ReferencesLive, Ids
<1> QED
  BY <1>6, <1>7, <1>8, <1>9, <1>10, <1>11 DEF IInv

\* Artifacts are deleted one by one, after the commit.
LEMMA DeleteArtifactInv ==
  ASSUME IInv, DeleteRelease \/ DeleteDebug
  PROVE  IInv'
<1>1. /\ TypeOK /\ CleanupCoherent /\ EarlierSpared
      /\ UNCHANGED <<packages, accounts, components, notes, pc, input, pkg, acct, debugged>>
      /\ cleanup.at = "artifacts"
      /\ releases' \subseteq releases /\ debugs' \subseteq debugs
  BY DEF IInv, DeleteRelease, DeleteDebug, tables, locals
<1>2. PICK left \in SUBSET cleanup.left : cleanup' = [cleanup EXCEPT !.left = left]
  BY DEF DeleteRelease, DeleteDebug
<1>3. /\ cleanup'.at = cleanup.at /\ cleanup'.chosen = cleanup.chosen
      /\ cleanup'.packages = cleanup.packages /\ cleanup'.accounts = cleanup.accounts
      /\ cleanup'.components = cleanup.components /\ cleanup'.notes = cleanup.notes
      /\ cleanup'.expired = cleanup.expired /\ cleanup'.before = cleanup.before
      /\ cleanup'.runs = cleanup.runs
  BY <1>1, <1>2 DEF TypeOK
<1>4. TypeOK'
  BY <1>1, <1>2 DEF TypeOK
<1>5. CleanupCoherent' /\ EarlierSpared'
  BY <1>1, <1>3 DEF CleanupCoherent, EarlierSpared, Ids
<1>6. \A r \in Requests : NewRecord(r) =>
        /\ pkg[r] \notin cleanup'.packages
        /\ input[r].kind = "account" => acct[r] \notin cleanup'.accounts
  BY <1>3, OfRequest DEF Locked
<1> QED
  BY <1>1, <1>4, <1>5, <1>6, CleanupFrame DEF IInv, tables, locals

LEMMA EndInv ==
  ASSUME IInv, EndCleanup \/ CleanupFails
  PROVE  IInv'
BY IdleInv DEF IInv, CleanupCoherent, EndCleanup, CleanupFails

LEMMA StutterInv ==
  ASSUME IInv, UNCHANGED vars
  PROVE  IInv'
<1>1. /\ UNCHANGED <<packages, accounts, components, notes, releases, debugs,
                     pc, input, pkg, acct, debugged, cleanup>>
      /\ TypeOK /\ CleanupCoherent /\ EarlierSpared
  BY DEF vars, tables, store, locals, IInv
<1>2. TypeOK'
  BY <1>1 DEF TypeOK
<1>3. CleanupCoherent' /\ EarlierSpared'
  BY <1>1 DEF CleanupCoherent, EarlierSpared, Ids
<1>4. \A r \in Requests : NewRecord(r) =>
        /\ pkg[r] \notin cleanup'.packages
        /\ input[r].kind = "account" => acct[r] \notin cleanup'.accounts
  BY <1>1, OfRequest DEF Locked
<1> QED
  BY <1>1, <1>2, <1>3, <1>4, CleanupFrame DEF IInv, tables, locals

-----------------------------------------------------------------------------
(* The theorems.                                                           *)

\* Every step keeps the invariant.
LEMMA NextInv ==
  ASSUME IInv, [Next]_vars
  PROVE  IInv'
<1>1. ASSUME NEW r \in Requests, Verify(r)
      PROVE  IInv'
  BY <1>1, ReadStoredInv, PutReleaseInv, InsertPackageInv, FindPackageInv, FindAccountInv,
     InsertAccountInv, FindComponentInv, InsertComponentInv, FindNoteInv, InsertNoteInv,
     CommitInv, PutDebugInv, UpdatePackageInv DEF Verify
<1>2. ASSUME Cleanup
      PROVE  IInv'
  BY <1>2, ChooseAccountsInv, SweepAccountsInv, ChoosePackagesInv, SweepPackagesInv,
     CommitCleanupInv, DeleteArtifactInv, EndInv DEF Cleanup
<1> QED
  BY <1>1, <1>2, ArriveInv, FailsInv, DeleteExpiredInv, EndInv, StutterInv DEF Next

\* IInv holds in every state of the registry.
THEOREM RegistryInvariant == Spec => []IInv
<1>1. IInv /\ [Next]_vars => IInv'
  BY NextInv
<1> QED
  BY <1>1, InitInv, PTL DEF Spec

\* The rows, the store, the requests' variables and the cleanup's keep their
\* types.
THEOREM TypeCorrect == Spec => []TypeOK
<1>1. IInv => TypeOK
  BY DEF IInv
<1> QED
  BY <1>1, RegistryInvariant, PTL

\* However many verifications of the same package, account code or note race,
\* one row is committed for each (verify-resource.ts, schema.ts).
THEOREM OneRow == Spec => []OneRowPerKey
<1>1. IInv => OneRowPerKey
  BY DEF IInv
<1> QED
  BY <1>1, RegistryInvariant, PTL

\* No record outlives its package or its account code, whatever cleanup runs as
\* it is inserted (schema.ts, cleanup-playground.ts).
THEOREM NoDanglingRecord == Spec => []ReferencesLive
<1>1. IInv => ReferencesLive
  BY DEF IInv
<1> QED
  BY <1>1, RegistryInvariant, PTL

\* The statements that may have to wait for another transaction.
Waiters == {"package", "newAccount", "newComponent", "newNote", "debugRow"}

\* Whom a request waits for is further than it is: an inserted package's or
\* account code's owner, a record's about to commit, or the cleanup.
LEMMA HoldersAreAhead ==
  ASSUME IInv, NEW r \in Requests, NEW q \in Holders(r), q # Cleaner
  PROVE  /\ q \in Requests /\ q # r
         /\ pc[r] \in {"package", "newAccount", "newNote"}
         /\ pc[r] = "package" => pc[q] # "package"
         /\ pc[r] = "newAccount" => pc[q] \in Past \cup {"component", "newComponent", "commit"}
         /\ pc[r] = "newNote" => pc[q] = "commit"
<1>1. ASSUME NEW s \in Requests, NewAccount(s)
      PROVE  pc[s] \in Past \cup {"component", "newComponent", "commit"}
  BY <1>1, OfRequest, RegistryAssumption DEF NewAccount, OwnOrFound, HasAccount
<1>2. CASE pc[r] = "package"
  BY <1>2, HoldersCases DEF NewPackage, InTx
<1>3. CASE pc[r] = "newAccount"
  BY <1>1, <1>3, HoldersCases
<1>4. CASE pc[r] = "newNote"
  BY <1>4, HoldersCases DEF NewRecord
<1>5. CASE pc[r] \notin {"package", "newAccount", "newNote"}
  BY <1>5, HoldersCases
<1> QED
  BY <1>2, <1>3, <1>4, <1>5

\* The cleanup waits only for requests about to commit.
LEMMA CleanupWaitsForCommits ==
  ASSUME NEW q \in CleanupHolders
  PROVE  q \in Requests /\ pc[q] = "commit"
<1>1. CASE cleanup.at = "sweepAccounts"
  <2>1. CleanupHolders = {r \in Requests : \E id \in cleanup.chosen : AccountLocked(r, id)}
    BY <1>1, Zenon DEF CleanupHolders
  <2> QED
    BY <2>1 DEF AccountLocked, NewRecord
<1>2. CASE cleanup.at = "sweepPackages"
  <2>1. CleanupHolders = {r \in Requests : \E id \in cleanup.chosen : PackageLocked(r, id)}
    BY <1>2, Zenon DEF CleanupHolders
  <2> QED
    BY <2>1 DEF PackageLocked, NewRecord
<1>3. CASE cleanup.at \notin {"sweepAccounts", "sweepPackages"}
  <2>1. CleanupHolders = {}
    BY <1>3, Zenon DEF CleanupHolders
  <2> QED
    BY <2>1
<1> QED
  BY <1>1, <1>2, <1>3

\* Of any requests, one waits for none of the others: the one that is furthest.
LEMMA RequestsWaitInOrder ==
  ASSUME IInv, NEW open \in SUBSET Requests, open # {}
  PROVE  \E t \in open : Holders(t) \cap open = {}
<1>1. \A t \in open : \A q \in Holders(t) \cap open : q # Cleaner
  BY RegistryAssumption
<1>2. CASE \E t \in open : pc[t] \notin {"package", "newAccount", "newNote"}
  BY <1>1, <1>2, HoldersAreAhead
<1>3. CASE /\ \A t \in open : pc[t] \in {"package", "newAccount", "newNote"}
           /\ \E t \in open : pc[t] # "package"
  BY <1>1, <1>3, HoldersAreAhead DEF Past, Answers
<1>4. CASE \A t \in open : pc[t] = "package"
  BY <1>1, <1>4, HoldersAreAhead
<1> QED
  BY <1>2, <1>3, <1>4

\* No circle of transactions waits for each other, whatever the number of
\* verifications and wherever the cleanup is (verify-resource.ts,
\* cleanup-playground.ts).
THEOREM NoDeadlock == Spec => []NobodyWaitsInCircle
<1>1. ASSUME IInv, NEW open \in (SUBSET (Requests \cup {Cleaner})) \ {{}}
      PROVE  \E t \in open :
               (IF t = Cleaner THEN CleanupHolders ELSE Holders(t)) \cap open = {}
  <2>1. CASE \E t \in open \cap Requests : pc[t] = "commit"
    <3>1. PICK t \in open \cap Requests : pc[t] = "commit"
      BY <2>1
    <3>2. Holders(t) = {} /\ t # Cleaner
      BY <3>1, HoldersCases, RegistryAssumption
    <3> QED
      BY <3>1, <3>2
  <2>2. CASE (\A t \in open \cap Requests : pc[t] # "commit") /\ Cleaner \in open
    BY <2>2, CleanupWaitsForCommits
  <2>3. CASE Cleaner \notin open
    <3>1. open \in SUBSET Requests /\ open # {}
      BY <2>3
    <3> QED
      BY <1>1, <2>3, <3>1, RequestsWaitInOrder
  <2> QED
    BY <2>1, <2>2, <2>3
<1>2. IInv => NobodyWaitsInCircle
  BY <1>1 DEF NobodyWaitsInCircle
<1> QED
  BY <1>2, RegistryInvariant, PTL

\* Only the cleanup's COMMIT removes a record.
LEMMA OnlyCommitRemoves ==
  ASSUME [Next]_vars, ~CommitCleanup
  PROVE  components \subseteq components' /\ notes \subseteq notes'
<1>1. ASSUME NEW r \in Requests, Verify(r)
      PROVE  components \subseteq components' /\ notes \subseteq notes'
  <2>1. CASE Commit(r)
    BY <2>1 DEF Commit, PublishAccountComponent, PublishNote
  <2>2. CASE UpdatePackage(r)
    BY <2>2 DEF UpdatePackage
  <2> QED
    BY <1>1, <2>1, <2>2
    DEF Verify, ReadStored, PutRelease, InsertPackage, FindPackage, FindAccount, InsertAccount,
        FindComponent, InsertComponent, FindNote, InsertNote, PutDebug, Rollback, tables
<1>2. ASSUME Cleanup
      PROVE  components \subseteq components' /\ notes \subseteq notes'
  BY <1>2 DEF Cleanup, ChooseAccounts, SweepAccounts, ChoosePackages, SweepPackages,
     DeleteRelease, DeleteDebug, EndCleanup, tables
<1> QED
  BY <1>1, <1>2 DEF Next, Arrive, Fails, Rollback, DeleteExpired, CleanupFails, vars, tables

\* A cleanup deletes what was recorded before it began only when it is the
\* playground's and expired, through every cascade (cleanup-playground.ts).
THEOREM OnlyExpiredGo == Spec => EarlierRecordsStay
<1> DEFINE Stays ==
      \A n \in components \cup notes :
        /\ n \notin components' \cup notes'
        /\ n.id \in cleanup.before.records
        => n.source = Playground /\ n.id \in cleanup.expired
<1>1. ASSUME IInv, CommitCleanup, NEW n \in components \cup notes,
             n \notin components' \cup notes', n.id \in cleanup.before.records
      PROVE  n.source = Playground /\ n.id \in cleanup.expired
  <2>1. \/ n \in components /\ n.id \in cleanup.components
        \/ n \in notes /\ n.id \in cleanup.notes
    BY <1>1 DEF CommitCleanup, LeftComponents, LeftNotes
  <2>2. n.id \in cleanup.expired /\ input[n.id].source = Playground
    BY <1>1, <2>1 DEF IInv, EarlierSpared
  <2>3. n.source = input[n.id].source
    BY <1>1, <2>1 DEF IInv, RowsOfRequests
  <2> QED
    BY <2>2, <2>3
<1>2. IInv /\ [Next]_vars => [Stays]_vars
  <2>1. ASSUME IInv, [Next]_vars, CommitCleanup PROVE Stays
    BY <1>1, <2>1
  <2>2. ASSUME [Next]_vars, ~CommitCleanup PROVE Stays
    BY <2>2, OnlyCommitRemoves
  <2> QED
    BY <2>1, <2>2
<1> QED
  BY <1>2, RegistryInvariant, PTL DEF Spec, EarlierRecordsStay
=============================================================================
