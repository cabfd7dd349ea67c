------------------------ MODULE RegistryStoreProofs -------------------------
(***************************************************************************)
(* The artifacts and the answers of the registry, until a first cleanup    *)
(* begins, and the artifacts a first cleanup keeps, for any requests and   *)
(* inputs.  A later cleanup may meet rows without an artifact: see         *)
(* RowHasArtifact.                                                         *)
(***************************************************************************)
EXTENDS RegistryProofs

NoCleanupYet == cleanup = Idle(0)

\* What a request has done by now.
DoneByNow(r) ==
  /\ pc[r] = "package" \/ NewPackage(r) => input[r].commitment \in releases
  /\ pc[r] = "debugRow" => input[r].commitment \in debugs
  /\ pc[r] \in {"debugPut", "debugRow"} /\ input[r].kind # "debug" =>
       r \in Ids(components \cup notes)

EarlyInv ==
  NoCleanupYet =>
    /\ ArtifactBeforeRow /\ RecordedWhole /\ AnswersTrue
    /\ \A r \in Requests : DoneByNow(r)

\* During a first cleanup: the rows there when it began still have their
\* artifact, and it is not about to delete it.
FirstInv ==
  cleanup.runs = 0 /\ cleanup.at # "idle" =>
    /\ \A id \in cleanup.before.packages : pc[id] \in Past
    /\ \A p \in packages : p.id \in cleanup.before.packages =>
         /\ p.commitment \in releases
         /\ \A kind \in {"release", "debug"} : <<p.commitment, kind>> \notin cleanup.left
    /\ cleanup.at # "artifacts" => cleanup.left = {}

StoreInv ==
  /\ EarlyInv /\ FirstInv
  /\ cleanup.at = "idle" => cleanup = Idle(cleanup.runs)

-----------------------------------------------------------------------------
(* The steps of requests.                                                  *)

Requested(r) == Arrive(r) \/ Verify(r) \/ Fails(r)

\* What a request's step leaves alone.
LEMMA RequestFrame ==
  ASSUME IInv, NEW r \in Requests, Requested(r)
  PROVE  /\ UNCHANGED cleanup
         /\ \A q \in Requests \ {r} :
              pc'[q] = pc[q] /\ input'[q] = input[q] /\ pkg'[q] = pkg[q]
         /\ pc[r] # "out" => input'[r] = input[r]
         /\ pc[r] \notin Answers /\ (pc[r] \in Past => pc'[r] \in Past)
         /\ releases \subseteq releases' /\ debugs \subseteq debugs'
         /\ ~Commit(r) => UNCHANGED <<accounts, components, notes>>
         /\ ~Commit(r) /\ ~UpdatePackage(r) => UNCHANGED packages
<1> USE DEF Goto, Answer, tables, store, locals, Past
<1>1. TypeOK
  BY DEF IInv
<1>2. CASE Arrive(r)
  BY <1>1, <1>2 DEF Arrive, TypeOK, Answers, Commit, UpdatePackage
<1>3. CASE ReadStored(r) \/ PutRelease(r) \/ InsertPackage(r) \/ PutDebug(r)
  BY <1>1, <1>3 DEF ReadStored, PutRelease, InsertPackage, PutDebug, TypeOK, Answers
<1>4. CASE FindPackage(r) \/ FindAccount(r) \/ InsertAccount(r)
  BY <1>1, <1>4 DEF FindPackage, FindAccount, InsertAccount, Rollback, TypeOK, Answers
<1>5. CASE FindComponent(r) \/ InsertComponent(r) \/ FindNote(r) \/ InsertNote(r)
  BY <1>1, <1>5 DEF FindComponent, InsertComponent, FindNote, InsertNote, Rollback, TypeOK, Answers
<1>6. CASE Commit(r)
  BY <1>1, <1>6 DEF Commit, TypeOK, Answers
<1>7. CASE UpdatePackage(r)
  BY <1>1, <1>7 DEF UpdatePackage, TypeOK, Answers
<1>8. CASE Fails(r)
  BY <1>1, <1>8 DEF Fails, Rollback, TypeOK, Answers, InTx
<1> QED
  BY <1>2, <1>3, <1>4, <1>5, <1>6, <1>7, <1>8 DEF Requested, Verify

\* Where a request may come from, and what it does on the way.
LEMMA RequestMoves ==
  ASSUME IInv, NEW r \in Requests, Requested(r)
  PROVE  /\ pc'[r] = "package" => PutRelease(r)
         /\ NewPackage(r)' => pc[r] = "package" \/ NewPackage(r)
         /\ pc'[r] = "debugRow" => PutDebug(r)
         /\ pc'[r] \in {"debugPut", "debugRow"} /\ input'[r].kind # "debug" =>
              Commit(r) \/ pc[r] = "debugPut"
         /\ pc'[r] = "ok" /\ input'[r].kind # "debug" =>
              Commit(r) \/ pc[r] \in {"debugPut", "debugRow"}
         /\ pc'[r] = "conflict" =>
              /\ ~Commit(r)
              /\ \/ pc[r] = "component" /\ \E c \in components :
                      c.account = acct[r] /\ c.commitment = input[r].commitment
                 \/ pc[r] = "note" /\ input[r].root \in {n.root : n \in notes}
<1> USE DEF Goto, Answer, locals
<1>1. TypeOK /\ InputOfStep(r) /\ OwnOrFound(r)
  BY OfRequest DEF IInv
<1>2. \A p \in packages : p.id # r \/ pc[r] \in Past
  BY DEF IInv, RowsOfRequests
<1>3. CASE Arrive(r)
  BY <1>1, <1>3 DEF Arrive, TypeOK, NewPackage, InTx
<1>4. CASE ReadStored(r)
  BY <1>1, <1>2, <1>4 DEF ReadStored, First, TypeOK, NewPackage, InTx, Past, Answers
<1>5. CASE PutRelease(r) \/ InsertPackage(r) \/ PutDebug(r)
  BY <1>1, <1>5
  DEF PutRelease, InsertPackage, PutDebug, First, TypeOK, NewPackage, InTx
<1>6. CASE FindPackage(r)
  BY <1>1, <1>2, <1>6, RegistryAssumption
  DEF FindPackage, First, Rollback, TypeOK, NewPackage, InTx, Past, Answers
<1>7. CASE FindAccount(r) \/ InsertAccount(r)
  BY <1>1, <1>7 DEF FindAccount, InsertAccount, Rollback, TypeOK, NewPackage, InTx
<1>8. CASE FindComponent(r)
  BY <1>1, <1>8 DEF FindComponent, Rollback, TypeOK, NewPackage, InTx, Commit
<1>9. CASE InsertComponent(r) \/ InsertNote(r)
  BY <1>1, <1>9 DEF InsertComponent, InsertNote, Rollback, TypeOK, NewPackage, InTx
<1>10. CASE FindNote(r)
  BY <1>1, <1>10 DEF FindNote, Rollback, TypeOK, NewPackage, InTx, Commit
<1>11. CASE Commit(r)
  BY <1>1, <1>11 DEF Commit, TypeOK, NewPackage, InTx
<1>12. CASE UpdatePackage(r)
  BY <1>1, <1>12 DEF UpdatePackage, TypeOK, NewPackage, InTx
<1>13. CASE Fails(r)
  BY <1>1, <1>13 DEF Fails, Rollback, TypeOK, NewPackage, InTx
<1> QED
  BY <1>3, <1>4, <1>5, <1>6, <1>7, <1>8, <1>9, <1>10, <1>11, <1>12, <1>13 DEF Requested, Verify

\* What a COMMIT adds: r's record, and with it the rows it uses.
LEMMA CommittedRows ==
  ASSUME IInv, NEW r \in Requests, Commit(r)
  PROVE  /\ accounts \subseteq accounts' /\ components \subseteq components' /\ notes \subseteq notes'
         /\ r \in Ids(components' \cup notes')
         /\ NewPackage(r) => \E n \in components' \cup notes' : n.package = r
         /\ NewAccount(r) => \E c \in components' : c.account = r
         /\ \A a \in accounts' \ accounts : a.id = r /\ NewAccount(r)
         /\ \A p \in packages' \ packages :
              NewPackage(r) /\ p.id = r /\ p.commitment = input[r].commitment /\ ~p.debug
<1>1. /\ packages' = IF NewPackage(r) THEN packages \cup {PackageOf(r)} ELSE packages
      /\ accounts' = IF NewAccount(r) THEN accounts \cup {AccountOf(r)} ELSE accounts
      /\ components' = IF NewNote(r) THEN components ELSE components \cup {ComponentOf(r)}
      /\ notes' = IF NewNote(r) THEN notes \cup {NoteOf(r)} ELSE notes
      /\ NewAccount(r) => ~NewNote(r)
  <2>1. NewAccount(r) => ~NewNote(r)
    BY OfRequest, RegistryAssumption
    DEF NewAccount, NewNote, OwnOrFound, HasAccount, InTx, Past, Answers, NewRecord
  <2> QED
    BY <2>1, PublishedRows
<1>2. /\ PackageOf(r).id = r /\ PackageOf(r).commitment = input[r].commitment
      /\ PackageOf(r).debug = FALSE /\ AccountOf(r).id = r
      /\ ComponentOf(r).id = r /\ ComponentOf(r).account = acct[r]
      /\ ComponentOf(r).package = pkg[r] /\ NoteOf(r).id = r /\ NoteOf(r).package = pkg[r]
  BY Columns DEF PackageOf
<1>3. NewPackage(r) => pkg[r] = r
  BY DEF NewPackage
<1>4. NewAccount(r) => acct[r] = r
  BY DEF NewAccount
<1>5. /\ accounts \subseteq accounts' /\ components \subseteq components' /\ notes \subseteq notes'
  BY <1>1
<1>6. \E n \in components' \cup notes' : n.id = r /\ n.package = pkg[r]
  BY <1>1, <1>2
<1>7. NewAccount(r) => \E c \in components' : c.account = r
  BY <1>1, <1>2, <1>4
<1>8. \A a \in accounts' \ accounts : a.id = r /\ NewAccount(r)
  BY <1>1, <1>2
<1>9. \A p \in packages' \ packages :
        NewPackage(r) /\ p.id = r /\ p.commitment = input[r].commitment /\ ~p.debug
  BY <1>1, <1>2
<1> QED
  BY <1>3, <1>5, <1>6, <1>7, <1>8, <1>9 DEF Ids

\* A debug build's row keeps its id and its commitment, which is the request's.
LEMMA UpdatedRows ==
  ASSUME IInv, NEW r \in Requests, UpdatePackage(r)
  PROVE  /\ \A p \in packages' : \E q \in packages :
              /\ p.id = q.id /\ p.commitment = q.commitment
              /\ p.debug => q.debug \/ p.commitment = input[r].commitment
         /\ pc[r] = "debugRow"
<1>1. /\ pc[r] = "debugRow"
      /\ packages' = {IF p.id = pkg[r] THEN [p EXCEPT !.debug = TRUE] ELSE p : p \in packages}
  BY DEF UpdatePackage
<1>2. OwnOrFound(r) /\ pkg[r] \in Requests /\ input[pkg[r]].commitment = input[r].commitment
  BY <1>1, OfRequest DEF OwnOrFound, HasPackage
<1>3. ASSUME NEW q \in packages, q.id = pkg[r]
      PROVE  q.commitment = input[r].commitment
  BY <1>2, <1>3 DEF IInv, RowsOfRequests
<1>4. \A q \in packages : LET p == [q EXCEPT !.debug = TRUE] IN
        p.id = q.id /\ p.commitment = q.commitment
  BY DEF IInv, TypeOK, Package
<1>5. ASSUME NEW p \in packages'
      PROVE  \E q \in packages :
               /\ p.id = q.id /\ p.commitment = q.commitment
               /\ p.debug => q.debug \/ p.commitment = input[r].commitment
  <2>1. PICK q \in packages : p = IF q.id = pkg[r] THEN [q EXCEPT !.debug = TRUE] ELSE q
    BY <1>1
  <2>2. p.id = q.id /\ p.commitment = q.commitment
    BY <2>1, <1>4
  <2>3. CASE q.id = pkg[r]
    BY <2>2, <2>3, <1>3
  <2>4. CASE q.id # pkg[r]
    BY <2>1, <2>4
  <2> QED
    BY <2>2, <2>3, <2>4
<1> QED
  BY <1>1, <1>5

-----------------------------------------------------------------------------
(* Until a cleanup begins.                                                 *)

\* Then only requests have stepped.
LEMMA OnlyRequestsYet ==
  ASSUME IInv, [Next]_vars, NoCleanupYet'
  PROVE  /\ NoCleanupYet
         /\ UNCHANGED vars \/ \E r \in Requests : Requested(r)
<1>1. Idle(0).at = "idle" /\ Idle(0).runs = 0
  BY DEF Idle
<1>2. cleanup'.at = "idle" /\ cleanup'.runs = 0 /\ cleanup.runs \in Nat /\ TypeOK
  BY <1>1 DEF NoCleanupYet, IInv, TypeOK
<1>3. cleanup' # Idle(cleanup.runs + 1)
  BY <1>2 DEF Idle
<1>4. ~DeleteExpired
  BY <1>2 DEF DeleteExpired, TypeOK
<1>5. ~CleanupFails /\ ~EndCleanup
  BY <1>3 DEF CleanupFails, EndCleanup
<1>6. ~ChooseAccounts /\ ~SweepAccounts /\ ~ChoosePackages /\ ~SweepPackages /\ ~CommitCleanup
  BY <1>2 DEF ChooseAccounts, SweepAccounts, ChoosePackages, SweepPackages, CommitCleanup, TypeOK
<1>7. ~DeleteRelease /\ ~DeleteDebug
  BY <1>2 DEF DeleteRelease, DeleteDebug, TypeOK
<1>8. UNCHANGED vars \/ \E r \in Requests : Requested(r)
  BY <1>4, <1>5, <1>6, <1>7 DEF Next, Cleanup, Requested
<1>9. ASSUME NEW r \in Requests, Requested(r)
      PROVE  NoCleanupYet
  BY <1>9, RequestFrame DEF NoCleanupYet
<1> QED
  BY <1>8, <1>9 DEF NoCleanupYet, vars

\* A request's step keeps what it and the others have done.
LEMMA DoneByNowKept ==
  ASSUME IInv, NEW r \in Requests, Requested(r), \A q \in Requests : DoneByNow(q)
  PROVE  \A q \in Requests : DoneByNow(q)'
<1>1. Ids(components \cup notes) \subseteq Ids(components' \cup notes')
  BY RequestFrame, CommittedRows DEF Ids
<1>2. releases \subseteq releases' /\ debugs \subseteq debugs'
  BY RequestFrame
<1>3. ASSUME NEW q \in Requests \ {r}
      PROVE  DoneByNow(q)'
  <2>1. pc'[q] = pc[q] /\ input'[q] = input[q] /\ pkg'[q] = pkg[q]
    BY RequestFrame
  <2> QED
    BY <1>1, <1>2, <2>1 DEF DoneByNow, NewPackage
<1>4. DoneByNow(r)'
  <2>1. pc[r] # "out" => input'[r] = input[r]
    BY RequestFrame
  <2>2. pc'[r] = "package" => input'[r].commitment \in releases'
    BY <2>1, RequestMoves DEF PutRelease
  <2>3. NewPackage(r)' => input'[r].commitment \in releases'
    BY <1>2, <2>1, RequestMoves DEF DoneByNow, NewPackage, InTx
  <2>4. pc'[r] = "debugRow" => input'[r].commitment \in debugs'
    BY <2>1, RequestMoves DEF PutDebug
  <2>5. pc'[r] \in {"debugPut", "debugRow"} /\ input'[r].kind # "debug" =>
          r \in Ids(components' \cup notes')
    BY <1>1, <2>1, RequestMoves, CommittedRows DEF DoneByNow
  <2> QED
    BY <2>2, <2>3, <2>4, <2>5 DEF DoneByNow
<1> QED
  BY <1>3, <1>4

\* No row of a package appears before its artifact, nor its debug build's.
LEMMA ArtifactBeforeRowKept ==
  ASSUME IInv, NEW r \in Requests, Requested(r), DoneByNow(r), ArtifactBeforeRow
  PROVE  ArtifactBeforeRow'
<1>1. releases \subseteq releases' /\ debugs \subseteq debugs'
  BY RequestFrame
<1>2. CASE Commit(r)
  BY <1>1, <1>2, CommittedRows DEF ArtifactBeforeRow, DoneByNow
<1>3. CASE UpdatePackage(r)
  BY <1>1, <1>3, UpdatedRows DEF ArtifactBeforeRow, DoneByNow
<1>4. CASE ~Commit(r) /\ ~UpdatePackage(r)
  BY <1>1, <1>4, RequestFrame DEF ArtifactBeforeRow
<1> QED
  BY <1>2, <1>3, <1>4

\* No package and no account code appears without its record.
LEMMA RecordedWholeKept ==
  ASSUME IInv, NEW r \in Requests, Requested(r), RecordedWhole
  PROVE  RecordedWhole'
<1>1. CASE Commit(r)
  BY <1>1, CommittedRows DEF RecordedWhole
<1>2. CASE UpdatePackage(r)
  <2>1. UNCHANGED <<accounts, components, notes>>
    BY <1>2 DEF UpdatePackage
  <2> QED
    BY <1>2, <2>1, UpdatedRows DEF RecordedWhole
<1>3. CASE ~Commit(r) /\ ~UpdatePackage(r)
  BY <1>3, RequestFrame DEF RecordedWhole
<1> QED
  BY <1>1, <1>2, <1>3

\* An answer is true when it is given, and stays it.
LEMMA AnswersTrueKept ==
  ASSUME IInv, NEW r \in Requests, Requested(r), DoneByNow(r), AnswersTrue
  PROVE  AnswersTrue'
<1>1. /\ accounts \subseteq accounts' /\ components \subseteq components' /\ notes \subseteq notes'
      /\ Ids(components \cup notes) \subseteq Ids(components' \cup notes')
  BY RequestFrame, CommittedRows DEF Ids
<1>2. \A q \in Requests : Recorded(q) /\ input'[q] = input[q] => Recorded(q)'
  BY <1>1 DEF Recorded
<1>3. Ids(components' \cup notes') \subseteq Ids(components \cup notes) \cup {r}
  <2>1. CASE Commit(r)
    BY <2>1, PublishedRows, Columns DEF Ids
  <2>2. CASE ~Commit(r)
    BY <2>2, RequestFrame
  <2> QED
    BY <2>1, <2>2
<1>4. ASSUME NEW q \in Requests \ {r}
      PROVE  /\ pc'[q] = "ok" /\ input'[q].kind # "debug" => q \in Ids(components' \cup notes')
             /\ pc'[q] = "conflict" => Recorded(q)' /\ q \notin Ids(components' \cup notes')
  <2>1. pc'[q] = pc[q] /\ input'[q] = input[q]
    BY RequestFrame
  <2> QED
    BY <1>1, <1>2, <1>3, <2>1 DEF AnswersTrue
<1>5. pc'[r] = "ok" /\ input'[r].kind # "debug" => r \in Ids(components' \cup notes')
  BY <1>1, RequestFrame, RequestMoves, CommittedRows DEF DoneByNow
<1>6. ASSUME pc'[r] = "conflict"
      PROVE  Recorded(r)' /\ r \notin Ids(components' \cup notes')
  <2>1. /\ ~Commit(r) /\ pc[r] \in {"component", "note"} /\ input'[r] = input[r]
        /\ UNCHANGED <<accounts, components, notes>>
    BY <1>6, RequestMoves, RequestFrame
  <2>2. r \notin Ids(components \cup notes)
    BY <2>1 DEF IInv, RowsOfRequests, Ids, Past, Answers
  <2>3. Recorded(r)
    <3>1. CASE pc[r] = "component"
      <4>1. PICK c \in components : c.account = acct[r] /\ c.commitment = input[r].commitment
        BY <1>6, <3>1, RequestMoves
      <4>2. PICK a \in accounts : a.id = acct[r]
        BY <4>1 DEF IInv, ReferencesLive, Ids
      <4>3. input[r].kind = "account" /\ input[acct[r]].root = input[r].root
        BY <3>1, OfRequest DEF InputOfStep, OwnOrFound, HasAccount
      <4>4. a.root = input[r].root
        BY <4>2, <4>3 DEF IInv, RowsOfRequests
      <4> QED
        BY <4>1, <4>2, <4>3, <4>4 DEF Recorded
    <3>2. CASE pc[r] = "note"
      <4>1. input[r].kind = "note"
        BY <3>2, OfRequest DEF InputOfStep
      <4> QED
        BY <1>6, <3>2, <4>1, RequestMoves DEF Recorded
    <3> QED
      BY <2>1, <3>1, <3>2
  <2> QED
    BY <1>2, <2>1, <2>2, <2>3
<1> QED
  BY <1>4, <1>5, <1>6 DEF AnswersTrue

-----------------------------------------------------------------------------
(* A first cleanup.                                                        *)

LEMMA RequestKeepsFirst ==
  ASSUME IInv, NEW r \in Requests, Requested(r), FirstInv
  PROVE  FirstInv'
<1> SUFFICES ASSUME cleanup'.runs = 0, cleanup'.at # "idle"
             PROVE  /\ \A id \in cleanup'.before.packages : pc'[id] \in Past
                    /\ \A p \in packages' : p.id \in cleanup'.before.packages =>
                         /\ p.commitment \in releases'
                         /\ \A kind \in {"release", "debug"} :
                              <<p.commitment, kind>> \notin cleanup'.left
                    /\ cleanup'.at # "artifacts" => cleanup'.left = {}
  BY DEF FirstInv
<1>1. cleanup' = cleanup /\ releases \subseteq releases'
  BY RequestFrame
<1>2. /\ \A id \in cleanup.before.packages : pc[id] \in Past
      /\ \A p \in packages : p.id \in cleanup.before.packages =>
           /\ p.commitment \in releases
           /\ \A kind \in {"release", "debug"} : <<p.commitment, kind>> \notin cleanup.left
      /\ cleanup.at # "artifacts" => cleanup.left = {}
  BY <1>1 DEF FirstInv
<1>3. \A id \in cleanup.before.packages : pc'[id] \in Past
  BY <1>2, RequestFrame DEF IInv, TypeOK
<1>4. \A p \in packages' : p.id \in cleanup.before.packages =>
        \E q \in packages : p.id = q.id /\ p.commitment = q.commitment
  <2>1. CASE Commit(r)
    <3>1. pc[r] \notin Past
      BY <2>1 DEF Commit, Past, Answers
    <3> QED
      BY <1>2, <2>1, <3>1, CommittedRows
  <2>2. CASE UpdatePackage(r)
    BY <2>2, UpdatedRows
  <2>3. CASE ~Commit(r) /\ ~UpdatePackage(r)
    BY <2>3, RequestFrame
  <2> QED
    BY <2>1, <2>2, <2>3
<1> QED
  BY <1>1, <1>2, <1>3, <1>4

LEMMA CleanupKeepsFirst ==
  ASSUME IInv, StoreInv, DeleteExpired \/ Cleanup
  PROVE  FirstInv'
<1>1. TypeOK /\ UNCHANGED pc
  BY DEF IInv, DeleteExpired, Cleanup, ChooseAccounts, SweepAccounts, ChoosePackages,
         SweepPackages, CommitCleanup, DeleteRelease, DeleteDebug, EndCleanup
<1>2. CASE DeleteExpired
  <2>1. /\ cleanup'.runs = cleanup.runs /\ cleanup'.left = cleanup.left
        /\ cleanup'.before.packages = Ids(packages)
        /\ UNCHANGED <<packages, releases>> /\ cleanup = Idle(cleanup.runs)
    <3>1. PICK expired : cleanup' = [cleanup EXCEPT
            !.at = "accounts", !.expired = expired,
            !.components = Ids(components) \cap expired,
            !.notes = Ids(notes) \cap expired,
            !.before = [packages |-> Ids(packages), records |-> Ids(components \cup notes)]]
      BY <1>2 DEF DeleteExpired
    <3>2. UNCHANGED <<packages, releases>> /\ cleanup = Idle(cleanup.runs)
      BY <1>2 DEF DeleteExpired, StoreInv, tables, store
    <3> QED
      BY <1>1, <3>1, <3>2 DEF TypeOK
  <2>2. cleanup.left = {} /\ (cleanup.runs = 0 => ArtifactBeforeRow)
    BY <2>1 DEF Idle, StoreInv, EarlyInv, NoCleanupYet
  <2>3. \A p \in packages : pc[p.id] \in Past
    BY DEF IInv, RowsOfRequests
  <2> QED
    BY <1>1, <2>1, <2>2, <2>3 DEF FirstInv, ArtifactBeforeRow, Ids
<1>3. CASE ChooseAccounts \/ SweepAccounts \/ ChoosePackages \/ SweepPackages
  <2>1. /\ cleanup'.runs = cleanup.runs /\ cleanup'.left = cleanup.left
        /\ cleanup'.before = cleanup.before /\ UNCHANGED <<packages, releases>>
        /\ cleanup.at \notin {"idle", "artifacts"}
    BY <1>1, <1>3
    DEF ChooseAccounts, SweepAccounts, ChoosePackages, SweepPackages, TypeOK, tables, store
  <2> QED
    BY <1>1, <2>1 DEF FirstInv, StoreInv
<1>4. CASE CommitCleanup
  <2>1. /\ cleanup'.runs = cleanup.runs /\ cleanup'.before = cleanup.before
        /\ UNCHANGED releases /\ cleanup.at = "commit" /\ cleanup'.at = "artifacts"
        /\ packages' \subseteq packages
        /\ cleanup'.left = {p.commitment : p \in packages \ packages'} \X {"release", "debug"}
    BY <1>1, <1>4 DEF CommitCleanup, TypeOK, store
  <2>2. \A p \in packages' : \A q \in packages \ packages' : p.commitment # q.commitment
    BY <2>1 DEF IInv, OneRowPerKey
  <2>3. \A p \in packages' : \A kind \in {"release", "debug"} :
          <<p.commitment, kind>> \notin cleanup'.left
    BY <2>1, <2>2
  <2> QED
    BY <1>1, <2>1, <2>3 DEF FirstInv, StoreInv
<1>5. CASE DeleteRelease
  <2>1. PICK c \in Commitments :
          /\ <<c, "release">> \in cleanup.left
          /\ releases' = releases \ {c}
          /\ cleanup' = [cleanup EXCEPT !.left = cleanup.left \ {<<c, "release">>}]
    BY <1>5 DEF DeleteRelease
  <2>2. /\ cleanup'.runs = cleanup.runs /\ cleanup'.before = cleanup.before
        /\ cleanup'.at = cleanup.at /\ cleanup'.left \subseteq cleanup.left
        /\ UNCHANGED packages
    BY <1>1, <1>5, <2>1 DEF DeleteRelease, TypeOK, tables
  <2> QED
    BY <1>1, <2>1, <2>2 DEF FirstInv, StoreInv
<1>6. CASE DeleteDebug
  <2>1. /\ cleanup'.runs = cleanup.runs /\ cleanup'.before = cleanup.before
        /\ cleanup'.at = cleanup.at /\ cleanup'.left \subseteq cleanup.left
        /\ UNCHANGED <<packages, releases>>
    BY <1>1, <1>6 DEF DeleteDebug, TypeOK, tables
  <2> QED
    BY <1>1, <2>1 DEF FirstInv, StoreInv
<1>7. CASE EndCleanup
  BY <1>7 DEF EndCleanup, FirstInv, Idle
<1> QED
  BY <1>2, <1>3, <1>4, <1>5, <1>6, <1>7 DEF Cleanup

-----------------------------------------------------------------------------
(* The theorems.                                                           *)

LEMMA StoreInit == Init => StoreInv
<1> SUFFICES ASSUME Init PROVE StoreInv
  OBVIOUS
<1>1. cleanup = Idle(0) /\ Idle(0).at = "idle" /\ Idle(0).runs = 0
  BY DEF Init, Idle
<1>2. \A r \in Requests : DoneByNow(r)
  BY DEF Init, DoneByNow, NewPackage, InTx
<1>3. ArtifactBeforeRow /\ RecordedWhole /\ AnswersTrue
  BY DEF Init, ArtifactBeforeRow, RecordedWhole, AnswersTrue
<1> QED
  BY <1>1, <1>2, <1>3 DEF StoreInv, EarlyInv, FirstInv

LEMMA StoreNext ==
  ASSUME IInv, StoreInv, [Next]_vars
  PROVE  StoreInv'
<1>1. ASSUME NoCleanupYet'
      PROVE  /\ ArtifactBeforeRow' /\ RecordedWhole' /\ AnswersTrue'
             /\ \A r \in Requests : DoneByNow(r)'
  <2>1. /\ ArtifactBeforeRow /\ RecordedWhole /\ AnswersTrue
        /\ \A r \in Requests : DoneByNow(r)
    BY <1>1, OnlyRequestsYet DEF StoreInv, EarlyInv
  <2>2. CASE \E r \in Requests : Requested(r)
    BY <2>1, <2>2, DoneByNowKept, ArtifactBeforeRowKept, RecordedWholeKept, AnswersTrueKept
  <2>3. CASE UNCHANGED vars
    BY <2>1, <2>3
    DEF vars, tables, store, locals, ArtifactBeforeRow, RecordedWhole, AnswersTrue, Recorded,
        DoneByNow, NewPackage, Ids
  <2> QED
    BY <1>1, <2>2, <2>3, OnlyRequestsYet
<1>2. FirstInv'
  <2>1. CASE UNCHANGED vars
    BY <2>1 DEF vars, tables, store, StoreInv, FirstInv
  <2>2. CASE CleanupFails
    BY <2>2 DEF CleanupFails, FirstInv, Idle
  <2> QED
    BY <2>1, <2>2, RequestKeepsFirst, CleanupKeepsFirst DEF Next, Requested, StoreInv
<1>3. cleanup'.at = "idle" => cleanup' = Idle(cleanup'.runs)
  <2>1. cleanup.at = "idle" => cleanup = Idle(cleanup.runs)
    BY DEF StoreInv
  <2>2. TypeOK /\ \A n \in Nat : Idle(n).runs = n
    BY DEF IInv, Idle
  <2>3. CASE UNCHANGED cleanup
    BY <2>1, <2>3
  <2>4. CASE CleanupFails \/ EndCleanup
    BY <2>2, <2>4 DEF CleanupFails, EndCleanup, TypeOK
  <2>5. CASE DeleteExpired \/ ChooseAccounts \/ SweepAccounts \/ ChoosePackages \/ SweepPackages
    BY <2>2, <2>5
    DEF DeleteExpired, ChooseAccounts, SweepAccounts, ChoosePackages, SweepPackages, TypeOK
  <2>6. CASE CommitCleanup \/ DeleteRelease \/ DeleteDebug
    BY <2>2, <2>6 DEF CommitCleanup, DeleteRelease, DeleteDebug, TypeOK
  <2> QED
    BY <2>3, <2>4, <2>5, <2>6, RequestFrame DEF Next, Cleanup, Requested, vars
<1> QED
  BY <1>1, <1>2, <1>3 DEF StoreInv, EarlyInv

\* IInv and StoreInv hold in every state of the registry.
THEOREM StoreInvariant == Spec => [](IInv /\ StoreInv)
<1>1. Init => IInv /\ StoreInv
  BY InitInv, StoreInit
<1>2. IInv /\ StoreInv /\ [Next]_vars => IInv' /\ StoreInv'
  BY NextInv, StoreNext
<1> QED
  BY <1>1, <1>2, PTL DEF Spec

\* Until a cleanup begins, whatever races and fails, no package's row is there
\* without its artifact, nor its debug build's commitment without the debug
\* build (verify-resource.ts, debug-build.ts).
THEOREM ArtifactsFirst == Spec => [](NoCleanupYet => ArtifactBeforeRow)
<1>1. StoreInv => (NoCleanupYet => ArtifactBeforeRow)
  BY DEF StoreInv, EarlyInv
<1> QED
  BY <1>1, StoreInvariant, PTL

\* Until then, a package or an account code is recorded with a record that uses
\* it, or not at all (verify-resource.ts).
THEOREM WholeOrNothing == Spec => [](NoCleanupYet => RecordedWhole)
<1>1. StoreInv => (NoCleanupYet => RecordedWhole)
  BY DEF StoreInv, EarlyInv
<1> QED
  BY <1>1, StoreInvariant, PTL

\* Until then, who is told that it verified has its record, and who is told 409
\* has somebody's for the same root, and for an account the same package
\* (verify-resource.ts).
THEOREM TruthTold == Spec => [](NoCleanupYet => AnswersTrue)
<1>1. StoreInv => (NoCleanupYet => AnswersTrue)
  BY DEF StoreInv, EarlyInv
<1> QED
  BY <1>1, StoreInvariant, PTL

\* A first cleanup leaves its artifact to every package that was there before
\* it and that it keeps (cleanup-playground.ts).
THEOREM KeptByFirstCleanup == Spec => [](cleanup.runs = 0 => KeptPackagesKeepArtifact)
<1>1. StoreInv => (cleanup.runs = 0 => KeptPackagesKeepArtifact)
  <2>1. Idle(0).before.packages = {}
    BY DEF Idle
  <2> QED
    BY <2>1 DEF StoreInv, FirstInv, KeptPackagesKeepArtifact
<1> QED
  BY <1>1, StoreInvariant, PTL
=============================================================================
