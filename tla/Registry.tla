------------------------------ MODULE Registry ------------------------------
(***************************************************************************)
(* apps/api-registry: what its database and its artifact store hold while  *)
(* verifications (lib/verify-resource.ts), admin debug builds              *)
(* (routes/admin.ts) and the playground's cleanup                          *)
(* (lib/cleanup-playground.ts) run at once.                                *)
(*                                                                         *)
(* Each statement is a step.  Transactions are Postgres's, READ COMMITTED, *)
(* its default: a statement reads what is committed when it starts, an     *)
(* insert waits for an open transaction that holds its unique key, a       *)
(* foreign key check locks the row it finds, and deleting a locked row     *)
(* waits for the lock, then deletes it and cascades.                       *)
(*                                                                         *)
(* An id is a uuid no other insert draws, and a request inserts at most    *)
(* one row into each table: the request's own name stands for its ids.     *)
(***************************************************************************)
EXTENDS Naturals, FiniteSets

CONSTANTS
  Requests,   \* the verifications and admin debug builds
  Inputs,     \* [kind, root, commitment, source] records they may be given
  Cleanups,   \* bound: how many times the cleanup runs
  Cleaner,    \* the cleanup, among the transactions
  NoRow

ASSUME RegistryAssumption ==
  /\ NoRow \notin Requests /\ Cleaner \notin Requests
  /\ Cleanups \in Nat
  /\ \A i \in Inputs : i.kind \in {"account", "note", "debug"}

\* `root` stands for a network and a code or script root on it.
Commitments == {i.commitment : i \in Inputs}
Roots == {i.root : i \in Inputs}
Sources == {i.source : i \in Inputs}
Playground == "miden-playground"

VARIABLES
  packages, accounts, components, notes,  \* the committed rows
  releases, debugs,    \* commitments the store has an artifact of
  input, pc, pkg, acct, debugged,   \* each request's, see TypeOK
  cleanup              \* the cleanup's, see TypeOK

tables == <<packages, accounts, components, notes>>
store == <<releases, debugs>>
locals == <<input, pkg, acct, debugged>>
vars == <<tables, store, locals, pc, cleanup>>

\* Inside db.transaction, past its first insert.
InTx == {"found", "account", "newAccount", "component", "newComponent",
         "note", "newNote", "commit"}
Answers == {"ok", "false", "conflict", "missing", "failed"}
Steps == {"out", "read", "put", "package", "debugPut", "debugRow"} \cup InTx \cup Answers

Package == [id : Requests, commitment : Commitments, debug : BOOLEAN]
Account == [id : Requests, root : Roots]
Component == [id : Requests, account : Requests, package : Requests,
              commitment : Commitments, source : Sources]
Note == [id : Requests, root : Roots, package : Requests, source : Sources]

TypeOK ==
  /\ packages \subseteq Package
  /\ accounts \subseteq Account
  /\ components \subseteq Component
  /\ notes \subseteq Note
  /\ releases \subseteq Commitments /\ debugs \subseteq Commitments
  /\ input \in [Requests -> Inputs \cup {NoRow}]
  /\ pc \in [Requests -> Steps]
  /\ pkg \in [Requests -> Requests \cup {NoRow}]    \* packageId, or stored?.id
  /\ acct \in [Requests -> Requests \cup {NoRow}]   \* verifiedAccountId
  /\ debugged \in [Requests -> BOOLEAN]             \* stored.debugCommitment
  /\ cleanup \in
       [at : {"idle", "accounts", "sweepAccounts", "packages", "sweepPackages",
              "commit", "artifacts"},
        runs : 0..Cleanups,
        expired : SUBSET Requests,      \* ids of the records it is to delete
        chosen : SUBSET Requests,       \* rows its statement is deleting
        components : SUBSET Requests, notes : SUBSET Requests,
        accounts : SUBSET Requests, packages : SUBSET Requests, \* deleted, uncommitted
        left : SUBSET (Commitments \X {"release", "debug"}),    \* artifacts to delete
        \* History, read by no action: the rows there when it began.
        before : [packages : SUBSET Requests, records : SUBSET Requests]]

Ids(rows) == {row.id : row \in rows}

Idle(runs) ==
  [at |-> "idle", runs |-> runs, expired |-> {}, chosen |-> {}, components |-> {},
   notes |-> {}, accounts |-> {}, packages |-> {}, left |-> {},
   before |-> [packages |-> {}, records |-> {}]]

Init ==
  /\ packages = {} /\ accounts = {} /\ components = {} /\ notes = {}
  /\ releases = {} /\ debugs = {}
  /\ input = [r \in Requests |-> NoRow]
  /\ pc = [r \in Requests |-> "out"]
  /\ pkg = [r \in Requests |-> NoRow]
  /\ acct = [r \in Requests |-> NoRow]
  /\ debugged = [r \in Requests |-> FALSE]
  /\ cleanup = Idle(0)

Goto(r, to) == pc' = [pc EXCEPT ![r] = to]

\* The request is over, and with it its variables.
Answer(r, answer) ==
  /\ Goto(r, answer)
  /\ pkg' = [pkg EXCEPT ![r] = NoRow]
  /\ acct' = [acct EXCEPT ![r] = NoRow]
  /\ debugged' = [debugged EXCEPT ![r] = FALSE]
  /\ UNCHANGED input

\* ROLLBACK: the rows r inserted are gone, what it stored is not.
Rollback(r, answer) == Answer(r, answer) /\ UNCHANGED <<tables, store, cleanup>>

\* r's uncommitted rows, that only unique indexes and foreign keys see.
NewPackage(r) == pc[r] \in InTx /\ pkg[r] = r
NewAccount(r) == pc[r] \in InTx /\ acct[r] = r
NewRecord(r) == pc[r] = "commit"

\* A mistaken variant: the package's row is locked as the transaction begins.
PackageLockedEarly(r, id) == pc[r] \in InTx /\ pkg[r] = id

\* A row an uncommitted record's foreign key keeps locked.
PackageLocked(r, id) == NewRecord(r) /\ pkg[r] = id
AccountLocked(r, id) == NewRecord(r) /\ input[r].kind = "account" /\ acct[r] = id

\* The open transactions that r's next statement waits for: the ones that
\* inserted its unique key, and the cleanup when it deleted the row with that
\* key, or the row a foreign key or an UPDATE needs.
Holders(r) ==
  LET others == Requests \ {r}
      deleting(rows, ids) == IF Ids(rows) \cap ids = {} THEN {} ELSE {Cleaner}
      of(rows, id) == {row \in rows : row.id = id}
  IN CASE pc[r] = "package" ->
            {q \in others : NewPackage(q) /\ input[q].commitment = input[r].commitment}
            \cup deleting({p \in packages : p.commitment = input[r].commitment},
                          cleanup.packages)
       [] pc[r] = "newAccount" ->
            {q \in others : NewAccount(q) /\ input[q].root = input[r].root}
            \cup deleting({a \in accounts : a.root = input[r].root}, cleanup.accounts)
       [] pc[r] = "newComponent" ->
            deleting(of(accounts, acct[r]), cleanup.accounts)
            \cup deleting(of(packages, pkg[r]), cleanup.packages)
       [] pc[r] = "newNote" ->
            {q \in others : NewRecord(q) /\ input[q].kind = "note"
                                         /\ input[q].root = input[r].root}
            \cup deleting({n \in notes : n.root = input[r].root}, cleanup.notes)
            \cup deleting(of(packages, pkg[r]), cleanup.packages)
       [] pc[r] = "debugRow" -> deleting(of(packages, pkg[r]), cleanup.packages)
       [] OTHER -> {}

\* And the ones the cleanup's DELETE waits for.
CleanupHolders ==
  CASE cleanup.at = "sweepAccounts" ->
         {r \in Requests : \E id \in cleanup.chosen : AccountLocked(r, id)}
    [] cleanup.at = "sweepPackages" ->
         {r \in Requests : \E id \in cleanup.chosen : PackageLocked(r, id)}
    [] OTHER -> {}

\* A foreign key to r's own row, or to a committed one.
PackageExists(r) == pkg[r] = r \/ pkg[r] \in Ids(packages)
AccountExists(r) == acct[r] = r \/ acct[r] \in Ids(accounts)

\* Visible to the cleanup's own transaction.
LeftComponents == {c \in components : c.id \notin cleanup.components}
LeftNotes == {n \in notes : n.id \notin cleanup.notes}

-----------------------------------------------------------------------------
(* verifyResource, and the admin's debug build.                            *)

First(r) == IF input[r].kind = "account" THEN "account" ELSE "note"

\* Variants with one plausible mistake each.

\* The artifact's put is not awaited, and its failure goes unseen.
PutReleaseUnchecked(r) ==
  /\ pc[r] = "put"
  /\ releases' \in {releases, releases \cup {input[r].commitment}}
  /\ Goto(r, "package")
  /\ UNCHANGED <<tables, debugs, locals, cleanup>>

\* The artifact is filed under the root the verifier read.
PutReleaseByRoot(r) ==
  /\ pc[r] = "put"
  /\ releases' = releases \cup {input[r].root}
  /\ Goto(r, "package")
  /\ UNCHANGED <<tables, debugs, locals, cleanup>>

\* packages_commitment_idx is missing.
InsertPackageTwice(r) ==
  /\ pc[r] = "package"
  /\ Goto(r, First(r))
  /\ pkg' = [pkg EXCEPT ![r] = r]
  /\ UNCHANGED <<tables, store, input, acct, debugged, cleanup>>

\* The package is inserted with db, not tx.
InsertPackageOutsideTx(r) ==
  /\ pc[r] = "package"
  /\ Holders(r) = {}
  /\ IF input[r].commitment \in {p.commitment : p \in packages}
     THEN Goto(r, "found") /\ UNCHANGED <<packages, pkg>>
     ELSE /\ Goto(r, First(r))
          /\ pkg' = [pkg EXCEPT ![r] = r]
          /\ packages' = packages \cup
               {[id |-> r, commitment |-> input[r].commitment, debug |-> FALSE]}
  /\ UNCHANGED <<accounts, components, notes, store, input, acct, debugged, cleanup>>

\* A unique violation is retried, without reading the account again.
InsertAccountRetries(r) ==
  /\ pc[r] = "newAccount"
  /\ Holders(r) = {}
  /\ input[r].root \notin {a.root : a \in accounts}
  /\ acct' = [acct EXCEPT ![r] = r]
  /\ Goto(r, "component")
  /\ UNCHANGED <<tables, store, input, pkg, debugged, cleanup>>

\* The component is looked up by its account alone.
FindComponentOfAccount(r) ==
  /\ pc[r] = "component"
  /\ IF \E c \in components : c.account = acct[r]
     THEN Rollback(r, "conflict")
     ELSE /\ Goto(r, "newComponent")
          /\ UNCHANGED <<tables, store, locals, cleanup>>

\* The columns are plain uuids, without REFERENCES.
InsertComponentUnchecked(r) ==
  /\ pc[r] = "newComponent"
  /\ Goto(r, "commit")
  /\ UNCHANGED <<tables, store, locals, cleanup>>

\* The packages' notExists over the notes is missing.
ChoosePackagesIgnoresNotes ==
  /\ cleanup.at = "packages"
  /\ cleanup' = [cleanup EXCEPT
       !.at = "sweepPackages",
       !.chosen = {n.package : n \in {m \in components \cup notes : m.id \in cleanup.expired}}
                    \ {c.package : c \in LeftComponents}]
  /\ UNCHANGED <<tables, store, locals, pc>>

\* The artifacts of all the records' packages go, not of the deleted rows.
CommitCleanupDropsAll ==
  /\ cleanup.at = "commit"
  /\ packages' = {p \in packages : p.id \notin cleanup.packages}
  /\ accounts' = {a \in accounts : a.id \notin cleanup.accounts}
  /\ components' = LeftComponents
  /\ notes' = LeftNotes
  /\ LET recorded == {n.package : n \in {m \in components \cup notes : m.id \in cleanup.expired}} IN
     cleanup' = [cleanup EXCEPT
       !.at = "artifacts",
       !.packages = {}, !.accounts = {}, !.components = {}, !.notes = {},
       !.left = {p.commitment : p \in {q \in packages : q.id \in recorded}}
                  \X {"release", "debug"}]
  /\ UNCHANGED <<store, locals, pc>>

-----------------------------------------------------------------------------

\* A request comes in.  apiCompile.verify has answered that the sources do not
\* verify, or that they do, with the root and the commitment.
Arrive(r) ==
  /\ pc[r] = "out"
  /\ \/ \E i \in Inputs : input' = [input EXCEPT ![r] = i] /\ Goto(r, "read")
     \/ UNCHANGED input /\ Goto(r, "false")
  /\ UNCHANGED <<tables, store, pkg, acct, debugged, cleanup>>

\* getPackage(commitment), outside any transaction.
ReadStored(r) ==
  /\ pc[r] = "read"
  /\ LET stored == {p \in packages : p.commitment = input[r].commitment} IN
     \/ /\ stored = {}
        /\ Goto(r, IF input[r].kind = "debug" THEN "missing" ELSE "put")
        /\ UNCHANGED locals
     \/ \E p \in stored :
          /\ input[r].kind = "debug" /\ p.debug
          /\ Answer(r, "ok")
     \/ \E p \in stored :
          /\ ~(input[r].kind = "debug" /\ p.debug)
          /\ pkg' = [pkg EXCEPT ![r] = p.id]
          /\ debugged' = [debugged EXCEPT ![r] = p.debug]
          /\ Goto(r, IF input[r].kind = "debug" THEN "debugPut" ELSE First(r))
          /\ UNCHANGED <<input, acct>>
  /\ UNCHANGED <<tables, store, cleanup>>

\* maspStore.put(commitment, masp)
PutRelease(r) ==
  /\ pc[r] = "put"
  /\ releases' = releases \cup {input[r].commitment}
  /\ Goto(r, "package")
  /\ UNCHANGED <<tables, debugs, locals, cleanup>>

\* insertPackage's INSERT ... ON CONFLICT (commitment) DO NOTHING.
InsertPackage(r) ==
  /\ pc[r] = "package"
  /\ Holders(r) = {}
  /\ IF input[r].commitment \in {p.commitment : p \in packages}
     THEN Goto(r, "found") /\ UNCHANGED pkg
     ELSE Goto(r, First(r)) /\ pkg' = [pkg EXCEPT ![r] = r]
  /\ UNCHANGED <<tables, store, input, acct, debugged, cleanup>>

\* insertPackage's findFirst, after a conflict.
FindPackage(r) ==
  /\ pc[r] = "found"
  /\ \/ \E p \in packages :
          /\ p.commitment = input[r].commitment
          /\ pkg' = [pkg EXCEPT ![r] = p.id]
          /\ Goto(r, First(r))
          /\ UNCHANGED <<tables, store, input, acct, debugged, cleanup>>
     \/ /\ input[r].commitment \notin {p.commitment : p \in packages}
        /\ Rollback(r, "failed")

\* insertAccountComponent
FindAccount(r) ==
  /\ pc[r] = "account"
  /\ \/ \E a \in accounts :
          /\ a.root = input[r].root
          /\ acct' = [acct EXCEPT ![r] = a.id]
          /\ Goto(r, "component")
     \/ /\ input[r].root \notin {a.root : a \in accounts}
        /\ Goto(r, "newAccount")
        /\ UNCHANGED acct
  /\ UNCHANGED <<tables, store, input, pkg, debugged, cleanup>>

\* A row another request inserted since is a unique violation: it throws.
InsertAccount(r) ==
  /\ pc[r] = "newAccount"
  /\ Holders(r) = {}
  /\ IF input[r].root \in {a.root : a \in accounts}
     THEN Rollback(r, "failed")
     ELSE /\ acct' = [acct EXCEPT ![r] = r]
          /\ Goto(r, "component")
          /\ UNCHANGED <<tables, store, input, pkg, debugged, cleanup>>

FindComponent(r) ==
  /\ pc[r] = "component"
  /\ IF \E c \in components :
          c.account = acct[r] /\ c.commitment = input[r].commitment
     THEN Rollback(r, "conflict")
     ELSE /\ Goto(r, "newComponent")
          /\ UNCHANGED <<tables, store, locals, cleanup>>

InsertComponent(r) ==
  /\ pc[r] = "newComponent"
  /\ Holders(r) = {}
  /\ IF AccountExists(r) /\ PackageExists(r)
     THEN /\ Goto(r, "commit")
          /\ UNCHANGED <<tables, store, locals, cleanup>>
     ELSE Rollback(r, "failed")

\* insertNote
FindNote(r) ==
  /\ pc[r] = "note"
  /\ IF input[r].root \in {n.root : n \in notes}
     THEN Rollback(r, "conflict")
     ELSE /\ Goto(r, "newNote")
          /\ UNCHANGED <<tables, store, locals, cleanup>>

InsertNote(r) ==
  /\ pc[r] = "newNote"
  /\ Holders(r) = {}
  /\ IF input[r].root \notin {n.root : n \in notes} /\ PackageExists(r)
     THEN /\ Goto(r, "commit")
          /\ UNCHANGED <<tables, store, locals, cleanup>>
     ELSE Rollback(r, "failed")

\* The rows r's transaction publishes when it commits.
PublishPackage(r) ==
  packages' = packages \cup
    IF pkg[r] = r
    THEN {[id |-> r, commitment |-> input[r].commitment, debug |-> FALSE]} ELSE {}

PublishAccountComponent(r) ==
  /\ accounts' = accounts \cup
       IF acct[r] = r THEN {[id |-> r, root |-> input[r].root]} ELSE {}
  /\ components' = components \cup
       {[id |-> r, account |-> acct[r], package |-> pkg[r],
         commitment |-> input[r].commitment, source |-> input[r].source]}
  /\ UNCHANGED notes

PublishNote(r) ==
  /\ notes' = notes \cup
       {[id |-> r, root |-> input[r].root, package |-> pkg[r], source |-> input[r].source]}
  /\ UNCHANGED <<accounts, components>>

\* COMMIT.  What comes next is the debug build, when this is an account whose
\* package has none and api-compile answered one, else the answer; or the
\* connection is lost with the rows in.
Commit(r) ==
  /\ pc[r] = "commit"
  /\ PublishPackage(r)
  /\ IF input[r].kind = "account" THEN PublishAccountComponent(r) ELSE PublishNote(r)
  /\ \/ Answer(r, "ok") \/ Answer(r, "failed")
     \/ /\ input[r].kind = "account" /\ ~debugged[r]
        /\ Goto(r, "debugPut") /\ UNCHANGED locals
  /\ UNCHANGED <<store, cleanup>>

\* storeDebugBuild: artifact, then row.  An UPDATE waits for a delete, then
\* finds no row.
PutDebug(r) ==
  /\ pc[r] = "debugPut"
  /\ debugs' = debugs \cup {input[r].commitment}
  /\ Goto(r, "debugRow")
  /\ UNCHANGED <<tables, releases, locals, cleanup>>

UpdatePackage(r) ==
  /\ pc[r] = "debugRow"
  /\ Holders(r) = {}
  /\ packages' = {IF p.id = pkg[r] THEN [p EXCEPT !.debug = TRUE] ELSE p : p \in packages}
  /\ Answer(r, "ok")
  /\ UNCHANGED <<accounts, components, notes, store, cleanup>>

\* The database or the store fails, or the process dies: the transaction, if
\* one is open, is rolled back.  A debug build's failure is only logged.
Fails(r) ==
  \/ pc[r] \in {"read", "put", "package"} \cup InTx /\ Rollback(r, "failed")
  \/ /\ pc[r] \in {"debugPut", "debugRow"}
     /\ Rollback(r, IF input[r].kind = "debug" THEN "failed" ELSE "ok")

-----------------------------------------------------------------------------
(* cleanupPlaygroundResources.                                             *)

\* The playground's records older than a day, so of requests answered since.
DeleteExpired ==
  /\ cleanup.at = "idle"
  /\ cleanup.runs < Cleanups
  /\ \E expired \in SUBSET {row.id : row \in {n \in components \cup notes :
                        n.source = Playground /\ pc[n.id] \in Answers}} :
       cleanup' = [cleanup EXCEPT
         !.at = "accounts",
         !.expired = expired,
         !.components = Ids(components) \cap expired,
         !.notes = Ids(notes) \cap expired,
         !.before = [packages |-> Ids(packages), records |-> Ids(components \cup notes)]]
  /\ UNCHANGED <<tables, store, locals, pc>>

\* The account codes of those components that no component is left of.
ChooseAccounts ==
  /\ cleanup.at = "accounts"
  /\ cleanup' = [cleanup EXCEPT
       !.at = "sweepAccounts",
       !.chosen = {c.account : c \in {d \in components : d.id \in cleanup.expired}}
                    \ {c.account : c \in LeftComponents}]
  /\ UNCHANGED <<tables, store, locals, pc>>

SweepAccounts ==
  /\ cleanup.at = "sweepAccounts"
  /\ CleanupHolders = {}
  /\ cleanup' = [cleanup EXCEPT
       !.at = "packages",
       !.accounts = cleanup.chosen,
       !.components = @ \cup Ids({c \in components : c.account \in cleanup.chosen}),
       !.chosen = {}]
  /\ UNCHANGED <<tables, store, locals, pc>>

\* The packages of those records that no record is left of.
ChoosePackages ==
  /\ cleanup.at = "packages"
  /\ cleanup' = [cleanup EXCEPT
       !.at = "sweepPackages",
       !.chosen = {n.package : n \in {m \in components \cup notes : m.id \in cleanup.expired}}
                    \ {n.package : n \in LeftComponents \cup LeftNotes}]
  /\ UNCHANGED <<tables, store, locals, pc>>

SweepPackages ==
  /\ cleanup.at = "sweepPackages"
  /\ CleanupHolders = {}
  /\ cleanup' = [cleanup EXCEPT
       !.at = "commit",
       !.packages = cleanup.chosen,
       !.components = @ \cup Ids({c \in components : c.package \in cleanup.chosen}),
       !.notes = @ \cup Ids({n \in notes : n.package \in cleanup.chosen}),
       !.chosen = {}]
  /\ UNCHANGED <<tables, store, locals, pc>>

CommitCleanup ==
  /\ cleanup.at = "commit"
  /\ packages' = {p \in packages : p.id \notin cleanup.packages}
  /\ accounts' = {a \in accounts : a.id \notin cleanup.accounts}
  /\ components' = LeftComponents
  /\ notes' = LeftNotes
  /\ cleanup' = [cleanup EXCEPT
       !.at = "artifacts",
       !.packages = {}, !.accounts = {}, !.components = {}, !.notes = {},
       !.left = {p.commitment : p \in packages \ packages'} \X {"release", "debug"}]
  /\ UNCHANGED <<store, locals, pc>>

\* One commitment after the other, the release build before the debug build.
DeleteRelease ==
  /\ cleanup.at = "artifacts"
  /\ \E c \in Commitments :
       /\ <<c, "release">> \in cleanup.left
       /\ \A other \in Commitments :
            <<other, "debug">> \in cleanup.left => <<other, "release">> \in cleanup.left
       /\ releases' = releases \ {c}
       /\ cleanup' = [cleanup EXCEPT !.left = @ \ {<<c, "release">>}]
  /\ UNCHANGED <<tables, debugs, locals, pc>>

DeleteDebug ==
  /\ cleanup.at = "artifacts"
  /\ \E c \in Commitments :
       /\ <<c, "debug">> \in cleanup.left /\ <<c, "release">> \notin cleanup.left
       /\ debugs' = debugs \ {c}
       /\ cleanup' = [cleanup EXCEPT !.left = @ \ {<<c, "debug">>}]
  /\ UNCHANGED <<tables, releases, locals, pc>>

EndCleanup ==
  /\ cleanup.at = "artifacts" /\ cleanup.left = {}
  /\ cleanup' = Idle(cleanup.runs + 1)
  /\ UNCHANGED <<tables, store, locals, pc>>

\* A rollback before the commit; after it, what is left to delete stays.
CleanupFails ==
  /\ cleanup.at # "idle"
  /\ cleanup' = Idle(cleanup.runs + 1)
  /\ UNCHANGED <<tables, store, locals, pc>>

-----------------------------------------------------------------------------
Verify(r) ==
  \/ ReadStored(r) \/ PutRelease(r) \/ InsertPackage(r) \/ FindPackage(r)
  \/ FindAccount(r) \/ InsertAccount(r) \/ FindComponent(r) \/ InsertComponent(r)
  \/ FindNote(r) \/ InsertNote(r) \/ Commit(r) \/ PutDebug(r) \/ UpdatePackage(r)

Cleanup ==
  \/ ChooseAccounts \/ SweepAccounts \/ ChoosePackages \/ SweepPackages
  \/ CommitCleanup \/ DeleteRelease \/ DeleteDebug \/ EndCleanup

Next ==
  \/ \E r \in Requests : Arrive(r) \/ Verify(r) \/ Fails(r)
  \/ DeleteExpired \/ Cleanup \/ CleanupFails

\* A statement that does not wait for a lock returns.
Fairness ==
  /\ \A r \in Requests : WF_vars(Verify(r))
  /\ WF_vars(Cleanup)

Spec == Init /\ [][Next]_vars /\ Fairness
=============================================================================
