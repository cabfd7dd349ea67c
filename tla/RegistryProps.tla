--------------------------- MODULE RegistryProps ----------------------------
(***************************************************************************)
(* What Registry.tla is checked for, and the inputs it is checked with.    *)
(***************************************************************************)
EXTENDS Registry, TLC

-----------------------------------------------------------------------------
(* With or without the cleanup.                                            *)

\* However verifications of the same new package, account code or note race,
\* there is one row for each (schema.ts's unique indexes, behind the read and
\* the insert of verifyResource).
OneRowPerKey ==
  /\ \A p, q \in packages : p.commitment = q.commitment => p = q
  /\ \A a, b \in accounts : a.root = b.root => a = b
  /\ \A m, n \in notes : m.root = n.root => m = n

\* A record never points to a package or an account code that is gone, also
\* when the cleanup deletes them as it is inserted (schema.ts's references).
ReferencesLive ==
  /\ \A c \in components :
       /\ c.account \in Ids(accounts)
       /\ \E p \in packages : p.id = c.package /\ p.commitment = c.commitment
  /\ \A n \in notes : n.package \in Ids(packages)

\* Verifications and the cleanup never wait for each other in a circle: of any
\* of them, one waits for none of the others.  Their statements take packages
\* and account codes in different orders (insertPackage before
\* insertAccountComponent, the cleanup's accounts before its packages).
NobodyWaitsInCircle ==
  \A open \in (SUBSET (Requests \cup {Cleaner})) \ {{}} :
    \E t \in open :
      (IF t = Cleaner THEN CleanupHolders ELSE Holders(t)) \cap open = {}

\* Every verification is answered, whatever it waits for.
EveryRequestAnswered == \A r \in Requests : pc[r] = "read" ~> pc[r] \in Answers

-----------------------------------------------------------------------------
(* As long as no cleanup runs.                                             *)

\* "A package never exists without its artifact" (verify-resource.ts), nor its
\* debug build's commitment without the debug build (debug-build.ts), whatever
\* fails in between.
ArtifactBeforeRow ==
  \A p \in packages :
    /\ p.commitment \in releases
    /\ p.debug => p.commitment \in debugs

\* "A verification is recorded whole or not at all": no package and no account
\* code exists without a record that uses it.
RecordedWhole ==
  /\ \A p \in packages : \E n \in components \cup notes : n.package = p.id
  /\ \A a \in accounts : \E c \in components : c.account = a.id

Recorded(r) ==
  IF input[r].kind = "account"
  THEN \E c \in components, a \in accounts :
         c.account = a.id /\ a.root = input[r].root /\ c.commitment = input[r].commitment
  ELSE \E n \in notes : n.root = input[r].root

\* The answers are true: a request told that it verified has its own record,
\* one told 409 has somebody's for the same root, and for an account by this
\* very package.
AnswersTrue ==
  \A r \in Requests :
    /\ pc[r] = "ok" /\ input[r].kind # "debug" => r \in Ids(components \cup notes)
    /\ pc[r] = "conflict" => Recorded(r) /\ r \notin Ids(components \cup notes)

-----------------------------------------------------------------------------
(* The cleanup.                                                            *)

\* What was recorded before a cleanup began, it deletes only when it is the
\* playground's and expired, by whatever way: directly, or by the cascades from
\* its account code or its package ("A package or account code another source
\* also verified stays").
EarlierRecordsStay ==
  [][ \A n \in components \cup notes :
        /\ n \notin components' \cup notes'
        /\ n.id \in cleanup.before.records
        => n.source = Playground /\ n.id \in cleanup.expired ]_vars

\* A package that was there before the cleanup and that it keeps, keeps its
\* artifact.
KeptPackagesKeepArtifact ==
  \A p \in packages : p.id \in cleanup.before.packages => p.commitment \in releases

-----------------------------------------------------------------------------
(* What the comments say and the code does not ensure.                     *)

\* "Throws a 409 when the root is already verified: for an account, by this
\* very package" (verify-resource.ts): no package is a component of an account
\* code twice.
ComponentOnce ==
  \A c, d \in components :
    c.account = d.account /\ c.commitment = d.commitment => c = d

\* "Deleted after the rows, so a row never outlives its artifact"
\* (cleanup-playground.ts).
RowHasArtifact == \A p \in packages : p.commitment \in releases

\* "A package or account code another source also verified stays"
\* (cleanup-playground.ts): no record of another source is ever deleted.
OthersStay ==
  [][ \A n \in components \cup notes :
        n.source # Playground => n \in components' \cup notes' ]_vars

-----------------------------------------------------------------------------
(* Inputs for TLC.  Two networks' roots of one note script share a package;  *)
(* an account code has two components, one of which another code may have.   *)

\* Requests are alike: sound where no liveness property is checked.
Symmetry == Permutations(Requests)

Ask(kind, root, commitment, source) ==
  [kind |-> kind, root |-> root, commitment |-> commitment, source |-> source]

RaceInputs ==
  { Ask("account", "a1", "p1", "unknown"), Ask("account", "a1", "p2", "unknown"),
    Ask("note", "n1", "p3", "unknown"), Ask("note", "n2", "p3", "unknown"),
    Ask("debug", "", "p1", "") }

CleanupInputs ==
  { Ask("account", "a1", "p1", Playground), Ask("account", "a2", "p2", Playground),
    Ask("account", "a1", "p2", "unknown"),
    Ask("note", "n1", "p3", Playground), Ask("note", "n2", "p3", "unknown") }

DuplicateInputs ==
  { Ask("account", "a1", "p1", "unknown"), Ask("account", "a1", "p2", "unknown"),
    Ask("account", "a2", "p1", "unknown") }
=============================================================================
