------------------------------- MODULE Lookup -------------------------------
(***************************************************************************)
(* Looking a resource up: the web-viewer's page (its form, its URL, the    *)
(* navbar's switch of networks) or any client of the registry; the         *)
(* registry's routes by id and by root; api-compile's import behind the    *)
(* Worker, run by miden-import against the node; and what all of them make *)
(* of a failure.  Meanwhile resources appear, accounts are upgraded and    *)
(* records are added: each network has one account and one note.           *)
(***************************************************************************)
EXTENDS Naturals, FiniteSets

CONSTANTS ServedNetworks, HomeNetwork,  \* the registry's, and the address's
          LocalNetwork,                 \* one only miden-import knows
          UnknownNetwork,               \* one that nobody knows
          CodeRoots,                    \* roots of code on chain
          MaxHappenings                 \* changes of the world: a bound

VARIABLE lookup, chain, recorded

lookupVars == <<lookup, chain, recorded>>

ASSUME LookupAssumption == HomeNetwork \in ServedNetworks /\ MaxHappenings \in Nat

AnyNetwork == ServedNetworks \cup {LocalNetwork, UnknownNetwork}
ResourceKinds == {"account", "note"}
Ids == {"account_id", "address", "note_id", "malformed"}

\* parseResourceId, here and in miden-import.
IdKind(id) ==
    CASE id \in {"account_id", "address"} -> "account"
      [] id = "note_id" -> "note"
      [] OTHER -> "none"

Elsewhere(id, network) == id = "address" /\ network # HomeNetwork

\* What miden-import finds: a root, or that there is nothing to find.
OnChain(onChain, network, id) ==
    IF network = UnknownNetwork \/ IdKind(id) = "none" \/ Elsewhere(id, network) THEN "none"
    ELSE onChain[network][IdKind(id)]

Record(network, kind, root) == [network |-> network, kind |-> kind, root |-> root]

\* Whether a lookup has a record to find, by the id it was asked for or by root.
HasRecord(l, onChain, records) ==
    IF l.via = "root" THEN Record(l.network, l.kind, l.root) \in records
    ELSE /\ IdKind(l.id) = l.kind
         /\ Record(l.network, l.kind, OnChain(onChain, l.network, l.id)) \in records

NoLookup == [pc |-> "idle", via |-> "page", network |-> HomeNetwork, kind |-> "note",
             id |-> "malformed", root |-> "none", imported |-> "none", status |-> 0,
             result |-> "none", failed |-> FALSE, missing |-> FALSE, happened |-> 0]

LookupInit ==
    /\ lookup = NoLookup
    /\ chain = [n \in AnyNetwork \ {UnknownNetwork} |-> [k \in ResourceKinds |-> "none"]]
    /\ recorded = {}

-----------------------------------------------------------------------------
\* The world: a resource appears, public or private, an account's code is
\* replaced, what is on chain is verified.
World(newChain, newRecords) ==
    /\ lookup.happened < MaxHappenings
    /\ chain' = newChain
    /\ recorded' = newRecords
    /\ lookup' = [lookup EXCEPT !.happened = @ + 1,
                    !.missing = @ \/ ~HasRecord(lookup, newChain, newRecords)]

Appears(n, k) ==
    /\ chain[n][k] = "none"
    /\ \E code \in CodeRoots \cup {"private"} : World([chain EXCEPT ![n][k] = code], recorded)

Upgraded(n) ==
    /\ chain[n]["account"] \in CodeRoots
    /\ \E code \in CodeRoots \ {chain[n]["account"]} :
         World([chain EXCEPT ![n]["account"] = code], recorded)

\* miden-verifier reads what the id names; the registry records it under the
\* route's kind, whatever kind it turned out to be.
VerifierReads(n, id) == OnChain(chain, n, id)

Verified(n, id, route) ==
    LET record == Record(n, route, VerifierReads(n, id)) IN
    /\ record.root \in CodeRoots
    /\ record \notin recorded
    /\ World(chain, recorded \cup {record})

-----------------------------------------------------------------------------
Unchanged == UNCHANGED <<chain, recorded>>
Go(next) == lookup' = next /\ Unchanged

Begin(via, network, kind, id, root) ==
    LET l == [NoLookup EXCEPT !.via = via, !.network = network, !.kind = kind, !.id = id,
                              !.root = root, !.happened = lookup.happened,
                              !.pc = IF via = "page" THEN "page" ELSE "registry"]
    IN  Go([l EXCEPT !.missing = ~HasRecord(l, chain, recorded)])

\* The form: resourcePath is null for an id that is none, or of another
\* network; an address links by the account's id.
Browse ==
    \E n \in ServedNetworks, id \in Ids :
        /\ lookup.pc = "idle" /\ IdKind(id) # "none" /\ ~Elsewhere(id, n)
        /\ Begin("page", n, IdKind(id), IF id = "address" THEN "account_id" ELSE id, "none")

\* A link, or a hand-written address.
FollowUrl ==
    /\ lookup.pc = "idle"
    /\ \E n \in AnyNetwork, k \in ResourceKinds, id \in Ids : Begin("page", n, k, id, "none")

\* useNetwork: the same resource on another network.
SwitchNetwork ==
    /\ lookup.pc = "done" /\ lookup.via = "page" /\ lookup.network \in ServedNetworks
    /\ \E n \in ServedNetworks \ {lookup.network} : Begin("page", n, lookup.kind, lookup.id, "none")

\* The registry's routes, asked by any other client.
AskAccountById(n, id) == lookup.pc = "idle" /\ Begin("id", n, "account", id, "none")
AskNoteById(n, id) == lookup.pc = "idle" /\ Begin("id", n, "note", id, "none")
AskAccountByRoot(n, root) == lookup.pc = "idle" /\ Begin("root", n, "account", "malformed", root)
AskNoteByRoot(n, root) == lookup.pc = "idle" /\ Begin("root", n, "note", "malformed", root)

Ask ==
    \E n \in AnyNetwork :
        \/ \E id \in Ids : AskAccountById(n, id) \/ AskNoteById(n, id)
        \/ \E root \in CodeRoots \cup {"malformed"} : AskAccountByRoot(n, root) \/ AskNoteByRoot(n, root)

\* loadResourcePage: a network that is not served is a 404 of the whole app.
PageLoads ==
    /\ lookup.pc = "page"
    /\ Go([lookup EXCEPT !.pc = IF lookup.network \in ServedNetworks THEN "registry" ELSE "done",
                         !.result = IF lookup.network \in ServedNetworks THEN @ ELSE "error"])

\* parseRoot, or findVerifiedRecord's call of api-compile.
RegistryGets ==
    /\ lookup.pc = "registry"
    /\ Go(CASE lookup.via # "root" -> [lookup EXCEPT !.pc = "import"]
            [] lookup.via = "root" /\ lookup.root = "malformed" ->
                 [lookup EXCEPT !.pc = "answered", !.status = 400]
            [] OTHER -> [lookup EXCEPT !.pc = "rows"])

\* Variant with one plausible mistake: every failed run is a 404.
ImportStatusAlways(rejected) == 404

\* The import route, of a run that failed.
ImportStatus(rejected) == IF rejected THEN 404 ELSE 502

\* miden-import: an exit code of 2 when the resource is not there, public, or
\* nameable; else its JSON.
ToolEnds ==
    LET root == OnChain(chain, lookup.network, lookup.id) IN
    /\ lookup.pc = "import"
    /\ Go(IF root \in CodeRoots
          THEN [lookup EXCEPT !.pc = "returned", !.status = 200, !.root = root,
                              !.imported = IdKind(lookup.id)]
          ELSE [lookup EXCEPT !.pc = "returned", !.status = ImportStatus(TRUE)])

\* It exits with 1 (the node, the store), is killed at its timeout, cannot be
\* spawned, or prints no result.
ToolFails ==
    /\ lookup.pc = "import"
    /\ Go([lookup EXCEPT !.pc = "returned", !.status = ImportStatus(FALSE), !.failed = TRUE])

\* fetchJson: unreachable or not JSON is a 502, the registry's timeout and the
\* Worker's a 504, an error of the Worker its 500.
ImportLost ==
    /\ lookup.pc \in {"import", "returned"}
    /\ \E status \in {500, 502, 504} :
         Go([lookup EXCEPT !.pc = "answered", !.status = status, !.failed = TRUE])

\* errorHandler, here and in api-compile: the status an error carries, if it is
\* one of an error.
StatusOf(carried) == IF carried \in 400..599 THEN carried ELSE 500

\* findVerifiedRecord: a 404 is a miss, and so is a resource of the other kind;
\* any other failure passes through.
RegistryHears ==
    /\ lookup.pc = "returned"
    /\ Go(CASE lookup.status # 200 ->
                 [lookup EXCEPT !.pc = "answered", !.status = StatusOf(lookup.status)]
            [] lookup.status = 200 /\ lookup.imported # lookup.kind ->
                 [lookup EXCEPT !.pc = "answered", !.status = 404]
            [] OTHER -> [lookup EXCEPT !.pc = "rows"])

\* findVerifiedRecordByRoot; a database that fails is a 500.
ReadRows ==
    /\ lookup.pc = "rows"
    /\ \/ Go([lookup EXCEPT !.pc = "answered",
                !.status = IF Record(lookup.network, lookup.kind, lookup.root) \in recorded
                           THEN 200 ELSE 404])
       \/ Go([lookup EXCEPT !.pc = "answered", !.status = StatusOf(0), !.failed = TRUE])

\* getVerifiedResource and the pages' boundaries; a client of the API reads
\* the status the same way.
Shown(status) ==
    CASE status = 200 -> "verified"
      [] status = 404 -> "not_verified"
      [] status \in 502..504 -> "temporary"
      [] OTHER -> "error"

Show ==
    /\ lookup.pc = "answered"
    /\ \/ Go([lookup EXCEPT !.pc = "done", !.result = Shown(lookup.status)])
       \/ Go([lookup EXCEPT !.pc = "done", !.result = "error", !.failed = TRUE])

LookupNext ==
    \/ \E n \in DOMAIN chain :
          \/ Upgraded(n)
          \/ \E k \in ResourceKinds : Appears(n, k)
          \/ \E id \in Ids, route \in ResourceKinds : Verified(n, id, route)
    \/ Browse \/ FollowUrl \/ SwitchNetwork \/ Ask
    \/ PageLoads \/ RegistryGets \/ ToolEnds \/ ToolFails \/ ImportLost \/ RegistryHears
    \/ ReadRows \/ Show

-----------------------------------------------------------------------------
\* "Not verified" is said only when at some moment of the lookup there was no
\* record to find, and never because a step on the way failed; a record that
\* was there all along is found unless some step failed, and a page of one is
\* of a record there is: findVerifiedRecord's comment ("Any other failure of
\* the import passes through, as it says nothing about the registry").
NotVerifiedMeansNoRecord ==
    lookup.pc = "done" =>
        /\ lookup.result = "not_verified" => lookup.missing
        /\ lookup.result = "verified" => Record(lookup.network, lookup.kind, lookup.root) \in recorded
        /\ lookup.result = "temporary" => lookup.failed
        /\ lookup.result = "error" =>
             \/ lookup.failed
             \/ lookup.via = "page" /\ lookup.network \notin ServedNetworks
             \/ lookup.via = "root" /\ lookup.root = "malformed"
=============================================================================
