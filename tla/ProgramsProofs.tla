--------------------------- MODULE ProgramsProofs ---------------------------
(***************************************************************************)
(* Theorems of Programs: what its parts that work alone keep, each for any *)
(* networks, roots, directories or bounds.  A behaviour is one program, so *)
(* each invariant is the running program's own, and holds of the others    *)
(* because they are off.                                                   *)
(***************************************************************************)
EXTENDS Programs, Integers, FiniteSetTheorems, WellFoundedInduction, TLAPS

-----------------------------------------------------------------------------
(* A lookup (Lookup).                                                      *)

Pcs == {"idle", "page", "registry", "import", "returned", "rows", "answered", "done"}
Statuses == {0, 200, 400, 404, 500, 502, 504}
Results == {"none", "verified", "not_verified", "temporary", "error"}
LookupRoots == CodeRoots \cup {"none", "malformed"}
ImportKinds == ResourceKinds \cup {"none"}

LookupSet ==
    [pc : Pcs, via : {"page", "id", "root"}, network : AnyNetwork, kind : ResourceKinds, id : Ids,
     root : LookupRoots, imported : ImportKinds, status : Statuses, result : Results,
     failed : BOOLEAN, missing : BOOLEAN, happened : Nat]

Asked == lookup.pc \notin {"off", "idle"}
ItsRecord == Record(lookup.network, lookup.kind, lookup.root)

\* Only a page loads, and only an id is imported.
WayTaken ==
    /\ lookup.pc = "page" => lookup.via = "page"
    /\ lookup.pc = "import" => lookup.via # "root"

\* What an answer on its way to the registry says, and the registry's own.
ReturnedTrue ==
    lookup.pc = "returned" =>
        /\ lookup.via # "root"
        /\ lookup.status \in {200, 404, 502}
        /\ lookup.status = 200 => lookup.imported = IdKind(lookup.id)
        /\ lookup.status = 404 => lookup.missing
        /\ lookup.status = 502 => lookup.failed

AnsweredTrue ==
    lookup.pc = "answered" =>
        /\ lookup.status \in {200, 400, 404, 500, 502, 504}
        /\ lookup.status = 200 => ItsRecord \in recorded
        /\ lookup.status = 400 => lookup.via = "root" /\ lookup.root = "malformed"
        /\ lookup.status = 404 => lookup.missing
        /\ lookup.status \in {500, 502, 504} => lookup.failed

\* A root that was imported was the resource's at that moment, and rows are not
\* removed: without a row for it now there was no record to find then.
Imported ==
    /\ lookup.via # "root"
    /\ lookup.pc = "rows" \/ (lookup.pc = "returned" /\ lookup.status = 200)
RootWasTrue == Imported => ItsRecord \in recorded \/ lookup.missing

\* The program is off, or has state.
LookupOn ==
    /\ lookup \in LookupSet
    /\ \A r \in recorded : r.root \in CodeRoots
    /\ Asked /\ ~HasRecord(lookup, chain, recorded) => lookup.missing
    /\ WayTaken
    /\ ReturnedTrue
    /\ AnsweredTrue
    /\ RootWasTrue
    /\ NotVerifiedMeansNoRecord

LookupInv == lookup = Off \/ LookupOn

LEMMA OffIsOff ==
    Off.pc = "off"
BY DEF Off

LEMMA NoLookupTyped ==
    /\ NoLookup \in LookupSet
    /\ NoLookup.pc = "idle"
BY LookupAssumption
   DEF NoLookup, LookupSet, ImportKinds, Pcs, Statuses, Results, LookupRoots, AnyNetwork, ResourceKinds, Ids

LEMMA KnownPcs ==
    /\ "page" \in Pcs /\ "registry" \in Pcs /\ "import" \in Pcs /\ "returned" \in Pcs
    /\ "rows" \in Pcs /\ "answered" \in Pcs /\ "done" \in Pcs
BY DEF Pcs

LEMMA KnownStatuses ==
    /\ 200 \in Statuses /\ 400 \in Statuses /\ 404 \in Statuses
    /\ 500 \in Statuses /\ 502 \in Statuses /\ 504 \in Statuses
BY DEF Statuses

LEMMA KnownResults ==
    /\ "verified" \in Results /\ "not_verified" \in Results
    /\ "temporary" \in Results /\ "error" \in Results
BY DEF Results

LEMMA IdKinds ==
    ASSUME NEW id \in Ids
    PROVE  IdKind(id) \in {"none", "account", "note"}
<1>1. CASE id \in {"account_id", "address"}
    BY <1>1, Zenon DEF IdKind
<1>2. CASE id \notin {"account_id", "address"} /\ id = "note_id"
    BY <1>2, Zenon DEF IdKind
<1>3. CASE id \notin {"account_id", "address"} /\ id # "note_id"
    BY <1>3, Zenon DEF IdKind
<1> QED BY <1>1, <1>2, <1>3

\* What happens in the world takes no row away, and a moment without a record
\* is remembered.
LEMMA WorldKeeps ==
    ASSUME LookupOn, NEW newChain, NEW newRecords, World(newChain, newRecords),
           recorded \subseteq newRecords, \A r \in newRecords : r.root \in CodeRoots
    PROVE  LookupOn'
<1> DEFINE now == lookup.missing \/ ~HasRecord(lookup, newChain, newRecords)
<1>1. /\ chain' = newChain /\ recorded' = newRecords
      /\ lookup' = [lookup EXCEPT !.happened = @ + 1, !.missing = now]
      /\ lookup \in LookupSet
    BY DEF World, LookupOn
<1>2. now \in BOOLEAN /\ lookup.happened + 1 \in Nat
    BY <1>1 DEF LookupSet
<1> HIDE DEF now
<1>3. /\ lookup' \in LookupSet
      /\ lookup'.pc = lookup.pc /\ lookup'.via = lookup.via /\ lookup'.network = lookup.network
      /\ lookup'.kind = lookup.kind /\ lookup'.id = lookup.id /\ lookup'.root = lookup.root
      /\ lookup'.imported = lookup.imported /\ lookup'.status = lookup.status
      /\ lookup'.result = lookup.result /\ lookup'.failed = lookup.failed
      /\ lookup'.missing = now
    BY <1>1, <1>2 DEF LookupSet
<1>4. (lookup.missing => now) /\ (~HasRecord(lookup, newChain, newRecords) => now)
    BY DEF now
<1>5. HasRecord(lookup', chain', recorded') = HasRecord(lookup, newChain, newRecords)
    BY <1>1, <1>3 DEF HasRecord
<1>6. ItsRecord' = ItsRecord
    BY <1>3 DEF ItsRecord
<1>7. /\ WayTaken' /\ ReturnedTrue' /\ AnsweredTrue' /\ RootWasTrue' /\ NotVerifiedMeansNoRecord'
    BY <1>1, <1>3, <1>4, <1>6
       DEF LookupOn, WayTaken, ReturnedTrue, AnsweredTrue, RootWasTrue, Imported, NotVerifiedMeansNoRecord,
           ItsRecord
<1> QED BY <1>1, <1>3, <1>4, <1>5, <1>7 DEF LookupOn, Asked

\* A lookup begins: whether there is a record is taken down at once.
LEMMA BeginKeeps ==
    ASSUME LookupOn, NEW via \in {"page", "id", "root"}, NEW network \in AnyNetwork,
           NEW kind \in ResourceKinds, NEW id \in Ids,
           NEW root \in LookupRoots, Begin(via, network, kind, id, root)
    PROVE  LookupOn'
<1> DEFINE l == [NoLookup EXCEPT !.via = via, !.network = network, !.kind = kind, !.id = id,
                    !.root = root, !.happened = lookup.happened,
                    !.pc = IF via = "page" THEN "page" ELSE "registry"]
           without == ~HasRecord(l, chain, recorded)
<1>1. lookup' = [l EXCEPT !.missing = without] /\ UNCHANGED <<chain, recorded>>
    BY DEF Begin, Go, Unchanged
<1>2. /\ l \in LookupSet /\ l.pc \in {"page", "registry"} /\ (l.pc = "page" => l.via = "page")
      /\ l.via = via /\ l.network = network /\ l.kind = kind /\ l.id = id /\ l.root = root
    <2>1. lookup.happened \in Nat
        BY DEF LookupOn, LookupSet
    <2>2. PICK pc \in {"page", "registry"} : pc = IF via = "page" THEN "page" ELSE "registry"
        OBVIOUS
    <2>3. l = [NoLookup EXCEPT !.via = via, !.network = network, !.kind = kind, !.id = id,
                 !.root = root, !.happened = lookup.happened, !.pc = pc]
        BY <2>2
    <2> HIDE DEF l
    <2> QED BY <2>1, <2>2, <2>3, NoLookupTyped, KnownPcs DEF LookupSet
<1> HIDE DEF l
<1>3. without \in BOOLEAN
    OBVIOUS
<1> HIDE DEF without
<1>4. /\ lookup' \in LookupSet /\ lookup'.pc = l.pc
      /\ lookup'.via = via /\ lookup'.network = network /\ lookup'.kind = kind
      /\ lookup'.id = id /\ lookup'.root = root /\ lookup'.missing = without
    BY <1>1, <1>2, <1>3 DEF LookupSet
<1>5. HasRecord(lookup', chain', recorded') = HasRecord(l, chain, recorded)
    <2>1. chain' = chain /\ recorded' = recorded
        BY <1>1
    <2> QED BY <1>2, <1>4, <2>1 DEF HasRecord
<1>6. ~HasRecord(lookup', chain', recorded') => lookup'.missing
    BY <1>4, <1>5 DEF without
<1> QED BY <1>1, <1>2, <1>4, <1>6
        DEF LookupOn, WayTaken, ReturnedTrue, AnsweredTrue, RootWasTrue, Imported, NotVerifiedMeansNoRecord

\* What a step of the lookup itself keeps: what was asked for, and whether
\* there was a record.
SameQuestion ==
    /\ UNCHANGED <<chain, recorded>>
    /\ lookup' \in LookupSet
    /\ lookup'.via = lookup.via /\ lookup'.network = lookup.network
    /\ lookup'.kind = lookup.kind /\ lookup'.id = lookup.id
    /\ lookup'.missing = lookup.missing
    /\ lookup.via = "root" => lookup'.root = lookup.root

\* The three ways a step of it sets its state.
Comes(pc) == SameQuestion /\ lookup'.pc = pc /\ lookup'.root = lookup.root
Responds(pc, status, failed) ==
    /\ SameQuestion /\ lookup'.pc = pc /\ lookup'.status = status
    /\ lookup'.failed = failed /\ lookup'.root = lookup.root
Imports(pc, status, root, kind) ==
    /\ SameQuestion /\ lookup'.pc = pc /\ lookup'.status = status
    /\ lookup'.root = root /\ lookup'.imported = kind
Ends(pc, result, failed) ==
    /\ SameQuestion /\ lookup'.pc = pc /\ lookup'.result = result
    /\ lookup'.failed = failed /\ lookup'.root = lookup.root

LEMMA ItComes ==
    ASSUME NEW pc \in Pcs, lookup \in LookupSet, UNCHANGED <<chain, recorded>>,
           lookup' = [lookup EXCEPT !.pc = pc]
    PROVE  Comes(pc)
BY DEF LookupSet, SameQuestion, Comes

LEMMA ItAnswers ==
    ASSUME NEW pc \in Pcs, NEW status \in Statuses, lookup \in LookupSet,
           UNCHANGED <<chain, recorded>>, lookup' = [lookup EXCEPT !.pc = pc, !.status = status]
    PROVE  Responds(pc, status, lookup.failed)
BY DEF LookupSet, SameQuestion, Responds

LEMMA ItFails ==
    ASSUME NEW pc \in Pcs, NEW status \in Statuses, NEW failed \in BOOLEAN,
           lookup \in LookupSet, UNCHANGED <<chain, recorded>>,
           lookup' = [lookup EXCEPT !.pc = pc, !.status = status, !.failed = failed]
    PROVE  Responds(pc, status, failed)
BY DEF LookupSet, SameQuestion, Responds

LEMMA ItImports ==
    ASSUME NEW pc \in Pcs, NEW status \in Statuses, NEW root \in LookupRoots,
           NEW kind \in ImportKinds, lookup \in LookupSet, lookup.via # "root",
           UNCHANGED <<chain, recorded>>,
           lookup' = [lookup EXCEPT !.pc = pc, !.status = status, !.root = root, !.imported = kind]
    PROVE  Imports(pc, status, root, kind)
BY DEF LookupSet, SameQuestion, Imports

LEMMA ItEnds ==
    ASSUME NEW pc \in Pcs, NEW result \in Results, lookup \in LookupSet,
           UNCHANGED <<chain, recorded>>, lookup' = [lookup EXCEPT !.pc = pc, !.result = result]
    PROVE  Ends(pc, result, lookup.failed)
BY DEF LookupSet, SameQuestion, Ends

LEMMA ItEndsFailed ==
    ASSUME NEW pc \in Pcs, NEW result \in Results, NEW failed \in BOOLEAN,
           lookup \in LookupSet, UNCHANGED <<chain, recorded>>,
           lookup' = [lookup EXCEPT !.pc = pc, !.result = result, !.failed = failed]
    PROVE  Ends(pc, result, failed)
BY DEF LookupSet, SameQuestion, Ends

LEMMA GoKeeps ==
    ASSUME LookupOn, Asked, SameQuestion,
           WayTaken', ReturnedTrue', AnsweredTrue', RootWasTrue', NotVerifiedMeansNoRecord'
    PROVE  LookupOn'
<1>1. HasRecord(lookup', chain', recorded') = HasRecord(lookup, chain, recorded)
    BY DEF SameQuestion, HasRecord
<1> QED BY <1>1 DEF LookupOn, SameQuestion

\* A network that is not served is an error; nothing else is answered here.
LEMMA PageLoadsKeeps ==
    ASSUME LookupOn, PageLoads
    PROVE  LookupOn'
<1>1. lookup \in LookupSet /\ lookup.pc = "page" /\ Asked /\ lookup.via = "page"
    BY DEF LookupOn, WayTaken, PageLoads, Asked
<1>2. CASE lookup.network \in ServedNetworks
    <2>1. lookup' = [lookup EXCEPT !.pc = "registry", !.result = lookup.result]
          /\ UNCHANGED <<chain, recorded>>
        BY <1>2 DEF PageLoads, Go, Unchanged
    <2>2. lookup.result \in Results
        BY <1>1 DEF LookupSet
    <2>3. Ends("registry", lookup.result, lookup.failed)
        BY <1>1, <2>1, <2>2, KnownPcs, ItEnds
    <2>4. SameQuestion /\ lookup'.pc = "registry"
        BY <2>3 DEF Ends
    <2> QED BY <1>1, <2>4, GoKeeps
            DEF WayTaken, ReturnedTrue, AnsweredTrue, RootWasTrue, Imported, NotVerifiedMeansNoRecord
<1>3. CASE lookup.network \notin ServedNetworks
    <2>1. lookup' = [lookup EXCEPT !.pc = "done", !.result = "error"] /\ UNCHANGED <<chain, recorded>>
        BY <1>3 DEF PageLoads, Go, Unchanged
    <2>2. SameQuestion /\ lookup'.pc = "done" /\ lookup'.result = "error"
        <3>1. Ends("done", "error", lookup.failed)
            BY <1>1, <2>1, KnownPcs, KnownResults, ItEnds
        <3> QED BY <3>1 DEF Ends
    <2>3. NotVerifiedMeansNoRecord'
        BY <1>1, <1>3, <2>2 DEF SameQuestion, NotVerifiedMeansNoRecord
    <2> QED BY <1>1, <2>2, <2>3, GoKeeps DEF WayTaken, ReturnedTrue, AnsweredTrue, RootWasTrue, Imported
<1> QED BY <1>2, <1>3

LEMMA RegistryGetsKeeps ==
    ASSUME LookupOn, RegistryGets
    PROVE  LookupOn'
<1>1. lookup \in LookupSet /\ lookup.pc = "registry" /\ Asked
    BY DEF LookupOn, RegistryGets, Asked
<1>2. CASE lookup.via # "root"
    <2>1. lookup' = [lookup EXCEPT !.pc = "import"] /\ UNCHANGED <<chain, recorded>>
        BY <1>2, Zenon DEF RegistryGets, Go, Unchanged
    <2>2. SameQuestion /\ lookup'.pc = "import"
        <3>1. Comes("import")
            BY <1>1, <2>1, KnownPcs, ItComes
        <3> QED BY <3>1 DEF Comes
    <2>3. WayTaken'
        BY <1>2, <2>2 DEF SameQuestion, WayTaken
    <2> QED BY <1>1, <2>2, <2>3, GoKeeps
            DEF ReturnedTrue, AnsweredTrue, RootWasTrue, Imported, NotVerifiedMeansNoRecord
<1>3. CASE lookup.via = "root" /\ lookup.root = "malformed"
    <2>1. lookup' = [lookup EXCEPT !.pc = "answered", !.status = 400] /\ UNCHANGED <<chain, recorded>>
        BY <1>3, Zenon DEF RegistryGets, Go, Unchanged
    <2>2. SameQuestion /\ lookup'.pc = "answered" /\ lookup'.status = 400
        <3>1. Responds("answered", 400, lookup.failed)
            BY <1>1, <2>1, KnownPcs, KnownStatuses, ItAnswers
        <3> QED BY <3>1 DEF Responds
    <2>3. AnsweredTrue'
        BY <1>3, <2>2 DEF SameQuestion, AnsweredTrue
    <2> QED BY <1>1, <2>2, <2>3, GoKeeps
            DEF WayTaken, ReturnedTrue, RootWasTrue, Imported, NotVerifiedMeansNoRecord
<1>4. CASE lookup.via = "root" /\ lookup.root # "malformed"
    <2>1. lookup' = [lookup EXCEPT !.pc = "rows"] /\ UNCHANGED <<chain, recorded>>
        BY <1>4, Zenon DEF RegistryGets, Go, Unchanged
    <2>2. SameQuestion /\ lookup'.pc = "rows"
        <3>1. Comes("rows")
            BY <1>1, <2>1, KnownPcs, ItComes
        <3> QED BY <3>1 DEF Comes
    <2>3. RootWasTrue'
        BY <1>4, <2>2 DEF SameQuestion, RootWasTrue, Imported
    <2> QED BY <1>1, <2>2, <2>3, GoKeeps
            DEF WayTaken, ReturnedTrue, AnsweredTrue, NotVerifiedMeansNoRecord
<1> QED BY <1>2, <1>3, <1>4

\* The moment that decides: the root is what the id names now, so that without
\* a row for it, or without a root, there is no record to find.
LEMMA ToolEndsKeeps ==
    ASSUME LookupOn, ToolEnds
    PROVE  LookupOn'
<1> DEFINE root == OnChain(chain, lookup.network, lookup.id)
<1>1. lookup \in LookupSet /\ lookup.pc = "import" /\ Asked /\ lookup.via # "root"
    BY DEF LookupOn, WayTaken, ToolEnds, Asked
<1>2. IdKind(lookup.id) \in {"none", "account", "note"}
    BY <1>1, IdKinds DEF LookupSet
<1>3. CASE root \in CodeRoots
    <2>1. lookup' = [lookup EXCEPT !.pc = "returned", !.status = 200, !.root = root,
                       !.imported = IdKind(lookup.id)]
          /\ UNCHANGED <<chain, recorded>>
        BY <1>3 DEF ToolEnds, Go, Unchanged
    <2> HIDE DEF root
    <2>2. /\ SameQuestion /\ lookup'.pc = "returned" /\ lookup'.status = 200
          /\ lookup'.root = root /\ lookup'.imported = IdKind(lookup.id)
        <3> DEFINE kind == IdKind(lookup.id)
        <3>1. lookup' = [lookup EXCEPT !.pc = "returned", !.status = 200, !.root = root,
                           !.imported = kind]
              /\ kind \in ImportKinds /\ root \in LookupRoots
            BY <1>2, <1>3, <2>1 DEF LookupRoots, ImportKinds, ResourceKinds
        <3>2. lookup \in LookupSet /\ lookup.via # "root" /\ UNCHANGED <<chain, recorded>>
            BY <1>1, <2>1
        <3> HIDE DEF kind
        <3>3. Imports("returned", 200, root, kind)
            BY <3>1, <3>2, KnownPcs, KnownStatuses, ItImports
        <3> QED BY <3>3 DEF Imports, kind
    <2>3. ReturnedTrue'
        BY <1>1, <2>2 DEF SameQuestion, ReturnedTrue
    <2>4. RootWasTrue'
        <3> SUFFICES ASSUME lookup.kind = lookup.kind, Record(lookup.network, lookup.kind, root) \notin recorded
                     PROVE  lookup.missing
            BY <2>2 DEF SameQuestion, RootWasTrue, ItsRecord
        <3>1. ~HasRecord(lookup, chain, recorded)
            BY <1>1 DEF HasRecord, root
        <3> QED BY <1>1, <3>1 DEF LookupOn
    <2> QED BY <1>1, <2>2, <2>3, <2>4, GoKeeps DEF WayTaken, AnsweredTrue, NotVerifiedMeansNoRecord
<1>4. CASE root \notin CodeRoots
    <2>1. lookup' = [lookup EXCEPT !.pc = "returned", !.status = 404] /\ UNCHANGED <<chain, recorded>>
        BY <1>4 DEF ToolEnds, Go, Unchanged, ImportStatus
    <2>2. SameQuestion /\ lookup'.pc = "returned" /\ lookup'.status = 404
        <3>1. Responds("returned", 404, lookup.failed)
            BY <1>1, <2>1, KnownPcs, KnownStatuses, ItAnswers
        <3> QED BY <3>1 DEF Responds
    <2>3. ~HasRecord(lookup, chain, recorded)
        <3>1. Record(lookup.network, lookup.kind, root).root = root
            BY DEF Record
        <3>2. Record(lookup.network, lookup.kind, root) \notin recorded
            BY <1>4, <3>1 DEF LookupOn
        <3> QED BY <1>1, <3>2 DEF HasRecord
    <2>4. ReturnedTrue'
        BY <1>1, <2>2, <2>3 DEF SameQuestion, ReturnedTrue, LookupOn
    <2> QED BY <1>1, <2>2, <2>4, GoKeeps
            DEF WayTaken, AnsweredTrue, RootWasTrue, Imported, NotVerifiedMeansNoRecord
<1> QED BY <1>3, <1>4

LEMMA ToolFailsKeeps ==
    ASSUME LookupOn, ToolFails
    PROVE  LookupOn'
<1>1. lookup \in LookupSet /\ lookup.pc = "import" /\ Asked /\ lookup.via # "root"
    BY DEF LookupOn, WayTaken, ToolFails, Asked
<1>2. lookup' = [lookup EXCEPT !.pc = "returned", !.status = 502, !.failed = TRUE]
      /\ UNCHANGED <<chain, recorded>>
    BY DEF ToolFails, Go, Unchanged, ImportStatus
<1>3. SameQuestion /\ lookup'.pc = "returned" /\ lookup'.status = 502 /\ lookup'.failed = TRUE
    <2>1. Responds("returned", 502, TRUE)
        BY <1>1, <1>2, KnownPcs, KnownStatuses, ItFails
    <2> QED BY <2>1 DEF Responds
<1>4. ReturnedTrue'
    BY <1>1, <1>3 DEF SameQuestion, ReturnedTrue
<1> QED BY <1>1, <1>3, <1>4, GoKeeps
        DEF WayTaken, AnsweredTrue, RootWasTrue, Imported, NotVerifiedMeansNoRecord

LEMMA ImportLostKeeps ==
    ASSUME LookupOn, ImportLost
    PROVE  LookupOn'
<1>1. lookup \in LookupSet /\ Asked
    BY DEF LookupOn, ImportLost, Asked
<1>2. PICK status \in {500, 502, 504} :
        /\ lookup' = [lookup EXCEPT !.pc = "answered", !.status = status, !.failed = TRUE]
        /\ UNCHANGED <<chain, recorded>>
    BY DEF ImportLost, Go, Unchanged
<1>3. SameQuestion /\ lookup'.pc = "answered" /\ lookup'.status = status /\ lookup'.failed = TRUE
    <2>1. status \in Statuses
        BY KnownStatuses
    <2>2. Responds("answered", status, TRUE)
        BY <1>1, <1>2, <2>1, KnownPcs, ItFails
    <2> QED BY <2>2 DEF Responds
<1>4. AnsweredTrue'
    BY <1>3 DEF AnsweredTrue
<1> QED BY <1>1, <1>3, <1>4, GoKeeps
        DEF WayTaken, ReturnedTrue, RootWasTrue, Imported, NotVerifiedMeansNoRecord

\* A resource of the other kind is a miss: no record of this kind could have
\* been found by this id.
LEMMA RegistryHearsKeeps ==
    ASSUME LookupOn, RegistryHears
    PROVE  LookupOn'
<1>1. lookup \in LookupSet /\ lookup.pc = "returned" /\ Asked /\ lookup.via # "root"
    BY DEF LookupOn, ReturnedTrue, RegistryHears, Asked
<1>2. CASE lookup.status # 200
    <2>1. lookup' = [lookup EXCEPT !.pc = "answered", !.status = StatusOf(lookup.status)]
          /\ UNCHANGED <<chain, recorded>>
        BY <1>2, Zenon DEF RegistryHears, Go, Unchanged
    <2>2. lookup.status \in {404, 502} /\ StatusOf(lookup.status) = lookup.status
        BY <1>1, <1>2 DEF LookupOn, ReturnedTrue, StatusOf
    <2>3. /\ SameQuestion /\ lookup'.pc = "answered" /\ lookup'.status = lookup.status
          /\ lookup'.failed = lookup.failed
        <3>1. lookup.status \in Statuses
            BY <2>2, KnownStatuses
        <3>2. Responds("answered", lookup.status, lookup.failed)
            BY <1>1, <2>1, <2>2, <3>1, KnownPcs, ItAnswers
        <3> QED BY <3>2 DEF Responds
    <2>4. AnsweredTrue'
        BY <1>1, <2>2, <2>3 DEF SameQuestion, LookupOn, ReturnedTrue, AnsweredTrue
    <2> QED BY <1>1, <2>3, <2>4, GoKeeps
            DEF WayTaken, ReturnedTrue, RootWasTrue, Imported, NotVerifiedMeansNoRecord
<1>3. CASE lookup.status = 200 /\ lookup.imported # lookup.kind
    <2>1. lookup' = [lookup EXCEPT !.pc = "answered", !.status = 404] /\ UNCHANGED <<chain, recorded>>
        BY <1>3, Zenon DEF RegistryHears, Go, Unchanged
    <2>2. SameQuestion /\ lookup'.pc = "answered" /\ lookup'.status = 404
        <3>1. Responds("answered", 404, lookup.failed)
            BY <1>1, <2>1, KnownPcs, KnownStatuses, ItAnswers
        <3> QED BY <3>1 DEF Responds
    <2>3. lookup.missing
        BY <1>1, <1>3 DEF LookupOn, ReturnedTrue, HasRecord
    <2>4. AnsweredTrue'
        BY <2>2, <2>3 DEF SameQuestion, AnsweredTrue
    <2> QED BY <1>1, <2>2, <2>4, GoKeeps
            DEF WayTaken, ReturnedTrue, RootWasTrue, Imported, NotVerifiedMeansNoRecord
<1>4. CASE lookup.status = 200 /\ lookup.imported = lookup.kind
    <2>1. lookup' = [lookup EXCEPT !.pc = "rows"] /\ UNCHANGED <<chain, recorded>>
        BY <1>4, Zenon DEF RegistryHears, Go, Unchanged
    <2>2. SameQuestion /\ lookup'.pc = "rows" /\ lookup'.root = lookup.root
        <3>1. Comes("rows")
            BY <1>1, <2>1, KnownPcs, ItComes
        <3> QED BY <3>1 DEF Comes
    <2>3. RootWasTrue'
        BY <1>1, <1>4, <2>2 DEF SameQuestion, LookupOn, RootWasTrue, Imported, ItsRecord
    <2> QED BY <1>1, <2>2, <2>3, GoKeeps
            DEF WayTaken, ReturnedTrue, AnsweredTrue, NotVerifiedMeansNoRecord
<1> QED BY <1>2, <1>3, <1>4

LEMMA ReadRowsKeeps ==
    ASSUME LookupOn, ReadRows
    PROVE  LookupOn'
<1>1. lookup \in LookupSet /\ lookup.pc = "rows" /\ Asked
    BY DEF LookupOn, ReadRows, Asked
<1>2. ASSUME NEW status \in {200, 404}, status = IF ItsRecord \in recorded THEN 200 ELSE 404,
             lookup' = [lookup EXCEPT !.pc = "answered", !.status = status],
             UNCHANGED <<chain, recorded>>
      PROVE  LookupOn'
    <2>1. /\ SameQuestion /\ lookup'.pc = "answered" /\ lookup'.status = status
          /\ lookup'.root = lookup.root
        <3>1. status \in Statuses /\ lookup \in LookupSet
            BY <1>1, KnownStatuses
        <3>2. Responds("answered", status, lookup.failed)
            BY <1>2, <3>1, KnownPcs, ItAnswers
        <3> QED BY <3>2 DEF Responds
    <2>2. status = 404 => lookup.missing
        BY <1>1, <1>2 DEF LookupOn, RootWasTrue, Imported, HasRecord, ItsRecord
    <2>3. ItsRecord' = ItsRecord
        BY <2>1 DEF SameQuestion, ItsRecord
    <2>4. AnsweredTrue'
        BY <1>2, <2>1, <2>2, <2>3 DEF SameQuestion, AnsweredTrue
    <2> QED BY <1>1, <2>1, <2>4, GoKeeps
            DEF WayTaken, ReturnedTrue, RootWasTrue, Imported, NotVerifiedMeansNoRecord
<1>3. ASSUME lookup' = [lookup EXCEPT !.pc = "answered", !.status = StatusOf(0), !.failed = TRUE],
             UNCHANGED <<chain, recorded>>
      PROVE  LookupOn'
    <2>1. StatusOf(0) = 500
        BY DEF StatusOf
    <2>2. lookup' = [lookup EXCEPT !.pc = "answered", !.status = 500, !.failed = TRUE]
        BY <1>3, <2>1
    <2>3. Responds("answered", 500, TRUE)
        BY <1>1, <1>3, <2>2, KnownPcs, KnownStatuses, ItFails
    <2>4. SameQuestion /\ lookup'.pc = "answered" /\ lookup'.status = 500 /\ lookup'.failed = TRUE
        BY <2>3 DEF Responds
    <2>5. AnsweredTrue'
        BY <2>4 DEF AnsweredTrue
    <2> QED BY <1>1, <2>4, <2>5, GoKeeps
            DEF WayTaken, ReturnedTrue, RootWasTrue, Imported, NotVerifiedMeansNoRecord
<1>4. CASE lookup' = [lookup EXCEPT !.pc = "answered",
                        !.status = IF ItsRecord \in recorded THEN 200 ELSE 404]
           /\ UNCHANGED <<chain, recorded>>
    <2>1. PICK status \in {200, 404} : status = IF ItsRecord \in recorded THEN 200 ELSE 404
        OBVIOUS
    <2>2. lookup' = [lookup EXCEPT !.pc = "answered", !.status = status]
        BY <1>4, <2>1, Zenon
    <2> QED BY <1>2, <1>4, <2>1, <2>2, Zenon
<1>5. \/ /\ lookup' = [lookup EXCEPT !.pc = "answered",
                       !.status = IF ItsRecord \in recorded THEN 200 ELSE 404]
         /\ UNCHANGED <<chain, recorded>>
      \/ /\ lookup' = [lookup EXCEPT !.pc = "answered", !.status = StatusOf(0), !.failed = TRUE]
         /\ UNCHANGED <<chain, recorded>>
    BY Zenon DEF ReadRows, Go, Unchanged, ItsRecord
<1> QED BY <1>3, <1>4, <1>5, Zenon

\* What is shown of each status.
LEMMA ShownStatus ==
    ASSUME NEW status
    PROVE  /\ status = 200 => Shown(status) = "verified"
           /\ status = 404 => Shown(status) = "not_verified"
           /\ status \in {502, 504} => Shown(status) = "temporary"
           /\ status \in {400, 500} => Shown(status) = "error"
<1> DEFINE Found == status = 200
           Missed == status = 404
           Passing == status \in 502..504
<1>1. Shown(status) = CASE Found -> "verified" [] Missed -> "not_verified"
                        [] Passing -> "temporary" [] OTHER -> "error"
    BY Zenon DEF Shown
<1>2. /\ status = 200 => Found /\ ~Missed /\ ~Passing
      /\ status = 404 => ~Found /\ Missed /\ ~Passing
      /\ status \in {502, 504} => ~Found /\ ~Missed /\ Passing
      /\ status \in {400, 500} => ~Found /\ ~Missed /\ ~Passing
    OBVIOUS
<1> HIDE DEF Found, Missed, Passing
<1>3. Found /\ ~Missed /\ ~Passing => Shown(status) = "verified"
    BY <1>1, Zenon
<1>4. ~Found /\ Missed /\ ~Passing => Shown(status) = "not_verified"
    BY <1>1, Zenon
<1>5. ~Found /\ ~Missed /\ Passing => Shown(status) = "temporary"
    BY <1>1, Zenon
<1>6. ~Found /\ ~Missed /\ ~Passing => Shown(status) = "error"
    BY <1>1, Zenon
<1> QED BY <1>2, <1>3, <1>4, <1>5, <1>6

LEMMA ShowKeeps ==
    ASSUME LookupOn, Show
    PROVE  LookupOn'
<1>1. lookup \in LookupSet /\ lookup.pc = "answered" /\ Asked /\ AnsweredTrue
      /\ lookup.status \in {200, 400, 404, 500, 502, 504}
    BY DEF LookupOn, AnsweredTrue, Show, Asked
<1>2. CASE lookup' = [lookup EXCEPT !.pc = "done", !.result = Shown(lookup.status)]
           /\ UNCHANGED <<chain, recorded>>
    <2>1. Shown(lookup.status) \in {"verified", "not_verified", "temporary", "error"}
        BY <1>1, ShownStatus
    <2>2. /\ SameQuestion /\ lookup'.pc = "done" /\ lookup'.result = Shown(lookup.status)
          /\ lookup'.failed = lookup.failed /\ lookup'.root = lookup.root
        <3> DEFINE result == Shown(lookup.status)
        <3>1. result \in Results /\ lookup \in LookupSet
            BY <1>1, <2>1, KnownResults
        <3>2. lookup' = [lookup EXCEPT !.pc = "done", !.result = result]
            BY <1>2
        <3> HIDE DEF result
        <3>3. Ends("done", result, lookup.failed)
            BY <1>2, <3>1, <3>2, KnownPcs, ItEnds
        <3> QED BY <3>3 DEF Ends, result
    <2>3. NotVerifiedMeansNoRecord'
        BY <1>1, <2>2, ShownStatus DEF SameQuestion, AnsweredTrue, NotVerifiedMeansNoRecord, ItsRecord
    <2> QED BY <1>1, <2>2, <2>3, GoKeeps DEF WayTaken, ReturnedTrue, AnsweredTrue, RootWasTrue, Imported
<1>3. CASE lookup' = [lookup EXCEPT !.pc = "done", !.result = "error", !.failed = TRUE]
           /\ UNCHANGED <<chain, recorded>>
    <2>1. /\ SameQuestion /\ lookup'.pc = "done" /\ lookup'.result = "error" /\ lookup'.failed = TRUE
        <3>1. lookup \in LookupSet
            BY <1>1
        <3>2. Ends("done", "error", TRUE)
            BY <1>3, <3>1, KnownPcs, KnownResults, ItEndsFailed
        <3> QED BY <3>2 DEF Ends
    <2>2. NotVerifiedMeansNoRecord'
        BY <2>1 DEF NotVerifiedMeansNoRecord
    <2> QED BY <1>1, <2>1, <2>2, GoKeeps DEF WayTaken, ReturnedTrue, AnsweredTrue, RootWasTrue, Imported
<1> QED BY <1>2, <1>3 DEF Show, Go, Unchanged

LEMMA LookupNextKeeps ==
    ASSUME LookupOn, LookupNext
    PROVE  LookupOn'
<1>0. lookup \in LookupSet
    BY DEF LookupOn
<1>1. ASSUME NEW n \in DOMAIN chain, Upgraded(n) PROVE LookupOn'
    BY <1>1, WorldKeeps DEF Upgraded, LookupOn
<1>2. ASSUME NEW n \in DOMAIN chain, NEW k \in ResourceKinds, Appears(n, k) PROVE LookupOn'
    BY <1>2, WorldKeeps DEF Appears, LookupOn
<1>3. ASSUME NEW n \in DOMAIN chain, NEW id \in Ids, NEW route \in ResourceKinds,
             Verified(n, id, route)
      PROVE  LookupOn'
    <2> DEFINE record == Record(n, route, VerifierReads(n, id))
    <2>1. record.root \in CodeRoots /\ World(chain, recorded \cup {record})
        BY <1>3 DEF Verified
    <2> HIDE DEF record
    <2> QED BY <2>1, WorldKeeps DEF LookupOn
<1>8. /\ CodeRoots \cup {"malformed"} \subseteq LookupRoots /\ "none" \in LookupRoots /\ "malformed" \in Ids
      /\ "account" \in ResourceKinds /\ "note" \in ResourceKinds
    BY DEF LookupRoots, Ids, ResourceKinds
<1>4. CASE Browse
    <2>1. PICK n \in ServedNetworks, id \in Ids :
            IdKind(id) # "none"
            /\ Begin("page", n, IdKind(id), IF id = "address" THEN "account_id" ELSE id, "none")
        BY <1>4 DEF Browse
    <2>2. /\ n \in AnyNetwork /\ IdKind(id) \in ResourceKinds
          /\ (IF id = "address" THEN "account_id" ELSE id) \in Ids
        BY <2>1, IdKinds DEF AnyNetwork, ResourceKinds, Ids
    <2> QED BY <1>8, <2>1, <2>2, BeginKeeps
<1>5. CASE FollowUrl
    BY <1>8, <1>5, BeginKeeps DEF FollowUrl
<1>6. CASE SwitchNetwork
    <2>1. PICK n \in ServedNetworks : Begin("page", n, lookup.kind, lookup.id, "none")
        BY <1>6 DEF SwitchNetwork
    <2>2. n \in AnyNetwork /\ lookup.kind \in ResourceKinds /\ lookup.id \in Ids
        BY <1>0 DEF AnyNetwork, LookupSet
    <2> QED BY <1>8, <2>1, <2>2, BeginKeeps
<1>7. CASE Ask
    BY <1>8, <1>7, BeginKeeps
       DEF Ask, AskAccountById, AskNoteById, AskAccountByRoot, AskNoteByRoot
<1> QED BY <1>1, <1>2, <1>3, <1>4, <1>5, <1>6, <1>7, PageLoadsKeeps, RegistryGetsKeeps,
           ToolEndsKeeps, ToolFailsKeeps, ImportLostKeeps, RegistryHearsKeeps, ReadRowsKeeps,
           ShowKeeps DEF LookupNext

\* A lookup that has not begun, and the programs beside it.
LEMMA LookupBegins ==
    ASSUME LookupInit
    PROVE  LookupOn
<1>1. lookup \in LookupSet /\ lookup.pc = "idle" /\ recorded = {}
    BY NoLookupTyped DEF LookupInit
<1> QED BY <1>1
        DEF LookupOn, Asked, WayTaken, ReturnedTrue, AnsweredTrue, RootWasTrue, Imported,
            NotVerifiedMeansNoRecord

LEMMA LookupAside ==
    ASSUME LookupInv, UNCHANGED lookupVars
    PROVE  LookupInv'
BY DEF LookupInv, LookupOn, lookupVars, Asked, HasRecord, WayTaken, ReturnedTrue, AnsweredTrue,
       RootWasTrue, Imported, ItsRecord, NotVerifiedMeansNoRecord

LEMMA LookupKept ==
    Spec => []LookupInv
<1>1. Init => LookupInv
    BY LookupBegins DEF Init, LookupOff, LookupInv
<1>2. LookupInv /\ [Next]_vars => LookupInv'
    <2> SUFFICES ASSUME LookupInv, [Next]_vars PROVE LookupInv'
        OBVIOUS
    <2>1. CASE LookUp
        BY <2>1, OffIsOff, LookupNextKeeps DEF LookUp, LookupInv
    <2>2. CASE ~LookUp
        BY <2>2, LookupAside DEF Next, vars, Analyse, Write, Compare, Carry, Check, Display
    <2> QED BY <2>1, <2>2
<1> QED BY <1>1, <1>2, PTL DEF Spec

\* "Not verified" is said only of what had no record at some moment of the
\* lookup, a page of a record only of one there is, and a failure is never told
\* as a miss: findVerifiedRecord and getVerifiedResource.
THEOREM MissIsNoRecord ==
    Spec => []NotVerifiedMeansNoRecord
<1>1. LookupInv => NotVerifiedMeansNoRecord
    BY OffIsOff DEF LookupInv, LookupOn, NotVerifiedMeansNoRecord
<1> QED BY <1>1, LookupKept, PTL

-----------------------------------------------------------------------------
(* Sequences, by their length.  The theorems on induction over the naturals *)
(* are about any operator, which no prover here can take: what holds up to  *)
(* a bound is shown by its least counterexample, which is the least of the  *)
(* finite sets 1..n under inclusion.                                        *)

LEMMA SmallestBelow ==
    ASSUME NEW N \in Nat, NEW T, T \subseteq 0..N, T # {}
    PROVE  \E n \in T : \A m \in T : n <= m
<1> DEFINE Intervals == {1..n : n \in T}
<1>1. IsFiniteSet(1..N)
    BY FS_Interval
<1>2. IsWellFoundedOn(StrictSubsetOrdering(1..N), SUBSET (1..N))
    <2>1. IsWellFoundedOn(StrictSubsetOrdering(1..N), FiniteSubsetsOf(1..N))
        BY FS_StrictSubsetOrderingWellFounded
    <2> QED BY <1>1, <2>1, FS_FiniteSubsetsOfFinite, Zenon
<1>3. Intervals \subseteq SUBSET (1..N)
    <2>1. ASSUME NEW n \in T PROVE 1..n \in SUBSET (1..N)
        OBVIOUS
    <2> QED BY <2>1, Zenon
<1>4. Intervals # {}
    <2>1. PICK n : n \in T
        OBVIOUS
    <2>2. 1..n \in Intervals
        BY <2>1
    <2> HIDE DEF Intervals
    <2> QED BY <2>2
<1> HIDE DEF Intervals
<1>5. PICK X \in Intervals : \A Y \in Intervals : ~ (<<Y, X>> \in StrictSubsetOrdering(1..N))
    BY <1>2, <1>3, <1>4, WFMin, Zenon
<1>6. PICK n \in T : X = 1..n
    BY <1>5 DEF Intervals
<1>7. ASSUME NEW m \in T, m < n PROVE FALSE
    <2> DEFINE Y == 1..m
    <2>1. Y \in Intervals
        BY DEF Intervals
    <2>2. Y \subseteq X /\ Y # X
        <3>1. n \in X /\ n \notin Y
            BY <1>6, <1>7
        <3>2. Y \subseteq X
            BY <1>6, <1>7
        <3> HIDE DEF Y
        <3> QED BY <3>1, <3>2
    <2>3. X \in SUBSET (1..N) /\ Y \in SUBSET (1..N)
        BY <1>3, <1>5, <2>1
    <2> HIDE DEF Y
    <2>4. <<Y, X>> \in StrictSubsetOrdering(1..N)
        BY <2>2, <2>3 DEF StrictSubsetOrdering
    <2> QED BY <1>5, <2>1, <2>4
<1> QED BY <1>7

LEMMA InductionTo ==
    ASSUME NEW N \in Nat, NEW S, 0 \in S, \A n \in 0..(N - 1) : n \in S => n + 1 \in S
    PROVE  0..N \subseteq S
<1> SUFFICES ASSUME (0..N) \ S # {} PROVE FALSE
    OBVIOUS
<1>1. PICK n \in (0..N) \ S : \A m \in (0..N) \ S : n <= m
    BY SmallestBelow
<1>2. n - 1 \in 0..(N - 1) /\ (n - 1) + 1 = n
    BY <1>1
<1>3. n - 1 \in S
    BY <1>1, <1>2
<1> QED BY <1>1, <1>2, <1>3

-----------------------------------------------------------------------------
(* A project (Projects).                                                   *)

LEMMA DirectoriesFinite ==
    IsFiniteSet(Directories)
<1> DEFINE f == [i \in 1..Len(Dirs) |-> Dirs[i]]
<1>1. /\ 1 \in Int /\ Len(Dirs) \in Nat /\ DOMAIN Dirs = 1..Len(Dirs)
    BY DirsAssumption
<1>2. f \in Surjection(1..Len(Dirs), Directories)
    BY <1>1 DEF Surjection, Directories
<1>3. IsFiniteSet(1..Len(Dirs))
    BY <1>1, FS_Interval
<1> HIDE DEF f
<1> QED BY <1>2, <1>3, FS_Surjection

\* There is an earliest of any directories.
LEMMA EarliestComesFirst ==
    ASSUME NEW dirs \in SUBSET Directories, dirs # {}
    PROVE  /\ Earliest(Dirs, dirs) \in dirs
           /\ \A e \in dirs \ {Earliest(Dirs, dirs)} : Before(Dirs, Earliest(Dirs, dirs), e)
<1> DEFINE places == {i \in DOMAIN Dirs : Dirs[i] \in dirs}
<1>1. Len(Dirs) \in Nat /\ places \subseteq 0..Len(Dirs) /\ places # {}
    BY DirsAssumption DEF Directories
<1>2. PICK i \in places : \A j \in places : i <= j
    BY <1>1, SmallestBelow
<1>3. ASSUME NEW e \in dirs \ {Dirs[i]} PROVE Before(Dirs, Dirs[i], e)
    <2>1. PICK j \in DOMAIN Dirs : Dirs[j] = e
        BY DEF Directories
    <2>2. j \in places /\ j # i
        BY <2>1
    <2>3. i < j
        BY <1>1, <1>2, <2>2
    <2> QED BY <2>1, <2>3 DEF Before
<1>4. \E d \in dirs : \A e \in dirs \ {d} : Before(Dirs, d, e)
    BY <1>3
<1> QED BY <1>4, Zenon DEF Earliest

\* What opens is a project, and any project opens.
Project(tree, dir) ==
    /\ dir \in Directories
    /\ tree[dir].miden
    /\ tree[dir].toml \notin {"missing", "invalid", "workspace"}

LEMMA OpensProjects ==
    ASSUME NEW tree, NEW problem, NEW dir
    PROVE  /\ Opened(tree, problem, dir).error = "none" =>
                /\ problem = "none" /\ Project(tree, dir)
                /\ Opened(tree, problem, dir).entrypoint = dir
                /\ Opened(tree, problem, dir).name = tree[dir].toml
           /\ problem = "none" /\ Project(tree, dir) => Opened(tree, problem, dir).error = "none"
<1> DEFINE at == IF dir \in Directories THEN tree[dir] ELSE Bare
           Bad == problem # "none"
           Nowhere == problem = "none" /\ dir = NoDir
           NoToml == problem = "none" /\ dir # NoDir /\ at.toml = "missing"
           NoMiden == problem = "none" /\ at.toml # "missing" /\ ~at.miden
           NoPackage == problem = "none" /\ at.toml \in {"invalid", "workspace"} /\ at.miden
           opened == Opened(tree, problem, dir)
<1>1. opened = CASE Bad -> [error |-> problem]
                 [] Nowhere -> [error |-> "invalid entrypoint"]
                 [] NoToml -> [error |-> "missing Cargo.toml"]
                 [] NoMiden -> [error |-> "missing miden-project.toml"]
                 [] NoPackage -> [error |-> at.toml]
                 [] OTHER -> [error |-> "none", entrypoint |-> dir, name |-> at.toml]
    BY Zenon DEF Opened
<1>2. at.toml = "missing" \/ dir \in Directories
    BY DEF Bare
<1>3. Nowhere => at.toml = "missing"
    BY <1>2, DirsAssumption
<1>4. /\ Bad => ~Nowhere /\ ~NoToml /\ ~NoMiden /\ ~NoPackage
      /\ Nowhere => ~Bad /\ ~NoToml /\ ~NoMiden /\ ~NoPackage
      /\ NoToml => ~Bad /\ ~Nowhere /\ ~NoMiden /\ ~NoPackage
      /\ NoMiden => ~Bad /\ ~Nowhere /\ ~NoToml /\ ~NoPackage
      /\ NoPackage => ~Bad /\ ~Nowhere /\ ~NoToml /\ ~NoMiden
    BY <1>3
<1> DEFINE Clear == ~Bad /\ ~Nowhere /\ ~NoToml /\ ~NoMiden /\ ~NoPackage
<1>5. Clear <=> problem = "none" /\ Project(tree, dir)
    <2>1. ASSUME Clear PROVE problem = "none" /\ Project(tree, dir)
        <3>1. problem = "none" /\ at.toml # "missing"
            BY <2>1
        <3>2. dir \in Directories /\ at = tree[dir]
            BY <1>2, <3>1
        <3> QED BY <2>1, <3>1, <3>2 DEF Project
    <2>2. ASSUME problem = "none", Project(tree, dir) PROVE Clear
        <3>1. dir \in Directories /\ at = tree[dir]
            BY <2>2 DEF Project
        <3>2. dir # NoDir
            BY <3>1, DirsAssumption
        <3> QED BY <2>2, <3>1, <3>2 DEF Project
    <2> QED BY <2>1, <2>2
<1>6. Bad => problem # "none"
    OBVIOUS
<1>7. NoPackage => at.toml \in {"invalid", "workspace"}
    OBVIOUS
<1>8. Clear => at = tree[dir]
    BY <1>5 DEF Project
<1> HIDE DEF Bad, Nowhere, NoToml, NoMiden, NoPackage, at, opened
<1>9. CASE Bad
    <2>1. opened = [error |-> problem]
        BY <1>1, <1>4, <1>9, Zenon
    <2> QED BY <1>5, <1>6, <1>9, <2>1 DEF opened
<1>10. CASE Nowhere \/ NoToml \/ NoMiden
    <2>1. PICK why \in {"invalid entrypoint", "missing Cargo.toml", "missing miden-project.toml"} :
            opened = [error |-> why]
        BY <1>1, <1>4, <1>10, Zenon
    <2>2. opened.error = why /\ why # "none"
        BY <2>1
    <2> QED BY <1>5, <1>10, <2>2 DEF opened
<1>11. CASE NoPackage
    <2>1. opened = [error |-> at.toml]
        BY <1>1, <1>4, <1>11, Zenon
    <2>2. opened.error = at.toml
        BY <2>1
    <2>3. at.toml # "none"
        BY <1>7, <1>11
    <2> QED BY <1>5, <1>11, <2>2, <2>3 DEF opened
<1>12. CASE Clear
    <2>1. opened = [error |-> "none", entrypoint |-> dir, name |-> at.toml]
        BY <1>1, <1>12, Zenon
    <2> QED BY <1>5, <1>8, <1>12, <2>1 DEF opened
<1> QED BY <1>9, <1>10, <1>11, <1>12

\* The three readers of one project's name.
Namesakes(tree, dir) == {d \in Directories \ {dir} : tree[d].toml = tree[dir].toml}
Rivals(tree, dir) == {d \in Namesakes(tree, dir) : tree[d].miden}

LEMMA FoundAgain ==
    ASSUME NEW tree, NEW dir, Project(tree, dir)
    PROVE  InferEntrypoint(tree, tree[dir].toml) = IF Rivals(tree, dir) = {} THEN dir ELSE NoDir
<1> DEFINE name == tree[dir].toml
           found == Candidates(tree, name)
<1>1. found = Rivals(tree, dir) \cup {dir}
    <2>1. found \subseteq Rivals(tree, dir) \cup {dir}
        BY Zenon DEF Candidates, Rivals, Namesakes
    <2>2. Rivals(tree, dir) \cup {dir} \subseteq found
        BY Zenon DEF Project, Candidates, Rivals, Namesakes
    <2> QED BY <2>1, <2>2
<1>2. dir \notin Rivals(tree, dir)
    BY DEF Rivals, Namesakes
<1>3. IsFiniteSet(found)
    BY DirectoriesFinite, FS_Subset DEF Candidates
<1>4. InferEntrypoint(tree, name) = IF Cardinality(found) = 1 THEN CHOOSE d \in found : TRUE ELSE NoDir
    BY DEF InferEntrypoint
<1>5. Cardinality(found) = 1 <=> \E d : found = {d}
    BY <1>3, FS_Singleton, Zenon
<1> HIDE DEF found, name
<1>6. CASE Rivals(tree, dir) = {}
    <2>1. found = {dir}
        BY <1>1, <1>6
    <2>2. (CHOOSE d \in found : TRUE) = dir
        BY <2>1
    <2> QED BY <1>4, <1>5, <1>6, <2>1, <2>2 DEF name
<1>7. CASE Rivals(tree, dir) # {}
    <2>1. ~ \E d : found = {d}
        BY <1>1, <1>2, <1>7
    <2> QED BY <1>4, <1>5, <1>7, <2>1 DEF name
<1> QED BY <1>6, <1>7

LEMMA ShownFirst ==
    ASSUME NEW tree, NEW dir, Project(tree, dir), tree[dir].lib,
           FindEntryFile(tree, tree[dir].toml) # dir
    PROVE  /\ FindEntryFile(tree, tree[dir].toml) \in Namesakes(tree, dir)
           /\ Before(Dirs, FindEntryFile(tree, tree[dir].toml), dir)
<1> DEFINE libs == {d \in Directories : tree[d].lib}
           named == {d \in libs : tree[d].toml = tree[dir].toml}
           Named == named # {}
           Any == named = {} /\ libs # {}
<1>1. FindEntryFile(tree, tree[dir].toml)
        = CASE Named -> Earliest(Dirs, named) [] Any -> Earliest(LibDirs, libs) [] OTHER -> NoDir
    BY Zenon DEF FindEntryFile
<1>2. dir \in named
    BY Zenon DEF Project
<1>3. Named /\ ~Any
    BY <1>2
<1>4. named \in SUBSET Directories /\ named # {}
    BY <1>2
<1>5. named \subseteq Namesakes(tree, dir) \cup {dir}
    BY Zenon DEF Namesakes
<1> HIDE DEF Named, Any, named, libs
<1>6. FindEntryFile(tree, tree[dir].toml) = Earliest(Dirs, named)
    BY <1>1, <1>3, Zenon
<1> QED BY <1>2, <1>4, <1>5, <1>6, EarliestComesFirst

ProjectFields ==
    project = [pc |-> project.pc, tree |-> project.tree, entrypoint |-> project.entrypoint,
               problem |-> project.problem, name |-> project.name,
               inferred |-> project.inferred, entry |-> project.entry]

\* What was stored opened; what was found again, and shown, is what the readers
\* make of it.
ProjectOn ==
    /\ ProjectFields
    /\ project.pc \in {"stored", "ambiguous", "reopened", "viewed"} =>
         /\ Project(project.tree, project.entrypoint)
         /\ project.name = project.tree[project.entrypoint].toml
         /\ project.problem = "none"
    /\ project.pc \in {"ambiguous", "reopened", "viewed"} =>
         project.inferred = InferEntrypoint(project.tree, project.name)
    /\ project.pc = "viewed" => project.entry = FindEntryFile(project.tree, project.name)

ProjectInv == project = Off \/ ProjectOn

LEMMA ProjectBegins ==
    ASSUME ProjectInit
    PROVE  ProjectOn
<1>1. PICK tree \in Trees :
        project = [pc |-> "picked", tree |-> tree, entrypoint |-> NoDir, problem |-> "none",
                   name |-> "", inferred |-> NoDir, entry |-> NoDir]
    BY DEF ProjectInit
<1>2. ProjectFields /\ project.pc = "picked"
    BY <1>1 DEF ProjectFields
<1> QED BY <1>2 DEF ProjectOn

LEMMA PickFolderKeeps ==
    ASSUME ProjectOn, PickFolder
    PROVE  ProjectOn'
<1>1. PICK d, tree : project' = [project EXCEPT !.pc = "posted", !.tree = tree, !.entrypoint = d]
    BY DEF PickFolder
<1> QED BY <1>1 DEF ProjectOn, ProjectFields

LEMMA PostFilesKeeps ==
    ASSUME ProjectOn, PostFiles
    PROVE  ProjectOn'
<1>1. PICK dir, problem :
        project' = [project EXCEPT !.pc = "posted", !.entrypoint = dir, !.problem = problem]
    BY DEF PostFiles
<1> QED BY <1>1 DEF ProjectOn, ProjectFields

LEMMA OpenKeeps ==
    ASSUME ProjectOn, Open
    PROVE  ProjectOn'
<1> DEFINE opened == Opened(project.tree, project.problem, project.entrypoint)
<1>1. ProjectFields
    BY DEF ProjectOn
<1>2. CASE opened.error # "none"
    <2>1. project' = [project EXCEPT !.pc = "refused", !.problem = opened.error]
        BY <1>2 DEF Open
    <2> HIDE DEF opened
    <2>2. ProjectFields' /\ project'.pc = "refused"
        BY <1>1, <2>1 DEF ProjectFields
    <2> QED BY <2>2 DEF ProjectOn
<1>3. CASE opened.error = "none"
    <2>1. project' = [project EXCEPT !.pc = "stored", !.entrypoint = opened.entrypoint,
                                     !.name = opened.name]
        BY <1>3 DEF Open
    <2>2. /\ project.problem = "none" /\ Project(project.tree, project.entrypoint)
          /\ opened.entrypoint = project.entrypoint
          /\ opened.name = project.tree[project.entrypoint].toml
        BY <1>3, OpensProjects
    <2> HIDE DEF opened
    <2>3. /\ ProjectFields' /\ project'.pc = "stored" /\ project'.tree = project.tree
          /\ project'.entrypoint = opened.entrypoint /\ project'.name = opened.name
          /\ project'.problem = project.problem
        BY <1>1, <2>1 DEF ProjectFields
    <2> QED BY <2>2, <2>3 DEF ProjectOn
<1> QED BY <1>2, <1>3

\* What is found again opens, as what was stored did.
LEMMA ReopenKeeps ==
    ASSUME ProjectOn, Reopen
    PROVE  ProjectOn'
<1> DEFINE inferred == InferEntrypoint(project.tree, project.name)
           next == IF inferred = NoDir THEN "ambiguous" ELSE "reopened"
           problem == IF inferred = NoDir THEN project.problem
                      ELSE Opened(project.tree, "none", inferred).error
<1>1. /\ ProjectFields /\ project.problem = "none" /\ Project(project.tree, project.entrypoint)
      /\ project.name = project.tree[project.entrypoint].toml
    BY DEF ProjectOn, Reopen
<1>2. project' = [project EXCEPT !.pc = next, !.inferred = inferred, !.problem = problem]
    BY DEF Reopen
<1>3. next \in {"ambiguous", "reopened"}
    OBVIOUS
<1>4. problem = "none"
    <2>1. inferred # NoDir => inferred = project.entrypoint
        BY <1>1, FoundAgain
    <2> QED BY <1>1, <2>1, OpensProjects
<1> HIDE DEF inferred, next, problem
<1>5. /\ ProjectFields' /\ project'.pc = next /\ project'.tree = project.tree
      /\ project'.entrypoint = project.entrypoint /\ project'.name = project.name
      /\ project'.inferred = inferred /\ project'.problem = problem
    BY <1>1, <1>2 DEF ProjectFields
<1> QED BY <1>1, <1>3, <1>4, <1>5 DEF ProjectOn, inferred

LEMMA ViewSourcesKeeps ==
    ASSUME ProjectOn, ViewSources
    PROVE  ProjectOn'
<1> DEFINE entry == FindEntryFile(project.tree, project.name)
<1>1. /\ ProjectFields /\ project.problem = "none" /\ Project(project.tree, project.entrypoint)
      /\ project.name = project.tree[project.entrypoint].toml
      /\ project.inferred = InferEntrypoint(project.tree, project.name)
    BY DEF ProjectOn, ViewSources
<1>2. project' = [project EXCEPT !.pc = "viewed", !.entry = entry]
    BY DEF ViewSources
<1> HIDE DEF entry
<1>3. /\ ProjectFields' /\ project'.pc = "viewed" /\ project'.tree = project.tree
      /\ project'.entrypoint = project.entrypoint /\ project'.name = project.name
      /\ project'.inferred = project.inferred /\ project'.problem = project.problem
      /\ project'.entry = entry
    BY <1>1, <1>2 DEF ProjectFields
<1> QED BY <1>1, <1>3 DEF ProjectOn, entry

LEMMA ProjectKept ==
    Spec => []ProjectInv
<1>1. Init => ProjectInv
    BY ProjectBegins DEF Init, ProjectInv
<1>2. ProjectInv /\ [Next]_vars => ProjectInv'
    <2> SUFFICES ASSUME ProjectInv, [Next]_vars PROVE ProjectInv'
        OBVIOUS
    <2>1. CASE ProjectNext
        <3>1. project.pc # "off"
            BY <2>1 DEF ProjectNext, PickFolder, PostFiles, Open, Reopen, ViewSources
        <3>2. ProjectOn
            BY <3>1, OffIsOff DEF ProjectInv
        <3> QED BY <2>1, <3>2, PickFolderKeeps, PostFilesKeeps, OpenKeeps, ReopenKeeps,
                   ViewSourcesKeeps DEF ProjectNext, ProjectInv
    <2>2. CASE UNCHANGED project
        BY <2>2 DEF ProjectInv, ProjectOn, ProjectFields
    <2> QED BY <2>1, <2>2 DEF Next, vars, Analyse, Write, Compare, Carry, LookUp, Check, Display
<1> QED BY <1>1, <1>2, PTL DEF Spec

\* A stored project whose entrypoint was not recorded is found again exactly
\* when no other project of the upload has its name; then it opens as it did,
\* and the page shows its sources first unless an earlier crate has its name:
\* the three readers of project.ts and source-files.ts agree.
THEOREM ReadersAgree ==
    Spec => []StoredProjectReopens
<1>1. ProjectInv => StoredProjectReopens
    <2> SUFFICES ASSUME ProjectOn, project.pc = "viewed" PROVE StoredProjectReopens
        BY OffIsOff DEF ProjectInv, StoredProjectReopens
    <2> DEFINE tree == project.tree
               dir == project.entrypoint
    <2>1. /\ Project(tree, dir) /\ project.name = tree[dir].toml /\ project.problem = "none"
          /\ project.inferred = InferEntrypoint(tree, project.name)
          /\ project.entry = FindEntryFile(tree, project.name)
        BY DEF ProjectOn
    <2>2. project.inferred = IF Rivals(tree, dir) = {} THEN dir ELSE NoDir
        BY <2>1, FoundAgain
    <2>3. ASSUME tree[dir].lib, project.entry # dir
          PROVE  \E d \in Namesakes(tree, dir) : project.entry = d /\ Before(Dirs, d, dir)
        BY <2>1, <2>3, ShownFirst
    <2> QED BY <2>1, <2>2, <2>3 DEF StoredProjectReopens, Namesakes, Rivals
<1> QED BY <1>1, ProjectKept, PTL

-----------------------------------------------------------------------------
(* A page (Page).                                                          *)

ThemeFields ==
    theme = [pc |-> theme.pc, value |-> theme.value, stored |-> theme.stored,
             system |-> theme.system, class |-> theme.class, applied |-> theme.applied,
             events |-> theme.events, raced |-> theme.raced]

\* Once the effect has run the class is its theme's.
EffectRan ==
    theme.pc = "settled" =>
        /\ theme.applied = theme.value
        /\ theme.class = ResolvedTheme(theme.value, theme.system)

\* The last event on its way is of what is stored, and without any the page's
\* own theme is.
FollowsStorage ==
    theme.pc # "painted" /\ ~theme.raced =>
        IF theme.events = <<>> THEN theme.value = OrDefault(theme.stored)
        ELSE theme.events[Len(theme.events)] = theme.stored

ThemeOn ==
    /\ ThemeFields
    /\ theme.pc \in {"painted", "hydrated", "settled", "stale"}
    /\ theme.events \in Seq(Stored)
    /\ theme.events # <<>> => Listening
    /\ EffectRan
    /\ FollowsStorage

ThemeInv == theme = Off \/ ThemeOn

LEMMA ThemeBegins ==
    ASSUME ThemeInit
    PROVE  ThemeOn
<1>1. PICK stored \in Stored, system \in Resolved :
        theme = [pc |-> "painted", value |-> DefaultTheme, stored |-> stored, system |-> system,
                 class |-> ResolvedTheme(OrDefault(stored), system), applied |-> DefaultTheme,
                 events |-> <<>>, raced |-> FALSE]
    BY DEF ThemeInit
<1>2. ThemeFields /\ theme.pc = "painted" /\ theme.events = <<>>
    BY <1>1 DEF ThemeFields
<1> QED BY <1>2 DEF ThemeOn, EffectRan, FollowsStorage

LEMMA HydrateKeeps ==
    ASSUME ThemeOn, Hydrate
    PROVE  ThemeOn'
<1> DEFINE value == OrDefault(theme.stored)
<1>1. theme' = [theme EXCEPT !.pc = "hydrated", !.value = value] /\ ThemeFields
    BY DEF Hydrate, ThemeOn
<1>2. theme.events = <<>>
    BY DEF Hydrate, ThemeOn, Listening
<1> HIDE DEF value
<1>3. /\ ThemeFields' /\ theme'.pc = "hydrated" /\ theme'.value = value
      /\ theme'.stored = theme.stored /\ theme'.events = theme.events
    BY <1>1 DEF ThemeFields
<1> QED BY <1>2, <1>3 DEF ThemeOn, EffectRan, FollowsStorage, value

LEMMA ApplyThemeKeeps ==
    ASSUME ThemeOn, ApplyTheme
    PROVE  ThemeOn'
<1> DEFINE class == ResolvedTheme(theme.value, theme.system)
<1>1. theme' = [theme EXCEPT !.pc = "settled", !.applied = theme.value, !.class = class]
      /\ ThemeFields
    BY DEF ApplyTheme, ThemeOn
<1> HIDE DEF class
<1>2. /\ ThemeFields' /\ theme'.pc = "settled" /\ theme'.value = theme.value
      /\ theme'.stored = theme.stored /\ theme'.system = theme.system
      /\ theme'.class = class /\ theme'.applied = theme.value
      /\ theme'.events = theme.events /\ theme'.raced = theme.raced
    BY <1>1 DEF ThemeFields
<1> QED BY <1>2 DEF ApplyTheme, ThemeOn, EffectRan, FollowsStorage, Listening, class

\* A choice made while an event is on its way is one of two made at once.
LEMMA ChooseThemeKeeps ==
    ASSUME ThemeOn, NEW value \in Themes, ChooseTheme(value)
    PROVE  ThemeOn'
<1> DEFINE raced == theme.raced \/ theme.events # <<>>
<1>1. theme' = [theme EXCEPT !.pc = "stale", !.value = value, !.stored = value, !.raced = raced]
      /\ ThemeFields
    BY DEF ChooseTheme, ThemeOn
<1>2. OrDefault(value) = value
    BY DEF OrDefault
<1> HIDE DEF raced
<1>3. /\ ThemeFields' /\ theme'.pc = "stale" /\ theme'.value = value /\ theme'.stored = value
      /\ theme'.events = theme.events /\ theme'.raced = raced
    BY <1>1 DEF ThemeFields
<1> QED BY <1>2, <1>3 DEF ThemeOn, EffectRan, FollowsStorage, Listening, raced

LEMMA KeyDownKeeps ==
    ASSUME ThemeOn, KeyDown
    PROVE  ThemeOn'
<1> DEFINE isDark == ResolvedTheme(theme.value, theme.system) = "dark"
           value == CASE isDark -> "light" [] OTHER -> "dark"
<1>1. ChooseTheme(value)
    BY Zenon DEF KeyDown
<1> HIDE DEF isDark
<1>2. value = "light" \/ value = "dark"
    BY Zenon
<1>3. value \in Themes
    BY <1>2 DEF Themes, Resolved
<1> HIDE DEF value
<1> QED BY <1>1, <1>3, ChooseThemeKeeps

LEMMA SystemChangesKeeps ==
    ASSUME ThemeOn, SystemChanges
    PROVE  ThemeOn'
<1>1. PICK system, class :
        /\ theme' = [theme EXCEPT !.system = system, !.class = class]
        /\ class = IF Listening /\ theme.applied = "system" THEN system ELSE theme.class
    BY DEF SystemChanges
<1>2. ThemeFields
    BY DEF ThemeOn
<1>3. /\ ThemeFields' /\ theme'.pc = theme.pc /\ theme'.value = theme.value
      /\ theme'.stored = theme.stored /\ theme'.system = system /\ theme'.class = class
      /\ theme'.applied = theme.applied /\ theme'.events = theme.events
      /\ theme'.raced = theme.raced
    BY <1>1, <1>2 DEF ThemeFields
<1>4. EffectRan'
    BY <1>1, <1>3 DEF ThemeOn, EffectRan, ResolvedTheme, Listening
<1> QED BY <1>3, <1>4 DEF ThemeOn, FollowsStorage, Listening

LEMMA OtherTabStoresKeeps ==
    ASSUME ThemeOn, OtherTabStores
    PROVE  ThemeOn'
<1>1. PICK value, events, raced :
        /\ value \in Stored
        /\ theme' = [theme EXCEPT !.stored = value, !.events = events, !.raced = raced]
        /\ events = IF Listening THEN Append(theme.events, value) ELSE theme.events
        /\ raced = (theme.raced \/ theme.pc = "hydrated")
    BY DEF OtherTabStores
<1>2. ThemeFields
    BY DEF ThemeOn
<1>3. /\ ThemeFields' /\ theme'.pc = theme.pc /\ theme'.value = theme.value
      /\ theme'.stored = value /\ theme'.system = theme.system /\ theme'.class = theme.class
      /\ theme'.applied = theme.applied /\ theme'.events = events /\ theme'.raced = raced
    BY <1>1, <1>2 DEF ThemeFields
<1>4. EffectRan'
    BY <1>3 DEF ThemeOn, EffectRan
<1>5. CASE Listening
    <2>1. /\ events \in Seq(Stored) /\ events # <<>> /\ events[Len(events)] = value
        BY <1>1, <1>5 DEF ThemeOn
    <2> QED BY <1>3, <1>4, <1>5, <2>1 DEF ThemeOn, FollowsStorage, Listening
<1>6. CASE ~Listening
    <2>1. theme.pc \in {"painted", "hydrated"} /\ events = theme.events
        BY <1>1, <1>6 DEF ThemeOn, Listening
    <2> QED BY <1>1, <1>3, <1>4, <1>6, <2>1 DEF ThemeOn, FollowsStorage, Listening
<1> QED BY <1>5, <1>6

\* What is at the end of a sequence stays there.
LEMMA LastOfTail ==
    ASSUME NEW S, NEW q \in Seq(S), q # <<>>
    PROVE  /\ Tail(q) \in Seq(S)
           /\ Tail(q) # <<>> => Tail(q)[Len(Tail(q))] = q[Len(q)]
           /\ Tail(q) = <<>> => Head(q) = q[Len(q)]
<1>1. Tail(q) \in Seq(S) /\ Len(Tail(q)) = Len(q) - 1 /\ Len(q) \in Nat \ {0}
    OBVIOUS
<1>2. \A i \in 1..Len(Tail(q)) : Tail(q)[i] = q[i + 1]
    OBVIOUS
<1>3. Tail(q) = <<>> => Len(q) = 1
    <2>1. Len(<<>>) = 0
        OBVIOUS
    <2>2. ASSUME Tail(q) = <<>> PROVE Len(Tail(q)) = 0
        BY <2>1, <2>2, Zenon
    <2> QED BY <1>1, <2>2
<1>4. Tail(q) # <<>> => Len(Tail(q)) \in 1..Len(Tail(q))
    BY <1>1
<1>5. Head(q) = q[1]
    OBVIOUS
<1>6. Tail(q) # <<>> => Tail(q)[Len(Tail(q))] = q[Len(Tail(q)) + 1]
    BY <1>2, <1>4
<1>7. Len(Tail(q)) + 1 = Len(q)
    BY <1>1
<1> QED BY <1>1, <1>3, <1>5, <1>6, <1>7

\* The last event to arrive brings what is stored.
LEMMA StorageEventKeeps ==
    ASSUME ThemeOn, StorageEvent
    PROVE  ThemeOn'
<1> DEFINE value == OrDefault(Head(theme.events))
           events == Tail(theme.events)
<1>1. theme' = [theme EXCEPT !.pc = "stale", !.value = value, !.events = events]
      /\ ThemeFields /\ theme.events # <<>> /\ theme.events \in Seq(Stored) /\ Listening
    BY DEF StorageEvent, ThemeOn
<1>2. /\ events \in Seq(Stored)
      /\ events # <<>> => events[Len(events)] = theme.events[Len(theme.events)]
      /\ events = <<>> => Head(theme.events) = theme.events[Len(theme.events)]
    BY <1>1, LastOfTail
<1>3. theme.pc # "painted"
    BY <1>1 DEF Listening
<1>4. FollowsStorage
    BY DEF ThemeOn
<1> HIDE DEF events
<1>5. events = <<>> => value = OrDefault(theme.events[Len(theme.events)])
    BY <1>2
<1> HIDE DEF value
<1>6. /\ ThemeFields' /\ theme'.pc = "stale" /\ theme'.value = value /\ theme'.events = events
      /\ theme'.stored = theme.stored /\ theme'.raced = theme.raced
    BY <1>1 DEF ThemeFields
<1>7. FollowsStorage'
    BY <1>1, <1>2, <1>3, <1>4, <1>5, <1>6 DEF FollowsStorage
<1> QED BY <1>2, <1>6, <1>7 DEF ThemeOn, EffectRan, Listening

LEMMA ThemeKept ==
    Spec => []ThemeInv
<1>1. Init => ThemeInv
    BY ThemeBegins DEF Init, ThemeInv
<1>2. ThemeInv /\ [Next]_vars => ThemeInv'
    <2> SUFFICES ASSUME ThemeInv, [Next]_vars PROVE ThemeInv'
        OBVIOUS
    <2>1. CASE ThemeNext
        <3>1. ThemeOn
            BY <2>1, OffIsOff DEF ThemeNext, ThemeInv
        <3> QED BY <2>1, <3>1, HydrateKeeps, ApplyThemeKeeps, ChooseThemeKeeps, KeyDownKeeps,
                   SystemChangesKeeps, OtherTabStoresKeeps, StorageEventKeeps
                DEF ThemeNext, SetTheme, ThemeInv
    <2>2. CASE UNCHANGED theme
        BY <2>2 DEF ThemeInv, ThemeOn, ThemeFields, Listening, EffectRan, FollowsStorage
    <2> QED BY <2>1, <2>2 DEF Next, vars, pageVars, Analyse, Write, Compare, Carry, LookUp, Check, Display
<1> QED BY <1>1, <1>2, PTL DEF Spec

\* Without takes one element out, and keeps the others once each.
LEMMA WithoutOne ==
    ASSUME NEW S, NEW s \in Seq(S), OnceEach(s), NEW x, InSeq(x, s)
    PROVE  /\ Without(s, x) \in Seq(S)
           /\ Len(Without(s, x)) = Len(s) - 1 /\ Len(s) \in Nat \ {0}
           /\ OnceEach(Without(s, x))
           /\ \A y : InSeq(y, s) /\ y # x => InSeq(y, Without(s, x))
           /\ \A y : InSeq(y, Without(s, x)) => InSeq(y, s)
           /\ PositionOf(x, s) \in 1..Len(s)
<1> DEFINE at == PositionOf(x, s)
           rest == [i \in 1..(Len(s) - 1) |-> IF i < at THEN s[i] ELSE s[i + 1]]
<1>1. DOMAIN s = 1..Len(s) /\ Len(s) \in Nat
    OBVIOUS
<1>2. at \in DOMAIN s /\ s[at] = x
    <2>1. \E i \in DOMAIN s : s[i] = x
        BY DEF InSeq
    <2> QED BY <2>1, Zenon DEF PositionOf
<1>3. Without(s, x) = rest
    BY Zenon DEF Without
<1> HIDE DEF at
<1>4. Len(s) - 1 \in Nat /\ Len(s) \in Nat \ {0} /\ at \in 1..Len(s)
    BY <1>1, <1>2
<1>5. \A i \in 1..(Len(s) - 1) : rest[i] \in S
    BY <1>1, <1>4
<1>6. rest \in Seq(S)
    BY <1>4, <1>5
<1>7. Len(rest) = Len(s) - 1 /\ DOMAIN rest = 1..(Len(s) - 1)
    BY <1>4, <1>6
<1>8. \A i \in 1..(Len(s) - 1) : rest[i] = IF i < at THEN s[i] ELSE s[i + 1]
    OBVIOUS
<1> HIDE DEF rest
<1>9. OnceEach(rest)
    <2> SUFFICES ASSUME NEW i \in 1..(Len(s) - 1), NEW j \in 1..(Len(s) - 1), rest[i] = rest[j]
                 PROVE  i = j
        BY <1>7 DEF OnceEach
    <2> DEFINE from(k) == IF k < at THEN k ELSE k + 1
    <2>1. from(i) \in DOMAIN s /\ from(j) \in DOMAIN s
        BY <1>1, <1>4
    <2>2. rest[i] = s[from(i)] /\ rest[j] = s[from(j)]
        BY <1>8
    <2>3. from(i) = from(j)
        BY <2>1, <2>2 DEF OnceEach
    <2> QED BY <1>4, <2>3
<1>10. ASSUME NEW y, InSeq(y, s), y # x PROVE InSeq(y, rest)
    <2>1. PICK i \in 1..Len(s) : s[i] = y
        BY <1>1, <1>10 DEF InSeq
    <2>2. i # at
        BY <1>2, <1>10, <2>1
    <2>3. CASE i < at
        <3>1. i \in 1..(Len(s) - 1) /\ rest[i] = y
            BY <1>4, <1>8, <2>1, <2>3
        <3> QED BY <1>7, <3>1 DEF InSeq
    <2>4. CASE i > at
        <3>1. i - 1 \in 1..(Len(s) - 1) /\ ~(i - 1 < at) /\ (i - 1) + 1 = i
            BY <1>4, <2>1, <2>4
        <3>2. rest[i - 1] = y
            BY <1>8, <2>1, <3>1
        <3> QED BY <1>7, <3>1, <3>2 DEF InSeq
    <2> QED BY <1>4, <2>1, <2>2, <2>3, <2>4
<1>11. ASSUME NEW y, InSeq(y, rest) PROVE InSeq(y, s)
    <2>1. PICK i \in 1..(Len(s) - 1) : rest[i] = y
        BY <1>7, <1>11 DEF InSeq
    <2>2. i \in 1..Len(s) /\ i + 1 \in 1..Len(s)
        BY <1>4
    <2> QED BY <1>1, <1>8, <2>1, <2>2 DEF InSeq
<1> QED BY <1>3, <1>4, <1>6, <1>7, <1>9, <1>10, <1>11 DEF at

TabsFields ==
    tabs = [pc |-> tabs.pc, files |-> tabs.files, moved |-> tabs.moved, active |-> tabs.active,
            open |-> tabs.open]

\* What TabsShowTheirState says of the tabs, and that until the page has moved
\* each of them is of one of its files.
TabsOn ==
    /\ TabsFields
    /\ tabs.pc = "open"
    /\ tabs.files \in FileSets
    /\ tabs.open \in Seq(Paths)
    /\ OnceEach(tabs.open)
    /\ tabs.active = NoPath <=> tabs.open = <<>>
    /\ tabs.active # NoPath => InSeq(tabs.active, tabs.open)
    /\ ~tabs.moved => \A path : InSeq(path, tabs.open) => path \in tabs.files

TabsInv == tabs = Off \/ TabsOn

LEMMA TabsBegin ==
    ASSUME TabsInit
    PROVE  TabsOn
<1>1. PICK files, entry, open :
        /\ files \in FileSets
        /\ entry \in files \cup {NoPath}
        /\ entry = NoPath <=> files = {}
        /\ tabs = [pc |-> "open", files |-> files, moved |-> FALSE, active |-> entry, open |-> open]
        /\ open = IF entry = NoPath THEN <<>> ELSE <<entry>>
    BY DEF TabsInit
<1>2. TabsFields /\ tabs.pc = "open" /\ tabs.files = files /\ tabs.active = entry /\ tabs.open = open
    BY <1>1 DEF TabsFields
<1>3. CASE entry = NoPath
    BY <1>1, <1>2, <1>3 DEF TabsOn, OnceEach, InSeq
<1>4. CASE entry # NoPath
    <2>1. entry \in files /\ entry \in Paths /\ open = <<entry>>
        BY <1>1, <1>4, PageAssumption
    <2>2. /\ open \in Seq(Paths) /\ open # <<>> /\ OnceEach(open) /\ InSeq(entry, open)
          /\ \A path : InSeq(path, open) => path = entry
        BY <2>1 DEF OnceEach, InSeq
    <2> QED BY <1>1, <1>2, <1>4, <2>1, <2>2 DEF TabsOn
<1> QED BY <1>3, <1>4

LEMMA OpenFileKeeps ==
    ASSUME TabsOn, NEW path \in Paths, OpenFile(path)
    PROVE  TabsOn'
<1>1. PICK open :
        /\ tabs' = [tabs EXCEPT !.open = open, !.active = path]
        /\ open = IF InSeq(path, tabs.open) THEN tabs.open ELSE Append(tabs.open, path)
    BY DEF OpenFile
<1>2. TabsFields /\ tabs.open \in Seq(Paths) /\ OnceEach(tabs.open) /\ path # NoPath /\ path \in tabs.files
    BY PageAssumption DEF TabsOn, OpenFile
<1>3. /\ TabsFields' /\ tabs'.pc = tabs.pc /\ tabs'.files = tabs.files /\ tabs'.moved = tabs.moved
      /\ tabs'.active = path /\ tabs'.open = open
    BY <1>1, <1>2 DEF TabsFields
<1>4. CASE InSeq(path, tabs.open)
    <2>1. open = tabs.open /\ open # <<>>
        BY <1>1, <1>4 DEF InSeq
    <2> QED BY <1>2, <1>3, <1>4, <2>1 DEF TabsOn
<1>5. CASE ~InSeq(path, tabs.open)
    <2>1. open = Append(tabs.open, path)
        BY <1>1, <1>5
    <2>2. /\ open \in Seq(Paths) /\ Len(open) = Len(tabs.open) + 1 /\ Len(tabs.open) \in Nat
          /\ DOMAIN open = 1..Len(open) /\ DOMAIN tabs.open = 1..Len(tabs.open)
          /\ \A i \in 1..Len(tabs.open) : open[i] = tabs.open[i]
          /\ open[Len(open)] = path
        BY <1>2, <2>1
    <2>3. open # <<>>
        BY <2>2
    <2>4. InSeq(path, open)
        BY <2>2 DEF InSeq
    <2>5. OnceEach(open)
        BY <1>2, <1>5, <2>2 DEF OnceEach, InSeq
    <2>6. ASSUME NEW p, InSeq(p, open) PROVE p = path \/ InSeq(p, tabs.open)
        BY <2>2, <2>6 DEF InSeq
    <2> QED BY <1>2, <1>3, <2>2, <2>3, <2>4, <2>5, <2>6 DEF TabsOn
<1> QED BY <1>4, <1>5

LEMMA SelectTabKeeps ==
    ASSUME TabsOn, NEW path \in Paths, SelectTab(path)
    PROVE  TabsOn'
<1>1. /\ tabs' = [tabs EXCEPT !.active = path] /\ TabsFields
      /\ InSeq(path, tabs.open) /\ path # NoPath
    BY PageAssumption DEF SelectTab, Visible, TabsOn
<1>2. /\ TabsFields' /\ tabs'.pc = tabs.pc /\ tabs'.files = tabs.files /\ tabs'.moved = tabs.moved
      /\ tabs'.active = path /\ tabs'.open = tabs.open
    BY <1>1 DEF TabsFields
<1>3. tabs.open # <<>>
    BY <1>1 DEF InSeq
<1> QED BY <1>1, <1>2, <1>3 DEF TabsOn

\* A tab takes the place of the active one as long as there is any.
LEMMA CloseFileKeeps ==
    ASSUME TabsOn, NEW path \in Paths, CloseFile(path)
    PROVE  TabsOn'
<1> DEFINE remaining == Without(tabs.open, path)
           active == IF path = tabs.active THEN NextActive(path) ELSE tabs.active
<1>1. /\ tabs' = [tabs EXCEPT !.open = remaining, !.active = active]
      /\ TabsFields /\ tabs.open \in Seq(Paths) /\ OnceEach(tabs.open) /\ InSeq(path, tabs.open)
    BY DEF CloseFile, Visible, TabsOn
<1>2. /\ remaining \in Seq(Paths) /\ OnceEach(remaining)
      /\ Len(remaining) = Len(tabs.open) - 1 /\ Len(tabs.open) \in Nat \ {0}
      /\ \A y : InSeq(y, tabs.open) /\ y # path => InSeq(y, remaining)
      /\ \A y : InSeq(y, remaining) => InSeq(y, tabs.open)
      /\ PositionOf(path, tabs.open) \in 1..Len(tabs.open)
    BY <1>1, WithoutOne
<1>3. ASSUME path = tabs.active
      PROVE  /\ active = NoPath <=> remaining = <<>>
             /\ active # NoPath => InSeq(active, remaining)
    <2> DEFINE index == AtMost(PositionOf(path, tabs.open), Len(remaining))
    <2>1. active = IF index \in DOMAIN remaining THEN remaining[index] ELSE NoPath
        BY <1>3 DEF NextActive
    <2> HIDE DEF remaining, active
    <2>2. CASE Len(remaining) = 0
        <3>1. remaining = <<>> /\ DOMAIN remaining = {}
            BY <1>2, <2>2
        <3> QED BY <2>1, <3>1
    <2>3. CASE Len(remaining) # 0
        <3>1. index \in 1..Len(remaining)
            <4>1. PICK at \in Nat \ {0} : at = PositionOf(path, tabs.open)
                BY <1>2
            <4>2. PICK n \in Nat \ {0} : n = Len(remaining)
                <5>1. remaining \in Seq(Paths)
                    BY <1>2
                <5>2. Len(remaining) \in Nat
                    BY <5>1
                <5> QED BY <2>3, <5>2
            <4>3. AtMost(at, n) \in 1..n
                BY DEF AtMost
            <4> QED BY <4>1, <4>2, <4>3
        <3>2. index \in DOMAIN remaining /\ remaining # <<>> /\ remaining[index] \in Paths
            BY <1>2, <3>1
        <3> HIDE DEF index
        <3>3. active = remaining[index] /\ active # NoPath
            BY <2>1, <3>2, PageAssumption
        <3> QED BY <3>2, <3>3 DEF InSeq
    <2> QED BY <2>2, <2>3
<1>4. ASSUME path # tabs.active
      PROVE  /\ active = NoPath <=> remaining = <<>>
             /\ active # NoPath => InSeq(active, remaining)
    <2>1. active = tabs.active
        BY <1>4
    <2>2. tabs.open # <<>>
        BY <1>1 DEF InSeq
    <2>3. active # NoPath /\ InSeq(active, tabs.open)
        BY <2>1, <2>2 DEF TabsOn
    <2>4. InSeq(active, remaining)
        BY <1>2, <1>4, <2>1, <2>3
    <2> HIDE DEF remaining, active
    <2>5. remaining # <<>>
        BY <2>4 DEF InSeq
    <2> QED BY <2>3, <2>4, <2>5
<1> HIDE DEF remaining, active
<1>5. /\ TabsFields' /\ tabs'.pc = tabs.pc /\ tabs'.files = tabs.files /\ tabs'.moved = tabs.moved
      /\ tabs'.active = active /\ tabs'.open = remaining
    BY <1>1 DEF TabsFields
<1> QED BY <1>2, <1>3, <1>4, <1>5 DEF TabsOn

LEMMA NavigateKeeps ==
    ASSUME TabsOn, Navigate
    PROVE  TabsOn'
<1>1. PICK files \in FileSets : tabs' = [tabs EXCEPT !.files = files, !.moved = TRUE]
    BY DEF Navigate
<1>2. TabsFields
    BY DEF TabsOn
<1>3. /\ TabsFields' /\ tabs'.pc = tabs.pc /\ tabs'.files = files /\ tabs'.moved
      /\ tabs'.active = tabs.active /\ tabs'.open = tabs.open
    BY <1>1, <1>2 DEF TabsFields
<1> QED BY <1>3 DEF TabsOn

LEMMA TabsKept ==
    Spec => []TabsInv
<1>1. Init => TabsInv
    BY TabsBegin DEF Init, TabsInv
<1>2. TabsInv /\ [Next]_vars => TabsInv'
    <2> SUFFICES ASSUME TabsInv, [Next]_vars PROVE TabsInv'
        OBVIOUS
    <2>1. CASE TabsNext
        <3>1. TabsOn
            BY <2>1, OffIsOff DEF TabsNext, TabsInv
        <3> QED BY <2>1, <3>1, OpenFileKeeps, SelectTabKeeps, CloseFileKeeps, NavigateKeeps
                DEF TabsNext, TabsInv
    <2>2. CASE UNCHANGED tabs
        BY <2>2 DEF TabsInv, TabsOn, TabsFields, OnceEach, InSeq
    <2> QED BY <2>1, <2>2 DEF Next, vars, pageVars, Analyse, Write, Compare, Carry, LookUp, Check, Display
<1> QED BY <1>1, <1>2, PTL DEF Spec

\* The page's own state is what it shows: no file has two tabs and the active
\* one is open and, until the page moves, shown; the class is the theme's, and
\* the theme the stored one once every event has arrived (source-code.tsx,
\* theme-provider.tsx).
THEOREM PageTrueToItself ==
    Spec => []PageShowsItsState
<1>1. TabsInv => TabsShowTheirState
    <2> SUFFICES ASSUME TabsOn PROVE TabsShowTheirState
        BY OffIsOff DEF TabsInv, TabsShowTheirState
    <2>1. ~tabs.moved => (Showing <=> tabs.open # <<>>)
        <3>1. ASSUME Showing PROVE tabs.open # <<>>
            BY <3>1 DEF Showing, Visible, InSeq
        <3>2. ASSUME tabs.open # <<>>, ~tabs.moved PROVE Showing
            BY <3>2 DEF TabsOn, Showing, Visible
        <3> QED BY <3>1, <3>2
    <2> QED BY <2>1 DEF TabsOn, TabsShowTheirState
<1>2. ThemeInv => ThemeShowsItsState
    BY OffIsOff DEF ThemeInv, ThemeOn, EffectRan, FollowsStorage, ThemeShowsItsState
<1> QED BY <1>1, <1>2, TabsKept, ThemeKept, PTL DEF PageShowsItsState

-----------------------------------------------------------------------------
(* A run of the status page's checks (Checks).                             *)

\* The answer that is right is healthy, whatever was checked.
LEMMA RightIsHealthy ==
    ASSUME NEW service, NEW check
    PROVE  ProbeEndpoint(service, check, Right)
<1>1. Right = [status |-> 200, json |-> TRUE, wrong |-> {}]
    BY DEF Right, Answer
<1>2. Right.status = 200 /\ Right.json /\ Right.wrong = {}
    BY <1>1
<1>3. Right.status \in 200..299
    BY <1>2
<1>4. Right.wrong \cap Asserts[check] = {}
    BY <1>2
<1> QED BY <1>2, <1>3, <1>4, Zenon DEF ProbeEndpoint

\* An error is not, nor no answer, and no more is what a check asserts against.
IsError(answer) == answer.status \notin 200..299

LEMMA Errors ==
    /\ IsError(NoAnswer)
    /\ \A status \in {400, 404, 500, 502, 503, 504} :
         IsError(Failed(status)) /\ Failed(status) # Right
<1>1. NoAnswer = [status |-> 0, json |-> FALSE, wrong |-> {}]
    BY DEF NoAnswer, Answer
<1>2. IsError(NoAnswer)
    BY <1>1 DEF IsError
<1>3. ASSUME NEW status \in {400, 404, 500, 502, 503, 504}
      PROVE  IsError(Failed(status)) /\ Failed(status) # Right
    <2>1. Failed(status).status = status /\ Right.status = 200
        BY DEF Failed, Right, Answer
    <2> QED BY <2>1 DEF IsError
<1> QED BY <1>2, <1>3

LEMMA ErrorIsNot ==
    ASSUME NEW service, NEW check, NEW answer, IsError(answer)
    PROVE  ~ProbeEndpoint(service, check, answer)
BY Zenon DEF ProbeEndpoint, IsError

LEMMA AssertedIsNot ==
    ASSUME NEW service, NEW check, check # "root", NEW what, what \in Asserts[check]
    PROVE  ~ProbeEndpoint(service, check, Wrong(what))
<1>1. Wrong(what) = [status |-> 200, json |-> TRUE, wrong |-> {what}]
    BY DEF Wrong, Answer
<1>2. Wrong(what).wrong = {what}
    BY <1>1
<1>3. Wrong(what).wrong \cap Asserts[check] # {}
    BY <1>2
<1>4. Inspected(service, check)
    BY DEF Inspected
<1> QED BY <1>3, <1>4, Zenon DEF ProbeEndpoint

LEMMA AssertsOfChecks ==
    /\ "root" \in Asserts["account_by_id"]
    /\ "built" \in Asserts["compile"]
    /\ "root" \in Asserts["import"]
<1>1. /\ "account_by_id" \in DOMAIN RegistryAsserts
      /\ RegistryAsserts["account_by_id"] = {"root", "network", "content"} \cup {"id"}
    BY DEF RegistryAsserts
<1>2. /\ "compile" \notin DOMAIN RegistryAsserts /\ "import" \notin DOMAIN RegistryAsserts
      /\ "compile" \in DOMAIN CompileAsserts /\ "import" \in DOMAIN CompileAsserts
      /\ CompileAsserts["compile"] = {"built", "commitment", "manifest"}
      /\ CompileAsserts["import"] = {"type", "root"}
    BY DEF RegistryAsserts, CompileAsserts
<1>3. Asserts["account_by_id"] = RegistryAsserts["account_by_id"]
    BY <1>1, Zenon DEF Asserts
<1>4. Asserts["compile"] = CompileAsserts["compile"] /\ Asserts["import"] = CompileAsserts["import"]
    BY <1>2, Zenon DEF Asserts
<1> QED BY <1>1, <1>2, <1>3, <1>4

\* What each kind of check is answered.
LEMMA ReadingAnswers ==
    ASSUME NEW broken
    PROVE  /\ broken \cap {"database", "records"} = {} => Reading(broken) = {Right}
           /\ broken \cap {"database", "records"} # {} =>
                \A a \in Reading(broken) : IsError(a)
<1>1. CASE "database" \in broken
    <2>1. Reading(broken) = {NoAnswer, Failed(500)}
        BY <1>1, Zenon DEF Reading
    <2> QED BY <1>1, <2>1, Errors
<1>2. CASE "database" \notin broken /\ "records" \in broken
    <2>1. Reading(broken) = {Failed(404)}
        BY <1>2, Zenon DEF Reading
    <2> QED BY <1>2, <2>1, Errors
<1>3. CASE "database" \notin broken /\ "records" \notin broken
    <2>1. Reading(broken) = {Right}
        BY <1>3, Zenon DEF Reading
    <2> QED BY <1>3, <2>1
<1> QED BY <1>1, <1>2, <1>3

LEMMA ResolvingAnswers ==
    ASSUME NEW broken
    PROVE  /\ broken \cap {"api_compile", "node", "fixtures"} = {} => Resolving(broken) = {Right}
           /\ broken \cap {"api_compile", "node", "fixtures"} # {} =>
                /\ Resolving(broken) # {Right}
                /\ \A a \in Resolving(broken) : a = Wrong("root") \/ IsError(a)
<1> DEFINE Node == broken \cap {"api_compile", "node"} # {}
           Fixtures == broken \cap {"api_compile", "node"} = {} /\ "fixtures" \in broken
<1>1. Resolving(broken) = CASE Node -> {NoAnswer, Failed(502)}
                            [] Fixtures -> {Failed(404), Wrong("root")}
                            [] OTHER -> {Right}
    BY Zenon DEF Resolving
<1>2. Node => ~Fixtures
    OBVIOUS
<1>3. ~Node /\ ~Fixtures <=> broken \cap {"api_compile", "node", "fixtures"} = {}
    OBVIOUS
<1>4. \A status \in {404, 502} : Failed(status) # Right
    BY Errors
<1> HIDE DEF Node, Fixtures
<1>5. CASE Node
    <2>1. Resolving(broken) = {NoAnswer, Failed(502)}
        BY <1>1, <1>2, <1>5, Zenon
    <2>2. Failed(502) \in Resolving(broken) /\ Failed(502) # Right
        BY <1>4, <2>1
    <2>3. Resolving(broken) # {Right}
        BY <2>2
    <2>4. \A a \in Resolving(broken) : IsError(a)
        BY <2>1, Errors
    <2> QED BY <1>3, <1>5, <2>3, <2>4
<1>6. CASE Fixtures
    <2>1. Resolving(broken) = {Failed(404), Wrong("root")}
        BY <1>1, <1>2, <1>6, Zenon
    <2>2. Failed(404) # Right
        BY <1>4
    <2>3. Resolving(broken) # {Right}
        BY <2>1, <2>2
    <2>4. \A a \in Resolving(broken) : a = Wrong("root") \/ IsError(a)
        BY <2>1, Errors
    <2> QED BY <1>3, <1>6, <2>3, <2>4
<1>7. CASE ~Node /\ ~Fixtures
    <2>1. Resolving(broken) = {Right}
        BY <1>1, <1>7, Zenon
    <2> QED BY <1>3, <1>7, <2>1
<1> QED BY <1>5, <1>6, <1>7

LEMMA CompilingAnswers ==
    ASSUME NEW broken
    PROVE  /\ broken \cap {"slots", "toolchain"} = {} => Compiling(broken) = {Right}
           /\ broken \cap {"slots", "toolchain"} # {} =>
                \A a \in Compiling(broken) : a = Wrong("built") \/ IsError(a)
<1>1. CASE "slots" \in broken
    <2>1. Compiling(broken) = {NoAnswer, Failed(503), Failed(504)}
        BY <1>1, Zenon DEF Compiling
    <2> QED BY <1>1, <2>1, Errors
<1>2. CASE "slots" \notin broken /\ "toolchain" \in broken
    <2>1. Compiling(broken) = {Wrong("built"), Failed(500), Failed(504)}
        BY <1>2, Zenon DEF Compiling
    <2> QED BY <1>2, <2>1, Errors
<1>3. CASE "slots" \notin broken /\ "toolchain" \notin broken
    <2>1. Compiling(broken) = {Right}
        BY <1>3, Zenon DEF Compiling
    <2> QED BY <1>3, <2>1
<1> QED BY <1>1, <1>2, <1>3

LEMMA ImportingAnswers ==
    ASSUME NEW broken
    PROVE  /\ broken \cap {"node", "fixtures"} = {} => Importing(broken) = {Right}
           /\ broken \cap {"node", "fixtures"} # {} =>
                \A a \in Importing(broken) : a = Wrong("root") \/ IsError(a)
<1>1. CASE "node" \in broken
    <2>1. Importing(broken) = {NoAnswer, Failed(502)}
        BY <1>1, Zenon DEF Importing
    <2> QED BY <1>1, <2>1, Errors
<1>2. CASE "node" \notin broken /\ "fixtures" \in broken
    <2>1. Importing(broken) = {Failed(404), Wrong("root")}
        BY <1>2, Zenon DEF Importing
    <2> QED BY <1>2, <2>1, Errors
<1>3. CASE "node" \notin broken /\ "fixtures" \notin broken
    <2>1. Importing(broken) = {Right}
        BY <1>3, Zenon DEF Importing
    <2> QED BY <1>3, <2>1
<1> QED BY <1>1, <1>2, <1>3

LEMMA VerifyingAnswers ==
    ASSUME NEW broken, broken \cap {"slots", "toolchain", "node", "fixtures"} = {}
    PROVE  Verifying(broken) = {Right}
<1> DEFINE Build == broken \cap {"slots", "toolchain"} # {}
           Node == broken \cap {"slots", "toolchain"} = {} /\ "node" \in broken
           Fixtures == broken \cap {"slots", "toolchain", "node"} = {} /\ "fixtures" \in broken
<1>1. Verifying(broken) = CASE Build -> {NoAnswer} \cup {Failed(s) : s \in {400, 500, 503, 504}}
                            [] Node -> {Failed(502)}
                            [] Fixtures -> {Failed(400), Wrong("verified")}
                            [] OTHER -> {Right}
    BY Zenon DEF Verifying
<1>2. ~Build /\ ~Node /\ ~Fixtures
    OBVIOUS
<1> HIDE DEF Build, Node, Fixtures
<1> QED BY <1>1, <1>2, Zenon

LEMMA AnswersOfChecks ==
    ASSUME NEW service, NEW broken, service \notin broken
    PROVE  /\ Answers(service, "root", broken) = {Right}
           /\ Answers(service, "account_by_code", broken) = Reading(broken)
           /\ Answers(service, "note_by_script", broken) = Reading(broken)
           /\ \A check \in {"account_by_id", "note_by_id"} :
                Answers(service, check, broken)
                  = IF Resolving(broken) = {Right} THEN Reading(broken) ELSE Resolving(broken)
           /\ Answers(service, "compile", broken) = Compiling(broken)
           /\ Answers(service, "verify", broken) = Verifying(broken)
           /\ Answers(service, "import", broken) = Importing(broken)
<1> SUFFICES ASSUME NEW check
             PROVE  /\ check = "root" => Answers(service, check, broken) = {Right}
                    /\ check \in {"account_by_code", "note_by_script"} =>
                         Answers(service, check, broken) = Reading(broken)
                    /\ check \in {"account_by_id", "note_by_id"} =>
                         Answers(service, check, broken)
                           = IF Resolving(broken) = {Right} THEN Reading(broken) ELSE Resolving(broken)
                    /\ check = "compile" => Answers(service, check, broken) = Compiling(broken)
                    /\ check = "verify" => Answers(service, check, broken) = Verifying(broken)
                    /\ check = "import" => Answers(service, check, broken) = Importing(broken)
    BY Zenon
<1> DEFINE IsRoot == check = "root"
           IsRecord == check \in {"account_by_code", "note_by_script"}
           IsId == check \in {"account_by_id", "note_by_id"}
           IsCompile == check = "compile"
           IsVerify == check = "verify"
           IsImport == check = "import"
           resolved == IF Resolving(broken) = {Right} THEN Reading(broken) ELSE Resolving(broken)
<1>1. Answers(service, check, broken)
        = CASE IsRoot -> {Right} [] IsRecord -> Reading(broken) [] IsId -> resolved
            [] IsCompile -> Compiling(broken) [] IsVerify -> Verifying(broken)
            [] IsImport -> Importing(broken)
    BY Zenon DEF Answers
<1>2. /\ IsRoot => ~IsRecord /\ ~IsId /\ ~IsCompile /\ ~IsVerify /\ ~IsImport
      /\ IsRecord => ~IsRoot /\ ~IsId /\ ~IsCompile /\ ~IsVerify /\ ~IsImport
      /\ IsId => ~IsRoot /\ ~IsRecord /\ ~IsCompile /\ ~IsVerify /\ ~IsImport
      /\ IsCompile => ~IsRoot /\ ~IsRecord /\ ~IsId /\ ~IsVerify /\ ~IsImport
      /\ IsVerify => ~IsRoot /\ ~IsRecord /\ ~IsId /\ ~IsCompile /\ ~IsImport
      /\ IsImport => ~IsRoot /\ ~IsRecord /\ ~IsId /\ ~IsCompile /\ ~IsVerify
    OBVIOUS
<1> SUFFICES /\ IsRoot => Answers(service, check, broken) = {Right}
             /\ IsRecord => Answers(service, check, broken) = Reading(broken)
             /\ IsId => Answers(service, check, broken) = resolved
             /\ IsCompile => Answers(service, check, broken) = Compiling(broken)
             /\ IsVerify => Answers(service, check, broken) = Verifying(broken)
             /\ IsImport => Answers(service, check, broken) = Importing(broken)
    BY Zenon
<1> HIDE DEF IsRoot, IsRecord, IsId, IsCompile, IsVerify, IsImport, resolved
<1>3. IsRoot => Answers(service, check, broken) = {Right}
    BY <1>1, <1>2, Zenon
<1>4. IsRecord => Answers(service, check, broken) = Reading(broken)
    BY <1>1, <1>2, Zenon
<1>5. IsId => Answers(service, check, broken) = resolved
    BY <1>1, <1>2, Zenon
<1>6. IsCompile => Answers(service, check, broken) = Compiling(broken)
    BY <1>1, <1>2, Zenon
<1>7. IsVerify => Answers(service, check, broken) = Verifying(broken)
    BY <1>1, <1>2, Zenon
<1>8. IsImport => Answers(service, check, broken) = Importing(broken)
    BY <1>1, <1>2, Zenon
<1> QED BY <1>3, <1>4, <1>5, <1>6, <1>7, <1>8

\* The parts that, broken, each have a check of a service fail.
Fails ==
    [api_registry |-> <<{}, {"database", "records"}, {"api_compile", "node", "fixtures"}, {}, {}>>,
     web_verifier |-> <<{}>>,
     web_viewer   |-> <<{}>>,
     api_compile  |-> <<{}, {"slots", "toolchain"}, {}, {"node", "fixtures"}>>]

LEMMA ChecksOfServices ==
    /\ Services = {"api_registry", "web_verifier", "web_viewer", "api_compile"}
    /\ EndpointsOf["api_registry"] =
         <<"root", "account_by_code", "account_by_id", "note_by_script", "note_by_id">>
    /\ EndpointsOf["web_verifier"] = <<"root">> /\ EndpointsOf["web_viewer"] = <<"root">>
    /\ EndpointsOf["api_compile"] = <<"root", "compile", "verify", "import">>
BY DEF Services, EndpointsOf

LEMMA NeedsOfServices ==
    /\ Needs["api_registry"]
         = {"api_registry", "database", "records", "api_compile", "node", "fixtures"}
    /\ Needs["web_verifier"] = {"web_verifier"} /\ Needs["web_viewer"] = {"web_viewer"}
    /\ Needs["api_compile"] = {"api_compile", "slots", "toolchain", "node", "fixtures"}
BY DEF Needs

LEMMA FailsOfServices ==
    /\ Fails["api_registry"]
         = <<{}, {"database", "records"}, {"api_compile", "node", "fixtures"}, {}, {}>>
    /\ Fails["web_verifier"] = <<{}>> /\ Fails["web_viewer"] = <<{}>>
    /\ Fails["api_compile"] = <<{}, {"slots", "toolchain"}, {}, {"node", "fixtures"}>>
BY DEF Fails

\* A check fails over a part that has it fail, and only over a need.
Judged(s, i, broken) ==
    \A answer \in Answers(s, EndpointsOf[s][i], broken) :
        /\ broken \cap Needs[s] = {} => ProbeEndpoint(s, EndpointsOf[s][i], answer)
        /\ s \notin broken /\ i = 1 => ProbeEndpoint(s, EndpointsOf[s][i], answer)
        /\ s \notin broken /\ broken \cap Fails[s][i] # {} =>
             ~ProbeEndpoint(s, EndpointsOf[s][i], answer)

\* While the service itself works: it answers right, or what each answer is
\* judged to be.
LEMMA JudgedByParts ==
    ASSUME NEW s, NEW i, NEW broken,
           s \in Needs[s],
           i = 1 => Fails[s][i] = {} /\ (s \notin broken => Answers(s, EndpointsOf[s][i], broken) = {Right}),
           broken \cap Needs[s] = {} => Answers(s, EndpointsOf[s][i], broken) = {Right},
           s \notin broken /\ broken \cap Fails[s][i] # {} =>
             \A answer \in Answers(s, EndpointsOf[s][i], broken) :
                ~ProbeEndpoint(s, EndpointsOf[s][i], answer)
    PROVE  Judged(s, i, broken)
<1> DEFINE check == EndpointsOf[s][i]
<1>1. \A answer \in {Right} : ProbeEndpoint(s, check, answer)
    BY RightIsHealthy
<1> HIDE DEF check
<1> SUFFICES ASSUME NEW answer \in Answers(s, check, broken)
             PROVE  /\ broken \cap Needs[s] = {} => ProbeEndpoint(s, check, answer)
                    /\ s \notin broken /\ i = 1 => ProbeEndpoint(s, check, answer)
                    /\ s \notin broken /\ broken \cap Fails[s][i] # {} =>
                         ~ProbeEndpoint(s, check, answer)
    BY Zenon DEF Judged, check
<1> QED BY <1>1, Zenon DEF check

LEMMA ErrorsAreNot ==
    ASSUME NEW s, NEW check, NEW what, NEW answers, check # "root", what \in Asserts[check],
           \A a \in answers : a = Wrong(what) \/ IsError(a)
    PROVE  \A a \in answers : ~ProbeEndpoint(s, check, a)
<1>1. ~ProbeEndpoint(s, check, Wrong(what))
    BY AssertedIsNot
<1>2. \A a : IsError(a) => ~ProbeEndpoint(s, check, a)
    BY ErrorIsNot
<1> QED BY <1>1, <1>2, Zenon

LEMMA RegistryJudged ==
    ASSUME NEW broken, NEW i \in 1..5
    PROVE  Judged("api_registry", i, broken)
<1> DEFINE s == "api_registry"
           checks == <<"root", "account_by_code", "account_by_id", "note_by_script", "note_by_id">>
<1>1. EndpointsOf[s] = checks /\ s \in Needs[s]
      /\ Needs[s] = {"api_registry", "database", "records", "api_compile", "node", "fixtures"}
    BY ChecksOfServices, NeedsOfServices
<1>2. /\ Fails[s][1] = {} /\ Fails[s][2] = {"database", "records"}
      /\ Fails[s][3] = {"api_compile", "node", "fixtures"} /\ Fails[s][4] = {} /\ Fails[s][5] = {}
    BY FailsOfServices
<1>3. broken \cap Needs[s] = {} =>
        /\ s \notin broken /\ broken \cap {"database", "records"} = {}
        /\ broken \cap {"api_compile", "node", "fixtures"} = {}
    BY <1>1
<1>4. broken \cap Needs[s] = {} => Reading(broken) = {Right} /\ Resolving(broken) = {Right}
    <2>1. broken \cap Needs[s] = {} => Reading(broken) = {Right}
        BY <1>3, ReadingAnswers
    <2>2. broken \cap Needs[s] = {} => Resolving(broken) = {Right}
        BY <1>3, ResolvingAnswers
    <2> QED BY <2>1, <2>2
<1>5. CASE i = 1
    <2>1. EndpointsOf[s][1] = "root"
        BY <1>1
    <2>2. s \notin broken => Answers(s, EndpointsOf[s][1], broken) = {Right}
        BY <2>1, AnswersOfChecks, Zenon
    <2>3. Judged(s, 1, broken)
        BY <1>1, <1>2, <1>3, <2>2, JudgedByParts
    <2> QED BY <1>5, <2>3
<1>6. CASE i = 2
    <2>1. EndpointsOf[s][2] = "account_by_code"
        BY <1>1
    <2>2. s \notin broken => Answers(s, EndpointsOf[s][2], broken) = Reading(broken)
        BY <2>1, AnswersOfChecks, Zenon
    <2>3. broken \cap Fails[s][2] # {} =>
            \A a \in Reading(broken) : ~ProbeEndpoint(s, EndpointsOf[s][2], a)
        BY <1>2, ReadingAnswers, ErrorIsNot
    <2>4. broken \cap Needs[s] = {} => Answers(s, EndpointsOf[s][2], broken) = {Right}
        BY <1>3, <1>4, <2>2, Zenon
    <2>5. s \notin broken /\ broken \cap Fails[s][2] # {} =>
            \A a \in Answers(s, EndpointsOf[s][2], broken) : ~ProbeEndpoint(s, EndpointsOf[s][2], a)
        BY <2>2, <2>3, Zenon
    <2>6. Judged(s, 2, broken)
        BY <1>1, <2>4, <2>5, JudgedByParts
    <2> QED BY <1>6, <2>6
<1>7. CASE i = 3
    <2>1. EndpointsOf[s][3] = "account_by_id"
        BY <1>1
    <2>2. s \notin broken =>
            Answers(s, EndpointsOf[s][3], broken)
              = IF Resolving(broken) = {Right} THEN Reading(broken) ELSE Resolving(broken)
        BY <2>1, AnswersOfChecks, Zenon
    <2>3. ASSUME broken \cap Fails[s][3] # {}
          PROVE  /\ Resolving(broken) # {Right}
                 /\ \A a \in Resolving(broken) : ~ProbeEndpoint(s, EndpointsOf[s][3], a)
        <3>1. /\ Resolving(broken) # {Right}
              /\ \A a \in Resolving(broken) : a = Wrong("root") \/ IsError(a)
            BY <1>2, <2>3, ResolvingAnswers
        <3>2. EndpointsOf[s][3] # "root" /\ "root" \in Asserts[EndpointsOf[s][3]]
            BY <2>1, AssertsOfChecks
        <3> QED BY <3>1, <3>2, ErrorsAreNot
    <2>4. broken \cap Needs[s] = {} => Answers(s, EndpointsOf[s][3], broken) = {Right}
        BY <1>3, <1>4, <2>2, Zenon
    <2>5. s \notin broken /\ broken \cap Fails[s][3] # {} =>
            \A a \in Answers(s, EndpointsOf[s][3], broken) : ~ProbeEndpoint(s, EndpointsOf[s][3], a)
        BY <2>2, <2>3, Zenon
    <2>6. Judged(s, 3, broken)
        BY <1>1, <2>4, <2>5, JudgedByParts
    <2> QED BY <1>7, <2>6
<1>8. CASE i = 4
    <2>1. EndpointsOf[s][4] = "note_by_script"
        BY <1>1
    <2>2. s \notin broken => Answers(s, EndpointsOf[s][4], broken) = Reading(broken)
        BY <2>1, AnswersOfChecks, Zenon
    <2>3. broken \cap Needs[s] = {} => Answers(s, EndpointsOf[s][4], broken) = {Right}
        BY <1>3, <1>4, <2>2, Zenon
    <2>4. Judged(s, 4, broken)
        BY <1>1, <1>2, <2>3, JudgedByParts
    <2> QED BY <1>8, <2>4
<1>9. CASE i = 5
    <2>1. EndpointsOf[s][5] = "note_by_id"
        BY <1>1
    <2>2. s \notin broken =>
            Answers(s, EndpointsOf[s][5], broken)
              = IF Resolving(broken) = {Right} THEN Reading(broken) ELSE Resolving(broken)
        BY <2>1, AnswersOfChecks, Zenon
    <2>3. broken \cap Needs[s] = {} => Answers(s, EndpointsOf[s][5], broken) = {Right}
        BY <1>3, <1>4, <2>2, Zenon
    <2>4. Judged(s, 5, broken)
        BY <1>1, <1>2, <2>3, JudgedByParts
    <2> QED BY <1>9, <2>4
<1> QED BY <1>5, <1>6, <1>7, <1>8, <1>9

LEMMA CompileJudged ==
    ASSUME NEW broken, NEW i \in 1..4
    PROVE  Judged("api_compile", i, broken)
<1> DEFINE s == "api_compile"
           checks == <<"root", "compile", "verify", "import">>
<1>1. EndpointsOf[s] = checks /\ s \in Needs[s]
      /\ Needs[s] = {"api_compile", "slots", "toolchain", "node", "fixtures"}
    BY ChecksOfServices, NeedsOfServices
<1>2. /\ Fails[s][1] = {} /\ Fails[s][2] = {"slots", "toolchain"}
      /\ Fails[s][3] = {} /\ Fails[s][4] = {"node", "fixtures"}
    BY FailsOfServices
<1>3. broken \cap Needs[s] = {} =>
        /\ s \notin broken /\ broken \cap {"slots", "toolchain"} = {}
        /\ broken \cap {"node", "fixtures"} = {}
        /\ broken \cap {"slots", "toolchain", "node", "fixtures"} = {}
    BY <1>1
<1>4. broken \cap Needs[s] = {} =>
        Compiling(broken) = {Right} /\ Verifying(broken) = {Right} /\ Importing(broken) = {Right}
    <2>1. broken \cap Needs[s] = {} => Compiling(broken) = {Right}
        BY <1>3, CompilingAnswers
    <2>2. broken \cap Needs[s] = {} => Verifying(broken) = {Right}
        BY <1>3, VerifyingAnswers
    <2>3. broken \cap Needs[s] = {} => Importing(broken) = {Right}
        BY <1>3, ImportingAnswers
    <2> QED BY <2>1, <2>2, <2>3
<1>5. CASE i = 1
    <2>1. EndpointsOf[s][1] = "root"
        BY <1>1
    <2>2. s \notin broken => Answers(s, EndpointsOf[s][1], broken) = {Right}
        BY <2>1, AnswersOfChecks, Zenon
    <2>3. Judged(s, 1, broken)
        BY <1>1, <1>2, <1>3, <2>2, JudgedByParts
    <2> QED BY <1>5, <2>3
<1>6. CASE i = 2
    <2>1. EndpointsOf[s][2] = "compile"
        BY <1>1
    <2>2. s \notin broken => Answers(s, EndpointsOf[s][2], broken) = Compiling(broken)
        BY <2>1, AnswersOfChecks, Zenon
    <2>3. ASSUME broken \cap Fails[s][2] # {}
          PROVE  \A a \in Compiling(broken) : ~ProbeEndpoint(s, EndpointsOf[s][2], a)
        <3>1. \A a \in Compiling(broken) : a = Wrong("built") \/ IsError(a)
            BY <1>2, <2>3, CompilingAnswers
        <3>2. EndpointsOf[s][2] # "root" /\ "built" \in Asserts[EndpointsOf[s][2]]
            BY <2>1, AssertsOfChecks
        <3> QED BY <3>1, <3>2, ErrorsAreNot
    <2>4. broken \cap Needs[s] = {} => Answers(s, EndpointsOf[s][2], broken) = {Right}
        BY <1>3, <1>4, <2>2, Zenon
    <2>5. s \notin broken /\ broken \cap Fails[s][2] # {} =>
            \A a \in Answers(s, EndpointsOf[s][2], broken) : ~ProbeEndpoint(s, EndpointsOf[s][2], a)
        BY <2>2, <2>3, Zenon
    <2>6. Judged(s, 2, broken)
        BY <1>1, <2>4, <2>5, JudgedByParts
    <2> QED BY <1>6, <2>6
<1>7. CASE i = 3
    <2>1. EndpointsOf[s][3] = "verify"
        BY <1>1
    <2>2. s \notin broken => Answers(s, EndpointsOf[s][3], broken) = Verifying(broken)
        BY <2>1, AnswersOfChecks, Zenon
    <2>3. broken \cap Needs[s] = {} => Answers(s, EndpointsOf[s][3], broken) = {Right}
        BY <1>3, <1>4, <2>2, Zenon
    <2>4. Judged(s, 3, broken)
        BY <1>1, <1>2, <2>3, JudgedByParts
    <2> QED BY <1>7, <2>4
<1>8. CASE i = 4
    <2>1. EndpointsOf[s][4] = "import"
        BY <1>1
    <2>2. s \notin broken => Answers(s, EndpointsOf[s][4], broken) = Importing(broken)
        BY <2>1, AnswersOfChecks, Zenon
    <2>3. ASSUME broken \cap Fails[s][4] # {}
          PROVE  \A a \in Importing(broken) : ~ProbeEndpoint(s, EndpointsOf[s][4], a)
        <3>1. \A a \in Importing(broken) : a = Wrong("root") \/ IsError(a)
            BY <1>2, <2>3, ImportingAnswers
        <3>2. EndpointsOf[s][4] # "root" /\ "root" \in Asserts[EndpointsOf[s][4]]
            BY <2>1, AssertsOfChecks
        <3> QED BY <3>1, <3>2, ErrorsAreNot
    <2>4. broken \cap Needs[s] = {} => Answers(s, EndpointsOf[s][4], broken) = {Right}
        BY <1>3, <1>4, <2>2, Zenon
    <2>5. s \notin broken /\ broken \cap Fails[s][4] # {} =>
            \A a \in Answers(s, EndpointsOf[s][4], broken) : ~ProbeEndpoint(s, EndpointsOf[s][4], a)
        BY <2>2, <2>3, Zenon
    <2>6. Judged(s, 4, broken)
        BY <1>1, <2>4, <2>5, JudgedByParts
    <2> QED BY <1>8, <2>6
<1> QED BY <1>5, <1>6, <1>7, <1>8

LEMMA PageJudged ==
    ASSUME NEW broken, NEW s \in {"web_verifier", "web_viewer"}
    PROVE  Judged(s, 1, broken)
<1>1. EndpointsOf[s] = <<"root">> /\ Needs[s] = {s} /\ Fails[s] = <<{}>>
    BY ChecksOfServices, NeedsOfServices, FailsOfServices
<1>2. EndpointsOf[s][1] = "root" /\ s \in Needs[s] /\ Fails[s][1] = {}
    BY <1>1
<1>3. s \notin broken => Answers(s, EndpointsOf[s][1], broken) = {Right}
    BY <1>2, AnswersOfChecks, Zenon
<1>4. broken \cap Needs[s] = {} => s \notin broken
    BY <1>2
<1> QED BY <1>2, <1>3, <1>4, JudgedByParts

LEMMA EveryCheckJudged ==
    ASSUME NEW s \in Services, NEW i \in DOMAIN EndpointsOf[s], NEW broken
    PROVE  Judged(s, i, broken)
<1>1. CASE s = "api_registry"
    <2>1. i \in 1..5
        BY <1>1, ChecksOfServices
    <2> QED BY <1>1, <2>1, RegistryJudged
<1>2. CASE s = "api_compile"
    <2>1. i \in 1..4
        BY <1>2, ChecksOfServices
    <2> QED BY <1>2, <2>1, CompileJudged
<1>3. CASE s \in {"web_verifier", "web_viewer"}
    <2>1. EndpointsOf[s] = <<"root">>
        BY <1>3, ChecksOfServices
    <2>2. i = 1
        BY <2>1
    <2> QED BY <1>3, <2>2, PageJudged
<1> QED BY <1>1, <1>2, <1>3, ChecksOfServices

\* What a container's start may cost.
LEMMA LostChecks ==
    /\ LostToStart["api_registry"] = {"account_by_id", "note_by_id"}
    /\ LostToStart["web_verifier"] = {} /\ LostToStart["web_viewer"] = {}
    /\ LostToStart["api_compile"] = {"root"}
BY DEF LostToStart

ProbeFields ==
    probe = [pc |-> probe.pc, results |-> probe.results, broken |-> probe.broken,
             ever |-> probe.ever, always |-> probe.always, changes |-> probe.changes,
             awake |-> probe.awake, cold |-> probe.cold]

\* What a check's result says of the parts, broken all along or never.
ResultTrue(s, i, ok, ever, always, cold) ==
    /\ i \in DOMAIN EndpointsOf[s]
    /\ ever \cap Needs[s] = {} /\ ~(cold /\ EndpointsOf[s][i] \in LostToStart[s]) => ok
    /\ s \notin ever /\ i = 1 /\ ~(cold /\ s = "api_compile") => ok
    /\ s \notin ever /\ always \cap Fails[s][i] # {} => ~ok

ResultsTrue ==
    \A s \in Services : \A i \in DOMAIN probe.results[s] :
        ResultTrue(s, i, probe.results[s][i], probe.ever, probe.always, probe.cold)

\* The container: not cold, it is up throughout; and it is up once an
\* api-compile that works was asked to build.
Woken ==
    /\ ~probe.cold => probe.awake
    /\ Len(probe.results["api_compile"]) >= 2 /\ "api_compile" \notin probe.ever => probe.awake

ChecksOn ==
    /\ ProbeFields
    /\ probe.pc \in {"probing", "probed"}
    /\ probe.results \in [Services -> Seq(BOOLEAN)]
    /\ probe.always \subseteq probe.broken /\ probe.broken \subseteq probe.ever
    /\ ResultsTrue
    /\ Woken

ChecksInv == probe = Off \/ ChecksOn

LEMMA ChecksBegin ==
    ASSUME ChecksInit
    PROVE  ChecksOn
<1>1. PICK broken, results, awake :
        /\ results = [s \in Services |-> <<>>]
        /\ awake \in BOOLEAN
        /\ probe = [pc |-> "probing", results |-> results,
                    broken |-> broken, ever |-> broken, always |-> broken, changes |-> 0,
                    awake |-> awake, cold |-> ~awake]
    BY DEF ChecksInit
<1>2. /\ ProbeFields /\ probe.pc = "probing" /\ probe.results = results
      /\ probe.broken = broken /\ probe.ever = broken /\ probe.always = broken
      /\ probe.awake = awake /\ probe.cold = ~awake
    BY <1>1 DEF ProbeFields
<1>3. results \in [Services -> Seq(BOOLEAN)]
    BY <1>1
<1>4. ResultsTrue
    <2>1. \A s \in Services : DOMAIN results[s] = {}
        BY <1>1
    <2> QED BY <1>2, <2>1, Zenon DEF ResultsTrue
<1>5. Woken
    <2>1. Len(results["api_compile"]) = 0
        BY <1>1, ChecksOfServices
    <2>2. ~probe.cold => probe.awake
        BY <1>2
    <2> QED BY <1>2, <2>1, <2>2 DEF Woken
<1> QED BY <1>2, <1>3, <1>4, <1>5 DEF ChecksOn

LEMMA PartChangesKeeps ==
    ASSUME ChecksOn, NEW part, PartChanges(part)
    PROVE  ChecksOn'
<1> DEFINE broken == IF part \in probe.broken THEN probe.broken \ {part}
                     ELSE probe.broken \cup {part}
           ever == probe.ever \cup broken
           always == probe.always \cap broken
           changes == probe.changes + 1
<1>0. probe' = [probe EXCEPT !.broken = broken, !.ever = ever, !.always = always,
                             !.changes = changes]
    BY DEF PartChanges
<1> HIDE DEF broken, changes
<1>1. ever = probe.ever \cup broken /\ always = probe.always \cap broken
    OBVIOUS
<1> HIDE DEF ever, always
<1>2. ProbeFields
    BY DEF ChecksOn
<1>3. /\ ProbeFields' /\ probe'.pc = probe.pc /\ probe'.results = probe.results
      /\ probe'.broken = broken /\ probe'.ever = ever /\ probe'.always = always
      /\ probe'.awake = probe.awake /\ probe'.cold = probe.cold
    BY <1>0, <1>2 DEF ProbeFields
<1>4. ResultsTrue'
    <2> SUFFICES ASSUME NEW s \in Services, NEW i \in DOMAIN probe.results[s]
                 PROVE  ResultTrue(s, i, probe.results[s][i], ever, always, probe.cold)
        BY <1>3 DEF ResultsTrue
    <2>1. ResultTrue(s, i, probe.results[s][i], probe.ever, probe.always, probe.cold)
        BY DEF ChecksOn, ResultsTrue
    <2>2. /\ ever \cap Needs[s] = {} => probe.ever \cap Needs[s] = {}
          /\ s \notin ever => s \notin probe.ever
          /\ always \cap Fails[s][i] # {} => probe.always \cap Fails[s][i] # {}
        BY <1>1
    <2> QED BY <2>1, <2>2, Zenon DEF ResultTrue
<1>5. always \subseteq broken /\ broken \subseteq ever
    BY <1>1
<1>6. Woken'
    <2>1. "api_compile" \notin ever => "api_compile" \notin probe.ever
        BY <1>1
    <2> QED BY <1>3, <2>1, Zenon DEF ChecksOn, Woken
<1> QED BY <1>3, <1>4, <1>5, <1>6 DEF ChecksOn

\* A check's result joins the earlier ones; the container was up, or is now.
LEMMA ResultJoins ==
    ASSUME ChecksOn, NEW service \in Services, NEW ok \in BOOLEAN,
           ProbeFields',
           probe'.results = [probe.results EXCEPT ![service] = Append(probe.results[service], ok)],
           /\ probe'.pc = probe.pc /\ probe'.broken = probe.broken /\ probe'.ever = probe.ever
           /\ probe'.always = probe.always /\ probe'.cold = probe.cold,
           probe.awake => probe'.awake,
           ResultTrue(service, Len(probe.results[service]) + 1, ok,
                      probe.ever, probe.always, probe.cold),
           service = "api_compile" /\ Len(probe.results[service]) >= 1
             /\ "api_compile" \notin probe.ever => probe'.awake
    PROVE  ChecksOn'
<1> DEFINE earlier == probe.results[service]
           next == Len(earlier) + 1
           results == [probe.results EXCEPT ![service] = Append(earlier, ok)]
<1>1. /\ ProbeFields /\ probe.results \in [Services -> Seq(BOOLEAN)] /\ ResultsTrue /\ Woken
      /\ probe.pc \in {"probing", "probed"}
      /\ probe.always \subseteq probe.broken /\ probe.broken \subseteq probe.ever
    BY DEF ChecksOn
<1>2. earlier \in Seq(BOOLEAN)
    BY <1>1
<1>3. Append(earlier, ok) \in Seq(BOOLEAN) /\ Len(Append(earlier, ok)) = next
      /\ Len(earlier) \in Nat
    BY <1>2
<1>4. /\ DOMAIN Append(earlier, ok) = DOMAIN earlier \cup {next}
      /\ next \notin DOMAIN earlier
      /\ Append(earlier, ok)[next] = ok
      /\ \A i \in DOMAIN earlier : Append(earlier, ok)[i] = earlier[i]
    BY <1>2
<1>5. results \in [Services -> Seq(BOOLEAN)]
    BY <1>1, <1>3
<1>6. /\ results[service] = Append(earlier, ok)
      /\ \A s \in Services \ {service} : results[s] = probe.results[s]
    BY <1>1
<1>7. probe'.results = results
    OBVIOUS
<1> HIDE DEF results
<1>8. /\ ProbeFields' /\ probe'.pc = probe.pc /\ probe'.results = results
      /\ probe'.broken = probe.broken /\ probe'.ever = probe.ever /\ probe'.always = probe.always
      /\ probe'.cold = probe.cold
    BY <1>7
<1>9. ResultsTrue'
    <2> SUFFICES ASSUME NEW s \in Services, NEW i \in DOMAIN results[s]
                 PROVE  ResultTrue(s, i, results[s][i], probe.ever, probe.always, probe.cold)
        BY <1>8 DEF ResultsTrue
    <2>1. CASE s = service /\ i = next
        <3>1. results[s][i] = ok
            BY <1>4, <1>6, <2>1
        <3> QED BY <2>1, <3>1
    <2>2. CASE ~(s = service /\ i = next)
        <3>1. i \in DOMAIN probe.results[s] /\ results[s][i] = probe.results[s][i]
            BY <1>4, <1>6, <2>2
        <3> QED BY <1>1, <3>1 DEF ResultsTrue
    <2> QED BY <2>1, <2>2
<1>10. Woken'
    <2>1. ~probe.cold => probe'.awake
        BY <1>1 DEF Woken
    <2>2. ASSUME Len(results["api_compile"]) >= 2, "api_compile" \notin probe.ever
          PROVE  probe'.awake
        <3>1. CASE service = "api_compile"
            <4>1. Len(earlier) >= 1
                BY <1>3, <1>6, <2>2, <3>1
            <4> QED BY <2>2, <3>1, <4>1
        <3>2. CASE service # "api_compile"
            <4>1. results["api_compile"] = probe.results["api_compile"]
                BY <1>6, <3>2, ChecksOfServices
            <4> QED BY <1>1, <2>2, <4>1 DEF Woken
        <3> QED BY <3>1, <3>2
    <2> QED BY <1>8, <2>1, <2>2 DEF Woken
<1> QED BY <1>1, <1>5, <1>8, <1>9, <1>10 DEF ChecksOn

LEMMA CheckNextKeeps ==
    ASSUME ChecksOn, NEW service \in Services, CheckNext(service)
    PROVE  ChecksOn'
<1> DEFINE next == Len(probe.results[service]) + 1
           check == EndpointsOf[service][next]
           ok(answer) == ProbeEndpoint(service, check, answer)
           awake == probe.awake \/ Reaches(service, check, probe.broken)
<1>1. probe.always \subseteq probe.broken /\ probe.broken \subseteq probe.ever
    BY DEF ChecksOn
<1>2. PICK answer \in Answers(service, check, probe.broken) :
        probe' = [probe EXCEPT !.results[service] = Append(@, ok(answer)), !.awake = awake]
    BY Zenon DEF CheckNext, NextCheck
<1>3. Due(service) /\ next \in DOMAIN EndpointsOf[service]
    BY DEF CheckNext, Due
<1>4. ok(answer) \in BOOLEAN
    BY Zenon DEF ProbeEndpoint
<1>5. ResultTrue(service, next, ok(answer), probe.ever, probe.always, probe.cold)
    <2>1. /\ probe.broken \cap Needs[service] = {} => ok(answer)
          /\ service \notin probe.broken /\ next = 1 => ok(answer)
          /\ service \notin probe.broken /\ probe.broken \cap Fails[service][next] # {} =>
               ~ok(answer)
        BY <1>2, <1>3, EveryCheckJudged, Zenon DEF Judged
    <2>2. /\ probe.ever \cap Needs[service] = {} => probe.broken \cap Needs[service] = {}
          /\ service \notin probe.ever => service \notin probe.broken
          /\ probe.always \cap Fails[service][next] # {} =>
               probe.broken \cap Fails[service][next] # {}
        BY <1>1
    <2> QED BY <1>3, <2>1, <2>2, Zenon DEF ResultTrue
<1>6. service = "api_compile" /\ "api_compile" \notin probe.ever => awake
    BY <1>1 DEF Reaches
<1> DEFINE healthy == ok(answer)
           results == [probe.results EXCEPT ![service] = Append(probe.results[service], healthy)]
<1>7. probe' = [probe EXCEPT !.results = results, !.awake = awake]
    BY <1>2
<1>8. ProbeFields
    BY DEF ChecksOn
<1> HIDE DEF healthy, results, awake
<1>9. /\ ProbeFields' /\ probe'.results = results /\ probe'.pc = probe.pc
      /\ probe'.broken = probe.broken /\ probe'.ever = probe.ever
      /\ probe'.always = probe.always /\ probe'.cold = probe.cold /\ probe'.awake = awake
    BY <1>7, <1>8 DEF ProbeFields
<1>10. /\ healthy \in BOOLEAN
       /\ ResultTrue(service, next, healthy, probe.ever, probe.always, probe.cold)
    BY <1>4, <1>5 DEF healthy
<1>11. probe'.results = [probe.results EXCEPT ![service] = Append(probe.results[service], healthy)]
    BY <1>9 DEF results
<1>12. probe.awake => probe'.awake
    BY <1>9 DEF awake
<1> QED BY <1>6, <1>9, <1>10, <1>11, <1>12, ResultJoins

\* Giving up costs only what a container's start may cost.
LEMMA CheckGivesUpKeeps ==
    ASSUME ChecksOn, NEW service \in Services, CheckGivesUp(service)
    PROVE  ChecksOn'
<1> DEFINE next == Len(probe.results[service]) + 1
           check == EndpointsOf[service][next]
<1>1. /\ Due(service) /\ next \in DOMAIN EndpointsOf[service]
      /\ ~probe.awake /\ Reaches(service, check, probe.broken) /\ check \notin Patient
      /\ probe' = [probe EXCEPT
           !.results[service] = Append(@, ProbeEndpoint(service, check, NoAnswer))]
    BY DEF CheckGivesUp, NextCheck, Due
<1>2. ProbeEndpoint(service, check, NoAnswer) = FALSE
    <2>1. ~ProbeEndpoint(service, check, NoAnswer)
        BY Errors, ErrorIsNot
    <2>2. ProbeEndpoint(service, check, NoAnswer) \in BOOLEAN
        BY Zenon DEF ProbeEndpoint
    <2> QED BY <2>1, <2>2
<1>3. Woken /\ ProbeFields /\ probe.results \in [Services -> Seq(BOOLEAN)]
    BY DEF ChecksOn
<1>4. probe.cold
    BY <1>1, <1>3 DEF Woken
<1>5. /\ probe.ever \cap Needs[service] = {} => check \in LostToStart[service]
      /\ next = 1 => service = "api_compile"
      /\ service = "api_compile" /\ "api_compile" \notin probe.ever => next = 1
    <2>1. CASE service = "api_registry"
        <3>1. check \in {"account_by_id", "note_by_id"}
            BY <1>1, <2>1 DEF Reaches
        <3>2. EndpointsOf[service][1] = "root"
            BY <2>1, ChecksOfServices
        <3> QED BY <2>1, <3>1, <3>2, LostChecks
    <2>2. CASE service = "api_compile"
        <3>1. next \in 1..4 /\ EndpointsOf[service] = <<"root", "compile", "verify", "import">>
            BY <1>1, <2>2, ChecksOfServices
        <3>2. next # 2 /\ next # 3
            <4>1. EndpointsOf[service][2] = "compile" /\ EndpointsOf[service][3] = "verify"
                BY <3>1
            <4> QED BY <1>1, <4>1 DEF Patient
        <3>3. next = 4 => "api_compile" \in probe.ever
            <4>1. next = 4 => Len(probe.results["api_compile"]) >= 2
                BY <2>2
            <4> QED BY <1>1, <1>3, <4>1, Zenon DEF Woken
        <3>4. next = 1 => check \in LostToStart[service]
            <4>1. EndpointsOf[service][1] = "root"
                BY <3>1
            <4> QED BY <2>2, <4>1, LostChecks
        <3>5. "api_compile" \in Needs[service]
            BY <2>2, NeedsOfServices
        <3> QED BY <2>2, <3>1, <3>2, <3>3, <3>4, <3>5
    <2> QED BY <1>1, <2>1, <2>2 DEF Reaches
<1>6. ResultTrue(service, next, FALSE, probe.ever, probe.always, probe.cold)
    BY <1>1, <1>4, <1>5, Zenon DEF ResultTrue
<1>7. service = "api_compile" /\ Len(probe.results[service]) >= 1
        /\ "api_compile" \notin probe.ever => probe.awake
    <2>1. Len(probe.results[service]) \in Nat
        BY <1>3
    <2> QED BY <1>5, <2>1
<1> DEFINE results == [probe.results EXCEPT ![service] = Append(probe.results[service], FALSE)]
<1>8. probe' = [probe EXCEPT !.results = results]
    BY <1>1, <1>2
<1> HIDE DEF results
<1>9. /\ ProbeFields' /\ probe'.results = results /\ probe'.pc = probe.pc
      /\ probe'.broken = probe.broken /\ probe'.ever = probe.ever
      /\ probe'.always = probe.always /\ probe'.cold = probe.cold
      /\ probe'.awake = probe.awake
    BY <1>3, <1>8 DEF ProbeFields
<1>10. probe'.results = [probe.results EXCEPT ![service] = Append(probe.results[service], FALSE)]
    BY <1>9 DEF results
<1> QED BY <1>6, <1>7, <1>9, <1>10, ResultJoins

LEMMA ProbedKeeps ==
    ASSUME ChecksOn, Probed
    PROVE  ChecksOn'
<1>1. probe' = [probe EXCEPT !.pc = "probed"] /\ ProbeFields
    BY DEF Probed, ChecksOn
<1>2. /\ ProbeFields' /\ probe'.pc = "probed" /\ probe'.results = probe.results
      /\ probe'.broken = probe.broken /\ probe'.ever = probe.ever /\ probe'.always = probe.always
      /\ probe'.awake = probe.awake /\ probe'.cold = probe.cold
    BY <1>1 DEF ProbeFields
<1> QED BY <1>2 DEF ChecksOn, ResultsTrue, Woken

LEMMA ChecksKept ==
    Spec => []ChecksInv
<1>1. Init => ChecksInv
    BY ChecksBegin DEF Init, ChecksInv
<1>2. ChecksInv /\ [Next]_vars => ChecksInv'
    <2> SUFFICES ASSUME ChecksInv, [Next]_vars PROVE ChecksInv'
        OBVIOUS
    <2>1. CASE ChecksNext
        <3>1. probe.pc = "probing"
            <4>1. \A part : PartChanges(part) => probe.pc = "probing"
                BY Zenon DEF PartChanges
            <4>2. \A service : CheckNext(service) => probe.pc = "probing"
                BY Zenon DEF CheckNext, Due
            <4>3. \A service : CheckGivesUp(service) => probe.pc = "probing"
                BY Zenon DEF CheckGivesUp, Due
            <4> QED BY <2>1, <4>1, <4>2, <4>3, Zenon DEF ChecksNext, Probed
        <3>2. ChecksOn
            BY <3>1, OffIsOff DEF ChecksInv
        <3> QED BY <2>1, <3>2, PartChangesKeeps, CheckNextKeeps, CheckGivesUpKeeps, ProbedKeeps
                DEF ChecksNext, ChecksInv
    <2>2. CASE UNCHANGED probe
        BY <2>2 DEF ChecksInv, ChecksOn, ProbeFields, ResultsTrue, Woken
    <2> QED BY <2>1, <2>2 DEF Next, vars, Analyse, Write, Compare, Carry, LookUp, Check, Display
<1> QED BY <1>1, <1>2, PTL DEF Spec

\* A need of a service that is broken has one of its checks fail.
LEMMA NeedsFail ==
    ASSUME NEW s \in Services, NEW broken, s \notin broken, broken \cap Needs[s] # {}
    PROVE  \E i \in DOMAIN EndpointsOf[s] : broken \cap Fails[s][i] # {}
<1>1. CASE s = "api_registry"
    <2>1. /\ 2 \in DOMAIN EndpointsOf[s] /\ 3 \in DOMAIN EndpointsOf[s]
          /\ Fails[s][2] = {"database", "records"} /\ Fails[s][3] = {"api_compile", "node", "fixtures"}
        BY <1>1, ChecksOfServices, FailsOfServices
    <2>2. Needs[s] = {s} \cup {"database", "records"} \cup {"api_compile", "node", "fixtures"}
        BY <1>1, NeedsOfServices
    <2>3. broken \cap {"database", "records"} # {} \/ broken \cap {"api_compile", "node", "fixtures"} # {}
        BY <2>2
    <2> QED BY <2>1, <2>3
<1>2. CASE s = "api_compile"
    <2>1. /\ 2 \in DOMAIN EndpointsOf[s] /\ 4 \in DOMAIN EndpointsOf[s]
          /\ Fails[s][2] = {"slots", "toolchain"} /\ Fails[s][4] = {"node", "fixtures"}
        BY <1>2, ChecksOfServices, FailsOfServices
    <2>2. Needs[s] = {s} \cup {"slots", "toolchain"} \cup {"node", "fixtures"}
        BY <1>2, NeedsOfServices
    <2>3. broken \cap {"slots", "toolchain"} # {} \/ broken \cap {"node", "fixtures"} # {}
        BY <2>2
    <2> QED BY <2>1, <2>3
<1>3. CASE s \in {"web_verifier", "web_viewer"}
    <2>1. Needs[s] = {s}
        BY <1>3, NeedsOfServices
    <2> QED BY <2>1
<1> QED BY <1>1, <1>2, <1>3, ChecksOfServices

\* The snapshot blames whom it should, whatever breaks and is repaired between
\* two checks, and whether or not the container was asleep (probe.ts).
THEOREM BlamedJustly ==
    Spec => []BlameIsJust
<1>1. ChecksInv => BlameIsJust
    <2> SUFFICES ASSUME ChecksOn, NEW s \in Services, Checked(s)
                 PROVE  LET health == HealthOf(probe.results[s]) IN
                        /\ probe.ever \cap Needs[s] = {} =>
                             FailedChecks(s) \subseteq (IF probe.cold THEN LostToStart[s] ELSE {})
                        /\ s \notin probe.ever /\ probe.always \cap Needs[s] # {} =>
                             health # "healthy"
                        /\ health = "unhealthy" =>
                             s \in probe.ever \/ (probe.cold /\ s = "api_compile")
        BY OffIsOff DEF ChecksInv, BlameIsJust
    <2> DEFINE results == probe.results[s]
    <2>1. results \in Seq(BOOLEAN) /\ Len(results) = Len(EndpointsOf[s])
        BY DEF ChecksOn, Checked
    <2>2. Len(EndpointsOf[s]) \in Nat \ {0} /\ DOMAIN EndpointsOf[s] = 1..Len(EndpointsOf[s])
        <3>1. CASE s = "api_registry"
            BY <3>1, ChecksOfServices
        <3>2. CASE s \in {"web_verifier", "web_viewer"}
            <4>1. EndpointsOf[s] = <<"root">>
                BY <3>2, ChecksOfServices
            <4> QED BY <4>1
        <3>3. CASE s = "api_compile"
            BY <3>3, ChecksOfServices
        <3> QED BY <3>1, <3>2, <3>3, ChecksOfServices
    <2>3. DOMAIN results = DOMAIN EndpointsOf[s] /\ 1 \in DOMAIN results
        BY <2>1, <2>2
    <2>4. \A i \in DOMAIN results :
            ResultTrue(s, i, results[i], probe.ever, probe.always, probe.cold)
        BY DEF ChecksOn, ResultsTrue
    <2>5. HealthOf(results) = IF Healthy(results) = DOMAIN results THEN "healthy"
                              ELSE IF Healthy(results) = {} THEN "unhealthy" ELSE "degraded"
        BY DEF HealthOf
    <2>6. FailedChecks(s) = {EndpointsOf[s][i] : i \in DOMAIN results \ Healthy(results)}
        BY DEF FailedChecks
    <2> HIDE DEF results
    <2>7. ASSUME probe.ever \cap Needs[s] = {}
          PROVE  FailedChecks(s) \subseteq (IF probe.cold THEN LostToStart[s] ELSE {})
        <3> SUFFICES ASSUME NEW i \in DOMAIN results \ Healthy(results)
                     PROVE  probe.cold /\ EndpointsOf[s][i] \in LostToStart[s]
            BY <2>6
        <3>1. ~results[i]
            BY Zenon DEF Healthy
        <3> QED BY <2>4, <2>7, <3>1, Zenon DEF ResultTrue
    <2>8. ASSUME s \notin probe.ever, probe.always \cap Needs[s] # {}
          PROVE  HealthOf(results) # "healthy"
        <3>1. s \notin probe.always
            BY <2>8 DEF ChecksOn
        <3>2. PICK i \in DOMAIN EndpointsOf[s] : probe.always \cap Fails[s][i] # {}
            BY <2>8, <3>1, NeedsFail, Zenon
        <3>3. i \in DOMAIN results /\ ~results[i]
            BY <2>3, <2>4, <2>8, <3>2, Zenon DEF ResultTrue
        <3>4. i \notin Healthy(results)
            BY <3>3, Zenon DEF Healthy
        <3> QED BY <2>5, <3>3, <3>4
    <2>9. ASSUME HealthOf(results) = "unhealthy", s \notin probe.ever
          PROVE  probe.cold /\ s = "api_compile"
        <3>1. 1 \notin Healthy(results)
            BY <2>3, <2>5, <2>9
        <3>2. ~results[1]
            BY <2>3, <3>1, Zenon DEF Healthy
        <3> QED BY <2>3, <2>4, <2>9, <3>2, Zenon DEF ResultTrue
    <2> QED BY <2>7, <2>8, <2>9 DEF results
<1> QED BY <1>1, ChecksKept, PTL
=============================================================================
