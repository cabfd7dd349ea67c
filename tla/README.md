# Verification of miden-source-code-verification

TLA+ models of the concurrent and failure-prone parts of this repository, the
TLC runs that check them on small instances, and theorems about them that TLAPS
checks for every value of the constants. `PROJECT.json` is the index: the runs,
the mutants that show what each property catches, the source lines behind every
definition, the hazards, the findings and the theorems.

Run a model with `tlc -config X.cfg M` and a proof with `tlapm M.tla`, from
this directory.

## The system

| Part | State | Operations | Interacts with |
| --- | --- | --- | --- |
| build limiter (`api-compile/src/lib/limiter.ts`) | `active`, `queue` of callbacks, one abort listener per waiting call | `limit(task, signal)`, an abort | `queueCompile`, the client's connection |
| compiling requests (`api-compile/src/routes`, `lib/compile.ts`, `lib/verify.ts`, `server.ts`) | directories on disk, `shuttingDown` | `/compile`, `/compile-debug`, `/verify`, disconnect, SIGTERM | limiter, cargo-miden, miden-verifier |
| cargo-miden build (`lib/cargo-miden.ts`) | a memoised version, the project's lockfile | offline build, re-resolve, online build, debug build | cargo |
| compile proxy (`api-compile-cloudflare`) | none | forward, 504 after a timeout | the container |
| registry records (`api-registry/src/lib/verify-resource.ts`, `debug-build.ts`, `db/`, `storage/`) | four tables, an artifact store | verify an account component or a note, build a debug package | api-compile, Postgres, the store |
| playground cleanup (`lib/cleanup-playground.ts`) | none | delete expired records and what only they used | Postgres, the store |
| registry routes (`routes/v1`, `lib/verified-record.ts`) | none | reads | Postgres, the store |
| backfill (`api-registry/scripts`) | none | posts debug builds, retries while busy | the admin route |
| status page (`status-page/scripts`, `.github/workflows/deploy-pages.yml`) | the published `status.json` | probe, notify, deploy | all services, Slack, Pages |
| shared utils (`packages/utils`) | none | busy retry, project paths, ids, artifact names | all |
| metadata writer and read-only analysis (`crates/miden-package-metadata`) | a stack, the types being unfolded | walk the forests, write the types | api-compile |
| miden-verifier, miden-import (`api-compile/crates`) | none | read a resource of a network, compare or describe its code | the node, api-compile |
| web verifier | the form's fields, a verification in flight, a countdown | pick a folder, edit, submit, resubmit while busy | registry |
| web viewer | open tabs of a package's sources | look a resource up, switch networks, open and close files | registry |
| UI kit (`packages/ui`) | the theme, in storage | choose, follow the system, hear other tabs | the browser |

What is hard here: calls that wait while their client may leave; a slot that is
handed over rather than freed; files read after the slot is released; SIGTERM
with requests in flight; reads outside the transaction that uses them, with
unique indexes for some tables and not for others; a cleanup that deletes rows
and then artifacts while verifications run; runs of a workflow that build on
what an earlier one published, when each may be cancelled or fail halfway.

What makes each part correct:

- limiter: no waiting call is forgotten, no slot is lost, doubled or idle,
  order is kept, and only a full queue refuses;
- requests: the package is on disk while it is read and gone once the request
  is answered, a slot belongs to a build, and a shutdown answers everybody who
  is still connected;
- registry: one row per package, account code and note; a record is whole;
  an artifact exists before its row; the answers tell the truth;
- cleanup: only expired playground records go, with what only they used;
- status page: a snapshot blames the service that is at fault, or the start of
  a sleeping container; outages are announced once, remembered every six hours,
  and their clock survives lost runs;
- builds: what is stored is what was built, lockfile included, and building it
  again gives the same package;
- form and backfill: what is shown is of what was submitted, and every wait ends;
- lookups: "not verified" is never said of a failure;
- analyses of a package and of on-chain code: what they say is true, and three
  programs that read the same code agree.

## The modules

- `SlotQueue` states what the limiter promises: holders of slots, a line, and
  the calls that were turned away or gave up.
- `Limiter` is `limiter.ts`, one action per piece of code that runs without an
  await: `Acquire` is a call of `limit` up to the promise, `Begin` what follows
  `await acquire`, `Finish` the `finally`, `Abort` a signal. `LimiterProps` has
  its properties and the refinement mapping, `LimiterProofs` the proofs.
- `CompileService` instantiates `Limiter` and adds a request's path through
  `server.ts`, the routes, `queueCompile` and `compile`: one action between two
  awaits, with the failure of each. cargo and the verifier are a nondeterministic
  outcome. `gone` are the requests whose client has left. `Exit` is the callback
  of `server.close`, which waits for connections and not for handlers: a request
  in `gone` holds none, so the process may exit under it, with its build running
  or its directories not yet deleted. `CompileServiceProofs` has the proofs.
- `Registry` is `verifyResource`, the admin's debug build and
  `cleanupPlaygroundResources`, one action per SQL statement or store call.
  Committed rows are variables; a transaction's own rows are those whose id is
  the request's. `Holders` and `CleanupHolders` are the transactions a statement
  waits for, by the rules of Postgres at READ COMMITTED: an insert waits for an
  open transaction with its unique key, a foreign key check locks its row, and a
  delete waits for that lock, then deletes without looking again, and cascades.
  The expired records are any of the playground's whose request was answered:
  no request lasts a day. `cleanup.before` is history. `RegistryProps` has the
  properties and the inputs; `RegistryProofs` the proofs about the rows, and
  `RegistryStoreProofs` those about artifacts and answers.
- `StatusPage` is `notify.ts`, the history in `probe.ts` and the workflow around
  them. `start`, `trouble` and `lost` are history; `lost` are the services whose
  last post is of a run that was never published. `StatusPageProofs` has the
  proofs of its properties. `Checks` is one run of the checks: its outcome is
  what `StatusPage` takes as the number of checks that passed. A broken part is
  down, wrong, or slower than a check waits (`probe.ts:428`). Apart from that
  api-compile's container may be asleep when the run starts: the checks that
  reach it first may give up (`CheckGivesUp`) with nothing broken, except
  `compile` and `verify`, which wait for longer than a start takes. Once it is up
  it stays up for the run: it falls asleep after five idle minutes.
- `CargoBuild` is a job of api-compile behind the Worker: `cargoMidenBuild` with
  its three attempts and the lockfile each leaves, the debug build beside the
  release one, `/compile-debug`'s comparison, and the Worker's timer and lost
  containers. `VerifyForm` is the web-verifier's form, `fetchWhileBusy` and what
  each status is shown as. `RequestPath` composes the two with the rows they lead
  to and with the backfill script: a form and a script share the container's
  slots with other clients' builds. Its registry is one atomic step; `Registry`
  is where that step is taken apart. `RequestPathProofs` has the proofs.
- `ReadOnlyWalk` is `read_only.rs`: one action per turn of the walk, over forests
  in which external nodes lead from the package to its libraries. Its property
  compares the verdict with what is reachable, by a definition of its own.
- `TypeWriter` is the rest of `miden-package-metadata` that computes: the types
  of a signature written out, recursive ones by name where they recur. One action
  is one call of `TypeWriter::ty`; a place of the JSON is its path.
- `OnChainCode` has the three readings of an account's procedures: the
  verifier's, the import's and the web-viewer's count.
- `Projects` takes a directory tree through the readers of its manifests: the
  folder picker, `openProject`, `inferEntrypoint` and the viewer's entry file. A
  path is a sequence of segments. Paths are taken in the order of `Dirs`; those
  of the `src/lib.rs` sort differently (`a/src/lib.rs` comes before the root's)
  and have an order of their own, `LibDirs`.
- `Lookup` follows a resource from the viewer's form or URL, or an API client,
  through the registry's routes and the import to what is shown, while accounts
  are upgraded and records added. `missing` and `failed` are history.
- `Page` has the tabs of a package's sources and the theme.
- `Programs` puts these six and `Checks` in one specification: a behaviour is one
  run of one of them, and they share no variable. `ProgramsProofs` has the proofs
  about `Lookup`, `Projects`, `Page` and `Checks`, `AnalysisProofs` those about
  `OnChainCode`, `ReadOnlyWalk` and `TypeWriter`.
- Operators named after a definition with one more word (`ReleaseNewestFirst`,
  `InsertPackageTwice`, ...) are that definition with one mistake, and are used
  by no specification.

## The runs

| Run | Shows | Bounds |
| --- | --- | --- |
| `limiter` | the limiter's safety, liveness and refinement | 5 calls, 2 slots, 2 places: both slots change hands while two wait and one is refused |
| `compile_service` | files, slots, answers, the shutdown and what it can lose | 3 requests, 1 slot, 1 place: one builds, one waits, one is refused, or verifies beside them; two clients may leave (`MaxGone`), so that one left request holds a slot another waits for, and one request's deletions may fail (`MaxLogged`: failed deletions of two requests have no effect on each other) |
| `service_leftovers` | finding: a resource file that fails to be written leaves its directory | 2 requests |
| `registry` | verifications and debug builds that race and fail | 3 requests over an account code with two packages, a note on two networks, and a debug build |
| `registry_cleanup` | the cleanup against verifications | 3 requests, one cleanup: what expires, and two in flight; requests are interchangeable (symmetry, no liveness checked) |
| `registry_duplicate` | finding: one component twice | 4 requests: the code and the package must exist before two race |
| `registry_lost_artifact` | finding: a row without its artifact | 2 requests, one cleanup |
| `registry_cascade` | finding: another source's record deleted | 2 requests, one cleanup |
| `status_page` | clock, reminders, silence, and bad news that reaches the channel through failed fetches, runs and deployments | one service with two checks, time to 7, a period of 2 |
| `status_missed` | finding: a recovery never posted | time to 3 |
| `request_path` | what is shown, stored and built again, and that every submission ends | 2 jobs of which one builds, two folders of one and two crates, with and without lockfile: both are submitted, resubmitted, and collide with the backfill and with others; three clicks, one resend of each |
| `programs` | the programs that work alone | see below |

The bounds of `programs`:

- `ReadOnlyWalk`: two nodes in the package and two in the libraries, two protocol
  procedures: shared callees, references across forests, and to nothing known.
  No graph has a cycle, in the code as here: a node is named by a hash of what
  it calls;
- `TypeWriter`: three types of up to two parts, so that three may refer to each
  other and a type recurs both inside itself and beside itself;
- `OnChainCode`: four roots, standard components that overlap, one after another,
  packages of up to two exports (`MaxExports`), two of them verified;
- `Projects`: the root, a crate in it and `target`, two crate names,
  entrypoints of up to three segments (`MaxSegments`) with dots and empty ones;
- `Lookup`: two served networks, the local one and an unknown one, two roots,
  three changes of the world: a resource appears, is verified and is upgraded
  within one lookup;
- `Checks`: two parts broken at the start and one that breaks or is repaired in
  the middle, of all ten; the container up, or asleep at the start;
- `Page`: three paths, two storage events on their way.

Services share nothing but the snapshot, so one is enough. Deadlock is not
checked where requests end and nothing starts them again.

## Findings

1. `writeResourceFile` leaves its directory when the write fails
   (`verify.ts:17-22`, called before the `try` of `routes/verify.ts:67`).
2. Two verifications of one package for one account code, both already in the
   registry, can both be recorded (`verify-resource.ts:97-106`; the table has no
   unique index). The comment promises a 409.
3. The cleanup can delete the artifact of a package that was verified again
   between its transaction and its deletions (`cleanup-playground.ts:116`).
4. The cleanup's DELETE can wait for a verification to commit and then delete
   its record by cascade, whatever its source (`cleanup-playground.ts:81`).
5. A snapshot that cannot be fetched hides a recovery (`notify.ts:90`), where
   `probe.ts:524` says no notification is missed.

## Fairness

- `Limiter`: a granted call begins and a running task ends. Promise reactions
  run, and every subprocess has a timeout (`utils.ts:25-53`). No call has to be
  made, and no signal aborted.
- `CompileService`: weak fairness of each request's own steps, for the same
  reasons, and of the exit. Clients and signals are free.
- `Registry`: a statement that waits for no lock returns. Failures, arrivals and
  the start of a cleanup are free.
- `RequestPath`: a job's own steps, as subprocesses have timeouts and the Worker a
  timer; answers arrive, timers of the countdown fire, and the script goes on.
  Sending is strongly fair: a slot of the container is free again and again, and
  a request gets in or is told to wait. Nothing makes a user click, nor anyone
  run the script or compile.
- `StatusPage` and `Programs` have safety properties only.

## What is proved

Every safety property of a passing run is a theorem, for every value of the
constants that satisfies the assumptions below. Four of the registry's hold
under the condition its run stands for, and their theorems state it: three until
a cleanup begins (run `registry`), one until a first cleanup ends
(`registry_cleanup`). Each proof module has one inductive invariant per machine;
the properties follow from it.

| Module | Theorems | Assumes of the constants |
| --- | --- | --- |
| `LimiterProofs` | `Invariance`, `TypeCorrect`, `NoCallForgotten`, `SlotsAccounted`, `SlotsUsed`, `ServedInOrder`, `RefusedOnlyWhenFull`, `Refinement` | at least one slot, a natural number of places |
| `CompileServiceProofs` | `ServiceInvariant`, `TypeCorrect`, `PackageOnDisk`, `SlotsOnlyBuild`, `NothingOfBuildsStays`, `NobodyElseLost`, `UsesLimiter` | the same, and `MaxGone` and `MaxLogged` are numbers |
| `RegistryProofs` | `RegistryInvariant`, `TypeCorrect`, `OneRow`, `NoDanglingRecord`, `NoDeadlock`, `OnlyExpiredGo` | `RegistryAssumption`: the sentinels are no requests, a number of cleanups, inputs of the three kinds |
| `RegistryStoreProofs` | `StoreInvariant`, `ArtifactsFirst`, `WholeOrNothing`, `TruthTold`, `KeptByFirstCleanup` | the same |
| `RequestPathProofs` | `RequestInvariant`, `TypeCorrect`, `ShownIsRecorded`, `StoredIsExact`, `DriftIsOfLostLocks` | `RequestAssumption`, `FormAssumption`: finitely many jobs, sentinels that are no values, bounds that are numbers |
| `StatusPageProofs` | `StatusInvariant`, `ClockOfOutages`, `CadenceKept`, `ChannelKnows`, `Silence` | `StatusAssumption`, and "no snapshot" is neither a health nor a snapshot |
| `ProgramsProofs` | `MissIsNoRecord`, `ReadersAgree`, `PageTrueToItself`, `BlamedJustly` | `LookupAssumption`, `DirsAssumption`, `PageAssumption`, `ChangesAssumption` |
| `AnalysisProofs` | `ReadingsAreOne`, `MetadataIsTrue` | `StandardsAssumption` (finitely many roots, a sequence of sets of them), `NodesAssumption`, `TypesAssumption` |

**Limiter.** None of the parts of `Inv` is inductive alone: that the counter
equals the holders needs the head of the queue to be a waiting call, which needs
the queue to hold each waiting call once; that needs `Splice` to remove exactly
the call that aborts, so that the call is in the queue whenever its listener is
on; and that a slot is never idle needs the hand-over. The lemmas are about
`Splice` and `IndexOf` and about taking the head of a sequence of distinct calls.
The action properties and the refinement follow from `Inv` step by step.

**Compiling requests.** The limiter is an instance, and so is its proof:
`LP == INSTANCE LimiterProofs WITH Tasks <- Requests`. `UsesLimiter` shows that
every step of the service is a step of the limiter or leaves it alone, so its
invariant is kept by citing the limiter's lemmas, and its theorems hold of
api-compile. What is added is `StatusOfPhase`, which phase of a request goes with
which status at the limiter, and `DirsOfPhase`, which directories it owns in
each phase: a directory is removed in a `finally`, so that what matters is that
no phase is left on a path that owns more than the next one says.
`NobodyElseLost` says that an exit the timeout did not force cuts off nobody but
those whose client has left: the guard of `Exit` speaks of requests in flight, and
the theorem of slots, the queue and directories, so that it needs the limiter's
invariant and `DirsOfPhase`.

**Registry.** `RowsOfRequests` says which rows a request can have made by now:
rows are named after the request, so uniqueness of a key becomes that no two
requests pass the insert of it, which is what the unique index and the wait for
its holder give. `OfRequests` has, for each statement, what the request has found
or made before, and what it holds locked. `CleanupCoherent` relates what the
cleanup has selected to what is still there, and `EarlierSpared` that nothing it
must keep is gone. `NoDeadlock` takes any set of open transactions and names one
in it that waits for none of the others, by how far each has come.

`RegistryStoreProofs` has what is true of the artifact store and of the answers.
Its theorems are about the time before a first cleanup begins (`NoCleanupYet`)
and about the first cleanup (`cleanup.runs = 0`), because they fail later: a
cleanup can delete the artifact of a package that is verified again behind its
back (finding 3) and a record by cascade (finding 4), and a second one would start
from there. `EarlyInv` needs `DoneByNow`, what a request has put in the store at
each statement; `FirstInv` needs that the cleanup only deletes artifacts of
packages it has itself deleted from the table.

**A submission's way.** `JobOK` is what each job knows of its own build: which
attempt left which lockfile, and what was read back. `FormFollows` and
`ScriptFollows` tie the job whose answer the page or the script waits for to what
was submitted, and say that a job given up by its follower can still end but is
listened to by nobody. `OfARow` says of a build again that the row it repeats is
there and has not changed. `ExactInputs` and `ShownIsOfSubmission` are themselves
parts of the invariant: without the first the second debug build could be put
beside another package.

**Status page.** `IInv` relates what is published to what the channel was told.
`OutageRemembered` speaks of a run that has notified, and says nothing of the
next: what carries over is `PublishedRemembered`, that the last post is past at
least as many periods of the outage as the published check. It is an inequality
because a run whose deployment is lost has posted later than anything that is
published, and `PeriodMonotone` turns it into an equality when the next run finds
no reason to post. What the channel was `told` is what is published, or the service
is in `lost`; a run that finds the published state again says nothing, and that
is how a lost deployment hides an outage from the channel (see below).
`BuiltOnPublished` says that the run in flight has the
published snapshot or none, also after the runs it cancelled.

**Programs.** One program runs at a time, so each has an invariant of its own of
the form "off, or its state is in order", kept by its steps and untouched by the
others'.

- Lookup: what was answered was true at some moment since the lookup began, kept
  as what is `missing` and what `failed`.
- Projects: a directory's files and manifests are carried unchanged, and each
  reader's candidates are the same set.
- Page: the active tab is open and of the page's package; a theme that is not the
  stored one has an event on its way.
- Checks: each result is one that its check can have for what was broken at some
  moment of the run, or that of a check that gave up on a container asleep at the
  start; once `awake` nobody gives up any more.
- On-chain code: components are claimed in order from what is left
  (`LeftIsUnclaimed`), so that claims are disjoint and the counts add up.
- Read-only analysis: the invariant of the walk (`WalkInv`) is that every node
  seen has had all it leads to seen or put on the stack, and that the verdict so
  far is the join over the nodes seen. A finished walk has an empty stack, so
  what it has seen is closed, and everything reachable is in every closed set.
- Types: the path of what is written next orders what was written before it
  (`Precedes`). Every type that is open has the parts up to the one in progress,
  and everything else has all of its parts (`OpenTrue`). The types being unfolded
  are the recursive ones that are open, in order (`Unfolds`); this is what puts a
  `Rec` inside of the type it names. A place holds the type its path leads to
  from the whole (`TypeOfPart`).

The library's induction theorems take an operator as a parameter, which the
installed provers cannot instantiate. Where a proof needs induction over a number
it uses `InductionTo`, that a set of naturals that holds 0 and with each number
the next holds all up to a bound, which follows from the least counterexample
(`SmallestBelow`). That a function defined by recursion exists is proved with it
once per definition (`GraphsDefined`, `TypesAlong`, `UnclaimedDefined`).

TLC checked every invariant on an instance before it was proved.

**Only model-checked.** Liveness is beyond this prover: `EveryCallSettles`,
`ShutdownCompletes`, `EveryRequestAnswered` and `EverySubmissionEnds` are checked
by TLC, under the fairness above. So are the findings, which are counterexamples,
and what the registry's store holds after a first cleanup.

## What is not modelled

Listed in `PROJECT.json` with the reasons. In short:

- what the Miden compiler, cargo's resolver, Postgres's planner and the Miden
  client compute, beyond how this code uses them;
- wording, presentation, response bodies beyond what a decision is taken on;
- the reading of signatures out of Rust source text
  (`web-viewer/src/lib/procedure-signatures.ts`): a lexer whose only reader is a
  human;
- the download of an artifact (`routes/v1/packages.ts`), `GET /lockfile`, the
  setup of the two apps and of the Worker's container;
- an operating system process that outlives its kill, a store's partial write.

## Where code and comments differ

These came up while modelling; the models follow the code. Three are about
behaviour that matters, and a property states what holds instead:

- `README.md:32` of the repository says of api-compile that "nothing is left
  behind" and that on SIGTERM it "finishes the ones in flight, then exits".
  `server.close` (`server.ts:88`) waits for connections. A request whose client
  has left has none, and the process may exit while its build is being stopped
  or its directories deleted. `ExitLosesOnlyTheGone` is what holds.
- `status-page/README.md:184-186` says of lost deployments that the page "can
  repeat itself, never miss an outage". A run posts that a service recovered and
  its deployment is lost; the service goes down again; the next run finds the
  state it has published, and is silent until a reminder is due. `BadNewsKnown`
  is what holds, with `lost` for that case, and `OutageRemembered` bounds the
  silence by a period.
- `probe.ts:48` allows 15 seconds for a container whose "cold start costs several
  seconds"; `api-compile-cloudflare/src/server.ts:29` puts it at about 50. So the
  root check of a sleeping api-compile, and the two checks of the registry that
  ask it, may fail with nothing broken, and api-compile is then degraded or, when
  its other checks fail for what is broken, unhealthy. `BlameIsJust` says that
  nothing else is blamed on the start.

The rest:

- `verify-form.tsx:81` says the entrypoint defaults to "." for zero or one
  entrypoints; `onImport` takes the only one there is.
- `source-code.tsx:36` says closing the active tab activates the one that takes
  its place. After a navigation to a resource with a package of the same name
  that tab may be of a file that is not there: then none is shown as active.
  `PageShowsItsState` leaves this case out (`~moved`).
- Two tabs that choose a theme at once end with each other's
  (`theme-provider.tsx:199`): `PageShowsItsState` leaves such races out
  (`~raced`).
- `verified-accounts` does not compare the kind of what it verified: a note's id
  posted there is recorded as an account code, which only the by-root route
  finds (`verify-resource.ts:187`).
- `packages.ts:144` says the artifact behind a commitment never changes; a debug
  artifact is stored under the release build's commitment and may be overwritten
  by another debug build.
- To the registry every 404 of api-compile is a miss, also one of a proxy or of a
  wrong path (`api-compile.ts:79`); `Lookup` has only those of the import route.
- An account verified with two packages of one name gives two sections of its
  page one React key (`verified-resource.tsx:98`).
- Recursive types that refer to each other are written out once per path, so
  that the JSON grows as the factorial of their number.

## What is left

In order of what matters most:

1. That the registry step of `RequestPath` is what `Registry` implements, for one
   account; debug builds of different sources and the download of artifacts with
   them.
2. What a cleanup leaves true of the store when nothing is verified while it
   runs, as a theorem over any number of cleanups.
