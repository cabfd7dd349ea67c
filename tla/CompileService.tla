--------------------------- MODULE CompileService ---------------------------
(***************************************************************************)
(* The life of a compiling request in apps/api-compile: the shutdown       *)
(* middleware (server.ts), the routes /compile, /compile-debug and /verify *)
(* (routes/), queueCompile and compile (lib/compile.ts) over the limiter   *)
(* (Limiter.tla, instantiated here), the directories a request owns on     *)
(* disk, the client that may go away, and SIGTERM.                         *)
(*                                                                         *)
(* What cargo does inside a build is one nondeterministic outcome here.    *)
(***************************************************************************)
EXTENDS Naturals, Sequences, FiniteSets

CONSTANTS Requests, Concurrency, QueueSize,
          MaxGone,    \* bound: the clients that disconnect
          MaxLogged   \* bound: the requests whose deletions may fail

\* The limiter's own: COMPILE_CONCURRENCY and COMPILE_QUEUE_SIZE.
ASSUME ServiceAssumption ==
  /\ Concurrency \in Nat \ {0} /\ QueueSize \in Nat
  /\ MaxGone \in Nat /\ MaxLogged \in Nat

VARIABLES active, queue, status, listening, aborted,  \* the limiter's
          server,    \* "up", "draining" (SIGTERM came), or how it exited
          gone,      \* requests whose client disconnected before the answer
          phase,     \* where each request is
          dirs,      \* its directories that exist
          logged     \* requests one of whose removeDirs failed, and was logged

L == INSTANCE Limiter WITH Tasks <- Requests

limiter == <<active, queue, status, listening, aborted>>
outside == <<server, gone>>
request == <<phase, dirs, logged>>
vars == <<limiter, outside, request>>

\* The steps that run inside the limiter's task, so with a slot.
InSlot == {"mkdtemp", "build", "undo"}
\* `use` of a package, and of a failed build.
InUse == {"use", "useFailed", "verify", "unresource"}
\* "refused" is an answer too: a request that never had a slot.
Phases == {"out", "received", "limit"} \cup InSlot \cup InUse
            \cup {"clean", "answered", "refused"}
Answered == {"answered", "refused"}
InFlight == Phases \ ({"out"} \cup Answered)

\* A request's directories: "build" is its copy of the project with its cargo
\* output, always deleted by one removeDirs call, "resource" the directory of
\* /verify's resource file.
Dirs == {"build", "resource"}

TypeOK ==
  /\ L!TypeOK
  /\ server \in {"up", "draining", "drained", "killed"}
  /\ gone \subseteq Requests
  /\ phase \in [Requests -> Phases]
  /\ dirs \in [Requests -> SUBSET Dirs]
  /\ logged \subseteq Requests

Init ==
  /\ L!Init
  /\ server = "up"
  /\ gone = {}
  /\ phase = [r \in Requests |-> "out"]
  /\ dirs = [r \in Requests |-> {}]
  /\ logged = {}

Alive == server \in {"up", "draining"}

Goto(r, to) == phase' = [phase EXCEPT ![r] = to]

\* removeDirs, best effort: a directory that could not be deleted stays, and
\* that is logged.
RemoveDir(r, dir) ==
  \/ /\ dirs' = [dirs EXCEPT ![r] = @ \ {dir}]
     /\ UNCHANGED logged
  \/ /\ UNCHANGED dirs
     /\ logged' = logged \cup {r} /\ Cardinality(logged') <= MaxLogged

-----------------------------------------------------------------------------
(* Variants with one plausible mistake each.                               *)

\* The build's files go before `use` has read the package.
BuildEndsCleansFirst(r) ==
  /\ Alive
  /\ phase[r] = "build"
  /\ L!Finish(r)
  /\ Goto(r, "use")
  /\ dirs' = [dirs EXCEPT ![r] = {}]
  /\ UNCHANGED <<outside, logged>>

\* Both the task and the limiter give the slot back.
BuildEndsReleasesTwice(r) ==
  /\ Alive
  /\ phase[r] = "build"
  /\ status' = [status EXCEPT ![r] = "finished"]
  /\ active' = active - 2
  /\ Goto(r, "use")
  /\ UNCHANGED <<queue, listening, aborted, outside, dirs, logged>>

\* compile() has no catch: a build that throws leaves its files.
BuildThrowsKeepsFiles(r) ==
  /\ Alive
  /\ phase[r] = "build"
  /\ L!Finish(r)
  /\ Goto(r, "answered")
  /\ UNCHANGED <<outside, dirs, logged>>

\* The client's disconnect frees the slot although the task still runs.
DisconnectFreesSlot(r) ==
  /\ Alive
  /\ phase[r] \in InFlight /\ r \notin gone /\ Cardinality(gone) < MaxGone
  /\ gone' = gone \cup {r}
  /\ CASE status[r] = "running" -> L!Release(r) /\ aborted' = aborted \cup {r}
       [] status[r] \in {"waiting", "granted"} -> L!Abort(r)
       [] OTHER -> UNCHANGED limiter
  /\ UNCHANGED <<server, request>>

\* The route gives the limiter no signal: who left stays in its queue.
DisconnectUnheard(r) ==
  /\ Alive
  /\ phase[r] \in InFlight /\ r \notin gone /\ Cardinality(gone) < MaxGone
  /\ gone' = gone \cup {r}
  /\ UNCHANGED <<limiter, server, request>>

\* The slot is not released when the task throws.
UndoKeepsSlot(r) ==
  /\ Alive
  /\ phase[r] = "undo"
  /\ RemoveDir(r, "build")
  /\ Goto(r, "answered")
  /\ UNCHANGED <<limiter, outside>>

-----------------------------------------------------------------------------
(* The server and its clients.                                             *)

\* A request arrives.  Once SIGTERM came, the ones on kept-alive connections
\* are refused.
Receive(r) ==
  /\ Alive
  /\ phase[r] = "out"
  /\ Goto(r, IF server = "draining" THEN "refused" ELSE "received")
  /\ UNCHANGED <<limiter, outside, dirs, logged>>

\* The body is read and the route's handler runs: 400 on an invalid request,
\* else queueCompile calls limit(...) before anything is awaited.  The body of
\* a client that left never ends, which is an error of the parser.
Handle(r) ==
  /\ Alive
  /\ phase[r] = "received"
  /\ \/ Goto(r, "refused") /\ UNCHANGED limiter
     \/ r \notin gone /\ L!Acquire(r) /\ Goto(r, "limit")
  /\ UNCHANGED <<outside, dirs, logged>>

\* The client disconnects before it has its answer.  From limit(...) on the
\* signal of abortOnClose(res) aborts; past the slot nothing reads it any more.
Disconnect(r) ==
  /\ Alive
  /\ phase[r] \in InFlight /\ r \notin gone /\ Cardinality(gone) < MaxGone
  /\ gone' = gone \cup {r}
  /\ IF phase[r] \in {"limit"} \cup InSlot THEN L!Abort(r) ELSE UNCHANGED limiter
  /\ UNCHANGED <<server, request>>

\* SIGTERM, or SIGINT: a second one is ignored.
Sigterm ==
  /\ server = "up"
  /\ server' = "draining"
  /\ UNCHANGED <<limiter, gone, request>>

\* server.close calls back when the last connection has ended: it waits for the
\* requests with a client, whatever the handlers of the others still do.
Exit ==
  /\ server = "draining"
  /\ \A r \in Requests : phase[r] \in InFlight => r \in gone
  /\ server' = "drained"
  /\ UNCHANGED <<limiter, gone, request>>

\* SHUTDOWN_TIMEOUT_MS passed with requests still in flight.
ForceExit ==
  /\ server = "draining"
  /\ server' = "killed"
  /\ UNCHANGED <<limiter, gone, request>>

-----------------------------------------------------------------------------
(* queueCompile: the limiter's task is compile().                          *)

\* limit(...) rejected with a BusyError, or with the signal's reason.
Rejected(r) ==
  /\ Alive
  /\ phase[r] = "limit"
  /\ status[r] \in {"busy", "cancelled"}
  /\ Goto(r, "refused")
  /\ UNCHANGED <<limiter, outside, dirs, logged>>

\* compile(args) starts: mkdtemp.
CompileStarts(r) ==
  /\ Alive
  /\ phase[r] = "limit"
  /\ L!Begin(r)
  /\ Goto(r, "mkdtemp")
  /\ UNCHANGED <<outside, dirs, logged>>

DirMade(r) ==
  /\ Alive
  /\ phase[r] = "mkdtemp"
  /\ dirs' = [dirs EXCEPT ![r] = {"build"}]
  /\ Goto(r, "build")
  /\ UNCHANGED <<limiter, outside, logged>>

\* mkdtemp threw, before compile's try: there is nothing to delete.
DirFailed(r) ==
  /\ Alive
  /\ phase[r] = "mkdtemp"
  /\ L!Finish(r)
  /\ Goto(r, "answered")
  /\ UNCHANGED <<outside, dirs, logged>>

\* buildProject returns, a package or a failed (or cancelled) build: the slot
\* is free before `use` runs.
BuildEnds(r) ==
  /\ Alive
  /\ phase[r] = "build"
  /\ L!Finish(r)
  /\ Goto(r, "use") \/ Goto(r, "useFailed")
  /\ UNCHANGED <<outside, dirs, logged>>

\* buildProject throws: compile() deletes the files with the slot still held.
BuildThrows(r) ==
  /\ Alive
  /\ phase[r] = "build"
  /\ Goto(r, "undo")
  /\ UNCHANGED <<limiter, outside, dirs, logged>>

Undo(r) ==
  /\ Alive
  /\ phase[r] = "undo"
  /\ RemoveDir(r, "build")
  /\ L!Finish(r)
  /\ Goto(r, "answered")
  /\ UNCHANGED outside

\* use(build) of /compile and /compile-debug is the identity, and /verify has
\* nothing to check of a failed build.
UseInMemory(r) ==
  /\ Alive
  /\ phase[r] \in {"use", "useFailed"}
  /\ Goto(r, "clean")
  /\ UNCHANGED <<limiter, outside, dirs, logged>>

\* /verify: the resource file is written when the request has one, then the
\* verifier runs on the package.
UseVerify(r) ==
  /\ Alive
  /\ phase[r] = "use"
  /\ Goto(r, "verify")
  /\ \E made \in {{}, {"resource"}} : dirs' = [dirs EXCEPT ![r] = @ \cup made]
  /\ UNCHANGED <<limiter, outside, logged>>

\* writeResourceFile throws, from mkdtemp or from writeFile: the routes' try
\* has not begun.
ResourceFails(r) ==
  /\ Alive
  /\ phase[r] = "use"
  /\ Goto(r, "clean")
  /\ \E made \in {{}, {"resource"}} : dirs' = [dirs EXCEPT ![r] = @ \cup made]
  /\ UNCHANGED <<limiter, outside, logged>>

\* miden-verifier ends, with a verdict or a VerifierError.
VerifyEnds(r) ==
  /\ Alive
  /\ phase[r] = "verify"
  /\ Goto(r, IF "resource" \in dirs[r] THEN "unresource" ELSE "clean")
  /\ UNCHANGED <<limiter, outside, dirs, logged>>

RemoveResource(r) ==
  /\ Alive
  /\ phase[r] = "unresource"
  /\ RemoveDir(r, "resource")
  /\ Goto(r, "clean")
  /\ UNCHANGED <<limiter, outside>>

\* queueCompile's finally, then the response.
Cleanup(r) ==
  /\ Alive
  /\ phase[r] = "clean"
  /\ RemoveDir(r, "build")
  /\ Goto(r, "answered")
  /\ UNCHANGED <<limiter, outside>>

-----------------------------------------------------------------------------
\* The steps the process takes by itself once a request is in.
Progress(r) ==
  \/ Handle(r) \/ Rejected(r) \/ CompileStarts(r) \/ DirMade(r) \/ DirFailed(r)
  \/ BuildEnds(r) \/ BuildThrows(r) \/ Undo(r) \/ UseInMemory(r) \/ UseVerify(r)
  \/ ResourceFails(r) \/ VerifyEnds(r) \/ RemoveResource(r) \/ Cleanup(r)

Next ==
  \/ \E r \in Requests : Receive(r) \/ Disconnect(r) \/ Progress(r)
  \/ Sigterm \/ Exit \/ ForceExit

\* Bodies end, subprocesses have timeouts and file operations return, so what
\* can move does; a process that has nothing left to do exits.  Nothing makes
\* a client send or leave, or a signal come.
Fairness ==
  /\ \A r \in Requests : WF_vars(Progress(r))
  /\ WF_vars(Exit)

Spec == Init /\ [][Next]_vars /\ Fairness

-----------------------------------------------------------------------------
(* Properties.                                                             *)

\* The package the verifier reads is on disk until it is done: `use` runs after
\* the slot is released, while other requests build and clean up, and may run on
\* after its client has left (lib/compile.ts: queueCompile).
VerifierSeesPackage == \A r \in Requests : phase[r] = "verify" => "build" \in dirs[r]

\* A slot belongs to exactly the requests inside compile(): none is held while
\* a package is verified or a response written, and an answered request, by
\* whatever error, gave its slot back.
SlotsHeldByBuilds ==
  /\ \A r \in Requests :
       /\ phase[r] \in InSlot <=> status[r] = "running"
       /\ status[r] \in {"waiting", "granted"} => phase[r] = "limit"
  /\ Cardinality({r \in Requests : phase[r] \in InSlot}) <= Concurrency

\* "Nothing is left behind": once a request is answered its copy of the project
\* and its build output are gone, unless deleting them failed and was logged.
BuildLeavesNothing ==
  \A r \in Requests :
    phase[r] \in Answered /\ r \notin logged => "build" \notin dirs[r]

\* The same of every directory a request makes.
NothingLeftBehind ==
  \A r \in Requests : phase[r] \in Answered /\ r \notin logged => dirs[r] = {}

\* What an exit by itself may cut short.  server.close waits for connections and
\* not for handlers, so a build or a deletion can be lost with the process; but
\* only a request whose client left holds a slot then, or still has its build on
\* disk (unless deleting it failed and was logged), and nobody is left waiting:
\* who leaves the queue is out of it at once (server.ts, lib/utils.ts).
ExitLosesOnlyTheGone ==
  server = "drained" =>
    /\ queue = <<>>
    /\ \A r \in Requests \ gone :
         /\ status[r] \notin {"granted", "running"}
         /\ "build" \in dirs[r] => r \in logged

\* Every request that was taken is answered, whatever the clients do, unless
\* the shutdown timeout ends the process first, or the server exits by itself
\* when the request's client has left.
EveryRequestAnswered ==
  \A r \in Requests :
    phase[r] = "received" ~>
      \/ phase[r] \in Answered
      \/ server = "killed"
      \/ server = "drained" /\ r \in gone

\* SIGTERM always ends in an exit, also without the timeout.
ShutdownCompletes == server = "draining" ~> server \in {"drained", "killed"}
=============================================================================
