----------------------------- MODULE CargoBuild -----------------------------
(***************************************************************************)
(* What a build does in its slot (apps/api-compile: lib/cargo-miden.ts,    *)
(* buildProject and buildDebug of lib/compile.ts, the answers of the       *)
(* routes), and the Worker in front of the container, which may answer     *)
(* first.  CompileService has the slot, the line before it and the files;  *)
(* here a build is its attempts, which may as well be in line, and what it *)
(* says of the lockfile that cargo resolved.                               *)
(***************************************************************************)
EXTENDS Naturals, FiniteSets

CONSTANTS Jobs,      \* how many requests can be on their way: a bound
          Taken,     \* how many the container takes, building or in line
          Crates     \* crates that openProject opens

VARIABLE jobs

\* A lockfile: absent, the client's pins, or what cargo resolves without and
\* with the network.  The client's pins fit its manifests.
Locks == {"absent", "sent", "warm", "fresh"}
Projects == [crate : Crates, lock : Locks]

\* A package is the crate with the lockfile it was built with: two differ in
\* their commitment.
Packages == [crate : Crates, lock : Locks \ {"absent"}]
NoPackage == [crate |-> "none", lock |-> "absent"]

Kinds == {"verify_account", "verify_note", "compile", "compile_debug"}

\* What the registry has in the end, with the status it stands for.
Answers == {"verified", "not_verified", "built", "drift",  \* 200, 409
            "refused", "failed", "no_debug",               \* 400, 500, a debug error
            "unreachable", "busy", "late"}                 \* 502, 503, 504

Idle == [pc |-> "idle", kind |-> "verify_note", project |-> NoPackage, expected |-> NoPackage,
         attempt |-> "offline", profile |-> "release", disk |-> "absent",
         release |-> NoPackage, debug |-> NoPackage, files |-> NoPackage, unread |-> FALSE,
         answer |-> "failed"]

Working == {"cargo", "update", "read", "compare", "abandoned"}
Building == {j \in Jobs : jobs[j].pc \in Working}

JobsTypeOK ==
    /\ DOMAIN jobs = Jobs
    /\ \A j \in Jobs :
        /\ jobs[j].pc \in {"idle", "verifier", "answered"} \cup Working
        /\ jobs[j].kind \in Kinds
        /\ \A field \in {"project", "files", "release", "debug", "expected"} :
             jobs[j][field].crate \in Crates \cup {"none"} /\ jobs[j][field].lock \in Locks
        /\ jobs[j].disk \in Locks
        /\ jobs[j].attempt \in {"offline", "updated", "online"}
        /\ jobs[j].profile \in {"release", "debug"}
        /\ jobs[j].answer \in Answers
        /\ jobs[j].unread \in BOOLEAN
    /\ Cardinality(Building) <= Taken

JobsInit == jobs = [j \in Jobs |-> Idle]

Set(j, job) == jobs' = [jobs EXCEPT ![j] = job]

\* A refusal says nothing of the build, and what other clients compile is not
\* followed.
Answered(j, job, answer) ==
    CASE job.kind = "compile" -> Set(j, Idle)
      [] job.kind # "compile" /\ answer \in {"verified", "built", "drift"} ->
           Set(j, [job EXCEPT !.pc = "answered", !.answer = answer])
      [] OTHER -> Set(j, [Idle EXCEPT !.pc = "answered", !.answer = answer])

-----------------------------------------------------------------------------
(* Variants with one plausible mistake each.                               *)

\* Every route re-resolves a lockfile the image cannot serve.
WarmLockfileAlways(kind) == kind \in Kinds

\* The sources are answered as they were sent.
FilesAsSent(job, unread) == job.project

-----------------------------------------------------------------------------
\* A request reaches the container, which takes it or answers 503.
Forward(j, kind, project, expected) ==
    LET job == [Idle EXCEPT !.kind = kind, !.project = project, !.expected = expected,
                            !.disk = project.lock]
    IN  /\ jobs[j].pc = "idle"
        /\ IF Cardinality(Building) < Taken THEN Set(j, [job EXCEPT !.pc = "cargo"])
           ELSE Answered(j, job, "busy")

\* The Worker's timer wins the race: 504.  Whether the container hears of it
\* is the runtime's, so the build may go on in its slot, for nobody.
ProxyTimeout(j) ==
    /\ jobs[j].pc \notin {"idle", "abandoned", "answered"}
    /\ Set(j, IF jobs[j].pc = "verifier" THEN Idle ELSE [Idle EXCEPT !.pc = "abandoned"])

\* It ends, by itself or by the signal of its client.
AbandonedEnds(j) == jobs[j].pc = "abandoned" /\ Set(j, Idle)

\* container.fetch throws, or the container stops: everything it had is lost.
ContainerLost ==
    /\ \E j \in Jobs : jobs[j].pc \notin {"idle", "answered"}
    /\ jobs' = [j \in Jobs |->
                  IF jobs[j].pc \in {"idle", "answered"} THEN jobs[j]
                  ELSE IF jobs[j].pc = "abandoned" \/ jobs[j].kind = "compile" THEN Idle
                  ELSE [Idle EXCEPT !.pc = "answered", !.answer = "failed"]]

-----------------------------------------------------------------------------
\* cargoMidenBuild.  A lockfile that is there is kept; cargo writes one that
\* is not.
Resolved(job) ==
    IF job.disk # "absent" THEN job.disk
    ELSE IF job.attempt = "online" THEN "fresh" ELSE "warm"

\* /compile may ask for it; /verify and /compile-debug never do.
WarmLockfile(kind) == kind = "compile"

CargoBuilds(j) ==
    LET job == jobs[j]
        package == [crate |-> job.project.crate, lock |-> Resolved(job)]
    IN  /\ job.pc = "cargo"
        /\ Set(j, IF job.profile = "release"
                  THEN [job EXCEPT !.pc = "read", !.attempt = "offline", !.disk = package.lock,
                                   !.release = package]
                  ELSE [job EXCEPT !.pc = "compare", !.attempt = "offline", !.debug = package])

\* The error names --offline: a crate, or a target, that is not downloaded.
\* The lockfile may have been written by then.
FailsOffline(j) ==
    LET job == jobs[j] IN
    /\ job.pc = "cargo"
    /\ job.attempt # "online"
    /\ \E disk \in {job.disk, Resolved(job)} :
         Set(j, IF job.attempt = "offline" /\ job.profile = "release" /\ WarmLockfile(job.kind)
                THEN [job EXCEPT !.pc = "update", !.disk = disk]
                ELSE [job EXCEPT !.attempt = "online", !.disk = disk])

UpdateOffline(j) ==
    /\ jobs[j].pc = "update"
    /\ \/ Set(j, [jobs[j] EXCEPT !.pc = "cargo", !.attempt = "updated", !.disk = "warm"])
       \/ Set(j, [jobs[j] EXCEPT !.pc = "cargo", !.attempt = "online"])

\* The package of a lockfile that was sent, or resolved; unless it cannot be
\* read, or lies outside the project, it goes with the answered sources.
Files(job, unread) == [job.project EXCEPT !.lock = IF unread THEN @ ELSE job.disk]

WantsDebug(kind) == kind \in {"verify_account", "compile_debug"}

\* The slot is free before the verifier runs.
Finished(j, job) ==
    CASE job.kind = "compile" -> Answered(j, job, "built")
      [] job.kind = "compile_debug" ->
           Answered(j, job, IF job.debug = NoPackage THEN "no_debug" ELSE "built")
      [] OTHER -> Set(j, [job EXCEPT !.pc = "verifier"])

\* A release build that fails is an answer, a debug build that fails is left
\* out.
CargoFails(j) ==
    /\ jobs[j].pc = "cargo"
    /\ IF jobs[j].profile = "release" THEN Answered(j, jobs[j], "refused")
       ELSE Finished(j, jobs[j])

\* The artifact and its metadata, and the lockfile.  A build that no longer
\* has the expected commitment stops here; else the debug build follows in the
\* same slot.
ReadPackage(j) ==
    /\ jobs[j].pc = "read"
    /\ \/ Answered(j, jobs[j], "failed")
       \/ \E unread \in BOOLEAN :
            LET job == [jobs[j] EXCEPT !.files = Files(jobs[j], unread),
                                         !.unread = unread] IN
            CASE job.kind = "compile_debug" /\ job.expected # job.release -> Answered(j, job, "drift")
              [] ~WantsDebug(job.kind) -> Finished(j, job)
              [] OTHER -> Set(j, [job EXCEPT !.pc = "cargo", !.profile = "debug",
                                             !.attempt = "offline"])

\* Too large, unreadable, or without some export of the release build.
CompareDebug(j) ==
    /\ jobs[j].pc = "compare"
    /\ \/ Finished(j, jobs[j])
       \/ Finished(j, [jobs[j] EXCEPT !.debug = NoPackage])

\* miden-verifier: its verdict, a request that can never verify, or a failure
\* that may pass.
VerifierEnds(j) ==
    /\ jobs[j].pc = "verifier"
    /\ \E answer \in {"verified", "not_verified", "refused", "unreachable"} :
         Answered(j, jobs[j], answer)

JobStep(j) ==
    \/ CargoBuilds(j) \/ FailsOffline(j) \/ UpdateOffline(j) \/ CargoFails(j)
    \/ AbandonedEnds(j) \/ ReadPackage(j) \/ CompareDebug(j) \/ VerifierEnds(j)

JobsNext == ContainerLost \/ \E j \in Jobs : JobStep(j) \/ ProxyTimeout(j)
=============================================================================
