---------------------------- MODULE RequestPath ----------------------------
(***************************************************************************)
(* From a click to a row and back: the form (VerifyForm), the registry's   *)
(* routes and its client of api-compile, the Worker and the build          *)
(* (CargoBuild), other clients that compile, and the backfill of debug     *)
(* builds, which builds again what was stored.  How the rows are written   *)
(* is Registry's; here a verification is recorded in one step.             *)
(***************************************************************************)
EXTENDS VerifyForm, CargoBuild

CONSTANT ScriptRetries   \* MAX_RETRIES of the backfill

VARIABLES packages,   \* rows: commitment, files, debug; and, to say what
                      \* happened, whether the lockfile had not been read
          records,    \* verified accounts and notes
          script,     \* the backfill
          jobOf       \* the requests of the form and of the script

vars == <<form, jobs, packages, records, script, jobOf>>

NoJob == "none"

\* A folder is some of the crates, with its lockfile or without one; "." is its
\* root.
ASSUME RequestAssumption ==
    /\ IsFiniteSet(Jobs) /\ NoJob \notin Jobs
    /\ Taken \in Nat /\ ScriptRetries \in Nat
    /\ "." \in Crates
    /\ Folders \subseteq [crates : SUBSET Crates, lock : {"absent", "sent"}]

RequestInit ==
    /\ FormInit
    /\ JobsInit
    /\ packages = {}
    /\ records = {}
    /\ script = [pc |-> "off", pending |-> {}, sends |-> 0]
    /\ jobOf = [form |-> NoJob, script |-> NoJob]

TypeOK ==
    /\ FormTypeOK
    /\ JobsTypeOK
    /\ \A row \in packages :
        /\ row.commitment \in Packages /\ row.files \in Projects
        /\ row.debug \in Packages \cup {NoPackage} /\ row.unread \in BOOLEAN
        /\ \A other \in packages : other.commitment = row.commitment => other = row
    /\ records \subseteq [network : Networks, typed : Notes \cup Addresses, commitment : Packages]
    /\ script.pc \in {"off", "next", "send", "sent", "wait", "done"}
    /\ script.sends \in 0..(ScriptRetries + 1)
    /\ jobOf \in [{"form", "script"} -> Jobs \cup {NoJob}]

RowOf(commitment) == {row \in packages : row.commitment = commitment}

WithDebug(row, debug) ==
    IF row.debug = NoPackage THEN [row EXCEPT !.debug = debug] ELSE row

-----------------------------------------------------------------------------
(* The form.                                                               *)

FormSends ==
    \E j \in Jobs :
        /\ Sends
        /\ Forward(j, IF Kind(form.submission.typed) = "note" THEN "verify_note" ELSE "verify_account",
                   form.submission.project, NoPackage)
        /\ jobOf' = [jobOf EXCEPT !.form = j]
        /\ UNCHANGED <<packages, records, script>>

\* Nothing verified is recorded twice: 409.
Recorded(record) ==
    \/ record \in records
    \/ record.typed \in Notes /\ \E r \in records : r.typed = record.typed /\ r.network = record.network

\* The registry has api-compile's answer, records what is new, and answers the
\* form; it may fail before it recorded, or its connection after.
FormAnswered ==
    LET j == jobOf.form
        job == jobs[j]
        record == [network |-> form.submission.network, typed |-> form.submission.typed,
                   commitment |-> job.release]
        row == [commitment |-> job.release, files |-> job.files, debug |-> job.debug,
                unread |-> job.unread]
        new == job.answer = "verified" /\ ~Recorded(record)
    IN  /\ j # NoJob
        /\ job.pc = "answered"
        /\ \/ /\ new
              /\ records' = records \cup {record}
              /\ packages' = IF RowOf(job.release) = {} THEN packages \cup {row}
                             ELSE {IF p.commitment = job.release THEN WithDebug(p, job.debug) ELSE p :
                                     p \in packages}
              /\ Responds("verified") \/ Responds("failed")
           \/ /\ UNCHANGED <<records, packages>>
              /\ \/ Responds("failed")
                 \/ Responds(IF job.answer = "verified" THEN "refused" ELSE job.answer)
        /\ Set(j, Idle)
        /\ jobOf' = [jobOf EXCEPT !.form = NoJob]
        /\ UNCHANGED script

\* The Worker answers 504 in the container's place.
FormTimesOut ==
    /\ jobOf.form # NoJob
    /\ ProxyTimeout(jobOf.form)
    /\ Responds("late")
    /\ jobOf' = [jobOf EXCEPT !.form = NoJob]
    /\ UNCHANGED <<packages, records, script>>

-----------------------------------------------------------------------------
(* The backfill: one package after the other.                              *)

\* getPackagesWithoutDebugBuild: the account components, which are here the
\* packages an account was verified with.
ScriptLists ==
    /\ script.pc = "off"
    /\ script' = [script EXCEPT !.pc = "next",
                    !.pending = {row.commitment : row \in {p \in packages :
                        /\ p.debug = NoPackage
                        /\ \E r \in records : r.commitment = p.commitment /\ r.typed \in Addresses}}]
    /\ UNCHANGED <<form, jobs, packages, records, jobOf>>

ScriptNext ==
    /\ script.pc = "next"
    /\ script' = IF script.pending = {} THEN [script EXCEPT !.pc = "done"]
                 ELSE [script EXCEPT !.pc = "send", !.sends = 0]
    /\ UNCHANGED <<form, jobs, packages, records, jobOf>>

Current == CHOOSE c \in script.pending : TRUE
DropCurrent == [script EXCEPT !.pc = "next", !.pending = @ \ {Current}]

\* The route answers at once what was built since the list was read.
ScriptSends ==
    /\ script.pc = "send"
    /\ \E row \in RowOf(Current) :
         IF row.debug # NoPackage THEN script' = DropCurrent /\ UNCHANGED <<jobs, jobOf>>
         ELSE \E j \in Jobs :
                /\ Forward(j, "compile_debug", row.files, row.commitment)
                /\ jobOf' = [jobOf EXCEPT !.script = j]
                /\ script' = [script EXCEPT !.pc = "sent", !.sends = @ + 1]
    /\ UNCHANGED <<form, packages, records>>

\* storeDebugBuild on the row; a busy api-compile is waited for; anything else
\* is skipped, or failed.
ScriptAnswered ==
    LET j == jobOf.script IN
    /\ j # NoJob
    /\ jobs[j].pc = "answered"
    /\ packages' = {IF jobs[j].answer = "built" /\ p.commitment = Current
                    THEN [p EXCEPT !.debug = jobs[j].debug] ELSE p : p \in packages}
    /\ script' = IF jobs[j].answer = "busy" /\ script.sends <= ScriptRetries
                 THEN [script EXCEPT !.pc = "wait"] ELSE DropCurrent
    /\ Set(j, Idle)
    /\ jobOf' = [jobOf EXCEPT !.script = NoJob]
    /\ UNCHANGED <<form, records>>

ScriptTimesOut ==
    /\ jobOf.script # NoJob
    /\ ProxyTimeout(jobOf.script)
    /\ script' = DropCurrent
    /\ jobOf' = [jobOf EXCEPT !.script = NoJob]
    /\ UNCHANGED <<form, packages, records>>

ScriptWaits ==
    /\ script.pc = "wait"
    /\ script' = [script EXCEPT !.pc = "send"]
    /\ UNCHANGED <<form, jobs, packages, records, jobOf>>

-----------------------------------------------------------------------------
\* Some other client's /compile, whose answer is not followed: one project
\* stands for all of theirs.
OthersCompile ==
    /\ \E j \in Jobs :
         /\ jobs[j].pc = "idle"
         /\ Cardinality(Building) < Taken
         /\ Set(j, [Idle EXCEPT !.kind = "compile", !.disk = "sent", !.pc = "cargo"])
    /\ UNCHANGED <<form, packages, records, script, jobOf>>

Build == (ContainerLost \/ \E j \in Jobs : JobStep(j))
         /\ UNCHANGED <<form, packages, records, script, jobOf>>
Page == FormStep /\ UNCHANGED <<jobs, packages, records, script, jobOf>>

Script == ScriptLists \/ ScriptNext \/ ScriptSends \/ ScriptAnswered \/ ScriptTimesOut \/ ScriptWaits

RequestNext == Build \/ Page \/ FormSends \/ FormAnswered \/ FormTimesOut \/ Script \/ OthersCompile

\* Subprocesses have timeouts and the Worker a timer, timers fire and answers
\* arrive; nothing makes a user click, nor anyone run the script.
RequestFairness ==
    /\ \A j \in Jobs : WF_vars(JobStep(j) /\ UNCHANGED <<form, packages, records, script, jobOf>>)
    /\ WF_vars(CountdownEnds /\ UNCHANGED <<jobs, packages, records, script, jobOf>>)
    /\ SF_vars(FormSends)
    /\ WF_vars(FormAnswered \/ FormTimesOut)
    /\ WF_vars(ScriptNext) /\ SF_vars(ScriptSends) /\ WF_vars(ScriptWaits)
    /\ WF_vars(ScriptAnswered \/ ScriptTimesOut)

RequestSpec == RequestInit /\ [][RequestNext]_vars /\ RequestFairness

-----------------------------------------------------------------------------
(* Properties.                                                             *)

\* A success on the page stands for a record of just what was submitted, the
\* crate that was chosen in the folder that was read, with the client's pins
\* when it had some, however the fields were edited and however many attempts
\* it took: verify-form.tsx, cargo-miden.ts ("/verify, which must build exactly
\* what was submitted").
ShownIsOfSubmission ==
    LET project == form.submission.project IN
    form.result.status = "success" =>
        \E r \in records :
            /\ r.network = form.result.network /\ r.typed = form.result.typed
            /\ r.commitment.crate = project.crate
            /\ project.lock = "sent" => r.commitment.lock = "sent"

\* A stored package's files are what it was built from, its lockfile with
\* them, and its debug build is of the same: "the exact inputs behind
\* commitment" (packages/utils/src/api-registry.ts), unless the lockfile could
\* not be read, which is only logged.
ExactInputs ==
    \A row \in packages :
        /\ row.files.crate = row.commitment.crate
        /\ ~row.unread => row.files.lock = row.commitment.lock
        /\ row.debug \in {NoPackage, row.commitment}

\* The backfill builds again what was stored.  With one toolchain it finds
\* drift only in a package whose lockfile had not been read.
DriftOnlyWhenLockLost ==
    \A j \in Jobs : jobs[j].pc = "answered" /\ jobs[j].answer = "drift" =>
        \A row \in RowOf(jobs[j].expected) : row.unread

\* Every submission ends in an alert and every package of the backfill in its
\* line, whatever the container does and however busy others keep it.
EverySubmissionEnds ==
    /\ form.pc # "idle" ~> form.pc = "idle"
    /\ script.pc # "off" ~> script.pc = "done"

-----------------------------------------------------------------------------
(* The instance.                                                           *)

FoldersOfInstance == {[crates |-> {"."}, lock |-> "sent"],
                      [crates |-> {"a", "b"}, lock |-> "absent"]}
=============================================================================
