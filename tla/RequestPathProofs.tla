------------------------- MODULE RequestPathProofs -------------------------
(***************************************************************************)
(* Theorems of RequestPath, for any number of jobs, crates and folders:    *)
(* its type invariant, and what its three safety invariants say of a click *)
(* and the row it leads to.  The inductive invariant is what every job     *)
(* knows of its own build (JobOK), what ties a followed job to the one who *)
(* follows it (FormFollows, ScriptFollows) and, for a build again, to the  *)
(* row it repeats (OfARow).                                                *)
(***************************************************************************)
EXTENDS RequestPath, FiniteSetTheorems, TLAPS

\* A project or a package, or none.
Kept == [crate : Crates \cup {"none"}, lock : Locks]

JobSet ==
    [pc : {"idle", "verifier", "answered"} \cup Working, kind : Kinds,
     project : Kept, expected : Kept, attempt : {"offline", "updated", "online"},
     profile : {"release", "debug"}, disk : Locks, release : Kept, debug : Kept,
     files : Kept, unread : BOOLEAN, answer : Answers]

\* What is known of the build: while it goes on for somebody, and when it
\* answered with a package.
Live(job) ==
    \/ job.pc \in {"cargo", "update", "read", "compare", "verifier"}
    \/ job.pc = "answered" /\ job.answer \in {"verified", "built", "drift"}

\* The release build is done, and then the package is read.
IsBuilt(job) ==
    /\ Live(job)
    /\ job.pc # "update"
    /\ job.pc = "cargo" => job.profile = "debug"
IsRead(job) == IsBuilt(job) /\ job.pc # "read"

\* The pins that were sent are the ones on disk.
PinsKept(job) ==
    /\ job.project \in Projects
    /\ job.project.lock # "absent" => job.disk = job.project.lock

\* The release build is of the chosen crate and of what is on disk, which no
\* debug build changes.
OfItsDisk(job) ==
    /\ job.disk # "absent"
    /\ job.release = [crate |-> job.project.crate, lock |-> job.disk]

\* The files are the sources with what is on disk; a debug build is of the same.
OfItsSources(job) ==
    /\ job.files.crate = job.project.crate
    /\ ~job.unread => job.files.lock = job.disk
    /\ job.debug \in {NoPackage, job.release}

JobOK(job) ==
    /\ job \in JobSet
    /\ Live(job) /\ job.kind # "compile" => PinsKept(job)
    /\ job.pc = "update" => job.kind = "compile"
    /\ job.pc \in {"update", "read"} => job.profile = "release"
    /\ job.pc = "compare" => job.profile = "debug"
    /\ job.pc \in {"cargo", "update", "read"} /\ job.profile = "release" => job.debug = NoPackage
    /\ IsBuilt(job) => OfItsDisk(job)
    /\ IsRead(job) => OfItsSources(job)
    /\ job.pc = "verifier" => job.kind \in {"verify_account", "verify_note"}
    /\ job.pc \in {"cargo", "compare"} /\ job.profile = "debug" /\ job.kind = "compile_debug" =>
         job.expected = job.release
    /\ job.pc = "answered" /\ job.answer = "verified" => job.kind \in {"verify_account", "verify_note"}
    /\ job.pc = "answered" /\ job.answer = "built" =>
         /\ job.kind = "compile_debug"
         /\ job.debug = job.expected
    /\ job.pc = "answered" /\ job.answer = "drift" =>
         job.kind = "compile_debug" /\ job.expected # job.release

Submissions == [network : Networks, typed : Typed, project : Kept]
Results == [status : {"none", "success", "warning", "error"}, network : Networks, typed : Typed]

FormSet ==
    [network : Networks, typed : Typed, folder : Folders \cup {NoFolder}, entrypoint : Crates,
     reading : SUBSET Folders, pc : {"idle", "send", "sent", "countdown"},
     sends : 0..(MaxBusyRetries + 1), submission : Submissions, result : Results,
     clicks : 0..MaxClicks]

\* A submission is of something well-formed, and is sent again only so often.
FormOK ==
    /\ form \in FormSet
    /\ form.entrypoint \in Entrypoints(form.folder) \cup {"."}
    /\ form.pc = "idle" => form.sends = 0
    /\ form.pc \in {"send", "countdown"} => form.sends <= MaxBusyRetries
    /\ form.pc # "idle" =>
         /\ form.submission.typed \in Notes \cup Addresses
         /\ form.submission.project \in Projects

RowSet == [commitment : Packages, files : Projects, debug : Packages \cup {NoPackage}, unread : BOOLEAN]
RecordSet == [network : Networks, typed : Notes \cup Addresses, commitment : Packages]

RowsOK ==
    /\ packages \subseteq RowSet
    /\ \A row, other \in packages : other.commitment = row.commitment => other = row

ScriptSet == [pc : {"off", "next", "send", "sent", "wait", "done"}, pending : SUBSET Packages,
              sends : 0..(ScriptRetries + 1)]

ScriptOK ==
    /\ script \in ScriptSet
    /\ script.pc \in {"send", "wait"} => script.sends <= ScriptRetries

Followed == [form : Jobs \cup {NoJob}, script : Jobs \cup {NoJob}]

\* The job of the form is of what was submitted, and nobody else's.
FormFollows ==
    jobOf.form # NoJob =>
        /\ jobOf.form # jobOf.script
        /\ form.pc = "sent"
        /\ jobs[jobOf.form].pc \notin {"idle", "abandoned"}
        /\ Live(jobs[jobOf.form]) =>
             /\ jobs[jobOf.form].kind \in {"verify_account", "verify_note"}
             /\ jobs[jobOf.form].project = form.submission.project

\* The job of the script is of the package it is at.
ScriptFollows ==
    jobOf.script # NoJob =>
        /\ script.pc = "sent"
        /\ jobs[jobOf.script].pc \notin {"idle", "abandoned"}
        /\ Live(jobs[jobOf.script]) =>
             /\ jobs[jobOf.script].kind = "compile_debug"
             /\ jobs[jobOf.script].expected = Current

\* What is built again is what a row says it was built from.
OfARow ==
    \A j \in Jobs : Live(jobs[j]) /\ jobs[j].kind = "compile_debug" =>
        \E row \in packages : row.commitment = jobs[j].expected /\ row.files = jobs[j].project

BuildsOK ==
    /\ jobs \in [Jobs -> JobSet]
    /\ \A j \in Jobs : JobOK(jobs[j])
    /\ Cardinality(Building) <= Taken

IInv ==
    /\ BuildsOK
    /\ FormOK
    /\ RowsOK
    /\ records \subseteq RecordSet
    /\ ScriptOK
    /\ jobOf \in Followed
    /\ FormFollows
    /\ ScriptFollows
    /\ OfARow
    /\ ExactInputs
    /\ ShownIsOfSubmission

-----------------------------------------------------------------------------
(* What the operators of the build leave in the table of jobs.             *)

\* What Answered and Finished set.
Reply(job, answer) ==
    IF job.kind = "compile" THEN Idle
    ELSE IF answer \in {"verified", "built", "drift"} THEN [job EXCEPT !.pc = "answered", !.answer = answer]
    ELSE [Idle EXCEPT !.pc = "answered", !.answer = answer]

Done(job) ==
    IF job.kind = "compile" THEN Idle
    ELSE IF job.kind = "compile_debug"
         THEN Reply(job, IF job.debug = NoPackage THEN "no_debug" ELSE "built")
    ELSE [job EXCEPT !.pc = "verifier"]

\* How a step may change a job: it stays the job it was as long as it lives,
\* does not come (back) to work, and is forgotten only when nobody follows it.
Follows(old, new) ==
    /\ new.pc \in Working => old.pc \in Working
    /\ new.pc # "abandoned"
    /\ old.pc # "idle"
    /\ new.pc = "idle" => old.pc = "abandoned" \/ (Live(old) /\ old.kind = "compile")
    /\ Live(new) => Live(old) /\ new.kind = old.kind /\ new.project = old.project
                    /\ new.expected = old.expected

LEMMA NoPackageKept == NoPackage \in Kept /\ NoPackage.crate = "none" /\ NoPackage.lock = "absent"
BY DEF NoPackage, Kept, Locks

LEMMA IdleOK ==
    /\ Idle \in JobSet
    /\ Idle.pc = "idle"
    /\ JobOK(Idle)
    /\ ~Live(Idle)
<1>1. Idle \in JobSet /\ Idle.pc = "idle"
    BY NoPackageKept DEF Idle, JobSet, Kinds, Locks, Answers, Working
<1>2. ~Live(Idle)
    BY <1>1 DEF Live
<1> QED BY <1>1, <1>2 DEF JobOK, IsBuilt, IsRead

LEMMA RefusedOK ==
    ASSUME NEW answer \in Answers \ {"verified", "built", "drift"}
    PROVE  LET new == [Idle EXCEPT !.pc = "answered", !.answer = answer] IN
           new \in JobSet /\ JobOK(new) /\ ~Live(new) /\ new.pc = "answered" /\ new.answer = answer
<1> DEFINE new == [Idle EXCEPT !.pc = "answered", !.answer = answer]
<1>1. new \in JobSet /\ new.pc = "answered" /\ new.answer = answer
    BY IdleOK DEF JobSet
<1>2. ~Live(new)
    BY <1>1 DEF Live
<1>3. JobOK(new)
    BY <1>1, <1>2 DEF JobOK, IsBuilt, IsRead
<1> QED BY <1>1, <1>2, <1>3

LEMMA AnsweredSets ==
    ASSUME NEW j, NEW job, NEW answer, Answered(j, job, answer)
    PROVE  Set(j, Reply(job, answer))
<1>1. CASE job.kind = "compile"
    BY <1>1, Zenon DEF Answered, Reply
<1>2. CASE job.kind # "compile" /\ answer \in {"verified", "built", "drift"}
    <2>1. Set(j, [job EXCEPT !.pc = "answered", !.answer = answer])
        BY <1>2, Zenon DEF Answered
    <2> QED BY <1>2, <2>1, Zenon DEF Reply
<1>3. CASE job.kind # "compile" /\ answer \notin {"verified", "built", "drift"}
    <2>1. Set(j, [Idle EXCEPT !.pc = "answered", !.answer = answer])
        BY <1>3, Zenon DEF Answered
    <2> QED BY <1>3, <2>1, Zenon DEF Reply
<1> QED BY <1>1, <1>2, <1>3

LEMMA FinishedSets ==
    ASSUME NEW j, NEW job, Finished(j, job)
    PROVE  Set(j, Done(job))
<1>1. CASE job.kind = "compile"
    <2>1. Answered(j, job, "built")
        BY <1>1, Zenon DEF Finished
    <2> QED BY <1>1, <2>1, AnsweredSets, Zenon DEF Done, Reply
<1>2. CASE job.kind = "compile_debug"
    <2>1. "compile_debug" # "compile"
        OBVIOUS
    <2>2. Answered(j, job, IF job.debug = NoPackage THEN "no_debug" ELSE "built")
        BY <1>2, <2>1, Zenon DEF Finished
    <2> QED BY <1>2, <2>1, <2>2, AnsweredSets, Zenon DEF Done
<1>3. CASE job.kind # "compile" /\ job.kind # "compile_debug"
    <2>1. Set(j, [job EXCEPT !.pc = "verifier"])
        BY <1>3, Zenon DEF Finished
    <2> QED BY <1>3, <2>1, Zenon DEF Done
<1> QED BY <1>1, <1>2, <1>3

\* An answer keeps the job when it has a package, and then says what is true
\* of it.
LEMMA ReplyOK ==
    ASSUME NEW job \in JobSet, NEW answer \in Answers,
           Live(job), job.pc # "answered",
           job.kind # "compile" => PinsKept(job),
           answer = "verified" => job.kind # "compile_debug",
           answer = "built" /\ job.kind # "compile" =>
               job.kind = "compile_debug" /\ job.debug = job.expected,
           answer = "drift" => job.kind = "compile_debug" /\ job.expected # job.release,
           answer \in {"verified", "built", "drift"} /\ job.kind # "compile" =>
               OfItsDisk(job) /\ OfItsSources(job)
    PROVE  /\ Reply(job, answer) \in JobSet
           /\ JobOK(Reply(job, answer))
           /\ Follows(job, Reply(job, answer))
<1>1. CASE job.kind = "compile"
    <2>1. Reply(job, answer) = Idle
        BY <1>1 DEF Reply
    <2> QED BY <1>1, <2>1, IdleOK DEF Follows, Working, Live
<1>2. CASE job.kind # "compile" /\ answer \in {"verified", "built", "drift"}
    <2> DEFINE new == [job EXCEPT !.pc = "answered", !.answer = answer]
    <2>1. Reply(job, answer) = new
        BY <1>2 DEF Reply
    <2>2. /\ new \in JobSet
          /\ new.pc = "answered" /\ new.answer = answer /\ new.kind = job.kind
          /\ new.project = job.project /\ new.expected = job.expected /\ new.disk = job.disk
          /\ new.release = job.release /\ new.debug = job.debug /\ new.files = job.files
          /\ new.unread = job.unread
        BY DEF JobSet
    <2> HIDE DEF new
    <2>3. PinsKept(new) /\ OfItsDisk(new) /\ OfItsSources(new)
        BY <1>2, <2>2 DEF PinsKept, OfItsDisk, OfItsSources
    <2>4. job.kind \in {"verify_account", "verify_note", "compile_debug"}
        BY <1>2 DEF JobSet, Kinds
    <2>5. JobOK(new)
        BY <1>2, <2>2, <2>3, <2>4 DEF JobOK
    <2>6. Follows(job, new)
        BY <2>2 DEF Follows, Working, Live
    <2> QED BY <2>1, <2>2, <2>5, <2>6
<1>3. CASE job.kind # "compile" /\ answer \notin {"verified", "built", "drift"}
    <2> DEFINE new == [Idle EXCEPT !.pc = "answered", !.answer = answer]
    <2>1. Reply(job, answer) = new
        BY <1>3 DEF Reply
    <2>2. new \in JobSet /\ JobOK(new) /\ ~Live(new) /\ new.pc = "answered"
        BY <1>3, RefusedOK
    <2> HIDE DEF new
    <2>3. Follows(job, new)
        BY <2>2 DEF Follows, Working, Live
    <2> QED BY <2>1, <2>2, <2>3
<1> QED BY <1>1, <1>2, <1>3

\* A build that has ended well, with its debug build or without.
LEMMA DoneOK ==
    ASSUME NEW job \in JobSet,
           job.pc \in {"cargo", "read", "compare"},
           job.kind # "compile" => PinsKept(job) /\ OfItsDisk(job) /\ OfItsSources(job),
           job.kind = "compile_debug" => job.expected = job.release
    PROVE  /\ Done(job) \in JobSet
           /\ JobOK(Done(job))
           /\ Follows(job, Done(job))
<1>0. Live(job) /\ job.pc # "answered"
    BY DEF Live
<1>1. CASE job.kind = "compile"
    <2>1. Done(job) = Reply(job, "failed")
        BY <1>1 DEF Done, Reply
    <2> QED BY <1>0, <1>1, <2>1, ReplyOK DEF Answers
<1>2. CASE job.kind = "compile_debug"
    <2>1. CASE job.debug = NoPackage
        <3>1. Done(job) = Reply(job, "no_debug")
            BY <1>2, <2>1 DEF Done
        <3> QED BY <1>0, <1>2, <3>1, ReplyOK DEF Answers
    <2>2. CASE job.debug # NoPackage
        <3>1. Done(job) = Reply(job, "built")
            BY <1>2, <2>2 DEF Done
        <3>2. job.debug = job.expected
            BY <1>2, <2>2 DEF OfItsSources
        <3> QED BY <1>0, <1>2, <3>1, <3>2, ReplyOK DEF Answers
    <2> QED BY <2>1, <2>2
<1>3. CASE job.kind # "compile" /\ job.kind # "compile_debug"
    <2> DEFINE new == [job EXCEPT !.pc = "verifier"]
    <2>1. Done(job) = new
        BY <1>3 DEF Done
    <2>2. /\ new \in JobSet
          /\ new.pc = "verifier" /\ new.kind = job.kind
          /\ new.project = job.project /\ new.expected = job.expected /\ new.disk = job.disk
          /\ new.release = job.release /\ new.debug = job.debug /\ new.files = job.files
          /\ new.unread = job.unread
        BY DEF JobSet
    <2> HIDE DEF new
    <2>3. PinsKept(new) /\ OfItsDisk(new) /\ OfItsSources(new)
        BY <1>3, <2>2 DEF PinsKept, OfItsDisk, OfItsSources
    <2>4. new.kind \in {"verify_account", "verify_note"}
        BY <1>3, <2>2 DEF JobSet, Kinds
    <2>5. JobOK(new)
        BY <2>2, <2>3, <2>4 DEF JobOK
    <2>6. Follows(job, new)
        BY <1>0, <2>2 DEF Follows, Working
    <2> QED BY <2>1, <2>2, <2>5, <2>6
<1> QED BY <1>1, <1>2, <1>3, IdleOK DEF JobSet, Kinds

-----------------------------------------------------------------------------
(* One lemma for every step of a job.                                      *)

\* What a step of j does, seen from its job alone.
StepOf(j) ==
    \E new \in JobSet :
        /\ Set(j, new)
        /\ JobOK(new)
        /\ Follows(jobs[j], new)

LEMMA CargoBuildsStep ==
    ASSUME NEW j \in Jobs, jobs[j] \in JobSet, JobOK(jobs[j]), CargoBuilds(j)
    PROVE  StepOf(j)
<1> DEFINE job == jobs[j]
           package == [crate |-> job.project.crate, lock |-> Resolved(job)]
<1>0. job \in JobSet /\ JobOK(job) /\ job.pc = "cargo" /\ Live(job)
    BY DEF CargoBuilds, Live
<1>1. Resolved(job) \in Locks /\ Resolved(job) # "absent"
      /\ (job.disk # "absent" => Resolved(job) = job.disk)
    BY <1>0 DEF Resolved, Locks, JobSet
<1>2. package \in Kept /\ package.crate = job.project.crate /\ package.lock = Resolved(job)
    BY <1>0, <1>1 DEF Kept, JobSet
<1>3. CASE job.profile = "release"
    <2> DEFINE new == [job EXCEPT !.pc = "read", !.attempt = "offline", !.disk = package.lock,
                                  !.release = package]
    <2>1. Set(j, new)
        BY <1>3 DEF CargoBuilds
    <2>2. /\ new \in JobSet
          /\ new.pc = "read" /\ new.kind = job.kind /\ new.profile = "release"
          /\ new.project = job.project /\ new.expected = job.expected /\ new.disk = Resolved(job)
          /\ new.release = package /\ new.debug = job.debug
        BY <1>0, <1>1, <1>2, <1>3 DEF JobSet, Working
    <2> HIDE DEF new
    <2>3. Live(new) /\ ~IsRead(new)
        BY <2>2 DEF Live, IsRead
    <2>4. OfItsDisk(new) /\ new.debug = NoPackage
        BY <1>0, <1>1, <1>3, <2>2 DEF OfItsDisk, JobOK
    <2>5. new.kind # "compile" => PinsKept(new)
        BY <1>0, <1>1, <2>2 DEF PinsKept, JobOK
    <2>6. JobOK(new)
        BY <2>2, <2>3, <2>4, <2>5 DEF JobOK
    <2>7. Follows(job, new)
        BY <1>0, <2>2 DEF Follows, Working
    <2> QED BY <2>1, <2>2, <2>6, <2>7 DEF StepOf
<1>4. CASE job.profile # "release"
    <2> DEFINE new == [job EXCEPT !.pc = "compare", !.attempt = "offline", !.debug = package]
    <2>1. Set(j, new)
        BY <1>4 DEF CargoBuilds
    <2>2. /\ new \in JobSet
          /\ new.pc = "compare" /\ new.kind = job.kind /\ new.profile = "debug"
          /\ new.project = job.project /\ new.expected = job.expected /\ new.disk = job.disk
          /\ new.release = job.release /\ new.debug = package /\ new.files = job.files
          /\ new.unread = job.unread
        BY <1>0, <1>1, <1>2, <1>4 DEF JobSet, Working
    <2> HIDE DEF new
    <2>3. OfItsDisk(job) /\ OfItsSources(job)
        BY <1>0, <1>4 DEF JobOK, IsBuilt, IsRead, JobSet
    <2>4. OfItsDisk(new) /\ OfItsSources(new)
        BY <1>1, <2>2, <2>3 DEF OfItsDisk, OfItsSources
    <2>5. new.kind # "compile" => PinsKept(new)
        BY <1>0, <2>2 DEF PinsKept, JobOK
    <2>6. new.kind = "compile_debug" => new.expected = new.release
        BY <1>0, <1>4, <2>2 DEF JobOK, JobSet
    <2>7. JobOK(new)
        BY <2>2, <2>4, <2>5, <2>6 DEF JobOK
    <2>8. Follows(job, new)
        BY <1>0, <2>2 DEF Follows, Working
    <2> QED BY <2>1, <2>2, <2>7, <2>8 DEF StepOf
<1> QED BY <1>3, <1>4

\* A failed attempt writes the lockfile that the next one would resolve, or
\* none; the one that is there it leaves alone.
LEMMA FailsOfflineStep ==
    ASSUME NEW j \in Jobs, jobs[j] \in JobSet, JobOK(jobs[j]), FailsOffline(j)
    PROVE  StepOf(j)
<1> DEFINE job == jobs[j]
<1>0. job \in JobSet /\ JobOK(job) /\ job.pc = "cargo" /\ Live(job)
    BY DEF FailsOffline, Live
<1>1. PICK disk \in {job.disk, Resolved(job)} :
        Set(j, IF job.attempt = "offline" /\ job.profile = "release" /\ WarmLockfile(job.kind)
               THEN [job EXCEPT !.pc = "update", !.disk = disk]
               ELSE [job EXCEPT !.attempt = "online", !.disk = disk])
    BY DEF FailsOffline
<1>2. disk \in Locks /\ (job.disk # "absent" => disk = job.disk)
    BY <1>0 DEF Resolved, Locks, JobSet
<1>3. CASE job.attempt = "offline" /\ job.profile = "release" /\ WarmLockfile(job.kind)
    <2> DEFINE new == [job EXCEPT !.pc = "update", !.disk = disk]
    <2>1. Set(j, new)
        BY <1>1, <1>3
    <2>2. /\ new \in JobSet
          /\ new.pc = "update" /\ new.kind = "compile" /\ new.profile = "release"
          /\ new.project = job.project /\ new.expected = job.expected /\ new.debug = NoPackage
        BY <1>0, <1>2, <1>3 DEF JobSet, Working, WarmLockfile, JobOK
    <2> HIDE DEF new
    <2>3. JobOK(new)
        BY <2>2 DEF JobOK, IsBuilt, IsRead
    <2>4. Follows(job, new)
        BY <1>0, <1>3, <2>2 DEF Follows, Working, WarmLockfile
    <2> QED BY <2>1, <2>2, <2>3, <2>4 DEF StepOf
<1>4. CASE ~(job.attempt = "offline" /\ job.profile = "release" /\ WarmLockfile(job.kind))
    <2> DEFINE new == [job EXCEPT !.attempt = "online", !.disk = disk]
    <2>1. Set(j, new)
        BY <1>1, <1>4
    <2>2. /\ new \in JobSet
          /\ new.pc = "cargo" /\ new.kind = job.kind /\ new.profile = job.profile
          /\ new.project = job.project /\ new.expected = job.expected /\ new.disk = disk
          /\ new.release = job.release /\ new.debug = job.debug /\ new.files = job.files
          /\ new.unread = job.unread
        BY <1>0, <1>2 DEF JobSet
    <2> HIDE DEF new
    <2>3. new.kind # "compile" => PinsKept(new)
        BY <1>0, <1>2, <2>2 DEF PinsKept, JobOK
    <2>4. new.profile = "debug" => OfItsDisk(new) /\ OfItsSources(new)
        <3>1. new.profile = "debug" => OfItsDisk(job) /\ OfItsSources(job)
            BY <1>0, <2>2 DEF JobOK, IsBuilt, IsRead
        <3> QED BY <1>2, <2>2, <3>1 DEF OfItsDisk, OfItsSources
    <2>5. IsBuilt(new) => new.profile = "debug"
        BY <2>2 DEF IsBuilt
    <2>6. JobOK(new)
        BY <1>0, <2>2, <2>3, <2>4, <2>5 DEF JobOK, IsRead
    <2>7. Follows(job, new)
        BY <1>0, <2>2 DEF Follows, Working
    <2> QED BY <2>1, <2>2, <2>6, <2>7 DEF StepOf
<1> QED BY <1>3, <1>4

\* Only another client's build takes the warm lockfile for its own.
LEMMA UpdateOfflineStep ==
    ASSUME NEW j \in Jobs, jobs[j] \in JobSet, JobOK(jobs[j]), UpdateOffline(j)
    PROVE  StepOf(j)
<1> DEFINE job == jobs[j]
<1>0. /\ job \in JobSet /\ JobOK(job) /\ job.pc = "update" /\ Live(job)
      /\ job.kind = "compile" /\ job.profile = "release" /\ job.debug = NoPackage
    BY DEF UpdateOffline, Live, JobOK
<1>1. PICK attempt \in {"updated", "online"}, disk \in {"warm", job.disk} :
        Set(j, [job EXCEPT !.pc = "cargo", !.attempt = attempt, !.disk = disk])
    <2>1. CASE Set(j, [job EXCEPT !.pc = "cargo", !.attempt = "updated", !.disk = "warm"])
        BY <2>1
    <2>2. CASE Set(j, [job EXCEPT !.pc = "cargo", !.attempt = "online"])
        <3>1. [job EXCEPT !.pc = "cargo", !.attempt = "online"]
              = [job EXCEPT !.pc = "cargo", !.attempt = "online", !.disk = job.disk]
            BY <1>0 DEF JobSet
        <3> QED BY <2>2, <3>1
    <2> QED BY <2>1, <2>2 DEF UpdateOffline
<1> DEFINE new == [job EXCEPT !.pc = "cargo", !.attempt = attempt, !.disk = disk]
<1>2. /\ new \in JobSet
      /\ new.pc = "cargo" /\ new.kind = "compile" /\ new.profile = "release"
      /\ new.project = job.project /\ new.expected = job.expected /\ new.debug = NoPackage
    BY <1>0 DEF JobSet, Working, Locks
<1> HIDE DEF new
<1>3. JobOK(new)
    BY <1>2 DEF JobOK, IsBuilt, IsRead
<1>4. Follows(job, new)
    BY <1>0, <1>2 DEF Follows, Working
<1> QED BY <1>1, <1>2, <1>3, <1>4 DEF StepOf, new

LEMMA CargoFailsStep ==
    ASSUME NEW j \in Jobs, jobs[j] \in JobSet, JobOK(jobs[j]), CargoFails(j)
    PROVE  StepOf(j)
<1> DEFINE job == jobs[j]
<1>0. job \in JobSet /\ JobOK(job) /\ job.pc = "cargo" /\ Live(job)
    BY DEF CargoFails, Live
<1>1. job.kind # "compile" => PinsKept(job)
    BY <1>0 DEF JobOK
<1>2. CASE job.profile = "release"
    <2>1. Set(j, Reply(job, "refused"))
        BY <1>2, AnsweredSets DEF CargoFails
    <2> QED BY <1>0, <1>1, <2>1, ReplyOK DEF StepOf, Answers
<1>3. CASE job.profile # "release"
    <2>1. Set(j, Done(job))
        BY <1>3, FinishedSets DEF CargoFails
    <2>2. OfItsDisk(job) /\ OfItsSources(job)
        BY <1>0, <1>3 DEF JobOK, IsBuilt, IsRead, JobSet
    <2>3. job.kind = "compile_debug" => job.expected = job.release
        BY <1>0, <1>3 DEF JobOK, JobSet
    <2> QED BY <1>0, <1>1, <2>1, <2>2, <2>3, DoneOK DEF StepOf
<1> QED BY <1>2, <1>3

LEMMA CompareDebugStep ==
    ASSUME NEW j \in Jobs, jobs[j] \in JobSet, JobOK(jobs[j]), CompareDebug(j)
    PROVE  StepOf(j)
<1> DEFINE job == jobs[j]
           without == [job EXCEPT !.debug = NoPackage]
<1>0. job \in JobSet /\ JobOK(job) /\ job.pc = "compare" /\ Live(job)
    BY DEF CompareDebug, Live
<1>1. /\ job.kind # "compile" => PinsKept(job)
      /\ OfItsDisk(job) /\ OfItsSources(job)
      /\ job.kind = "compile_debug" => job.expected = job.release
    BY <1>0 DEF JobOK, IsBuilt, IsRead
<1>2. CASE Finished(j, job)
    <2>1. Set(j, Done(job))
        BY <1>2, FinishedSets
    <2> QED BY <1>0, <1>1, <2>1, DoneOK DEF StepOf
<1>3. CASE Finished(j, without)
    <2>1. Set(j, Done(without))
        BY <1>3, FinishedSets
    <2>2. /\ without \in JobSet
          /\ without.pc = "compare" /\ without.kind = job.kind
          /\ without.project = job.project /\ without.expected = job.expected
          /\ without.disk = job.disk /\ without.release = job.release
          /\ without.debug = NoPackage /\ without.files = job.files
          /\ without.unread = job.unread
        BY <1>0, NoPackageKept DEF JobSet
    <2> HIDE DEF without
    <2>3. /\ without.kind # "compile" => PinsKept(without)
          /\ OfItsDisk(without) /\ OfItsSources(without)
        BY <1>1, <2>2 DEF PinsKept, OfItsDisk, OfItsSources
    <2>4. Done(without) \in JobSet /\ JobOK(Done(without)) /\ Follows(without, Done(without))
        BY <1>1, <2>2, <2>3, DoneOK
    <2>5. Follows(job, Done(without))
        BY <1>0, <2>2, <2>4 DEF Follows, Live, Working
    <2> QED BY <2>1, <2>4, <2>5 DEF StepOf
<1> QED BY <1>2, <1>3 DEF CompareDebug

LEMMA VerifierEndsStep ==
    ASSUME NEW j \in Jobs, jobs[j] \in JobSet, JobOK(jobs[j]), VerifierEnds(j)
    PROVE  StepOf(j)
<1> DEFINE job == jobs[j]
<1>0. job \in JobSet /\ JobOK(job) /\ job.pc = "verifier" /\ Live(job)
    BY DEF VerifierEnds, Live
<1>1. PICK answer \in {"verified", "not_verified", "refused", "unreachable"} : Answered(j, job, answer)
    BY DEF VerifierEnds
<1>2. Set(j, Reply(job, answer)) /\ answer \in Answers
    BY <1>1, AnsweredSets DEF Answers
<1>3. job.kind \in {"verify_account", "verify_note"} /\ PinsKept(job) /\ OfItsDisk(job) /\ OfItsSources(job)
    BY <1>0 DEF JobOK, IsBuilt, IsRead
<1>4. Reply(job, answer) \in JobSet /\ JobOK(Reply(job, answer)) /\ Follows(job, Reply(job, answer))
    BY <1>0, <1>2, <1>3, ReplyOK
<1> QED BY <1>2, <1>4 DEF StepOf

LEMMA AbandonedEndsStep ==
    ASSUME NEW j \in Jobs, jobs[j] \in JobSet, JobOK(jobs[j]), AbandonedEnds(j)
    PROVE  StepOf(j)
<1>1. jobs[j].pc = "abandoned" /\ Set(j, Idle)
    BY DEF AbandonedEnds
<1>2. Follows(jobs[j], Idle)
    BY <1>1, IdleOK DEF Follows, Working
<1> QED BY <1>1, <1>2, IdleOK DEF StepOf

\* The package is read, and the build that was expected is told from another.
LEMMA ReadPackageStep ==
    ASSUME NEW j \in Jobs, jobs[j] \in JobSet, JobOK(jobs[j]), ReadPackage(j)
    PROVE  StepOf(j)
<1> DEFINE old == jobs[j]
<1>0. /\ old \in JobSet /\ JobOK(old) /\ old.pc = "read" /\ Live(old)
      /\ old.profile = "release" /\ old.debug = NoPackage
      /\ OfItsDisk(old) /\ (old.kind # "compile" => PinsKept(old))
    BY DEF ReadPackage, Live, JobOK, IsBuilt
<1>1. CASE Answered(j, old, "failed")
    <2>1. Set(j, Reply(old, "failed"))
        BY <1>1, AnsweredSets
    <2> QED BY <1>0, <2>1, ReplyOK DEF StepOf, Answers
<1>2. ASSUME NEW unread \in BOOLEAN,
             LET job == [old EXCEPT !.files = Files(old, unread), !.unread = unread] IN
             CASE job.kind = "compile_debug" /\ job.expected # job.release -> Answered(j, job, "drift")
               [] ~WantsDebug(job.kind) -> Finished(j, job)
               [] OTHER -> Set(j, [job EXCEPT !.pc = "cargo", !.profile = "debug", !.attempt = "offline"])
      PROVE  StepOf(j)
    <2> DEFINE job == [old EXCEPT !.files = Files(old, unread), !.unread = unread]
    <2>1. /\ Files(old, unread) \in Kept
          /\ Files(old, unread).crate = old.project.crate
          /\ ~unread => Files(old, unread).lock = old.disk
        BY <1>0 DEF Files, Kept, JobSet
    <2>2. /\ job \in JobSet
          /\ job.pc = "read" /\ job.kind = old.kind /\ job.project = old.project
          /\ job.expected = old.expected /\ job.disk = old.disk /\ job.release = old.release
          /\ job.debug = NoPackage /\ job.files = Files(old, unread) /\ job.unread = unread
        BY <1>0, <2>1 DEF JobSet
    <2>3. /\ job.kind # "compile" => PinsKept(job)
          /\ OfItsDisk(job) /\ OfItsSources(job)
        BY <1>0, <2>1, <2>2 DEF PinsKept, OfItsDisk, OfItsSources
    <2>4. \A new : Follows(job, new) => Follows(old, new)
        BY <1>0, <2>2 DEF Follows, Live
    <2>5. CASE job.kind = "compile_debug" /\ job.expected # job.release
        <3>1. Answered(j, job, "drift")
            BY <1>2, <2>5, Zenon DEF WantsDebug
        <3> HIDE DEF job
        <3>2. Set(j, Reply(job, "drift"))
            BY <3>1, AnsweredSets
        <3>3. Reply(job, "drift") \in JobSet /\ JobOK(Reply(job, "drift")) /\ Follows(job, Reply(job, "drift"))
            BY <2>2, <2>3, <2>5, ReplyOK DEF Answers, Live
        <3> QED BY <2>4, <3>2, <3>3 DEF StepOf
    <2>6. CASE ~(job.kind = "compile_debug" /\ job.expected # job.release) /\ ~WantsDebug(job.kind)
        <3>1. Finished(j, job)
            BY <1>2, <2>6, Zenon
        <3> HIDE DEF job
        <3>2. Set(j, Done(job))
            BY <3>1, FinishedSets
        <3>3. Done(job) \in JobSet /\ JobOK(Done(job)) /\ Follows(job, Done(job))
            BY <2>2, <2>3, <2>6, DoneOK
        <3> QED BY <2>4, <3>2, <3>3 DEF StepOf
    <2>7. CASE ~(job.kind = "compile_debug" /\ job.expected # job.release) /\ WantsDebug(job.kind)
        <3> DEFINE new == [job EXCEPT !.pc = "cargo", !.profile = "debug", !.attempt = "offline"]
        <3>1. Set(j, new)
            BY <1>2, <2>7, Zenon
        <3> HIDE DEF job
        <3>2. /\ new \in JobSet
              /\ new.pc = "cargo" /\ new.profile = "debug" /\ new.kind = job.kind
              /\ new.project = job.project /\ new.expected = job.expected /\ new.disk = job.disk
              /\ new.release = job.release /\ new.debug = job.debug /\ new.files = job.files
              /\ new.unread = job.unread
            BY <2>2 DEF JobSet, Working
        <3> HIDE DEF new
        <3>3. /\ new.kind # "compile" => PinsKept(new)
              /\ OfItsDisk(new) /\ OfItsSources(new)
            BY <2>3, <3>2 DEF PinsKept, OfItsDisk, OfItsSources
        <3>4. new.kind = "compile_debug" => new.expected = new.release
            BY <2>7, <3>2
        <3>5. JobOK(new)
            BY <3>2, <3>3, <3>4 DEF JobOK
        <3>6. Follows(job, new)
            BY <2>2, <3>2 DEF Follows, Working, Live
        <3> QED BY <2>4, <3>1, <3>2, <3>5, <3>6 DEF StepOf
    <2> QED BY <2>5, <2>6, <2>7
<1> QED BY <1>1, <1>2 DEF ReadPackage

LEMMA JobSteps ==
    ASSUME NEW j \in Jobs, jobs[j] \in JobSet, JobOK(jobs[j]), JobStep(j)
    PROVE  StepOf(j)
BY CargoBuildsStep, FailsOfflineStep, UpdateOfflineStep, CargoFailsStep, AbandonedEndsStep,
   ReadPackageStep, CompareDebugStep, VerifierEndsStep DEF JobStep

-----------------------------------------------------------------------------
(* The table of jobs: how many build, and that all of them are well.       *)

LEMMA BuildingFinite ==
    IsFiniteSet(Building) /\ Cardinality(Building) \in Nat
BY RequestAssumption, FS_Subset, FS_CardinalityType DEF Building

LEMMA NoMoreBuild ==
    ASSUME Cardinality(Building) <= Taken, Building' \subseteq Building
    PROVE  Cardinality(Building') <= Taken
<1>1. /\ IsFiniteSet(Building') /\ Cardinality(Building') \in Nat
      /\ Cardinality(Building') <= Cardinality(Building)
    BY BuildingFinite, FS_Subset, FS_CardinalityType
<1> QED BY <1>1, BuildingFinite, RequestAssumption

LEMMA OneMoreBuilds ==
    ASSUME NEW j, Cardinality(Building) < Taken, Building' \subseteq Building \cup {j}
    PROVE  Cardinality(Building') <= Taken
<1>1. /\ IsFiniteSet(Building \cup {j})
      /\ Cardinality(Building \cup {j}) <= Cardinality(Building) + 1
      /\ Cardinality(Building \cup {j}) \in Nat
    <2>1. /\ IsFiniteSet(Building \cup {j})
          /\ Cardinality(Building \cup {j}) =
               IF j \in Building THEN Cardinality(Building) ELSE Cardinality(Building) + 1
        BY BuildingFinite, FS_AddElement
    <2> QED BY <2>1, BuildingFinite
<1>2. /\ Cardinality(Building') <= Cardinality(Building \cup {j})
      /\ Cardinality(Building') \in Nat
    BY <1>1, FS_Subset, FS_CardinalityType
<1> QED BY <1>1, <1>2, BuildingFinite, RequestAssumption

\* One job changes, and does not start to work.
LEMMA SetKeepsBuilds ==
    ASSUME BuildsOK, NEW j \in Jobs, NEW new \in JobSet, JobOK(new), Set(j, new),
           new.pc \in Working => jobs[j].pc \in Working
    PROVE  BuildsOK'
<1>1. jobs' \in [Jobs -> JobSet]
    BY DEF BuildsOK, Set
<1>2. \A i \in Jobs : jobs'[i] = IF i = j THEN new ELSE jobs[i]
    BY DEF BuildsOK, Set
<1>3. \A i \in Jobs : JobOK(jobs'[i])
    BY <1>2 DEF BuildsOK
<1>4. Building' \subseteq Building
    BY <1>2 DEF Building
<1> QED BY <1>1, <1>3, <1>4, NoMoreBuild DEF BuildsOK

LEMMA StepKeepsBuilds ==
    ASSUME BuildsOK, NEW j \in Jobs, StepOf(j)
    PROVE  BuildsOK'
<1>1. PICK new \in JobSet : Set(j, new) /\ JobOK(new) /\ Follows(jobs[j], new)
    BY DEF StepOf
<1> QED BY <1>1, SetKeepsBuilds DEF Follows

\* The container takes a job that nobody had, or answers that it is busy.
LEMMA ForwardTakes ==
    ASSUME BuildsOK, NEW j \in Jobs, NEW kind \in Kinds \ {"compile"},
           NEW project \in Projects, NEW expected \in Kept,
           Forward(j, kind, project, expected)
    PROVE  /\ BuildsOK'
           /\ jobs[j].pc = "idle"
           /\ \A i \in Jobs \ {j} : jobs'[i] = jobs[i]
           /\ jobs'[j].pc \in {"cargo", "answered"}
           /\ Live(jobs'[j]) =>
                /\ jobs'[j].kind = kind
                /\ jobs'[j].project = project
                /\ jobs'[j].expected = expected
<1> DEFINE job == [Idle EXCEPT !.kind = kind, !.project = project, !.expected = expected,
                               !.disk = project.lock]
           new == [job EXCEPT !.pc = "cargo"]
<1>1. jobs[j].pc = "idle" /\ jobs \in [Jobs -> JobSet]
    BY DEF Forward, BuildsOK
<1>2. project \in Kept /\ project.lock \in Locks
    BY DEF Kept, Projects
<1>3. job \in JobSet /\ job.kind = kind
    BY <1>2, IdleOK DEF JobSet
<1>4. CASE Cardinality(Building) < Taken
    <2>1. Set(j, new)
        BY <1>4 DEF Forward
    <2>2. /\ new \in JobSet
          /\ new.pc = "cargo" /\ new.profile = "release" /\ new.debug = NoPackage
          /\ new.kind = kind /\ new.project = project /\ new.expected = expected
          /\ new.disk = project.lock
        BY <1>2, IdleOK DEF JobSet, Working, Idle
    <2> HIDE DEF new, job
    <2>3. JobOK(new)
        BY <2>2 DEF JobOK, PinsKept, IsBuilt, IsRead
    <2>4. \A i \in Jobs : jobs'[i] = IF i = j THEN new ELSE jobs[i]
        BY <1>1, <2>1 DEF Set
    <2>5. Building' \subseteq Building \cup {j}
        BY <2>4 DEF Building
    <2>6. jobs' \in [Jobs -> JobSet]
        BY <1>1, <2>1, <2>2 DEF Set
    <2>7. BuildsOK'
        BY <1>4, <2>3, <2>4, <2>5, <2>6, OneMoreBuilds DEF BuildsOK
    <2> QED BY <1>1, <2>2, <2>4, <2>7
<1>5. CASE ~(Cardinality(Building) < Taken)
    <2> DEFINE busy == [Idle EXCEPT !.pc = "answered", !.answer = "busy"]
    <2>1. Answered(j, job, "busy")
        BY <1>5 DEF Forward
    <2>2. Reply(job, "busy") = busy
        BY <1>3 DEF Reply
    <2> HIDE DEF job
    <2>3. Set(j, busy)
        BY <2>1, <2>2, AnsweredSets
    <2>4. busy \in JobSet /\ JobOK(busy) /\ ~Live(busy) /\ busy.pc = "answered"
        BY RefusedOK DEF Answers
    <2> HIDE DEF busy
    <2>5. BuildsOK'
        BY <2>3, <2>4, SetKeepsBuilds DEF Working
    <2>6. \A i \in Jobs : jobs'[i] = IF i = j THEN busy ELSE jobs[i]
        BY <1>1, <2>3 DEF Set
    <2> QED BY <1>1, <2>4, <2>5, <2>6
<1> QED BY <1>4, <1>5

LEMMA FreeKeepsBuilds ==
    ASSUME BuildsOK, NEW j \in Jobs, Set(j, Idle)
    PROVE  BuildsOK' /\ \A i \in Jobs : jobs'[i] = IF i = j THEN Idle ELSE jobs[i]
<1>1. BuildsOK'
    BY IdleOK, SetKeepsBuilds DEF Working
<1> QED BY <1>1 DEF BuildsOK, Set

LEMMA TimeoutKeepsBuilds ==
    ASSUME BuildsOK, NEW j \in Jobs, ProxyTimeout(j)
    PROVE  /\ BuildsOK'
           /\ \A i \in Jobs \ {j} : jobs'[i] = jobs[i]
           /\ ~Live(jobs'[j])
<1> DEFINE left == [Idle EXCEPT !.pc = "abandoned"]
           new == IF jobs[j].pc = "verifier" THEN Idle ELSE left
<1>1. left \in JobSet /\ left.pc = "abandoned"
    BY IdleOK DEF JobSet, Working
<1>2. ~Live(left) /\ JobOK(left)
    BY <1>1 DEF Live, JobOK, IsBuilt, IsRead
<1> HIDE DEF left
<1>3. new \in JobSet /\ JobOK(new) /\ ~Live(new) /\ Set(j, new)
    BY <1>1, <1>2, IdleOK DEF ProxyTimeout, left
<1>4. new.pc \in Working => jobs[j].pc \in Working
    BY IdleOK DEF ProxyTimeout, BuildsOK, JobSet, Working
<1> HIDE DEF new
<1>5. BuildsOK'
    BY <1>3, <1>4, SetKeepsBuilds
<1>6. \A i \in Jobs : jobs'[i] = IF i = j THEN new ELSE jobs[i]
    BY <1>3 DEF BuildsOK, Set
<1> QED BY <1>3, <1>5, <1>6

\* Who had a request on its way is told; the others' jobs are gone.
LEMMA LostKeepsBuilds ==
    ASSUME BuildsOK, ContainerLost
    PROVE  /\ BuildsOK'
           /\ \A j \in Jobs : jobs'[j] = jobs[j] \/ Follows(jobs[j], jobs'[j])
<1> DEFINE failed == [Idle EXCEPT !.pc = "answered", !.answer = "failed"]
           Lost(job) == IF job.pc \in {"idle", "answered"} THEN job
                        ELSE IF job.pc = "abandoned" \/ job.kind = "compile" THEN Idle
                        ELSE failed
<1>1. failed \in JobSet /\ JobOK(failed) /\ ~Live(failed) /\ failed.pc = "answered"
    BY RefusedOK DEF Answers
<1>2. jobs' = [j \in Jobs |-> Lost(jobs[j])]
    BY DEF ContainerLost
<1> HIDE DEF failed
<1>4. \A j \in Jobs : jobs[j] \in JobSet /\ JobOK(jobs[j]) /\ jobs'[j] = Lost(jobs[j])
    BY <1>2 DEF BuildsOK
<1>5. ASSUME NEW j \in Jobs
      PROVE  /\ jobs'[j] \in JobSet /\ JobOK(jobs'[j])
             /\ jobs'[j] = jobs[j] \/ Follows(jobs[j], jobs'[j])
             /\ jobs'[j].pc \in Working => jobs[j].pc \in Working
    BY <1>1, <1>4, IdleOK DEF Follows, Working, Live, JobSet
<1>6. jobs' \in [Jobs -> JobSet]
    BY <1>2, <1>4, <1>5
<1>7. Building' \subseteq Building
    BY <1>5 DEF Building
<1> QED BY <1>5, <1>6, <1>7, NoMoreBuild DEF BuildsOK

-----------------------------------------------------------------------------
(* The form.                                                               *)

LEMMA EntrypointsAreCrates ==
    ASSUME NEW folder \in Folders \cup {NoFolder}
    PROVE  Entrypoints(folder) \subseteq Crates /\ folder.lock \in {"absent", "sent"}
BY RequestAssumption DEF Entrypoints, NoFolder

LEMMA DefaultIsOne ==
    ASSUME NEW folder
    PROVE  DefaultEntrypoint(folder) \in Entrypoints(folder) \cup {"."}
BY DEF DefaultEntrypoint

\* What the steps of the page leave alone while a request is on its way, and
\* what they leave of the alert.
FormKeeps ==
    /\ FormOK'
    /\ form.pc = "sent" => form'.pc = "sent" /\ form'.submission = form.submission
    /\ \/ form'.result = form.result /\ form'.submission = form.submission
       \/ form'.result.status = "none"

\* An edit of one field that is typed as it should be.
LEMMA EditKeeps ==
    ASSUME FormOK, NEW changed \in FormSet, Edit(changed),
           changed.entrypoint \in Entrypoints(changed.folder) \cup {"."},
           changed.pc = form.pc, changed.sends = form.sends,
           changed.submission = form.submission, changed.result = form.result,
           changed.clicks = form.clicks
    PROVE  FormKeeps
<1>1. form' = [changed EXCEPT !.clicks = @ + 1] /\ form.clicks + 1 \in 0..MaxClicks
    BY FormAssumption DEF Edit, FormOK, FormSet
<1>2. /\ form' \in FormSet
      /\ form'.entrypoint = changed.entrypoint /\ form'.folder = changed.folder
      /\ form'.pc = form.pc /\ form'.sends = form.sends
      /\ form'.submission = form.submission /\ form'.result = form.result
    BY <1>1 DEF FormSet
<1> QED BY <1>2 DEF FormKeeps, FormOK

LEMMA FormStepKeeps ==
    ASSUME FormOK, FormStep
    PROVE  FormKeeps
<1>0. form \in FormSet
    BY DEF FormOK
<1>1. CASE EditNetwork
    <2>1. PICK n \in Networks : Edit([form EXCEPT !.network = n])
        BY <1>1 DEF EditNetwork
    <2> DEFINE changed == [form EXCEPT !.network = n]
    <2>2. /\ changed \in FormSet
          /\ changed.entrypoint = form.entrypoint /\ changed.folder = form.folder
          /\ changed.pc = form.pc /\ changed.sends = form.sends
          /\ changed.submission = form.submission /\ changed.result = form.result
          /\ changed.clicks = form.clicks
        BY <1>0 DEF FormSet
    <2> HIDE DEF changed
    <2> QED BY <2>1, <2>2, EditKeeps DEF FormOK, changed
<1>2. CASE EditResource
    <2>1. PICK t \in Typed : Edit([form EXCEPT !.typed = t])
        BY <1>2 DEF EditResource
    <2> DEFINE changed == [form EXCEPT !.typed = t]
    <2>2. /\ changed \in FormSet
          /\ changed.entrypoint = form.entrypoint /\ changed.folder = form.folder
          /\ changed.pc = form.pc /\ changed.sends = form.sends
          /\ changed.submission = form.submission /\ changed.result = form.result
          /\ changed.clicks = form.clicks
        BY <1>0 DEF FormSet
    <2> HIDE DEF changed
    <2> QED BY <2>1, <2>2, EditKeeps DEF FormOK, changed
<1>3. CASE EditEntrypoint
    <2>1. PICK e \in Entrypoints(form.folder) : Edit([form EXCEPT !.entrypoint = e])
        BY <1>3 DEF EditEntrypoint
    <2> DEFINE changed == [form EXCEPT !.entrypoint = e]
    <2>2. e \in Crates
        BY <1>0, EntrypointsAreCrates DEF FormSet
    <2>3. /\ changed \in FormSet
          /\ changed.entrypoint = e /\ changed.folder = form.folder
          /\ changed.pc = form.pc /\ changed.sends = form.sends
          /\ changed.submission = form.submission /\ changed.result = form.result
          /\ changed.clicks = form.clicks
        BY <1>0, <2>2 DEF FormSet
    <2> HIDE DEF changed
    <2> QED BY <2>1, <2>3, EditKeeps DEF changed
<1>4. CASE SelectFolder
    <2>1. PICK f \in Folders : Edit([form EXCEPT !.reading = @ \cup {f}])
        BY <1>4 DEF SelectFolder
    <2> DEFINE changed == [form EXCEPT !.reading = @ \cup {f}]
    <2>2. /\ changed \in FormSet
          /\ changed.entrypoint = form.entrypoint /\ changed.folder = form.folder
          /\ changed.pc = form.pc /\ changed.sends = form.sends
          /\ changed.submission = form.submission /\ changed.result = form.result
          /\ changed.clicks = form.clicks
        BY <1>0 DEF FormSet
    <2> HIDE DEF changed
    <2> QED BY <2>1, <2>2, EditKeeps DEF FormOK, changed
<1>5. CASE ReadingEnds
    <2>1. PICK f \in form.reading :
            \/ form' = [form EXCEPT !.reading = @ \ {f}]
            \/ form' = [form EXCEPT !.reading = @ \ {f}, !.folder = f,
                          !.entrypoint = DefaultEntrypoint(f)]
        BY <1>5 DEF ReadingEnds
    <2>2. f \in Folders
        BY <1>0 DEF FormSet
    <2>3. /\ DefaultEntrypoint(f) \in Entrypoints(f) \cup {"."}
          /\ DefaultEntrypoint(f) \in Crates
        BY <2>2, DefaultIsOne, EntrypointsAreCrates, RequestAssumption
    <2>4. /\ form' \in FormSet
          /\ form'.pc = form.pc /\ form'.sends = form.sends
          /\ form'.submission = form.submission /\ form'.result = form.result
          /\ form'.entrypoint \in Entrypoints(form'.folder) \cup {"."}
        <3>1. CASE form' = [form EXCEPT !.reading = @ \ {f}]
            BY <1>0, <3>1 DEF FormSet, FormOK
        <3>2. CASE form' = [form EXCEPT !.reading = @ \ {f}, !.folder = f,
                              !.entrypoint = DefaultEntrypoint(f)]
            BY <1>0, <2>2, <2>3, <3>2 DEF FormSet
        <3> QED BY <2>1, <3>1, <3>2
    <2> QED BY <2>4 DEF FormKeeps, FormOK
<1>6. CASE Submit
    <2> DEFINE project == [crate |-> form.entrypoint, lock |-> form.folder.lock]
               submission == [network |-> form.network, typed |-> form.typed, project |-> project]
    <2>1. project \in Projects /\ project \in Kept
        BY <1>0, EntrypointsAreCrates DEF FormSet, Projects, Kept, Locks
    <2>2. submission \in Submissions /\ submission.typed = form.typed /\ submission.project = project
        BY <1>0, <2>1 DEF FormSet, Submissions
    <2>3. NoResult \in Results /\ NoResult.status = "none"
        BY FormAssumption DEF NoResult, Results, Typed
    <2>4. form.typed \in Notes \cup Addresses /\ form.pc = "idle"
        BY <1>0, <1>6 DEF Submit, IsFormValid, FormSet, Typed
    <2>5. form.clicks + 1 \in 0..MaxClicks
        BY <1>0, <1>6, FormAssumption DEF Submit, FormSet
    <2>6. form' = [form EXCEPT !.pc = "send", !.clicks = @ + 1, !.result = NoResult,
                     !.submission = submission]
        BY <1>6 DEF Submit
    <2> HIDE DEF submission, project
    <2>7. /\ form' \in FormSet
          /\ form'.pc = "send" /\ form'.sends = form.sends
          /\ form'.submission = submission /\ form'.result = NoResult
          /\ form'.entrypoint = form.entrypoint /\ form'.folder = form.folder
        BY <1>0, <2>2, <2>3, <2>5, <2>6 DEF FormSet
    <2> QED BY <2>1, <2>2, <2>3, <2>4, <2>7, FormAssumption DEF FormKeeps, FormOK
<1>7. CASE CountdownEnds
    <2>1. /\ form' \in FormSet
          /\ form.pc = "countdown" /\ form'.pc = "send" /\ form'.sends = form.sends
          /\ form'.submission = form.submission /\ form'.result = form.result
          /\ form'.entrypoint = form.entrypoint /\ form'.folder = form.folder
        BY <1>0, <1>7 DEF CountdownEnds, FormSet
    <2> QED BY <2>1 DEF FormKeeps, FormOK
<1> QED BY <1>1, <1>2, <1>3, <1>4, <1>5, <1>6, <1>7 DEF FormStep

\* What the form makes of an answer: a success of a verification only.
LEMMA RespondsKeeps ==
    ASSUME FormOK, NEW answer, Responds(answer)
    PROVE  /\ FormOK'
           /\ form.pc = "sent"
           /\ form'.submission = form.submission
           /\ \/ form'.result = form.result
              \/ form'.result.status # "success"
              \/ /\ answer = "verified"
                 /\ form'.result.network = form.submission.network
                 /\ form'.result.typed = form.submission.typed
<1>0. form \in FormSet /\ form.pc = "sent" /\ form.submission \in Submissions
    BY DEF Responds, FormOK, FormSet
<1>1. ASSUME NEW status \in {"success", "warning", "error"}, Shows(status)
      PROVE  /\ FormOK'
             /\ form'.submission = form.submission
             /\ form'.result.status = status
             /\ form'.result.network = form.submission.network
             /\ form'.result.typed = form.submission.typed
    <2>1. /\ Outcome(status) \in Results
          /\ Outcome(status).status = status
          /\ Outcome(status).network = form.submission.network
          /\ Outcome(status).typed = form.submission.typed
        BY <1>0 DEF Outcome, Results, Submissions
    <2>2. 0 \in 0..(MaxBusyRetries + 1)
        BY FormAssumption
    <2>3. form' = [form EXCEPT !.pc = "idle", !.sends = 0, !.result = Outcome(status)]
        BY <1>1 DEF Shows
    <2>4. /\ form' \in FormSet
          /\ form'.pc = "idle" /\ form'.sends = 0
          /\ form'.submission = form.submission /\ form'.result = Outcome(status)
          /\ form'.entrypoint = form.entrypoint /\ form'.folder = form.folder
        BY <1>0, <2>1, <2>2, <2>3 DEF FormSet
    <2> QED BY <1>0, <2>1, <2>4 DEF FormOK
<1>2. CASE answer = "verified"
    <2>1. Shows("success")
        BY <1>2, Zenon DEF Responds
    <2> QED BY <1>0, <1>1, <1>2, <2>1
<1>3. CASE answer = "not_verified"
    <2>1. "not_verified" # "verified" /\ "not_verified" # "busy"
        OBVIOUS
    <2>2. Shows("warning")
        BY <1>3, <2>1, Zenon DEF Responds
    <2>3. FormOK' /\ form'.submission = form.submission /\ form'.result.status = "warning"
        BY <1>1, <2>2
    <2> QED BY <1>0, <2>3
<1>4. CASE answer = "busy" /\ Resends
    <2>1. "busy" # "verified" /\ "busy" # "not_verified"
        OBVIOUS
    <2>2. form' = [form EXCEPT !.pc = "countdown"]
        BY <1>4, <2>1, Zenon DEF Responds
    <2>3. /\ form' \in FormSet
          /\ form'.pc = "countdown" /\ form'.sends = form.sends
          /\ form'.submission = form.submission /\ form'.result = form.result
          /\ form'.entrypoint = form.entrypoint /\ form'.folder = form.folder
        BY <1>0, <2>2 DEF FormSet
    <2> QED BY <1>0, <1>4, <2>3 DEF FormOK, Resends
<1>5. CASE answer # "verified" /\ answer # "not_verified" /\ ~(answer = "busy" /\ Resends)
    <2>1. Shows("error")
        BY <1>5, Zenon DEF Responds
    <2>2. FormOK' /\ form'.submission = form.submission /\ form'.result.status = "error"
        BY <1>1, <2>1
    <2> QED BY <1>0, <2>2
<1> QED BY <1>2, <1>3, <1>4, <1>5

LEMMA SendsKeeps ==
    ASSUME FormOK, Sends
    PROVE  /\ FormOK'
           /\ form.pc = "send" /\ form'.pc = "sent"
           /\ form'.submission = form.submission /\ form'.result = form.result
<1>1. /\ form \in FormSet /\ form.pc = "send" /\ form.sends <= MaxBusyRetries
      /\ form' = [form EXCEPT !.pc = "sent", !.sends = @ + 1]
    BY DEF Sends, FormOK
<1>2. form.sends + 1 \in 0..(MaxBusyRetries + 1)
    BY <1>1, FormAssumption DEF FormSet
<1>3. /\ form' \in FormSet
      /\ form'.pc = "sent" /\ form'.submission = form.submission /\ form'.result = form.result
      /\ form'.entrypoint = form.entrypoint /\ form'.folder = form.folder
    BY <1>1, <1>2 DEF FormSet
<1> QED BY <1>1, <1>3 DEF FormOK

-----------------------------------------------------------------------------
(* Every action keeps IInv.                                                *)

LEMMA IInvInit ==
    RequestInit => IInv
<1> SUFFICES ASSUME RequestInit PROVE IInv
    OBVIOUS
<1> USE DEF RequestInit
<1>1. jobs \in [Jobs -> JobSet] /\ \A j \in Jobs : jobs[j] = Idle
    BY IdleOK DEF JobsInit
<1>2. Building = {}
    BY <1>1, IdleOK DEF Building, Working
<1>3. BuildsOK
    BY <1>1, <1>2, IdleOK, FS_EmptySet, RequestAssumption DEF BuildsOK
<1>4. PICK typed \in Typed :
        form = [network |-> HomeNetwork, typed |-> typed, folder |-> NoFolder, entrypoint |-> ".",
                reading |-> {}, pc |-> "idle", sends |-> 0, submission |-> NoSubmission,
                result |-> NoResult, clicks |-> 0]
    BY DEF FormInit
<1>5. NoSubmission \in Submissions /\ NoResult \in Results /\ NoResult.status = "none"
    BY FormAssumption DEF NoSubmission, NoResult, Submissions, Results, Typed, Kept, Locks
<1>6. 0 \in 0..(MaxBusyRetries + 1) /\ 0 \in 0..MaxClicks /\ HomeNetwork \in Networks
    BY FormAssumption
<1>7. form \in FormSet /\ form.pc = "idle" /\ form.sends = 0 /\ form.entrypoint = "."
      /\ form.result = NoResult
    BY <1>4, <1>5, <1>6, RequestAssumption DEF FormSet
<1>8. FormOK /\ ShownIsOfSubmission
    BY <1>5, <1>7 DEF FormOK, ShownIsOfSubmission
<1>9. script \in ScriptSet /\ script.pc = "off"
    BY RequestAssumption DEF ScriptSet
<1>10. jobOf \in Followed /\ jobOf.form = NoJob /\ jobOf.script = NoJob
    BY DEF Followed
<1>11. OfARow
    BY <1>1, IdleOK DEF OfARow
<1> QED BY <1>3, <1>8, <1>9, <1>10, <1>11
        DEF IInv, RowsOK, ScriptOK, FormFollows, ScriptFollows, ExactInputs

\* Steps of the jobs alone.
LEMMA JobsKeep ==
    ASSUME IInv, BuildsOK',
           \A j \in Jobs : jobs'[j] = jobs[j] \/ Follows(jobs[j], jobs'[j]),
           UNCHANGED <<form, packages, records, script, jobOf>>
    PROVE  IInv'
<1>1. FormOK' /\ RowsOK' /\ (records \subseteq RecordSet)' /\ ScriptOK' /\ (jobOf \in Followed)'
      /\ ExactInputs' /\ ShownIsOfSubmission'
    BY DEF IInv, FormOK, RowsOK, ScriptOK, ExactInputs, ShownIsOfSubmission, Entrypoints
<1>2. FormFollows'
    <2> SUFFICES ASSUME jobOf.form # NoJob PROVE FormFollows'
        BY DEF FormFollows
    <2>1. jobOf.form \in Jobs
        BY DEF IInv, Followed
    <2> QED BY <2>1 DEF IInv, FormFollows, Follows
<1>3. ScriptFollows'
    <2> SUFFICES ASSUME jobOf.script # NoJob PROVE ScriptFollows'
        BY DEF ScriptFollows
    <2>1. jobOf.script \in Jobs /\ Current' = Current
        BY DEF IInv, Followed, Current
    <2> QED BY <2>1 DEF IInv, ScriptFollows, Follows
<1>4. OfARow'
    BY DEF IInv, OfARow, Follows
<1> QED BY <1>1, <1>2, <1>3, <1>4 DEF IInv

LEMMA BuildKeeps ==
    ASSUME IInv, Build
    PROVE  IInv'
<1>1. UNCHANGED <<form, packages, records, script, jobOf>> /\ BuildsOK
    BY DEF Build, IInv
<1>2. CASE ContainerLost
    BY <1>1, <1>2, LostKeepsBuilds, JobsKeep
<1>3. ASSUME NEW j \in Jobs, JobStep(j) PROVE IInv'
    <2>1. StepOf(j)
        BY <1>1, <1>3, JobSteps DEF BuildsOK
    <2>2. \A i \in Jobs : jobs'[i] = jobs[i] \/ Follows(jobs[i], jobs'[i])
        BY <1>1, <2>1 DEF StepOf, Set, BuildsOK
    <2> QED BY <1>1, <2>1, <2>2, StepKeepsBuilds, JobsKeep
<1> QED BY <1>2, <1>3 DEF Build

LEMMA OthersCompileKeeps ==
    ASSUME IInv, OthersCompile
    PROVE  IInv'
<1>1. UNCHANGED <<form, packages, records, script, jobOf>> /\ BuildsOK /\ jobs \in [Jobs -> JobSet]
    BY DEF OthersCompile, IInv, BuildsOK
<1> DEFINE new == [Idle EXCEPT !.kind = "compile", !.disk = "sent", !.pc = "cargo"]
<1>2. PICK j \in Jobs : jobs[j].pc = "idle" /\ Cardinality(Building) < Taken /\ Set(j, new)
    BY DEF OthersCompile
<1>3. /\ new \in JobSet
      /\ new.pc = "cargo" /\ new.profile = "release" /\ new.debug = NoPackage
      /\ new.kind = "compile"
    BY IdleOK DEF JobSet, Working, Idle, Kinds, Locks
<1> HIDE DEF new
<1>4. JobOK(new)
    BY <1>3 DEF JobOK, IsBuilt, IsRead
<1>5. \A i \in Jobs : jobs'[i] = IF i = j THEN new ELSE jobs[i]
    BY <1>1, <1>2 DEF Set
<1>6. BuildsOK'
    <2>1. Building' \subseteq Building \cup {j}
        BY <1>5 DEF Building
    <2>2. jobs' \in [Jobs -> JobSet]
        BY <1>1, <1>2, <1>3 DEF Set
    <2> QED BY <1>1, <1>2, <1>4, <1>5, <2>1, <2>2, OneMoreBuilds DEF BuildsOK
<1>7. FormOK' /\ RowsOK' /\ (records \subseteq RecordSet)' /\ ScriptOK' /\ (jobOf \in Followed)'
      /\ ExactInputs' /\ ShownIsOfSubmission'
    BY <1>1 DEF IInv, FormOK, RowsOK, ScriptOK, ExactInputs, ShownIsOfSubmission, Entrypoints
<1>8. FormFollows'
    <2> SUFFICES ASSUME jobOf.form # NoJob PROVE FormFollows'
        BY <1>1 DEF FormFollows
    <2>1. jobOf.form \in Jobs /\ jobOf.form # j
        BY <1>2 DEF IInv, Followed, FormFollows
    <2> QED BY <1>1, <1>5, <2>1 DEF IInv, FormFollows
<1>9. ScriptFollows'
    <2> SUFFICES ASSUME jobOf.script # NoJob PROVE ScriptFollows'
        BY <1>1 DEF ScriptFollows
    <2>1. jobOf.script \in Jobs /\ jobOf.script # j /\ Current' = Current
        BY <1>1, <1>2 DEF IInv, Followed, ScriptFollows, Current
    <2> QED BY <1>1, <1>5, <2>1 DEF IInv, ScriptFollows
<1>10. OfARow'
    <2> SUFFICES ASSUME NEW i \in Jobs, Live(jobs'[i]), jobs'[i].kind = "compile_debug"
                 PROVE  \E row \in packages' : row.commitment = jobs'[i].expected /\ row.files = jobs'[i].project
        BY DEF OfARow
    <2>1. jobs'[i] = jobs[i]
        BY <1>3, <1>5
    <2> QED BY <1>1, <2>1 DEF IInv, OfARow
<1> QED BY <1>6, <1>7, <1>8, <1>9, <1>10 DEF IInv

LEMMA PageKeeps ==
    ASSUME IInv, Page
    PROVE  IInv'
<1>1. UNCHANGED <<jobs, packages, records, script, jobOf>>
    BY DEF Page
<1>2. FormKeeps
    BY FormStepKeeps DEF Page, IInv
<1>3. BuildsOK' /\ RowsOK' /\ (records \subseteq RecordSet)' /\ ScriptOK' /\ (jobOf \in Followed)'
      /\ ExactInputs' /\ OfARow'
    BY <1>1 DEF IInv, BuildsOK, Building, RowsOK, ScriptOK, ExactInputs, OfARow
<1>4. FormFollows'
    BY <1>1, <1>2 DEF IInv, FormFollows, FormKeeps
<1>5. ScriptFollows'
    BY <1>1 DEF IInv, ScriptFollows, Current
<1>6. ShownIsOfSubmission'
    BY <1>1, <1>2 DEF IInv, ShownIsOfSubmission, FormKeeps
<1> QED BY <1>2, <1>3, <1>4, <1>5, <1>6 DEF IInv, FormKeeps

LEMMA FormSendsKeeps ==
    ASSUME IInv, FormSends
    PROVE  IInv'
<1>1. UNCHANGED <<packages, records, script>> /\ BuildsOK /\ FormOK /\ jobOf \in Followed
    BY DEF FormSends, IInv
<1> DEFINE kind == IF Kind(form.submission.typed) = "note" THEN "verify_note" ELSE "verify_account"
<1>2. PICK j \in Jobs :
        /\ Sends
        /\ Forward(j, kind, form.submission.project, NoPackage)
        /\ jobOf' = [jobOf EXCEPT !.form = j]
    BY DEF FormSends
<1>3. kind \in {"verify_account", "verify_note"} /\ kind \in Kinds \ {"compile"}
    BY DEF Kinds
<1> HIDE DEF kind
<1>4. /\ FormOK'
      /\ form.pc = "send" /\ form'.pc = "sent"
      /\ form'.submission = form.submission /\ form'.result = form.result
    BY <1>1, <1>2, SendsKeeps
<1>5. form.submission.project \in Projects
    BY <1>1, <1>4 DEF FormOK
<1>6. /\ BuildsOK'
      /\ jobs[j].pc = "idle"
      /\ \A i \in Jobs \ {j} : jobs'[i] = jobs[i]
      /\ jobs'[j].pc \in {"cargo", "answered"}
      /\ Live(jobs'[j]) => jobs'[j].kind = kind /\ jobs'[j].project = form.submission.project
    BY <1>1, <1>2, <1>3, <1>5, NoPackageKept, ForwardTakes
<1>7. jobOf' \in Followed /\ jobOf'.form = j /\ jobOf'.script = jobOf.script /\ j # NoJob
    BY <1>1, <1>2, RequestAssumption DEF Followed
<1>8. RowsOK' /\ (records \subseteq RecordSet)' /\ ScriptOK' /\ ExactInputs'
    BY <1>1 DEF IInv, RowsOK, ScriptOK, ExactInputs
<1>9. FormFollows'
    <2>1. jobOf.script # j
        BY <1>6, <1>7 DEF IInv, ScriptFollows
    <2> QED BY <1>3, <1>4, <1>6, <1>7, <2>1 DEF FormFollows
<1>10. ScriptFollows'
    <2> SUFFICES ASSUME jobOf.script # NoJob PROVE ScriptFollows'
        BY <1>7 DEF ScriptFollows
    <2>1. jobOf.script \in Jobs \ {j} /\ Current' = Current
        BY <1>1, <1>6 DEF IInv, Followed, ScriptFollows, Current
    <2> QED BY <1>1, <1>6, <1>7, <2>1 DEF IInv, ScriptFollows
<1>11. OfARow'
    <2> SUFFICES ASSUME NEW i \in Jobs, Live(jobs'[i]), jobs'[i].kind = "compile_debug"
                 PROVE  \E row \in packages' : row.commitment = jobs'[i].expected /\ row.files = jobs'[i].project
        BY DEF OfARow
    <2>1. jobs'[i] = jobs[i]
        BY <1>3, <1>6
    <2> QED BY <1>1, <2>1 DEF IInv, OfARow
<1>12. ShownIsOfSubmission'
    BY <1>1, <1>4 DEF IInv, ShownIsOfSubmission
<1> QED BY <1>4, <1>6, <1>7, <1>8, <1>9, <1>10, <1>11, <1>12 DEF IInv

\* The form's request is over, and its place in the table is free or was left.
LEMMA FormLetsGo ==
    ASSUME IInv, NEW j \in Jobs, j = jobOf.form, j # NoJob,
           BuildsOK', \A i \in Jobs \ {j} : jobs'[i] = jobs[i], ~Live(jobs'[j]),
           FormOK', jobOf' = [jobOf EXCEPT !.form = NoJob], UNCHANGED script,
           \A row \in packages : \E new \in packages' :
               new.commitment = row.commitment /\ new.files = row.files
    PROVE  (jobOf \in Followed)' /\ FormFollows' /\ ScriptFollows' /\ ScriptOK' /\ OfARow'
<1>1. jobOf' \in Followed /\ jobOf'.form = NoJob /\ jobOf'.script = jobOf.script
    BY DEF IInv, Followed
<1>2. ScriptFollows'
    <2> SUFFICES ASSUME jobOf.script # NoJob PROVE ScriptFollows'
        BY <1>1 DEF ScriptFollows
    <2>1. jobOf.script \in Jobs \ {j} /\ Current' = Current
        BY DEF IInv, Followed, FormFollows, Current
    <2> QED BY <1>1, <2>1 DEF IInv, ScriptFollows
<1>3. OfARow'
    <2> SUFFICES ASSUME NEW i \in Jobs, Live(jobs'[i]), jobs'[i].kind = "compile_debug"
                 PROVE  \E row \in packages' : row.commitment = jobs'[i].expected /\ row.files = jobs'[i].project
        BY DEF OfARow
    <2>1. jobs'[i] = jobs[i]
        OBVIOUS
    <2>2. PICK row \in packages : row.commitment = jobs[i].expected /\ row.files = jobs[i].project
        BY <2>1 DEF IInv, OfARow
    <2> QED BY <2>1, <2>2
<1> QED BY <1>1, <1>2, <1>3 DEF FormFollows, IInv, ScriptOK


\* A row that is renewed says the same of what it was built from.
Renews(row, new) ==
    /\ new \in RowSet
    /\ new.commitment = row.commitment /\ new.files = row.files /\ new.unread = row.unread
    /\ new.debug \in {row.debug, row.commitment}

LEMMA RowsRenewed ==
    ASSUME RowsOK, ExactInputs, NEW Renewed, DOMAIN Renewed = packages,
           packages' = {Renewed[p] : p \in packages},
           \A p \in packages : Renews(p, Renewed[p])
    PROVE  /\ RowsOK' /\ ExactInputs'
           /\ \A row \in packages : \E new \in packages' :
                new.commitment = row.commitment /\ new.files = row.files
BY DEF RowsOK, ExactInputs, Renews

LEMMA DebugRenews ==
    ASSUME NEW row \in RowSet
    PROVE  /\ Renews(row, row)
           /\ Renews(row, [row EXCEPT !.debug = row.commitment])
           /\ \A debug \in {NoPackage, row.commitment} : Renews(row, WithDebug(row, debug))
<1>1. Renews(row, row)
    BY DEF Renews
<1>2. [row EXCEPT !.debug = row.commitment] \in RowSet
    BY DEF RowSet
<1>3. Renews(row, [row EXCEPT !.debug = row.commitment])
    BY <1>2 DEF Renews, RowSet
<1>4. ASSUME row.debug = NoPackage PROVE [row EXCEPT !.debug = NoPackage] = row
    BY <1>4 DEF RowSet
<1> QED BY <1>1, <1>3, <1>4 DEF WithDebug

\* A verification that is recorded: the row is of what the job built, and the
\* job is of what was submitted.
LEMMA FormAnsweredKeeps ==
    ASSUME IInv, FormAnswered
    PROVE  IInv'
<1> DEFINE j == jobOf.form
           job == jobs[j]
           record == [network |-> form.submission.network, typed |-> form.submission.typed,
                      commitment |-> job.release]
           row == [commitment |-> job.release, files |-> job.files, debug |-> job.debug,
                   unread |-> job.unread]
<1>1. /\ j # NoJob /\ j \in Jobs
      /\ job.pc = "answered"
      /\ Set(j, Idle) /\ jobOf' = [jobOf EXCEPT !.form = NoJob] /\ UNCHANGED script
      /\ BuildsOK /\ FormOK /\ JobOK(job) /\ job \in JobSet
    BY DEF FormAnswered, IInv, Followed, BuildsOK
<1>2. BuildsOK' /\ (\A i \in Jobs \ {j} : jobs'[i] = jobs[i]) /\ ~Live(jobs'[j])
    BY <1>1, FreeKeepsBuilds, IdleOK
<1>3. CASE UNCHANGED <<records, packages>> /\ \E answer : answer # "verified" /\ Responds(answer)
    <2>1. PICK answer : answer # "verified" /\ Responds(answer)
        BY <1>3
    <2>2. /\ FormOK'
          /\ form'.submission = form.submission
          /\ form'.result = form.result \/ form'.result.status # "success"
        BY <1>1, <2>1, RespondsKeeps
    <2>3. RowsOK' /\ (records \subseteq RecordSet)' /\ ExactInputs'
        BY <1>3 DEF IInv, RowsOK, ExactInputs
    <2>4. (jobOf \in Followed)' /\ FormFollows' /\ ScriptFollows' /\ ScriptOK' /\ OfARow'
        BY <1>1, <1>2, <1>3, <2>2, FormLetsGo
    <2>5. ShownIsOfSubmission'
        BY <1>3, <2>2 DEF IInv, ShownIsOfSubmission
    <2> QED BY <1>2, <2>2, <2>3, <2>4, <2>5 DEF IInv
<1>4. CASE /\ job.answer = "verified"
           /\ records' = records \cup {record}
           /\ packages' = IF RowOf(job.release) = {} THEN packages \cup {row}
                          ELSE {IF p.commitment = job.release THEN WithDebug(p, job.debug) ELSE p :
                                  p \in packages}
           /\ \E answer : Responds(answer)
    <2>1. PICK answer : Responds(answer)
        BY <1>4
    <2>2. /\ FormOK' /\ form.pc = "sent"
          /\ form'.submission = form.submission
          /\ \/ form'.result = form.result
             \/ form'.result.status # "success"
             \/ /\ form'.result.network = form.submission.network
                /\ form'.result.typed = form.submission.typed
        BY <1>1, <2>1, RespondsKeeps
    <2>3. /\ Live(job) /\ job.kind \in {"verify_account", "verify_note"}
          /\ job.project = form.submission.project
        BY <1>1, <1>4 DEF IInv, FormFollows, Live
    <2>4. /\ PinsKept(job) /\ OfItsDisk(job) /\ OfItsSources(job)
        BY <1>1, <2>3 DEF JobOK, IsBuilt, IsRead
    <2>5. /\ job.release \in Packages
          /\ job.release.crate = job.project.crate /\ job.release.lock = job.disk
          /\ job.files \in Projects
        <3>1. job.release.crate = job.project.crate /\ job.release.lock = job.disk
            BY <2>4 DEF OfItsDisk
        <3>2. job.project.crate \in Crates /\ job.disk \in Locks \ {"absent"}
            BY <1>1, <2>4 DEF PinsKept, OfItsDisk, Projects, JobSet
        <3>3. job.release \in Packages
            BY <2>4, <3>2 DEF OfItsDisk, Packages
        <3>4. job.files \in Projects
            BY <1>1, <2>4, <3>2 DEF OfItsSources, JobSet, Kept, Projects
        <3> QED BY <3>1, <3>3, <3>4
    <2>6. /\ record \in RecordSet
          /\ record.network = form.submission.network /\ record.typed = form.submission.typed
          /\ record.commitment = job.release
        BY <1>1, <2>2, <2>5 DEF FormOK, FormSet, Submissions, RecordSet
    <2>7. /\ RowsOK' /\ ExactInputs'
          /\ \A old \in packages : \E new \in packages' :
               new.commitment = old.commitment /\ new.files = old.files
        <3>1. CASE RowOf(job.release) = {}
            <4>1. packages' = packages \cup {row}
                BY <1>4, <3>1
            <4>2. /\ row \in RowSet
                  /\ row.commitment = job.release /\ row.files = job.files
                  /\ row.debug = job.debug /\ row.unread = job.unread
                BY <1>1, <2>4, <2>5 DEF RowSet, OfItsSources, JobSet
            <4>3. \A p \in packages : p.commitment # job.release
                BY <3>1 DEF RowOf
            <4>4. RowsOK'
                BY <4>1, <4>2, <4>3 DEF IInv, RowsOK
            <4>5. ExactInputs'
                BY <2>4, <2>5, <4>1, <4>2 DEF IInv, ExactInputs, OfItsSources
            <4> QED BY <4>1, <4>4, <4>5
        <3>2. CASE RowOf(job.release) # {}
            <4> DEFINE Renewed == [p \in packages |->
                                     IF p.commitment = job.release THEN WithDebug(p, job.debug) ELSE p]
            <4>1. packages' = {Renewed[p] : p \in packages}
                BY <1>4, <3>2
            <4>2. \A p \in packages : Renews(p, Renewed[p])
                BY <2>4, DebugRenews DEF IInv, RowsOK, OfItsSources
            <4> QED BY <4>1, <4>2, RowsRenewed DEF IInv
        <3> QED BY <3>1, <3>2
    <2>8. (records \subseteq RecordSet)'
        BY <1>4, <2>6 DEF IInv
    <2>9. (jobOf \in Followed)' /\ FormFollows' /\ ScriptFollows' /\ ScriptOK' /\ OfARow'
        BY <1>1, <1>2, <2>2, <2>7, FormLetsGo
    <2>10. ShownIsOfSubmission'
        <3>1. records \subseteq records' /\ record \in records'
            BY <1>4
        <3>2. CASE form'.result.network = form.submission.network /\ form'.result.typed = form.submission.typed
            <4>1. /\ record.commitment.crate = form.submission.project.crate
                  /\ form.submission.project.lock = "sent" => record.commitment.lock = "sent"
                BY <2>3, <2>4, <2>5, <2>6 DEF PinsKept
            <4> HIDE DEF record
            <4> QED BY <2>2, <2>6, <3>1, <3>2, <4>1 DEF ShownIsOfSubmission
        <3> HIDE DEF record
        <3> QED BY <2>2, <3>1, <3>2 DEF IInv, ShownIsOfSubmission
    <2> QED BY <1>2, <2>2, <2>7, <2>8, <2>9, <2>10 DEF IInv
<1> QED BY <1>3, <1>4 DEF FormAnswered

LEMMA FormTimesOutKeeps ==
    ASSUME IInv, FormTimesOut
    PROVE  IInv'
<1> DEFINE j == jobOf.form
<1>1. /\ j # NoJob /\ j \in Jobs /\ ProxyTimeout(j) /\ Responds("late")
      /\ jobOf' = [jobOf EXCEPT !.form = NoJob] /\ UNCHANGED <<packages, records, script>>
      /\ BuildsOK /\ FormOK
    BY DEF FormTimesOut, IInv, Followed
<1>2. BuildsOK' /\ (\A i \in Jobs \ {j} : jobs'[i] = jobs[i]) /\ ~Live(jobs'[j])
    BY <1>1, TimeoutKeepsBuilds
<1>3. /\ FormOK'
      /\ form'.submission = form.submission
      /\ form'.result = form.result \/ form'.result.status # "success"
    BY <1>1, RespondsKeeps
<1>4. RowsOK' /\ (records \subseteq RecordSet)' /\ ExactInputs'
    BY <1>1 DEF IInv, RowsOK, ExactInputs
<1>5. (jobOf \in Followed)' /\ FormFollows' /\ ScriptFollows' /\ ScriptOK' /\ OfARow'
    BY <1>1, <1>2, <1>3, FormLetsGo
<1>6. ShownIsOfSubmission'
    BY <1>1, <1>3 DEF IInv, ShownIsOfSubmission
<1> QED BY <1>2, <1>3, <1>4, <1>5, <1>6 DEF IInv

-----------------------------------------------------------------------------
(* The backfill.                                                           *)

\* Steps of the script alone, while it follows no job.
LEMMA ScriptAlone ==
    ASSUME IInv, UNCHANGED <<form, jobs, packages, records, jobOf>>, ScriptOK',
           script.pc # "sent"
    PROVE  IInv'
<1>1. BuildsOK' /\ FormOK' /\ RowsOK' /\ (records \subseteq RecordSet)' /\ (jobOf \in Followed)'
      /\ FormFollows' /\ OfARow' /\ ExactInputs' /\ ShownIsOfSubmission'
    BY DEF IInv, BuildsOK, Building, FormOK, Entrypoints, RowsOK, FormFollows, OfARow,
           ExactInputs, ShownIsOfSubmission
<1>2. ScriptFollows'
    BY DEF IInv, ScriptFollows
<1> QED BY <1>1, <1>2 DEF IInv

LEMMA DropOK ==
    ASSUME ScriptOK, script' = DropCurrent
    PROVE  ScriptOK'
BY DEF ScriptOK, ScriptSet, DropCurrent

LEMMA ScriptListsKeeps ==
    ASSUME IInv, ScriptLists
    PROVE  IInv'
<1> DEFINE listed == {p \in packages :
                        /\ p.debug = NoPackage
                        /\ \E r \in records : r.commitment = p.commitment /\ r.typed \in Addresses}
           list == {row.commitment : row \in listed}
<1>1. script.pc = "off" /\ script' = [script EXCEPT !.pc = "next", !.pending = list]
      /\ UNCHANGED <<form, jobs, packages, records, jobOf>>
    BY DEF ScriptLists
<1>2. list \subseteq Packages
    BY DEF IInv, RowsOK, RowSet
<1> HIDE DEF list
<1>3. ScriptOK'
    BY <1>1, <1>2 DEF IInv, ScriptOK, ScriptSet
<1> QED BY <1>1, <1>3, ScriptAlone

LEMMA ScriptNextKeeps ==
    ASSUME IInv, ScriptNext
    PROVE  IInv'
<1>1. ScriptOK
    BY DEF IInv
<1>2. 0 \in 0..(ScriptRetries + 1) /\ 0 <= ScriptRetries
    BY RequestAssumption
<1>3. CASE script' = [script EXCEPT !.pc = "done"]
    <2>1. ScriptOK'
        BY <1>1, <1>3 DEF ScriptOK, ScriptSet
    <2> QED BY <2>1, ScriptAlone DEF ScriptNext
<1>4. CASE script' = [script EXCEPT !.pc = "send", !.sends = 0]
    <2>1. ScriptOK'
        BY <1>1, <1>2, <1>4 DEF ScriptOK, ScriptSet
    <2> QED BY <2>1, ScriptAlone DEF ScriptNext
<1> QED BY <1>3, <1>4 DEF ScriptNext

LEMMA ScriptWaitsKeeps ==
    ASSUME IInv, ScriptWaits
    PROVE  IInv'
<1>1. ScriptOK'
    BY DEF IInv, ScriptWaits, ScriptOK, ScriptSet
<1> QED BY <1>1, ScriptAlone DEF ScriptWaits

\* What is sent is a row's, as the registry keeps it.
LEMMA ScriptSendsKeeps ==
    ASSUME IInv, ScriptSends
    PROVE  IInv'
<1>1. /\ script.pc = "send" /\ UNCHANGED <<form, packages, records>>
      /\ BuildsOK /\ FormOK /\ RowsOK /\ ScriptOK /\ jobOf \in Followed
    BY DEF ScriptSends, IInv
<1>2. PICK row \in RowOf(Current) :
        \/ script' = DropCurrent /\ UNCHANGED <<jobs, jobOf>>
        \/ \E j \in Jobs :
             /\ Forward(j, "compile_debug", row.files, row.commitment)
             /\ jobOf' = [jobOf EXCEPT !.script = j]
             /\ script' = [script EXCEPT !.pc = "sent", !.sends = @ + 1]
    BY DEF ScriptSends
<1>3. CASE script' = DropCurrent /\ UNCHANGED <<jobs, jobOf>>
    BY <1>1, <1>3, DropOK, ScriptAlone
<1>4. ASSUME NEW j \in Jobs,
             Forward(j, "compile_debug", row.files, row.commitment),
             jobOf' = [jobOf EXCEPT !.script = j],
             script' = [script EXCEPT !.pc = "sent", !.sends = @ + 1]
      PROVE  IInv'
    <2>1. /\ row \in packages /\ row.commitment = Current
          /\ row.files \in Projects /\ row.commitment \in Kept
        BY <1>1 DEF RowOf, RowsOK, RowSet, Packages, Kept
    <2>2. /\ BuildsOK'
          /\ jobs[j].pc = "idle"
          /\ \A i \in Jobs \ {j} : jobs'[i] = jobs[i]
          /\ jobs'[j].pc \in {"cargo", "answered"}
          /\ Live(jobs'[j]) => /\ jobs'[j].kind = "compile_debug"
                               /\ jobs'[j].project = row.files
                               /\ jobs'[j].expected = row.commitment
        <3>1. "compile_debug" \in Kinds \ {"compile"}
            BY DEF Kinds
        <3> QED BY <1>1, <1>4, <2>1, <3>1, ForwardTakes
    <2>3. ScriptOK' /\ script'.pc = "sent" /\ script'.pending = script.pending
        <3>1. script.sends + 1 \in 0..(ScriptRetries + 1)
            BY <1>1, RequestAssumption DEF ScriptOK, ScriptSet
        <3> QED BY <1>1, <1>4, <3>1 DEF ScriptOK, ScriptSet
    <2>4. jobOf' \in Followed /\ jobOf'.script = j /\ jobOf'.form = jobOf.form /\ j # NoJob
        BY <1>1, <1>4, RequestAssumption DEF Followed
    <2>5. FormOK' /\ RowsOK' /\ (records \subseteq RecordSet)' /\ ExactInputs' /\ ShownIsOfSubmission'
        BY <1>1 DEF IInv, FormOK, Entrypoints, RowsOK, ExactInputs, ShownIsOfSubmission
    <2>6. FormFollows'
        <3> SUFFICES ASSUME jobOf.form # NoJob PROVE FormFollows'
            BY <2>4 DEF FormFollows
        <3>1. jobOf.form \in Jobs \ {j}
            BY <2>2 DEF IInv, Followed, FormFollows
        <3> QED BY <1>1, <2>2, <2>4, <3>1 DEF IInv, FormFollows
    <2>7. ScriptFollows'
        <3>1. Current' = Current
            BY <2>3 DEF Current
        <3> QED BY <2>1, <2>2, <2>3, <2>4, <3>1 DEF ScriptFollows
    <2>8. OfARow'
        BY <1>1, <2>1, <2>2 DEF IInv, OfARow
    <2> QED BY <2>2, <2>3, <2>4, <2>5, <2>6, <2>7, <2>8 DEF IInv
<1> QED BY <1>2, <1>3, <1>4

\* The script's request is over.
LEMMA ScriptLetsGo ==
    ASSUME IInv, NEW j \in Jobs, j = jobOf.script, j # NoJob,
           \A i \in Jobs \ {j} : jobs'[i] = jobs[i], ~Live(jobs'[j]),
           jobOf' = [jobOf EXCEPT !.script = NoJob], UNCHANGED <<form, records>>,
           \A row \in packages : \E new \in packages' :
               new.commitment = row.commitment /\ new.files = row.files
    PROVE  (jobOf \in Followed)' /\ FormFollows' /\ ScriptFollows' /\ OfARow'
           /\ FormOK' /\ (records \subseteq RecordSet)' /\ ShownIsOfSubmission'
<1>1. jobOf' \in Followed /\ jobOf'.script = NoJob /\ jobOf'.form = jobOf.form
    BY DEF IInv, Followed
<1>2. FormFollows'
    <2> SUFFICES ASSUME jobOf.form # NoJob PROVE FormFollows'
        BY <1>1 DEF FormFollows
    <2>1. jobOf.form \in Jobs \ {j}
        BY DEF IInv, Followed, FormFollows
    <2> QED BY <1>1, <2>1 DEF IInv, FormFollows
<1>3. OfARow'
    <2> SUFFICES ASSUME NEW i \in Jobs, Live(jobs'[i]), jobs'[i].kind = "compile_debug"
                 PROVE  \E row \in packages' : row.commitment = jobs'[i].expected /\ row.files = jobs'[i].project
        BY DEF OfARow
    <2>1. jobs'[i] = jobs[i]
        OBVIOUS
    <2>2. PICK row \in packages : row.commitment = jobs[i].expected /\ row.files = jobs[i].project
        BY <2>1 DEF IInv, OfARow
    <2> QED BY <2>1, <2>2
<1>4. FormOK' /\ (records \subseteq RecordSet)' /\ ShownIsOfSubmission'
    BY DEF IInv, FormOK, Entrypoints, ShownIsOfSubmission
<1> QED BY <1>1, <1>2, <1>3, <1>4 DEF ScriptFollows

\* A debug build that is stored is of the package it is stored with.
LEMMA ScriptAnsweredKeeps ==
    ASSUME IInv, ScriptAnswered
    PROVE  IInv'
<1> DEFINE j == jobOf.script
           job == jobs[j]
           Renewed == [p \in packages |-> IF job.answer = "built" /\ p.commitment = Current
                                          THEN [p EXCEPT !.debug = job.debug] ELSE p]
<1>1. /\ j # NoJob /\ j \in Jobs
      /\ job.pc = "answered"
      /\ packages' = {Renewed[p] : p \in packages}
      /\ Set(j, Idle) /\ jobOf' = [jobOf EXCEPT !.script = NoJob] /\ UNCHANGED <<form, records>>
      /\ BuildsOK /\ ScriptOK /\ RowsOK /\ JobOK(job)
    BY DEF ScriptAnswered, IInv, Followed, BuildsOK
<1>2. script' = DropCurrent \/ (script.sends <= ScriptRetries /\ script' = [script EXCEPT !.pc = "wait"])
    BY DEF ScriptAnswered
<1>3. BuildsOK' /\ (\A i \in Jobs \ {j} : jobs'[i] = jobs[i]) /\ ~Live(jobs'[j])
    BY <1>1, FreeKeepsBuilds, IdleOK
<1>4. job.answer = "built" => job.debug = Current
    BY <1>1 DEF IInv, ScriptFollows, Live, JobOK
<1>5. \A p \in packages : Renews(p, Renewed[p])
    BY <1>1, <1>4, DebugRenews DEF RowsOK
<1>6. /\ RowsOK' /\ ExactInputs'
      /\ \A row \in packages : \E new \in packages' :
           new.commitment = row.commitment /\ new.files = row.files
    <2> HIDE DEF j
    <2> QED BY <1>1, <1>5, RowsRenewed DEF IInv
<1>7. ScriptOK'
    <2>1. CASE script' = DropCurrent
        BY <1>1, <2>1, DropOK
    <2>2. CASE script.sends <= ScriptRetries /\ script' = [script EXCEPT !.pc = "wait"]
        BY <1>1, <2>2 DEF ScriptOK, ScriptSet
    <2> QED BY <1>2, <2>1, <2>2
<1>8. (jobOf \in Followed)' /\ FormFollows' /\ ScriptFollows' /\ OfARow'
      /\ FormOK' /\ (records \subseteq RecordSet)' /\ ShownIsOfSubmission'
    BY <1>1, <1>3, <1>6, ScriptLetsGo
<1> QED BY <1>3, <1>6, <1>7, <1>8 DEF IInv

LEMMA ScriptTimesOutKeeps ==
    ASSUME IInv, ScriptTimesOut
    PROVE  IInv'
<1> DEFINE j == jobOf.script
<1>1. /\ j # NoJob /\ j \in Jobs /\ ProxyTimeout(j) /\ script' = DropCurrent
      /\ jobOf' = [jobOf EXCEPT !.script = NoJob] /\ UNCHANGED <<form, packages, records>>
      /\ BuildsOK /\ ScriptOK
    BY DEF ScriptTimesOut, IInv, Followed
<1>2. BuildsOK' /\ (\A i \in Jobs \ {j} : jobs'[i] = jobs[i]) /\ ~Live(jobs'[j])
    BY <1>1, TimeoutKeepsBuilds
<1>3. RowsOK' /\ ExactInputs' /\ ScriptOK'
    BY <1>1, DropOK DEF IInv, RowsOK, ExactInputs
<1>4. (jobOf \in Followed)' /\ FormFollows' /\ ScriptFollows' /\ OfARow'
      /\ FormOK' /\ (records \subseteq RecordSet)' /\ ShownIsOfSubmission'
    BY <1>1, <1>2, ScriptLetsGo
<1> QED BY <1>2, <1>3, <1>4 DEF IInv

LEMMA StutterKeeps ==
    ASSUME IInv, UNCHANGED vars
    PROVE  IInv'
<1>1. /\ UNCHANGED <<form, packages, records, script, jobOf>>
      /\ jobs' = jobs
    BY DEF vars
<1>2. BuildsOK'
    BY <1>1 DEF IInv, BuildsOK, Building
<1> QED BY <1>1, <1>2, JobsKeep

-----------------------------------------------------------------------------
(* Theorems.                                                               *)

\* IInv holds in every reachable state: every job is what it says of its own
\* build, and whoever follows it follows the one he asked for.
THEOREM RequestInvariant ==
    RequestSpec => []IInv
<1>1. RequestInit => IInv
    BY IInvInit
<1>2. IInv /\ [RequestNext]_vars => IInv'
    <2> SUFFICES ASSUME IInv, [RequestNext]_vars PROVE IInv'
        OBVIOUS
    <2>1. CASE Build
        BY <2>1, BuildKeeps
    <2>2. CASE Page
        BY <2>2, PageKeeps
    <2>3. CASE FormSends
        BY <2>3, FormSendsKeeps
    <2>4. CASE FormAnswered
        BY <2>4, FormAnsweredKeeps
    <2>5. CASE FormTimesOut
        BY <2>5, FormTimesOutKeeps
    <2>6. CASE Script
        BY <2>6, ScriptListsKeeps, ScriptNextKeeps, ScriptSendsKeeps, ScriptAnsweredKeeps,
           ScriptTimesOutKeeps, ScriptWaitsKeeps DEF Script
    <2>7. CASE OthersCompile
        BY <2>7, OthersCompileKeeps
    <2>8. CASE UNCHANGED vars
        BY <2>8, StutterKeeps
    <2> QED BY <2>1, <2>2, <2>3, <2>4, <2>5, <2>6, <2>7, <2>8 DEF RequestNext
<1> QED BY <1>1, <1>2, PTL DEF RequestSpec

\* The type invariant of the run, and that no more builds are taken than the
\* container takes.
THEOREM TypeCorrect ==
    RequestSpec => []TypeOK
<1>1. IInv => TypeOK
    <2> SUFFICES ASSUME IInv PROVE TypeOK
        OBVIOUS
    <2>1. FormTypeOK
        BY DEF IInv, FormOK, FormSet, Results, FormTypeOK
    <2>2. JobsTypeOK
        <3>1. DOMAIN jobs = Jobs /\ Cardinality(Building) <= Taken
            BY DEF IInv, BuildsOK
        <3>2. ASSUME NEW j \in Jobs
              PROVE  /\ jobs[j].pc \in {"idle", "verifier", "answered"} \cup Working
                     /\ jobs[j].kind \in Kinds
                     /\ \A field \in {"project", "files", "release", "debug", "expected"} :
                          jobs[j][field].crate \in Crates \cup {"none"} /\ jobs[j][field].lock \in Locks
                     /\ jobs[j].disk \in Locks
                     /\ jobs[j].attempt \in {"offline", "updated", "online"}
                     /\ jobs[j].profile \in {"release", "debug"}
                     /\ jobs[j].answer \in Answers
                     /\ jobs[j].unread \in BOOLEAN
            <4>1. jobs[j] \in JobSet
                BY DEF IInv, BuildsOK
            <4>2. /\ jobs[j]["project"] \in Kept /\ jobs[j]["files"] \in Kept
                  /\ jobs[j]["release"] \in Kept /\ jobs[j]["debug"] \in Kept
                  /\ jobs[j]["expected"] \in Kept
                BY <4>1 DEF JobSet
            <4>3. \A k \in Kept : k.crate \in Crates \cup {"none"} /\ k.lock \in Locks
                BY DEF Kept
            <4> QED BY <4>1, <4>2, <4>3 DEF JobSet
        <3> QED BY <3>1, <3>2 DEF JobsTypeOK
    <2>3. /\ \A row \in packages :
              /\ row.commitment \in Packages /\ row.files \in Projects
              /\ row.debug \in Packages \cup {NoPackage} /\ row.unread \in BOOLEAN
              /\ \A other \in packages : other.commitment = row.commitment => other = row
          /\ records \subseteq [network : Networks, typed : Notes \cup Addresses, commitment : Packages]
        BY DEF IInv, RowsOK, RowSet, RecordSet
    <2>4. /\ script.pc \in {"off", "next", "send", "sent", "wait", "done"}
          /\ script.sends \in 0..(ScriptRetries + 1)
        BY DEF IInv, ScriptOK, ScriptSet
    <2>5. jobOf \in [{"form", "script"} -> Jobs \cup {NoJob}]
        BY DEF IInv, Followed
    <2> QED BY <2>1, <2>2, <2>3, <2>4, <2>5 DEF TypeOK
<1> QED BY <1>1, RequestInvariant, PTL

\* A success on the page stands for a record of what was submitted.
THEOREM ShownIsRecorded ==
    RequestSpec => []ShownIsOfSubmission
<1>1. IInv => ShownIsOfSubmission
    BY DEF IInv
<1> QED BY <1>1, RequestInvariant, PTL

\* A stored package's files are what it was built from, and so is its debug
\* build, unless the lockfile could not be read.
THEOREM StoredIsExact ==
    RequestSpec => []ExactInputs
<1>1. IInv => ExactInputs
    BY DEF IInv
<1> QED BY <1>1, RequestInvariant, PTL

\* The backfill finds drift only where the lockfile had not been read: a build
\* again of exact inputs has the pins of its row, hence its commitment.
THEOREM DriftIsOfLostLocks ==
    RequestSpec => []DriftOnlyWhenLockLost
<1>1. IInv => DriftOnlyWhenLockLost
    <2> SUFFICES ASSUME IInv, NEW j \in Jobs, jobs[j].pc = "answered", jobs[j].answer = "drift",
                        NEW row \in RowOf(jobs[j].expected), ~row.unread
                 PROVE  FALSE
        BY DEF DriftOnlyWhenLockLost, IInv, RowsOK, RowSet
    <2> DEFINE job == jobs[j]
    <2>1. JobOK(job) /\ Live(job) /\ job.kind = "compile_debug" /\ job.expected # job.release
        BY DEF IInv, BuildsOK, JobOK, Live
    <2>2. PinsKept(job) /\ OfItsDisk(job)
        BY <2>1 DEF JobOK, IsBuilt
    <2>3. row.commitment = job.expected /\ row.files = job.project /\ row \in RowSet
        BY <2>1 DEF IInv, OfARow, RowsOK, RowOf
    <2>4. row.files.crate = row.commitment.crate /\ row.files.lock = row.commitment.lock
        BY <2>3 DEF IInv, ExactInputs, RowOf
    <2>5. job.disk = row.commitment.lock /\ job.project.crate = row.commitment.crate
        BY <2>2, <2>3, <2>4 DEF PinsKept, RowSet, Packages
    <2>6. row.commitment = [crate |-> row.commitment.crate, lock |-> row.commitment.lock]
        BY <2>3 DEF RowSet, Packages
    <2> QED BY <2>1, <2>2, <2>3, <2>5, <2>6 DEF OfItsDisk
<1> QED BY <1>1, RequestInvariant, PTL
=============================================================================
