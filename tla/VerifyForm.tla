----------------------------- MODULE VerifyForm -----------------------------
(***************************************************************************)
(* The web-verifier's form (verify-form.tsx, import-sources.tsx) and its   *)
(* registry client (lib/api-registry.ts over fetchWhileBusy of             *)
(* packages/utils).  React keeps state; the handler that submits is a      *)
(* closure over one rendering of it, while the fields stay editable.       *)
(***************************************************************************)
EXTENDS Naturals, FiniteSets

CONSTANTS Networks, HomeNetwork,  \* the network the addresses below are of
          Notes, Addresses,       \* what may be typed as a resource id
          Folders,                \* what may be selected
          MaxBusyRetries,         \* of the client
          MaxClicks               \* edits and submissions: a bound

VARIABLE form

Malformed == "malformed"
Typed == Notes \cup Addresses \cup {Malformed}
NoFolder == [crates |-> {}, lock |-> "absent"]

ASSUME FormAssumption ==
    /\ HomeNetwork \in Networks
    /\ Malformed \notin Notes \cup Addresses
    /\ MaxBusyRetries \in Nat /\ MaxClicks \in Nat

Kind(typed) == IF typed \in Notes THEN "note" ELSE "account"

\* selectProjectFiles: the directories with a Cargo.toml, the root left out.
Entrypoints(folder) == folder.crates \ {"."}

\* onImport: the first of them, or the root when there is none.
DefaultEntrypoint(folder) ==
    IF Entrypoints(folder) = {} THEN "." ELSE CHOOSE e \in Entrypoints(folder) : TRUE

NoSubmission == [network |-> HomeNetwork, typed |-> Malformed,
                 project |-> [crate |-> "none", lock |-> "absent"]]
NoResult == [status |-> "none", network |-> HomeNetwork, typed |-> Malformed]

FormTypeOK ==
    /\ form.network \in Networks /\ form.typed \in Typed
    /\ form.folder \in Folders \cup {NoFolder}
    /\ form.entrypoint \in Entrypoints(form.folder) \cup {"."}
    /\ form.reading \subseteq Folders
    /\ form.pc \in {"idle", "send", "sent", "countdown"}
    /\ form.sends \in 0..(MaxBusyRetries + 1)
    /\ form.result.status \in {"none", "success", "warning", "error"}

\* The resource may be seeded from the page's address.
FormInit ==
    \E typed \in Typed :
    form = [network |-> HomeNetwork, typed |-> typed, folder |-> NoFolder, entrypoint |-> ".",
            reading |-> {}, pc |-> "idle", sends |-> 0, submission |-> NoSubmission,
            result |-> NoResult, clicks |-> 0]

-----------------------------------------------------------------------------
(* Variants with one plausible mistake each.                               *)

\* The alert names what the form shows by then.
ShowsTheForm(status) == [status |-> status, network |-> form.network, typed |-> form.typed]

\* The retries are counted from the second.
ResendsOnceMore == form.pc = "sent" /\ form.sends <= MaxBusyRetries + 1

\* The handler has no finally: after an error it still counts as verifying.
StaysVerifying(status) ==
    form' = [form EXCEPT !.pc = IF status = "error" THEN @ ELSE "idle",
                         !.result = ShowsTheForm(status)]

-----------------------------------------------------------------------------
\* Any field, at any time, also while a verification is on its way; the
\* network is the navbar's.
Edit(changed) ==
    /\ form.clicks < MaxClicks
    /\ form' = [changed EXCEPT !.clicks = @ + 1]

EditNetwork == \E n \in Networks \ {form.network} : Edit([form EXCEPT !.network = n])
EditResource == \E t \in Typed \ {form.typed} : Edit([form EXCEPT !.typed = t])
EditEntrypoint ==
    /\ Cardinality(Entrypoints(form.folder)) > 1
    /\ \E e \in Entrypoints(form.folder) \ {form.entrypoint} : Edit([form EXCEPT !.entrypoint = e])

\* collectProjectFiles reads the kept files, which takes its time: selections
\* may end in any order, or fail.  onImport sets the three at once.
SelectFolder == \E f \in Folders \ form.reading : Edit([form EXCEPT !.reading = @ \cup {f}])

ReadingEnds ==
    \E f \in form.reading :
        \/ form' = [form EXCEPT !.reading = @ \ {f}]
        \/ form' = [form EXCEPT !.reading = @ \ {f}, !.folder = f,
                      !.entrypoint = DefaultEntrypoint(f)]

\* parseResourceId, resourceIdError: well-formed, and not an address on some
\* other network.
IsFormValid ==
    /\ form.typed # Malformed
    /\ form.typed \in Addresses => form.network = HomeNetwork
    /\ form.folder # NoFolder

Submit ==
    /\ form.pc = "idle"
    /\ IsFormValid
    /\ form.clicks < MaxClicks
    /\ form' = [form EXCEPT !.pc = "send", !.clicks = @ + 1, !.result = NoResult,
                  !.submission = [network |-> form.network, typed |-> form.typed,
                                  project |-> [crate |-> form.entrypoint, lock |-> form.folder.lock]]]

\* request() of fetchWhileBusy.
Sends == form.pc = "send" /\ form' = [form EXCEPT !.pc = "sent", !.sends = @ + 1]

\* A 503 is waited for and sent again, so many times.
Resends == form.pc = "sent" /\ form.sends <= MaxBusyRetries

\* countdown: no longer than MAX_RETRY_AFTER_SECONDS.
CountdownEnds == form.pc = "countdown" /\ form' = [form EXCEPT !.pc = "send"]

\* The alert, of the closure's resource and network.
Outcome(status) == [status |-> status, network |-> form.submission.network,
                    typed |-> form.submission.typed]

Shows(status) == form' = [form EXCEPT !.pc = "idle", !.sends = 0, !.result = Outcome(status)]

\* What verifyResource makes of the registry's answer.
Responds(answer) ==
    /\ form.pc = "sent"
    /\ CASE answer = "verified" -> Shows("success")
         [] answer = "not_verified" -> Shows("warning")
         [] answer = "busy" /\ Resends -> form' = [form EXCEPT !.pc = "countdown"]
         [] OTHER -> Shows("error")

FormStep == EditNetwork \/ EditResource \/ EditEntrypoint \/ SelectFolder \/ ReadingEnds
            \/ Submit \/ CountdownEnds
=============================================================================
