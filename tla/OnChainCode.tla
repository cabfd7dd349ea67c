----------------------------- MODULE OnChainCode -----------------------------
(***************************************************************************)
(* Three readings of one piece of on-chain code, which have to agree:      *)
(* miden-verifier's (is this package part of it?), miden-import's (which   *)
(* standard components make it up?) and the web viewer's count of the      *)
(* procedures that are accounted for.  An account's code is a set of       *)
(* procedure roots, a note's script one root.                              *)
(***************************************************************************)
EXTENDS Naturals, Sequences, FiniteSets

CONSTANTS Roots,            \* procedure roots
          Standards,        \* the standard components, as sequence of sets of
                            \* roots, in the order both tools try them
          SchemaCommitment, \* the roots of the component only miden-import tries
          StandardNotes,    \* script roots of the standard notes
          MaxExports,       \* procedures a package exports: a bound
          MaxVerified       \* packages verified against one account: a bound

VARIABLE code

ASSUME StandardsAssumption ==
    /\ IsFiniteSet(Roots)
    /\ Standards \in Seq(SUBSET Roots)
    /\ SchemaCommitment \subseteq Roots
    /\ StandardNotes \subseteq Roots
    /\ MaxExports \in Nat /\ MaxVerified \in Nat

\* A package's exported procedures, in the manifest's order.  Only those with
\* the component model's calling convention are installed.
PackageExports == [root : Roots, abi : {"component_model", "internal"}]
Manifests == UNION {[1..n -> PackageExports] : n \in 0..MaxExports}

Installed(package) == SelectSeq(package, LAMBDA e : e.abi = "component_model")
InstalledRoots(package) == {Installed(package)[i].root : i \in DOMAIN Installed(package)}

-----------------------------------------------------------------------------
\* What is left of the procedures after the first k components were tried: a
\* component claims its roots when all of them are still unclaimed.
Unclaimed(procedures, components) ==
    LET left[k \in 0..Len(components)] ==
            IF k = 0 THEN procedures
            ELSE IF components[k] \subseteq left[k - 1] THEN left[k - 1] \ components[k]
            ELSE left[k - 1]
    IN  left

\* standard_account_components: the components detected, with what they claim.
DetectedAmong(procedures, components) ==
    {k \in DOMAIN components : components[k] \subseteq Unclaimed(procedures, components)[k - 1]}

\* Variant with one plausible mistake: the smaller components are tried first.
ImportBackwards ==
    Append([k \in DOMAIN Standards |-> Standards[Len(Standards) + 1 - k]], SchemaCommitment)

\* The schema commitment comes last: upstream's list leaves it out.
ImportOrder == Append(Standards, SchemaCommitment)
Detected(procedures) == DetectedAmong(procedures, ImportOrder)
Claimed(procedures) == UNION {ImportOrder[k] : k \in Detected(procedures)}

\* AccountComponentInterface::from_procedures: whatever no standard component
\* claims is in a Custom or CustomAuth bucket.
HasCustomCode(procedures) == Unclaimed(procedures, Standards)[Len(Standards)] # {}

\* verify_account_component.  A package without installed procedures matches
\* no account.
VerifyAccount(procedures, package) ==
    CASE ~HasCustomCode(procedures) -> "different"
      [] HasCustomCode(procedures) /\ package = <<>> -> "rejected"
      [] OTHER -> IF Installed(package) # <<>> /\ InstalledRoots(package) \subseteq procedures
                  THEN "same" ELSE "different"

\* verify_note_script: the entrypoint is the first installed procedure.
VerifyNote(script, package) ==
    IF /\ script \notin StandardNotes
       /\ Installed(package) # <<>>
       /\ Installed(package)[1].root = script
    THEN "same" ELSE "different"

\* getVerificationStatus, of the account's procedures.
Known(procedures, packages) ==
    procedures \cap (Claimed(procedures) \cup UNION {InstalledRoots(p) : p \in packages})
VerificationStatus(procedures, packages) ==
    [verified |-> Cardinality(Known(procedures, packages)), total |-> Cardinality(procedures)]

-----------------------------------------------------------------------------
CodeInit ==
    \E procedures \in SUBSET Roots \ {{}}, kind \in {"account", "note"} :
        /\ kind = "note" => Cardinality(procedures) = 1
        /\ code = [pc |-> "on_chain", kind |-> kind, procedures |-> procedures,
                   verified |-> {}, status |-> [verified |-> 0, total |-> 0]]

\* One verification, by any client: the registry keeps what matched, one
\* package of a note and any number of an account's.
Verify(package) ==
    LET says == IF code.kind = "account" THEN VerifyAccount(code.procedures, package)
                ELSE VerifyNote(CHOOSE r \in code.procedures : TRUE, package) IN
    /\ code.pc = "on_chain"
    /\ Cardinality(code.verified) < MaxVerified
    /\ code.kind = "note" => code.verified = {}
    /\ says = "same"
    /\ code' = [code EXCEPT !.verified = @ \cup {package}]

\* The page of a resource with a record: a note is wholly verified.
View ==
    /\ code.pc = "on_chain"
    /\ code.verified # {}
    /\ code' = [code EXCEPT !.pc = "viewed",
                  !.status = IF code.kind = "account"
                             THEN VerificationStatus(code.procedures, code.verified)
                             ELSE [verified |-> 1, total |-> 1]]

CodeNext == View \/ \E p \in Manifests : Verify(p)

CodeSpec == CodeInit /\ [][CodeNext]_code

-----------------------------------------------------------------------------
\* The three readings agree.  Standard components are counted once each, by
\* disjoint claims; what a verified package installs is counted, all of it; and
\* the page leaves a procedure out only when it is none of these: were every
\* other package verified against the same code, the verifier would still call
\* what is left custom code, or the schema commitment accounts for it.
ReadingsAgree ==
    LET standard == Claimed(code.procedures)
        packages == UNION {InstalledRoots(p) : p \in code.verified}
    IN  code.pc = "viewed" /\ code.kind = "account" =>
        /\ \A j, k \in Detected(code.procedures) : j # k => ImportOrder[j] \cap ImportOrder[k] = {}
        /\ packages \subseteq code.procedures
        /\ code.status.verified = Cardinality(packages \cup standard)
        /\ code.status.total - code.status.verified
             <= Cardinality(Unclaimed(code.procedures, Standards)[Len(Standards)] \ packages)

=============================================================================
