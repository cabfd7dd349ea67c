------------------------------ MODULE Programs ------------------------------
(***************************************************************************)
(* The parts that work alone: a behaviour is one run of one of them.  The  *)
(* analysis of a package (ReadOnlyWalk) and the writing of its types       *)
(* (TypeWriter), which are miden-package-metadata; the readings of         *)
(* on-chain code (OnChainCode); a project's way through the readers of its *)
(* manifests (Projects); a lookup (Lookup); a run of the status page's     *)
(* checks (Checks); and a page's own state (Page).                         *)
(***************************************************************************)
EXTENDS ReadOnlyWalk, TypeWriter, OnChainCode, Projects, Lookup, Checks, Page

vars == <<walk, types, code, project, lookupVars, probe, pageVars>>

Off == [pc |-> "off"]
LookupOff == lookup = Off /\ chain = Off /\ recorded = {}

\* One program runs, and the others have no state.
Init ==
    \E program \in {"walk", "types", "code", "project", "lookup", "checks", "tabs", "theme"} :
        /\ IF program = "walk" THEN WalkInit ELSE walk = Off
        /\ IF program = "types" THEN TypesInit ELSE types = Off
        /\ IF program = "code" THEN CodeInit ELSE code = Off
        /\ IF program = "project" THEN ProjectInit ELSE project = Off
        /\ IF program = "lookup" THEN LookupInit ELSE LookupOff
        /\ IF program = "checks" THEN ChecksInit ELSE probe = Off
        /\ IF program = "tabs" THEN TabsInit ELSE tabs = Off
        /\ IF program = "theme" THEN ThemeInit ELSE theme = Off

Analyse == WalkNext /\ UNCHANGED <<types, code, project, lookupVars, probe, pageVars>>
Write == TypesNext /\ UNCHANGED <<walk, code, project, lookupVars, probe, pageVars>>
Compare == CodeNext /\ UNCHANGED <<walk, types, project, lookupVars, probe, pageVars>>
Carry == ProjectNext /\ UNCHANGED <<walk, types, code, lookupVars, probe, pageVars>>
LookUp == lookup.pc # "off" /\ LookupNext /\ UNCHANGED <<walk, types, code, project, probe, pageVars>>
Check == ChecksNext /\ UNCHANGED <<walk, types, code, project, lookupVars, pageVars>>
Display ==
    \/ TabsNext /\ UNCHANGED <<walk, types, code, project, lookupVars, probe, theme>>
    \/ ThemeNext /\ UNCHANGED <<walk, types, code, project, lookupVars, probe, tabs>>

Next == Analyse \/ Write \/ Compare \/ Carry \/ LookUp \/ Check \/ Display

Spec == Init /\ [][Next]_vars

-----------------------------------------------------------------------------
\* What miden-package-metadata prints of a package is true of it: whether its
\* procedures are read-only, and the types of their signatures.
MetadataTrue == VerdictTrue /\ TypesReadBack

-----------------------------------------------------------------------------
(* The instance.                                                           *)

\* A wallet, and the component that is one procedure of it.
StandardsOfInstance == <<{1, 2}, {1}, {4}>>
DirsOfInstance == <<Root, <<"a">>, <<"target">>>>
LibDirsOfInstance == <<<<"a">>, Root, <<"target">>>>
FileSetsOfInstance == {{}, {"a"}, {"a", "b"}, {"b", "c"}, {"a", "b", "c"}}
=============================================================================
