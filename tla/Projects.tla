------------------------------ MODULE Projects ------------------------------
(***************************************************************************)
(* One project on its way: a folder picked in the web-verifier             *)
(* (collect-project-files.ts) or a files map any client posts, opened by   *)
(* every API (packages/utils/src/project.ts), stored, found again by the   *)
(* admin route when its entrypoint was not recorded, and shown by the      *)
(* web-viewer (source-files.ts).  A path is a sequence of segments; a      *)
(* directory holds a Cargo.toml, a miden-project.toml and a src/lib.rs, or *)
(* some of them.                                                           *)
(***************************************************************************)
EXTENDS Naturals, Sequences, FiniteSets

CONSTANTS Dirs,        \* directories, in the order the paths of their Cargo.toml sort
          LibDirs,     \* the same, in the order the paths of their src/lib.rs sort
          CrateNames,  \* what a [package] may be called
          Segments,    \* what an entrypoint may be written with
          MaxSegments  \* and in how many of them: a bound

VARIABLE project

Root == <<>>
Directories == {Dirs[i] : i \in DOMAIN Dirs}
NoDir == <<"none">>
Before(order, d, e) == \E i, j \in DOMAIN order : i < j /\ order[i] = d /\ order[j] = e

ASSUME DirsAssumption ==
    /\ Len(Dirs) \in Nat /\ DOMAIN Dirs = 1..Len(Dirs)
    /\ {LibDirs[i] : i \in DOMAIN LibDirs} = Directories
    /\ Root \in Directories /\ NoDir \notin Directories
    /\ MaxSegments \in Nat

\* A Cargo.toml that is missing, not TOML, without a [package], or names one.
Content == [toml : {"missing", "invalid", "workspace"} \cup CrateNames, miden : BOOLEAN, lib : BOOLEAN]
Trees == [Directories -> Content]
Bare == [toml |-> "missing", miden |-> FALSE, lib |-> FALSE]

-----------------------------------------------------------------------------
\* selectProjectFiles: target/ and hidden directories, .cargo excepted, are
\* left out with all that is in them.
Skipped(dir) == \E i \in DOMAIN dir : dir[i] \in {"target", ".git"}
Kept(tree) == [d \in Directories |-> IF Skipped(d) THEN Bare ELSE tree[d]]
Offered(tree) == {d \in Directories \ {Root} : tree[d].toml # "missing"}

\* normalizeEntrypoint, of what is between the slashes: leading `./` and
\* trailing `/` go, then an absolute path is null, then one that is not clean.
FirstKept(w) == CHOOSE i \in DOMAIN w : /\ \A h \in 1..(i - 1) : w[h] = "."
                                        /\ i = Len(w) \/ w[i] # "."
LastKept(w) == CHOOSE i \in DOMAIN w : /\ \A h \in (i + 1)..Len(w) : w[h] = ""
                                       /\ i = 1 \/ w[i] # ""
Clean(w) == \A i \in DOMAIN w : w[i] \notin {"", ".", ".."}

NormalizeEntrypoint(w) ==
    LET led == SubSeq(w, FirstKept(w), Len(w))
        dir == SubSeq(led, 1, LastKept(led))
    IN  CASE Len(led) > 1 /\ led[1] = "" -> NoDir
          [] ~(Len(led) > 1 /\ led[1] = "") /\ dir \in {<<"">>, <<".">>} -> Root
          [] OTHER -> IF Clean(dir) THEN dir ELSE NoDir

\* openProject: the first reason to refuse, or the project.
Opened(tree, problem, dir) ==
    LET at == IF dir \in Directories THEN tree[dir] ELSE Bare IN
    CASE problem # "none" -> [error |-> problem]
      [] problem = "none" /\ dir = NoDir -> [error |-> "invalid entrypoint"]
      [] problem = "none" /\ dir # NoDir /\ at.toml = "missing" -> [error |-> "missing Cargo.toml"]
      [] problem = "none" /\ at.toml # "missing" /\ ~at.miden -> [error |-> "missing miden-project.toml"]
      [] problem = "none" /\ at.toml \in {"invalid", "workspace"} /\ at.miden ->
           [error |-> at.toml]
      [] OTHER -> [error |-> "none", entrypoint |-> dir, name |-> at.toml]

\* Variant with one plausible mistake: a crate that is no Miden project, a
\* local dependency, counts as an entrypoint of its name.
CandidatesOfName(tree, name) == {d \in Directories : tree[d].toml = name}

\* inferEntrypoint.
Candidates(tree, name) == {d \in Directories : tree[d].toml = name /\ tree[d].miden}
InferEntrypoint(tree, name) ==
    IF Cardinality(Candidates(tree, name)) = 1 THEN CHOOSE d \in Candidates(tree, name) : TRUE ELSE NoDir

\* findEntryFile: the directory whose src/lib.rs opens first: of the Cargo.toml
\* that comes first among those of the name; else the src/lib.rs that comes
\* first; without any (NoDir) it is no src/lib.rs, but the first of all files.
Earliest(order, dirs) == CHOOSE d \in dirs : \A e \in dirs \ {d} : Before(order, d, e)
FindEntryFile(tree, name) ==
    LET libs == {d \in Directories : tree[d].lib}
        named == {d \in libs : tree[d].toml = name}
    IN  CASE named # {} -> Earliest(Dirs, named)
          [] named = {} /\ libs # {} -> Earliest(LibDirs, libs)
          [] OTHER -> NoDir

-----------------------------------------------------------------------------
ProjectInit ==
    \E tree \in Trees :
        project = [pc |-> "picked", tree |-> tree, entrypoint |-> NoDir, problem |-> "none",
                   name |-> "", inferred |-> NoDir, entry |-> NoDir]

\* The form: the folder's kept files, and an entrypoint it offers; the root when
\* it offers none.
PickFolder ==
    LET kept == Kept(project.tree) IN
    /\ project.pc = "picked"
    /\ \E d \in IF Offered(kept) = {} THEN {Root} ELSE Offered(kept) :
         project' = [project EXCEPT !.pc = "posted", !.tree = kept, !.entrypoint = d]

\* Any other client: whatever files, and an entrypoint as it likes to write it,
\* absent included.
PostFiles ==
    /\ project.pc = "picked"
    /\ \E w \in UNION {[1..n -> Segments] : n \in 1..MaxSegments}, problem \in
            {"none", "missing files", "invalid file path", "invalid file content"} :
         /\ problem # "none" => w = <<".">>
         /\ project' = [project EXCEPT !.pc = "posted", !.entrypoint = NormalizeEntrypoint(w),
                                       !.problem = problem]

\* Refused with the reason, a 400; or built and stored under its name.
Open ==
    LET opened == Opened(project.tree, project.problem, project.entrypoint) IN
    /\ project.pc = "posted"
    /\ project' = IF opened.error # "none" THEN [project EXCEPT !.pc = "refused", !.problem = opened.error]
                  ELSE [project EXCEPT !.pc = "stored", !.entrypoint = opened.entrypoint,
                                       !.name = opened.name]

\* The admin route, for a package stored before entrypoints were: 422 when it
\* cannot tell, else api-compile opens what is sent.
Reopen ==
    LET inferred == InferEntrypoint(project.tree, project.name) IN
    /\ project.pc = "stored"
    /\ project' = [project EXCEPT !.pc = IF inferred = NoDir THEN "ambiguous" ELSE "reopened",
                     !.inferred = inferred,
                     !.problem = IF inferred = NoDir THEN @
                                 ELSE Opened(project.tree, "none", inferred).error]

ViewSources ==
    /\ project.pc \in {"ambiguous", "reopened"}
    /\ project' = [project EXCEPT !.pc = "viewed", !.entry = FindEntryFile(project.tree, project.name)]

ProjectNext == PickFolder \/ PostFiles \/ Open \/ Reopen \/ ViewSources

-----------------------------------------------------------------------------
\* What the three readers of Cargo.toml make of one upload agrees: an
\* entrypoint that was not recorded is found again exactly when no other
\* project of the upload has the name, it is the one that was built and opens
\* once more, and the page first shows the sources of that crate unless some
\* other crate of the upload has its name (project.ts, source-files.ts).
StoredProjectReopens ==
    LET others == {d \in Directories \ {project.entrypoint} : project.tree[d].toml = project.name}
        rivals == {d \in others : project.tree[d].miden}
    IN  project.pc = "viewed" =>
        /\ project.inferred = IF rivals = {} THEN project.entrypoint ELSE NoDir
        /\ project.problem = "none"
        /\ project.tree[project.entrypoint].lib /\ project.entry # project.entrypoint =>
             \E d \in others : project.entry = d /\ Before(Dirs, d, project.entrypoint)
=============================================================================
