---------------------------- MODULE ReadOnlyWalk ----------------------------
(***************************************************************************)
(* read_only.rs of miden-package-metadata: whether an exported procedure   *)
(* can change state.  `Analyzer::procedure` walks what the procedure can   *)
(* reach, in the package's forest and, through external nodes, in the      *)
(* libraries', and stops at the protocol's procedures, whose access is     *)
(* known by name.  One action is one turn of its loop.  The stack is a     *)
(* set: the order of the turns is not kept.                                *)
(***************************************************************************)
EXTENDS Naturals, Sequences, FiniteSets

CONSTANTS PackageNodes, LibraryNodes,  \* how many nodes the forests have
          ProtocolDigests              \* the digests of the protocol's procedures

VARIABLE walk

ASSUME NodesAssumption == PackageNodes \in Nat \ {0} /\ LibraryNodes \in Nat

\* The libraries' nodes follow the package's, and an edge or a reference leads
\* to a larger number.
Package == 1..PackageNodes
Library == (PackageNodes + 1)..(PackageNodes + LibraryNodes)
Nodes == Package \cup Library
NoNode == 0      \* the digest of a procedure of some other package

\* The forest of a node, in the order external procedures are looked up.
ForestOf(n) == IF n \in Package THEN Package ELSE Library

Access == {"ReadOnly", "StateChanging", "Unknown"}

\* Of two paths, one that changes state decides, then one that is not known.
Join(a, b) ==
    CASE "StateChanging" \in {a, b} -> "StateChanging"
      [] "StateChanging" \notin {a, b} /\ "Unknown" \in {a, b} -> "Unknown"
      [] OTHER -> "ReadOnly"

(***************************************************************************)
(* Graphs.  A body is its own digest; an external node has the digest of   *)
(* what it refers to.  Blocks, joins, splits, loops and calls differ in    *)
(* how many nodes they lead to, and system calls and dynamic calls not at  *)
(* all.  Hashes make a graph acyclic.                                      *)
(***************************************************************************)
After(n) == {m \in Nodes : m > n}

Shapes ==
    {s \in [kind : {"inner", "opaque", "external"}, next : SUBSET Nodes, digest : Nodes \cup {NoNode}] :
        s.kind # "inner" => s.next = {}}

Fits(n, s) ==
    /\ s.next \subseteq After(n) \cap ForestOf(n)
    /\ Cardinality(s.next) <= 2
    /\ IF s.kind = "external" THEN s.digest \in After(n) \cup {NoNode} ELSE s.digest = n

\* Graphs with one node more, the n-th.
Longer(graphs, n) == {Append(g, s) : g \in graphs, s \in {t \in Shapes : Fits(n, t)}}

GraphsTo[n \in 0..Cardinality(Nodes)] ==
    IF n = 0 THEN {<<>>} ELSE Longer(GraphsTo[n - 1], n)
Graphs == GraphsTo[Cardinality(Nodes)]

\* The access of the protocol's procedures: each is in one of the two lists,
\* or in neither.
ProtocolAccess(listed) ==
    [d \in ProtocolDigests |->
        CASE listed[d] = "state_changing" -> "StateChanging"
          [] listed[d] = "read_only" -> "ReadOnly"
          [] OTHER -> "Unknown"]

Listings == [ProtocolDigests -> {"state_changing", "read_only", "neither"}]

-----------------------------------------------------------------------------
\* forest.find_procedure_root(digest), unless that root is a reference too.
RootsIn(f, d) ==
    {n \in f \cap walk.roots : walk.graph[n].digest = d /\ \A m \in f \cap walk.roots :
        walk.graph[m].digest = d => n <= m}
BodiesIn(f, d) == {n \in RootsIn(f, d) : walk.graph[n].kind # "external"}

\* The body of an external procedure: the package's forest comes first.
Resolve(d) == IF BodiesIn(Package, d) # {} THEN BodiesIn(Package, d) ELSE BodiesIn(Library, d)

Classified(n) == walk.graph[n].digest \in ProtocolDigests

\* Variant with one plausible mistake: a reference to some other package is
\* taken for harmless.
BlindIgnoresReferences(n) == walk.graph[n].kind = "opaque"

\* Whether a node tells nothing of what it runs.
Blind(n) == \/ walk.graph[n].kind = "opaque"
            \/ walk.graph[n].kind = "external" /\ Resolve(walk.graph[n].digest) = {}

\* The access a node adds by itself.
OwnAccess(n) ==
    CASE Classified(n) -> ProtocolAccess(walk.listed)[walk.graph[n].digest]
      [] ~Classified(n) /\ Blind(n) -> "Unknown"
      [] OTHER -> "ReadOnly"

\* The nodes the walk goes on to.
Leads(n) == IF Classified(n) THEN {}
            ELSE IF walk.graph[n].kind = "external" THEN Resolve(walk.graph[n].digest)
            ELSE walk.graph[n].next

\* The procedure that is asked about comes first: what does not lead back to
\* it, or before it, is all that it can reach.
Procedures == {1}

\* An export whose node or root is not in the forest is unknown at once.
WalkInit ==
    \E start \in Procedures \cup {NoNode}, g \in Graphs, l \in Listings, r \in SUBSET (Nodes \ Procedures) :
        walk = [pc |-> IF start = NoNode THEN "done" ELSE "walking",
                graph |-> g, listed |-> l, roots |-> r, start |-> start,
                todo |-> {start} \ {NoNode}, seen |-> {},
                access |-> IF start = NoNode THEN "Unknown" ELSE "ReadOnly"]

Turn(n) == walk.pc = "walking" /\ n \in walk.todo

Again(n) ==
    /\ Turn(n)
    /\ n \in walk.seen
    /\ walk' = [walk EXCEPT !.todo = @ \ {n}]

\* The protocol's access stands for the body; nothing outweighs a change.
AtProtocol(n) ==
    LET joined == Join(walk.access, OwnAccess(n)) IN
    /\ Turn(n)
    /\ n \notin walk.seen
    /\ Classified(n)
    /\ walk' = [walk EXCEPT !.todo = @ \ {n}, !.seen = @ \cup {n}, !.access = joined,
                            !.pc = IF joined = "StateChanging" THEN "done" ELSE @]

AtNode(n) ==
    /\ Turn(n)
    /\ n \notin walk.seen
    /\ ~Classified(n)
    /\ walk' = [walk EXCEPT !.todo = (@ \ {n}) \cup Leads(n), !.seen = @ \cup {n},
                            !.access = Join(@, OwnAccess(n))]

WalkEnds ==
    /\ walk.pc = "walking"
    /\ walk.todo = {}
    /\ walk' = [walk EXCEPT !.pc = "done"]

WalkNext == \/ \E n \in Nodes : Again(n) \/ AtProtocol(n) \/ AtNode(n)
            \/ WalkEnds

WalkSpec == WalkInit /\ [][WalkNext]_walk

-----------------------------------------------------------------------------
\* What a node runs in truth: the body of a reference is the node of that
\* digest, wherever it is and whether or not the walk can find it.
Body(d) == {n \in Nodes : n = d /\ walk.graph[n].kind # "external"}
Runs(n) == IF Classified(n) THEN {}
           ELSE IF walk.graph[n].kind = "external" THEN Body(walk.graph[n].digest)
           ELSE walk.graph[n].next

\* What can be reached along an edge: what every set closed under it holds.
ReachedBy(Edge(_)) ==
    LET closed == {S \in SUBSET Nodes : walk.start \in S /\ \A n \in S : Edge(n) \subseteq S}
    IN  {n \in Nodes : \A S \in closed : n \in S}

Listed(n, list) == Classified(n) /\ walk.listed[walk.graph[n].digest] = list

\* A protocol procedure listed as reading, or code that is there to be read.
Harmless(n) ==
    \/ Listed(n, "read_only")
    \/ ~Classified(n) /\ walk.graph[n].kind = "inner"
    \/ ~Classified(n) /\ walk.graph[n].kind = "external" /\ Body(walk.graph[n].digest) # {}

\* The badge on the page: a procedure said to be read-only runs nothing that
\* changes state, nothing unlisted and nothing hidden, in its own package or
\* another; one said to change state does run something that does; and a change
\* the walk can see is never lost behind what it cannot, whatever the order
\* of the turns.
VerdictTrue ==
    walk.pc = "done" /\ walk.start # NoNode =>
        /\ walk.access = "ReadOnly" => \A n \in ReachedBy(Runs) : Harmless(n)
        /\ walk.access = "StateChanging" => \E n \in ReachedBy(Runs) : Listed(n, "state_changing")
        /\ walk.access # "StateChanging" => \A n \in ReachedBy(Leads) : ~Listed(n, "state_changing")
=============================================================================
