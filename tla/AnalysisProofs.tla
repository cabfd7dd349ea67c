--------------------------- MODULE AnalysisProofs ---------------------------
(***************************************************************************)
(* Theorems of Programs about the analyses of code: that the three         *)
(* readings of on-chain code agree, that the verdict on a procedure is     *)
(* true of any package, and that the types of its signature can be read    *)
(* back from the JSON they are written as.                                 *)
(***************************************************************************)
EXTENDS ProgramsProofs

-----------------------------------------------------------------------------
(* The graphs of a package and its libraries.                              *)

NodeCount == PackageNodes + LibraryNodes
GraphsUpTo(f, k) ==
    f = [n \in 0..k |-> IF n = 0 THEN {<<>>} ELSE Longer(f[n - 1], n)]

LEMMA NodesCounted ==
    NodeCount \in Nat /\ Nodes = 1..NodeCount /\ Cardinality(Nodes) = NodeCount
<1>1. NodeCount \in Nat /\ Nodes = 1..NodeCount
    BY NodesAssumption DEF NodeCount, Nodes, Package, Library
<1>2. Cardinality(1..NodeCount) = NodeCount
    BY <1>1, FS_Interval
<1> QED BY <1>1, <1>2

LEMMA GraphsDefined ==
    GraphsUpTo(GraphsTo, NodeCount)
<1> DEFINE Reach == {k \in 0..NodeCount : \E f : GraphsUpTo(f, k)}
<1>1. 0 \in Reach
    <2>1. GraphsUpTo([n \in 0..0 |-> {<<>>}], 0)
        BY DEF GraphsUpTo
    <2> QED BY <2>1, NodesCounted
<1>2. ASSUME NEW k \in 0..(NodeCount - 1), k \in Reach PROVE k + 1 \in Reach
    <2>1. PICK f : GraphsUpTo(f, k)
        BY <1>2
    <2> DEFINE g == [n \in 0..(k + 1) |-> IF n = k + 1 THEN Longer(f[k], n) ELSE f[n]]
    <2>2. ASSUME NEW n \in 0..(k + 1)
          PROVE  g[n] = IF n = 0 THEN {<<>>} ELSE Longer(g[n - 1], n)
        <3>1. CASE n = k + 1
            <4>1. n # 0 /\ n - 1 = k /\ n - 1 \in 0..(k + 1) /\ n - 1 # k + 1
                BY <3>1, NodesCounted
            <4>2. g[n] = Longer(f[k], n) /\ g[n - 1] = f[k]
                BY <3>1, <4>1
            <4> QED BY <4>1, <4>2
        <3>2. CASE n # k + 1
            <4>1. n \in 0..k /\ g[n] = f[n]
                BY <3>2, NodesCounted
            <4>2. n # 0 => n - 1 \in 0..k /\ g[n - 1] = f[n - 1]
                BY <4>1, NodesCounted
            <4> HIDE DEF g
            <4>3. f[n] = IF n = 0 THEN {<<>>} ELSE Longer(f[n - 1], n)
                BY <2>1, <4>1 DEF GraphsUpTo
            <4> QED BY <4>1, <4>2, <4>3
        <3> QED BY <3>1, <3>2
    <2>3. g = [n \in 0..(k + 1) |-> g[n]]
        OBVIOUS
    <2> HIDE DEF g
    <2>4. GraphsUpTo(g, k + 1)
        BY <2>2, <2>3, Zenon DEF GraphsUpTo
    <2> QED BY <2>4, NodesCounted
<1>3. NodeCount \in Reach
    <2> HIDE DEF Reach
    <2>1. 0..NodeCount \subseteq Reach
        BY <1>1, <1>2, NodesCounted, InductionTo
    <2> QED BY <2>1, NodesCounted
<1>4. PICK f : GraphsUpTo(f, NodeCount)
    BY <1>3
<1>5. GraphsTo = CHOOSE h : h = [n \in 0..Cardinality(Nodes) |->
                                     IF n = 0 THEN {<<>>} ELSE Longer(h[n - 1], n)]
    BY Zenon DEF GraphsTo
<1>6. f = [n \in 0..Cardinality(Nodes) |-> IF n = 0 THEN {<<>>} ELSE Longer(f[n - 1], n)]
    BY <1>4, NodesCounted DEF GraphsUpTo
<1>7. GraphsTo = [n \in 0..Cardinality(Nodes) |->
                    IF n = 0 THEN {<<>>} ELSE Longer(GraphsTo[n - 1], n)]
    BY <1>5, <1>6, Zenon
<1> QED BY <1>7, NodesCounted DEF GraphsUpTo

\* Every graph has a shape for each node, that fits it.
LEMMA GraphsFit ==
    ASSUME NEW g \in Graphs
    PROVE  \A n \in Nodes : g[n] \in Shapes /\ Fits(n, g[n])
<1> DEFINE Fit(h, k) == h \in Seq(Shapes) /\ Len(h) = k /\ \A n \in 1..k : Fits(n, h[n])
           Fitting == {k \in 0..NodeCount : \A h \in GraphsTo[k] : Fit(h, k)}
<1>1. /\ GraphsTo[0] = {<<>>}
      /\ \A k \in 0..(NodeCount - 1) : GraphsTo[k + 1] = Longer(GraphsTo[k], k + 1)
    <2>1. ASSUME NEW n \in 0..NodeCount
          PROVE  GraphsTo[n] = IF n = 0 THEN {<<>>} ELSE Longer(GraphsTo[n - 1], n)
        BY GraphsDefined, Zenon DEF GraphsUpTo
    <2>2. 0 \in 0..NodeCount /\ \A k \in 0..(NodeCount - 1) :
            k + 1 \in 0..NodeCount /\ k + 1 # 0 /\ (k + 1) - 1 = k
        BY NodesCounted
    <2> QED BY <2>1, <2>2, Zenon
<1>2. 0 \in Fitting
    <2>1. Fit(<<>>, 0)
        OBVIOUS
    <2>2. \A h \in GraphsTo[0] : h = <<>>
        BY <1>1, Zenon
    <2>3. 0 \in 0..NodeCount
        BY NodesCounted
    <2> HIDE DEF Fit
    <2> QED BY <2>1, <2>2, <2>3
<1>3. ASSUME NEW k \in 0..(NodeCount - 1), k \in Fitting PROVE k + 1 \in Fitting
    <2>1. ASSUME NEW h \in GraphsTo[k + 1] PROVE Fit(h, k + 1)
        <3>1. PICK before \in GraphsTo[k], s \in Shapes : h = Append(before, s) /\ Fits(k + 1, s)
            BY <1>1, <2>1 DEF Longer
        <3>2. Fit(before, k)
            BY <1>3, <3>1
        <3>3. h \in Seq(Shapes) /\ Len(h) = k + 1 /\ h[k + 1] = s /\ \A n \in 1..k : h[n] = before[n]
            BY <3>1, <3>2, NodesCounted
        <3>4. ASSUME NEW n \in 1..(k + 1) PROVE Fits(n, h[n])
            <4>1. n = k + 1 \/ n \in 1..k
                BY NodesCounted
            <4> QED BY <3>1, <3>2, <3>3, <4>1
        <3> QED BY <3>3, <3>4
    <2> QED BY <2>1, NodesCounted
<1>4. g \in GraphsTo[NodeCount] /\ NodeCount \in Fitting
    <2> HIDE DEF Fitting
    <2>1. 0..NodeCount \subseteq Fitting
        BY <1>2, <1>3, NodesCounted, InductionTo
    <2> QED BY <2>1, NodesCounted DEF Graphs
<1>5. Fit(g, NodeCount)
    BY <1>4
<1> QED BY <1>5, NodesCounted

-----------------------------------------------------------------------------
(* The walk of a procedure (ReadOnlyWalk).                                 *)

WalkFields ==
    walk = [pc |-> walk.pc, graph |-> walk.graph, listed |-> walk.listed, roots |-> walk.roots,
            start |-> walk.start, todo |-> walk.todo, seen |-> walk.seen, access |-> walk.access]

Kinded ==
    \A n \in Nodes : /\ walk.graph[n].kind \in {"inner", "opaque", "external"}
                     /\ walk.graph[n].next \subseteq Nodes
                     /\ walk.graph[n].kind # "external" => walk.graph[n].digest = n

\* What the procedure can reach.
Whole(S) == walk.start \in S /\ \A n \in S : Leads(n) \subseteq S
Reachable == {n \in Nodes : \A S \in SUBSET Nodes : Whole(S) => n \in S}

\* The procedure and what the seen nodes lead to are seen or still to do, and
\* nothing else is; the access is that of the seen nodes.
Walking ==
    /\ walk.start \in walk.seen \cup walk.todo
    /\ \A n \in walk.seen : Leads(n) \subseteq walk.seen \cup walk.todo
    /\ walk.seen \cup walk.todo \subseteq Reachable
    /\ walk.access \in Access
    /\ walk.access = "ReadOnly" => \A n \in walk.seen : OwnAccess(n) = "ReadOnly"
    /\ walk.access = "StateChanging" <=> \E n \in walk.seen : OwnAccess(n) = "StateChanging"
    /\ walk.pc = "done" /\ walk.access # "StateChanging" => walk.todo = {}

WalkOn ==
    /\ WalkFields
    /\ walk.pc \in {"walking", "done"}
    /\ Kinded
    /\ walk.start \in Nodes \cup {NoNode}
    /\ walk.start # NoNode => Walking
    /\ walk.start = NoNode => walk.pc = "done"

WalkInv == walk = Off \/ WalkOn

LEMMA NodesKnown ==
    1 \in Nodes /\ NoNode \notin Nodes /\ Package \subseteq Nodes /\ Library \subseteq Nodes
BY NodesAssumption DEF Nodes, Package, Library, NoNode

LEMMA LeadsToNodes ==
    ASSUME Kinded, NEW n \in Nodes
    PROVE  Leads(n) \subseteq Nodes
BY NodesKnown DEF Kinded, Leads, Resolve, BodiesIn, RootsIn

LEMMA Accesses ==
    ASSUME NEW n
    PROVE  /\ OwnAccess(n) \in Access
           /\ OwnAccess(n) = "StateChanging" <=> Listed(n, "state_changing")
           /\ OwnAccess(n) = "ReadOnly" <=> Listed(n, "read_only") \/ (~Classified(n) /\ ~Blind(n))
<1>1. CASE Classified(n)
    BY <1>1, Zenon DEF OwnAccess, ProtocolAccess, Classified, Listed, Access
<1>2. CASE ~Classified(n)
    BY <1>2, Zenon DEF OwnAccess, Listed, Access
<1> QED BY <1>1, <1>2

\* What a turn leaves alone.
Standing == /\ walk'.graph = walk.graph /\ walk'.listed = walk.listed
            /\ walk'.roots = walk.roots /\ walk'.start = walk.start

LEMMA WalkFrame ==
    ASSUME Standing
    PROVE  /\ Kinded' = Kinded
           /\ Reachable' = Reachable
           /\ \A n : Leads(n)' = Leads(n) /\ OwnAccess(n)' = OwnAccess(n)
<1>1. ASSUME NEW n PROVE Leads(n)' = Leads(n) /\ OwnAccess(n)' = OwnAccess(n)
    <2>1. \A m : Classified(m)' <=> Classified(m)
        BY DEF Standing, Classified
    <2>2. \A f, d : RootsIn(f, d)' = RootsIn(f, d)
        BY DEF Standing, RootsIn
    <2>3. \A f, d : BodiesIn(f, d)' = BodiesIn(f, d)
        BY <2>2 DEF Standing, BodiesIn
    <2>4. \A d : Resolve(d)' = Resolve(d)
        BY <2>3 DEF Resolve
    <2>5. Blind(n)' <=> Blind(n)
        BY <2>4 DEF Standing, Blind
    <2>6. Leads(n)' = Leads(n)
        BY <2>1, <2>4 DEF Standing, Leads
    <2>7. OwnAccess(n)' = OwnAccess(n)
        BY <2>1, <2>5 DEF Standing, OwnAccess
    <2> QED BY <2>6, <2>7
<1>2. Reachable' = Reachable
    <2>1. ASSUME NEW S PROVE Whole(S)' <=> Whole(S)
        BY <1>1 DEF Whole, Standing
    <2> QED BY <2>1 DEF Reachable
<1>3. Kinded' = Kinded
    BY Zenon DEF Kinded, Standing
<1> QED BY <1>1, <1>2, <1>3

LEMMA Joined ==
    ASSUME NEW a \in Access, NEW b \in Access
    PROVE  /\ Join(a, b) \in Access
           /\ Join(a, b) = "StateChanging" <=> a = "StateChanging" \/ b = "StateChanging"
           /\ Join(a, b) = "ReadOnly" <=> a = "ReadOnly" /\ b = "ReadOnly"
BY DEF Join, Access

LEMMA ReachableWhole ==
    ASSUME Kinded, NEW n \in Reachable
    PROVE  Leads(n) \subseteq Reachable
BY LeadsToNodes DEF Reachable, Whole

\* A node is seen for the first time.
Sees(n) ==
    /\ Turn(n) /\ n \notin walk.seen
    /\ Standing /\ WalkFields'
    /\ walk'.seen = walk.seen \cup {n}
    /\ walk'.todo = (walk.todo \ {n}) \cup Leads(n)
    /\ walk'.access = Join(walk.access, OwnAccess(n))
    /\ walk'.pc \in {"walking", "done"}
    /\ walk'.pc = "done" => walk'.access = "StateChanging"

LEMMA SeesKeeps ==
    ASSUME WalkOn, NEW n \in Nodes, Sees(n)
    PROVE  WalkOn'
<1>1. walk.start # NoNode /\ Walking
    BY DEF WalkOn, Sees, Turn
<1>2. /\ \A m : Leads(m)' = Leads(m) /\ OwnAccess(m)' = OwnAccess(m)
      /\ Reachable' = Reachable /\ Kinded'
    BY WalkFrame DEF Sees, WalkOn
<1>3. n \in Reachable /\ Leads(n) \subseteq Reachable
    BY <1>1, ReachableWhole DEF Walking, Sees, Turn, WalkOn
<1>4. walk'.seen \cup walk'.todo = walk.seen \cup walk.todo \cup Leads(n)
    BY DEF Sees, Turn
<1>5. \A m \in walk'.seen : Leads(m) \subseteq walk'.seen \cup walk'.todo
    BY <1>1, <1>4 DEF Sees, Walking
<1>6. /\ walk'.access \in Access
      /\ walk'.access = "StateChanging" <=>
           walk.access = "StateChanging" \/ OwnAccess(n) = "StateChanging"
      /\ walk'.access = "ReadOnly" <=> walk.access = "ReadOnly" /\ OwnAccess(n) = "ReadOnly"
    BY <1>1, Joined, Accesses DEF Walking, Sees
<1>7. Walking'
    <2>1. walk'.start \in walk'.seen \cup walk'.todo
        BY <1>1, <1>4 DEF Walking, Sees, Standing
    <2>2. \A m \in walk'.seen : Leads(m)' \subseteq walk'.seen \cup walk'.todo
        BY <1>2, <1>5
    <2>3. walk'.seen \cup walk'.todo \subseteq Reachable'
        BY <1>1, <1>2, <1>3, <1>4 DEF Walking
    <2>4. /\ walk'.access = "ReadOnly" => \A m \in walk'.seen : OwnAccess(m)' = "ReadOnly"
          /\ walk'.access = "StateChanging" <=>
               \E m \in walk'.seen : OwnAccess(m)' = "StateChanging"
        BY <1>1, <1>2, <1>6 DEF Walking, Sees
    <2> QED BY <1>6, <2>1, <2>2, <2>3, <2>4 DEF Walking, Sees
<1> QED BY <1>1, <1>2, <1>7 DEF WalkOn, Sees, Standing

LEMMA WalkNextKeeps ==
    ASSUME WalkOn, WalkNext
    PROVE  WalkOn'
<1>1. WalkFields
    BY DEF WalkOn
<1>2. ASSUME NEW n \in Nodes, AtProtocol(n) PROVE WalkOn'
    <2>1. Leads(n) = {}
        BY <1>2 DEF Leads, AtProtocol
    <2>2. Sees(n)
        BY <1>1, <1>2, <2>1 DEF Sees, AtProtocol, Standing, WalkFields, Turn
    <2> QED BY <2>2, SeesKeeps
<1>3. ASSUME NEW n \in Nodes, AtNode(n) PROVE WalkOn'
    <2>1. Sees(n)
        BY <1>1, <1>3 DEF Sees, AtNode, Standing, WalkFields, Turn
    <2> QED BY <2>1, SeesKeeps
<1>4. ASSUME NEW n \in Nodes, Again(n) PROVE WalkOn'
    <2>1. /\ Standing /\ WalkFields' /\ walk'.todo = walk.todo \ {n} /\ n \in walk.seen
          /\ walk'.seen = walk.seen /\ walk'.access = walk.access /\ walk'.pc = walk.pc
          /\ walk.pc = "walking"
        BY <1>1, <1>4 DEF Again, Standing, WalkFields, Turn
    <2>2. walk'.seen \cup walk'.todo = walk.seen \cup walk.todo
        BY <2>1
    <2>3. Walking'
        <3>1. Walking
            BY <2>1 DEF WalkOn
        <3> QED BY <2>1, <2>2, <3>1, WalkFrame DEF Walking, Standing
    <2> QED BY <2>1, <2>3, WalkFrame DEF WalkOn, Standing
<1>5. CASE WalkEnds
    <2>1. /\ Standing /\ WalkFields' /\ walk'.todo = walk.todo /\ walk.todo = {}
          /\ walk'.seen = walk.seen /\ walk'.access = walk.access /\ walk'.pc = "done"
          /\ walk.pc = "walking"
        BY <1>1, <1>5 DEF WalkEnds, Standing, WalkFields
    <2>2. Walking'
        <3>1. Walking
            BY <2>1 DEF WalkOn
        <3> QED BY <2>1, <3>1, WalkFrame DEF Walking, Standing
    <2> QED BY <2>1, <2>2, WalkFrame DEF WalkOn, Standing
<1> QED BY <1>2, <1>3, <1>4, <1>5 DEF WalkNext

LEMMA WalkBegins ==
    ASSUME WalkInit
    PROVE  WalkOn
<1>1. PICK start \in Procedures \cup {NoNode}, g \in Graphs, l \in Listings,
           r \in SUBSET (Nodes \ Procedures) :
        walk = [pc |-> IF start = NoNode THEN "done" ELSE "walking",
                graph |-> g, listed |-> l, roots |-> r, start |-> start,
                todo |-> {start} \ {NoNode}, seen |-> {},
                access |-> IF start = NoNode THEN "Unknown" ELSE "ReadOnly"]
    BY Zenon DEF WalkInit
<1>2. \A n \in Nodes : g[n] \in Shapes /\ Fits(n, g[n])
    BY GraphsFit
<1>3. \A n \in Nodes : /\ g[n].kind \in {"inner", "opaque", "external"}
                       /\ g[n].next \subseteq Nodes
                       /\ g[n].kind # "external" => g[n].digest = n
    BY <1>2 DEF Shapes, Fits
<1>4. Kinded
    BY <1>1, <1>3 DEF Kinded
<1>5. start \in Nodes \cup {NoNode}
    BY NodesKnown DEF Procedures
<1>6. ASSUME start # NoNode PROVE Walking
    <2>1. /\ walk.start = start /\ walk.seen = {} /\ walk.todo = {start}
          /\ walk.access = "ReadOnly" /\ walk.pc = "walking"
        BY <1>1, <1>6
    <2>2. start \in Reachable
        BY <1>5, <1>6, <2>1 DEF Reachable, Whole
    <2> QED BY <2>1, <2>2 DEF Walking, Access
<1> QED BY <1>1, <1>4, <1>5, <1>6 DEF WalkOn, WalkFields

LEMMA WalkKept ==
    Spec => []WalkInv
<1>1. Init => WalkInv
    BY WalkBegins DEF Init, WalkInv
<1>2. WalkInv /\ [Next]_vars => WalkInv'
    <2> SUFFICES ASSUME WalkInv, [Next]_vars PROVE WalkInv'
        OBVIOUS
    <2>1. CASE WalkNext
        <3>1. walk # Off
            BY <2>1, OffIsOff DEF WalkNext, Again, AtProtocol, AtNode, WalkEnds, Turn
        <3> QED BY <2>1, <3>1, WalkNextKeeps DEF WalkInv
    <2>2. CASE UNCHANGED walk
        <3>1. Standing
            BY <2>2 DEF Standing
        <3>2. WalkOn => WalkOn'
            BY <2>2, <3>1, WalkFrame DEF WalkOn, WalkFields, Walking
        <3> QED BY <2>2, <3>2 DEF WalkInv, Off
    <2> QED BY <2>1, <2>2 DEF Next, vars, Analyse, Write, Compare, Carry, LookUp, Check, Display
<1> QED BY <1>1, <1>2, PTL DEF Spec

\* The verdict on a procedure is true, of any graphs and listings.
LEMMA VerdictIsTrue ==
    ASSUME WalkInv
    PROVE  VerdictTrue
<1> SUFFICES ASSUME WalkOn, walk.pc = "done", walk.start # NoNode
             PROVE  /\ walk.access = "ReadOnly" => \A n \in ReachedBy(Runs) : Harmless(n)
                    /\ walk.access = "StateChanging" =>
                         \E n \in ReachedBy(Runs) : Listed(n, "state_changing")
                    /\ walk.access # "StateChanging" =>
                         \A n \in ReachedBy(Leads) : ~Listed(n, "state_changing")
    BY OffIsOff DEF WalkInv, VerdictTrue
<1>1. Walking /\ Kinded /\ walk.start \in Nodes
    BY DEF WalkOn
<1>2. walk.seen \subseteq Nodes
    BY <1>1 DEF Walking, Reachable
<1>3. ASSUME NEW n \in Nodes PROVE Leads(n) \subseteq Runs(n)
    BY <1>1, <1>3, NodesKnown DEF Kinded, Leads, Runs, Body, Resolve, BodiesIn, RootsIn
<1>4. ASSUME NEW n \in Nodes, OwnAccess(n) = "ReadOnly"
      PROVE  Runs(n) = Leads(n) /\ Harmless(n)
    <2>1. CASE Classified(n)
        BY <1>4, <2>1, Accesses DEF Runs, Leads, Harmless
    <2>2. CASE ~Classified(n)
        <3>1. ~Blind(n)
            BY <1>4, <2>2, Accesses DEF Listed
        <3>2. CASE walk.graph[n].kind = "external"
            <4>1. Leads(n) # {} /\ Leads(n) \subseteq Runs(n) /\ Runs(n) = Body(walk.graph[n].digest)
                BY <1>3, <2>2, <3>1, <3>2 DEF Leads, Runs, Blind
            <4>2. Body(walk.graph[n].digest) \subseteq {walk.graph[n].digest}
                BY DEF Body
            <4> QED BY <2>2, <3>2, <4>1, <4>2 DEF Harmless
        <3>3. CASE walk.graph[n].kind # "external"
            <4>1. walk.graph[n].kind = "inner"
                BY <1>1, <3>1, <3>3 DEF Kinded, Blind
            <4> QED BY <2>2, <4>1 DEF Runs, Leads, Harmless
        <3> QED BY <3>2, <3>3
    <2> QED BY <2>1, <2>2
<1>5. ReachedBy(Leads) = Reachable
    BY DEF ReachedBy, Reachable, Whole
<1>6. Reachable \subseteq ReachedBy(Runs)
    <2> SUFFICES ASSUME NEW n \in Reachable, NEW S \in SUBSET Nodes, walk.start \in S,
                        \A m \in S : Runs(m) \subseteq S
                 PROVE  n \in S
        BY DEF ReachedBy, Reachable
    <2>1. Whole(S)
        BY <1>3 DEF Whole
    <2> QED BY <2>1 DEF Reachable
<1>7. ASSUME walk.access = "StateChanging"
      PROVE  \E n \in ReachedBy(Runs) : Listed(n, "state_changing")
    <2>1. PICK n \in walk.seen : OwnAccess(n) = "StateChanging"
        BY <1>1, <1>7 DEF Walking
    <2>2. n \in ReachedBy(Runs)
        BY <1>1, <1>6, <2>1 DEF Walking
    <2> QED BY <2>1, <2>2, Accesses
<1>8. ASSUME walk.access # "StateChanging" PROVE Whole(walk.seen)
    BY <1>1, <1>8 DEF Walking, Whole
<1>9. ASSUME walk.access # "StateChanging", NEW n \in Reachable
      PROVE  ~Listed(n, "state_changing")
    <2>1. n \in walk.seen
        BY <1>2, <1>8, <1>9 DEF Reachable
    <2> QED BY <1>1, <1>9, <2>1, Accesses DEF Walking
<1>10. ASSUME walk.access = "ReadOnly", NEW n \in ReachedBy(Runs) PROVE Harmless(n)
    <2>1. \A m \in walk.seen : OwnAccess(m) = "ReadOnly" /\ m \in Nodes
        BY <1>1, <1>2, <1>10 DEF Walking
    <2>2. Whole(walk.seen)
        BY <1>8, <1>10
    <2>3. walk.start \in walk.seen /\ \A m \in walk.seen : Runs(m) \subseteq walk.seen
        BY <1>4, <2>1, <2>2 DEF Whole
    <2>4. n \in walk.seen
        BY <1>2, <1>10, <2>3 DEF ReachedBy
    <2> QED BY <1>4, <2>1, <2>4
<1> QED BY <1>5, <1>7, <1>9, <1>10

-----------------------------------------------------------------------------
(* The readings of on-chain code (OnChainCode).                            *)

\* What is left once one more component was tried.
Tried(left, component) == IF component \subseteq left THEN left \ component ELSE left
LeftUpTo(f, procedures, components, n) ==
    f = [k \in 0..n |-> IF k = 0 THEN procedures ELSE Tried(f[k - 1], components[k])]

LEMMA UnclaimedDefined ==
    ASSUME NEW procedures, NEW components, Len(components) \in Nat
    PROVE  LeftUpTo(Unclaimed(procedures, components), procedures, components, Len(components))
<1> DEFINE N == Len(components)
           Reach == {n \in 0..N : \E f : LeftUpTo(f, procedures, components, n)}
<1>1. 0 \in Reach
    <2>1. LeftUpTo([k \in 0..0 |-> procedures], procedures, components, 0)
        BY DEF LeftUpTo
    <2> QED BY <2>1
<1>2. ASSUME NEW n \in 0..(N - 1), n \in Reach PROVE n + 1 \in Reach
    <2>1. PICK f : LeftUpTo(f, procedures, components, n)
        BY <1>2
    <2> DEFINE g == [k \in 0..(n + 1) |-> IF k = n + 1 THEN Tried(f[n], components[n + 1]) ELSE f[k]]
    <2>2. ASSUME NEW k \in 0..(n + 1)
          PROVE  g[k] = IF k = 0 THEN procedures ELSE Tried(g[k - 1], components[k])
        <3>1. CASE k = n + 1
            <4>1. k # 0 /\ k - 1 = n /\ k - 1 \in 0..(n + 1) /\ k - 1 # n + 1
                BY <3>1
            <4>2. g[k] = Tried(f[n], components[k]) /\ g[k - 1] = f[n]
                BY <3>1, <4>1
            <4> QED BY <4>1, <4>2
        <3>2. CASE k # n + 1
            <4>1. k \in 0..n /\ g[k] = f[k]
                BY <3>2
            <4>2. k # 0 => k - 1 \in 0..n /\ g[k - 1] = f[k - 1]
                BY <4>1
            <4> HIDE DEF g
            <4>3. f[k] = IF k = 0 THEN procedures ELSE Tried(f[k - 1], components[k])
                BY <2>1, <4>1 DEF LeftUpTo
            <4> QED BY <4>1, <4>2, <4>3
        <3> QED BY <3>1, <3>2
    <2>3. g = [k \in 0..(n + 1) |-> g[k]]
        OBVIOUS
    <2> HIDE DEF g
    <2>4. LeftUpTo(g, procedures, components, n + 1)
        BY <2>2, <2>3, Zenon DEF LeftUpTo
    <2> QED BY <2>4
<1>3. N \in Reach
    <2> HIDE DEF Reach
    <2>1. 0..N \subseteq Reach
        BY <1>1, <1>2, InductionTo
    <2> QED BY <2>1
<1>4. PICK f : LeftUpTo(f, procedures, components, N)
    BY <1>3
<1>5. Unclaimed(procedures, components) =
        CHOOSE h : h = [k \in 0..Len(components) |->
            IF k = 0 THEN procedures
            ELSE IF components[k] \subseteq h[k - 1] THEN h[k - 1] \ components[k]
            ELSE h[k - 1]]
    BY Zenon DEF Unclaimed
<1>6. f = [k \in 0..Len(components) |->
            IF k = 0 THEN procedures
            ELSE IF components[k] \subseteq f[k - 1] THEN f[k - 1] \ components[k]
            ELSE f[k - 1]]
    BY <1>4 DEF LeftUpTo, Tried
<1> DEFINE left == Unclaimed(procedures, components)
<1>7. left = [k \in 0..Len(components) |->
            IF k = 0 THEN procedures
            ELSE IF components[k] \subseteq left[k - 1] THEN left[k - 1] \ components[k]
            ELSE left[k - 1]]
    BY <1>5, <1>6, Zenon
<1> HIDE DEF left
<1> QED BY <1>7, Zenon DEF LeftUpTo, Tried, left

LEMMA TriedInTurn ==
    ASSUME NEW procedures, NEW components, Len(components) \in Nat
    PROVE  /\ Unclaimed(procedures, components)[0] = procedures
           /\ \A k \in 1..Len(components) :
                Unclaimed(procedures, components)[k]
                  = Tried(Unclaimed(procedures, components)[k - 1], components[k])
<1> DEFINE left == Unclaimed(procedures, components)
<1>1. LeftUpTo(left, procedures, components, Len(components))
    BY UnclaimedDefined
<1> HIDE DEF left
<1>2. ASSUME NEW k \in 0..Len(components)
      PROVE  left[k] = IF k = 0 THEN procedures ELSE Tried(left[k - 1], components[k])
    BY <1>1, Zenon DEF LeftUpTo
<1>3. 0 \in 0..Len(components) /\ \A k \in 1..Len(components) : k \in 0..Len(components) /\ k # 0
    OBVIOUS
<1>4. /\ left[0] = procedures
      /\ \A k \in 1..Len(components) : left[k] = Tried(left[k - 1], components[k])
    BY <1>2, <1>3, Zenon
<1> QED BY <1>4 DEF left

\* What a component left stays left or is claimed by a later one.
LEMMA LeftShrinks ==
    ASSUME NEW procedures, NEW components, Len(components) \in Nat
    PROVE  \A k \in 0..Len(components) : \A j \in 0..k :
             Unclaimed(procedures, components)[k] \subseteq Unclaimed(procedures, components)[j]
<1> DEFINE N == Len(components)
           left == Unclaimed(procedures, components)
           S == {k \in 0..N : \A j \in 0..k : left[k] \subseteq left[j]}
<1>1. \A k \in 1..N : left[k] \subseteq left[k - 1]
    <2>1. \A k \in 1..N : left[k] = Tried(left[k - 1], components[k])
        BY TriedInTurn
    <2> HIDE DEF left
    <2> QED BY <2>1 DEF Tried
<1> HIDE DEF left
<1>2. 0 \in S
    OBVIOUS
<1>3. ASSUME NEW k \in 0..(N - 1), k \in S PROVE k + 1 \in S
    <2>1. k + 1 \in 1..N /\ (k + 1) - 1 = k
        OBVIOUS
    <2>2. left[k + 1] \subseteq left[k]
        BY <1>1, <2>1
    <2>3. ASSUME NEW j \in 0..(k + 1) PROVE left[k + 1] \subseteq left[j]
        <3>1. j = k + 1 \/ j \in 0..k
            OBVIOUS
        <3> QED BY <1>3, <2>2, <3>1
    <2> QED BY <2>1, <2>3
<1> HIDE DEF S
<1>4. 0..N \subseteq S
    BY <1>2, <1>3, InductionTo
<1> QED BY <1>4 DEF S, left

\* Two components that are detected claim different procedures.
LEMMA ClaimsAreDisjoint ==
    ASSUME NEW procedures, NEW components, Len(components) \in Nat,
           DOMAIN components = 1..Len(components),
           NEW j \in DetectedAmong(procedures, components),
           NEW k \in DetectedAmong(procedures, components), j # k
    PROVE  components[j] \cap components[k] = {}
<1> DEFINE left == Unclaimed(procedures, components)
<1>1. ASSUME NEW a \in 1..Len(components), NEW b \in 1..Len(components), a < b,
             components[a] \subseteq left[a - 1], components[b] \subseteq left[b - 1]
      PROVE  components[a] \cap components[b] = {}
    <2>1. left[a] = Tried(left[a - 1], components[a])
        BY TriedInTurn
    <2>2. b - 1 \in 0..Len(components) /\ a \in 0..(b - 1)
        BY <1>1
    <2>3. left[b - 1] \subseteq left[a]
        BY <2>2, LeftShrinks
    <2> HIDE DEF left
    <2> QED BY <1>1, <2>1, <2>3 DEF Tried
<1>2. /\ j \in 1..Len(components) /\ components[j] \subseteq left[j - 1]
      /\ k \in 1..Len(components) /\ components[k] \subseteq left[k - 1]
    BY DEF DetectedAmong
<1> HIDE DEF left
<1>3. j < k \/ k < j
    BY <1>2
<1> QED BY <1>1, <1>2, <1>3

\* What no detected component claims is left, and what one claims was there.
LEMMA LeftIsUnclaimed ==
    ASSUME NEW procedures, NEW components, Len(components) \in Nat,
           DOMAIN components = 1..Len(components)
    PROVE  LET detected == DetectedAmong(procedures, components)
               claimed == UNION {components[k] : k \in detected}
           IN  /\ claimed \subseteq procedures
               /\ \A k \in 0..Len(components) :
                    procedures \ claimed \subseteq Unclaimed(procedures, components)[k]
<1> DEFINE N == Len(components)
           left == Unclaimed(procedures, components)
           detected == DetectedAmong(procedures, components)
           claimed == UNION {components[k] : k \in detected}
           S == {k \in 0..N : procedures \ claimed \subseteq left[k]}
<1>1. left[0] = procedures /\ \A k \in 1..N : left[k] = Tried(left[k - 1], components[k])
    BY TriedInTurn
<1>2. \A k : k \in detected <=> k \in 1..N /\ components[k] \subseteq left[k - 1]
    BY DEF DetectedAmong
<1>3. claimed \subseteq procedures
    <2>1. ASSUME NEW k \in detected PROVE components[k] \subseteq procedures
        <3>1. k \in 1..N /\ components[k] \subseteq left[k - 1]
            BY <1>2
        <3>2. k - 1 \in 0..N /\ 0 \in 0..(k - 1)
            BY <3>1
        <3>3. left[k - 1] \subseteq left[0]
            BY <3>2, LeftShrinks
        <3> HIDE DEF left
        <3> QED BY <1>1, <3>1, <3>3
    <2> HIDE DEF detected
    <2> QED BY <2>1
<1>4. 0 \in S
    <2> HIDE DEF left, claimed
    <2> QED BY <1>1
<1>5. ASSUME NEW k \in 0..(N - 1), k \in S PROVE k + 1 \in S
    <2>1. k + 1 \in 1..N /\ (k + 1) - 1 = k /\ k + 1 \in 0..N
        OBVIOUS
    <2>2. left[k + 1] = Tried(left[k], components[k + 1])
        BY <1>1, <2>1, Zenon
    <2>3. components[k + 1] \subseteq left[k] => components[k + 1] \subseteq claimed
        <3> HIDE DEF left, detected
        <3>1. components[k + 1] \subseteq left[k] => k + 1 \in detected
            BY <1>2, <2>1
        <3> QED BY <3>1
    <2> HIDE DEF left, claimed
    <2> QED BY <1>5, <2>1, <2>2, <2>3 DEF Tried
<1>6. 0..N \subseteq S
    <2> HIDE DEF S
    <2> QED BY <1>4, <1>5, InductionTo
<1> HIDE DEF left, detected
<1> QED BY <1>3, <1>6 DEF left, detected

\* The component that is tried last takes nothing from the others.
LEMMA LastIsLast ==
    ASSUME NEW procedures, NEW components \in Seq(SUBSET Roots), NEW last \in SUBSET Roots
    PROVE  \A k \in 0..Len(components) :
             Unclaimed(procedures, Append(components, last))[k]
               = Unclaimed(procedures, components)[k]
<1> DEFINE N == Len(components)
           more == Append(components, last)
           left == Unclaimed(procedures, components)
           leftOfMore == Unclaimed(procedures, more)
           S == {k \in 0..N : leftOfMore[k] = left[k]}
<1>1. N \in Nat /\ Len(more) = N + 1 /\ \A k \in 1..N : more[k] = components[k]
    OBVIOUS
<1> HIDE DEF more, N
<1>2. left[0] = procedures /\ \A k \in 1..N : left[k] = Tried(left[k - 1], components[k])
    BY <1>1, TriedInTurn DEF N
<1>3. leftOfMore[0] = procedures
      /\ \A k \in 1..Len(more) : leftOfMore[k] = Tried(leftOfMore[k - 1], more[k])
    <2>1. Len(more) \in Nat
        BY <1>1
    <2> QED BY <2>1, TriedInTurn
<1> HIDE DEF left, leftOfMore
<1>4. 0 \in S
    BY <1>1, <1>2, <1>3
<1>5. ASSUME NEW k \in 0..(N - 1), k \in S PROVE k + 1 \in S
    <2>1. k + 1 \in 1..N /\ (k + 1) - 1 = k /\ k + 1 \in 0..N /\ k + 1 \in 1..Len(more)
        BY <1>1
    <2>2. left[k + 1] = Tried(left[k], components[k + 1])
          /\ leftOfMore[k + 1] = Tried(leftOfMore[k], more[k + 1])
        BY <1>2, <1>3, <2>1, Zenon
    <2> QED BY <1>1, <1>5, <2>1, <2>2
<1> HIDE DEF S
<1>6. 0..N \subseteq S
    BY <1>1, <1>4, <1>5, InductionTo
<1> QED BY <1>6 DEF S, N, left, leftOfMore, more

CodeFields ==
    code = [pc |-> code.pc, kind |-> code.kind, procedures |-> code.procedures,
            verified |-> code.verified, status |-> code.status]

\* What was verified of an account is installed in it, and the status is of
\* what was verified.
CodeOn ==
    /\ CodeFields
    /\ code.pc \in {"on_chain", "viewed"}
    /\ code.procedures \subseteq Roots
    /\ code.kind = "account" =>
         /\ \A p \in code.verified : InstalledRoots(p) \subseteq code.procedures
         /\ code.pc = "viewed" => code.status = VerificationStatus(code.procedures, code.verified)

CodeInv == code = Off \/ CodeOn

LEMMA CodeBegins ==
    ASSUME CodeInit
    PROVE  CodeOn
<1>1. PICK procedures \in SUBSET Roots, kind \in {"account", "note"} :
        code = [pc |-> "on_chain", kind |-> kind, procedures |-> procedures,
                verified |-> {}, status |-> [verified |-> 0, total |-> 0]]
    BY DEF CodeInit
<1> QED BY <1>1 DEF CodeOn, CodeFields

LEMMA VerifyKeeps ==
    ASSUME CodeOn, NEW package, Verify(package)
    PROVE  CodeOn'
<1>1. /\ code.pc = "on_chain"
      /\ code' = [code EXCEPT !.verified = @ \cup {package}]
      /\ code.kind = "account" => VerifyAccount(code.procedures, package) = "same"
    BY DEF Verify
<1>2. /\ CodeFields' /\ code'.pc = "on_chain" /\ code'.kind = code.kind
      /\ code'.procedures = code.procedures /\ code'.verified = code.verified \cup {package}
    BY <1>1 DEF CodeOn, CodeFields
<1>3. code.kind = "account" => InstalledRoots(package) \subseteq code.procedures
    BY <1>1 DEF VerifyAccount
<1> QED BY <1>2, <1>3 DEF CodeOn

LEMMA ViewKeeps ==
    ASSUME CodeOn, View
    PROVE  CodeOn'
<1>1. PICK status :
        /\ code' = [code EXCEPT !.pc = "viewed", !.status = status]
        /\ code.kind = "account" => status = VerificationStatus(code.procedures, code.verified)
    BY DEF View
<1>2. /\ CodeFields' /\ code'.pc = "viewed" /\ code'.kind = code.kind /\ code'.status = status
      /\ code'.procedures = code.procedures /\ code'.verified = code.verified
    BY <1>1 DEF CodeOn, CodeFields
<1> QED BY <1>1, <1>2 DEF CodeOn

LEMMA CodeKept ==
    Spec => []CodeInv
<1>1. Init => CodeInv
    BY CodeBegins DEF Init, CodeInv
<1>2. CodeInv /\ [Next]_vars => CodeInv'
    <2> SUFFICES ASSUME CodeInv, [Next]_vars PROVE CodeInv'
        OBVIOUS
    <2>1. CASE CodeNext
        <3>1. CodeOn
            BY <2>1, OffIsOff DEF CodeInv, CodeNext, View, Verify
        <3> QED BY <2>1, <3>1, ViewKeeps, VerifyKeeps DEF CodeNext, CodeInv
    <2>2. CASE UNCHANGED code
        BY <2>2 DEF CodeInv, CodeOn, CodeFields, Off
    <2> QED BY <2>1, <2>2 DEF Next, vars, Analyse, Write, Compare, Carry, LookUp, Check, Display
<1> QED BY <1>1, <1>2, PTL DEF Spec

\* The verifier, the import and the page agree on any account, whatever the
\* standard components, in the one order in which both tools take them, and
\* however many exports a package has: none of them is counted twice, all that
\* was verified is counted, and what is not is custom code to the verifier
\* (main.rs of miden-verifier and miden-import, verification-status.ts).
THEOREM ReadingsAreOne ==
    Spec => []ReadingsAgree
<1>1. CodeInv => ReadingsAgree
    <2> SUFFICES ASSUME CodeOn, code.pc = "viewed", code.kind = "account"
                 PROVE  ReadingsAgree
        BY OffIsOff DEF CodeInv, ReadingsAgree
    <2> DEFINE standard == Claimed(code.procedures)
               packages == UNION {InstalledRoots(p) : p \in code.verified}
               left == Unclaimed(code.procedures, Standards)[Len(Standards)]
               known == Known(code.procedures, code.verified)
    <2>1. /\ Standards \in Seq(SUBSET Roots) /\ SchemaCommitment \in SUBSET Roots
          /\ Len(Standards) \in Nat /\ IsFiniteSet(Roots)
        BY StandardsAssumption
    <2>2. /\ Len(ImportOrder) \in Nat /\ DOMAIN ImportOrder = 1..Len(ImportOrder)
          /\ Len(Standards) \in 0..Len(ImportOrder)
        BY <2>1 DEF ImportOrder
    <2>3. \A j, k \in Detected(code.procedures) : j # k => ImportOrder[j] \cap ImportOrder[k] = {}
        BY <2>2, ClaimsAreDisjoint DEF Detected
    <2>4. /\ standard \subseteq code.procedures
          /\ code.procedures \ standard
               \subseteq Unclaimed(code.procedures, ImportOrder)[Len(Standards)]
        BY <2>2, LeftIsUnclaimed DEF Claimed, Detected
    <2>5. code.procedures \ standard \subseteq left
        <3>1. Unclaimed(code.procedures, ImportOrder)[Len(Standards)] = left
            BY <2>1, LastIsLast DEF ImportOrder
        <3> QED BY <2>4, <3>1
    <2>6. packages \subseteq code.procedures
        BY DEF CodeOn
    <2>7. known = packages \cup standard /\ known \subseteq code.procedures
        BY <2>4, <2>6 DEF Known
    <2>8. code.status.verified = Cardinality(known)
          /\ code.status.total = Cardinality(code.procedures)
        BY DEF CodeOn, VerificationStatus
    <2>9. Cardinality(code.procedures) - Cardinality(known) <= Cardinality(left \ packages)
        <3>1. IsFiniteSet(code.procedures)
            BY <2>1, FS_Subset DEF CodeOn
        <3>2. IsFiniteSet(left \ packages)
            <4>1. left \subseteq code.procedures
                <5>1. left \subseteq Unclaimed(code.procedures, Standards)[0]
                    BY <2>1, LeftShrinks
                <5> QED BY <2>1, <5>1, TriedInTurn
            <4> QED BY <3>1, <4>1, FS_Subset
        <3>3. code.procedures \cap known = known
            BY <2>7
        <3> HIDE DEF left, packages, known, standard
        <3>4. Cardinality(code.procedures \ known)
                = Cardinality(code.procedures) - Cardinality(known)
            <4>1. Cardinality(code.procedures \ known)
                    = Cardinality(code.procedures) - Cardinality(code.procedures \cap known)
                BY <3>1, FS_Difference, Zenon
            <4> QED BY <3>3, <4>1
        <3>5. code.procedures \ known \in SUBSET (left \ packages)
            BY <2>5, <2>7
        <3> QED BY <3>2, <3>4, <3>5, FS_Subset
    <2> HIDE DEF left, known
    <2> QED BY <2>3, <2>6, <2>7, <2>8, <2>9 DEF ReadingsAgree, left
<1> QED BY <1>1, CodeKept, PTL

-----------------------------------------------------------------------------
(* The writing of types (TypeWriter): paths.                               *)

\* The path of the place that is written next, and the first i steps of one.
PathOf(open) == [i \in DOMAIN open |-> open[i].done + 1]
Upto(path, i) == [j \in 1..i |-> path[j]]

\* A path leads into the place at another; a path was written before another.
Inside(path, outer) ==
    Len(outer) < Len(path) /\ \A j \in 1..Len(outer) : outer[j] = path[j]
Precedes(path, next) ==
    \/ Inside(next, path)
    \/ \E i \in 1..Len(next) : /\ i <= Len(path) /\ path[i] < next[i]
                               /\ \A j \in 1..(i - 1) : path[j] = next[j]

LEMMA UptoIsPath ==
    ASSUME NEW path \in Seq(Nat), NEW i \in 0..Len(path)
    PROVE  /\ Upto(path, i) \in Seq(Nat) /\ Len(Upto(path, i)) = i
           /\ \A j \in 1..i : Upto(path, i)[j] = path[j]
BY DEF Upto

LEMMA SamePaths ==
    ASSUME NEW p \in Seq(Nat), NEW q \in Seq(Nat), Len(p) = Len(q),
           \A j \in 1..Len(p) : p[j] = q[j]
    PROVE  p = q
OBVIOUS

\* The last step of a path.
LEMMA LastStep ==
    ASSUME NEW path \in Seq(Nat), NEW outer \in Seq(Nat), NEW k \in Nat
    PROVE  path = Append(outer, k) <=>
             path # <<>> /\ outer = Upto(path, Len(path) - 1) /\ k = path[Len(path)]
<1>1. ASSUME path = Append(outer, k)
      PROVE  path # <<>> /\ outer = Upto(path, Len(path) - 1) /\ k = path[Len(path)]
    <2>1. Len(path) = Len(outer) + 1 /\ path[Len(path)] = k
          /\ \A j \in 1..Len(outer) : path[j] = outer[j]
        BY <1>1
    <2>2. Len(path) \in Nat \ {0} /\ Len(path) - 1 \in 0..Len(path) /\ Len(path) - 1 = Len(outer)
        BY <1>1
    <2> DEFINE before == Upto(path, Len(path) - 1)
    <2>3. /\ before \in Seq(Nat) /\ Len(before) = Len(outer)
          /\ \A j \in 1..Len(outer) : before[j] = path[j]
        BY <2>2, UptoIsPath
    <2> HIDE DEF before
    <2>4. outer = before
        BY <2>1, <2>3, SamePaths
    <2> QED BY <2>1, <2>2, <2>4 DEF before
<1>2. ASSUME path # <<>>, outer = Upto(path, Len(path) - 1), k = path[Len(path)]
      PROVE  path = Append(outer, k)
    <2>1. Len(path) \in Nat /\ Len(path) # 0 /\ Len(path) - 1 \in 0..Len(path)
        BY <1>2
    <2>2. Len(outer) = Len(path) - 1 /\ \A j \in 1..Len(outer) : outer[j] = path[j]
        BY <1>2, <2>1, UptoIsPath
    <2>3. /\ Append(outer, k) \in Seq(Nat) /\ Len(Append(outer, k)) = Len(path)
          /\ \A j \in 1..Len(path) : Append(outer, k)[j] = path[j]
        BY <1>2, <2>1, <2>2
    <2> QED BY <2>3, SamePaths
<1> QED BY <1>1, <1>2

\* What precedes a path is neither it nor a part of it.
LEMMA PrecedesApart ==
    ASSUME NEW q \in Seq(Nat), NEW h \in Seq(Nat), Precedes(q, h)
    PROVE  q # h /\ \A k \in Nat : q # Append(h, k)
<1>1. ASSUME NEW r \in Seq(Nat), Len(h) <= Len(r), \A j \in 1..Len(h) : r[j] = h[j]
      PROVE  q # r
    BY <1>1 DEF Precedes, Inside
<1>2. q # h
    BY <1>1
<1>3. ASSUME NEW k \in Nat PROVE q # Append(h, k)
    BY <1>1
<1> QED BY <1>2, <1>3

LEMMA PrecedesNext ==
    ASSUME NEW q \in Seq(Nat), NEW h \in Seq(Nat), NEW h2 \in Seq(Nat),
           Precedes(q, h) \/ q = h,
           h # <<>>, Len(h2) = Len(h), h2[Len(h)] = h[Len(h)] + 1,
           \A j \in 1..(Len(h) - 1) : h2[j] = h[j]
    PROVE  Precedes(q, h2)
<1>1. Len(h) \in Nat \ {0}
    OBVIOUS
<1>2. CASE q = h
    BY <1>1, <1>2 DEF Precedes
<1>3. CASE Inside(h, q)
    BY <1>1, <1>3 DEF Precedes, Inside
<1>4. ASSUME NEW i \in 1..Len(h), i <= Len(q), q[i] < h[i], \A j \in 1..(i - 1) : q[j] = h[j]
      PROVE  Precedes(q, h2)
    <2>1. q[i] \in Nat /\ h[i] \in Nat
        BY <1>1, <1>4
    <2>2. h2[i] = h[i] \/ h2[i] = h[i] + 1
        BY <1>1
    <2>3. \A j \in 1..(i - 1) : q[j] = h2[j]
        BY <1>1, <1>4
    <2>4. q[i] < h2[i]
        BY <1>4, <2>1, <2>2
    <2> QED BY <1>1, <1>4, <2>3, <2>4 DEF Precedes
<1> QED BY <1>2, <1>3, <1>4 DEF Precedes

LEMMA PrecedesFirst ==
    ASSUME NEW q \in Seq(Nat), NEW h \in Seq(Nat), Precedes(q, h) \/ q = h
    PROVE  Precedes(q, Append(h, 1))
<1> DEFINE h2 == Append(h, 1)
<1>1. h2 \in Seq(Nat) /\ Len(h2) = Len(h) + 1 /\ \A j \in 1..Len(h) : h2[j] = h[j]
    OBVIOUS
<1> HIDE DEF h2
<1>2. ASSUME q = h \/ Inside(h, q) PROVE Precedes(q, h2)
    <2>1. Inside(h2, q)
        BY <1>1, <1>2 DEF Inside
    <2> QED BY <2>1 DEF Precedes
<1>3. ASSUME NEW i \in 1..Len(h), i <= Len(q), q[i] < h[i], \A j \in 1..(i - 1) : q[j] = h[j]
      PROVE  Precedes(q, h2)
    <2>1. i \in 1..Len(h2) /\ h2[i] = h[i] /\ \A j \in 1..(i - 1) : q[j] = h2[j]
        BY <1>1, <1>3
    <2> QED BY <1>3, <2>1 DEF Precedes
<1>4. Precedes(q, h2)
    BY <1>2, <1>3, Zenon DEF Precedes
<1> QED BY <1>4 DEF h2

\* Out of a place, and on.
LEMMA PrecedesOut ==
    ASSUME NEW q \in Seq(Nat), NEW h \in Seq(Nat), NEW h2 \in Seq(Nat), Precedes(q, h),
           Len(h2) \in Nat \ {0}, Len(h) = Len(h2) + 1, h2[Len(h2)] = h[Len(h2)] + 1,
           \A j \in 1..(Len(h2) - 1) : h2[j] = h[j]
    PROVE  Precedes(q, h2)
<1> DEFINE m == Len(h2)
<1>1. m \in Nat \ {0} /\ m \in 1..Len(h2)
    OBVIOUS
<1>2. ASSUME m <= Len(q), \A j \in 1..m : q[j] = h[j] PROVE Precedes(q, h2)
    <2>1. q[m] = h[m] /\ h[m] \in Nat /\ h2[m] = h[m] + 1
        BY <1>1, <1>2
    <2>2. \A j \in 1..(m - 1) : q[j] = h2[j]
        BY <1>1, <1>2
    <2>3. q[m] < h2[m]
        BY <2>1
    <2> QED BY <1>1, <1>2, <2>2, <2>3 DEF Precedes
<1>3. CASE Inside(h, q)
    <2>1. CASE Len(q) < m
        BY <1>1, <1>3, <2>1 DEF Precedes, Inside
    <2>2. CASE ~(Len(q) < m)
        BY <1>1, <1>2, <1>3, <2>2 DEF Inside
    <2> QED BY <2>1, <2>2
<1>4. ASSUME NEW i \in 1..Len(h), i <= Len(q), q[i] < h[i], \A j \in 1..(i - 1) : q[j] = h[j]
      PROVE  Precedes(q, h2)
    <2>1. CASE i <= m
        <3>1. q[i] \in Nat /\ h[i] \in Nat
            BY <1>4
        <3>2. h2[i] = h[i] \/ h2[i] = h[i] + 1
            <4>1. i = Len(h2) \/ i \in 1..(Len(h2) - 1)
                BY <1>1, <2>1
            <4> QED BY <4>1
        <3>3. q[i] < h2[i]
            BY <1>4, <3>1, <3>2
        <3>4. \A j \in 1..(i - 1) : q[j] = h2[j]
            BY <1>1, <1>4, <2>1
        <3>5. i \in 1..Len(h2)
            BY <2>1
        <3> QED BY <1>4, <3>3, <3>4, <3>5 DEF Precedes
    <2>2. CASE i = m + 1
        BY <1>1, <1>2, <1>4, <2>2
    <2> QED BY <1>4, <2>1, <2>2
<1> QED BY <1>3, <1>4 DEF Precedes

-----------------------------------------------------------------------------
(* The type at a path.                                                     *)

TypeUpTo(f, shape, path, n) ==
    f = [k \in 0..n |-> IF k = 0 THEN MaxTypes ELSE shape[f[k - 1]].of[path[k]]]

\* Along a path there are the types the parts have.
LEMMA TypesAlong ==
    ASSUME NEW shape, NEW path, Len(path) \in Nat
    PROVE  \E f : TypeUpTo(f, shape, path, Len(path)) /\ TypeAt(shape, path) = f[Len(path)]
<1> DEFINE N == Len(path)
           Reach == {n \in 0..N : \E f : TypeUpTo(f, shape, path, n)}
<1>1. 0 \in Reach
    <2>1. TypeUpTo([k \in 0..0 |-> MaxTypes], shape, path, 0)
        BY DEF TypeUpTo
    <2> QED BY <2>1
<1>2. ASSUME NEW n \in 0..(N - 1), n \in Reach PROVE n + 1 \in Reach
    <2>1. PICK f : TypeUpTo(f, shape, path, n)
        BY <1>2
    <2> DEFINE g == [k \in 0..(n + 1) |-> IF k = n + 1 THEN shape[f[n]].of[path[n + 1]] ELSE f[k]]
    <2>2. ASSUME NEW k \in 0..(n + 1)
          PROVE  g[k] = IF k = 0 THEN MaxTypes ELSE shape[g[k - 1]].of[path[k]]
        <3>1. CASE k = n + 1
            <4>1. k # 0 /\ k - 1 = n /\ k - 1 \in 0..(n + 1) /\ k - 1 # n + 1
                BY <3>1
            <4>2. g[k] = shape[f[n]].of[path[k]] /\ g[k - 1] = f[n]
                BY <3>1, <4>1
            <4> QED BY <4>1, <4>2
        <3>2. CASE k # n + 1
            <4>1. k \in 0..n /\ g[k] = f[k]
                BY <3>2
            <4>2. k # 0 => k - 1 \in 0..n /\ g[k - 1] = f[k - 1]
                BY <4>1
            <4> HIDE DEF g
            <4>3. f[k] = IF k = 0 THEN MaxTypes ELSE shape[f[k - 1]].of[path[k]]
                BY <2>1, <4>1 DEF TypeUpTo
            <4> QED BY <4>1, <4>2, <4>3
        <3> QED BY <3>1, <3>2
    <2>3. g = [k \in 0..(n + 1) |-> g[k]]
        OBVIOUS
    <2> HIDE DEF g
    <2>4. TypeUpTo(g, shape, path, n + 1)
        BY <2>2, <2>3, Zenon DEF TypeUpTo
    <2> QED BY <2>4
<1>3. N \in Reach
    <2> HIDE DEF Reach
    <2>1. 0..N \subseteq Reach
        BY <1>1, <1>2, InductionTo
    <2> QED BY <2>1
<1> DEFINE at == CHOOSE h : h = [k \in 0..Len(path) |->
                     IF k = 0 THEN MaxTypes ELSE shape[h[k - 1]].of[path[k]]]
<1>4. TypeAt(shape, path) = at[Len(path)]
    BY Zenon DEF TypeAt
<1>5. TypeUpTo(at, shape, path, N)
    <2>1. PICK f : f = [k \in 0..Len(path) |->
                     IF k = 0 THEN MaxTypes ELSE shape[f[k - 1]].of[path[k]]]
        BY <1>3 DEF TypeUpTo
    <2>2. at = [k \in 0..Len(path) |-> IF k = 0 THEN MaxTypes ELSE shape[at[k - 1]].of[path[k]]]
        BY <2>1, Zenon
    <2> HIDE DEF at
    <2> QED BY <2>2, Zenon DEF TypeUpTo
<1> HIDE DEF at
<1> QED BY <1>4, <1>5

LEMMA WholeAtRoot ==
    ASSUME NEW shape
    PROVE  TypeAt(shape, <<>>) = MaxTypes
<1>1. PICK f : TypeUpTo(f, shape, <<>>, Len(<<>>)) /\ TypeAt(shape, <<>>) = f[Len(<<>>)]
    BY TypesAlong
<1>2. Len(<<>>) = 0 /\ 0 \in 0..0
    OBVIOUS
<1>3. f[0] = MaxTypes
    BY <1>1, <1>2 DEF TypeUpTo
<1> QED BY <1>1, <1>2, <1>3

LEMMA TypeOfPart ==
    ASSUME NEW shape, NEW path \in Seq(Nat), NEW k \in Nat
    PROVE  TypeAt(shape, Append(path, k)) = shape[TypeAt(shape, path)].of[k]
<1> DEFINE N == Len(path)
           more == Append(path, k)
<1>1. /\ N \in Nat /\ Len(more) = N + 1 /\ more[N + 1] = k
      /\ \A i \in 1..N : more[i] = path[i]
    OBVIOUS
<1> HIDE DEF more, N
<1>2. PICK f : TypeUpTo(f, shape, path, N) /\ TypeAt(shape, path) = f[N]
    BY <1>1, TypesAlong DEF N
<1>3. PICK g : TypeUpTo(g, shape, more, N + 1) /\ TypeAt(shape, more) = g[N + 1]
    <2>1. Len(more) \in Nat
        BY <1>1
    <2>2. PICK g : TypeUpTo(g, shape, more, Len(more)) /\ TypeAt(shape, more) = g[Len(more)]
        BY <2>1, TypesAlong
    <2> QED BY <1>1, <2>2
<1>4. \A i \in 0..N : f[i] = IF i = 0 THEN MaxTypes ELSE shape[f[i - 1]].of[path[i]]
    BY <1>2, Zenon DEF TypeUpTo
<1>5. \A i \in 0..(N + 1) : g[i] = IF i = 0 THEN MaxTypes ELSE shape[g[i - 1]].of[more[i]]
    BY <1>3, Zenon DEF TypeUpTo
<1> DEFINE S == {i \in 0..N : g[i] = f[i]}
<1>6. 0 \in S
    <2>1. 0 \in 0..N /\ 0 \in 0..(N + 1)
        BY <1>1
    <2> QED BY <1>4, <1>5, <2>1
<1>7. ASSUME NEW i \in 0..(N - 1), i \in S PROVE i + 1 \in S
    <2>1. /\ i + 1 \in 0..N /\ i + 1 \in 0..(N + 1) /\ (i + 1) - 1 = i /\ i + 1 # 0
          /\ i + 1 \in 1..N
        BY <1>1
    <2>2. f[i + 1] = shape[f[i]].of[path[i + 1]] /\ g[i + 1] = shape[g[i]].of[more[i + 1]]
        BY <1>4, <1>5, <2>1, Zenon
    <2> QED BY <1>1, <1>7, <2>1, <2>2
<1> HIDE DEF S
<1>8. N \in S
    <2>1. 0..N \subseteq S
        BY <1>1, <1>6, <1>7, InductionTo
    <2> QED BY <1>1, <2>1
<1>9. g[N + 1] = shape[g[N]].of[k]
    <2>1. N + 1 \in 0..(N + 1) /\ (N + 1) - 1 = N /\ N + 1 # 0
        BY <1>1
    <2> QED BY <1>1, <1>5, <2>1
<1>10. g[N] = f[N]
    BY <1>8 DEF S
<1> QED BY <1>2, <1>3, <1>9, <1>10 DEF more

-----------------------------------------------------------------------------
(* What is written, and what is open.                                      *)

Aggregates == {"plain", "recursive"}
PlaceSet == [path : Seq(Nat), tag : Aggregates \cup {"primitive", "Rec"}, name : Types]
OpenSet == [type : Types, done : Nat]

\* The parts of the place at a path that are written.
Held(written, path) == {k \in Nat : \E p \in written : p.path = Append(path, k)}

Encloses(outer, p) ==
    outer.name = p.name /\ outer.tag = "recursive" /\ Inside(p.path, outer.path)

\* Every place is of the type that belongs there, and leaves hold nothing.
WrittenTrue(shape, written) ==
    /\ written \subseteq PlaceSet
    /\ \A p \in written :
         /\ p.name = TypeAt(shape, p.path)
         /\ p.tag = "Rec" => shape[p.name].kind = "recursive" /\ \E q \in written : Encloses(q, p)
         /\ p.tag # "Rec" => p.tag = shape[p.name].kind
         /\ p.tag \notin Aggregates => Held(written, p.path) = {}

\* A place with all of its parts.
AllHeld(shape, written, p) ==
    p.tag \in Aggregates => Held(written, p.path) = 1..Len(shape[p.name].of)

\* A type being written: its place is there, with the parts that are done.
IsOpen(shape, item, last, place, written) ==
    /\ shape[item.type].kind \in Aggregates /\ item.type \in Reached(shape)
    /\ item.done <= Len(shape[item.type].of)
    /\ ~last => item.done < Len(shape[item.type].of)
    /\ \E p \in written : p.path = place /\ p.name = item.type /\ p.tag = shape[p.name].kind
    /\ Held(written, place) = 1..(IF last THEN item.done ELSE item.done + 1)

\* Whatever is written precedes what is next, and has all of its parts unless
\* what is next is inside of it.
IsBefore(shape, p, next, written) ==
    /\ Precedes(p.path, next)
    /\ Inside(next, p.path) => p.tag \in Aggregates
    /\ ~Inside(next, p.path) => AllHeld(shape, written, p)

OpenTrue(shape, open, written) ==
    /\ open \in Seq(OpenSet)
    /\ \A i \in 1..Len(open) :
         IsOpen(shape, open[i], i = Len(open), Upto(PathOf(open), i - 1), written)
    /\ \A p \in written : IsBefore(shape, p, PathOf(open), written)

LEMMA PathOfOpen ==
    ASSUME NEW open \in Seq(OpenSet)
    PROVE  /\ PathOf(open) \in Seq(Nat) /\ Len(PathOf(open)) = Len(open)
           /\ \A i \in 1..Len(open) : PathOf(open)[i] = open[i].done + 1
<1>1. Len(open) \in Nat /\ DOMAIN open = 1..Len(open)
    OBVIOUS
<1>2. ASSUME NEW i \in 1..Len(open) PROVE open[i].done + 1 \in Nat
    <2>1. open[i] \in OpenSet
        OBVIOUS
    <2> QED BY <2>1 DEF OpenSet
<1>3. PathOf(open) = [i \in 1..Len(open) |-> open[i].done + 1]
    BY <1>1 DEF PathOf
<1>4. [i \in 1..Len(open) |-> open[i].done + 1] \in [1..Len(open) -> Nat]
    BY <1>2
<1>5. \A f \in [1..Len(open) -> Nat] : f \in Seq(Nat) /\ Len(f) = Len(open)
    BY <1>1
<1> QED BY <1>3, <1>4, <1>5

LEMMA NothingAt ==
    ASSUME NEW written \in SUBSET PlaceSet, NEW h \in Seq(Nat), \A p \in written : Precedes(p.path, h)
    PROVE  Held(written, h) = {} /\ \A p \in written : p.path # h
<1>1. ASSUME NEW p \in written PROVE p.path # h /\ \A k \in Nat : p.path # Append(h, k)
    <2>1. p.path \in Seq(Nat)
        BY DEF PlaceSet
    <2> QED BY <2>1, PrecedesApart
<1> QED BY <1>1 DEF Held

\* A place is added, to the one around it.
Adds(more, written, z) == more = written \cup {z}

LEMMA HeldElsewhere ==
    ASSUME NEW written, NEW z, NEW more, Adds(more, written, z), z.path \in Seq(Nat),
           NEW path \in Seq(Nat), z.path = <<>> \/ path # Upto(z.path, Len(z.path) - 1)
    PROVE  Held(more, path) = Held(written, path)
<1>1. \A k \in Nat : z.path # Append(path, k)
    BY LastStep
<1> QED BY <1>1 DEF Held, Adds

LEMMA HeldAround ==
    ASSUME NEW written, NEW z, NEW more, Adds(more, written, z), z.path \in Seq(Nat),
           NEW path \in Seq(Nat), z.path # <<>>, path = Upto(z.path, Len(z.path) - 1),
           NEW k \in Nat, k = z.path[Len(z.path)]
    PROVE  \A i \in Nat : i \in Held(more, path) <=> i \in Held(written, path) \/ i = k
<1>1. \A i \in Nat : z.path = Append(path, i) <=> i = k
    BY LastStep
<1> QED BY <1>1 DEF Held, Adds

LEMMA ParentInside ==
    ASSUME NEW h \in Seq(Nat), h # <<>>, NEW path, path = Upto(h, Len(h) - 1)
    PROVE  Inside(h, path)
<1>1. Len(h) - 1 \in 0..Len(h)
    OBVIOUS
<1>2. Len(path) = Len(h) - 1 /\ \A j \in 1..(Len(h) - 1) : path[j] = h[j]
    BY <1>1, UptoIsPath
<1> QED BY <1>1, <1>2 DEF Inside

LEMMA WrittenKept ==
    ASSUME NEW shape, NEW written, NEW more, NEW open, WrittenTrue(shape, written),
           OpenTrue(shape, open, written), NEW z \in PlaceSet, Adds(more, written, z),
           z.path = PathOf(open), z.name = TypeAt(shape, z.path),
           z.tag = "Rec" => shape[z.name].kind = "recursive" /\ \E q \in written : Encloses(q, z),
           z.tag # "Rec" => z.tag = shape[z.name].kind
    PROVE  WrittenTrue(shape, more)
<1>1. z.path \in Seq(Nat) /\ written \subseteq PlaceSet
    BY PathOfOpen DEF OpenTrue, WrittenTrue
<1>2. \A p \in written : Precedes(p.path, z.path)
    BY DEF OpenTrue, IsBefore
<1>3. Held(written, z.path) = {}
    BY <1>1, <1>2, NothingAt
<1>4. ASSUME NEW path \in Seq(Nat), z.path = <<>> \/ path # Upto(z.path, Len(z.path) - 1)
      PROVE  Held(more, path) = Held(written, path)
    BY <1>1, <1>4, HeldElsewhere
<1>5. Held(more, z.path) = {}
    <2>1. ~Inside(z.path, z.path)
        BY <1>1 DEF Inside
    <2>2. z.path = <<>> \/ z.path # Upto(z.path, Len(z.path) - 1)
        BY <1>1, <2>1, ParentInside
    <2> QED BY <1>1, <1>3, <2>2, <1>4
<1>6. ASSUME NEW p \in written, p.tag \notin Aggregates PROVE Held(more, p.path) = {}
    <2> DEFINE path == p.path
    <2>1. path \in Seq(Nat) /\ ~Inside(z.path, path) /\ Held(written, path) = {}
        BY <1>1, <1>6 DEF OpenTrue, IsBefore, WrittenTrue, PlaceSet
    <2> HIDE DEF path
    <2>2. z.path = <<>> \/ path # Upto(z.path, Len(z.path) - 1)
        BY <1>1, <2>1, ParentInside
    <2>3. Held(more, path) = Held(written, path)
        BY <2>1, <2>2, <1>4
    <2> QED BY <2>1, <2>3 DEF path
<1> QED BY <1>1, <1>5, <1>6 DEF WrittenTrue, Adds

\* The shape of a type, and the types that are reached.
LEMMA PartsDefined ==
    ASSUME NEW shape \in [Types -> TypeShapes], NEW t \in Types
    PROVE  /\ shape[t].kind \in Kinds
           /\ Len(shape[t].of) \in Nat /\ DOMAIN shape[t].of = 1..Len(shape[t].of)
           /\ \A i \in 1..Len(shape[t].of) : shape[t].of[i] \in Types
<1>1. PICK m \in Nat : shape[t].of \in [1..m -> Types] \/ (m = 0 /\ shape[t].of = <<>>)
    <2>1. shape[t] \in TypeShapes
        OBVIOUS
    <2>2. CASE shape[t] \in [kind : {"primitive"}, of : {<<>>}]
        <3>1. shape[t].of = <<>> /\ 0 \in Nat
            BY <2>2
        <3> QED BY <3>1
    <2>3. CASE shape[t] \in [kind : Kinds \ {"primitive"}, of : UNION {[1..n -> Types] : n \in 1..MaxParts}]
        <3>1. shape[t].of \in UNION {[1..n -> Types] : n \in 1..MaxParts}
            BY <2>3
        <3>2. PICK m \in 1..MaxParts : shape[t].of \in [1..m -> Types]
            BY <3>1
        <3> QED BY <3>2, TypesAssumption
    <2> QED BY <2>1, <2>2, <2>3 DEF TypeShapes
<1>2. shape[t].kind \in Kinds
    BY DEF TypeShapes, Kinds
<1>3. CASE shape[t].of \in [1..m -> Types]
    <2> DEFINE of == shape[t].of
    <2>1. of \in [1..m -> Types]
        BY <1>3
    <2> HIDE DEF of
    <2>2. of \in Seq(Types) /\ Len(of) = m
        BY <2>1
    <2> QED BY <1>2, <2>1, <2>2 DEF of
<1>4. CASE m = 0 /\ shape[t].of = <<>>
    BY <1>2, <1>4
<1> QED BY <1>1, <1>3, <1>4

LEMMA WholeIsReached ==
    ASSUME NEW shape
    PROVE  MaxTypes \in Reached(shape) /\ Reached(shape) \subseteq Types
BY TypesAssumption DEF Reached, Types

LEMMA PartIsReached ==
    ASSUME NEW shape \in [Types -> TypeShapes], NEW t \in Reached(shape),
           NEW i \in 1..Len(shape[t].of)
    PROVE  shape[t].of[i] \in Reached(shape)
<1>1. t \in Types
    BY WholeIsReached
<1>2. i \in DOMAIN shape[t].of /\ shape[t].of[i] \in Types
    BY <1>1, PartsDefined
<1>3. ASSUME NEW S \in SUBSET Types, \A u \in S : \A j \in DOMAIN shape[u].of : shape[u].of[j] \in S,
             MaxTypes \in S
      PROVE  shape[t].of[i] \in S
    <2>1. t \in S
        BY <1>3 DEF Reached
    <2> QED BY <1>2, <1>3, <2>1
<1> QED BY <1>2, <1>3 DEF Reached

\* One more part of the last is done.
LEMMA PartDoneIs ==
    ASSUME NEW open \in Seq(OpenSet), open # <<>>
    PROVE  /\ PartDone(open) \in Seq(OpenSet) /\ Len(PartDone(open)) = Len(open)
           /\ \A i \in 1..Len(open) :
                /\ PartDone(open)[i].type = open[i].type
                /\ PartDone(open)[i].done = IF i = Len(open) THEN open[i].done + 1 ELSE open[i].done
<1> DEFINE n == Len(open)
           last == [open[n] EXCEPT !.done = @ + 1]
           more == [open EXCEPT ![n] = last]
<1>1. n \in Nat \ {0} /\ n \in DOMAIN open /\ DOMAIN open = 1..n /\ open[n] \in OpenSet
    OBVIOUS
<1>2. last \in OpenSet /\ last.type = open[n].type /\ last.done = open[n].done + 1
    BY <1>1 DEF OpenSet
<1>3. PartDone(open) = more
    BY <1>1 DEF PartDone
<1> HIDE DEF last
<1>4. more \in Seq(OpenSet) /\ Len(more) = n
    BY <1>1, <1>2
<1>5. \A i \in 1..n : more[i] = IF i = n THEN last ELSE open[i]
    BY <1>1
<1> QED BY <1>2, <1>3, <1>4, <1>5

\* The type that is written next.
NextOf(shape, open) ==
    IF open = <<>> THEN MaxTypes
    ELSE LET top == open[Len(open)]
             of == shape[top.type].of
         IN  IF top.done < Len(of) THEN of[top.done + 1] ELSE 0

LEMMA NextIs ==
    ASSUME NEW shape \in [Types -> TypeShapes], NEW open, NEW written,
           WrittenTrue(shape, written), OpenTrue(shape, open, written), NextOf(shape, open) # 0
    PROVE  /\ NextOf(shape, open) = TypeAt(shape, PathOf(open))
           /\ NextOf(shape, open) \in Reached(shape)
           /\ open # <<>> => open[Len(open)].done < Len(shape[open[Len(open)].type].of)
<1>1. CASE open = <<>>
    <2>1. PathOf(open) = <<>>
        BY <1>1 DEF PathOf
    <2> QED BY <1>1, <2>1, WholeAtRoot, WholeIsReached DEF NextOf
<1>2. CASE open # <<>>
    <2> DEFINE h == PathOf(open)
               n == Len(open)
               top == open[n]
               outer == Upto(h, n - 1)
    <2>1. open \in Seq(OpenSet)
        BY DEF OpenTrue
    <2>2. n \in Nat \ {0} /\ n \in 1..n /\ top \in OpenSet /\ n - 1 \in 0..n
        BY <1>2, <2>1
    <2>3. h \in Seq(Nat) /\ Len(h) = n /\ h[n] = top.done + 1
        BY <2>1, <2>2, PathOfOpen
    <2>4. outer \in Seq(Nat) /\ top.done + 1 \in Nat
        <3>1. top.done + 1 \in Nat
            BY <2>2 DEF OpenSet
        <3>2. n - 1 \in 0..Len(h)
            BY <2>2, <2>3
        <3> QED BY <2>3, <3>1, <3>2, UptoIsPath
    <2>5. IsOpen(shape, top, TRUE, outer, written)
        BY <2>2 DEF OpenTrue
    <2> HIDE DEF h, top, n, outer
    <2>6. top.type = TypeAt(shape, outer)
        BY <2>5 DEF IsOpen, WrittenTrue
    <2>7. h = Append(outer, top.done + 1)
        <3>1. h # <<>> /\ outer = Upto(h, Len(h) - 1) /\ top.done + 1 = h[Len(h)]
            BY <2>2, <2>3 DEF outer
        <3> QED BY <2>3, <2>4, <3>1, LastStep
    <2>8. TypeAt(shape, h) = shape[top.type].of[top.done + 1]
        BY <2>4, <2>6, <2>7, TypeOfPart
    <2>9. /\ top.done < Len(shape[top.type].of)
          /\ NextOf(shape, open) = shape[top.type].of[top.done + 1]
        BY <1>2 DEF NextOf, top, n
    <2>10. shape[top.type].of[top.done + 1] \in Reached(shape)
        <3>1. top.type \in Reached(shape) /\ top.type \in Types
            BY <2>5, WholeIsReached DEF IsOpen
        <3>2. top.done \in Nat
            BY <2>2 DEF OpenSet
        <3>3. Len(shape[top.type].of) \in Nat
            BY <3>1, PartsDefined
        <3>4. top.done + 1 \in 1..Len(shape[top.type].of)
            BY <2>9, <3>2, <3>3
        <3> QED BY <3>1, <3>4, PartIsReached
    <2> QED BY <2>8, <2>9, <2>10 DEF h, top, n
<1> QED BY <1>1, <1>2

\* Nothing is next: what is open has all of its parts.
LEMMA NothingNext ==
    ASSUME NEW shape \in [Types -> TypeShapes], NEW open, NEW written,
           OpenTrue(shape, open, written), NextOf(shape, open) = 0
    PROVE  open # <<>> /\ open[Len(open)].done = Len(shape[open[Len(open)].type].of)
<1>1. open # <<>>
    BY TypesAssumption DEF NextOf
<1> DEFINE n == Len(open)
           top == open[n]
           of == shape[top.type].of
<1>2. n \in 1..n /\ top \in OpenSet
    BY <1>1 DEF OpenTrue
<1>3. top.type \in Reached(shape) /\ top.done <= Len(of)
    BY <1>2 DEF OpenTrue, IsOpen
<1>4. Len(of) \in Nat /\ \A i \in 1..Len(of) : of[i] \in Types
    BY <1>3, WholeIsReached, PartsDefined
<1>5. top.done \in Nat
    BY <1>2 DEF OpenSet
<1>6. NextOf(shape, open) = IF top.done < Len(of) THEN of[top.done + 1] ELSE 0
    BY <1>1 DEF NextOf
<1> HIDE DEF top, of, n
<1>7. ~(top.done < Len(of))
    BY <1>4, <1>5, <1>6 DEF Types
<1> QED BY <1>1, <1>3, <1>4, <1>5, <1>7 DEF top, of, n

-----------------------------------------------------------------------------
(* The steps of the writer.                                                *)

LEMMA UptoApart ==
    ASSUME NEW h \in Seq(Nat), NEW i \in 0..Len(h), NEW j \in 0..Len(h), i # j
    PROVE  Upto(h, i) # Upto(h, j)
BY UptoIsPath

LEMMA UptoAgrees ==
    ASSUME NEW h, NEW h2, NEW i \in Nat, \A j \in 1..i : h[j] = h2[j]
    PROVE  Upto(h, i) = Upto(h2, i)
BY DEF Upto

\* What is next once a part is done, and inside of a new one.
LEMMA PathDone ==
    ASSUME NEW open \in Seq(OpenSet), open # <<>>
    PROVE  LET h == PathOf(open)
               h2 == PathOf(PartDone(open))
           IN
           /\ h \in Seq(Nat) /\ h2 \in Seq(Nat) /\ Len(h) = Len(open) /\ Len(h2) = Len(open)
           /\ h2[Len(h)] = h[Len(h)] + 1 /\ \A j \in 1..(Len(h) - 1) : h2[j] = h[j]
           /\ \A i \in 1..Len(h) : Upto(h2, i - 1) = Upto(h, i - 1)
<1> DEFINE open2 == PartDone(open)
           n == Len(open)
           h == PathOf(open)
           h2 == PathOf(open2)
<1>1. /\ open2 \in Seq(OpenSet) /\ Len(open2) = n /\ n \in Nat \ {0}
      /\ \A i \in 1..n : open2[i].done = IF i = n THEN open[i].done + 1 ELSE open[i].done
    BY PartDoneIs
<1>2. \A i \in 1..n : open[i].done \in Nat
    <2>1. \A i \in 1..n : open[i] \in OpenSet
        OBVIOUS
    <2> QED BY <2>1 DEF OpenSet
<1>3. h \in Seq(Nat) /\ Len(h) = n /\ \A i \in 1..n : h[i] = open[i].done + 1
    BY PathOfOpen
<1>4. h2 \in Seq(Nat) /\ Len(h2) = n /\ \A i \in 1..n : h2[i] = open2[i].done + 1
    BY <1>1, PathOfOpen
<1> HIDE DEF open2, n, h, h2
<1>5. ASSUME NEW j \in 1..(n - 1) PROVE h2[j] = h[j]
    <2>1. j \in 1..n /\ j # n
        BY <1>1
    <2>2. open2[j].done = open[j].done
        BY <1>1, <2>1
    <2>3. h[j] = open[j].done + 1 /\ h2[j] = open2[j].done + 1
        BY <1>3, <1>4, <2>1
    <2> QED BY <2>2, <2>3
<1>6. h2[n] = h[n] + 1
    <2>1. n \in 1..n
        BY <1>1
    <2>2. open2[n].done = open[n].done + 1
        BY <1>1, <2>1
    <2>3. h[n] = open[n].done + 1 /\ h2[n] = open2[n].done + 1
        BY <1>3, <1>4, <2>1
    <2> QED BY <1>2, <2>1, <2>2, <2>3
<1>7. ASSUME NEW i \in 1..n PROVE Upto(h2, i - 1) = Upto(h, i - 1)
    <2>1. i - 1 \in Nat /\ \A j \in 1..(i - 1) : h2[j] = h[j]
        BY <1>1, <1>5
    <2> QED BY <2>1, UptoAgrees
<1> QED BY <1>3, <1>4, <1>5, <1>6, <1>7 DEF n, h, h2, open2

LEMMA PathMore ==
    ASSUME NEW open \in Seq(OpenSet), NEW t \in Types
    PROVE  /\ Append(open, [type |-> t, done |-> 0]) \in Seq(OpenSet)
           /\ PathOf(Append(open, [type |-> t, done |-> 0])) = Append(PathOf(open), 1)
<1> DEFINE item == [type |-> t, done |-> 0]
           open2 == Append(open, item)
           n == Len(open)
           h == PathOf(open)
           h2 == PathOf(open2)
<1>1. item \in OpenSet /\ item.done = 0
    BY DEF OpenSet
<1> HIDE DEF item
<1>2. /\ open2 \in Seq(OpenSet) /\ Len(open2) = n + 1 /\ n \in Nat /\ open2[n + 1] = item
      /\ \A i \in 1..n : open2[i] = open[i]
    BY <1>1
<1>3. h \in Seq(Nat) /\ Len(h) = n /\ \A i \in 1..n : h[i] = open[i].done + 1
    BY PathOfOpen
<1> HIDE DEF open2
<1>4. h2 \in Seq(Nat) /\ Len(h2) = n + 1 /\ \A i \in 1..(n + 1) : h2[i] = open2[i].done + 1
    BY <1>2, PathOfOpen
<1> HIDE DEF h, h2, n
<1>5. /\ Append(h, 1) \in Seq(Nat) /\ Len(Append(h, 1)) = n + 1 /\ Append(h, 1)[n + 1] = 1
      /\ \A i \in 1..n : Append(h, 1)[i] = h[i]
    BY <1>2, <1>3
<1>6. ASSUME NEW i \in 1..n PROVE h2[i] = h[i]
    <2>1. i \in 1..(n + 1) /\ open2[i] = open[i]
        BY <1>2
    <2>2. h[i] = open[i].done + 1 /\ h2[i] = open2[i].done + 1
        BY <1>3, <1>4, <2>1
    <2> QED BY <2>1, <2>2
<1>7. h2[n + 1] = 1
    BY <1>1, <1>2, <1>4
<1>8. \A i \in 1..(n + 1) : h2[i] = Append(h, 1)[i]
    BY <1>2, <1>5, <1>6, <1>7
<1>9. h2 = Append(h, 1)
    BY <1>4, <1>5, <1>8, SamePaths
<1> QED BY <1>2, <1>9 DEF item, h, h2, open2

\* What is open, or before, stays so when a place is added elsewhere.
LEMMA OpenElsewhere ==
    ASSUME NEW shape, NEW written, NEW z, NEW more, Adds(more, written, z), z.path \in Seq(Nat),
           NEW item, NEW last, NEW place \in Seq(Nat), IsOpen(shape, item, last, place, written),
           z.path = <<>> \/ place # Upto(z.path, Len(z.path) - 1)
    PROVE  IsOpen(shape, item, last, place, more)
<1>1. Held(more, place) = Held(written, place)
    BY HeldElsewhere
<1>2. \E p \in more : p.path = place /\ p.name = item.type /\ p.tag = shape[p.name].kind
    BY DEF IsOpen, Adds
<1> QED BY <1>1, <1>2 DEF IsOpen

LEMMA HeldApart ==
    ASSUME NEW shape, NEW written, NEW z, NEW more, Adds(more, written, z), z.path \in Seq(Nat),
           NEW p, p.path \in Seq(Nat), ~Inside(z.path, p.path), AllHeld(shape, written, p)
    PROVE  AllHeld(shape, more, p)
<1> DEFINE path == p.path
<1>1. path \in Seq(Nat) /\ ~Inside(z.path, path)
    OBVIOUS
<1> HIDE DEF path
<1>2. z.path = <<>> \/ path # Upto(z.path, Len(z.path) - 1)
    BY <1>1, ParentInside
<1>3. Held(more, path) = Held(written, path)
    BY <1>1, <1>2, HeldElsewhere
<1> QED BY <1>3 DEF AllHeld, path

\* The part that was next is added to what is open.
LEMMA OpenAround ==
    ASSUME NEW shape, NEW written, NEW z, NEW more, Adds(more, written, z), z.path \in Seq(Nat),
           NEW item \in OpenSet, NEW place \in Seq(Nat), IsOpen(shape, item, TRUE, place, written),
           z.path # <<>>, place = Upto(z.path, Len(z.path) - 1), z.path[Len(z.path)] = item.done + 1,
           Len(shape[item.type].of) \in Nat, item.done < Len(shape[item.type].of),
           NEW item2, NEW last \in BOOLEAN, item2.type = item.type,
           item2.done = IF last THEN item.done + 1 ELSE item.done
    PROVE  IsOpen(shape, item2, last, place, more)
<1>1. item.done \in Nat /\ item.done + 1 \in Nat
    BY DEF OpenSet
<1>2. \A i \in Nat : i \in Held(more, place) <=> i \in Held(written, place) \/ i = item.done + 1
    BY <1>1, HeldAround
<1>3. Held(written, place) = 1..item.done /\ Held(more, place) \subseteq Nat
    BY DEF IsOpen, Held
<1>4. Held(more, place) = 1..(item.done + 1)
    <2> DEFINE d == item.done
               now == Held(more, place)
    <2>1. d \in Nat /\ now \subseteq Nat /\ \A i \in Nat : i \in now <=> i \in 1..d \/ i = d + 1
        BY <1>1, <1>2, <1>3
    <2> HIDE DEF d, now
    <2>2. \A i \in Nat : i \in now <=> i \in 1..(d + 1)
        BY <2>1
    <2>3. \A i \in 1..(d + 1) : i \in Nat
        BY <2>1
    <2>4. now \subseteq 1..(d + 1)
        BY <2>1, <2>2
    <2>5. 1..(d + 1) \subseteq now
        BY <2>2, <2>3
    <2>6. now = 1..(d + 1)
        BY <2>4, <2>5, Zenon
    <2> QED BY <2>6 DEF d, now
<1>5. \E p \in more : p.path = place /\ p.name = item.type /\ p.tag = shape[p.name].kind
    BY DEF IsOpen, Adds
<1> QED BY <1>1, <1>4, <1>5 DEF IsOpen

\* A place that precedes what is next stays before what follows it.
LEMMA BeforeNext ==
    ASSUME NEW h \in Seq(Nat), NEW h2 \in Seq(Nat), h # <<>>, Len(h2) = Len(h),
           h2[Len(h)] = h[Len(h)] + 1, \A j \in 1..(Len(h) - 1) : h2[j] = h[j],
           NEW q \in Seq(Nat)
    PROVE  /\ Inside(h2, q) <=> Inside(h, q)
           /\ Precedes(q, h) \/ q = h => Precedes(q, h2)
<1>1. Len(h) \in Nat /\ Len(q) \in Nat
    OBVIOUS
<1>2. Len(q) < Len(h) => \A j \in 1..Len(q) : h2[j] = h[j]
    BY <1>1
<1>3. Inside(h2, q) <=> Inside(h, q)
    BY <1>1, <1>2 DEF Inside
<1> QED BY <1>3, PrecedesNext

LEMMA BeforeFirst ==
    ASSUME NEW h \in Seq(Nat), NEW q \in Seq(Nat), Precedes(q, h) \/ q = h
    PROVE  /\ Append(h, 1) \in Seq(Nat) /\ Precedes(q, Append(h, 1))
           /\ Inside(Append(h, 1), q) <=> Inside(h, q) \/ q = h
<1> DEFINE h2 == Append(h, 1)
<1>1. /\ h2 \in Seq(Nat) /\ Len(h2) = Len(h) + 1 /\ \A j \in 1..Len(h) : h2[j] = h[j]
      /\ Len(h) \in Nat /\ Len(q) \in Nat
    OBVIOUS
<1>2. Precedes(q, h2)
    BY PrecedesFirst
<1> HIDE DEF h2
<1>3. Inside(h, q) \/ q = h => Inside(h2, q)
    BY <1>1 DEF Inside
<1>4. ASSUME Inside(h2, q) PROVE Inside(h, q) \/ q = h
    <2>1. Len(q) <= Len(h) /\ \A j \in 1..Len(q) : h[j] = q[j]
        <3>1. Len(q) < Len(h2) /\ \A j \in 1..Len(q) : h2[j] = q[j]
            BY <1>4, Zenon DEF Inside
        <3>2. Len(q) <= Len(h)
            BY <1>1, <3>1
        <3>3. ASSUME NEW j \in 1..Len(q) PROVE h[j] = q[j]
            <4>1. j \in 1..Len(h)
                BY <1>1, <3>2
            <4> QED BY <1>1, <3>1, <4>1, Zenon
        <3> QED BY <3>2, <3>3
    <2>2. CASE Len(q) = Len(h)
        BY <2>1, <2>2, SamePaths
    <2>3. CASE Len(q) < Len(h)
        BY <2>1, <2>3 DEF Inside
    <2> QED BY <1>1, <2>1, <2>2, <2>3
<1> QED BY <1>1, <1>2, <1>3, <1>4 DEF h2

\* WriteLeaf, inside of a type.
LEMMA LeafStep ==
    ASSUME NEW shape \in [Types -> TypeShapes], NEW open, NEW written, NEW more, NEW z \in PlaceSet,
           WrittenTrue(shape, written), OpenTrue(shape, open, written), Adds(more, written, z),
           open # <<>>, z.path = PathOf(open), z.tag \notin Aggregates,
           open[Len(open)].done < Len(shape[open[Len(open)].type].of)
    PROVE  OpenTrue(shape, PartDone(open), more)
<1> DEFINE h == PathOf(open)
           open2 == PartDone(open)
           h2 == PathOf(open2)
           n == Len(open)
<1>1. open \in Seq(OpenSet) /\ n \in Nat \ {0} /\ \A i \in 1..n : open[i] \in OpenSet
    BY DEF OpenTrue
<1>2. /\ open2 \in Seq(OpenSet) /\ Len(open2) = n
      /\ \A i \in 1..n : /\ open2[i].type = open[i].type
                         /\ open2[i].done = IF i = n THEN open[i].done + 1 ELSE open[i].done
    BY <1>1, PartDoneIs
<1>3. /\ h \in Seq(Nat) /\ h2 \in Seq(Nat) /\ Len(h) = n /\ Len(h2) = n
      /\ h2[n] = h[n] + 1 /\ \A j \in 1..(n - 1) : h2[j] = h[j]
      /\ \A i \in 1..n : Upto(h2, i - 1) = Upto(h, i - 1)
    BY <1>1, PathDone
<1>4. h[n] = open[n].done + 1 /\ h # <<>>
    BY <1>1, <1>3, PathOfOpen
<1>5. z.path = h /\ \A p \in written : p \in PlaceSet /\ p.path \in Seq(Nat) /\ IsBefore(shape, p, h, written)
    BY DEF OpenTrue, WrittenTrue, PlaceSet
<1>6. \A i \in 1..n : IsOpen(shape, open[i], i = n, Upto(h, i - 1), written)
    BY DEF OpenTrue
<1> HIDE DEF open2, h, h2, n
<1>7. ASSUME NEW place \in Seq(Nat), NEW item, place # Upto(z.path, Len(z.path) - 1),
             IsOpen(shape, item, FALSE, place, written)
      PROVE  IsOpen(shape, item, FALSE, place, more)
    BY <1>3, <1>5, <1>7, OpenElsewhere
<1>8. ASSUME NEW i \in 1..n PROVE IsOpen(shape, open2[i], i = n, Upto(h2, i - 1), more)
    <2> DEFINE place == Upto(h, i - 1)
    <2>1. place \in Seq(Nat) /\ Upto(h2, i - 1) = place
        <3>1. i - 1 \in 0..Len(h)
            BY <1>1, <1>3
        <3> QED BY <1>3, <3>1, UptoIsPath
    <2>2. i # n => place # Upto(h, n - 1)
        <3>1. i - 1 \in 0..Len(h) /\ n - 1 \in 0..Len(h) /\ (i # n => i - 1 # n - 1)
            BY <1>1, <1>3
        <3> QED BY <1>3, <3>1, UptoApart
    <2>3. i = n => place = Upto(h, n - 1)
        OBVIOUS
    <2>4. IsOpen(shape, open[i], i = n, place, written)
        BY <1>6
    <2> HIDE DEF place
    <2>5. CASE i = n
        <3>1. open[n] \in OpenSet /\ IsOpen(shape, open[n], TRUE, place, written)
            BY <1>1, <2>4, <2>5
        <3>2. Len(shape[open[n].type].of) \in Nat
            BY <3>1, WholeIsReached, PartsDefined DEF IsOpen
        <3>3. open2[n].type = open[n].type /\ open2[n].done = IF TRUE THEN open[n].done + 1 ELSE open[n].done
            BY <1>2, <2>5
        <3>4. /\ z.path \in Seq(Nat) /\ z.path # <<>> /\ place = Upto(z.path, Len(z.path) - 1)
              /\ z.path[Len(z.path)] = open[n].done + 1
            BY <1>3, <1>4, <1>5, <2>3, <2>5
        <3>5. open[n].done < Len(shape[open[n].type].of)
            BY DEF n
        <3>6. IsOpen(shape, open2[n], TRUE, place, more)
            BY <2>1, <3>1, <3>2, <3>3, <3>4, <3>5, OpenAround
        <3> QED BY <2>1, <2>5, <3>6
    <2>6. CASE i # n
        <3>1. IsOpen(shape, open[i], FALSE, place, more)
            <4>1. IsOpen(shape, open[i], FALSE, place, written)
                BY <2>4, <2>6
            <4>2. z.path \in Seq(Nat) /\ place # Upto(z.path, Len(z.path) - 1)
                BY <1>3, <1>5, <2>2, <2>6
            <4> QED BY <2>1, <4>1, <4>2, <1>7
        <3>2. open2[i].type = open[i].type /\ open2[i].done = open[i].done
            BY <1>2, <2>6
        <3>3. IsOpen(shape, open2[i], FALSE, place, more)
            BY <3>1, <3>2 DEF IsOpen
        <3> QED BY <2>1, <2>6, <3>3
    <2> QED BY <2>5, <2>6
<1>9. ASSUME NEW p \in more PROVE IsBefore(shape, p, h2, more)
    <2>1. ASSUME p \in written PROVE IsBefore(shape, p, h2, more)
        <3> DEFINE q == p.path
        <3>1. q \in Seq(Nat) /\ IsBefore(shape, p, h, written)
            BY <1>5, <2>1
        <3>2. /\ Inside(h2, q) <=> Inside(h, q)
              /\ Precedes(q, h) => Precedes(q, h2)
            <4> HIDE DEF q
            <4> QED BY <1>3, <1>4, <3>1, BeforeNext
        <3>3. ~Inside(h, q) => AllHeld(shape, more, p)
            BY <1>3, <1>5, <3>1, HeldApart DEF IsBefore
        <3> QED BY <3>1, <3>2, <3>3 DEF IsBefore
    <2>2. ASSUME p = z PROVE IsBefore(shape, p, h2, more)
        <3>1. Precedes(h, h2) /\ ~Inside(h2, h)
            <4>1. ~Inside(h, h)
                BY <1>3 DEF Inside
            <4> QED BY <1>3, <1>4, <4>1, BeforeNext
        <3> QED BY <1>5, <2>2, <3>1 DEF IsBefore, AllHeld
    <2> QED BY <2>1, <2>2 DEF Adds
<1> QED BY <1>2, <1>8, <1>9 DEF OpenTrue, h2, open2

\* OpenType.
LEMMA OpenStep ==
    ASSUME NEW shape \in [Types -> TypeShapes], NEW open, NEW written, NEW more, NEW z \in PlaceSet,
           WrittenTrue(shape, written), OpenTrue(shape, open, written), Adds(more, written, z),
           z.path = PathOf(open), z.tag \in Aggregates, z.tag = shape[z.name].kind,
           z.name \in Reached(shape),
           open # <<>> => open[Len(open)].done < Len(shape[open[Len(open)].type].of)
    PROVE  OpenTrue(shape, Append(open, [type |-> z.name, done |-> 0]), more)
<1> DEFINE h == PathOf(open)
           item == [type |-> z.name, done |-> 0]
           open2 == Append(open, item)
           h2 == PathOf(open2)
           n == Len(open)
<1>1. open \in Seq(OpenSet) /\ n \in Nat /\ \A i \in 1..n : open[i] \in OpenSet
    BY DEF OpenTrue
<1>2. z.name \in Types /\ Len(shape[z.name].of) \in Nat
    BY PartsDefined DEF PlaceSet
<1>3. /\ h \in Seq(Nat) /\ Len(h) = n /\ open2 \in Seq(OpenSet) /\ h2 = Append(h, 1)
      /\ \A i \in 1..n : h[i] = open[i].done + 1
    BY <1>1, <1>2, PathOfOpen, PathMore
<1>4. /\ Len(open2) = n + 1 /\ open2[n + 1] = item /\ \A i \in 1..n : open2[i] = open[i]
    BY <1>1
<1>5. z.path = h /\ \A p \in written : p \in PlaceSet /\ p.path \in Seq(Nat) /\ IsBefore(shape, p, h, written)
    BY DEF OpenTrue, WrittenTrue, PlaceSet
<1>6. \A i \in 1..n : IsOpen(shape, open[i], i = n, Upto(h, i - 1), written)
    BY DEF OpenTrue
<1>7. item.type = z.name /\ item.done = 0
    OBVIOUS
<1>8. open # <<>> => n \in 1..n /\ open[n].done < Len(shape[open[n].type].of)
    BY <1>1
<1> HIDE DEF open2, h, h2, n, item
<1>9. /\ Len(h2) = n + 1 /\ h2 \in Seq(Nat) /\ \A j \in 1..n : h2[j] = h[j]
    BY <1>3
<1>10. ASSUME NEW place \in Seq(Nat), NEW it, place # Upto(z.path, Len(z.path) - 1) \/ z.path = <<>>,
              IsOpen(shape, it, FALSE, place, written)
       PROVE  IsOpen(shape, it, FALSE, place, more)
    BY <1>3, <1>5, <1>10, OpenElsewhere
<1>11. ASSUME NEW i \in 1..n
       PROVE  IsOpen(shape, open2[i], FALSE, Upto(h2, i - 1), more)
    <2> DEFINE place == Upto(h, i - 1)
    <2>1. place \in Seq(Nat) /\ Upto(h2, i - 1) = place
        <3>1. i - 1 \in 0..Len(h) /\ i - 1 \in Nat /\ \A j \in 1..(i - 1) : h2[j] = h[j]
            BY <1>1, <1>3, <1>9
        <3> QED BY <1>3, <3>1, UptoIsPath, UptoAgrees
    <2>2. i # n => place # Upto(h, n - 1)
        <3>1. i - 1 \in 0..Len(h) /\ n - 1 \in 0..Len(h) /\ (i # n => i - 1 # n - 1)
            BY <1>1, <1>3
        <3> QED BY <1>3, <3>1, UptoApart
    <2>3. i = n => place = Upto(h, n - 1)
        OBVIOUS
    <2>4. IsOpen(shape, open[i], i = n, place, written)
        BY <1>6
    <2>5. open # <<>> /\ h # <<>>
        BY <1>1, <1>3 DEF n
    <2> HIDE DEF place
    <2>6. CASE i = n
        <3>1. open[n] \in OpenSet /\ IsOpen(shape, open[n], TRUE, place, written)
            BY <1>1, <2>4, <2>6
        <3>2. Len(shape[open[n].type].of) \in Nat
            BY <3>1, WholeIsReached, PartsDefined DEF IsOpen
        <3>3. open[n].type = open[n].type /\ open[n].done = IF FALSE THEN open[n].done + 1 ELSE open[n].done
            OBVIOUS
        <3>4. /\ z.path \in Seq(Nat) /\ z.path # <<>> /\ place = Upto(z.path, Len(z.path) - 1)
              /\ z.path[Len(z.path)] = open[n].done + 1
            BY <1>3, <1>5, <2>3, <2>5, <2>6
        <3>5. IsOpen(shape, open[n], FALSE, place, more)
            BY <1>8, <2>1, <2>5, <3>1, <3>2, <3>3, <3>4, OpenAround
        <3> QED BY <1>4, <2>1, <2>6, <3>5
    <2>7. CASE i # n
        <3>1. IsOpen(shape, open[i], FALSE, place, written)
            BY <2>4, <2>7
        <3>2. place # Upto(z.path, Len(z.path) - 1)
            BY <1>3, <1>5, <2>2, <2>7
        <3>3. IsOpen(shape, open[i], FALSE, place, more)
            BY <2>1, <3>1, <3>2, <1>10
        <3> QED BY <1>4, <2>1, <3>3
    <2> QED BY <2>6, <2>7
<1>12. IsOpen(shape, item, TRUE, h, more)
    <2>1. \A p \in written : Precedes(p.path, h)
        BY <1>5 DEF IsBefore
    <2>2. written \in SUBSET PlaceSet /\ Held(written, h) = {}
        BY <1>3, <1>5, <2>1, NothingAt
    <2>3. Held(more, h) = {}
        <3>1. h = <<>> \/ h # Upto(h, Len(h) - 1)
            <4>1. ~Inside(h, h)
                BY <1>3 DEF Inside
            <4> QED BY <1>3, <4>1, ParentInside
        <3>2. ASSUME NEW place \in Seq(Nat), z.path = <<>> \/ place # Upto(z.path, Len(z.path) - 1)
              PROVE  Held(more, place) = Held(written, place)
            BY <1>3, <1>5, <3>2, HeldElsewhere
        <3> QED BY <1>3, <1>5, <2>2, <3>1, <3>2
    <2>4. 1..0 = {}
        OBVIOUS
    <2>5. z \in more
        BY DEF Adds
    <2> QED BY <1>2, <1>5, <1>7, <2>3, <2>4, <2>5 DEF IsOpen
<1>13. ASSUME NEW i \in 1..(n + 1) PROVE IsOpen(shape, open2[i], i = n + 1, Upto(h2, i - 1), more)
    <2>1. CASE i = n + 1
        <3>1. /\ n \in 0..Len(h2) /\ i - 1 = n
              /\ Upto(h2, n) \in Seq(Nat) /\ Len(Upto(h2, n)) = n
              /\ \A j \in 1..n : Upto(h2, n)[j] = h2[j]
            <4>1. n \in 0..Len(h2) /\ i - 1 = n
                BY <1>1, <1>9, <2>1
            <4> QED BY <1>9, <4>1, UptoIsPath
        <3>2. Upto(h2, n) = h
            BY <1>3, <1>9, <3>1, SamePaths
        <3> QED BY <1>4, <1>12, <2>1, <3>1, <3>2
    <2>2. CASE i # n + 1
        <3>1. i \in 1..n
            BY <1>1, <2>2
        <3> QED BY <1>11, <2>2, <3>1
    <2> QED BY <2>1, <2>2
<1>14. ASSUME NEW p \in more PROVE IsBefore(shape, p, h2, more)
    <2>1. ASSUME p \in written PROVE IsBefore(shape, p, h2, more)
        <3> DEFINE q == p.path
        <3>1. q \in Seq(Nat) /\ IsBefore(shape, p, h, written)
            BY <1>5, <2>1
        <3>2. Precedes(q, h)
            BY <3>1 DEF IsBefore
        <3>3. q # h
            <4> HIDE DEF q
            <4> QED BY <1>3, <3>1, <3>2, PrecedesApart
        <3>4. Precedes(q, h2) /\ (Inside(h2, q) <=> Inside(h, q))
            <4> HIDE DEF q
            <4> QED BY <1>3, <3>1, <3>2, <3>3, BeforeFirst
        <3>5. ~Inside(h, q) => AllHeld(shape, more, p)
            BY <1>3, <1>5, <3>1, HeldApart DEF IsBefore
        <3> QED BY <3>1, <3>4, <3>5 DEF IsBefore
    <2>2. ASSUME p = z PROVE IsBefore(shape, p, h2, more)
        <3>1. Precedes(h, h2) /\ Inside(h2, h)
            BY <1>3, BeforeFirst
        <3> QED BY <1>5, <2>2, <3>1 DEF IsBefore
    <2> QED BY <2>1, <2>2 DEF Adds
<1> QED BY <1>3, <1>4, <1>13, <1>14 DEF OpenTrue, h2, open2, item

\* A sequence without its last element.
LEMMA ButLast ==
    ASSUME NEW S, NEW s \in Seq(S), NEW m, m = Len(s), m # 0, NEW b, b = SubSeq(s, 1, m - 1)
    PROVE  b \in Seq(S) /\ Len(b) = m - 1 /\ \A i \in 1..(m - 1) : b[i] = s[i] /\ i \in 1..m
<1>1. m \in Nat \ {0} /\ \A i \in 1..m : s[i] \in S
    OBVIOUS
<1>2. m - 1 \in Nat /\ \A i \in 1..(m - 1) : i \in 1..m
    BY <1>1
<1>3. b \in Seq(S) /\ Len(b) = m - 1
    BY <1>1, <1>2
<1>4. \A i \in 1..(m - 1) : b[i] = s[i]
    BY <1>1, <1>2
<1> QED BY <1>2, <1>3, <1>4

\* What is done has all of its parts, and so has all that is not around it.
LEMMA TopDone ==
    ASSUME NEW shape \in [Types -> TypeShapes], NEW open, NEW written,
           WrittenTrue(shape, written), OpenTrue(shape, open, written), open # <<>>,
           open[Len(open)].done = Len(shape[open[Len(open)].type].of), NEW p \in written,
           Inside(PathOf(open), p.path) => Len(p.path) = Len(open) - 1
    PROVE  AllHeld(shape, written, p)
<1> DEFINE h == PathOf(open)
           n == Len(open)
           outer == Upto(h, n - 1)
<1>1. open \in Seq(OpenSet) /\ n \in Nat \ {0} /\ n \in 1..n
    BY DEF OpenTrue
<1>2. h \in Seq(Nat) /\ Len(h) = n
    BY <1>1, PathOfOpen
<1>3. IsBefore(shape, p, h, written) /\ p.path \in Seq(Nat) /\ p.name = TypeAt(shape, p.path)
    BY DEF OpenTrue, WrittenTrue, PlaceSet
<1>4. IsOpen(shape, open[n], TRUE, outer, written)
    BY <1>1 DEF OpenTrue
<1> HIDE DEF h, n
<1>5. CASE ~Inside(h, p.path)
    BY <1>3, <1>5 DEF IsBefore
<1>6. CASE Inside(h, p.path)
    <2>1. Len(p.path) = n - 1 /\ \A j \in 1..(n - 1) : p.path[j] = h[j]
        BY <1>6 DEF Inside, n, h
    <2>2. outer \in Seq(Nat) /\ Len(outer) = n - 1 /\ \A j \in 1..(n - 1) : outer[j] = h[j]
        <3>1. n - 1 \in 0..Len(h)
            BY <1>1, <1>2
        <3> QED BY <1>2, <3>1, UptoIsPath
    <2>3. p.path = outer
        <3> DEFINE q == p.path
        <3>1. q \in Seq(Nat) /\ Len(q) = n - 1 /\ \A j \in 1..(n - 1) : q[j] = h[j]
            BY <1>3, <2>1
        <3> HIDE DEF q, outer
        <3>2. q = outer
            BY <2>2, <3>1, SamePaths
        <3> QED BY <3>2 DEF q
    <2> HIDE DEF outer
    <2>4. p.name = open[n].type
        BY <1>3, <1>4, <2>3 DEF IsOpen, WrittenTrue
    <2>5. Held(written, p.path) = 1..open[n].done
        BY <1>4, <2>3 DEF IsOpen
    <2> QED BY <2>4, <2>5 DEF AllHeld, n
<1> QED BY <1>5, <1>6

\* CloseType, of the whole.
LEMMA CloseWhole ==
    ASSUME NEW shape \in [Types -> TypeShapes], NEW open, NEW written,
           WrittenTrue(shape, written), OpenTrue(shape, open, written), Len(open) = 1,
           open[Len(open)].done = Len(shape[open[Len(open)].type].of)
    PROVE  \A p \in written : AllHeld(shape, written, p)
<1>1. open \in Seq(OpenSet) /\ open # <<>>
    <2>1. open \in Seq(OpenSet)
        BY DEF OpenTrue
    <2>2. ASSUME open = <<>> PROVE FALSE
        <3>1. Len(open) = 0
            BY <2>2
        <3> QED BY <3>1
    <2> QED BY <2>1, <2>2
<1>2. Len(PathOf(open)) = 1
    BY <1>1, PathOfOpen
<1>3. ASSUME NEW p \in written, Inside(PathOf(open), p.path) PROVE Len(p.path) = Len(open) - 1
    <2>1. p.path \in Seq(Nat)
        BY DEF WrittenTrue, PlaceSet
    <2>2. Len(p.path) < 1 /\ Len(p.path) \in Nat
        BY <1>2, <1>3, <2>1 DEF Inside
    <2> QED BY <2>2
<1> QED BY <1>1, <1>3, TopDone

\* CloseType, inside of another.
Around(open) == SubSeq(open, 1, Len(open) - 1)

LEMMA CloseStep ==
    ASSUME NEW shape \in [Types -> TypeShapes], NEW open, NEW written,
           WrittenTrue(shape, written), OpenTrue(shape, open, written), Len(open) # 1, open # <<>>,
           open[Len(open)].done = Len(shape[open[Len(open)].type].of),
           NEW outer, outer = Around(open)
    PROVE  outer # <<>> /\ OpenTrue(shape, PartDone(outer), written)
<1> DEFINE h == PathOf(open)
           open2 == PartDone(outer)
           h1 == PathOf(outer)
           h2 == PathOf(open2)
           n == Len(open)
           m == Len(outer)
<1>1. open \in Seq(OpenSet) /\ n \in Nat \ {0, 1} /\ \A i \in 1..n : open[i] \in OpenSet
    BY DEF OpenTrue
<1>2. /\ outer \in Seq(OpenSet) /\ m = n - 1 /\ m \in Nat \ {0} /\ outer # <<>>
      /\ \A i \in 1..m : outer[i] = open[i]
    <2>1. n \in Nat /\ n # 0 /\ n # 1
        BY <1>1
    <2>2. outer = SubSeq(open, 1, n - 1) /\ n = Len(open)
        BY DEF Around
    <2> HIDE DEF n
    <2>3. outer \in Seq(OpenSet) /\ Len(outer) = n - 1 /\ \A i \in 1..(n - 1) : outer[i] = open[i]
        BY <1>1, <2>1, <2>2, ButLast
    <2>4. n - 1 \in Nat \ {0}
        BY <2>1
    <2>5. outer # <<>>
        BY <2>3, <2>4
    <2> QED BY <2>3, <2>4, <2>5
<1>3. /\ open2 \in Seq(OpenSet) /\ Len(open2) = m
      /\ \A i \in 1..m : /\ open2[i].type = outer[i].type
                         /\ open2[i].done = IF i = m THEN outer[i].done + 1 ELSE outer[i].done
    BY <1>2, PartDoneIs
<1>4. /\ h1 \in Seq(Nat) /\ h2 \in Seq(Nat) /\ Len(h1) = m /\ Len(h2) = m
      /\ h2[m] = h1[m] + 1 /\ \A j \in 1..(m - 1) : h2[j] = h1[j]
      /\ \A i \in 1..m : Upto(h2, i - 1) = Upto(h1, i - 1)
    <2>1. outer \in Seq(OpenSet) /\ outer # <<>>
        BY <1>2
    <2>2. /\ h1 \in Seq(Nat) /\ h2 \in Seq(Nat) /\ Len(h1) = Len(outer) /\ Len(h2) = Len(outer)
          /\ h2[Len(h1)] = h1[Len(h1)] + 1 /\ \A j \in 1..(Len(h1) - 1) : h2[j] = h1[j]
          /\ \A i \in 1..Len(h1) : Upto(h2, i - 1) = Upto(h1, i - 1)
        BY <2>1, PathDone, Zenon
    <2> HIDE DEF h1, h2, open2
    <2> QED BY <2>2
<1>5. h \in Seq(Nat) /\ Len(h) = n /\ \A i \in 1..n : h[i] = open[i].done + 1
    BY <1>1, PathOfOpen
<1>6. \A i \in 1..m : h1[i] = outer[i].done + 1
    BY <1>2, PathOfOpen
<1>7. \A p \in written : p \in PlaceSet /\ p.path \in Seq(Nat) /\ IsBefore(shape, p, h, written)
    BY DEF OpenTrue, WrittenTrue, PlaceSet
<1>8. \A i \in 1..n : IsOpen(shape, open[i], i = n, Upto(h, i - 1), written)
    BY DEF OpenTrue
<1> HIDE DEF open2, h, h1, h2, n, m
<1>9. ASSUME NEW i \in 1..m PROVE h1[i] = h[i] /\ i \in 1..n /\ i # n
    <2>1. i \in 1..n /\ i # n
        BY <1>1, <1>2
    <2>2. h1[i] = outer[i].done + 1 /\ outer[i] = open[i] /\ h[i] = open[i].done + 1
        BY <1>2, <1>5, <1>6, <2>1
    <2> QED BY <2>1, <2>2
<1>10. ASSUME NEW i \in 1..m PROVE Upto(h2, i - 1) = Upto(h, i - 1)
    <2>1. i - 1 \in Nat /\ \A j \in 1..(i - 1) : h1[j] = h[j]
        BY <1>2, <1>9
    <2>2. Upto(h1, i - 1) = Upto(h, i - 1)
        BY <2>1, UptoAgrees
    <2> QED BY <1>4, <2>2
<1>11. ASSUME NEW i \in 1..m PROVE IsOpen(shape, open2[i], i = m, Upto(h2, i - 1), written)
    <2> DEFINE place == Upto(h, i - 1)
    <2>1. IsOpen(shape, open[i], FALSE, place, written)
        <3>1. i \in 1..n /\ (i = n) = FALSE
            BY <1>9
        <3> QED BY <1>8, <3>1
    <2>2. /\ open2[i].type = open[i].type
          /\ open2[i].done = IF i = m THEN open[i].done + 1 ELSE open[i].done
        BY <1>2, <1>3
    <2>3. Len(shape[open[i].type].of) \in Nat /\ open[i].done \in Nat
        <3>1. open[i] \in OpenSet
            BY <1>1, <1>9
        <3>2. open[i].type \in Types
            BY <2>1, WholeIsReached DEF IsOpen
        <3> QED BY <3>1, <3>2, PartsDefined DEF OpenSet
    <2> HIDE DEF place
    <2>4. IsOpen(shape, open2[i], i = m, place, written)
        <3>1. CASE i = m
            <4>1. open2[i].type = open[i].type /\ open2[i].done = open[i].done + 1
                BY <2>2, <3>1
            <4>2. open2[i].done <= Len(shape[open2[i].type].of)
                <5>1. open[i].done < Len(shape[open[i].type].of)
                    BY <2>1 DEF IsOpen
                <5>2. open[i].done + 1 <= Len(shape[open[i].type].of)
                    BY <2>3, <5>1
                <5> QED BY <4>1, <5>2
            <4> QED BY <2>1, <3>1, <4>1, <4>2 DEF IsOpen
        <3>2. CASE i # m
            <4>1. open2[i].type = open[i].type /\ open2[i].done = open[i].done
                BY <2>2, <3>2
            <4> QED BY <2>1, <3>2, <4>1 DEF IsOpen
        <3> QED BY <3>1, <3>2
    <2> QED BY <1>10, <2>4 DEF place
<1>12. ASSUME NEW p \in written PROVE IsBefore(shape, p, h2, written)
    <2> DEFINE q == p.path
    <2>1. q \in Seq(Nat) /\ IsBefore(shape, p, h, written) /\ Precedes(q, h)
        BY <1>7 DEF IsBefore
    <2> HIDE DEF q
    <2>2. m \in 1..m /\ \A j \in 1..(m - 1) : j \in 1..m
        <3>1. m \in Nat /\ m # 0
            BY <1>2
        <3> QED BY <3>1
    <2>3. h2[m] = h[m] + 1 /\ \A j \in 1..(m - 1) : h2[j] = h[j]
        BY <1>4, <1>9, <2>2
    <2>4. Precedes(q, h2)
        <3>1. /\ Len(h2) \in Nat \ {0} /\ Len(h) = Len(h2) + 1 /\ h2[Len(h2)] = h[Len(h2)] + 1
              /\ \A j \in 1..(Len(h2) - 1) : h2[j] = h[j]
            <4>1. Len(h2) = m /\ m \in Nat \ {0}
                BY <1>2, <1>4
            <4>2. Len(h) = m + 1
                BY <1>1, <1>2, <1>5
            <4> QED BY <2>3, <4>1, <4>2
        <3> QED BY <1>4, <1>5, <2>1, <3>1, PrecedesOut
    <2>5. ASSUME Inside(h2, q) PROVE Inside(h, q)
        <3>1. Len(q) \in Nat /\ Len(q) < m /\ \A j \in 1..Len(q) : q[j] = h2[j]
            BY <1>4, <2>1, <2>5 DEF Inside
        <3>2. Len(q) < n /\ \A j \in 1..Len(q) : j \in 1..(m - 1)
            BY <1>1, <1>2, <3>1
        <3>3. \A j \in 1..Len(q) : q[j] = h[j]
            BY <2>3, <3>1, <3>2
        <3> QED BY <1>5, <3>2, <3>3 DEF Inside
    <2>6. ASSUME Inside(h, q), ~Inside(h2, q) PROVE Len(q) = n - 1
        <3>1. Len(q) \in Nat /\ Len(q) < n /\ \A j \in 1..Len(q) : q[j] = h[j]
            BY <1>5, <2>1, <2>6 DEF Inside
        <3>2. ~(Len(q) < m)
            <4>1. ASSUME Len(q) < m PROVE \A j \in 1..Len(q) : q[j] = h2[j]
                BY <1>2, <2>3, <3>1, <4>1
            <4> QED BY <1>4, <2>6, <4>1 DEF Inside
        <3> QED BY <1>1, <1>2, <3>1, <3>2
    <2>7. ~Inside(h2, q) => AllHeld(shape, written, p)
        BY <2>6, TopDone DEF h, n, q
    <2>8. Inside(h2, q) => p.tag \in Aggregates
        BY <2>1, <2>5 DEF IsBefore, q
    <2> QED BY <2>4, <2>7, <2>8 DEF IsBefore, q
<1> QED BY <1>2, <1>3, <1>11, <1>12 DEF OpenTrue, h2, open2, m

-----------------------------------------------------------------------------
(* What is being unfolded.                                                 *)

\* The types being unfolded are the recursive ones that are open, in order.
Tracks(shape, open, unfolding, at) ==
    /\ at \in [1..Len(unfolding) -> 1..Len(open)]
    /\ \A j \in 1..Len(unfolding) : /\ open[at[j]].type = unfolding[j]
                                    /\ shape[unfolding[j]].kind = "recursive"
    /\ \A i, j \in 1..Len(unfolding) : i < j => at[i] < at[j]
    /\ \A i \in 1..Len(open) : shape[open[i].type].kind = "recursive" =>
         \E j \in 1..Len(unfolding) : at[j] = i

Unfolds(shape, open, unfolding) ==
    /\ unfolding \in Seq(Types)
    /\ \E at : Tracks(shape, open, unfolding, at)

LEMMA UnfoldsDone ==
    ASSUME NEW shape, NEW open \in Seq(OpenSet), open # <<>>, NEW unfolding,
           Unfolds(shape, open, unfolding)
    PROVE  Unfolds(shape, PartDone(open), unfolding)
<1>1. PICK at : Tracks(shape, open, unfolding, at)
    BY DEF Unfolds
<1> DEFINE open2 == PartDone(open)
<1>2. Len(open2) = Len(open) /\ \A i \in 1..Len(open) : open2[i].type = open[i].type
    BY PartDoneIs
<1>3. \A j \in 1..Len(unfolding) : at[j] \in 1..Len(open)
    BY <1>1 DEF Tracks
<1> HIDE DEF open2
<1>4. Tracks(shape, open2, unfolding, at)
    BY <1>1, <1>2, <1>3 DEF Tracks
<1> QED BY <1>4 DEF Unfolds, open2

LEMMA UnfoldsPlain ==
    ASSUME NEW shape, NEW open \in Seq(OpenSet), NEW t \in Types, shape[t].kind # "recursive",
           NEW unfolding, Unfolds(shape, open, unfolding)
    PROVE  Unfolds(shape, Append(open, [type |-> t, done |-> 0]), unfolding)
<1>1. PICK at : Tracks(shape, open, unfolding, at)
    BY DEF Unfolds
<1> DEFINE item == [type |-> t, done |-> 0]
           open2 == Append(open, item)
           n == Len(open)
<1>2. n \in Nat /\ Len(open2) = n + 1 /\ open2[n + 1].type = t /\ \A i \in 1..n : open2[i] = open[i]
    OBVIOUS
<1> HIDE DEF item, open2
<1>3. \A j \in 1..Len(unfolding) : at[j] \in 1..n /\ at[j] \in 1..(n + 1)
    BY <1>1, <1>2 DEF Tracks
<1>4. at \in [1..Len(unfolding) -> 1..(n + 1)]
    BY <1>1, <1>3 DEF Tracks
<1>5. ASSUME NEW i \in 1..(n + 1), shape[open2[i].type].kind = "recursive"
      PROVE  \E j \in 1..Len(unfolding) : at[j] = i
    <2>1. i \in 1..n
        BY <1>2, <1>5
    <2> QED BY <1>1, <1>2, <1>5, <2>1 DEF Tracks
<1>6. Tracks(shape, open2, unfolding, at)
    BY <1>1, <1>2, <1>3, <1>4, <1>5 DEF Tracks
<1> QED BY <1>6 DEF Unfolds, open2, item

LEMMA UnfoldsRecursive ==
    ASSUME NEW shape, NEW open \in Seq(OpenSet), NEW t \in Types, shape[t].kind = "recursive",
           NEW unfolding, Unfolds(shape, open, unfolding)
    PROVE  Unfolds(shape, Append(open, [type |-> t, done |-> 0]), Append(unfolding, t))
<1>1. PICK at : Tracks(shape, open, unfolding, at)
    BY DEF Unfolds
<1> DEFINE item == [type |-> t, done |-> 0]
           open2 == Append(open, item)
           n == Len(open)
           m == Len(unfolding)
           more == Append(unfolding, t)
           at2 == [j \in 1..(m + 1) |-> IF j = m + 1 THEN n + 1 ELSE at[j]]
<1>2. n \in Nat /\ Len(open2) = n + 1 /\ open2[n + 1].type = t /\ \A i \in 1..n : open2[i] = open[i]
    OBVIOUS
<1>3. /\ m \in Nat /\ more \in Seq(Types) /\ Len(more) = m + 1 /\ more[m + 1] = t
      /\ \A j \in 1..m : more[j] = unfolding[j]
    BY DEF Unfolds
<1> HIDE DEF item, open2, more
<1>4. \A j \in 1..m : at[j] \in 1..n
    BY <1>1 DEF Tracks
<1>5. \A j \in 1..(m + 1) : at2[j] = IF j = m + 1 THEN n + 1 ELSE at[j]
    OBVIOUS
<1>6. at2 \in [1..(m + 1) -> 1..(n + 1)]
    <2>1. ASSUME NEW j \in 1..(m + 1) PROVE (IF j = m + 1 THEN n + 1 ELSE at[j]) \in 1..(n + 1)
        <3>1. j # m + 1 => j \in 1..m
            BY <1>3
        <3> QED BY <1>2, <1>4, <3>1
    <2> QED BY <2>1
<1> HIDE DEF at2, n, m
<1>7. ASSUME NEW j \in 1..(m + 1)
      PROVE  open2[at2[j]].type = more[j] /\ shape[more[j]].kind = "recursive"
    <2>1. CASE j = m + 1
        BY <1>2, <1>3, <1>5, <2>1
    <2>2. CASE j # m + 1
        <3>1. j \in 1..m
            BY <1>3, <2>2
        <3>2. at2[j] = at[j] /\ at[j] \in 1..n /\ more[j] = unfolding[j] /\ open2[at[j]] = open[at[j]]
            BY <1>2, <1>3, <1>4, <1>5, <2>2, <3>1
        <3> QED BY <1>1, <3>1, <3>2 DEF Tracks, m
    <2> QED BY <2>1, <2>2
<1>8. ASSUME NEW i \in 1..(m + 1), NEW j \in 1..(m + 1), i < j PROVE at2[i] < at2[j]
    <2>1. i \in 1..m /\ at2[i] = at[i] /\ at[i] \in 1..n
        BY <1>3, <1>4, <1>5, <1>8
    <2>2. CASE j = m + 1
        BY <1>2, <1>5, <2>1, <2>2
    <2>3. CASE j # m + 1
        <3>1. j \in 1..m /\ at2[j] = at[j]
            BY <1>3, <1>5, <2>3
        <3>2. at[i] < at[j]
            BY <1>1, <1>8, <2>1, <3>1 DEF Tracks, m
        <3> QED BY <2>1, <3>1, <3>2
    <2> QED BY <2>2, <2>3
<1>9. ASSUME NEW i \in 1..(n + 1), shape[open2[i].type].kind = "recursive"
      PROVE  \E j \in 1..(m + 1) : at2[j] = i
    <2>1. CASE i = n + 1
        <3>1. m + 1 \in 1..(m + 1)
            BY <1>3
        <3> QED BY <1>5, <2>1, <3>1
    <2>2. CASE i # n + 1
        <3>1. i \in 1..n /\ open2[i] = open[i]
            BY <1>2, <2>2
        <3>2. PICK j \in 1..m : at[j] = i
            BY <1>1, <1>9, <3>1 DEF Tracks, n, m
        <3>3. j \in 1..(m + 1) /\ j # m + 1
            BY <1>3
        <3> QED BY <1>5, <3>2, <3>3
    <2> QED BY <2>1, <2>2
<1>10. Tracks(shape, open2, more, at2)
    BY <1>2, <1>3, <1>6, <1>7, <1>8, <1>9 DEF Tracks
<1> QED BY <1>3, <1>10 DEF Unfolds, open2, item, more

LEMMA UnfoldsAround ==
    ASSUME NEW shape, NEW open \in Seq(OpenSet), Len(open) # 1, open # <<>>, NEW unfolding,
           Unfolds(shape, open, unfolding), NEW outer, outer = Around(open), NEW fewer,
           fewer = IF shape[open[Len(open)].type].kind = "recursive"
                   THEN SubSeq(unfolding, 1, Len(unfolding) - 1) ELSE unfolding
    PROVE  Unfolds(shape, outer, fewer)
<1>1. PICK at : Tracks(shape, open, unfolding, at)
    BY DEF Unfolds
<1> DEFINE n == Len(open)
           m == Len(unfolding)
<1>2. n \in Nat /\ n # 0 /\ n # 1 /\ m \in Nat /\ unfolding \in Seq(Types)
    BY DEF Unfolds
<1>3. Len(outer) = n - 1 /\ \A i \in 1..(n - 1) : outer[i] = open[i] /\ i \in 1..n
    <2>1. outer = SubSeq(open, 1, n - 1) /\ n = Len(open)
        BY DEF Around
    <2> HIDE DEF n
    <2> QED BY <1>2, <2>1, ButLast
<1>4. /\ at \in [1..m -> 1..n]
      /\ \A j \in 1..m : at[j] \in 1..n /\ open[at[j]].type = unfolding[j]
                         /\ shape[unfolding[j]].kind = "recursive"
      /\ \A i, j \in 1..m : i < j => at[i] < at[j]
      /\ \A i \in 1..n : shape[open[i].type].kind = "recursive" => \E j \in 1..m : at[j] = i
    BY <1>1 DEF Tracks
<1> HIDE DEF n, m
<1>5. CASE shape[open[n].type].kind # "recursive"
    <2>1. fewer = unfolding
        BY <1>5 DEF n
    <2>2. ASSUME NEW j \in 1..m PROVE at[j] \in 1..(n - 1)
        <3>1. at[j] # n /\ at[j] \in 1..n
            BY <1>4, <1>5
        <3> QED BY <1>2, <3>1
    <2>3. at \in [1..m -> 1..(n - 1)]
        BY <1>4, <2>2
    <2>4. Tracks(shape, outer, unfolding, at)
        <3>1. \A j \in 1..m : outer[at[j]] = open[at[j]]
            BY <1>3, <2>2
        <3>2. \A j \in 1..m : outer[at[j]].type = unfolding[j] /\ shape[unfolding[j]].kind = "recursive"
            BY <1>4, <3>1
        <3>3. ASSUME NEW i \in 1..(n - 1), shape[outer[i].type].kind = "recursive"
              PROVE  \E j \in 1..m : at[j] = i
            BY <1>3, <1>4, <3>3
        <3> QED BY <1>3, <1>4, <2>3, <3>2, <3>3 DEF Tracks, m
    <2> QED BY <1>2, <2>1, <2>4 DEF Unfolds
<1>6. CASE shape[open[n].type].kind = "recursive"
    <2>1. fewer = SubSeq(unfolding, 1, m - 1)
        BY <1>6 DEF n, m
    <2>2. PICK top \in 1..m : at[top] = n
        <3>1. n \in 1..n
            BY <1>2
        <3> QED BY <1>4, <1>6, <3>1
    <2>3. m - 1 \in Nat /\ m \in 1..m /\ \A j \in 1..(m - 1) : j \in 1..m /\ j < m
        BY <1>2, <2>2
    <2>4. /\ fewer \in Seq(Types) /\ Len(fewer) = m - 1 /\ \A j \in 1..(m - 1) : fewer[j] = unfolding[j]
        <3>1. m # 0 /\ m = Len(unfolding)
            BY <2>3 DEF m
        <3> QED BY <1>2, <2>1, <3>1, ButLast
    <2>5. ASSUME NEW j \in 1..(m - 1) PROVE at[j] \in 1..(n - 1)
        <3>1. at[j] < at[m] /\ at[j] \in 1..n /\ at[m] \in 1..n
            BY <1>4, <2>3
        <3> QED BY <1>2, <3>1
    <2> DEFINE at2 == [j \in 1..(m - 1) |-> at[j]]
    <2>6. at2 \in [1..(m - 1) -> 1..(n - 1)] /\ \A j \in 1..(m - 1) : at2[j] = at[j]
        BY <2>5
    <2> HIDE DEF at2
    <2>7. ASSUME NEW j \in 1..(m - 1)
          PROVE  outer[at2[j]].type = fewer[j] /\ shape[fewer[j]].kind = "recursive"
        <3>1. at2[j] = at[j] /\ outer[at[j]] = open[at[j]] /\ fewer[j] = unfolding[j]
            BY <1>3, <2>4, <2>5, <2>6
        <3>2. open[at[j]].type = unfolding[j] /\ shape[unfolding[j]].kind = "recursive"
            BY <1>4, <2>3
        <3> QED BY <3>1, <3>2
    <2>8. \A i, j \in 1..(m - 1) : i < j => at2[i] < at2[j]
        BY <1>4, <2>3, <2>6
    <2>9. ASSUME NEW i \in 1..(n - 1), shape[outer[i].type].kind = "recursive"
          PROVE  \E j \in 1..(m - 1) : at2[j] = i
        <3>1. PICK j \in 1..m : at[j] = i
            BY <1>3, <1>4, <2>9
        <3>2. j # m
            <4>1. top = m
                <5>1. ~(top < m)
                    <6>1. ASSUME top < m PROVE FALSE
                        <7>1. n < at[m] /\ at[m] \in 1..n
                            BY <1>4, <2>2, <2>3, <6>1
                        <7> QED BY <1>2, <7>1
                    <6> QED BY <6>1
                <5> QED BY <1>2, <2>2, <5>1
            <4> QED BY <1>2, <2>2, <3>1, <4>1
        <3>3. j \in 1..(m - 1)
            BY <1>2, <3>1, <3>2
        <3> QED BY <2>6, <3>1, <3>3
    <2>10. Tracks(shape, outer, fewer, at2)
        BY <1>3, <2>4, <2>6, <2>7, <2>8, <2>9 DEF Tracks
    <2> QED BY <2>4, <2>10 DEF Unfolds
<1> QED BY <1>5, <1>6

\* A type that recurs is next inside of the place it was opened at.
LEMMA RecurrenceIsEnclosed ==
    ASSUME NEW shape, NEW open, NEW written, NEW unfolding, WrittenTrue(shape, written),
           OpenTrue(shape, open, written), Unfolds(shape, open, unfolding),
           NEW j \in 1..Len(unfolding), NEW z, z.name = unfolding[j], z.path = PathOf(open)
    PROVE  \E outer \in written : Encloses(outer, z)
<1>1. PICK at : Tracks(shape, open, unfolding, at)
    BY DEF Unfolds
<1> DEFINE i == at[j]
           h == PathOf(open)
<1>2. i \in 1..Len(open) /\ open[i].type = unfolding[j] /\ shape[unfolding[j]].kind = "recursive"
    BY <1>1 DEF Tracks
<1>3. open \in Seq(OpenSet) /\ IsOpen(shape, open[i], i = Len(open), Upto(h, i - 1), written)
    BY <1>2 DEF OpenTrue
<1>4. h \in Seq(Nat) /\ Len(h) = Len(open)
    BY <1>3, PathOfOpen
<1> HIDE DEF h, i
<1>5. PICK p \in written : p.path = Upto(h, i - 1) /\ p.name = unfolding[j] /\ p.tag = "recursive"
    BY <1>2, <1>3 DEF IsOpen
<1>6. Inside(h, p.path)
    <2>1. i - 1 \in 0..Len(h) /\ i - 1 < Len(h)
        BY <1>2, <1>4
    <2>2. Len(p.path) = i - 1 /\ \A k \in 1..(i - 1) : p.path[k] = h[k]
        BY <1>4, <1>5, <2>1, UptoIsPath
    <2> QED BY <2>1, <2>2 DEF Inside
<1> QED BY <1>5, <1>6 DEF Encloses, h

-----------------------------------------------------------------------------
(* The invariant of the writer.                                            *)

TypesFields(t) ==
    t = [pc |-> t.pc, shape |-> t.shape, next |-> t.next, open |-> t.open,
         unfolding |-> t.unfolding, written |-> t.written]

WritingTrue(t) ==
    /\ OpenTrue(t.shape, t.open, t.written)
    /\ Unfolds(t.shape, t.open, t.unfolding)
    /\ t.next = NextOf(t.shape, t.open)

TypesTrue(t) ==
    /\ TypesFields(t)
    /\ t.pc \in {"writing", "written", "failed"}
    /\ t.shape \in [Types -> TypeShapes]
    /\ WrittenTrue(t.shape, t.written)
    /\ t.pc = "writing" => WritingTrue(t)
    /\ t.pc = "written" => \A p \in t.written : AllHeld(t.shape, t.written, p)
    /\ t.pc = "failed" => \E u \in Reached(t.shape) : t.shape[u].kind = "wide"

TypesInv == types = Off \/ TypesTrue(types)

LEMMA ContinueIs ==
    ASSUME NEW t, TypesFields(t)
    PROVE  /\ TypesFields(Continue(t))
           /\ Continue(t).pc = IF t.open = <<>> THEN "written" ELSE t.pc
           /\ t.open # <<>> => Continue(t).next = NextOf(t.shape, t.open)
           /\ Continue(t).shape = t.shape /\ Continue(t).open = t.open
           /\ Continue(t).unfolding = t.unfolding /\ Continue(t).written = t.written
<1>1. CASE t.open = <<>>
    BY <1>1 DEF TypesFields, Continue
<1>2. CASE t.open # <<>>
    <2>1. Continue(t) = [t EXCEPT !.next = NextOf(t.shape, t.open)]
        BY <1>2 DEF Continue, NextOf
    <2> QED BY <1>2, <2>1 DEF TypesFields
<1> QED BY <1>1, <1>2

\* What is written or closed, and then continued.
LEMMA TypesContinue ==
    ASSUME NEW t, TypesFields(t), t.pc = "writing", t.shape \in [Types -> TypeShapes],
           WrittenTrue(t.shape, t.written),
           t.open # <<>> => OpenTrue(t.shape, t.open, t.written) /\ Unfolds(t.shape, t.open, t.unfolding),
           t.open = <<>> => \A p \in t.written : AllHeld(t.shape, t.written, p)
    PROVE  TypesTrue(Continue(t))
<1> DEFINE u == Continue(t)
<1>1. /\ TypesFields(u) /\ u.pc = IF t.open = <<>> THEN "written" ELSE t.pc
      /\ t.open # <<>> => u.next = NextOf(t.shape, t.open)
      /\ u.shape = t.shape /\ u.open = t.open
      /\ u.unfolding = t.unfolding /\ u.written = t.written
    BY ContinueIs
<1> HIDE DEF u
<1>2. TypesTrue(u)
    BY <1>1 DEF TypesTrue, WritingTrue
<1> QED BY <1>2 DEF u

LEMMA TypesBegin ==
    ASSUME TypesInit
    PROVE  TypesTrue(types)
<1>1. PICK shape \in [Types -> TypeShapes] :
        types = [pc |-> "writing", shape |-> shape, next |-> MaxTypes, open |-> <<>>,
                 unfolding |-> <<>>, written |-> {}]
    BY DEF TypesInit
<1>2. /\ types.pc = "writing" /\ types.shape = shape /\ types.next = MaxTypes /\ types.open = <<>>
      /\ types.unfolding = <<>> /\ types.written = {} /\ TypesFields(types)
    BY <1>1 DEF TypesFields
<1>3. WrittenTrue(shape, {})
    BY DEF WrittenTrue
<1>4. OpenTrue(shape, <<>>, {})
    <2>1. <<>> \in Seq(OpenSet) /\ 1..Len(<<>>) = {}
        OBVIOUS
    <2> QED BY <2>1 DEF OpenTrue
<1>5. Unfolds(shape, <<>>, <<>>)
    <2> DEFINE at == [j \in 1..0 |-> 0]
    <2>1. <<>> \in Seq(Types) /\ Len(<<>>) = 0 /\ 1..0 = {}
        OBVIOUS
    <2>2. at \in [1..0 -> 1..0]
        OBVIOUS
    <2> HIDE DEF at
    <2>3. Tracks(shape, <<>>, <<>>, at)
        BY <2>1, <2>2 DEF Tracks
    <2> QED BY <2>1, <2>3 DEF Unfolds
<1>6. NextOf(shape, <<>>) = MaxTypes
    BY DEF NextOf
<1> QED BY <1>2, <1>3, <1>4, <1>5, <1>6 DEF TypesTrue, WritingTrue

\* What a step that writes a place needs of it.
LEMMA PlaceIsNext ==
    ASSUME TypesTrue(types), types.pc = "writing", types.next # 0
    PROVE  /\ types.next \in Types /\ types.next = TypeAt(types.shape, Here)
           /\ types.next \in Reached(types.shape) /\ Here = PathOf(types.open) /\ Here \in Seq(Nat)
           /\ types.open \in Seq(OpenSet)
           /\ types.open # <<>> =>
                types.open[Len(types.open)].done
                    < Len(types.shape[types.open[Len(types.open)].type].of)
<1>1. Here = PathOf(types.open)
    BY DEF Here, PathOf
<1>2. types.open \in Seq(OpenSet)
    BY DEF TypesTrue, WritingTrue, OpenTrue
<1>3. Here \in Seq(Nat)
    BY <1>1, <1>2, PathOfOpen
<1>4. /\ types.shape \in [Types -> TypeShapes] /\ WrittenTrue(types.shape, types.written)
      /\ OpenTrue(types.shape, types.open, types.written)
      /\ types.next = NextOf(types.shape, types.open) /\ NextOf(types.shape, types.open) # 0
    BY DEF TypesTrue, WritingTrue
<1> DEFINE next == NextOf(types.shape, types.open)
<1>5. /\ next = TypeAt(types.shape, PathOf(types.open)) /\ next \in Reached(types.shape)
      /\ types.open # <<>> => types.open[Len(types.open)].done
                                < Len(types.shape[types.open[Len(types.open)].type].of)
    BY <1>4, NextIs
<1>6. next \in Types
    BY <1>5, WholeIsReached
<1> QED BY <1>1, <1>2, <1>3, <1>4, <1>5, <1>6

\* The fields a step changes.
Changes(r, t, open, unfolding, written) ==
    \/ r = [t EXCEPT !.written = written, !.open = open] /\ unfolding = t.unfolding
    \/ r = [t EXCEPT !.written = written, !.open = open, !.unfolding = unfolding]
    \/ r = [t EXCEPT !.open = open, !.unfolding = unfolding] /\ written = t.written

LEMMA FieldsChanged ==
    ASSUME NEW t, TypesFields(t), NEW open, NEW unfolding, NEW written, NEW r,
           Changes(r, t, open, unfolding, written)
    PROVE  /\ TypesFields(r) /\ r.pc = t.pc /\ r.shape = t.shape
           /\ r.open = open /\ r.unfolding = unfolding /\ r.written = written
<1>1. CASE r = [t EXCEPT !.written = written, !.open = open] /\ unfolding = t.unfolding
    BY <1>1 DEF TypesFields
<1>2. CASE r = [t EXCEPT !.written = written, !.open = open, !.unfolding = unfolding]
    BY <1>2 DEF TypesFields
<1>3. CASE r = [t EXCEPT !.open = open, !.unfolding = unfolding] /\ written = t.written
    BY <1>3 DEF TypesFields
<1> QED BY <1>1, <1>2, <1>3 DEF Changes

LEMMA WriteLeafKeeps ==
    ASSUME TypesTrue(types), WriteLeaf
    PROVE  TypesTrue(types')
<1> DEFINE recurs == types.shape[types.next].kind = "recursive" /\ InUnfolding(types.next)
           z == [path |-> Here, tag |-> IF recurs THEN "Rec" ELSE "primitive", name |-> types.next]
           more == types.written \cup {z}
           t == [types EXCEPT !.written = more, !.open = PartDone(@)]
           shape == types.shape
           open == types.open
<1>1. /\ types.pc = "writing" /\ types.next # 0 /\ types' = Continue(t)
      /\ shape[types.next].kind = "primitive" \/ recurs
    BY DEF WriteLeaf, Tag
<1>2. /\ types.next \in Types /\ types.next = TypeAt(shape, Here)
      /\ Here = PathOf(open) /\ Here \in Seq(Nat) /\ open \in Seq(OpenSet)
      /\ open # <<>> => open[Len(open)].done < Len(shape[open[Len(open)].type].of)
    BY <1>1, PlaceIsNext
<1>3. /\ TypesFields(types) /\ shape \in [Types -> TypeShapes] /\ WrittenTrue(shape, types.written)
      /\ OpenTrue(shape, open, types.written) /\ Unfolds(shape, open, types.unfolding)
    BY <1>1 DEF TypesTrue, WritingTrue
<1>4. /\ TypesFields(t) /\ t.pc = "writing" /\ t.shape = shape /\ t.written = more
      /\ t.open = PartDone(open) /\ t.unfolding = types.unfolding
    <2> HIDE DEF more
    <2>1. Changes(t, types, PartDone(open), types.unfolding, more)
        BY Zenon DEF Changes
    <2> HIDE DEF t
    <2> QED BY <1>1, <1>3, <2>1, FieldsChanged
<1>5. /\ z.path = PathOf(open) /\ z.name = types.next /\ z.tag = IF recurs THEN "Rec" ELSE "primitive"
      /\ z \in PlaceSet /\ z.tag \notin Aggregates
    BY <1>2 DEF PlaceSet, Aggregates
<1>6. z.tag = "Rec" => shape[z.name].kind = "recursive" /\ \E q \in types.written : Encloses(q, z)
    <2> SUFFICES ASSUME recurs PROVE \E q \in types.written : Encloses(q, z)
        BY <1>5
    <2>1. PICK j \in DOMAIN types.unfolding : types.unfolding[j] = types.next
        BY DEF InUnfolding
    <2>2. j \in 1..Len(types.unfolding)
        BY <1>3 DEF Unfolds
    <2> HIDE DEF z
    <2> QED BY <1>3, <1>5, <2>1, <2>2, RecurrenceIsEnclosed
<1>7. z.tag # "Rec" => z.tag = shape[z.name].kind
    BY <1>1, <1>5
<1>8. Adds(more, types.written, z)
    BY DEF Adds
<1>9. z.name = TypeAt(shape, z.path)
    BY <1>2, <1>5
<1> HIDE DEF z, more, t, shape, open, recurs
<1>10. WrittenTrue(shape, more)
    BY <1>3, <1>5, <1>6, <1>7, <1>8, <1>9, WrittenKept
<1>11. CASE open = <<>>
    <2>1. PartDone(open) = <<>>
        BY <1>11 DEF PartDone
    <2>2. types.written = {}
        <3>1. \A p \in types.written : Precedes(p.path, <<>>) /\ p.path \in Seq(Nat)
            <4>1. PathOf(open) = <<>>
                BY <1>11 DEF PathOf
            <4> QED BY <1>3, <4>1 DEF OpenTrue, IsBefore, WrittenTrue, PlaceSet
        <3>2. ASSUME NEW q \in Seq(Nat), Precedes(q, <<>>) PROVE FALSE
            BY <3>2 DEF Precedes, Inside
        <3> QED BY <3>1, <3>2
    <2>3. \A p \in more : AllHeld(shape, more, p)
        BY <1>5, <1>8, <2>2 DEF Adds, AllHeld
    <2>4. TypesTrue(Continue(t))
        BY <1>3, <1>4, <1>10, <2>1, <2>3, TypesContinue
    <2> QED BY <1>1, <2>4
<1>12. CASE open # <<>>
    <2>1. OpenTrue(shape, PartDone(open), more)
        BY <1>2, <1>3, <1>5, <1>8, <1>12, LeafStep
    <2>2. Unfolds(shape, PartDone(open), types.unfolding)
        BY <1>2, <1>3, <1>12, UnfoldsDone
    <2>3. PartDone(open) # <<>>
        <3>1. Len(PartDone(open)) = Len(open) /\ Len(open) # 0
            BY <1>2, <1>12, PartDoneIs
        <3> QED BY <3>1
    <2>4. TypesTrue(Continue(t))
        BY <1>3, <1>4, <1>10, <2>1, <2>2, <2>3, TypesContinue
    <2> QED BY <1>1, <2>4
<1> QED BY <1>11, <1>12

LEMMA OpenTypeKeeps ==
    ASSUME TypesTrue(types), OpenType
    PROVE  TypesTrue(types')
<1> DEFINE next == types.next
           kind == types.shape[next].kind
           z == [path |-> Here, tag |-> kind, name |-> next]
           more == types.written \cup {z}
           item == [type |-> next, done |-> 0]
           unfolding2 == IF kind = "recursive" THEN Append(types.unfolding, next) ELSE types.unfolding
           t == [types EXCEPT !.written = more, !.open = Append(@, item), !.unfolding = unfolding2]
           shape == types.shape
           open == types.open
<1>1. /\ types.pc = "writing" /\ next # 0 /\ types' = Continue(t)
      /\ kind \in Aggregates
    BY DEF OpenType, Tag, Aggregates
<1>2. /\ next \in Types /\ next = TypeAt(shape, Here) /\ next \in Reached(shape)
      /\ Here = PathOf(open) /\ Here \in Seq(Nat) /\ open \in Seq(OpenSet)
      /\ open # <<>> => open[Len(open)].done < Len(shape[open[Len(open)].type].of)
    BY <1>1, PlaceIsNext
<1>3. /\ TypesFields(types) /\ shape \in [Types -> TypeShapes] /\ WrittenTrue(shape, types.written)
      /\ OpenTrue(shape, open, types.written) /\ Unfolds(shape, open, types.unfolding)
    BY <1>1 DEF TypesTrue, WritingTrue
<1>4. /\ TypesFields(t) /\ t.pc = "writing" /\ t.shape = shape /\ t.written = more
      /\ t.open = Append(open, item) /\ t.unfolding = unfolding2
    <2> HIDE DEF more, item, unfolding2
    <2> DEFINE open2 == Append(open, item)
    <2>1. Changes(t, types, open2, unfolding2, more)
        BY Zenon DEF Changes
    <2>2. types.pc = "writing" /\ TypesFields(types)
        BY <1>1, <1>3
    <2> HIDE DEF t, open2
    <2>3. TypesFields(t) /\ t.pc = types.pc /\ t.shape = types.shape
          /\ t.open = open2 /\ t.unfolding = unfolding2 /\ t.written = more
        BY <2>1, <2>2, FieldsChanged
    <2> QED BY <2>2, <2>3 DEF open2
<1>5. /\ z.path = PathOf(open) /\ z.name = next /\ z.tag = shape[z.name].kind /\ z.tag = kind
      /\ z \in PlaceSet /\ z.tag \in Aggregates
    BY <1>1, <1>2 DEF PlaceSet, Aggregates
<1>6. z.tag # "Rec"
    BY <1>5 DEF Aggregates
<1>7. Adds(more, types.written, z)
    BY DEF Adds
<1>8. z.name = TypeAt(shape, z.path)
    BY <1>2, <1>5
<1>9. item = [type |-> z.name, done |-> 0]
    BY <1>5
<1>10. Unfolds(shape, Append(open, item), unfolding2)
    <2>1. CASE kind = "recursive"
        BY <1>2, <1>3, <2>1, UnfoldsRecursive
    <2>2. CASE kind # "recursive"
        BY <1>2, <1>3, <2>2, UnfoldsPlain
    <2> QED BY <2>1, <2>2
<1>11. Append(open, item) # <<>>
    <2>1. Len(Append(open, item)) = Len(open) + 1 /\ Len(open) \in Nat
        BY <1>2
    <2>2. Len(Append(open, item)) # 0
        BY <2>1
    <2> DEFINE grown == Append(open, item)
    <2>3. grown # <<>>
        <3>1. Len(grown) # 0 /\ Len(<<>>) = 0
            BY <2>2
        <3> HIDE DEF grown
        <3> QED BY <3>1
    <2> QED BY <2>3
<1> HIDE DEF z, more, t, shape, open, item, next, kind, unfolding2
<1>12. WrittenTrue(shape, more)
    BY <1>3, <1>5, <1>6, <1>7, <1>8, WrittenKept
<1>13. OpenTrue(shape, Append(open, [type |-> z.name, done |-> 0]), more)
    BY <1>2, <1>3, <1>5, <1>7, OpenStep
<1>14. TypesTrue(Continue(t))
    BY <1>3, <1>4, <1>9, <1>10, <1>11, <1>12, <1>13, TypesContinue
<1> QED BY <1>1, <1>14

LEMMA CloseTypeKeeps ==
    ASSUME TypesTrue(types), CloseType
    PROVE  TypesTrue(types')
<1> DEFINE shape == types.shape
           open == types.open
           top == open[Len(open)]
           outer == Around(open)
           fewer == IF shape[top.type].kind = "recursive"
                    THEN SubSeq(types.unfolding, 1, Len(types.unfolding) - 1) ELSE types.unfolding
           t == [types EXCEPT !.open = PartDone(outer), !.unfolding = fewer]
<1>1. types.pc = "writing" /\ types.next = 0 /\ types' = Continue(t)
    BY DEF CloseType, Closed, Around
<1>2. /\ TypesFields(types) /\ shape \in [Types -> TypeShapes] /\ WrittenTrue(shape, types.written)
      /\ OpenTrue(shape, open, types.written) /\ Unfolds(shape, open, types.unfolding)
      /\ NextOf(shape, open) = 0 /\ open \in Seq(OpenSet)
    BY <1>1 DEF TypesTrue, WritingTrue, OpenTrue
<1>3. /\ TypesFields(t) /\ t.pc = "writing" /\ t.shape = shape /\ t.written = types.written
      /\ t.open = PartDone(outer) /\ t.unfolding = fewer
    <2> HIDE DEF outer, fewer
    <2>1. Changes(t, types, PartDone(outer), fewer, types.written)
        BY Zenon DEF Changes
    <2> HIDE DEF t
    <2> QED BY <1>1, <1>2, <2>1, FieldsChanged
<1>4. open # <<>> /\ open[Len(open)].done = Len(shape[open[Len(open)].type].of)
    <2> HIDE DEF shape, open
    <2> QED BY <1>2, NothingNext
<1>5. outer = Around(open) /\ fewer = IF shape[open[Len(open)].type].kind = "recursive"
                    THEN SubSeq(types.unfolding, 1, Len(types.unfolding) - 1) ELSE types.unfolding
    OBVIOUS
<1> HIDE DEF shape, open, top, outer, fewer, t
<1>6. CASE Len(open) = 1
    <2>1. \A p \in types.written : AllHeld(shape, types.written, p)
        BY <1>2, <1>4, <1>6, CloseWhole
    <2>2. PartDone(outer) = <<>>
        <3>1. outer = <<>>
            BY <1>2, <1>5, <1>6 DEF Around
        <3> QED BY <3>1 DEF PartDone
    <2>3. TypesTrue(Continue(t))
        BY <1>2, <1>3, <2>1, <2>2, TypesContinue
    <2> QED BY <1>1, <2>3
<1>7. CASE Len(open) # 1
    <2>1. outer # <<>> /\ OpenTrue(shape, PartDone(outer), types.written)
        BY <1>2, <1>4, <1>5, <1>7, CloseStep
    <2>2. Unfolds(shape, outer, fewer)
        BY <1>2, <1>4, <1>5, <1>7, UnfoldsAround
    <2>3. outer \in Seq(OpenSet)
        BY <1>2, <1>4, <1>5, ButLast DEF Around
    <2>4. Unfolds(shape, PartDone(outer), fewer)
        BY <2>1, <2>2, <2>3, UnfoldsDone
    <2>5. PartDone(outer) # <<>>
        <3>1. Len(PartDone(outer)) = Len(outer) /\ Len(outer) # 0
            BY <2>1, <2>3, PartDoneIs
        <3> QED BY <3>1
    <2>6. TypesTrue(Continue(t))
        BY <1>2, <1>3, <2>1, <2>4, <2>5, TypesContinue
    <2> QED BY <1>1, <2>6
<1> QED BY <1>6, <1>7

LEMMA TypesNextKeeps ==
    ASSUME TypesTrue(types), TypesNext
    PROVE  TypesTrue(types')
<1>1. ASSUME Refuse PROVE TypesTrue(types')
    <2>1. /\ types.pc = "writing" /\ types.next # 0 /\ types.shape[types.next].kind = "wide"
          /\ types' = [types EXCEPT !.pc = "failed"]
        BY <1>1 DEF Refuse
    <2>2. types.next \in Reached(types.shape)
        BY <2>1, PlaceIsNext
    <2>3. /\ TypesFields(types') /\ types'.pc = "failed" /\ types'.shape = types.shape
          /\ types'.written = types.written
        BY <2>1 DEF TypesTrue, TypesFields
    <2> QED BY <2>1, <2>2, <2>3 DEF TypesTrue
<1> QED BY <1>1, WriteLeafKeeps, OpenTypeKeeps, CloseTypeKeeps DEF TypesNext

LEMMA TypesKept ==
    Spec => []TypesInv
<1>1. Init => TypesInv
    BY TypesBegin DEF Init, TypesInv
<1>2. TypesInv /\ [Next]_vars => TypesInv'
    <2> SUFFICES ASSUME TypesInv, [Next]_vars PROVE TypesInv'
        OBVIOUS
    <2>1. CASE TypesNext
        <3>1. types # Off
            BY <2>1, OffIsOff DEF TypesNext, WriteLeaf, OpenType, Refuse, CloseType, Closed
        <3> QED BY <2>1, <3>1, TypesNextKeeps DEF TypesInv
    <2>2. CASE UNCHANGED types
        BY <2>2 DEF TypesInv
    <2> QED BY <2>1, <2>2 DEF Next, vars, Analyse, Write, Compare, Carry, LookUp, Check, Display
<1> QED BY <1>1, <1>2, PTL DEF Spec

\* A path that starts with another.
LEMMA StartOf ==
    ASSUME NEW q \in Seq(Nat), NEW p \in Seq(Nat), Len(p) <= Len(q)
    PROVE  SubSeq(q, 1, Len(p)) = p <=> \A j \in 1..Len(p) : q[j] = p[j]
<1> DEFINE m == Len(p)
           b == SubSeq(q, 1, m)
<1>1. m \in Nat /\ m <= Len(q) /\ \A j \in 1..m : j \in 1..Len(q) /\ q[j] \in Nat
    OBVIOUS
<1>2. b \in Seq(Nat) /\ Len(b) = m /\ \A j \in 1..m : b[j] = q[j]
    <2> HIDE DEF m
    <2> QED BY <1>1
<1> HIDE DEF b
<1>3. (\A j \in 1..m : q[j] = p[j]) => b = p
    BY <1>2, SamePaths
<1>4. b = p => \A j \in 1..m : q[j] = p[j]
    BY <1>2
<1> QED BY <1>3, <1>4 DEF b

\* The parts of a place, as a reader of the whole finds them.
LEMMA PartsAreHeld ==
    ASSUME NEW q \in Seq(Nat), NEW p \in Seq(Nat)
    PROVE  Len(q) = Len(p) + 1 /\ SubSeq(q, 1, Len(p)) = p
             <=> \E k \in Nat : q = Append(p, k) /\ k = q[Len(q)]
<1>1. ASSUME Len(q) = Len(p) + 1, SubSeq(q, 1, Len(p)) = p
      PROVE  \E k \in Nat : q = Append(p, k) /\ k = q[Len(q)]
    <2> DEFINE k == q[Len(q)]
    <2>1. Len(p) \in Nat /\ Len(p) <= Len(q) /\ k \in Nat
        BY <1>1
    <2>2. \A j \in 1..Len(p) : q[j] = p[j]
        BY <1>1, <2>1, StartOf
    <2> DEFINE r == Append(p, k)
    <2>3. r \in Seq(Nat) /\ Len(r) = Len(q) /\ r[Len(p) + 1] = k /\ \A j \in 1..Len(p) : r[j] = p[j]
        BY <1>1, <2>1
    <2>4. \A j \in 1..Len(q) : r[j] = q[j]
        <3>1. k = q[Len(q)]
            OBVIOUS
        <3> HIDE DEF r, k
        <3> SUFFICES ASSUME NEW j \in 1..Len(q) PROVE r[j] = q[j]
            OBVIOUS
        <3>2. CASE j = Len(q)
            BY <1>1, <2>3, <3>1, <3>2
        <3>3. CASE j # Len(q)
            <4>1. j \in 1..Len(p)
                BY <1>1, <2>1, <3>3
            <4> QED BY <2>2, <2>3, <4>1
        <3> QED BY <3>2, <3>3
    <2>5. r = q
        <3> HIDE DEF r
        <3> QED BY <2>3, <2>4, SamePaths
    <2> QED BY <2>1, <2>5
<1>2. ASSUME NEW k \in Nat, q = Append(p, k)
      PROVE  Len(q) = Len(p) + 1 /\ SubSeq(q, 1, Len(p)) = p
    <2>1. Len(q) = Len(p) + 1 /\ Len(p) \in Nat /\ \A j \in 1..Len(p) : q[j] = p[j]
        BY <1>2
    <2>2. Len(p) <= Len(q)
        BY <2>1
    <2>3. SubSeq(q, 1, Len(p)) = p
        BY <2>1, <2>2, StartOf
    <2> QED BY <2>1, <2>3
<1> QED BY <1>1, <1>2

\* What is written can be read back.
LEMMA WrittenReadsBack ==
    ASSUME TypesInv
    PROVE  TypesReadBack
<1> SUFFICES ASSUME TypesTrue(types) PROVE TypesReadBack
    BY OffIsOff DEF TypesInv, TypesReadBack
<1>1. types.pc = "failed" => \E t \in Reached(types.shape) : types.shape[t].kind = "wide"
    BY DEF TypesTrue
<1> DEFINE shape == types.shape
           written == types.written
           PartsOf(place) == {p \in written : Len(p.path) = Len(place.path) + 1
                                             /\ SubSeq(p.path, 1, Len(place.path)) = place.path}
           Last(place) == {p.path[Len(p.path)] : p \in PartsOf(place)}
<1>2. ASSUME types.pc = "written", NEW place \in written
      PROVE  LET t == TypeAt(shape, place.path)
             IN  /\ place.name = t
                 /\ place.tag = shape[t].kind => Last(place) = DOMAIN shape[t].of
                 /\ place.tag # shape[t].kind =>
                      /\ place.tag = "Rec" /\ PartsOf(place) = {}
                      /\ \E outer \in written :
                           /\ outer.name = t /\ outer.tag = "recursive"
                           /\ Len(outer.path) < Len(place.path)
                           /\ SubSeq(place.path, 1, Len(outer.path)) = outer.path
    <2> DEFINE t == TypeAt(shape, place.path)
    <2>1. shape \in [Types -> TypeShapes] /\ WrittenTrue(shape, written) /\ AllHeld(shape, written, place)
        BY <1>2 DEF TypesTrue
    <2> HIDE DEF shape, written, t
    <2>2. /\ place.name = t /\ t \in Types
          /\ place.tag = "Rec" => \E q \in written : Encloses(q, place)
          /\ place.tag # "Rec" => place.tag = shape[t].kind
          /\ place.tag \notin Aggregates => Held(written, place.path) = {}
          /\ place.tag \in Aggregates => Held(written, place.path) = 1..Len(shape[t].of)
        BY <2>1 DEF WrittenTrue, AllHeld, PlaceSet, t
    <2>3. \A p \in written : p.path \in Seq(Nat)
        BY <2>1 DEF WrittenTrue, PlaceSet
    <2>4. \A p \in written : p \in PartsOf(place) <=>
            \E k \in Nat : p.path = Append(place.path, k) /\ k = p.path[Len(p.path)]
        BY <2>3, PartsAreHeld
    <2> HIDE DEF PartsOf
    <2>5. Last(place) = Held(written, place.path)
        <3>1. Last(place) \subseteq Held(written, place.path)
            BY <2>4 DEF Held, PartsOf
        <3>2. ASSUME NEW k \in Held(written, place.path) PROVE k \in Last(place)
            <4>1. PICK p \in written : p.path = Append(place.path, k) /\ k \in Nat
                BY DEF Held
            <4>2. k = p.path[Len(p.path)]
                <5> DEFINE path == place.path
                <5>1. path \in Seq(Nat) /\ p.path = Append(path, k)
                    BY <2>3, <4>1
                <5> HIDE DEF path
                <5> QED BY <4>1, <5>1
            <4> QED BY <2>4, <4>1, <4>2
        <3> QED BY <3>1, <3>2
    <2>6. Held(written, place.path) = {} => PartsOf(place) = {}
        BY <2>4 DEF Held, PartsOf
    <2>7. place.tag = shape[t].kind => Last(place) = DOMAIN shape[t].of
        <3>1. DOMAIN shape[t].of = 1..Len(shape[t].of) /\ shape[t].kind \in Kinds
            BY <2>1, <2>2, PartsDefined
        <3>2. CASE place.tag \in Aggregates
            BY <2>2, <2>5, <3>1, <3>2
        <3>3. ASSUME place.tag = shape[t].kind, place.tag \notin Aggregates
              PROVE  Last(place) = DOMAIN shape[t].of
            <4>1. shape[t].kind = "primitive"
                <5>1. place.tag \in {"plain", "recursive", "primitive", "Rec"}
                    BY <2>1 DEF WrittenTrue, PlaceSet, Aggregates
                <5> QED BY <3>1, <3>3, <5>1 DEF Kinds, Aggregates
            <4>2. shape[t] \in TypeShapes
                BY <2>1, <2>2
            <4>3. shape[t].of = <<>>
                BY <4>1, <4>2 DEF TypeShapes
            <4>4. DOMAIN shape[t].of = {}
                <5>1. DOMAIN <<>> = {}
                    OBVIOUS
                <5> QED BY <4>3, <5>1
            <4> QED BY <2>2, <2>5, <3>3, <4>4
        <3> QED BY <3>2, <3>3
    <2>8. ASSUME place.tag # shape[t].kind
          PROVE  /\ place.tag = "Rec" /\ PartsOf(place) = {}
                 /\ \E outer \in written :
                      /\ outer.name = t /\ outer.tag = "recursive"
                      /\ Len(outer.path) < Len(place.path)
                      /\ SubSeq(place.path, 1, Len(outer.path)) = outer.path
        <3>1. place.tag = "Rec" /\ place.tag \notin Aggregates
            BY <2>2, <2>8 DEF Aggregates
        <3>2. PICK outer \in written : Encloses(outer, place)
            BY <2>2, <3>1
        <3>3. /\ outer.name = t /\ outer.tag = "recursive" /\ Len(outer.path) < Len(place.path)
              /\ \A j \in 1..Len(outer.path) : outer.path[j] = place.path[j]
            BY <2>2, <3>2 DEF Encloses, Inside
        <3>4. SubSeq(place.path, 1, Len(outer.path)) = outer.path
            <4> DEFINE q == place.path
                       o == outer.path
            <4>1. q \in Seq(Nat) /\ o \in Seq(Nat) /\ Len(o) < Len(q) /\ \A j \in 1..Len(o) : o[j] = q[j]
                BY <2>3, <3>3
            <4> HIDE DEF q, o
            <4>2. SubSeq(q, 1, Len(o)) = o
                BY <4>1, StartOf
            <4> QED BY <4>2 DEF q, o
        <3> QED BY <2>2, <2>6, <3>1, <3>3, <3>4
    <2> QED BY <2>2, <2>7, <2>8 DEF t
<1> QED BY <1>1, <1>2 DEF TypesReadBack

\* What the metadata of a package says of its procedures is true, and the types
\* of their signatures can be read back from it, whatever the call graphs (which
\* are acyclic: a node is named by its hash), listings and types (MetadataTrue).
THEOREM MetadataIsTrue ==
    Spec => []MetadataTrue
<1>1. WalkInv /\ TypesInv => MetadataTrue
    BY VerdictIsTrue, WrittenReadsBack DEF MetadataTrue
<1> QED BY <1>1, WalkKept, TypesKept, PTL
=============================================================================
