----------------------------- MODULE TypeWriter -----------------------------
(***************************************************************************)
(* main.rs of miden-package-metadata: the types of an export's signature   *)
(* written as JSON, the contract of packages/utils/src/manifest.ts.        *)
(* Structs and enums may be recursive: each is written out where it is     *)
(* reached, and as { "Rec": name } where it recurs inside itself.  One     *)
(* action is one call of `TypeWriter::ty` up to its first call of itself,  *)
(* or the end of one.                                                      *)
(***************************************************************************)
EXTENDS Naturals, Sequences, FiniteSets

CONSTANTS MaxTypes,  \* types an export is made of: a bound
          MaxParts   \* fields, variants or parameters of one: a bound

VARIABLE types

ASSUME TypesAssumption == MaxTypes \in Nat \ {0} /\ MaxParts \in Nat

\* Primitives; what is made of other types (a pointer, list, array, function,
\* struct or enum); the structs and enums that may recur, told apart by name;
\* and an enum with a discriminant that fits no u64.
Types == 1..MaxTypes
Kinds == {"primitive", "plain", "recursive", "wide"}
TypeShapes ==
    [kind : {"primitive"}, of : {<<>>}]
        \cup [kind : Kinds \ {"primitive"}, of : UNION {[1..n -> Types] : n \in 1..MaxParts}]

\* Types are built from the inside out, but for what recurs.
WellBuilt(shape) ==
    \A t \in Types : shape[t].kind # "recursive" =>
        \A i \in DOMAIN shape[t].of :
            shape[t].of[i] < t \/ shape[shape[t].of[i]].kind = "recursive"

InUnfolding(t) == \E i \in DOMAIN types.unfolding : types.unfolding[i] = t

-----------------------------------------------------------------------------
\* `open` holds the types being written and how many of their parts are, and
\* `written` a tag for every place of the JSON, named by its path.
TypesInit ==
    \E shape \in {s \in [Types -> TypeShapes] : WellBuilt(s)} :
        types = [pc |-> "writing", shape |-> shape, next |-> MaxTypes, open |-> <<>>,
                 unfolding |-> <<>>, written |-> {}]

Here == [i \in DOMAIN types.open |-> types.open[i].done + 1]
Tag(tag) == types.written \cup {[path |-> Here, tag |-> tag, name |-> types.next]}

\* What is written next once a part, or the whole, is done.
PartDone(open) ==
    IF open = <<>> THEN <<>>
    ELSE [open EXCEPT ![Len(open)].done = @ + 1]
Continue(next) ==
    IF next.open = <<>> THEN [next EXCEPT !.pc = "written"]
    ELSE LET top == next.open[Len(next.open)]
             of == next.shape[top.type].of
         IN  [next EXCEPT !.next = IF top.done < Len(of) THEN of[top.done + 1] ELSE 0]

\* A primitive, or a type that recurs inside itself.
WriteLeaf ==
    LET recurs == types.shape[types.next].kind = "recursive" /\ InUnfolding(types.next) IN
    /\ types.pc = "writing" /\ types.next # 0
    /\ types.shape[types.next].kind = "primitive" \/ recurs
    /\ types' = Continue([types EXCEPT !.written = Tag(IF recurs THEN "Rec" ELSE "primitive"),
                                    !.open = PartDone(@)])

\* aggregate, function and the types around one.
OpenType ==
    LET kind == types.shape[types.next].kind IN
    /\ types.pc = "writing" /\ types.next # 0
    /\ kind = "plain" \/ (kind = "recursive" /\ ~InUnfolding(types.next))
    /\ types' = Continue([types EXCEPT
                    !.written = Tag(kind),
                    !.open = Append(@, [type |-> types.next, done |-> 0]),
                    !.unfolding = IF kind = "recursive" THEN Append(@, types.next) ELSE @])

\* A discriminant that does not fit: the whole run fails.
Refuse ==
    /\ types.pc = "writing" /\ types.next # 0
    /\ types.shape[types.next].kind = "wide"
    /\ types' = [types EXCEPT !.pc = "failed"]

Closed(kept) ==
    LET top == types.open[Len(types.open)]
        outer == SubSeq(types.open, 1, Len(types.open) - 1)
    IN  /\ types.pc = "writing" /\ types.next = 0
        /\ types' = Continue([types EXCEPT
                        !.open = PartDone(outer),
                        !.unfolding = IF types.shape[top.type].kind = "recursive" /\ ~kept
                                      THEN SubSeq(@, 1, Len(@) - 1) ELSE @])

\* Variant with one plausible mistake: what was unfolded once stays so.
CloseTypeKeepsUnfolding == Closed(TRUE)

\* The parts are all written.
CloseType == Closed(FALSE)

TypesNext == WriteLeaf \/ OpenType \/ Refuse \/ CloseType

-----------------------------------------------------------------------------
\* The type at a path of the whole, by the definitions alone.
TypeAt(shape, path) ==
    LET at[n \in 0..Len(path)] == IF n = 0 THEN MaxTypes ELSE shape[at[n - 1]].of[path[n]]
    IN  at[Len(path)]

\* The types the whole is made of: what every set that holds it and all parts
\* of its own holds.
Reached(shape) ==
    LET complete == {S \in SUBSET Types : MaxTypes \in S /\ \A t \in S : \A i \in DOMAIN shape[t].of :
                                             shape[t].of[i] \in S}
    IN  {t \in Types : \A S \in complete : t \in S}

\* A reader of the JSON can unfold it to the type it was written from: every
\* place holds the type that belongs there with all of its parts, and a `Rec`
\* stands where the type recurs inside the struct or enum of that name that
\* encloses it ("a `Rec` therefore always refers to an enclosing `Struct` or
\* `Enum` of that name", manifest.ts).  It fails only for a discriminant.
TypesReadBack ==
    /\ types.pc = "failed" => \E t \in Reached(types.shape) : types.shape[t].kind = "wide"
    /\ types.pc = "written" =>
        \A place \in types.written :
            LET t == TypeAt(types.shape, place.path)
                parts == {p \in types.written : Len(p.path) = Len(place.path) + 1
                                                 /\ SubSeq(p.path, 1, Len(place.path)) = place.path}
            IN  /\ place.name = t
                /\ place.tag = types.shape[t].kind =>
                     {p.path[Len(p.path)] : p \in parts} = DOMAIN types.shape[t].of
                /\ place.tag # types.shape[t].kind =>
                     /\ place.tag = "Rec" /\ parts = {}
                     /\ \E outer \in types.written :
                          /\ outer.name = t /\ outer.tag = "recursive"
                          /\ Len(outer.path) < Len(place.path)
                          /\ SubSeq(place.path, 1, Len(outer.path)) = outer.path
=============================================================================
