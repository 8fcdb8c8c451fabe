---------------------------- MODULE UnitGraph -----------------------------
(***************************************************************************)
(* The three hand-written searches for strongly connected components, all  *)
(* with explicit stacks because a document may be deeper than a call       *)
(* stack: `components` of src/compiler/ir/unit-graph.mjs and               *)
(* `cyclic_components` of crates/semantic-ir/src/unit_graph.rs (two        *)
(* passes), and `components` of backends/rust-serde/graph.mjs (Tarjan).    *)
(* A graph is the sequence of its nodes' targets: edges[n] is the sequence *)
(* of nodes n points at, in authored order.                                *)
(***************************************************************************)
EXTENDS Integers, Sequences, SequencesExt, FiniteSets

LOCAL Top(stack) == stack[Len(stack)]

SetTop(stack, value) == [stack EXCEPT ![Len(stack)] = value]

----------------------------------------------------------------------------
(* Two passes: the order in which a depth-first search finishes the nodes, *)
(* then the reversed graph searched from the last finished one.            *)

VisitFrame(node) == [node |-> node, next |-> 1]

\* One run of the search's loop: s.stack holds the frames, s.seen the visited
\* nodes and s.order the finished ones.
RECURSIVE FinishFrom(_, _)
FinishFrom(edges, s) ==
    IF s.stack = <<>> THEN s
    ELSE LET top == Top(s.stack)
             more == top.next <= Len(edges[top.node])
             target == edges[top.node][top.next]
             moved == SetTop(s.stack, [top EXCEPT !.next = @ + 1])
         IN  FinishFrom(edges,
                CASE ~more ->
                       [s EXCEPT !.stack = Front(@), !.order = Append(@, top.node)]
                  [] more /\ target \notin s.seen ->
                       [s EXCEPT !.stack = Append(moved, VisitFrame(target)),
                                 !.seen = @ \cup {target}]
                  [] OTHER -> [s EXCEPT !.stack = moved])

Finished(edges) ==
    FoldLeft(LAMBDA s, root :
                IF root \in s.seen THEN s
                ELSE FinishFrom(edges, [s EXCEPT !.stack = <<VisitFrame(root)>>,
                                                 !.seen = @ \cup {root}]),
             [stack |-> <<>>, seen |-> {}, order |-> <<>>],
             [n \in DOMAIN edges |-> n]).order

Sources(edges, node) == {n \in DOMAIN edges : node \in ToSet(edges[n])}

\* The unseen nodes that reach a pending one, with the order of the stack left
\* out: the group is sorted before anything reads it.
RECURSIVE Gather(_, _, _, _)
Gather(edges, pending, group, seen) ==
    IF pending = {} THEN [group |-> group, seen |-> seen]
    ELSE LET node == CHOOSE n \in pending : TRUE
             fresh == Sources(edges, node) \ seen
         IN  Gather(edges, (pending \ {node}) \cup fresh, group \cup {node},
                    seen \cup fresh)

\* A single node is a cyclic component only when it points at itself.
Cyclic(edges, root, group) ==
    Cardinality(group) > 1 \/ root \in ToSet(edges[root])

\* The cyclic components, in the order the second pass finds them: what the
\* JavaScript reader reports.
components(edges) ==
    FoldLeft(LAMBDA s, root :
                IF root \in s.seen THEN s
                ELSE LET found == Gather(edges, {root}, {}, s.seen \cup {root})
                     IN  [seen |-> found.seen,
                          groups |-> IF Cyclic(edges, root, found.group)
                                     THEN Append(s.groups, found.group)
                                     ELSE s.groups],
             [seen |-> {}, groups |-> <<>>],
             Reverse(Finished(edges))).groups

Least(S) == CHOOSE n \in S : \A other \in S : n <= other

\* The Rust reader sorts the groups by their first member besides.
cyclic_components(edges) ==
    SortSeq(components(edges), LAMBDA g, h : Least(g) < Least(h))

----------------------------------------------------------------------------
(* Tarjan: t.index and t.low are the discovery number and the low link,    *)
(* t.stack the open nodes, t.found the closed groups.                      *)

LOCAL Smaller(a, b) == IF a <= b THEN a ELSE b

Discover(t, node) ==
    [t EXCEPT !.index = @ @@ (node :> t.counter),
              !.low = @ @@ (node :> t.counter),
              !.counter = @ + 1,
              !.stack = Append(@, node),
              !.work = Append(@, VisitFrame(node))]

Open(t, target) == target \in ToSet(t.stack)

\* An edge of the top frame: to an undiscovered node, to an open one, or to one
\* of a closed group.
Advance(t, target) ==
    LET top == Top(t.work)
        moved == [t EXCEPT !.work = SetTop(@, [top EXCEPT !.next = @ + 1])]
    IN  CASE target \notin DOMAIN t.index -> Discover(moved, target)
          [] target \in DOMAIN t.index /\ Open(t, target) ->
                [moved EXCEPT !.low[top.node] = Smaller(@, t.index[target])]
          [] OTHER -> moved

\* The open nodes from `node` up: what the pop loop takes off the stack.
Above(stack, node) ==
    LET at == CHOOSE i \in DOMAIN stack : stack[i] = node
    IN  SubSeq(stack, at, Len(stack))

\* The top frame is exhausted: its low link goes to its parent, and a node that
\* is its own low link closes a group.
Return(t) ==
    LET node == Top(t.work).node
        work == Front(t.work)
        lowered == IF work = <<>> THEN t.low
                   ELSE [t.low EXCEPT ![Top(work).node] = Smaller(@, t.low[node])]
        group == Above(t.stack, node)
    IN  IF t.low[node] = t.index[node]
        THEN [t EXCEPT !.work = work, !.low = lowered,
                       !.stack = SubSeq(@, 1, Len(@) - Len(group)),
                       !.found = Append(@, ToSet(group))]
        ELSE [t EXCEPT !.work = work, !.low = lowered]

RECURSIVE Tarjan(_, _)
Tarjan(edges, t) ==
    IF t.work = <<>> THEN t
    ELSE LET top == Top(t.work)
         IN  Tarjan(edges, IF top.next <= Len(edges[top.node])
                           THEN Advance(t, edges[top.node][top.next])
                           ELSE Return(t))

Groups(edges) ==
    FoldLeft(LAMBDA t, root :
                IF root \in DOMAIN t.index THEN t
                ELSE Tarjan(edges, Discover(t, root)),
             [index |-> <<>>, low |-> <<>>, counter |-> 0, stack |-> <<>>,
              work |-> <<>>, found |-> <<>>],
             [n \in DOMAIN edges |-> n]).found

\* The number of each node's component, given in declared order so that it is a
\* function of the document and not of the traversal.
componentOf(edges) ==
    LET group == [n \in DOMAIN edges |->
                     CHOOSE g \in ToSet(Groups(edges)) : n \in g]
        leaders == {Least(group[n]) : n \in DOMAIN edges}
    IN  [n \in DOMAIN edges |->
            Cardinality({l \in leaders : l < Least(group[n])})]

-----------------------------------------------------------------------------
(***************************************************************************)
(* Which references of a generated Rust crate are boxed                    *)
(* (backends/rust-serde/graph.mjs).  The types are numbered in declared    *)
(* order; a type is its rendering, the type its shape points at (0 for     *)
(* none, an unknown type otherwise), its fields, the payload types of its  *)
(* variants, and the types its operations take and return.  A field is its *)
(* type and its multiplicity's upper bound.                                *)
(***************************************************************************)

CONSTANT Unbounded  \* a multiplicity without an upper bound

Edge(from, to, position, key) ==
    [from |-> from, to |-> to, position |-> position, key |-> key]

\* Several values are held behind a Vec: no upper bound, or one above one.
isCollection(upper) == upper = Unbounded \/ upper > 1

\* The position at which a rendering materialises its one target.
TargetPosition ==
    [alias |-> "direct", reference |-> "identity", sequence |-> "collection",
     map |-> "collection"]

ShapeEdges(n, type) ==
    IF type.rendering \in DOMAIN TargetPosition
    THEN {Edge(n, type.target, TargetPosition[type.rendering], <<n, "target">>)}
    ELSE {}

collectEdges(types) ==
    UNION {ShapeEdges(n, types[n])
           \cup {Edge(n, types[n].fields[i].type,
                      IF isCollection(types[n].fields[i].upper)
                      THEN "collection" ELSE "direct", <<n, "field", i>>)
                    : i \in DOMAIN types[n].fields}
           \cup {Edge(n, types[n].payloads[i], "direct", <<n, "variant", i>>)
                    : i \in DOMAIN types[n].payloads}
           \cup {Edge(n, types[n].operations[i], "metadata", <<n, "operation", i>>)
                    : i \in DOMAIN types[n].operations}
           : n \in DOMAIN types}

\* The adjacency the components are taken over: edges between declared types.
Adjacency(types) ==
    [n \in DOMAIN types |->
        SetToSeq({e.to : e \in {e \in collectEdges(types) :
                                   e.from = n /\ e.to \in DOMAIN types}})]

\* buildGraph: a direct edge inside one component carries a Box.
boxed(types) ==
    LET component == componentOf(Adjacency(types))
    IN  {e.key : e \in {e \in collectEdges(types) :
                           /\ e.position = "direct"
                           /\ e.to \in DOMAIN types
                           /\ component[e.from] = component[e.to]}}

-----------------------------------------------------------------------------
(***************************************************************************)
(* The exact coefficients a document spells as text: a canonical integer,  *)
(* or a reduced fraction, whose parts fit an i128.  A spelling is the      *)
(* sequence of the parts between its slashes; a part is the number it      *)
(* denotes and whether it is spelled canonically (no leading zero, plus    *)
(* sign or negative zero).  The width w of i128 is the constant Width.     *)
(***************************************************************************)

CONSTANT Width  \* bits of an i128

I128_MIN == -(2 ^ (Width - 1))
I128_MAX == 2 ^ (Width - 1) - 1

Rejected(why) == [ok |-> FALSE, why |-> why, value |-> 0]
Obtained(value) == [ok |-> TRUE, why |-> "none", value |-> value]

integer(part) ==
    CASE ~part.canonical -> Rejected("invalid")
      [] part.canonical /\ part.value \in I128_MIN..I128_MAX -> Obtained(part.value)
      [] OTHER -> Rejected("outside")

LOCAL Abs(n) == IF n < 0 THEN -n ELSE n

\* Euclid's loop over the magnitudes, as both readers write it.
gcd[a \in Nat, b \in Nat] == IF b = 0 THEN a ELSE gcd[b, a % b]

Reduced(n, d) == gcd[Abs(n), d] = 1

\* A part outside i128 is reported before a part spelled wrongly.
Quotient(n, d) ==
    CASE n.why = "outside" \/ d.why = "outside" -> Rejected("outside")
      [] n.ok /\ d.ok /\ n.value # 0 /\ d.value >= 2 /\ Reduced(n.value, d.value) ->
             Obtained(n.value)
      [] OTHER -> Rejected("invalid")

rational(text) ==
    CASE Len(text) = 1 -> integer(text[1])
      [] Len(text) = 2 -> Quotient(integer(text[1]), integer(text[2]))
      [] OTHER -> Rejected("invalid")

-----------------------------------------------------------------------------
(***************************************************************************)
(* The dimension and unit graph of FR-146 as its two readers check it:     *)
(* src/compiler/ir/unit-graph.mjs and crates/semantic-ir/src/unit_graph.rs.*)
(* Both collect every defect at its pointer.  An identity is a number (its *)
(* place in string order); a declaration says whether its identity names   *)
(* its package and itself.  A term and a unit spell their coefficients as  *)
(* texts of a rational above.                                              *)
(***************************************************************************)

CONSTANT None  \* a unit without a target: the root of its dimension

Defect(code, pointer) == [code |-> code, pointer |-> pointer]

\* Where an identity is declared: its first declaration.
declared(nodes, identity) ==
    CHOOSE n \in DOMAIN nodes :
        /\ nodes[n].identity = identity
        /\ \A m \in DOMAIN nodes : nodes[m].identity = identity => n <= m

Identities(nodes) == {nodes[n].identity : n \in DOMAIN nodes}

\* index / identities: an identity is declared once and names what declares it.
indexDefects(nodes, label) ==
    {Defect("DUPLICATE_IDENTITY", <<label, n, "identity">>) :
        n \in {n \in DOMAIN nodes : declared(nodes, nodes[n].identity) # n}}
    \cup {Defect("INVALID_UNIT_GRAPH", <<label, n, "identity">>) :
             n \in {n \in DOMAIN nodes : ~nodes[n].named}}

----------------------------------------------------------------------------
(* Dimensions.                                                             *)

DimensionEdges(dimensions) ==
    [n \in DOMAIN dimensions |->
        LET known == SelectSeq(dimensions[n].terms, LAMBDA term :
                        term.dimension \in Identities(dimensions))
        IN  [i \in DOMAIN known |-> declared(dimensions, known[i].dimension)]]

ExponentDefect(exponent, pointer) ==
    LET parsed == integer(exponent)
    IN  CASE parsed.why = "outside" -> {Defect("INTEGER_OUTSIDE_I128", pointer)}
          [] parsed.why = "invalid" -> {Defect("INVALID_OPERAND", pointer)}
          [] parsed.ok /\ parsed.value = 0 -> {Defect("INVALID_UNIT_GRAPH", pointer)}
          [] OTHER -> {}

TermDefects(dimensions, n, i) ==
    LET terms == dimensions[n].terms
        at == <<"dimensions", n, "terms", i>>
    IN  ExponentDefect(terms[i].exponent, Append(at, "exponent"))
        \cup (IF terms[i].dimension \in Identities(dimensions) THEN {}
              ELSE {Defect("UNRESOLVED_DIMENSION_REF", Append(at, "dimension"))})
        \cup (IF i > 1 /\ terms[i - 1].dimension >= terms[i].dimension
              THEN {Defect("INVALID_UNIT_GRAPH", at)} ELSE {})

\* A cycle is reported at the first of its dimensions, at that one's first term
\* that stays in the cycle.
DimensionCycle(dimensions, group) ==
    LET first == Least(group)
        inside(i) == /\ dimensions[first].terms[i].dimension \in Identities(dimensions)
                     /\ declared(dimensions, dimensions[first].terms[i].dimension)
                            \in group
    IN  Defect("INVALID_UNIT_GRAPH",
               <<"dimensions", first, "terms",
                 Least({i \in DOMAIN dimensions[first].terms : inside(i)})>>)

DimensionDefects(dimensions, groups) ==
    {Defect("INVALID_UNIT_GRAPH", <<"dimensions", n, "terms">>) :
        n \in {n \in DOMAIN dimensions :
                  dimensions[n].base /\ dimensions[n].terms # <<>>}}
    \cup UNION {TermDefects(dimensions, n, i) :
                   <<n, i>> \in {<<n, i>> \in (DOMAIN dimensions) \X (1..3) :
                                    i \in DOMAIN dimensions[n].terms}}
    \cup {DimensionCycle(dimensions, g) : g \in ToSet(groups)}

----------------------------------------------------------------------------
(* Units.  Only the rule about a root's scale reads differently in the two *)
(* readers: JavaScript leaves a zero scale to the rule before it.          *)

UnitEdges(units) ==
    [n \in DOMAIN units |->
        IF units[n].target \in Identities(units)
        THEN <<declared(units, units[n].target)>> ELSE <<>>]

CoefficientDefect(text, pointer) ==
    LET parsed == rational(text)
    IN  CASE parsed.why = "outside" -> {Defect("INTEGER_OUTSIDE_I128", pointer)}
          [] parsed.why = "invalid" -> {Defect("INVALID_OPERAND", pointer)}
          [] OTHER -> {}

Zero(text) == Len(text) = 1 /\ rational(text).ok /\ rational(text).value = 0
One(text) == Len(text) = 1 /\ rational(text).ok /\ rational(text).value = 1

SameDimension(dimensions, units, n, target) ==
    \/ units[n].dimension \notin Identities(dimensions)
    \/ units[target].dimension \notin Identities(dimensions)
    \/ units[target].dimension = units[n].dimension

TargetDefects(dimensions, units, n) ==
    LET pointer == <<"units", n, "target">>
    IN  IF units[n].target \notin Identities(units)
        THEN {Defect("UNRESOLVED_UNIT_REF", pointer)}
        ELSE IF SameDimension(dimensions, units, n,
                              declared(units, units[n].target))
             THEN {} ELSE {Defect("INVALID_UNIT_GRAPH", pointer)}

\* Mutant: every unit without a target may be a root.
SecondRootNever(units, n) == FALSE

\* A dimension has one root: an earlier one is already there.
SecondRoot(units, n) ==
    \E m \in DOMAIN units :
        m < n /\ units[m].target = None /\ units[m].dimension = units[n].dimension

RootDefects(units, n, badScale) ==
    (IF SecondRoot(units, n) THEN {Defect("INVALID_UNIT_GRAPH", <<"units", n>>)}
     ELSE {})
    \cup (IF badScale
          THEN {Defect("INVALID_UNIT_GRAPH", <<"units", n, "scale">>)} ELSE {})
    \cup (IF rational(units[n].offset).ok /\ ~Zero(units[n].offset)
          THEN {Defect("INVALID_UNIT_GRAPH", <<"units", n, "offset">>)} ELSE {})

ScaleNotOne(text) == rational(text).ok /\ ~One(text)

\* JavaScript leaves a zero scale to the rule before it.
ScaleNeitherZeroNorOne(text) == ScaleNotOne(text) /\ ~Zero(text)

UnitDefects(dimensions, units, n, badScale) ==
    CoefficientDefect(units[n].scale, <<"units", n, "scale">>)
    \cup CoefficientDefect(units[n].offset, <<"units", n, "offset">>)
    \cup (IF units[n].dimension \in Identities(dimensions) THEN {}
          ELSE {Defect("UNRESOLVED_DIMENSION_REF", <<"units", n, "dimension">>)})
    \cup (IF Zero(units[n].scale)
          THEN {Defect("INVALID_UNIT_GRAPH", <<"units", n, "scale">>)} ELSE {})
    \cup (IF units[n].target = None THEN RootDefects(units, n, badScale)
          ELSE TargetDefects(dimensions, units, n))

UnitCycles(groups) ==
    {Defect("INVALID_UNIT_GRAPH", <<"units", Least(g), "target">>) :
        g \in ToSet(groups)}

----------------------------------------------------------------------------
checkUnitGraph(document) ==
    LET dimensions == document.dimensions
        units == document.units
    IN  indexDefects(dimensions, "dimensions") \cup indexDefects(units, "units")
        \cup DimensionDefects(dimensions, components(DimensionEdges(dimensions)))
        \cup UNION {UnitDefects(dimensions, units, n,
                                ScaleNeitherZeroNorOne(units[n].scale))
                       : n \in DOMAIN units}
        \cup UnitCycles(components(UnitEdges(units)))

decide(document) ==
    LET dimensions == document.dimensions
        units == document.units
    IN  indexDefects(dimensions, "dimensions") \cup indexDefects(units, "units")
        \cup DimensionDefects(dimensions,
                              cyclic_components(DimensionEdges(dimensions)))
        \cup UNION {UnitDefects(dimensions, units, n, ScaleNotOne(units[n].scale))
                       : n \in DOMAIN units}
        \cup UnitCycles(cyclic_components(UnitEdges(units)))
=============================================================================
