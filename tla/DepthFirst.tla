---------------------------- MODULE DepthFirst ----------------------------
(***************************************************************************)
(* The depth-first walk four parts of the repository look for cycles with: *)
(*                                                                         *)
(*   "first"  crates/semantic-ir/src/rules.rs, over composite              *)
(*            relationships and over package imports: an explicit stack of *)
(*            frames, and the first back edge ends the walk;               *)
(*   "each"   compiler/ir/reader.mjs, over composite relationships: a      *)
(*            recursive visit that reports every back edge it meets;       *)
(*   "cycle"  compiler/packages/resolve.mjs, over package imports: the     *)
(*            same, but a cycle is reported once, however it was entered.  *)
(*                                                                         *)
(* A frame is the call of visit, or the element of the explicit stack, for *)
(* one node: the node and the next of its edges to examine.                *)
(***************************************************************************)
EXTENDS Naturals, Sequences, SequencesExt

CONSTANTS
    N,       \* how many nodes are declared; the walk starts from them in order
    Graphs,  \* the graphs walked
    Walkers  \* of "first", "each" and "cycle", those considered

ASSUME NAssumption == N \in Nat

Node == 1..N

Missing == 0  \* the target of an edge to something that is not declared

\* A graph gives each node the targets of its edges, in the order of the
\* relationships or imports it lists.  Package edges only lead to packages.
ASSUME GraphsAssumption == Graphs \subseteq [Node -> Seq(Node \cup {Missing})]
ASSUME WalkersAssumption == Walkers \subseteq {"first", "each", "cycle"}

VARIABLES
    targets,  \* the graph
    walker,
    colour,   \* of each node: white, grey on the path, black when finished
    path,     \* the frames
    reports,  \* the back edges reported: where, and the cycle each closes
    rank      \* which node was finished when; the code does not keep it

vars == <<targets, walker, colour, path, reports, rank>>

Black == {n \in Node : colour[n] = "black"}
White == {n \in Node : colour[n] = "white"}

Top == path[Len(path)]
Given == Top.next <= Len(targets[Top.at])
Target == targets[Top.at][Top.next]

\* The first report ends the walk of the Rust reader.
Stopped == walker = "first" /\ reports # {}

Done == path = << >> /\ (White = {} \/ Stopped)

Frame(n) == [at |-> n, next |-> 1]

\* Mutant: the edge examined is examined again.
Repeated == path

\* The path with the edge at its top examined.
Passed == [path EXCEPT ![Len(path)].next = @ + 1]

PlaceOf(n) == CHOOSE i \in DOMAIN path : path[i].at = n

\* The nodes of the path from n on.
CycleFrom(n) == [i \in 1..(Len(path) - PlaceOf(n) + 1) |-> path[i + PlaceOf(n) - 1].at]

\* A cycle with its least node first.
Rotated(cycle) ==
    LET k == CHOOSE k \in DOMAIN cycle : \A j \in DOMAIN cycle : cycle[k] <= cycle[j]
    IN SubSeq(cycle, k, Len(cycle)) \o SubSeq(cycle, 1, k - 1)

----------------------------------------------------------------------------
\* The outer loop: the next node no walk has entered.
Start ==
    /\ path = << >>
    /\ ~Stopped
    /\ \E n \in White :
          /\ \A m \in White : n <= m
          /\ colour' = [colour EXCEPT ![n] = "grey"]
          /\ path' = <<Frame(n)>>
    /\ UNCHANGED <<targets, walker, reports, rank>>

\* Mutant: a node is finished, its colour black, as soon as it is met.
EnterFinished ==
    /\ path # << >>
    /\ Given
    /\ Target \in White
    /\ colour' = [colour EXCEPT ![Target] = "black"]
    /\ path' = Append(Passed, Frame(Target))
    /\ UNCHANGED <<targets, walker, reports, rank>>

Enter ==
    /\ path # << >>
    /\ Given
    /\ Target \in White
    /\ colour' = [colour EXCEPT ![Target] = "grey"]
    /\ path' = Append(Passed, Frame(Target))
    /\ UNCHANGED <<targets, walker, reports, rank>>

\* A finished target, or one that is not declared.
Skip ==
    /\ path # << >>
    /\ Given
    /\ Target \in Black \cup {Missing}
    /\ path' = Passed
    /\ UNCHANGED <<targets, walker, colour, reports, rank>>

\* Only "cycle" looks whether it has reported the cycle before.
Known(cycle) ==
    /\ walker = "cycle"
    /\ \E r \in reports : Rotated(r.cycle) = Rotated(cycle)

BackEdge ==
    /\ path # << >>
    /\ Given
    /\ Target \in Node /\ colour[Target] = "grey"
    /\ LET cycle == CycleFrom(Target)
       IN reports' = IF Known(cycle) THEN reports
                     ELSE reports \cup {[at |-> Top.at, edge |-> Top.next, cycle |-> cycle]}
    /\ path' = IF walker = "first" THEN << >> ELSE Passed
    /\ UNCHANGED <<targets, walker, colour, rank>>

Finish ==
    /\ path # << >>
    /\ ~Given
    /\ colour' = [colour EXCEPT ![Top.at] = "black"]
    /\ rank' = [rank EXCEPT ![Top.at] = Cardinality(Black)]
    /\ path' = SubSeq(path, 1, Len(path) - 1)
    /\ UNCHANGED <<targets, walker, reports>>

Init ==
    /\ targets \in Graphs
    /\ walker \in Walkers
    /\ walker = "cycle" => \A n \in Node : ~Contains(targets[n], Missing)
    /\ colour = [n \in Node |-> "white"]
    /\ path = << >>
    /\ reports = {}
    /\ rank = [n \in Node |-> 0]

Next == Start \/ Enter \/ Skip \/ BackEdge \/ Finish

\* The walk is a loop of one call that nothing suspends.
Spec == Init /\ [][Next]_vars /\ WF_vars(Next)

----------------------------------------------------------------------------
TypeOK ==
    /\ targets \in Graphs
    /\ walker \in Walkers
    /\ colour \in [Node -> {"white", "grey", "black"}]
    /\ path \in Seq([at : Node, next : Nat \ {0}])
    /\ \A r \in reports : r.at \in Node /\ r.edge \in Nat \ {0} /\ r.cycle \in Seq(Node)
    /\ rank \in [Node -> Nat]

\* An edge of the graph, by its ends.
Edge(m, n) == \E i \in DOMAIN targets[m] : targets[m][i] = n

\* In every set of nodes there is one no edge leads back into the set from:
\* no walk along edges comes round.
Acyclic ==
    \A C \in SUBSET Node : C # {} => \E m \in C : \A n \in C : ~Edge(m, n)

\* A walk that reports nothing has looked at everything: the graph it calls
\* acyclic is acyclic, whatever order it came by its nodes in.
SilenceIsProof == Done /\ reports = {} => Acyclic

\* What is reported as a cycle is one: each node has an edge to the next and
\* the last to the first, and the edge pointed at is the one that closes it.
ReportsAreCycles ==
    \A r \in reports :
        LET c == r.cycle
        IN /\ c # << >>
           /\ \A i \in 1..(Len(c) - 1) : Edge(c[i], c[i + 1])
           /\ c[Len(c)] = r.at
           /\ r.edge \in DOMAIN targets[r.at]
           /\ targets[r.at][r.edge] = c[1]

\* Nothing is finished before what it leads to, unless a cycle was reported:
\* the order of finishing is one in which everything may be processed.
FinishedInOrder ==
    reports = {} =>
      \A m \in Black : \A n \in Node : Edge(m, n) => n \in Black /\ rank[n] < rank[m]

\* The package resolver says each cycle once.
SaidOnce ==
    walker = "cycle" =>
      \A r, s \in reports : Rotated(r.cycle) = Rotated(s.cycle) => r = s

\* The walk ends, on a graph of any shape.
Ends == <>Done

\* Whatever order the walk comes by its nodes in, what it reports are cycles,
\* each once, and what it is silent about is acyclic and finished in order (the
\* four depth-first walks).
WalkIsSound ==
    /\ TypeOK
    /\ SilenceIsProof
    /\ ReportsAreCycles
    /\ FinishedInOrder
    /\ SaidOnce

-----------------------------------------------------------------------------
(* Every graph of N nodes with up to two edges from each. *)

AllGraphs ==
    LET Edges == UNION {[1..k -> Node \cup {Missing}] : k \in 0..2}
    IN [Node -> Edges]
=============================================================================
