------------------------- MODULE ResolutionContract -------------------------
(***************************************************************************)
(* What resolvePackageGraph promises its caller, whatever order it walks   *)
(* the manifests in: one call ends either refused, with a blocking         *)
(* diagnostic, or with a graph in which every import of every package is   *)
(* answered (FR-047).  `graph` maps an identity to the entry of the world  *)
(* that stands for it.                                                     *)
(***************************************************************************)
EXTENDS Naturals, Sequences, FiniteSets

CONSTANTS Package, Root, Unsupported, Satisfies(_, _), MaxNodes(_), NoEntry, Worlds

VARIABLES world, status, graph

vars == <<world, status, graph>>

entry == Worlds[world]

Nothing == [p \in Package |-> NoEntry]

InGraph(g) == {p \in Package : g[p] # NoEntry}

\* The import is answered by the one selected version of its target.
Answered(g, import) ==
    /\ import.constraint # Unsupported
    /\ import.target \in InGraph(g)
    /\ Satisfies(entry[g[import.target]].version, import.constraint)

Closed(g) ==
    \A p \in InGraph(g) :
        \A i \in DOMAIN entry[g[p]].imports : Answered(g, entry[g[p]].imports[i])

Imports(g, p, q) ==
    \E i \in DOMAIN entry[g[p]].imports : entry[g[p]].imports[i].target = q

Acyclic(g) ==
    ~ \E C \in (SUBSET InGraph(g)) \ {{}} :
          \A p \in C : \E q \in C : Imports(g, p, q)

Sound(g) ==
    /\ Root \in InGraph(g)
    /\ \A p \in InGraph(g) : /\ g[p] \in DOMAIN entry
                             /\ entry[g[p]].identity = p
                             /\ entry[g[p]].outcome = "readable"
    /\ Closed(g)
    /\ Acyclic(g)

\* The same bound the code has: it is looked at before each walked package.
Bounded(g) == Cardinality(InGraph(g)) <= MaxNodes(world)

Init ==
    /\ world \in DOMAIN Worlds
    /\ status = "pending"
    /\ graph = Nothing

Refuse ==
    /\ status = "pending"
    /\ status' = "refused"
    /\ UNCHANGED <<world, graph>>

Deliver ==
    /\ status = "pending"
    /\ status' = "resolved"
    /\ graph' \in [Package -> DOMAIN entry \cup {NoEntry}]
    /\ Sound(graph')
    /\ Bounded(graph')
    /\ UNCHANGED world

Next == Refuse \/ Deliver

Spec == Init /\ [][Next]_vars
=============================================================================
