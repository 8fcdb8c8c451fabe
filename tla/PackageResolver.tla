-------------------------- MODULE PackageResolver --------------------------
(***************************************************************************)
(* The package graph resolver of src/compiler/packages/resolve.mjs         *)
(* (FR-047): the manifests a compile can see are read in the declared      *)
(* search order, a worklist walks the imports from the root, one version   *)
(* of each identity is selected, and the graph is then checked for version *)
(* conflicts and import cycles.                                            *)
(*                                                                         *)
(* What a compile can see is a `world`: entry 0 is the manifest of the     *)
(* package root, entry i the i-th directory entry met in the search        *)
(* directories, in their declared order and each in readDir order.  Text,  *)
(* loci and messages are left out; a diagnostic keeps its code and the     *)
(* package it is about.                                                    *)
(***************************************************************************)
EXTENDS Naturals, Sequences, FiniteSets

CONSTANTS
    Package,            \* package identities
    Root,               \* the identity the root manifest declares
    Version,            \* version texts
    Rank(_),            \* position of a version in descending precedence
    Constraint,         \* version constraints the two accepted forms can write
    Unsupported,        \* any other constraint text
    Satisfies(_, _),    \* Satisfies(v, c): version v satisfies constraint c
    MaxNodes(_),        \* limits.maxNodes of the call
    NoEntry,            \* the entry of an identity nothing is selected for
    Worlds              \* the inputs of a resolution, indexed

\* What reading one directory entry ends in.
Outcome == {"readable", "rejected", "unversioned", "absent", "escaping"}

Import == [target : Package, constraint : Constraint \cup {Unsupported}]

Entry == [identity : Package, version : Version, outcome : Outcome,
          imports : Seq(Import)]

ASSUME RootAssumption == Root \in Package
ASSUME MaxNodesAssumption == \A w \in DOMAIN Worlds : MaxNodes(w) \in Nat
ASSUME NoEntryAssumption == NoEntry \notin Nat
ASSUME RankAssumption == \A v \in Version : Rank(v) \in Nat
ASSUME SatisfiesAssumption ==
    \A v \in Version, c \in Constraint : Satisfies(v, c) \in BOOLEAN
ASSUME UnsupportedAssumption == Unsupported \notin Constraint
ASSUME WorldsAssumption ==
    \A w \in DOMAIN Worlds :
        /\ \E n \in DOMAIN Worlds[w] :
              n \in Nat /\ Worlds[w] \in [0..n -> Entry]
        /\ Worlds[w][0].identity = Root

VARIABLES
    world,          \* which of Worlds is on disk; never changed
    phase,          \* how far resolvePackageGraph has come
    cursor,         \* the next directory entry discoverCandidates reads
    candidates,     \* entries discoverCandidates kept
    selected,       \* identity -> the entry selected for it
    constraints,    \* identity -> the constraints recorded on it, in order
    edges,          \* identity -> the identities its walked manifest imports
    queue,          \* entries waiting to be walked
    current,        \* the entry being walked
    pending,        \* the imports of `current` not yet looked at
    diagnostics

vars == <<world, phase, cursor, candidates, selected, constraints, edges,
          queue, current, pending, diagnostics>>

walkVars == <<selected, constraints, edges, queue, current, pending>>

\* The entries a compile can see.
entry == Worlds[world]

Phase == {"read", "discover", "walk", "conflicts", "cycles", "done"}

Code == {"INVALID_MANIFEST", "PATH_ESCAPE", "UNSUPPORTED_VERSION_CONSTRAINT",
         "IMPORT_NOT_FOUND", "IMPORT_VERSION_UNSATISFIED",
         "IMPORT_VERSION_CONFLICT", "PACKAGE_CYCLE", "LIMIT_MAX_NODES"}

Report(code, package) ==
    diagnostics' = diagnostics \cup {[code |-> code, package |-> package]}

----------------------------------------------------------------------------
(* Candidates and the selection among them                                 *)

\* The sort of byIdentity: highest version first, then the declared order.
\* The list order refines the directory order, and the sort is stable.
Ahead(e, f) ==
    \/ Rank(entry[e].version) < Rank(entry[f].version)
    \/ Rank(entry[e].version) = Rank(entry[f].version) /\ e < f

Offered(p) == {e \in candidates : entry[e].identity = p}

\* The offered entries that satisfy every constraint of the list cs.
Matching(p, cs) ==
    {e \in Offered(p) :
        \A i \in DOMAIN cs : Satisfies(entry[e].version, cs[i].constraint)}

\* Mutant: the list is sorted the other way round.
Lowest(S) == CHOOSE e \in S : \A f \in S \ {e} : Ahead(f, e)

\* matching[0] of a list in byIdentity's order.
First(S) == CHOOSE e \in S : \A f \in S \ {e} : Ahead(e, f)

Selected == {p \in Package : selected[p] # NoEntry}

----------------------------------------------------------------------------
Init ==
    /\ world \in DOMAIN Worlds
    /\ phase = "read"
    /\ cursor = 1
    /\ candidates = {}
    /\ selected = [p \in Package |-> NoEntry]
    /\ constraints = [p \in Package |-> <<>>]
    /\ edges = [p \in Package |-> <<>>]
    /\ queue = <<>>
    /\ current = 0
    /\ pending = <<>>
    /\ diagnostics = {}

\* The root manifest does not read: its own diagnostics are the result.
RejectRoot ==
    /\ phase = "read"
    /\ entry[0].outcome # "readable"
    /\ phase' = "done"
    /\ Report("INVALID_MANIFEST", Root)
    /\ UNCHANGED <<world, cursor, candidates, walkVars>>

ReadRoot ==
    /\ phase = "read"
    /\ entry[0].outcome = "readable"
    /\ phase' = "discover"
    /\ UNCHANGED <<world, cursor, candidates, walkVars, diagnostics>>

Discovering == phase = "discover" /\ cursor \in DOMAIN entry

\* A symlink out of the search root is reported and passed over.
RefuseEscape ==
    /\ Discovering
    /\ entry[cursor].outcome = "escaping"
    /\ Report("PATH_ESCAPE", entry[cursor].identity)
    /\ cursor' = cursor + 1
    /\ UNCHANGED <<world, phase, candidates, walkVars>>

\* An earlier entry holds the same identity at the same version text.
Taken(e) ==
    \E f \in candidates : /\ entry[f].identity = entry[e].identity
                          /\ entry[f].version = entry[e].version

\* Mutant: the entry is passed over without moving on to the next.
PassOverInPlace ==
    /\ Discovering
    /\ entry[cursor].outcome # "escaping"
    /\ entry[cursor].outcome # "readable" \/ Taken(cursor)
    /\ UNCHANGED vars

\* No manifest, a manifest with defects, or a tie the earlier entry won.
PassOver ==
    /\ Discovering
    /\ entry[cursor].outcome # "escaping"
    /\ entry[cursor].outcome # "readable" \/ Taken(cursor)
    /\ cursor' = cursor + 1
    /\ UNCHANGED <<world, phase, candidates, walkVars, diagnostics>>

KeepCandidate ==
    /\ Discovering
    /\ entry[cursor].outcome = "readable"
    /\ ~Taken(cursor)
    /\ candidates' = candidates \cup {cursor}
    /\ cursor' = cursor + 1
    /\ UNCHANGED <<world, phase, walkVars, diagnostics>>

\* The root is selected before the walk and is the first entry queued.
StartWalk ==
    /\ phase = "discover"
    /\ cursor \notin DOMAIN entry
    /\ phase' = "walk"
    /\ selected' = [selected EXCEPT ![Root] = 0]
    /\ queue' = <<0>>
    /\ UNCHANGED <<world, cursor, candidates, constraints, edges, current,
                   pending, diagnostics>>

----------------------------------------------------------------------------
(* The worklist                                                            *)

BetweenPackages == phase = "walk" /\ pending = <<>>

WithinLimit == Cardinality(Selected) <= MaxNodes(world)

\* The limit is looked at only when another entry waits to be walked.
ExceedLimit ==
    /\ BetweenPackages
    /\ queue # <<>>
    /\ ~WithinLimit
    /\ Report("LIMIT_MAX_NODES", Root)
    /\ phase' = "conflicts"
    /\ UNCHANGED <<world, cursor, candidates, walkVars>>

WalkPackage ==
    /\ BetweenPackages
    /\ queue # <<>>
    /\ WithinLimit
    /\ current' = Head(queue)
    /\ queue' = Tail(queue)
    /\ pending' = entry[Head(queue)].imports
    /\ edges' = [edges EXCEPT ![entry[Head(queue)].identity] = <<>>]
    /\ UNCHANGED <<world, phase, cursor, candidates, selected, constraints,
                   diagnostics>>

FinishWalk ==
    /\ BetweenPackages
    /\ queue = <<>>
    /\ phase' = "conflicts"
    /\ UNCHANGED <<world, cursor, candidates, walkVars, diagnostics>>

Importing == phase = "walk" /\ pending # <<>>

RefuseConstraint ==
    /\ Importing
    /\ Head(pending).constraint = Unsupported
    /\ Report("UNSUPPORTED_VERSION_CONSTRAINT", Head(pending).target)
    /\ pending' = Tail(pending)
    /\ UNCHANGED <<world, phase, cursor, candidates, selected, constraints,
                   edges, queue, current>>

\* The list of constraints on an import's target once the import is read.
Extended(import) ==
    Append(constraints[import.target],
           [constraint |-> import.constraint, from |-> current])

\* Every supported import records its constraint and its edge before the
\* candidates are looked at.
RecordImport(import) ==
    /\ import.constraint # Unsupported
    /\ constraints' = [constraints EXCEPT ![import.target] = Extended(import)]
    /\ edges' = [edges EXCEPT ![entry[current].identity] =
                     Append(@, import.target)]
    /\ pending' = Tail(pending)

\* The entries that satisfy this one constraint, whatever the others ask.
MatchingAlone(import) ==
    {e \in Offered(import.target) :
        Satisfies(entry[e].version, import.constraint)}

MissImport ==
    /\ Importing
    /\ RecordImport(Head(pending))
    /\ Offered(Head(pending).target) = {}
    /\ Report("IMPORT_NOT_FOUND", Head(pending).target)
    /\ UNCHANGED <<world, phase, cursor, candidates, selected, queue, current>>

LeaveUnsatisfied ==
    /\ Importing
    /\ RecordImport(Head(pending))
    /\ Offered(Head(pending).target) # {}
    /\ MatchingAlone(Head(pending)) = {}
    /\ Report("IMPORT_VERSION_UNSATISFIED", Head(pending).target)
    /\ UNCHANGED <<world, phase, cursor, candidates, selected, queue, current>>

\* Satisfied alone but not together with what was recorded before: nothing
\* is chosen, and the conflict is left to the check after the walk.
LeaveConflicting ==
    /\ Importing
    /\ RecordImport(Head(pending))
    /\ MatchingAlone(Head(pending)) # {}
    /\ Matching(Head(pending).target, Extended(Head(pending))) = {}
    /\ UNCHANGED <<world, phase, cursor, candidates, selected, queue, current,
                   diagnostics>>

Chosen(import) == First(Matching(import.target, Extended(import)))

\* Mutant: the first selection is final.
MovesOnce(import) == selected[import.target] = NoEntry

\* A version other than the selected one is chosen: it replaces the selection
\* and waits to be walked.  The entry it replaces stays queued or walked.
Moves(import) ==
    \/ selected[import.target] = NoEntry
    \/ /\ selected[import.target] # NoEntry
       /\ entry[selected[import.target]].version # entry[Chosen(import)].version

SelectImport ==
    /\ Importing
    /\ RecordImport(Head(pending))
    /\ Matching(Head(pending).target, Extended(Head(pending))) # {}
    /\ Moves(Head(pending))
    /\ selected' = [selected EXCEPT ![Head(pending).target] =
                        Chosen(Head(pending))]
    /\ queue' = Append(queue, Chosen(Head(pending)))
    /\ UNCHANGED <<world, phase, cursor, candidates, current, diagnostics>>

KeepImport ==
    /\ Importing
    /\ RecordImport(Head(pending))
    /\ Matching(Head(pending).target, Extended(Head(pending))) # {}
    /\ ~Moves(Head(pending))
    /\ UNCHANGED <<world, phase, cursor, candidates, selected, queue, current,
                   diagnostics>>

----------------------------------------------------------------------------
(* The checks after the walk                                               *)

Conflicting(p) ==
    /\ selected[p] # NoEntry
    /\ \E i \in DOMAIN constraints[p] :
          ~Satisfies(entry[selected[p]].version, constraints[p][i].constraint)

ReportConflicts ==
    /\ phase = "conflicts"
    /\ diagnostics' = diagnostics \cup
           {[code |-> "IMPORT_VERSION_CONFLICT", package |-> p] :
               p \in {q \in Package : Conflicting(q)}}
    /\ phase' = "cycles"
    /\ UNCHANGED <<world, cursor, candidates, walkVars>>

Arrow(p, q) == \E i \in DOMAIN edges[p] : edges[p][i] = q

\* Mutant: only a package that imports itself is a cycle.
SelfImport == \E p \in Package : Arrow(p, p)

\* A finite graph has a cycle exactly when each node of some set of its nodes
\* has an edge to a node of the set.
Cyclic ==
    \E C \in (SUBSET Package) \ {{}} : \A p \in C : \E q \in C : Arrow(p, q)

ReportCycles ==
    /\ phase = "cycles"
    /\ IF Cyclic THEN Report("PACKAGE_CYCLE", Root) ELSE UNCHANGED diagnostics
    /\ phase' = "done"
    /\ UNCHANGED <<world, cursor, candidates, walkVars>>

----------------------------------------------------------------------------
Discover == RefuseEscape \/ PassOver \/ KeepCandidate

ReadImport == \/ RefuseConstraint \/ MissImport \/ LeaveUnsatisfied
              \/ LeaveConflicting \/ SelectImport \/ KeepImport

Next == \/ RejectRoot \/ ReadRoot \/ Discover \/ StartWalk
        \/ ExceedLimit \/ WalkPackage \/ FinishWalk \/ ReadImport
        \/ ReportConflicts \/ ReportCycles

Spec == Init /\ [][Next]_vars

\* The resolver is one synchronous call: it is never left between two steps.
FairSpec == Spec /\ WF_vars(Next)

----------------------------------------------------------------------------
(* Properties                                                              *)

TypeOK ==
    /\ world \in DOMAIN Worlds
    /\ phase \in Phase
    /\ cursor \in Nat \ {0}
    /\ candidates \subseteq DOMAIN entry \ {0}
    /\ selected \in [Package -> DOMAIN entry \cup {NoEntry}]
    /\ constraints \in [Package -> Seq([constraint : Constraint,
                                        from : DOMAIN entry])]
    /\ edges \in [Package -> Seq(Package)]
    /\ queue \in Seq(DOMAIN entry)
    /\ current \in DOMAIN entry
    /\ pending \in Seq(Import)
    /\ diagnostics \subseteq [code : Code, package : Package]

\* "The selection is against every constraint gathered so far, not the first
\* one seen": while any offered entry satisfies all recorded constraints on an
\* identity, the selected version is the highest that does, at every step of
\* the walk and although selections are replaced while older ones still wait.
SelectionIsBest ==
    \A p \in Package :
        LET agreed == Matching(p, constraints[p])
        IN  constraints[p] # <<>> /\ agreed # {} =>
               /\ selected[p] # NoEntry
               /\ \E e \in agreed :
                     /\ entry[selected[p]].version = entry[e].version
                     /\ \A f \in agreed \ {e} : Ahead(e, f)

\* IMPORT_VERSION_CONFLICT says that no single version satisfies every
\* constraint on the identity, and indeed no offered entry satisfies all that
\* were recorded on it: a conflict is never that of a selection made too early.
ConflictIsReal ==
    \A p \in Package :
        [code |-> "IMPORT_VERSION_CONFLICT", package |-> p] \in diagnostics
            => Matching(p, constraints[p]) = {}

LimitReported == [code |-> "LIMIT_MAX_NODES", package |-> Root] \in diagnostics

Walked == phase \in {"conflicts", "cycles", "done"}

Supported(imports) ==
    {imports[i].target : i \in {j \in DOMAIN imports :
                                    imports[j].constraint # Unsupported}}

\* The edges the cycle check reads are those of the manifests that stayed
\* selected, none of a manifest that was walked and then replaced.
EdgesAreOfSelection ==
    Walked /\ ~LimitReported =>
        \A p \in Selected :
            {edges[p][i] : i \in DOMAIN edges[p]} =
                Supported(entry[selected[p]].imports)

\* More than maxNodes packages never come out of a resolution unreported,
\* though the bound is looked at only between two packages.
LimitIsReported ==
    phase = "done" /\ ~(Cardinality(Selected) <= MaxNodes(world)) => diagnostics # {}

\* A selection only ever moves to a lower-ranked candidate, so no entry is
\* walked twice and the worklist empties; the root's own entry, which is no
\* candidate, may be replaced once by any.
Descends(p) ==
    selected[p] \in candidates =>
        \/ selected'[p] = selected[p]
        \/ Ahead(selected[p], selected'[p])

SelectionDescends == [][\A p \in Package : Descends(p)]_vars

\* Every resolution ends, cyclic imports and replaced selections included.
Termination == <>(phase = "done")

\* What the caller sees: a graph when nothing was reported, a refusal else.
\* Every code the resolver raises is blocking (src/compiler/diagnostics.mjs).
Resolved == phase = "done" /\ diagnostics = {}

Contract ==
    INSTANCE ResolutionContract WITH
        status <- CASE Resolved -> "resolved"
                    [] phase = "done" /\ ~Resolved -> "refused"
                    [] OTHER -> "pending",
        graph <- IF Resolved THEN selected ELSE [p \in Package |-> NoEntry]

\* Every import of every package in a delivered graph is answered by the one
\* selected version of its target, and the graph is acyclic and bounded.
ImplementsContract == Contract!Spec

\* "The root is always in the graph, whether or not a search directory also
\* offers it; a package compiles against the tree the caller pointed at."
RootStays == Resolved => selected[Root] = 0

\* At any moment of a resolution the selection is the best the constraints so
\* far recorded admit, a conflict reported is one between those no offered entry
\* meets together, the edges walked are those of what is selected, and a graph
\* too large does not go unreported (resolve.mjs).
SelectionIsSound ==
    /\ TypeOK
    /\ SelectionIsBest
    /\ ConflictIsReal
    /\ EdgesAreOfSelection
    /\ LimitIsReported
============================================================================
