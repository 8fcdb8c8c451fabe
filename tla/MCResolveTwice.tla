-------------------------- MODULE MCResolveTwice --------------------------
(***************************************************************************)
(* Two resolutions of inputs FR-047 calls the same: "the compiler SHALL    *)
(* resolve the graph identically for any permutation of an imports array,  *)
(* and for any permutation of the search directories in which no two       *)
(* directories supply the same package identity at the same version"       *)
(* (spec/functional/FR-047).  The second call sees a rearrangement of the  *)
(* world the first one saw.                                                *)
(*                                                                         *)
(* It is not so.  The constraints of an entry that was selected, walked    *)
(* and then replaced stay recorded, and what it imports stays looked for;  *)
(* whether it was ever selected depends on the order of the imports that   *)
(* led to it (family "replaced" below).                                    *)
(***************************************************************************)
EXTENDS PackageResolver

CONSTANT Rearranged(_, _)   \* Rearranged(w, x): x is w in another order

VARIABLE earlier            \* what the first call returned

twiceVars == <<earlier, vars>>

NotYet == [returned |-> FALSE]

Versions == [p \in Package |->
                IF selected[p] = NoEntry THEN NoEntry
                                         ELSE entry[selected[p]].version]

Answer == [returned |-> TRUE, clean |-> diagnostics = {}, packages |-> Versions]

ResolveOnce == Next /\ UNCHANGED earlier

\* resolvePackageGraph keeps nothing between two calls.
CallAgain ==
    /\ phase = "done"
    /\ ~earlier.returned
    /\ earlier' = Answer
    /\ world' \in {w \in DOMAIN Worlds : Rearranged(world, w)}
    /\ phase' = "read"
    /\ cursor' = 1
    /\ candidates' = {}
    /\ selected' = [p \in Package |-> NoEntry]
    /\ constraints' = [p \in Package |-> <<>>]
    /\ edges' = [p \in Package |-> <<>>]
    /\ queue' = <<>>
    /\ current' = 0
    /\ pending' = <<>>
    /\ diagnostics' = {}

InitTwice == Init /\ earlier = NotYet

NextTwice == ResolveOnce \/ CallAgain

SpecTwice == InitTwice /\ [][NextTwice]_twiceVars

BothReturned == phase = "done" /\ earlier.returned

\* Neither rearrangement turns a package that resolves into one that is
\* refused, or the other way round.
SameVerdict == BothReturned => earlier.clean = Answer.clean

\* When both calls resolve, they resolve to the same versions of the same
\* packages.
SamePackages ==
    BothReturned /\ earlier.clean /\ Answer.clean =>
        earlier.packages = Answer.packages

-----------------------------------------------------------------------------
(***************************************************************************)
(* Worlds in families; the worlds of one family and one choice differ only *)
(* in an order FR-047 says a resolution does not depend on.                *)
(***************************************************************************)

CONSTANTS A, B, C, D

S == INSTANCE SemVer

Release(major, minor) ==
    [major |-> major, minor |-> minor, patch |-> 0, prerelease |-> <<>>]

V10 == Release(1, 0)
V11 == Release(1, 1)
V20 == Release(2, 0)

MCVersion == {V10, V11, V20}
MCConstraint == {S!Exact(v) : v \in MCVersion} \cup {S!Caret(v) : v \in MCVersion}

Satisfied == [v \in MCVersion, c \in MCConstraint |-> S!satisfies(v, c)]
Ranked == [v \in MCVersion |->
              Cardinality({w \in MCVersion : S!compareVersions(w, v) > 0})]

MCSatisfies(v, c) == Satisfied[v, c]
MCRank(v) == Ranked[v]

Wants(p, c) == [target |-> p, constraint |-> c]
Any1(p) == Wants(p, S!Caret(V10))
Only(p, v) == Wants(p, S!Exact(v))
Manifest(p, v, imports) ==
    [identity |-> p, version |-> v, outcome |-> "readable", imports |-> imports]

Orders(n) == {f \in [1..n -> 1..n] : {f[i] : i \in 1..n} = 1..n}
Arranged(s, order) == [i \in DOMAIN s |-> s[order[i]]]

\* Family "search": several versions of one identity, the directories in any
\* order, one entry each.
SearchImports == <<<<Any1(A)>>, <<Any1(A), Any1(B)>>, <<Any1(B), Only(A, V10)>>>>
BImports == <<<<>>, <<Any1(A)>>, <<Only(A, V10)>>, <<Only(A, V20)>>>>
SearchEntries(b) ==
    <<Manifest(A, V10, <<>>), Manifest(A, V11, <<Any1(B)>>),
      Manifest(B, V10, BImports[b])>>
SearchWorld(r, b, order) ==
    <<Manifest(Root, V10, SearchImports[r])>>
        \o Arranged(SearchEntries(b), order)

\* Family "imports": one version of each identity, the root's imports in any
\* order.
AskA == <<Any1(A), Only(A, V11), Wants(A, Unsupported)>>
AImports == <<<<>>, <<Any1(C)>>, <<Only(C, V10), Any1(Root)>>>>
CImports == <<<<>>, <<Any1(B)>>, <<Only(B, V20)>>>>
ImportsWorld(a, m, c, order) ==
    <<Manifest(Root, V10, Arranged(<<Any1(B), AskA[a], Any1(A)>>, order)),
      Manifest(A, V10, AImports[m]),
      Manifest(B, V10, <<Any1(C)>>),
      Manifest(C, V10, CImports[c])>>

\* Family "replaced": two versions of A, one asked for by B and either by C,
\* and what the higher imports; the root imports B and C in any order.
HighAImports == <<<<>>, <<Any1(D)>>, <<Only(D, V20)>>>>
ReplacedWorld(h, order) ==
    <<Manifest(Root, V10, Arranged(<<Any1(B), Any1(C)>>, order)),
      Manifest(A, V10, <<>>),
      Manifest(A, V11, HighAImports[h]),
      Manifest(B, V10, <<Only(A, V10)>>),
      Manifest(C, V10, <<Any1(A)>>),
      Manifest(D, V10, <<>>)>>

Entries(s) == [e \in 0..(Len(s) - 1) |-> s[e + 1]]

\* A world is named by its family, the choice in it, and the order.
TwiceIndex ==
    [family : {"search"}, choice : (1..3) \X (1..4), order : Orders(3)]
    \cup [family : {"imports"}, choice : (1..3) \X (1..3) \X (1..3),
          order : Orders(3)]
    \cup [family : {"replaced"}, choice : {<<h>> : h \in 1..3}, order : Orders(2)]

TwiceWorlds ==
    [w \in TwiceIndex |->
        LET c == w.choice
        IN  Entries(CASE w.family = "search" -> SearchWorld(c[1], c[2], w.order)
                      [] w.family = "imports" ->
                            ImportsWorld(c[1], c[2], c[3], w.order)
                      [] w.family = "replaced" -> ReplacedWorld(c[1], w.order))]

MCMaxNodes(w) == 5

MCRearranged(w, x) == w.family = x.family /\ w.choice = x.choice

\* Resolving the same manifests with an imports array or the search directories
\* in another order gives the same verdict and, where both resolve, the same
\* packages: what FR-047:89 asks of resolve.mjs.  TLC finds a world where it
\* does not: an entry selected and then replaced is walked in one order and
\* never selected in the other.
OrderIsImmaterial ==
    /\ SameVerdict
    /\ SamePackages
=============================================================================
