-------------------------- MODULE MCPackageResolver --------------------------
(***************************************************************************)
(* Worlds for the resolver: three identities, two versions of one of them, *)
(* the root offered a second time by a search directory, and one directory *)
(* entry that may be a duplicate, defective, absent or an escape.          *)
(***************************************************************************)
EXTENDS PackageResolver

CONSTANTS A, B

S == INSTANCE SemVer

Release(major, minor) ==
    [major |-> major, minor |-> minor, patch |-> 0, prerelease |-> <<>>]

V10 == Release(1, 0)
V11 == Release(1, 1)
V20 == Release(2, 0)

MCVersion == {V10, V11, V20}
MCConstraint == {S!Exact(v) : v \in MCVersion} \cup {S!Caret(v) : v \in MCVersion}

Satisfied == [v \in MCVersion, c \in MCConstraint |-> S!satisfies(v, c)]
Ranked == [v \in MCVersion |->
              Cardinality({w \in MCVersion : S!compareVersions(w, v) > 0})]

MCSatisfies(v, c) == Satisfied[v, c]
MCRank(v) == Ranked[v]

Wants(p, c) == [target |-> p, constraint |-> c]
Any1(p) == Wants(p, S!Caret(V10))
Only(p, v) == Wants(p, S!Exact(v))

Manifest(p, v, imports) ==
    [identity |-> p, version |-> v, outcome |-> "readable", imports |-> imports]

Unread(outcome, p, v) ==
    [identity |-> p, version |-> v, outcome |-> outcome, imports |-> <<>>]

RootImports ==
    <<Any1(A), Only(A, V10), Only(A, V11), Any1(B), Wants(A, Unsupported)>>

\* The root imports one or two of these, or does not read at all.
RootManifest(i, j) ==
    CASE i = 0 -> Unread("rejected", Root, V10)
      [] i > 0 /\ j = 0 -> Manifest(Root, V10, <<RootImports[i]>>)
      [] OTHER -> Manifest(Root, V10, <<RootImports[i], RootImports[j]>>)

HighA == <<<<>>, <<Any1(B)>>, <<Any1(Root)>>, <<Only(B, V20)>>>>
LowA  == <<<<>>, <<Any1(B)>>>>
OtherRoot == <<Manifest(Root, V11, <<>>), Manifest(Root, V10, <<>>),
               Unread("absent", Root, V11)>>
OneB  == <<Manifest(B, V10, <<>>),
           Manifest(B, V10, <<Only(A, V10)>>),
           Manifest(B, V10, <<Any1(A), Any1(Root)>>),
           Unread("absent", B, V10)>>
Doubtful == <<Manifest(A, V11, <<Only(B, V11)>>), Unread("unversioned", A, V20),
              Unread("escaping", A, V20), Unread("rejected", A, V20)>>

MCWorlds ==
    [w \in (0..5) \X (0..5) \X (1..4) \X (1..2) \X (1..3) \X (1..4) \X (1..4)
              \X {2, 3} |->
        [e \in 0..5 |->
            CASE e = 0 -> RootManifest(w[1], w[2])
              [] e = 1 -> Manifest(A, V11, HighA[w[3]])
              [] e = 2 -> Manifest(A, V10, LowA[w[4]])
              [] e = 3 -> OtherRoot[w[5]]
              [] e = 4 -> OneB[w[6]]
              [] e = 5 -> Doubtful[w[7]]]]

\* The call's bound on packages.
MCMaxNodes(w) == w[8]
=============================================================================
