------------------------------- MODULE SemVer -------------------------------
(***************************************************************************)
(* Version precedence and the two constraint forms of                      *)
(* src/compiler/packages/resolve.mjs, which the repository implements      *)
(* itself (FR-047-CON-3).  A version is the record parseVersion builds; a  *)
(* prerelease is the sequence of its dot-separated identifiers, <<>> for a *)
(* release.  An identifier is numeric, with its value, or alphanumeric,    *)
(* with its place in code-point order.                                     *)
(***************************************************************************)
EXTENDS Integers, Sequences, FiniteSets

Identifier(values) == [numeric : BOOLEAN, value : values]

SemVersion(numbers, identifiers, length) ==
    [major : numbers, minor : numbers, patch : numbers,
     prerelease : UNION {[1..n -> identifiers] : n \in 0..length}]

Release(v) == v.prerelease = <<>>

\* The first of a set of positions.
LOCAL Earliest(S) == CHOOSE i \in S : \A j \in S : i <= j

compareIdentifiers(a, b) ==
    CASE a.numeric /\ ~b.numeric -> -1
      [] ~a.numeric /\ b.numeric -> 1
      [] a.numeric = b.numeric /\ a.value < b.value -> -1
      [] a.numeric = b.numeric /\ a.value > b.value -> 1
      [] OTHER -> 0

\* Mutant: a longer prerelease is not ranked above its own prefix.
comparePrereleasesShared(a, b) ==
    LET differing == {i \in DOMAIN a \cap DOMAIN b :
                         compareIdentifiers(a[i], b[i]) # 0}
    IN  IF differing = {} THEN 0
        ELSE compareIdentifiers(a[Earliest(differing)], b[Earliest(differing)])

\* Field by field up to the first difference; a shorter prefix ranks below.
comparePrereleases(a, b) ==
    LET longest == IF Len(a) < Len(b) THEN Len(b) ELSE Len(a)
        shared(i) == i <= Len(a) /\ i <= Len(b)
        differing == {i \in 1..longest :
                         shared(i) => compareIdentifiers(a[i], b[i]) # 0}
        first == Earliest(differing)
    IN  CASE differing = {} -> 0
          [] differing # {} /\ first > Len(a) -> -1
          [] differing # {} /\ first > Len(b) -> 1
          [] OTHER -> compareIdentifiers(a[first], b[first])

compareVersions(left, right) ==
    CASE left.major # right.major -> left.major - right.major
      [] left.major = right.major /\ left.minor # right.minor ->
             left.minor - right.minor
      [] left.major = right.major /\ left.minor = right.minor
         /\ left.patch # right.patch -> left.patch - right.patch
      [] OTHER ->
             CASE left.prerelease = right.prerelease -> 0
               [] Release(left) /\ ~Release(right) -> 1
               [] Release(right) /\ ~Release(left) -> -1
               [] OTHER -> comparePrereleases(left.prerelease, right.prerelease)

\* parseConstraint: a caret before a version, or a version alone.
Exact(v) == [kind |-> "exact", version |-> v]
Caret(v) == [kind |-> "caret", version |-> v]

SameTriple(v, w) == v.major = w.major /\ v.minor = w.minor /\ v.patch = w.patch

\* A caret admits a prerelease only when it names one of the same release.
AdmitsPrerelease(version, base) ==
    Release(version) \/ (~Release(base) /\ SameTriple(version, base))

SameCompatibility(version, base) ==
    CASE base.major > 0 -> version.major = base.major
      [] base.major = 0 /\ base.minor > 0 ->
             version.major = 0 /\ version.minor = base.minor
      [] OTHER -> SameTriple(version, base)

satisfies(version, constraint) ==
    IF constraint.kind = "exact"
    THEN compareVersions(version, constraint.version) = 0
    ELSE /\ AdmitsPrerelease(version, constraint.version)
         /\ compareVersions(version, constraint.version) >= 0
         /\ SameCompatibility(version, constraint.version)
=============================================================================
