--------------------------- MODULE TypeRefsProofs ---------------------------
(***************************************************************************)
(* What the readers keep of their walks along references is right, for     *)
(* every document of any number of identities, every depth limit, and      *)
(* questions asked in any order.                                           *)
(***************************************************************************)
EXTENDS TypeRefs, FiniteSetTheorems, WellFoundedInduction, TLAPS

----------------------------------------------------------------------------
(* Induction along the positions of a walk.                                *)

\* A non-empty set of positions has a first one.
LEMMA FirstPosition ==
    ASSUME NEW T, T \subseteq Nat, T # {}
    PROVE  \E x \in T : \A y \in T : x <= y
<1>1. PICK x \in T : \A y \in T : ~(<<y, x>> \in OpToRel(<, Nat))
  BY NatLessThanWellFounded, WFMin
<1>2. \A y \in T : ~(y < x)
  BY <1>1 DEF OpToRel
<1> QED
  BY <1>2

\* A set of positions that holds the first and with each the next, holds all.
LEMMA AlongAWalk ==
    ASSUME NEW n \in Nat, NEW S, 0 \in S,
           \A i \in 1..n : i - 1 \in S => i \in S
    PROVE  0..n \subseteq S
<1> DEFINE Left == (0..n) \ S
<1> SUFFICES ASSUME Left # {} PROVE FALSE
  OBVIOUS
<1>1. PICK i \in Left : \A k \in Left : i <= k
  <2>1. Left \subseteq Nat
    OBVIOUS
  <2> HIDE DEF Left
  <2> QED
    BY <2>1, FirstPosition
<1>2. i \in 1..n /\ i - 1 \notin Left
  BY <1>1
<1> QED
  BY <1>2

\* What is said from one position to the next can be said of a whole run of
\* them: a function that takes n steps.
LEMMA StepsExist ==
    ASSUME NEW n \in Nat, NEW S, NEW start \in S, NEW step \in [S -> S]
    PROVE  \E f \in [0..n -> S] :
              f[0] = start /\ \A i \in 1..n : f[i] = step[f[i - 1]]
<1> DEFINE Runs(m, f) == f[0] = start /\ \A i \in 1..m : f[i] = step[f[i - 1]]
           T == {m \in 0..n : \E f \in [0..m -> S] : Runs(m, f)}
<1>1. 0 \in T
  <2> DEFINE f == [i \in 0..0 |-> start]
  <2>1. f \in [0..0 -> S] /\ f[0] = start
    OBVIOUS
  <2> HIDE DEF f
  <2>2. \E g \in [0..0 -> S] : Runs(0, g)
    BY <2>1
  <2> QED
    BY <2>2
<1>2. ASSUME NEW m \in 1..n, m - 1 \in T PROVE m \in T
  <2>1. PICK f \in [0..(m - 1) -> S] : Runs(m - 1, f)
    BY <1>2
  <2> DEFINE g == [i \in 0..m |-> IF i = m THEN step[f[m - 1]] ELSE f[i]]
  <2>2. g \in [0..m -> S]
    OBVIOUS
  <2>3. ASSUME NEW i \in 1..m PROVE g[i] = step[g[i - 1]]
    BY <2>1
  <2>4. g[0] = start
    BY <2>1
  <2> HIDE DEF g
  <2>5. \E h \in [0..m -> S] : Runs(m, h)
    BY <2>2, <2>3, <2>4
  <2> QED
    BY <2>5
<1>3. 0..n \subseteq T
  <2> HIDE DEF T
  <2> QED
    BY <1>1, <1>2, AlongAWalk
<1> QED
  BY <1>3

----------------------------------------------------------------------------
(* A walk: where it goes, and that there is one only.                      *)

Declared == document \in [Identity -> NodeShape]

\* p leads from r along nodes of the given kinds and passes nothing twice.
Leads(kinds, r, p) ==
    /\ p \in Seq(Referable) /\ p # <<>>
    /\ p[1] = r
    /\ \A i \in 1..(Len(p) - 1) : Is(p[i], kinds) /\ p[i + 1] = document[p[i]].to
    /\ \A i, j \in 1..Len(p) : p[i] = p[j] => i = j

\* It can not go on: its end is of no such kind, or leads back.
Ended(kinds, p) ==
    Is(p[Len(p)], kinds) => \E m \in 1..Len(p) : p[m] = document[p[Len(p)]].to

\* A node with somewhere to go on is declared, and so is where it leads.
LEMMA NodeLeads ==
    ASSUME Declared, NEW kinds \in SUBSET Hops, NEW r, Is(r, kinds)
    PROVE  r \in Identity /\ r \in Referable /\ document[r].to \in Referable
BY DEF Declared, Is, Hops, NodeShape, Referable

\* One step of a walk leads on, or is not taken where the walk has ended.
LEMMA AdvanceLeads ==
    ASSUME Declared, NEW kinds \in SUBSET Hops, NEW r, NEW p, Leads(kinds, r, p)
    PROVE  /\ Leads(kinds, r, Advance(kinds, p))
           /\ \/ Ended(kinds, p) /\ Advance(kinds, p) = p
              \/ Len(Advance(kinds, p)) = Len(p) + 1
<1> DEFINE end == p[Len(p)]
           to == document[end].to
<1>1. p \in Seq(Referable) /\ Len(p) \in Nat \ {0} /\ Last(p) = end
  BY DEF Leads, Last
<1>2. CASE Is(end, kinds) /\ ~Contains(p, to)
  <2>1. to \in Referable
    BY <1>2, NodeLeads
  <2> DEFINE q == Append(p, to)
  <2>2. Advance(kinds, p) = q
    BY <1>1, <1>2 DEF Advance
  <2>3. q \in Seq(Referable) /\ Len(q) = Len(p) + 1 /\ q[Len(p) + 1] = to
    BY <1>1, <2>1
  <2>4. \A i \in 1..Len(p) : q[i] = p[i]
    BY <1>1, <2>1
  <2> HIDE DEF q
  <2>5. \A i \in 1..Len(p) : p[i] # to
    BY <1>2 DEF Contains
  <2>6. q # <<>> /\ q[1] = r
    BY <1>1, <2>3, <2>4 DEF Leads
  <2>7. ASSUME NEW i \in 1..(Len(q) - 1)
        PROVE  Is(q[i], kinds) /\ q[i + 1] = document[q[i]].to
    <3>1. CASE i = Len(p)
      BY <3>1, <1>1, <1>2, <2>3, <2>4
    <3>2. CASE i # Len(p)
      <4>1. i \in 1..(Len(p) - 1) /\ i + 1 \in 1..Len(p) /\ i \in 1..Len(p)
        BY <3>2, <2>3, <1>1
      <4> QED
        BY <4>1, <2>4 DEF Leads
    <3> QED
      BY <3>1, <3>2
  <2>8. ASSUME NEW i \in 1..Len(q), NEW j \in 1..Len(q), q[i] = q[j] PROVE i = j
    <3>1. i \in 1..Len(p) \/ i = Len(p) + 1
      BY <2>3, <1>1
    <3>2. j \in 1..Len(p) \/ j = Len(p) + 1
      BY <2>3, <1>1
    <3> QED
      BY <3>1, <3>2, <2>3, <2>4, <2>5, <2>8 DEF Leads
  <2> QED
    BY <2>2, <2>3, <2>6, <2>7, <2>8 DEF Leads
<1>3. CASE ~(Is(end, kinds) /\ ~Contains(p, to))
  BY <1>1, <1>3 DEF Advance, Ended, Contains
<1> QED
  BY <1>2, <1>3

\* A walk passes no more than the identities and what it ends at; one that
\* could go on has passed identities only.
LEMMA WalksAreShort ==
    ASSUME Declared, NEW kinds \in SUBSET Hops, NEW r, NEW p,
           Leads(kinds, r, p)
    PROVE  /\ Len(p) - 1 <= Cardinality(Identity)
           /\ Is(p[Len(p)], kinds) => Len(p) <= Cardinality(Identity)
<1>1. p \in Seq(Referable) /\ Len(p) \in Nat \ {0} /\ Cardinality(Identity) \in Nat
  BY FS_CardinalityType, IdentitiesAreFinite DEF Leads
<1>2. ASSUME NEW n \in Nat, n <= Len(p), \A i \in 1..n : p[i] \in Identity
      PROVE  n <= Cardinality(Identity)
  <2> DEFINE f == [i \in 1..n |-> p[i]]
  <2>0. f \in [1..n -> Identity] /\ \A i, j \in 1..n : f[i] = f[j] => i = j
    BY <1>2, <1>1 DEF Leads
  <2>1. f \in Injection(1..n, Identity)
    <3> HIDE DEF f
    <3> QED
      BY <2>0 DEF Injection, IsInjective
  <2>2. Cardinality(1..n) <= Cardinality(Identity)
    BY <2>1, FS_Injection, IdentitiesAreFinite
  <2>3. Cardinality(1..n) = n
    BY <1>1, FS_Interval
  <2> QED
    BY <2>2, <2>3
<1>3. \A i \in 1..(Len(p) - 1) : p[i] \in Identity
  BY <1>1 DEF Leads, Is
<1>4. Is(p[Len(p)], kinds) => \A i \in 1..Len(p) : p[i] \in Identity
  BY <1>1 DEF Leads, Is
<1>5. Len(p) - 1 <= Cardinality(Identity)
  BY <1>1, <1>2, <1>3
<1> QED
  BY <1>1, <1>2, <1>4, <1>5

\* Walk leads from its start as far as it can.
LEMMA WalkLeads ==
    ASSUME Declared, NEW kinds \in SUBSET Hops, NEW r \in Referable
    PROVE  Leads(kinds, r, Walk(kinds, r)) /\ Ended(kinds, Walk(kinds, r))
<1> DEFINE n == Cardinality(Identity)
           S == {p \in Seq(Referable) : Leads(kinds, r, p)}
           step == [p \in S |-> Advance(kinds, p)]
           Iterates(w) == w = [i \in 0..n |-> IF i = 0 THEN <<r>> ELSE Advance(kinds, w[i - 1])]
           walk == CHOOSE w : Iterates(w)
<1>1. n \in Nat
  BY FS_CardinalityType, IdentitiesAreFinite
<1>2. <<r>> \in S
  <2>1. <<r>> \in Seq(Referable) /\ Len(<<r>>) = 1 /\ <<r>>[1] = r
    OBVIOUS
  <2> QED
    BY <2>1 DEF Leads
<1>3. step \in [S -> S]
  <2>1. ASSUME NEW p \in S PROVE Leads(kinds, r, Advance(kinds, p)) /\ Advance(kinds, p) \in S
    <3>1. Leads(kinds, r, Advance(kinds, p))
      BY AdvanceLeads
    <3> QED
      BY <3>1 DEF Leads
  <2> HIDE DEF S
  <2> QED
    BY <2>1
<1>4. \E w : Iterates(w)
  <2> HIDE DEF S, n, step
  <2>0. \E w \in [0..n -> S] : w[0] = <<r>> /\ \A i \in 1..n : w[i] = step[w[i - 1]]
    <3> DEFINE start == <<r>>
    <3>1. start \in S
      BY <1>2
    <3> HIDE DEF start
    <3>2. \E w \in [0..n -> S] : w[0] = start /\ \A i \in 1..n : w[i] = step[w[i - 1]]
      BY <1>1, <3>1, <1>3, StepsExist
    <3> QED
      BY <3>2 DEF start
  <2>1. PICK w \in [0..n -> S] : w[0] = <<r>> /\ \A i \in 1..n : w[i] = step[w[i - 1]]
    BY <2>0
  <2>2. ASSUME NEW i \in 0..n
        PROVE  w[i] = IF i = 0 THEN <<r>> ELSE Advance(kinds, w[i - 1])
    <3>1. i # 0 => i \in 1..n /\ i - 1 \in 0..n
      BY <1>1
    <3> QED
      BY <2>1, <3>1 DEF step
  <2>3. w = [i \in 0..n |-> IF i = 0 THEN <<r>> ELSE Advance(kinds, w[i - 1])]
    BY <2>2, <2>1
  <2> QED
    BY <2>3
<1>5. Iterates(walk)
  BY <1>4
<1>6. Walk(kinds, r) = walk[n]
  BY DEF Walk
<1> HIDE DEF walk, n
<1>7. walk[0] = <<r>> /\ \A i \in 1..n : walk[i] = Advance(kinds, walk[i - 1])
  BY <1>5, <1>1
<1> DEFINE Good(p, i) == Leads(kinds, r, p) /\ (Ended(kinds, p) \/ Len(p) = i + 1)
           T == {i \in 0..n : Good(walk[i], i)}
<1>8. 0 \in T
  BY <1>1, <1>2, <1>7
<1>9. ASSUME NEW i \in 1..n, i - 1 \in T PROVE i \in T
  <2>1. Good(walk[i - 1], i - 1) /\ walk[i] = Advance(kinds, walk[i - 1])
    BY <1>9, <1>7
  <2>2. Leads(kinds, r, walk[i])
    BY <2>1, AdvanceLeads
  <2>3. CASE Ended(kinds, walk[i - 1]) /\ walk[i] = walk[i - 1]
    BY <2>2, <2>3
  <2>4. CASE Len(walk[i]) = Len(walk[i - 1]) + 1
    <3>1. CASE Ended(kinds, walk[i - 1])
      BY <3>1, <2>1, <2>4, <2>2 DEF Advance, Ended, Last, Contains, Leads
    <3>2. CASE Len(walk[i - 1]) = (i - 1) + 1
      BY <3>2, <2>2, <2>4, <1>1
    <3>3. Ended(kinds, walk[i - 1]) \/ Len(walk[i - 1]) = (i - 1) + 1
      BY <2>1
    <3> HIDE DEF T, Good, S, step, Iterates
    <3> QED
      BY <3>1, <3>2, <3>3
  <2> QED
    BY <2>1, <2>3, <2>4, AdvanceLeads
<1>10. n \in T
  <2> HIDE DEF T
  <2>1. 0..n \subseteq T
    BY <1>1, <1>8, <1>9, AlongAWalk
  <2> QED
    BY <2>1, <1>1
<1>11. Leads(kinds, r, walk[n]) /\ (Ended(kinds, walk[n]) \/ Len(walk[n]) = n + 1)
  BY <1>10
<1>12. CASE Len(walk[n]) = n + 1
  <2>1. ~Is(walk[n][Len(walk[n])], kinds)
    BY <1>11, <1>12, <1>1, WalksAreShort DEF n
  <2> QED
    BY <1>6, <1>11, <2>1 DEF Ended
<1> QED
  BY <1>6, <1>11, <1>12

\* Two walks from one start go the same way as far as both go.
LEMMA LeadAlike ==
    ASSUME NEW kinds, NEW r, NEW p, Leads(kinds, r, p), NEW q, Leads(kinds, r, q),
           Len(p) <= Len(q)
    PROVE  \A i \in 1..Len(p) : p[i] = q[i]
<1> DEFINE n == Len(p) - 1
           T == {i \in 0..n : p[i + 1] = q[i + 1]}
<1>1. n \in Nat /\ Len(p) \in Nat /\ Len(q) \in Nat
  BY DEF Leads
<1>2. 0 \in T
  BY <1>1 DEF Leads
<1>3. ASSUME NEW i \in 1..n, i - 1 \in T PROVE i \in T
  <2>1. p[i] = q[i]
    BY <1>3
  <2>2. i \in 1..(Len(p) - 1) /\ i \in 1..(Len(q) - 1) /\ i \in 0..n
    BY <1>1
  <2>3. p[i + 1] = document[p[i]].to /\ q[i + 1] = document[q[i]].to
    BY <2>2 DEF Leads
  <2> QED
    BY <2>1, <2>2, <2>3
<1>4. 0..n \subseteq T
  <2> HIDE DEF T, n
  <2> QED
    BY <1>1, <1>2, <1>3, AlongAWalk
<1> QED
  <2> TAKE i \in 1..Len(p)
  <2>1. i - 1 \in 0..n
    BY <1>1
  <2>2. p[(i - 1) + 1] = q[(i - 1) + 1]
    BY <2>1, <1>4
  <2> QED
    BY <2>2

\* No walk is longer than one that has ended.
LEMMA NoLonger ==
    ASSUME NEW kinds, NEW r, NEW p, Leads(kinds, r, p), Ended(kinds, p),
           NEW q, Leads(kinds, r, q)
    PROVE  Len(q) <= Len(p)
<1> SUFFICES ASSUME Len(p) < Len(q) PROVE FALSE
  BY DEF Leads
<1>1. Len(p) \in 1..(Len(q) - 1) /\ Len(p) + 1 \in 1..Len(q) /\ Len(p) \in Nat \ {0}
  BY DEF Leads
<1>2. \A i \in 1..Len(p) : p[i] = q[i]
  BY <1>1, LeadAlike
<1>3. Is(p[Len(p)], kinds) /\ q[Len(p) + 1] = document[p[Len(p)]].to
  BY <1>1, <1>2 DEF Leads
<1>4. PICK m \in 1..Len(p) : p[m] = document[p[Len(p)]].to
  BY <1>3 DEF Ended
<1>5. q[m] = q[Len(p) + 1] /\ m \in 1..Len(q)
  BY <1>1, <1>2, <1>3, <1>4
<1>6. m = Len(p) + 1
  BY <1>5, <1>1 DEF Leads
<1> QED
  BY <1>6, <1>1

\* A reference has one walk: what leads from it and has ended is Walk.
LEMMA OneWalk ==
    ASSUME Declared, NEW kinds \in SUBSET Hops, NEW r \in Referable,
           NEW p, Leads(kinds, r, p), Ended(kinds, p)
    PROVE  Walk(kinds, r) = p
<1> DEFINE q == Walk(kinds, r)
<1>1. Leads(kinds, r, q) /\ Ended(kinds, q)
  BY WalkLeads
<1> HIDE DEF q
<1>2. Len(p) = Len(q) /\ p \in Seq(Referable) /\ q \in Seq(Referable)
  <2>1. Len(p) <= Len(q) /\ Len(q) <= Len(p)
    BY <1>1, NoLonger
  <2> QED
    BY <2>1, <1>1 DEF Leads
<1>3. \A i \in 1..Len(p) : p[i] = q[i]
  BY <1>1, <1>2, LeadAlike
<1> QED
  BY <1>2, <1>3 DEF q

\* From what leads nowhere the walk is the start alone.
LEMMA WalkOfNoHop ==
    ASSUME Declared, NEW kinds \in SUBSET Hops, NEW r \in Referable, ~Is(r, kinds)
    PROVE  Walk(kinds, r) = <<r>>
<1> DEFINE p == <<r>>
<1>1. p \in Seq(Referable) /\ p # <<>> /\ Len(p) = 1 /\ p[1] = r
  OBVIOUS
<1> HIDE DEF p
<1>0. 1..(Len(p) - 1) = {} /\ 1..Len(p) = {1} /\ ~Is(p[Len(p)], kinds)
  BY <1>1
<1>2. Leads(kinds, r, p) /\ Ended(kinds, p)
  BY <1>0, <1>1 DEF Leads, Ended
<1>3. Walk(kinds, r) = p
  BY <1>2, OneWalk
<1> QED
  BY <1>3 DEF p

\* What a walk stays in: anything that holds its start and, with a node that
\* goes on, what the node leads to.
ClosedUnder(kinds, C) == \A x \in C : Is(x, kinds) => document[x].to \in C

\* A walk stays in whatever set is closed under going on.
LEMMA WalkStays ==
    ASSUME NEW kinds, NEW r, NEW p, Leads(kinds, r, p),
           NEW C, r \in C, ClosedUnder(kinds, C)
    PROVE  \A i \in 1..Len(p) : p[i] \in C
<1> DEFINE n == Len(p) - 1
           T == {i \in 0..n : p[i + 1] \in C}
<1>1. n \in Nat /\ Len(p) \in Nat
  BY DEF Leads
<1>2. 0 \in T
  BY <1>1 DEF Leads
<1>3. ASSUME NEW i \in 1..n, i - 1 \in T PROVE i \in T
  <2>1. p[i] \in C /\ i \in 1..(Len(p) - 1) /\ i \in 0..n
    BY <1>3, <1>1
  <2> QED
    BY <2>1 DEF Leads, ClosedUnder
<1>4. 0..n \subseteq T
  <2> HIDE DEF T, n
  <2> QED
    BY <1>1, <1>2, <1>3, AlongAWalk
<1> QED
  <2> TAKE i \in 1..Len(p)
  <2>1. i - 1 \in 0..n
    BY <1>1
  <2>2. p[(i - 1) + 1] \in C
    BY <2>1, <1>4
  <2> QED
    BY <2>2

Passed(p) == {p[i] : i \in 1..Len(p)}

\* What a walk that has ended passed is closed.
LEMMA PassedIsClosed ==
    ASSUME NEW kinds, NEW r, NEW p, Leads(kinds, r, p), Ended(kinds, p)
    PROVE  ClosedUnder(kinds, Passed(p)) /\ r \in Passed(p)
<1>1. Len(p) \in Nat \ {0} /\ p[1] = r
  BY DEF Leads
<1>2. ASSUME NEW i \in 1..Len(p), Is(p[i], kinds) PROVE document[p[i]].to \in Passed(p)
  <2>1. CASE i = Len(p)
    BY <2>1, <1>2 DEF Ended, Passed
  <2>2. CASE i # Len(p)
    <3>1. i \in 1..(Len(p) - 1) /\ i + 1 \in 1..Len(p)
      BY <2>2, <1>1
    <3> QED
      BY <3>1 DEF Leads, Passed
  <2> QED
    BY <2>1, <2>2
<1> QED
  BY <1>1, <1>2 DEF ClosedUnder, Passed

\* The elements of the rest of a sequence.
LEMMA RestIs ==
    ASSUME NEW S, NEW p \in Seq(S), NEW k \in 1..Len(p)
    PROVE  /\ SubSeq(p, k, Len(p)) \in Seq(S)
           /\ Len(SubSeq(p, k, Len(p))) = Len(p) - k + 1
           /\ \A i \in 1..(Len(p) - k + 1) : SubSeq(p, k, Len(p))[i] = p[k + i - 1]
<1>1. SubSeq(p, k, Len(p)) \in Seq(S)
  OBVIOUS
<1>2. Len(SubSeq(p, k, Len(p))) = Len(p) - k + 1
  OBVIOUS
<1>3. \A i \in 1..(Len(p) - k + 1) : SubSeq(p, k, Len(p))[i] = p[k + i - 1]
  OBVIOUS
<1> QED
  BY <1>1, <1>2, <1>3

\* The rest of a walk is a walk of its own, where it does not lead back to
\* before it.
LEMMA RestOfWalk ==
    ASSUME Declared, NEW kinds \in SUBSET Hops, NEW r, NEW p,
           Leads(kinds, r, p), NEW k \in 1..Len(p),
           Is(p[Len(p)], kinds) => \E m \in k..Len(p) : p[m] = document[p[Len(p)]].to
    PROVE  Walk(kinds, p[k]) = SubSeq(p, k, Len(p))
<1> DEFINE s == SubSeq(p, k, Len(p))
<1>1. p \in Seq(Referable) /\ Len(p) \in Nat \ {0} /\ p[k] \in Referable
  BY DEF Leads
<1>2. s \in Seq(Referable) /\ Len(s) = Len(p) - k + 1 /\ \A i \in 1..Len(s) : s[i] = p[k + i - 1]
  BY <1>1, RestIs
<1> HIDE DEF s
<1>3. Len(s) \in Nat \ {0} /\ s[1] = p[k] /\ s[Len(s)] = p[Len(p)]
  <2>1. Len(s) \in Nat \ {0} /\ 1 \in 1..Len(s) /\ Len(s) \in 1..Len(s)
    BY <1>1, <1>2
  <2>2. k + 1 - 1 = k /\ k + Len(s) - 1 = Len(p)
    BY <1>1, <1>2
  <2>3. s[1] = p[k + 1 - 1] /\ s[Len(s)] = p[k + Len(s) - 1]
    BY <1>2, <2>1
  <2> QED
    BY <2>1, <2>2, <2>3
<1>4. ASSUME NEW i \in 1..(Len(s) - 1)
      PROVE  Is(s[i], kinds) /\ s[i + 1] = document[s[i]].to
  <2>1. /\ k + i - 1 \in 1..(Len(p) - 1)
        /\ s[i] = p[k + i - 1] /\ s[i + 1] = p[(k + i - 1) + 1]
    BY <1>1, <1>2
  <2> QED
    BY <2>1 DEF Leads
<1>5. ASSUME NEW i \in 1..Len(s), NEW j \in 1..Len(s), s[i] = s[j] PROVE i = j
  <2>1. /\ k + i - 1 \in 1..Len(p) /\ k + j - 1 \in 1..Len(p)
        /\ s[i] = p[k + i - 1] /\ s[j] = p[k + j - 1]
    BY <1>1, <1>2
  <2>2. k + i - 1 = k + j - 1
    BY <2>1, <1>5 DEF Leads
  <2> QED
    BY <2>2, <1>2, <1>1
<1>6. Leads(kinds, p[k], s)
  BY <1>2, <1>3, <1>4, <1>5 DEF Leads
<1>7. Ended(kinds, s)
  <2> SUFFICES ASSUME Is(p[Len(p)], kinds)
               PROVE  \E m \in 1..Len(s) : s[m] = document[p[Len(p)]].to
    BY <1>3 DEF Ended
  <2>1. PICK m \in k..Len(p) : p[m] = document[p[Len(p)]].to
    OBVIOUS
  <2>2. m - k + 1 \in 1..Len(s) /\ s[m - k + 1] = p[m]
    BY <1>1, <1>2
  <2> QED
    BY <2>1, <2>2
<1>8. Walk(kinds, p[k]) = s
  BY <1>1, <1>6, <1>7, OneWalk
<1> QED
  BY <1>8 DEF s

\* From a walk that goes in a circle no walk gets out, and none ends.
LEMMA Circling ==
    ASSUME Declared, NEW kinds \in SUBSET Hops, NEW r, NEW p,
           Leads(kinds, r, p), Ended(kinds, p), Is(p[Len(p)], kinds),
           NEW k \in 1..Len(p)
    PROVE  LET q == Walk(kinds, p[k])
           IN  Is(q[Len(q)], kinds) /\ Passed(q) \subseteq Passed(p)
<1> DEFINE q == Walk(kinds, p[k])
<1>1. p \in Seq(Referable) /\ Len(p) \in Nat \ {0} /\ p[k] \in Referable
  BY DEF Leads
<1>2. \A x \in Passed(p) : Is(x, kinds)
  <2>1. \A i \in 1..Len(p) : i = Len(p) \/ i \in 1..(Len(p) - 1)
    BY <1>1
  <2> QED
    BY <2>1 DEF Leads, Passed
<1>3. Leads(kinds, p[k], q)
  BY <1>1, WalkLeads
<1>4. \A i \in 1..Len(q) : q[i] \in Passed(p)
  <2>1. p[k] \in Passed(p) /\ ClosedUnder(kinds, Passed(p))
    BY PassedIsClosed DEF Passed
  <2> HIDE DEF q
  <2> QED
    BY <1>3, <2>1, WalkStays
<1>5. Len(q) \in 1..Len(q)
  BY <1>3 DEF Leads
<1> HIDE DEF q
<1>6. Is(q[Len(q)], kinds) /\ Passed(q) \subseteq Passed(p)
  BY <1>2, <1>4, <1>5 DEF Passed
<1> QED
  BY <1>6 DEF q

----------------------------------------------------------------------------
(* Reachability is what a walk passes, and what is counted on a walk.      *)

\* What is reachable is what the walk passes.
LEMMA ReachIsPassed ==
    ASSUME Declared, NEW kinds \in SUBSET Hops, NEW r \in Referable
    PROVE  Reach(kinds, r) = Passed(Walk(kinds, r))
<1> DEFINE p == Walk(kinds, r)
           n == Cardinality(Identity)
           Grow(X) == X \cup UNION {Onward(kinds, q) : q \in X}
           Iterates(g) == g = [i \in 0..n |-> IF i = 0 THEN {r} ELSE Grow(g[i - 1])]
           f == CHOOSE g : Iterates(g)
<1>1. n \in Nat
  BY FS_CardinalityType, IdentitiesAreFinite
<1>2. \E g : Iterates(g)
  <2> DEFINE S == SUBSET Referable
             start == {r}
             step == [X \in S |-> Grow(X)]
  <2>1. start \in S
    OBVIOUS
  <2>2. step \in [S -> S]
    <3> SUFFICES ASSUME NEW X \in S, NEW q \in X PROVE Onward(kinds, q) \subseteq Referable
      OBVIOUS
    <3> QED
      BY NodeLeads DEF Onward
  <2> HIDE DEF n, S, start, step
  <2>3. PICK g \in [0..n -> S] : g[0] = start /\ \A i \in 1..n : g[i] = step[g[i - 1]]
    BY <1>1, <2>1, <2>2, StepsExist
  <2>4. ASSUME NEW i \in 0..n PROVE g[i] = IF i = 0 THEN {r} ELSE Grow(g[i - 1])
    <3>1. i # 0 => i \in 1..n /\ i - 1 \in 0..n
      BY <1>1
    <3> QED
      BY <2>3, <3>1 DEF step, start
  <2>5. g = [i \in 0..n |-> IF i = 0 THEN {r} ELSE Grow(g[i - 1])]
    BY <2>4, <2>3
  <2> QED
    BY <2>5
<1>3. Iterates(f)
  BY <1>2
<1>4. Reach(kinds, r) = f[n]
  BY DEF Reach
<1> HIDE DEF f, n
<1>5. f[0] = {r} /\ \A i \in 1..n : f[i] = Grow(f[i - 1])
  BY <1>3, <1>1
<1>6. Leads(kinds, r, p) /\ Ended(kinds, p)
  BY WalkLeads
<1> HIDE DEF p
<1>7. ClosedUnder(kinds, Passed(p)) /\ r \in Passed(p)
  BY <1>6, PassedIsClosed
<1>8. f[n] \subseteq Passed(p)
  <2> DEFINE T == {i \in 0..n : f[i] \subseteq Passed(p)}
  <2>1. 0 \in T
    BY <1>1, <1>5, <1>7
  <2>2. ASSUME NEW i \in 1..n, i - 1 \in T PROVE i \in T
    <3>1. f[i] = Grow(f[i - 1]) /\ f[i - 1] \subseteq Passed(p)
      BY <2>2, <1>5
    <3>2. \A q \in f[i - 1] : Onward(kinds, q) \subseteq Passed(p)
      BY <3>1, <1>7 DEF Onward, ClosedUnder
    <3> QED
      BY <3>1, <3>2
  <2> HIDE DEF T
  <2>3. 0..n \subseteq T
    BY <1>1, <2>1, <2>2, AlongAWalk
  <2> QED
    BY <2>3, <1>1 DEF T
<1>9. Passed(p) \subseteq f[n]
  <2> DEFINE Has(i) == \A j \in 1..Len(p) : j <= i + 1 => p[j] \in f[i]
             T == {i \in 0..n : Has(i)}
  <2>0. Len(p) \in Nat \ {0} /\ p[1] = r
    BY <1>6 DEF Leads
  <2>1. 0 \in T
    BY <1>1, <1>5, <2>0
  <2>2. ASSUME NEW i \in 1..n, i - 1 \in T PROVE i \in T
    <3>1. f[i] = Grow(f[i - 1]) /\ Has(i - 1)
      BY <2>2, <1>5
    <3>2. ASSUME NEW j \in 1..Len(p), j <= i + 1 PROVE p[j] \in f[i]
      <4>1. CASE j <= i
        <5>1. p[j] \in f[i - 1]
          BY <3>1, <4>1, <1>1
        <5> QED
          BY <5>1, <3>1
      <4>2. CASE j = i + 1
        <5>1. i \in 1..(Len(p) - 1) /\ i \in 1..Len(p)
          BY <4>2, <1>1, <2>0
        <5>2. Is(p[i], kinds) /\ p[j] = document[p[i]].to /\ p[i] \in f[i - 1]
          BY <5>1, <4>2, <1>6, <3>1, <1>1 DEF Leads
        <5>3. p[j] \in Onward(kinds, p[i])
          BY <5>2 DEF Onward
        <5> QED
          BY <5>2, <5>3, <3>1
      <4> QED
        BY <3>2, <4>1, <4>2, <1>1, <2>0
    <3> QED
      BY <3>2
  <2> HIDE DEF T
  <2>3. 0..n \subseteq T
    BY <1>1, <2>1, <2>2, AlongAWalk
  <2>4. Has(n)
    BY <2>3, <1>1 DEF T
  <2>5. Len(p) - 1 <= n
    BY <1>6, WalksAreShort DEF n
  <2> QED
    BY <2>0, <2>4, <2>5, <1>1 DEF Passed
<1> QED
  BY <1>4, <1>8, <1>9 DEF p

At(p, I) == {p[i] : i \in I}

\* As a walk passes nothing twice, there are as many nodes as positions.
LEMMA PassedOnce ==
    ASSUME NEW kinds, NEW r, NEW p, Leads(kinds, r, p), NEW I \in SUBSET (1..Len(p))
    PROVE  /\ IsFiniteSet(I) /\ Cardinality(I) \in Nat
           /\ Cardinality(At(p, I)) = Cardinality(I)
<1>1. Len(p) \in Nat
  BY DEF Leads
<1>2. IsFiniteSet(I) /\ Cardinality(I) \in Nat
  <2>1. IsFiniteSet(1..Len(p))
    BY <1>1, FS_Interval
  <2>2. IsFiniteSet(I)
    BY <2>1, FS_Subset
  <2> QED
    BY <2>2, FS_CardinalityType
<1> DEFINE Q == At(p, I)
           f == [i \in I |-> p[i]]
<1>3. f \in Bijection(I, Q)
  <2>1. f \in Injection(I, Q)
    BY DEF Injection, Leads, IsInjective, At
  <2>2. f \in Surjection(I, Q)
    BY DEF Surjection, At
  <2> QED
    BY <2>1, <2>2 DEF Bijection
<1>4. Cardinality(Q) = Cardinality(I)
  <2>1. ExistsBijection(I, Q)
    BY <1>3 DEF ExistsBijection
  <2> HIDE DEF Q
  <2> QED
    BY <1>2, <2>1, FS_Bijection
<1> QED
  BY <1>2, <1>4

\* FirstIn is the first of the positions, if there is one.
LEMMA FirstInIs ==
    ASSUME NEW p, Len(p) \in Nat, NEW S \in SUBSET (1..Len(p))
    PROVE  /\ FirstIn(S, p) \in 1..(Len(p) + 1)
           /\ FirstIn(S, p) = Len(p) + 1 <=> S = {}
           /\ S # {} => FirstIn(S, p) \in S
           /\ \A i \in 1..(FirstIn(S, p) - 1) : i \in 1..Len(p) /\ i \notin S
<1>1. CASE S = {}
  BY <1>1 DEF FirstIn
<1>2. CASE S # {}
  <2>0. S \subseteq Nat
    OBVIOUS
  <2>1. \E x \in S : \A y \in S : x <= y
    BY <1>2, <2>0, FirstPosition
  <2> DEFINE k == FirstIn(S, p)
  <2>2. k \in S /\ \A y \in S : k <= y
    BY <1>2, <2>1 DEF FirstIn
  <2> HIDE DEF k
  <2>3. k \in 1..Len(p)
    BY <2>2
  <2>4. k # Len(p) + 1 /\ k \in 1..(Len(p) + 1)
    BY <2>3
  <2>5. ASSUME NEW i \in 1..(k - 1) PROVE i \in 1..Len(p) /\ i \notin S
    BY <2>2, <2>3
  <2> QED
    BY <1>2, <2>2, <2>4, <2>5 DEF k
<1> QED
  BY <1>1, <1>2

----------------------------------------------------------------------------
(* The document is never changed, and with it no walk.                     *)

\* With the document, every walk stays as it is.
LEMMA WalkStaysTheSame ==
    ASSUME document' = document
    PROVE  \A kinds, r : Walk(kinds, r)' = Walk(kinds, r)
BY DEF Walk, Advance, Is

\* And everything that is reachable.
LEMMA ReachStaysTheSame ==
    ASSUME document' = document
    PROVE  \A kinds, r : Reach(kinds, r)' = Reach(kinds, r)
BY DEF Reach, Onward, Is

\* A walk and the walks from what it passes end alike: at one node, or not.
LEMMA SameEnd ==
    ASSUME Declared, NEW kinds \in SUBSET Hops, NEW r \in Referable,
           NEW k \in 1..Len(Walk(kinds, r))
    PROVE  LET p == Walk(kinds, r)
               q == Walk(kinds, p[k])
           IN  /\ p \in Seq(Referable) /\ p[k] \in Referable
               /\ Len(p) \in Nat \ {0} /\ Len(q) \in Nat \ {0}
               /\ Last(p) = p[Len(p)] /\ Last(q) = q[Len(q)]
               /\ Last(p) \in Referable /\ Last(q) \in Referable
               /\ Is(Last(p), kinds) => Is(Last(q), kinds)
               /\ ~Is(Last(p), kinds) => q = SubSeq(p, k, Len(p)) /\ Last(q) = Last(p)
<1> DEFINE p == Walk(kinds, r)
           q == Walk(kinds, p[k])
<1>1. Leads(kinds, r, p) /\ Ended(kinds, p)
  BY WalkLeads
<1>2. p \in Seq(Referable) /\ Len(p) \in Nat \ {0} /\ p[k] \in Referable /\ p[Len(p)] \in Referable
  BY <1>1 DEF Leads
<1>3. Leads(kinds, p[k], q)
  BY <1>2, WalkLeads
<1>4. Len(q) \in Nat \ {0} /\ q \in Seq(Referable) /\ q[Len(q)] \in Referable
  BY <1>3 DEF Leads
<1>5. Is(p[Len(p)], kinds) => Is(q[Len(q)], kinds)
  BY <1>1, Circling
<1>6. ASSUME ~Is(p[Len(p)], kinds) PROVE q = SubSeq(p, k, Len(p)) /\ q[Len(q)] = p[Len(p)]
  <2>1. q = SubSeq(p, k, Len(p))
    BY <1>1, <1>6, RestOfWalk
  <2> HIDE DEF q, p
  <2> QED
    BY <2>1, <1>2, <1>4 DEF p
<1> QED
  BY <1>2, <1>4, <1>5, <1>6 DEF Last

----------------------------------------------------------------------------
(* Specials.                                                               *)

Specials == special \in [Referable -> {Clock, Quantity, NoAnswer, Unasked}]

\* Native scalars, the clock and quantities lead nowhere.
LEMMA NoHop ==
    ASSUME NEW r \in NativeRef \cup {Clock, Quantity}, NEW kinds
    PROVE  ~Is(r, kinds)
BY ReferencesDiffer DEF Is

\* What a call answers is right for everything it passed.
LEMMA SpecialFound ==
    ASSUME Declared, Specials, SpecialsAgree, NEW r \in Referable,
           NEW i \in 1..(KnownSpecial(Walk(Hops, r)) - 1)
    PROVE  /\ i \in 1..Len(Walk(Hops, r)) /\ Walk(Hops, r)[i] \in Referable
           /\ specialOf(Walk(Hops, r)[i]) = special_of(r)
           /\ special_of(r) \in {Clock, Quantity, NoAnswer}
<1> DEFINE p == Walk(Hops, r)
           S == {j \in DOMAIN p : p[j] \in {Clock, Quantity} \/ special[p[j]] # Unasked}
           k == KnownSpecial(p)
           end(j) == Last(Walk(Hops, p[j]))
<1>1. Leads(Hops, r, p) /\ Ended(Hops, p)
  BY WalkLeads
<1>2. p \in Seq(Referable) /\ Len(p) \in Nat \ {0} /\ DOMAIN p = 1..Len(p) /\ Last(p) = p[Len(p)]
  BY <1>1 DEF Leads, Last
<1>3. /\ k \in 1..(Len(p) + 1) /\ i \in 1..Len(p)
      /\ k = Len(p) + 1 <=> S = {}
      /\ S # {} => k \in S
  <2>1. k = FirstIn(S, p) /\ S \in SUBSET (1..Len(p)) /\ i \in 1..(k - 1)
    BY <1>2 DEF KnownSpecial
  <2> HIDE DEF S, k, p
  <2> QED
    BY <2>1, <1>2, FirstInIs
<1>4. \A j \in 1..Len(p) :
        /\ p[j] \in Referable
        /\ Is(Last(p), Hops) => Is(end(j), Hops)
        /\ ~Is(Last(p), Hops) => end(j) = Last(p)
  BY SameEnd
<1>5. \A j \in 1..Len(p) : Is(end(j), Hops) => specialOf(p[j]) = NoAnswer
  BY NoHop DEF specialOf
<1> HIDE DEF p, k, S
<1>6. CASE k = Len(p) + 1
  <2>1. special_of(r) = NoAnswer
    BY <1>3, <1>6, <1>2 DEF special_of, p, k
  <2>2. Last(p) \notin {Clock, Quantity}
    BY <1>2, <1>3, <1>6 DEF S
  <2> QED
    BY <1>3, <1>4, <1>5, <2>1, <2>2 DEF specialOf, p
<1>7. CASE k \in S
  <2>1. k \in 1..Len(p) /\ (p[k] \in {Clock, Quantity} \/ special[p[k]] # Unasked)
    BY <1>7, <1>2 DEF S
  <2>2. special_of(r) = IF p[k] \in {Clock, Quantity} THEN p[k] ELSE special[p[k]]
    BY <2>1, <1>2 DEF special_of, p, k
  <2>3. CASE p[k] \in {Clock, Quantity}
    <3>1. ~Is(p[k], Hops)
      BY <2>3, NoHop
    <3>2. k = Len(p)
      <4>1. \A j \in 1..(Len(p) - 1) : Is(p[j], Hops)
        BY <1>1 DEF Leads
      <4>2. k \notin 1..(Len(p) - 1)
        BY <4>1, <3>1
      <4>3. k \in 1..Len(p) /\ Len(p) \in Nat
        BY <2>1, <1>2
      <4> QED
        BY <4>2, <4>3
    <3> QED
      BY <3>1, <3>2, <2>2, <2>3, <1>2, <1>3, <1>4 DEF specialOf, p
  <2>4. CASE p[k] \notin {Clock, Quantity}
    <3>1. special_of(r) = specialOf(p[k])
      BY <2>1, <2>2, <2>4, <1>4 DEF SpecialsAgree
    <3>2. specialOf(p[k]) = specialOf(p[i])
      BY <1>3, <1>4, <1>5, <2>1 DEF specialOf
    <3> QED
      BY <3>1, <3>2, <1>3, <1>4 DEF specialOf, p
  <2> QED
    BY <2>3, <2>4
<1> QED
  BY <1>3, <1>6, <1>7

\* Each answer of special_of leaves the cache right.
LEMMA SpecialStep ==
    ASSUME Declared, Specials, SpecialsAgree, document' = document,
           special' = special \/ \E r \in Referable : KeepSpecial(r)
    PROVE  Specials' /\ SpecialsAgree'
<1>0. \A q : specialOf(q)' = specialOf(q)
  BY WalkStaysTheSame DEF specialOf
<1>1. CASE special' = special
  BY <1>0, <1>1 DEF Specials, SpecialsAgree
<1>2. ASSUME NEW r \in Referable, KeepSpecial(r) PROVE Specials' /\ SpecialsAgree'
  <2> DEFINE p == Walk(Hops, r)
             k == KnownSpecial(p)
             passed == {p[i] : i \in 1..(k - 1)} \cap Identity
  <2>1. special' = [q \in Referable |-> IF q \in passed THEN special_of(r) ELSE special[q]]
    BY <1>2 DEF KeepSpecial, Keep, Specials
  <2>2. ASSUME NEW q \in passed
        PROVE  specialOf(q) = special_of(r) /\ special_of(r) \in {Clock, Quantity, NoAnswer}
    BY SpecialFound
  <2> HIDE DEF passed
  <2>3. Specials'
    BY <2>1, <2>2 DEF Specials
  <2>4. SpecialsAgree'
    BY <1>0, <2>1, <2>2 DEF SpecialsAgree
  <2> QED
    BY <2>3, <2>4
<1> QED
  BY <1>1, <1>2

----------------------------------------------------------------------------
(* Chains of aliases.                                                      *)

Chains == chains \in [Identity -> Chain \cup {Unasked}]

\* The chain a walk of its own finds.
FreshChain(a) == ChainOf(Walk(AliasHops, a), 1)

ChainsAreFresh ==
    \A a \in Identity : chains[a] # Unasked => AliasAt(a) /\ chains[a] = FreshChain(a)

Circular == [cycle |-> TRUE, steps |-> 0, atType |-> FALSE]

\* What a chain is worth further along a walk.
LEMMA ChainAlong ==
    ASSUME Declared, NEW r \in Referable, NEW k \in 1..Len(Walk(AliasHops, r))
    PROVE  LET p == Walk(AliasHops, r) IN
           /\ AliasAt(Last(p)) => FreshChain(p[k]) = Circular
           /\ ~AliasAt(Last(p)) =>
                FreshChain(p[k]) = [cycle |-> FALSE, steps |-> Len(p) - k,
                                    atType |-> Is(Last(p), {"plain"})]
<1> DEFINE p == Walk(AliasHops, r)
           q == Walk(AliasHops, p[k])
<1>1. AliasHops \in SUBSET Hops /\ \A x : AliasAt(x) = Is(x, AliasHops)
  BY DEF AliasHops, Hops, AliasAt
<1>2. /\ p \in Seq(Referable) /\ Len(p) \in Nat \ {0}
      /\ Is(Last(p), AliasHops) => Is(Last(q), AliasHops)
      /\ ~Is(Last(p), AliasHops) => q = SubSeq(p, k, Len(p)) /\ Last(q) = Last(p)
  BY <1>1, SameEnd
<1>3. FreshChain(p[k]) = ChainOf(q, 1)
  BY DEF FreshChain
<1> HIDE DEF p, q
<1>4. CASE AliasAt(Last(p))
  <2>1. AliasAt(Last(q))
    BY <1>1, <1>2, <1>4
  <2>2. FreshChain(p[k]) = Circular
    BY <1>3, <2>1 DEF ChainOf, Circular
  <2> QED
    BY <1>4, <2>2 DEF p
<1>5. CASE ~AliasAt(Last(p))
  <2>1. q = SubSeq(p, k, Len(p)) /\ Last(q) = Last(p)
    BY <1>1, <1>2, <1>5
  <2>2. Len(q) - 1 = Len(p) - k
    <3>1. k \in 1..Len(p)
      BY DEF p
    <3> QED
      BY <2>1, <1>2, <3>1
  <2>3. FreshChain(p[k]) = [cycle |-> FALSE, steps |-> Len(p) - k,
                            atType |-> Is(Last(p), {"plain"})]
    BY <1>3, <1>5, <2>1, <2>2 DEF ChainOf
  <2> QED
    BY <1>5, <2>3 DEF p
<1> QED
  BY <1>4, <1>5

\* A chain that ends, followed from further back, has the more links.
LEMMA ExtendAdds ==
    ASSUME NEW m, NEW n, NEW t
    PROVE  Extend([cycle |-> FALSE, steps |-> m, atType |-> t], n) =
              [cycle |-> FALSE, steps |-> m + n, atType |-> t]
BY DEF Extend

\* What walk_alias keeps of a chain is right for each alias it passed.
LEMMA ChainFound ==
    ASSUME Declared, Chains, ChainsAreFresh, NEW a \in Identity,
           NEW i \in 1..(KnownChain(Walk(AliasHops, a)) - 1)
    PROVE  LET p == Walk(AliasHops, a) IN
           /\ i \in 1..Len(p)
           /\ ChainFrom(p, i) = FreshChain(p[i]) /\ ChainFrom(p, i) \in Chain
<1> DEFINE p == Walk(AliasHops, a)
           S == {j \in DOMAIN p : p[j] \in Identity /\ chains[p[j]] # Unasked}
           k == KnownChain(p)
           plain == Is(Last(p), {"plain"})
<1>0. a \in Referable /\ AliasHops \in SUBSET Hops
  BY DEF AliasHops, Hops, Referable
<1>1. Len(p) \in Nat /\ DOMAIN p = 1..Len(p)
  BY <1>0, WalkLeads DEF Leads
<1>2. /\ k \in 1..(Len(p) + 1) /\ i \in 1..Len(p) /\ i < k /\ k \in Nat
      /\ k = Len(p) + 1 <=> S = {}
      /\ S # {} => k \in S
  <2>1. k = FirstIn(S, p) /\ S \in SUBSET (1..Len(p)) /\ i \in 1..(k - 1)
    BY <1>1 DEF KnownChain
  <2> HIDE DEF S, k, p
  <2>2. /\ k \in 1..(Len(p) + 1)
        /\ k = Len(p) + 1 <=> S = {}
        /\ S # {} => k \in S
    BY <2>1, <1>1, FirstInIs
  <2> QED
    BY <2>1, <2>2, <1>1
<1>3. \A j \in 1..Len(p) :
        /\ AliasAt(Last(p)) => FreshChain(p[j]) = Circular
        /\ ~AliasAt(Last(p)) =>
             FreshChain(p[j]) = [cycle |-> FALSE, steps |-> Len(p) - j, atType |-> plain]
  BY <1>0, ChainAlong
<1>4. plain \in BOOLEAN
  BY DEF Is
<1>5. Circular \in Chain /\ Circular.cycle
  BY DEF Circular, Chain
<1>6. ChainOf(p, i) = FreshChain(p[i]) /\ ChainOf(p, i) \in Chain
  <2>1. CASE AliasAt(Last(p))
    BY <2>1, <1>2, <1>3, <1>5 DEF ChainOf, Circular
  <2>2. CASE ~AliasAt(Last(p))
    <3> HIDE DEF p, plain, k
    <3>1. Len(p) - i \in Nat
      BY <1>1, <1>2
    <3>2. ChainOf(p, i) = [cycle |-> FALSE, steps |-> Len(p) - i, atType |-> plain]
      BY <2>2 DEF ChainOf, plain
    <3> QED
      BY <2>2, <3>1, <3>2, <1>2, <1>3, <1>4 DEF Chain
  <2> QED
    BY <2>1, <2>2
<1>7. ChainFrom(p, i) = IF k > Len(p) THEN ChainOf(p, i) ELSE Extend(chains[p[k]], k - i)
  BY DEF ChainFrom
<1>8. CASE k = Len(p) + 1
  BY <1>1, <1>2, <1>6, <1>7, <1>8
<1>9. CASE k \in S
  <2>1. k \in 1..Len(p) /\ chains[p[k]] = FreshChain(p[k])
    BY <1>9, <1>1 DEF ChainsAreFresh
  <2>2. ChainFrom(p, i) = Extend(FreshChain(p[k]), k - i)
    BY <1>7, <2>1, <1>1
  <2>3. CASE AliasAt(Last(p))
    <3>1. FreshChain(p[k]) = Circular /\ FreshChain(p[i]) = Circular
      BY <2>3, <1>3, <1>2, <2>1
    <3> QED
      BY <2>2, <3>1, <1>5, <1>2 DEF Extend
  <2>4. CASE ~AliasAt(Last(p))
    <3> HIDE DEF p, plain, k, S
    <3>1. FreshChain(p[k]) = [cycle |-> FALSE, steps |-> Len(p) - k, atType |-> plain]
      BY <2>4, <1>3, <2>1
    <3>2. FreshChain(p[i]) = [cycle |-> FALSE, steps |-> Len(p) - i, atType |-> plain]
      BY <2>4, <1>3, <1>2
    <3>3. Len(p) - i \in Nat /\ (Len(p) - k) + (k - i) = Len(p) - i
      BY <1>1, <1>2, <2>1
    <3>4. Extend(FreshChain(p[k]), k - i) = FreshChain(p[i])
      BY <3>1, <3>2, <3>3, ExtendAdds
    <3>5. FreshChain(p[i]) \in Chain
      BY <3>2, <3>3, <1>4 DEF Chain
    <3>6. ChainFrom(p, i) = FreshChain(p[i]) /\ ChainFrom(p, i) \in Chain
      BY <2>2, <3>4, <3>5
    <3> QED
      BY <3>6, <1>2 DEF p
  <2> QED
    BY <2>3, <2>4
<1> QED
  BY <1>2, <1>8, <1>9

\* Each answer of walk_alias leaves the memo right.
LEMMA ChainStep ==
    ASSUME Declared, Chains, ChainsAreFresh, document' = document,
           chains' = chains \/ \E a \in Identity : CheckAlias(a)
    PROVE  Chains' /\ ChainsAreFresh'
<1>0. \A a : FreshChain(a)' = FreshChain(a) /\ AliasAt(a)' = AliasAt(a)
  BY WalkStaysTheSame DEF FreshChain, ChainOf, AliasAt, Is
<1>1. CASE chains' = chains
  BY <1>0, <1>1 DEF Chains, ChainsAreFresh
<1>2. ASSUME NEW a \in Identity, CheckAlias(a) PROVE Chains' /\ ChainsAreFresh'
  <2> DEFINE p == Walk(AliasHops, a)
             k == KnownChain(p)
             at(q) == CHOOSE i \in 1..(k - 1) : p[i] = q
             mine(q) == \E i \in 1..(k - 1) : p[i] = q /\ AliasAt(q)
  <2>1. chains' = [q \in Identity |-> IF mine(q) THEN ChainFrom(p, at(q)) ELSE chains[q]]
    BY <1>2 DEF CheckAlias
  <2>2. ASSUME NEW q \in Identity, mine(q)
        PROVE  ChainFrom(p, at(q)) = FreshChain(q) /\ ChainFrom(p, at(q)) \in Chain /\ AliasAt(q)
    <3>1. at(q) \in 1..(k - 1) /\ p[at(q)] = q
      BY <2>2
    <3> HIDE DEF at
    <3> QED
      BY <2>2, <3>1, ChainFound
  <2> HIDE DEF p, k, at, mine
  <2>3. Chains'
    BY <2>1, <2>2 DEF Chains
  <2>4. ChainsAreFresh'
    BY <1>0, <2>1, <2>2 DEF ChainsAreFresh
  <2> QED
    BY <2>3, <2>4
<1> QED
  BY <1>1, <1>2

\* A walk that leads back leads back to nodes on a circle.
LEMMA CircleIsReached ==
    ASSUME Declared, NEW kinds \in SUBSET Hops, NEW r \in Referable,
           Is(Last(Walk(kinds, r)), kinds)
    PROVE  OnCycle(kinds, Last(Walk(kinds, r)))
<1> DEFINE p == Walk(kinds, r)
           last == p[Len(p)]
<1>1. Leads(kinds, r, p) /\ Ended(kinds, p)
  BY WalkLeads
<1>2. Len(p) \in Nat \ {0} /\ Last(p) = last /\ Is(last, kinds)
  BY <1>1 DEF Leads, Last
<1>3. PICK m \in 1..Len(p) : p[m] = document[last].to
  BY <1>1, <1>2 DEF Ended
<1>4. p[m] \in Referable /\ p \in Seq(Referable)
  BY <1>1 DEF Leads
<1>5. m \in m..Len(p)
  BY <1>2
<1>6. Walk(kinds, p[m]) = SubSeq(p, m, Len(p))
  <2>1. \E n \in m..Len(p) : p[n] = document[p[Len(p)]].to
    BY <1>3, <1>5
  <2> HIDE DEF p, last
  <2> QED
    BY <1>1, <2>1, RestOfWalk
<1> DEFINE s == SubSeq(p, m, Len(p))
<1>7. last \in Passed(s)
  <2>1. Len(s) = Len(p) - m + 1 /\ Len(s) \in 1..Len(s) /\ s[Len(s)] = last
    BY <1>2, <1>4
  <2> QED
    BY <2>1 DEF Passed
<1>8. last \in Reach(kinds, p[m])
  <2> HIDE DEF p, s, last
  <2> QED
    BY <1>4, <1>6, <1>7, ReachIsPassed DEF s
<1>9. p[m] \in Onward(kinds, last)
  BY <1>2, <1>3 DEF Onward
<1>10. OnCycle(kinds, last)
  <2> HIDE DEF p, last
  <2> QED
    BY <1>8, <1>9 DEF OnCycle
<1> QED
  BY <1>2, <1>10

\* On a walk that ends no node is on a circle.
LEMMA NoCircle ==
    ASSUME Declared, NEW kinds \in SUBSET Hops, NEW r \in Referable,
           ~Is(Last(Walk(kinds, r)), kinds), NEW j \in 1..Len(Walk(kinds, r))
    PROVE  ~OnCycle(kinds, Walk(kinds, r)[j])
<1> DEFINE p == Walk(kinds, r)
<1>1. Leads(kinds, r, p) /\ Ended(kinds, p)
  BY WalkLeads
<1>2. Len(p) \in Nat \ {0} /\ p \in Seq(Referable) /\ Last(p) = p[Len(p)]
  BY <1>1 DEF Leads, Last
<1> SUFFICES ASSUME NEW x \in Onward(kinds, p[j]), p[j] \in Reach(kinds, x) PROVE FALSE
  BY DEF OnCycle
<1>3. Is(p[j], kinds) /\ x = document[p[j]].to
  BY DEF Onward
<1>4. j # Len(p)
  BY <1>2, <1>3
<1>5. j \in 1..(Len(p) - 1) /\ j + 1 \in 1..Len(p)
  BY <1>2, <1>4
<1>6. x = p[j + 1]
  BY <1>1, <1>3, <1>5 DEF Leads
<1>7. Walk(kinds, x) = SubSeq(p, j + 1, Len(p)) /\ x \in Referable
  BY <1>5, <1>6, SameEnd
<1> DEFINE s == SubSeq(p, j + 1, Len(p))
<1>8. p[j] \in Passed(s)
  <2> HIDE DEF p, s
  <2> QED
    BY <1>7, ReachIsPassed DEF s
<1>9. PICK i \in 1..Len(s) : s[i] = p[j]
  BY <1>8 DEF Passed
<1>10. j + i \in 1..Len(p) /\ p[j + i] = p[j]
  <2>1. Len(s) = Len(p) - j /\ s[i] = p[j + i]
    BY <1>2, <1>5
  <2> HIDE DEF s, p
  <2> QED
    BY <2>1, <1>2, <1>5, <1>9
<1>11. j + i = j
  BY <1>1, <1>10 DEF Leads
<1> QED
  BY <1>11, <1>5, <1>9

\* From a right memo the verdicts on aliases are right.
LEMMA VerdictsHold ==
    ASSUME Declared, alias_depth \in Nat \cup {NoLimit}, ChainsAreFresh
    PROVE  AliasVerdicts
<1> SUFFICES ASSUME NEW a \in Identity, chains[a] # Unasked
             PROVE  LET chain == {q \in Reach(AliasHops, a) : AliasAt(q)}
                        cycle == \E q \in chain : OnCycle(AliasHops, q)
                        typed == \E q \in Reach(AliasHops, a) : Is(q, {"plain"})
                    IN /\ Walked(chains[a]) = "ALIAS_CYCLE" <=> cycle
                       /\ Walked(chains[a]) = "DEPTH_LIMIT_EXCEEDED" <=>
                            /\ ~cycle /\ typed
                            /\ alias_depth # NoLimit /\ Cardinality(chain) > alias_depth
  BY DEF AliasVerdicts
<1> DEFINE p == Walk(AliasHops, a)
           chain == {q \in Passed(p) : AliasAt(q)}
           cycle == \E q \in chain : OnCycle(AliasHops, q)
           typed == \E q \in Passed(p) : Is(q, {"plain"})
           plain == Is(Last(p), {"plain"})
<1>1. a \in Referable /\ AliasHops \in SUBSET Hops /\ \A x : AliasAt(x) = Is(x, AliasHops)
  BY DEF AliasHops, Hops, AliasAt, Referable
<1>2. Reach(AliasHops, a) = Passed(p)
  BY <1>1, ReachIsPassed
<1>3. Leads(AliasHops, a, p) /\ Ended(AliasHops, p)
  BY <1>1, WalkLeads
<1>4. Len(p) \in Nat \ {0} /\ p[1] = a /\ Last(p) = p[Len(p)]
  BY <1>3 DEF Leads, Last
<1>5. /\ AliasAt(Last(p)) => chains[a] = Circular
      /\ ~AliasAt(Last(p)) =>
           chains[a] = [cycle |-> FALSE, steps |-> Len(p) - 1, atType |-> plain]
  <2>1. 1 \in 1..Len(p)
    BY <1>4
  <2>2. chains[a] = FreshChain(p[1])
    BY <1>4 DEF ChainsAreFresh
  <2> QED
    BY <2>1, <2>2, <1>1, ChainAlong
<1>6. CASE AliasAt(Last(p))
  <2>1. cycle
    <3>1. OnCycle(AliasHops, Last(p))
      BY <1>1, <1>6, CircleIsReached
    <3>2. Last(p) \in chain
      BY <1>4, <1>6 DEF Passed
    <3> QED
      BY <3>1, <3>2
  <2>2. Walked(chains[a]) = "ALIAS_CYCLE"
    BY <1>5, <1>6 DEF Walked, Circular
  <2> HIDE DEF p, cycle
  <2> QED
    BY <1>2, <2>1, <2>2 DEF cycle
<1>7. CASE ~AliasAt(Last(p))
  <2>1. ~cycle
    BY <1>1, <1>7, NoCircle DEF Passed
  <2>2. \A i \in 1..(Len(p) - 1) : AliasAt(p[i])
    BY <1>1, <1>3 DEF Leads
  <2>3. typed <=> plain
    <3>1. \A x : AliasAt(x) => ~Is(x, {"plain"})
      BY DEF AliasAt, Is
    <3>2. \A i \in 1..Len(p) : i = Len(p) \/ i \in 1..(Len(p) - 1)
      BY <1>4
    <3>3. Len(p) \in 1..Len(p)
      BY <1>4
    <3> HIDE DEF p
    <3> QED
      BY <3>1, <3>2, <3>3, <2>2, <1>4 DEF Passed
  <2>4. Cardinality(chain) = Len(p) - 1
    <3> DEFINE I == 1..(Len(p) - 1)
    <3>1. I \in SUBSET (1..Len(p))
      BY <1>4
    <3>2. \A i \in 1..Len(p) : AliasAt(p[i]) <=> i \in I
      BY <1>4, <1>7, <2>2
    <3> HIDE DEF p
    <3>3. chain = At(p, I)
      BY <3>1, <3>2 DEF Passed, At
    <3>4. Cardinality(At(p, I)) = Cardinality(I)
      <4> HIDE DEF I
      <4> QED
        BY <1>3, <3>1, PassedOnce
    <3>5. Cardinality(I) = Len(p) - 1
      <4> DEFINE n == Len(p) - 1
      <4>1. n \in Nat
        BY <1>4
      <4> HIDE DEF n
      <4>2. Cardinality(1..n) = IF 1 <= n THEN n - 1 + 1 ELSE 0
        BY <4>1, FS_Interval
      <4>3. Cardinality(1..n) = n
        BY <4>1, <4>2
      <4> QED
        BY <4>3 DEF n
    <3> QED
      BY <3>3, <3>4, <3>5
  <2> DEFINE verdict == Walked(chains[a])
  <2>5. verdict = IF plain /\ alias_depth # NoLimit /\ Len(p) - 1 > alias_depth
                  THEN "DEPTH_LIMIT_EXCEEDED" ELSE "resolved"
    <3> HIDE DEF p, plain
    <3> QED
      BY <1>5, <1>7 DEF Walked, TooDeep
  <2> HIDE DEF p, cycle, typed, plain, chain, verdict
  <2>6. /\ verdict = "ALIAS_CYCLE" <=> cycle
        /\ verdict = "DEPTH_LIMIT_EXCEEDED" <=>
             /\ ~cycle /\ typed
             /\ alias_depth # NoLimit /\ Cardinality(chain) > alias_depth
    BY <2>1, <2>3, <2>4, <2>5
  <2> QED
    BY <1>2, <2>6 DEF verdict, chain, cycle, typed
<1> QED
  BY <1>6, <1>7

----------------------------------------------------------------------------
(* What a reference resolves to.                                           *)

Resolved == resolved \in [Referable -> Referable \cup {NoAnswer, Unasked}]

ResolvedIsFresh ==
    Closed => \A r \in Referable : resolved[r] # Unasked => resolved[r] = Expected(r)

\* Nor does an end move while the document stays.
LEMMA EndStaysTheSame ==
    ASSUME document' = document
    PROVE  \A q : End(q)' = End(q)
<1> TAKE q
<1> DEFINE ends == {x \in Reach(Hops, q) : Terminal(x)}
<1>1. \A x : Terminal(x)' = Terminal(x)
  BY DEF Terminal, Is
<1>2. ends' = ends
  BY <1>1, ReachStaysTheSame
<1>3. End(q) = IF ends = {} THEN NoAnswer ELSE CHOOSE x \in ends : TRUE
  BY DEF End
<1>4. End(q)' = IF ends' = {} THEN NoAnswer ELSE CHOOSE x \in ends' : TRUE
  BY DEF End
<1> HIDE DEF ends
<1> QED
  BY <1>2, <1>3, <1>4

\* What stops a walk for resolving is no hop.
LEMMA TerminalsStop ==
    ASSUME NEW q, Terminal(q)
    PROVE  ~Is(q, Hops)
BY NoHop DEF Terminal, Is, Hops

\* A reference stands for what its walk ends at, and so does all it passed.
LEMMA EndIsTheEnd ==
    ASSUME Declared, NEW r \in Referable
    PROVE  /\ End(r) = resolveKind(r, TRUE)
           /\ End(r) \in Referable \cup {NoAnswer}
           /\ Is(Last(Walk(Hops, r)), Hops) => End(r) = NoAnswer
<1> DEFINE p == Walk(Hops, r)
           ends == {q \in Passed(p) : Terminal(q)}
<1>1. Leads(Hops, r, p) /\ Ended(Hops, p)
  BY WalkLeads
<1>2. Len(p) \in Nat \ {0} /\ Last(p) = p[Len(p)] /\ Last(p) \in Referable
  BY <1>1 DEF Leads, Last
<1>3. Reach(Hops, r) = Passed(p)
  BY ReachIsPassed
<1>4. \A q \in Passed(p) : Terminal(q) => q = Last(p)
  <2> SUFFICES ASSUME NEW i \in 1..Len(p), Terminal(p[i]) PROVE i = Len(p)
    BY <1>2 DEF Passed
  <2>1. ~Is(p[i], Hops)
    BY TerminalsStop
  <2>2. i \notin 1..(Len(p) - 1)
    BY <1>1, <2>1 DEF Leads
  <2>3. Len(p) \in Nat
    BY <1>2
  <2> QED
    BY <2>2, <2>3
<1>5. Last(p) \in Passed(p)
  <2>1. Len(p) \in 1..Len(p)
    BY <1>2
  <2> QED
    BY <2>1, <1>2 DEF Passed
<1>6. End(r) = IF ends = {} THEN NoAnswer ELSE CHOOSE q \in ends : TRUE
  BY <1>3 DEF End
<1>7. resolveKind(r, TRUE) = IF Terminal(Last(p)) THEN Last(p) ELSE NoAnswer
  BY DEF resolveKind
<1> HIDE DEF p
<1>8. CASE Terminal(Last(p))
  <2>1. ends = {Last(p)}
    BY <1>4, <1>5, <1>8
  <2> QED
    BY <2>1, <1>6, <1>7, <1>8, <1>2, TerminalsStop DEF p
<1>9. CASE ~Terminal(Last(p))
  <2>1. ends = {}
    BY <1>4, <1>9
  <2> QED
    BY <2>1, <1>6, <1>7, <1>9
<1> QED
  BY <1>8, <1>9

\* Everything a walk passes resolves alike.
LEMMA EndAlong ==
    ASSUME Declared, NEW r \in Referable, NEW k \in 1..Len(Walk(Hops, r))
    PROVE  /\ Walk(Hops, r)[k] \in Referable
           /\ End(Walk(Hops, r)[k]) = End(r)
<1> DEFINE p == Walk(Hops, r)
           q == Walk(Hops, p[k])
<1>1. /\ p[k] \in Referable
      /\ Is(Last(p), Hops) => Is(Last(q), Hops)
      /\ ~Is(Last(p), Hops) => Last(q) = Last(p)
  BY SameEnd
<1>2. End(r) = resolveKind(r, TRUE) /\ (Is(Last(p), Hops) => End(r) = NoAnswer)
  BY EndIsTheEnd
<1>3. End(p[k]) = resolveKind(p[k], TRUE) /\ (Is(Last(q), Hops) => End(p[k]) = NoAnswer)
  BY <1>1, EndIsTheEnd
<1>4. CASE Is(Last(p), Hops)
  BY <1>1, <1>2, <1>3, <1>4
<1>5. CASE ~Is(Last(p), Hops)
  BY <1>1, <1>2, <1>3, <1>5 DEF resolveKind
<1> QED
  BY <1>1, <1>4, <1>5

\* The positions of the links of a walk.
LinksOf(p) == {j \in 2..Len(p) : ByAlias(p, j) /\ Linked(p[j])}

\* The links of a walk that ends are as many as the positions that make them.
LEMMA LinksAreCounted ==
    ASSUME Declared, NEW r \in Referable, ~Is(Last(Walk(Hops, r)), Hops)
    PROVE  Cardinality(Links(r)) = Cardinality(LinksOf(Walk(Hops, r)))
<1> DEFINE p == Walk(Hops, r)
           J == LinksOf(p)
<1>1. Leads(Hops, r, p) /\ Ended(Hops, p)
  BY WalkLeads
<1>2. Len(p) \in Nat \ {0} /\ Last(p) = p[Len(p)]
  BY <1>1 DEF Leads, Last
<1>3. Reach(Hops, r) = Passed(p)
  BY ReachIsPassed
<1>4. J \in SUBSET (1..Len(p))
  BY <1>2 DEF LinksOf
<1> HIDE DEF p
<1>5. Links(r) \subseteq At(p, J)
  <2> SUFFICES ASSUME NEW k \in 1..Len(p), AliasAt(p[k]),
                      NEW q \in Passed(p), Linked(q), document[p[k]].to = q
               PROVE  q \in At(p, J)
    BY <1>3 DEF Links, Passed
  <2>1. Is(p[k], Hops)
    BY DEF AliasAt, Is, Hops
  <2>2. k # Len(p)
    BY <2>1, <1>2 DEF p
  <2>3. k \in 1..(Len(p) - 1) /\ k + 1 \in 2..Len(p) /\ (k + 1) - 1 = k /\ k + 1 > 1
    BY <2>2, <1>2
  <2>4. p[k + 1] = q
    BY <1>1, <2>3 DEF Leads
  <2>5. ByAlias(p, k + 1)
    BY <2>3 DEF ByAlias
  <2> QED
    BY <2>3, <2>4, <2>5 DEF At, LinksOf
<1>6. At(p, J) \subseteq Links(r)
  <2> SUFFICES ASSUME NEW j \in J PROVE p[j] \in Links(r)
    BY DEF At
  <2>1. j \in 2..Len(p) /\ AliasAt(p[j - 1]) /\ Linked(p[j])
    BY DEF LinksOf, ByAlias
  <2>2. j - 1 \in 1..(Len(p) - 1) /\ j - 1 \in 1..Len(p) /\ (j - 1) + 1 = j /\ j \in 1..Len(p)
    BY <2>1, <1>2
  <2>3. p[j] = document[p[j - 1]].to
    BY <1>1, <2>2 DEF Leads
  <2> QED
    BY <1>3, <2>1, <2>2, <2>3 DEF Links, Passed
<1>7. Links(r) = At(p, J)
  BY <1>5, <1>6
<1> HIDE DEF J
<1> QED
  BY <1>1, <1>4, <1>7, PassedOnce DEF J, p

\* A non-empty set of positions has a last one.
LEMMA LastPosition ==
    ASSUME NEW n \in Nat, NEW J \in SUBSET (1..n), J # {}
    PROVE  \E m \in J : \A j \in J : j <= m
<1> DEFINE T == {n - j : j \in J}
<1>1. T \subseteq Nat /\ T # {}
  <2>1. \A j \in J : n - j \in Nat
    OBVIOUS
  <2>2. PICK j \in J : TRUE
    OBVIOUS
  <2>3. n - j \in T
    OBVIOUS
  <2> QED
    BY <2>1, <2>3
<1>2. PICK x \in T : \A y \in T : x <= y
  <2> HIDE DEF T
  <2> QED
    BY <1>1, FirstPosition
<1>3. PICK m \in J : x = n - m
  BY <1>2
<1>4. \A j \in J : n - m <= n - j
  BY <1>2, <1>3
<1> QED
  BY <1>4

\* A link to what is no type, of a document every alias of which leads to one,
\* leads to a quantity; it resolves to nothing.
LEMMA LinkToNoType ==
    ASSUME Declared, Closed, NEW r \in Referable, NEW i \in LinksOf(Walk(Hops, r)),
           ~DeclaredType(Walk(Hops, r)[i])
    PROVE  End(r) = NoAnswer
<1> DEFINE p == Walk(Hops, r)
<1>1. Leads(Hops, r, p)
  BY WalkLeads
<1>2. Len(p) \in Nat \ {0}
  BY <1>1 DEF Leads
<1>3. i \in 2..Len(p) /\ AliasAt(p[i - 1]) /\ Linked(p[i])
  BY DEF LinksOf, ByAlias
<1>4. i \in 1..Len(p) /\ i - 1 \in 1..(Len(p) - 1) /\ (i - 1) + 1 = i
  BY <1>2, <1>3
<1>5. p[i] = document[p[i - 1]].to
  BY <1>1, <1>4 DEF Leads
<1>6. p[i] \in Referable
  BY <1>4, EndAlong
<1>7. ~Is(p[i], {"field", "none"})
  <2>1. p[i - 1] \in Identity
    BY <1>3 DEF AliasAt, Is
  <2> HIDE DEF p
  <2> QED
    BY <1>3, <1>5, <2>1 DEF Closed
<1>8. p[i] \notin Identity
  <2> SUFFICES ASSUME p[i] \in Identity PROVE FALSE
    OBVIOUS
  <2>1. document[p[i]].is \in {"field", "alias", "construct", "plain", "none"}
    BY DEF Declared, NodeShape
  <2> QED
    BY <2>1, <1>7 DEF DeclaredType, Is
<1>9. p[i] = Quantity
  BY <1>3, <1>6, <1>8 DEF Referable, Linked
<1>10. resolveKind(Quantity, TRUE) = NoAnswer
  <2>1. Quantity \in Referable /\ ~Is(Quantity, Hops)
    BY NoHop DEF Referable
  <2>2. Walk(Hops, Quantity) = <<Quantity>>
    BY <2>1, WalkOfNoHop
  <2>5. Last(Walk(Hops, Quantity)) = Quantity
    BY <2>2 DEF Last
  <2>6. ~Terminal(Quantity)
    BY ReferencesDiffer DEF Terminal, Is
  <2> QED
    BY <2>5, <2>6 DEF resolveKind
<1>11. End(Quantity) = NoAnswer
  BY <1>10, EndIsTheEnd DEF Referable
<1> QED
  BY <1>4, <1>9, <1>11, EndAlong

\* Where resolve_walk stops, and why.
LEMMA StopIs ==
    ASSUME Declared, NEW r \in Referable
    PROVE  LET p == Walk(Hops, r)
               i == Stop(p)
               stops(j) == \/ resolved[p[j]] # Unasked /\ alias_depth = NoLimit
                           \/ ~DeclaredType(p[j])
                           \/ OverDepth(p, j)
           IN  /\ Len(p) \in Nat \ {0} /\ i \in 1..(Len(p) + 1)
               /\ i = Len(p) + 1 => \A j \in LinksOf(p) : ~stops(j)
               /\ i # Len(p) + 1 => i \in LinksOf(p) /\ stops(i)
<1> DEFINE p == Walk(Hops, r)
           stops(j) == \/ resolved[p[j]] # Unasked /\ alias_depth = NoLimit
                       \/ ~DeclaredType(p[j])
                       \/ OverDepth(p, j)
           S == {j \in DOMAIN p : ByAlias(p, j) /\ Linked(p[j]) /\ stops(j)}
           i == Stop(p)
<1>1. Leads(Hops, r, p)
  BY WalkLeads
<1>2. Len(p) \in Nat \ {0} /\ DOMAIN p = 1..Len(p)
  BY <1>1 DEF Leads
<1>3. i = FirstIn(S, p)
  BY DEF Stop
<1>4. S = {j \in LinksOf(p) : stops(j)}
  <2> HIDE DEF p, stops
  <2> QED
    BY <1>2 DEF LinksOf, ByAlias
<1> HIDE DEF stops, i, p
<1>5. S \in SUBSET (1..Len(p))
  BY <1>2
<1> HIDE DEF S
<1>6. /\ i \in 1..(Len(p) + 1)
      /\ i = Len(p) + 1 <=> S = {}
      /\ S # {} => i \in S
  BY <1>2, <1>3, <1>5, FirstInIs
<1>7. i = Len(p) + 1 => \A j \in LinksOf(p) : ~stops(j)
  BY <1>4, <1>6
<1>8. i # Len(p) + 1 => i \in LinksOf(p) /\ stops(i)
  BY <1>4, <1>6
<1> QED
  BY <1>2, <1>6, <1>7, <1>8 DEF stops, i, p

\* Without a limit what a walk answers is right for all it passed.
LEMMA ResolvedUnlimited ==
    ASSUME Declared, Closed, ResolvedIsFresh, alias_depth = NoLimit,
           NEW r \in Referable
    PROVE  /\ resolve_walk(r) = End(r)
           /\ \A q \in {r} \cup walked(r) : q \in Referable /\ Expected(q) = End(r)
<1> DEFINE p == Walk(Hops, r)
           i == Stop(p)
<1>1. /\ Len(p) \in Nat \ {0} /\ i \in 1..(Len(p) + 1)
      /\ i # Len(p) + 1 => /\ i \in LinksOf(p)
                           /\ \/ resolved[p[i]] # Unasked
                              \/ ~DeclaredType(p[i])
  BY StopIs DEF OverDepth
<1>2. \A q \in Referable : Expected(q) = End(q)
  BY DEF Expected
<1>3. \A j \in 1..Len(p) : p[j] \in Referable /\ End(p[j]) = End(r)
  BY EndAlong
<1>4. \A q \in {r} \cup walked(r) : q \in Referable /\ Expected(q) = End(r)
  <2>1. walked(r) \subseteq Passed(p)
    BY <1>1 DEF walked, Passed
  <2> QED
    BY <2>1, <1>2, <1>3 DEF Passed
<1>5. ~OverDepth(p, i)
  BY DEF OverDepth
<1>9. End(r) = IF Terminal(Last(p)) THEN Last(p) ELSE NoAnswer
  BY EndIsTheEnd DEF resolveKind
<1>6. resolve_walk(r) = IF i > Len(p) THEN End(r)
                        ELSE IF resolved[p[i]] = Unasked THEN NoAnswer ELSE resolved[p[i]]
  BY <1>5, <1>9 DEF resolve_walk
<1>0. \A j \in LinksOf(p) : ~DeclaredType(p[j]) => End(r) = NoAnswer
  BY LinkToNoType
<1> HIDE DEF p, i
<1>7. CASE i = Len(p) + 1
  <2>1. i > Len(p)
    BY <1>1, <1>7
  <2> QED
    BY <1>4, <1>6, <2>1
<1>8. CASE i # Len(p) + 1
  <2>1. i \in LinksOf(p) /\ i \in 1..Len(p) /\ ~(i > Len(p))
    BY <1>1, <1>8
  <2>2. CASE resolved[p[i]] = Unasked
    <3>1. ~DeclaredType(p[i])
      BY <1>1, <1>8, <2>2
    <3>2. End(r) = NoAnswer
      BY <2>1, <3>1, <1>0
    <3> QED
      BY <1>4, <3>2, <1>6, <2>1, <2>2
  <2>3. CASE resolved[p[i]] # Unasked
    BY <1>2, <1>3, <1>4, <1>6, <2>1, <2>3 DEF ResolvedIsFresh
  <2> QED
    BY <2>2, <2>3
<1> QED
  BY <1>4, <1>7, <1>8

\* Under a limit a walk stops where its links are too many, and they are for
\* the whole walk then; what it passed is counted from its start only.
LEMMA ResolvedLimited ==
    ASSUME Declared, Closed, ResolvedIsFresh, alias_depth \in Nat,
           NEW r \in Referable
    PROVE  resolve_walk(r) = Expected(r)
<1> DEFINE p == Walk(Hops, r)
           i == Stop(p)
           J == LinksOf(p)
           Upto(m) == {j \in 2..m : ByAlias(p, j) /\ Linked(p[j])}
<1>0. alias_depth # NoLimit
  BY LimitsAssumption
<1>1. /\ Len(p) \in Nat \ {0} /\ i \in 1..(Len(p) + 1)
      /\ i = Len(p) + 1 => \A j \in J : ~OverDepth(p, j)
      /\ i # Len(p) + 1 => i \in J /\ (OverDepth(p, i) \/ ~DeclaredType(p[i]))
  BY <1>0, StopIs
<1>2. Leads(Hops, r, p)
  BY WalkLeads
<1>3. /\ J \in SUBSET (1..Len(p)) /\ J \in SUBSET (2..Len(p))
      /\ \A j \in 2..Len(p) : j \in J <=> ByAlias(p, j) /\ Linked(p[j])
  BY <1>1 DEF LinksOf
<1>4. IsFiniteSet(J) /\ Cardinality(J) \in Nat
  <2> HIDE DEF J, p
  <2> QED
    BY <1>2, <1>3, PassedOnce
<1>5. \A m : OverDepth(p, m) <=> Cardinality(Upto(m)) > alias_depth
  BY <1>0 DEF OverDepth
<1>6. /\ End(r) \in Referable \cup {NoAnswer}
      /\ Is(Last(p), Hops) => End(r) = NoAnswer
      /\ End(r) = IF Terminal(Last(p)) THEN Last(p) ELSE NoAnswer
  BY EndIsTheEnd DEF resolveKind
<1>7. ~Is(Last(p), Hops) => Cardinality(Links(r)) = Cardinality(J)
  BY LinksAreCounted
<1>8. Expected(r) = IF Cardinality(Links(r)) > alias_depth THEN NoAnswer ELSE End(r)
  BY <1>0 DEF Expected
<1>9. resolve_walk(r) = IF i > Len(p) THEN End(r)
                        ELSE IF OverDepth(p, i) \/ resolved[p[i]] = Unasked THEN NoAnswer
                        ELSE resolved[p[i]]
  BY <1>6 DEF resolve_walk
<1>10. \A j \in J : ~DeclaredType(p[j]) => End(r) = NoAnswer /\ End(p[j]) = NoAnswer /\ p[j] \in Referable
  <2>1. \A j \in J : ~DeclaredType(p[j]) => End(r) = NoAnswer
    BY LinkToNoType
  <2>2. \A j \in J : p[j] \in Referable /\ End(p[j]) = End(r)
    BY <1>3, EndAlong
  <2> QED
    BY <2>1, <2>2
<1>11. \A m \in J : Upto(m) \subseteq J /\ IsFiniteSet(Upto(m)) /\ Cardinality(Upto(m)) <= Cardinality(J)
  <2> TAKE m \in J
  <2> DEFINE U == Upto(m)
  <2>1. U \subseteq J
    BY <1>3, <1>1
  <2> HIDE DEF U, J
  <2>2. IsFiniteSet(U) /\ Cardinality(U) <= Cardinality(J)
    BY <2>1, <1>4, FS_Subset
  <2> QED
    BY <2>1, <2>2 DEF U
<1>12. J # {} => \E m \in J : Upto(m) = J
  <2> SUFFICES ASSUME J # {} PROVE \E m \in J : Upto(m) = J
    OBVIOUS
  <2>1. PICK m \in J : \A j \in J : j <= m
    <3> HIDE DEF J, p
    <3> QED
      BY <1>1, <1>3, LastPosition
  <2>2. J \subseteq Upto(m)
    BY <1>3, <2>1
  <2> HIDE DEF J, Upto
  <2> QED
    BY <1>11, <2>1, <2>2
<1>13. Cardinality({}) = 0
  BY FS_EmptySet
<1> HIDE DEF p, i, J, Upto
<1>14. CASE i = Len(p) + 1
  <2>1. resolve_walk(r) = End(r)
    BY <1>9, <1>1, <1>14
  <2>2. Cardinality(J) <= alias_depth
    <3>1. CASE J = {}
      BY <1>13, <3>1
    <3>2. CASE J # {}
      <4>1. PICK m \in J : Upto(m) = J
        BY <1>12, <3>2
      <4>2. ~(Cardinality(Upto(m)) > alias_depth)
        BY <1>1, <1>5, <1>14
      <4>3. ~(Cardinality(J) > alias_depth)
        BY <4>1, <4>2
      <4> QED
        BY <4>3, <1>4
    <3> QED
      BY <3>1, <3>2
  <2>3. ~(Cardinality(J) > alias_depth)
    BY <2>2, <1>4
  <2> QED
    BY <2>1, <2>3, <1>6, <1>7, <1>8
<1>15. CASE i # Len(p) + 1
  <2>1. i \in J /\ ~(i > Len(p))
    BY <1>1, <1>15
  <2>2. CASE OverDepth(p, i)
    <3>1. Cardinality(Upto(i)) > alias_depth /\ Cardinality(Upto(i)) <= Cardinality(J)
      BY <1>5, <1>11, <2>1, <2>2
    <3>2. Cardinality(Upto(i)) \in Nat
      BY <1>11, <2>1, FS_CardinalityType
    <3>3. Cardinality(J) > alias_depth
      BY <3>1, <3>2, <1>4
    <3>4. Expected(r) = NoAnswer
      BY <3>3, <1>6, <1>7, <1>8
    <3> QED
      BY <3>4, <1>9, <2>1, <2>2
  <2>3. CASE ~OverDepth(p, i)
    <3>1. End(r) = NoAnswer /\ End(p[i]) = NoAnswer /\ p[i] \in Referable
      BY <1>1, <1>10, <1>15, <2>1, <2>3
    <3>2. Expected(r) = NoAnswer /\ Expected(p[i]) = NoAnswer
      BY <3>1 DEF Expected
    <3>3. resolved[p[i]] # Unasked => resolved[p[i]] = NoAnswer
      BY <3>1, <3>2 DEF ResolvedIsFresh
    <3> QED
      BY <3>2, <3>3, <1>9, <2>1, <2>3
  <2> QED
    BY <2>2, <2>3
<1> QED
  BY <1>14, <1>15

\* Each answer of resolve leaves the cache right.
LEMMA ResolvedStep ==
    ASSUME Declared, Resolved, ResolvedIsFresh, alias_depth \in Nat \cup {NoLimit},
           document' = document, alias_depth' = alias_depth,
           resolved' = resolved \/ \E r \in Referable : KeepResolved(r)
    PROVE  Resolved' /\ ResolvedIsFresh'
<1>0. /\ \A q : Expected(q)' = Expected(q)
      /\ Closed' = Closed
  <2>1. Closed' = Closed
    BY DEF Closed, AliasAt, Is
  <2>2. \A q : End(q)' = End(q)
    BY EndStaysTheSame
  <2>3. \A q : Links(q)' = Links(q)
    BY ReachStaysTheSame DEF Links, Linked, AliasAt, Is
  <2>4. \A q : Expected(q)' = Expected(q)
    <3> TAKE q
    <3>1. End(q)' = End(q) /\ Links(q)' = Links(q)
      BY <2>2, <2>3
    <3> QED
      BY <3>1 DEF Expected
  <2> QED
    BY <2>1, <2>4
<1>1. CASE resolved' = resolved
  BY <1>0, <1>1 DEF Resolved, ResolvedIsFresh
<1>2. ASSUME NEW r \in Referable, KeepResolved(r), resolved[r] = Unasked
      PROVE  Resolved' /\ ResolvedIsFresh'
  <2> DEFINE rs == {r} \cup (IF alias_depth = NoLimit THEN walked(r) ELSE {})
             v == resolve_walk(r)
  <2>1. resolved' = [q \in Referable |-> IF q \in rs THEN v ELSE resolved[q]]
    BY <1>2 DEF KeepResolved, Keep, Resolved
  <2>2. v \in Referable \cup {NoAnswer, Unasked}
    <3> DEFINE p == Walk(Hops, r)
    <3>1. Leads(Hops, r, p)
      BY WalkLeads
    <3>2. p \in Seq(Referable) /\ Len(p) \in Nat \ {0} /\ Last(p) \in Referable
      BY <3>1 DEF Leads, Last
    <3>3. Stop(p) \in 1..(Len(p) + 1)
      BY StopIs
    <3> HIDE DEF p
    <3>4. ~(Stop(p) > Len(p)) => p[Stop(p)] \in Referable
      BY <3>2, <3>3
    <3> QED
      BY <3>2, <3>4 DEF resolve_walk, p, Resolved
  <2>3. Resolved'
    BY <2>1, <2>2 DEF Resolved
  <2>4. ASSUME Closed, NEW q \in rs PROVE Expected(q) = v
    <3>1. CASE alias_depth = NoLimit
      BY <2>4, <3>1, ResolvedUnlimited
    <3>2. CASE alias_depth # NoLimit
      <4>1. q = r /\ alias_depth \in Nat
        BY <3>2
      <4> QED
        BY <2>4, <4>1, ResolvedLimited
    <3> QED
      BY <3>1, <3>2
  <2> HIDE DEF rs, v
  <2>5. ResolvedIsFresh'
    BY <1>0, <2>1, <2>4 DEF ResolvedIsFresh
  <2> QED
    BY <2>3, <2>5
<1> QED
  BY <1>1, <1>2 DEF KeepResolved

\* A right cache of types is the property of the run.
LEMMA KeptHolds ==
    ASSUME Declared, ResolvedIsFresh
    PROVE  KeptIsFresh
BY EndIsTheEnd DEF ResolvedIsFresh, KeptIsFresh, Expected

----------------------------------------------------------------------------
(* Decimal policies.                                                       *)

Policies == policies \in [Referable -> Nat \cup {Unasked}]

Core == \A i \in Identity : ~Is(i, {"construct"})

PoliciesAreFresh ==
    Core => \A r \in Referable :
        policies[r] # Unasked /\ End(r) # NoAnswer => policies[r] = walkDecimal(r)

\* The positions from i to k whose nodes carry a policy.
CarriesIn(p, i, k) == {j \in i..k : Carries(p[j])}

\* Positions with a policy can be counted.
LEMMA CarriesInIs ==
    ASSUME NEW p, NEW i \in Nat, NEW k \in Int
    PROVE  IsFiniteSet(CarriesIn(p, i, k)) /\ Cardinality(CarriesIn(p, i, k)) \in Nat
<1>1. IsFiniteSet(i..k)
  BY FS_Interval
<1>2. CarriesIn(p, i, k) \in SUBSET (i..k)
  BY DEF CarriesIn
<1>3. IsFiniteSet(CarriesIn(p, i, k))
  BY <1>1, <1>2, FS_Subset
<1> QED
  BY <1>3, FS_CardinalityType

\* A walk crosses as many policies as there are nodes with one within reach.
LEMMA CrossedIsReached ==
    ASSUME Declared, NEW r \in Referable
    PROVE  walkDecimal(r) = Cardinality({q \in Reach(Hops, r) : Carries(q)})
<1> DEFINE p == Walk(Hops, r)
           I == {i \in DOMAIN p : Carries(p[i])}
<1>1. Leads(Hops, r, p)
  BY WalkLeads
<1>2. DOMAIN p = 1..Len(p)
  BY <1>1 DEF Leads
<1>3. {q \in Reach(Hops, r) : Carries(q)} = At(p, I)
  <2>1. Reach(Hops, r) = Passed(p)
    BY ReachIsPassed
  <2> HIDE DEF p
  <2> QED
    BY <2>1, <1>2 DEF Passed, At
<1>4. I \in SUBSET (1..Len(p))
  BY <1>2
<1>5. walkDecimal(r) = Cardinality(I)
  BY DEF walkDecimal
<1> HIDE DEF I, p
<1>6. Cardinality(At(p, I)) = Cardinality(I)
  BY <1>1, <1>4, PassedOnce
<1> QED
  BY <1>3, <1>5, <1>6

\* From a node that a walk passes on its way to an end, what is left of it.
LEMMA CrossedAlong ==
    ASSUME Declared, NEW r \in Referable, NEW k \in 1..Len(Walk(Hops, r)),
           ~Is(Last(Walk(Hops, r)), Hops)
    PROVE  walkDecimal(Walk(Hops, r)[k]) =
              Cardinality(CarriesIn(Walk(Hops, r), k, Len(Walk(Hops, r))))
<1> DEFINE p == Walk(Hops, r)
           q == Walk(Hops, p[k])
           I == CarriesIn(p, k, Len(p))
<1>1. Leads(Hops, r, p)
  BY WalkLeads
<1>2. /\ p \in Seq(Referable) /\ p[k] \in Referable
      /\ q = SubSeq(p, k, Len(p))
  BY SameEnd
<1>3. Len(p) \in Nat /\ k \in 1..Len(p)
  BY <1>2
<1>4. walkDecimal(p[k]) = Cardinality({x \in Passed(q) : Carries(x)})
  <2>1. Reach(Hops, p[k]) = Passed(q)
    BY <1>2, ReachIsPassed
  <2> HIDE DEF p, q
  <2> QED
    BY <1>2, <2>1, CrossedIsReached
<1> HIDE DEF p, q
<1>5. Passed(q) = At(p, k..Len(p))
  <2>1. Len(q) = Len(p) - k + 1 /\ \A i \in 1..Len(q) : q[i] = p[k + i - 1]
    BY <1>2, <1>3
  <2>2. ASSUME NEW i \in 1..Len(q) PROVE k + i - 1 \in k..Len(p) /\ q[i] = p[k + i - 1]
    BY <2>1, <1>3
  <2>3. ASSUME NEW j \in k..Len(p) PROVE j - k + 1 \in 1..Len(q) /\ q[j - k + 1] = p[j]
    <3>1. j - k + 1 \in 1..Len(q) /\ k + (j - k + 1) - 1 = j
      BY <2>1, <1>3
    <3> QED
      BY <3>1, <2>1
  <2>4. Passed(q) \subseteq At(p, k..Len(p))
    BY <2>2 DEF Passed, At
  <2>5. At(p, k..Len(p)) \subseteq Passed(q)
    BY <2>3 DEF Passed, At
  <2> QED
    BY <2>4, <2>5
<1>6. {x \in Passed(q) : Carries(x)} = At(p, I)
  BY <1>5 DEF At, CarriesIn
<1>7. I \in SUBSET (1..Len(p))
  BY <1>3 DEF CarriesIn
<1> HIDE DEF I
<1>8. Cardinality(At(p, I)) = Cardinality(I)
  BY <1>1, <1>7, PassedOnce
<1> QED
  BY <1>4, <1>6, <1>8 DEF I, p

\* Where there is no construct of the alias shape, the walk of the policies is
\* the walk of the answers.
LEMMA PoliciesFollowTypes ==
    ASSUME Declared, Core, NEW r \in Referable
    PROVE  Walk(PolicyHops, r) = Walk(Hops, r)
<1> DEFINE p == Walk(PolicyHops, r)
<1>1. PolicyHops \in SUBSET Hops
  BY DEF PolicyHops, Hops
<1>2. Leads(PolicyHops, r, p) /\ Ended(PolicyHops, p)
  BY <1>1, WalkLeads
<1>3. \A x : Is(x, PolicyHops) <=> Is(x, Hops)
  BY DEF Core, Is, PolicyHops, Hops
<1> HIDE DEF p
<1>4. Leads(Hops, r, p) /\ Ended(Hops, p)
  BY <1>2, <1>3 DEF Leads, Ended
<1>5. Walk(Hops, r) = p
  BY <1>4, OneWalk
<1> QED
  BY <1>5 DEF p

\* What decimal_policy_suffix keeps is right for each node it is kept for.
LEMMA PoliciesFound ==
    ASSUME Declared, Policies, NEW r \in Referable,
           NEW i \in 1..(KnownPolicies(Walk(PolicyHops, r)) - 1)
    PROVE  LET p == Walk(PolicyHops, r) IN
           /\ i \in 1..Len(p) /\ p[i] \in Referable
           /\ PoliciesFrom(p, i) \in Nat
           /\ Core /\ PoliciesAreFresh /\ End(p[i]) # NoAnswer =>
                PoliciesFrom(p, i) = walkDecimal(p[i])
<1> DEFINE p == Walk(PolicyHops, r)
           S == {j \in DOMAIN p : policies[p[j]] # Unasked}
           k == KnownPolicies(p)
           own == CarriesIn(p, i, k - 1)
<1>0. PolicyHops \in SUBSET Hops
  BY DEF PolicyHops, Hops
<1>1. Leads(PolicyHops, r, p)
  BY <1>0, WalkLeads
<1>2. p \in Seq(Referable) /\ Len(p) \in Nat /\ DOMAIN p = 1..Len(p)
  BY <1>1 DEF Leads
<1>3. k = FirstIn(S, p) /\ S \in SUBSET (1..Len(p)) /\ i \in 1..(k - 1)
  BY <1>2 DEF KnownPolicies
<1>4. PoliciesFrom(p, i) = IF k > Len(p) THEN Cardinality(own)
                           ELSE Cardinality(own) + policies[p[k]]
  BY DEF PoliciesFrom, CarriesIn
<1>5. \A j \in 1..Len(p) : p[j] \in Referable
  BY <1>2
<1>6. Core => p = Walk(Hops, r)
  BY PoliciesFollowTypes
<1> HIDE DEF k, p
<1>7. /\ k \in 1..(Len(p) + 1) /\ i \in 1..Len(p) /\ i < k /\ k \in Nat /\ i \in Nat
      /\ k = Len(p) + 1 \/ (k \in 1..Len(p) /\ policies[p[k]] # Unasked)
  <2> HIDE DEF S
  <2>1. /\ k \in 1..(Len(p) + 1)
        /\ k = Len(p) + 1 <=> S = {}
        /\ S # {} => k \in S
    BY <1>2, <1>3, FirstInIs
  <2>2. k \in 1..(Len(p) + 1) /\ i \in 1..Len(p) /\ i < k /\ k \in Nat /\ i \in Nat
    BY <2>1, <1>2, <1>3
  <2>3. k \in S => k \in 1..Len(p) /\ policies[p[k]] # Unasked
    BY <1>2 DEF S
  <2> QED
    BY <2>1, <2>2, <2>3
<1>8. IsFiniteSet(own) /\ Cardinality(own) \in Nat
  BY <1>7, CarriesInIs
<1>9. k \in 1..Len(p) => policies[p[k]] \in Nat
  BY <1>5, <1>7 DEF Policies
<1>10. PoliciesFrom(p, i) \in Nat
  <2> HIDE DEF own
  <2>1. CASE k = Len(p) + 1
    BY <2>1, <1>2, <1>4, <1>8
  <2>2. CASE k \in 1..Len(p)
    <3>1. PoliciesFrom(p, i) = Cardinality(own) + policies[p[k]]
      BY <2>2, <1>2, <1>4
    <3> QED
      BY <3>1, <1>8, <1>9, <2>2
  <2> QED
    BY <1>7, <2>1, <2>2
<1>11. ASSUME Core, PoliciesAreFresh, End(p[i]) # NoAnswer
       PROVE  PoliciesFrom(p, i) = walkDecimal(p[i])
  <2> DEFINE rest(m) == CarriesIn(p, m, Len(p))
  <2>1. p = Walk(Hops, r)
    BY <1>11, <1>6
  <2>2. \A m \in 1..Len(p) : End(p[m]) = End(r)
    BY <2>1, EndAlong
  <2>3. ~Is(Last(p), Hops)
    BY <1>7, <1>11, <2>1, <2>2, EndIsTheEnd
  <2>4. \A m \in 1..Len(p) : walkDecimal(p[m]) = Cardinality(rest(m))
    BY <2>1, <2>3, CrossedAlong
  <2>5. walkDecimal(p[i]) = Cardinality(rest(i))
    BY <1>7, <2>4
  <2>6. CASE k = Len(p) + 1
    <3>1. own = rest(i) /\ k > Len(p)
      BY <2>6, <1>2
    <3> QED
      BY <3>1, <1>4, <2>5
  <2>7. CASE k \in 1..Len(p) /\ policies[p[k]] # Unasked
    <3>1. policies[p[k]] = Cardinality(rest(k))
      BY <1>5, <1>7, <1>11, <2>2, <2>4, <2>7 DEF PoliciesAreFresh
    <3>2. rest(i) = own \cup rest(k) /\ own \cap rest(k) = {}
      BY <1>2, <1>7, <2>7 DEF CarriesIn
    <3>3. IsFiniteSet(rest(k)) /\ Cardinality(rest(k)) \in Nat
      BY <1>2, <1>7, CarriesInIs
    <3> HIDE DEF own, rest
    <3>4. Cardinality(rest(i)) = Cardinality(own) + Cardinality(rest(k))
      <4>1. Cardinality(own \cup rest(k)) =
              Cardinality(own) + Cardinality(rest(k)) - Cardinality(own \cap rest(k))
        BY <1>8, <3>3, FS_Union
      <4>2. Cardinality(own \cap rest(k)) = 0
        BY <3>2, FS_EmptySet
      <4> QED
        BY <4>1, <4>2, <3>2, <3>3, <1>8
    <3>5. PoliciesFrom(p, i) = Cardinality(own) + policies[p[k]]
      BY <1>2, <1>4, <2>7
    <3> QED
      BY <3>1, <3>4, <3>5, <2>5
  <2> QED
    BY <1>7, <2>6, <2>7
<1>12. i \in 1..Len(p) /\ p[i] \in Referable
  BY <1>5, <1>7
<1> QED
  BY <1>10, <1>11, <1>12 DEF p

\* Each answer of decimal_policy_suffix leaves the cache right.
LEMMA PoliciesStep ==
    ASSUME Declared, Policies, PoliciesAreFresh, document' = document,
           policies' = policies \/ \E r \in Referable : KeepPolicies(r)
    PROVE  Policies' /\ PoliciesAreFresh'
<1>0. /\ \A q : End(q)' = End(q)
      /\ \A q : walkDecimal(q)' = walkDecimal(q)
      /\ Core' = Core
  <2>1. \A q : walkDecimal(q)' = walkDecimal(q)
    BY WalkStaysTheSame DEF walkDecimal, Carries, Is
  <2>2. Core' = Core
    BY DEF Core, Is
  <2> QED
    BY <2>1, <2>2, EndStaysTheSame
<1>1. CASE policies' = policies
  BY <1>0, <1>1 DEF Policies, PoliciesAreFresh
<1>2. ASSUME NEW r \in Referable, KeepPolicies(r)
      PROVE  Policies' /\ PoliciesAreFresh'
  <2> DEFINE p == Walk(PolicyHops, r)
             kept == {i \in 1..(KnownPolicies(p) - 1) : i = 1 \/ Is(p[i], PolicyHops)}
             at(q) == CHOOSE i \in kept : p[i] = q
             mine(q) == \E i \in kept : p[i] = q
  <2>1. policies' = [q \in Referable |-> IF mine(q) THEN PoliciesFrom(p, at(q)) ELSE policies[q]]
    BY <1>2 DEF KeepPolicies
  <2>2. ASSUME NEW q \in Referable, mine(q)
        PROVE  /\ PoliciesFrom(p, at(q)) \in Nat
               /\ Core /\ End(q) # NoAnswer => PoliciesFrom(p, at(q)) = walkDecimal(q)
    <3>1. at(q) \in 1..(KnownPolicies(p) - 1) /\ p[at(q)] = q
      BY <2>2
    <3> HIDE DEF at
    <3> QED
      BY <3>1, PoliciesFound
  <2> HIDE DEF p, kept, at, mine
  <2>3. Policies'
    BY <2>1, <2>2 DEF Policies
  <2>4. PoliciesAreFresh'
    BY <1>0, <2>1, <2>2 DEF PoliciesAreFresh
  <2> QED
    BY <2>3, <2>4
<1> QED
  BY <1>1, <1>2

\* A right cache of policies is the property of the run.
LEMMA PoliciesHold ==
    ASSUME Declared, PoliciesAreFresh
    PROVE  PoliciesCrossedByCore
<1>1. ASSUME Core, NEW r \in Referable, policies[r] # Unasked, resolveKind(r, TRUE) # NoAnswer
      PROVE  /\ policies[r] = Cardinality({q \in Reach(Hops, r) : Carries(q)})
             /\ policies[r] = walkDecimal(r)
  <2>1. End(r) # NoAnswer
    BY <1>1, EndIsTheEnd
  <2>2. policies[r] = walkDecimal(r)
    BY <1>1, <2>1 DEF PoliciesAreFresh
  <2> QED
    BY <2>2, CrossedIsReached
<1> QED
  BY <1>1 DEF PoliciesCrossedByCore, PoliciesCrossed, Core

----------------------------------------------------------------------------
(* The specification.                                                      *)

\* Each cache holds, of what it was asked or passed, what a walk finds.
RInv ==
    /\ Declared /\ alias_depth \in Nat \cup {NoLimit}
    /\ Resolved /\ Specials /\ Policies /\ Chains
    /\ ResolvedIsFresh
    /\ SpecialsAgree
    /\ PoliciesAreFresh
    /\ ChainsAreFresh

\* Empty caches are right.
LEMMA InitLemma ==
    ASSUME ReferencesInit
    PROVE  RInv
<1>1. Declared /\ alias_depth \in Nat \cup {NoLimit}
  BY DocumentsDeclare, LimitsAssumption DEF ReferencesInit, Declared
<1>2. Resolved /\ Specials /\ Policies /\ Chains
  BY DEF ReferencesInit, Unread, Resolved, Specials, Policies, Chains
<1>3. ResolvedIsFresh /\ SpecialsAgree /\ PoliciesAreFresh /\ ChainsAreFresh
  BY DEF ReferencesInit, Unread, ResolvedIsFresh, SpecialsAgree, PoliciesAreFresh, ChainsAreFresh
<1> QED
  BY <1>1, <1>2, <1>3 DEF RInv

\* Every question leaves every cache right.
LEMMA StepLemma ==
    ASSUME RInv, [ReferencesNext]_referencesVars
    PROVE  RInv'
<1>1. /\ Declared /\ alias_depth \in Nat \cup {NoLimit}
      /\ Resolved /\ Specials /\ Policies /\ Chains
      /\ ResolvedIsFresh /\ SpecialsAgree /\ PoliciesAreFresh /\ ChainsAreFresh
  BY DEF RInv
<1>2. /\ document' = document /\ alias_depth' = alias_depth
      /\ special' = special \/ \E r \in Referable : KeepSpecial(r)
      /\ resolved' = resolved \/ \E r \in Referable : KeepResolved(r)
      /\ policies' = policies \/ \E r \in Referable : KeepPolicies(r)
      /\ chains' = chains \/ \E a \in Identity : CheckAlias(a)
  <2>1. CASE \E r \in Referable, member \in BOOLEAN : VisitPosition(r, member)
    BY <2>1 DEF VisitPosition
  <2>2. CASE \E a \in Identity : CheckAlias(a)
    BY <2>2 DEF CheckAlias
  <2>3. CASE UNCHANGED referencesVars
    BY <2>3 DEF referencesVars
  <2> QED
    BY <2>1, <2>2, <2>3 DEF ReferencesNext
<1>3. Declared' /\ (alias_depth \in Nat \cup {NoLimit})'
  BY <1>1, <1>2 DEF Declared
<1>4. Specials' /\ SpecialsAgree'
  BY <1>1, <1>2, SpecialStep
<1>5. Resolved' /\ ResolvedIsFresh'
  BY <1>1, <1>2, ResolvedStep
<1>6. Policies' /\ PoliciesAreFresh'
  BY <1>1, <1>2, PoliciesStep
<1>7. Chains' /\ ChainsAreFresh'
  BY <1>1, <1>2, ChainStep
<1> QED
  BY <1>3, <1>4, <1>5, <1>6, <1>7 DEF RInv

\* Right caches are what the run checks.
LEMMA FreshLemma ==
    ASSUME RInv
    PROVE  AnswersAreFresh
<1>1. KeptIsFresh
  BY KeptHolds DEF RInv
<1>2. AliasVerdicts
  BY VerdictsHold DEF RInv
<1>3. PoliciesCrossedByCore
  BY PoliciesHold DEF RInv
<1> QED
  BY <1>1, <1>2, <1>3 DEF RInv, AnswersAreFresh

\* Whatever is asked in whichever order, of whatever document and under
\* whatever limit: what Document.resolve, special_of, walk_alias and
\* decimal_policy_suffix keep for a reference is what is reached from it.
THEOREM AnswersHold == ReferencesSpec => []AnswersAreFresh
<1>1. ReferencesInit => RInv
  BY InitLemma
<1>2. RInv /\ [ReferencesNext]_referencesVars => RInv'
  BY StepLemma
<1>3. RInv => AnswersAreFresh
  BY FreshLemma
<1> QED
  BY <1>1, <1>2, <1>3, PTL DEF ReferencesSpec
=============================================================================
