-------------------------- MODULE DepthFirstProofs --------------------------
(***************************************************************************)
(* Proofs about the depth-first walk, for every number of nodes and every  *)
(* set of graphs.                                                          *)
(***************************************************************************)
EXTENDS DepthFirst, FiniteSetTheorems, WellFoundedInduction, TLAPS

Frames == [at : Node, next : Nat \ {0}]

(***************************************************************************)
(* The inductive invariant.  The grey nodes are those of the path, each    *)
(* once, and each frame but the last was left by the edge to the next one. *)
(***************************************************************************)
PathIsGrey ==
    /\ \A i \in DOMAIN path : colour[path[i].at] = "grey"
    /\ \A i, j \in DOMAIN path : path[i].at = path[j].at => i = j
    /\ ~Stopped => \A n \in Node : colour[n] = "grey" => \E i \in DOMAIN path : path[i].at = n
    /\ Stopped => path = << >>

PathIsWalk ==
    /\ \A i \in DOMAIN path : path[i].next <= Len(targets[path[i].at]) + 1
    /\ \A i \in 1..(Len(path) - 1) :
          /\ path[i].next >= 2
          /\ targets[path[i].at][path[i].next - 1] = path[i + 1].at

\* Without a report, what was examined is black, or is the next frame's node.
Examined ==
    reports = {} =>
      \A i \in DOMAIN path : \A e \in 1..(path[i].next - 1) :
        \/ targets[path[i].at][e] \in Black \cup {Missing}
        \/ i < Len(path) /\ targets[path[i].at][e] = path[i + 1].at

RanksAreBelow == \A n \in Black : rank[n] < Cardinality(Black)

IInv ==
    /\ TypeOK
    /\ PathIsGrey
    /\ PathIsWalk
    /\ ReportsAreCycles
    /\ SaidOnce
    /\ Examined
    /\ RanksAreBelow
    /\ FinishedInOrder

(***************************************************************************)
(* A non-empty set of naturals has a least element.                        *)
(***************************************************************************)
LEMMA LeastNatural ==
    ASSUME NEW T, T \subseteq Nat, T # {}
    PROVE  \E x \in T : \A y \in T : x <= y
<1>1. PICK x \in T : \A y \in T : ~(<<y, x>> \in OpToRel(<, Nat))
  BY NatLessThanWellFounded, WFMin
<1>2. \A y \in T : ~(y < x)
  BY <1>1 DEF OpToRel
<1> QED
  BY <1>2

(***************************************************************************)
(* The edges of a node are a sequence of nodes, or of Missing.             *)
(***************************************************************************)
LEMMA EdgesType ==
    ASSUME TypeOK, NEW n \in Node
    PROVE  /\ targets[n] \in Seq(Node \cup {Missing})
           /\ Len(targets[n]) \in Nat
           /\ \A e \in 1..Len(targets[n]) : targets[n][e] \in Node \cup {Missing}
<1>1. targets \in [Node -> Seq(Node \cup {Missing})]
  BY GraphsAssumption DEF TypeOK
<1> QED
  BY <1>1

(***************************************************************************)
(* Frame by frame, the path with the edge at its top examined.             *)
(***************************************************************************)
LEMMA PassedFrames ==
    ASSUME TypeOK, path # << >>
    PROVE  /\ Len(path) \in Nat \ {0}
           /\ path[Len(path)] \in Frames
           /\ Top = path[Len(path)]
           /\ Passed \in Seq(Frames)
           /\ Len(Passed) = Len(path)
           /\ \A i \in 1..(Len(path) - 1) : Passed[i] = path[i]
           /\ Passed[Len(path)].at = Top.at
           /\ Passed[Len(path)].next = Top.next + 1
<1>1. path \in Seq(Frames)
  BY DEF TypeOK, Frames
<1>2. Len(path) \in Nat \ {0} /\ path[Len(path)] \in Frames
  BY <1>1
<1>3. [path[Len(path)] EXCEPT !.next = @ + 1] \in Frames
  BY <1>2 DEF Frames
<1>4. Passed = [path EXCEPT ![Len(path)] = [path[Len(path)] EXCEPT !.next = @ + 1]]
  BY <1>1, <1>2 DEF Passed
<1>5. /\ Passed \in Seq(Frames) 
      /\ Len(Passed) = Len(path)
      /\ \A i \in 1..(Len(path) - 1) : Passed[i] = path[i]
      /\ Passed[Len(path)] = [path[Len(path)] EXCEPT !.next = @ + 1]
  BY <1>1, <1>2, <1>3, <1>4
<1> QED
  BY <1>2, <1>5 DEF Top, Frames

(***************************************************************************)
(* How many nodes are black is a natural number.                           *)
(***************************************************************************)
LEMMA BlackCount ==
    ASSUME NEW B \in SUBSET Node
    PROVE  /\ IsFiniteSet(B)
           /\ Cardinality(B) \in Nat
           /\ \A n \in Node \ B : Cardinality(B \cup {n}) = Cardinality(B) + 1
<1>1. IsFiniteSet(Node)
  BY NAssumption, FS_Interval DEF Node
<1>2. IsFiniteSet(B) /\ Cardinality(B) \in Nat
  BY <1>1, FS_Subset, FS_CardinalityType
<1> QED
  BY <1>2, FS_AddElement

(***************************************************************************)
(* A step that reports and finishes nothing leaves what was reported and   *)
(* the order of finishing as they are.                                     *)
(***************************************************************************)
LEMMA ReportsStay ==
    ASSUME ReportsAreCycles, SaidOnce, RanksAreBelow, FinishedInOrder,
           UNCHANGED <<targets, walker, reports, rank>>, Black' = Black
    PROVE  /\ ReportsAreCycles' /\ SaidOnce'
           /\ RanksAreBelow' /\ FinishedInOrder'
<1>1. ReportsAreCycles'
  BY Zenon DEF ReportsAreCycles, Edge
<1>2. SaidOnce'
  BY Zenon DEF SaidOnce, Rotated
<1>3. RanksAreBelow'
  BY Zenon DEF RanksAreBelow
<1>4. FinishedInOrder'
  BY Zenon DEF FinishedInOrder, Edge
<1> QED
  BY <1>1, <1>2, <1>3, <1>4

LEMMA InitKeeps == Init => IInv
<1> SUFFICES ASSUME Init PROVE IInv
  OBVIOUS
<1>1. TypeOK
  BY DEF Init, TypeOK
<1>2. Black = {}
  <2>1. \A n \in Node : colour[n] = "white"
    BY DEF Init
  <2> QED
    BY <2>1 DEF Black
<1> QED
  BY <1>1, <1>2 DEF Init, IInv, PathIsGrey, PathIsWalk, ReportsAreCycles, SaidOnce,
     Examined, RanksAreBelow, FinishedInOrder, Stopped

LEMMA StartKeeps == ASSUME IInv, Start PROVE IInv'
<1>1. PICK n \in White :
        colour' = [colour EXCEPT ![n] = "grey"] /\ path' = <<Frame(n)>>
  BY DEF Start
<1>2. /\ path = << >> /\ ~Stopped /\ ~Stopped'
      /\ UNCHANGED <<targets, walker, reports, rank>>
  BY DEF Start, Stopped
<1>3. /\ n \in Node /\ colour[n] = "white"
      /\ colour \in [Node -> {"white", "grey", "black"}]
  BY DEF White, IInv, TypeOK
<1>4. Black' = Black
  BY <1>1, <1>2, <1>3 DEF Black
<1>5. /\ path' \in Seq(Frames) /\ Len(path') = 1
      /\ path'[1].at = n /\ path'[1].next = 1
  BY <1>1, <1>3 DEF Frame, Frames
<1>6. TypeOK'
  BY <1>1, <1>2, <1>3, <1>5 DEF IInv, TypeOK, Frames
<1>7. PathIsGrey'
  BY <1>1, <1>2, <1>3, <1>5 DEF IInv, PathIsGrey
<1>8. PathIsWalk'
  <2>1. Len(targets[n]) \in Nat
    BY <1>3, EdgesType DEF IInv
  <2> QED
    BY <1>2, <1>3, <1>5, <2>1 DEF PathIsWalk
<1>9. Examined'
  <2>1. \A i \in DOMAIN path' : 1..(path'[i].next - 1) = {}
    BY <1>5
  <2> QED
    BY <2>1, Zenon DEF Examined
<1>10. ReportsAreCycles' /\ SaidOnce' /\ RanksAreBelow' /\ FinishedInOrder'
  BY <1>2, <1>4, ReportsStay DEF IInv
<1> QED
  BY <1>6, <1>7, <1>8, <1>9, <1>10 DEF IInv

LEMMA EnterKeeps == ASSUME IInv, Enter PROVE IInv'
<1> DEFINE L == Len(path)
<1>1. /\ path # << >> /\ Given /\ Target \in White
      /\ colour' = [colour EXCEPT ![Target] = "grey"]
      /\ path' = Append(Passed, Frame(Target))
      /\ UNCHANGED <<targets, walker, reports, rank>>
      /\ TypeOK
  BY DEF Enter, IInv
<1>2. ~Stopped /\ ~Stopped'
  BY <1>1 DEF IInv, PathIsGrey, Stopped
<1>3. /\ Target \in Node /\ colour[Target] = "white"
      /\ colour \in [Node -> {"white", "grey", "black"}]
  BY <1>1 DEF White, TypeOK
<1>4. Black' = Black
  BY <1>1, <1>3 DEF Black
<1>5. /\ L \in Nat \ {0} /\ path \in Seq(Frames) /\ Top = path[L]
      /\ path[L] \in Frames
      /\ Passed \in Seq(Frames) /\ Len(Passed) = L
      /\ \A i \in 1..(L - 1) : Passed[i] = path[i]
      /\ Passed[L].at = Top.at /\ Passed[L].next = Top.next + 1
  BY <1>1, PassedFrames DEF TypeOK, Frames
<1>6. Frame(Target) \in Frames /\ Frame(Target).at = Target /\ Frame(Target).next = 1
  BY <1>3 DEF Frame, Frames
<1>7. /\ path' \in Seq(Frames) /\ Len(path') = L + 1
      /\ DOMAIN path' = 1..(L + 1) /\ targets' = targets
      /\ \A i \in 1..(L - 1) : path'[i] = path[i]
      /\ path'[L].at = Top.at /\ path'[L].next = Top.next + 1
      /\ path'[L + 1].at = Target /\ path'[L + 1].next = 1
  BY <1>1, <1>5, <1>6
<1>8. \A i \in 1..L : path'[i].at = path[i].at
  BY <1>5, <1>7
<1>9. TypeOK'
  BY <1>1, <1>3, <1>7 DEF TypeOK, Frames
<1>10. PathIsGrey'
  <2>1. \A i \in 1..L : colour[path[i].at] = "grey"
    BY <1>5 DEF IInv, PathIsGrey
  <2>2. \A i \in 1..L : path[i].at # Target
    BY <2>1, <1>3
  <2>3. \A i \in DOMAIN path' : colour'[path'[i].at] = "grey"
    <3> TAKE i \in DOMAIN path'
    <3>1. CASE i = L + 1
      BY <3>1, <1>1, <1>3, <1>7
    <3>2. CASE i \in 1..L
      <4>1. path[i] \in Frames
        BY <3>2, <1>5
      <4>2. path[i].at \in Node
        BY <4>1 DEF Frames
      <4> QED
        BY <3>2, <4>2, <1>1, <1>3, <1>8, <2>1
    <3> QED
      BY <3>1, <3>2, <1>5, <1>7
  <2>4. \A i, j \in DOMAIN path' : path'[i].at = path'[j].at => i = j
    <3> SUFFICES ASSUME NEW i \in 1..(L + 1), NEW j \in 1..(L + 1), path'[i].at = path'[j].at
                 PROVE  i = j
      BY <1>7
    <3>1. CASE i \in 1..L /\ j \in 1..L
      BY <3>1, <1>5, <1>8 DEF IInv, PathIsGrey
    <3> QED
      BY <3>1, <1>5, <1>7, <1>8, <2>2
  <2>5. \A m \in Node : colour'[m] = "grey" => \E i \in DOMAIN path' : path'[i].at = m
    <3> SUFFICES ASSUME NEW m \in Node, colour'[m] = "grey"
                 PROVE  \E i \in 1..(L + 1) : path'[i].at = m
      BY <1>7
    <3>1. CASE m = Target
      BY <3>1, <1>5, <1>7
    <3>2. CASE m # Target
      <4>1. colour[m] = "grey"
        BY <3>2, <1>1, <1>3
      <4>2. PICK i \in 1..L : path[i].at = m
        BY <4>1, <1>2, <1>5 DEF IInv, PathIsGrey
      <4> QED
        BY <4>2, <1>5, <1>8
    <3> QED
      BY <3>1, <3>2
  <2> QED
    BY <1>2, <2>3, <2>4, <2>5 DEF PathIsGrey
<1>11. PathIsWalk'
  <2>1. Top.at \in Node /\ Top.next \in Nat \ {0} /\ Top.next <= Len(targets[Top.at])
    BY <1>1, <1>5 DEF Given, Frames
  <2>2. Len(targets[Target]) \in Nat /\ Len(targets[Top.at]) \in Nat
    BY <1>1, <1>3, <2>1, EdgesType
  <2>3. \A i \in 1..(L + 1) : path'[i].next <= Len(targets[path'[i].at]) + 1
    <3> TAKE i \in 1..(L + 1)
    <3>1. CASE i = L + 1
      BY <3>1, <1>7, <2>2
    <3>2. CASE i = L
      BY <3>2, <1>5, <1>7, <2>1, <2>2
    <3>3. CASE i \in 1..(L - 1)
      <4>1. path'[i] = path[i] /\ i \in DOMAIN path
        BY <3>3, <1>5, <1>7
      <4> QED
        BY <4>1 DEF IInv, PathIsWalk
    <3> QED
      BY <3>1, <3>2, <3>3, <1>5
  <2>4. \A i \in 1..L : /\ path'[i].next >= 2
                        /\ targets[path'[i].at][path'[i].next - 1] = path'[i + 1].at
    <3> TAKE i \in 1..L
    <3>1. CASE i = L
      <4>1. targets[Top.at][Top.next] = Target
        BY DEF Target
      <4> QED
        BY <3>1, <4>1, <1>5, <1>7, <2>1
    <3>2. CASE i \in 1..(L - 1)
      <4>1. path'[i] = path[i] /\ path'[i + 1].at = path[i + 1].at
        BY <3>2, <1>5, <1>7, <1>8
      <4> QED
        BY <3>2, <4>1 DEF IInv, PathIsWalk
    <3> QED
      BY <3>1, <3>2, <1>5
  <2>5. (1..(Len(path) - 1))' = 1..L
    BY <1>5, <1>7
  <2> QED
    BY <1>7, <2>3, <2>4, <2>5 DEF PathIsWalk
<1>12. Examined'
  <2> SUFFICES ASSUME reports = {}, NEW i \in 1..(L + 1), NEW e \in 1..(path'[i].next - 1)
               PROVE  \/ targets[path'[i].at][e] \in Black \cup {Missing}
                      \/ i < L + 1 /\ targets[path'[i].at][e] = path'[i + 1].at
    <3>1. /\ reports' = reports /\ targets' = targets /\ Black' = Black
          /\ DOMAIN path' = 1..(L + 1) /\ Len(path') = L + 1
      BY <1>1, <1>4, <1>7
    <3> QED
      BY <3>1 DEF Examined
  <2>1. CASE i = L + 1
    BY <2>1, <1>7
  <2>2. CASE i = L
    <3>1. Top.next \in Nat \ {0}
      BY <1>5 DEF Frames
    <3>2. CASE e = Top.next
      BY <3>2, <2>2, <1>5, <1>7 DEF Target
    <3>3. CASE e \in 1..(Top.next - 1)
      <4>1. targets[Top.at][e] \in Black \cup {Missing}
        BY <3>3, <1>5 DEF IInv, Examined
      <4> QED
        BY <4>1, <2>2, <1>5, <1>7
    <3> QED
      BY <3>1, <3>2, <3>3, <2>2, <1>5, <1>7
  <2>3. CASE i \in 1..(L - 1)
    <3>1. path'[i] = path[i] /\ path'[i + 1].at = path[i + 1].at
      BY <2>3, <1>5, <1>7, <1>8
    <3>2. i \in DOMAIN path /\ e \in 1..(path[i].next - 1) /\ i < L + 1
      BY <2>3, <3>1, <1>5
    <3>3. \/ targets[path[i].at][e] \in Black \cup {Missing}
          \/ targets[path[i].at][e] = path[i + 1].at
      BY <3>2 DEF IInv, Examined
    <3> QED
      BY <3>1, <3>2, <3>3
  <2> QED
    BY <2>1, <2>2, <2>3, <1>5
<1>13. ReportsAreCycles' /\ SaidOnce' /\ RanksAreBelow' /\ FinishedInOrder'
  BY <1>1, <1>4, ReportsStay DEF IInv
<1> QED
  BY <1>9, <1>10, <1>11, <1>12, <1>13 DEF IInv

(***************************************************************************)
(* An edge that is passed over leaves the path a walk, to one edge more.   *)
(***************************************************************************)
LEMMA PassedOver ==
    ASSUME IInv, path # << >>, Given, ~Stopped',
           path' = Passed, UNCHANGED <<targets, walker, colour, rank>>
    PROVE  /\ path' \in Seq(Frames) /\ Len(path') = Len(path)
           /\ DOMAIN path' = DOMAIN path
           /\ DOMAIN path = 1..Len(path)
           /\ \A i \in DOMAIN path : path'[i].at = path[i].at
           /\ PathIsGrey'
           /\ PathIsWalk'
<1> DEFINE L == Len(path)
<1>1. /\ L \in Nat \ {0} /\ path \in Seq(Frames) /\ Top = path[L]
      /\ path[L] \in Frames
      /\ Passed \in Seq(Frames) /\ Len(Passed) = L
      /\ \A i \in 1..(L - 1) : Passed[i] = path[i]
      /\ Passed[L].at = Top.at /\ Passed[L].next = Top.next + 1
  BY PassedFrames DEF IInv, TypeOK, Frames
<1>2. /\ path' \in Seq(Frames) /\ Len(path') = L
      /\ DOMAIN path' = 1..L /\ DOMAIN path = 1..L
      /\ \A i \in 1..(L - 1) : path'[i] = path[i]
      /\ path'[L].at = path[L].at /\ path'[L].next = path[L].next + 1
  BY <1>1
<1>3. \A i \in 1..L : path'[i].at = path[i].at
  BY <1>1, <1>2
<1>4. PathIsGrey'
  <2>1. ~Stopped
    BY DEF IInv, PathIsGrey
  <2>2. \A i \in 1..L : colour'[path'[i].at] = "grey"
    BY <1>2, <1>3 DEF IInv, PathIsGrey
  <2>3. \A i, j \in 1..L : path'[i].at = path'[j].at => i = j
    BY <1>2, <1>3 DEF IInv, PathIsGrey
  <2>4. \A n \in Node : colour'[n] = "grey" => \E i \in 1..L : path'[i].at = n
    BY <1>2, <1>3, <2>1 DEF IInv, PathIsGrey
  <2> QED
    BY <1>2, <2>2, <2>3, <2>4 DEF PathIsGrey
<1>5. PathIsWalk'
  <2>1. path[L].next \in Nat \ {0} /\ path[L].at \in Node
    BY <1>1 DEF Frames
  <2>2. Len(targets[path[L].at]) \in Nat
    BY <2>1, EdgesType DEF IInv
  <2>3. \A i \in 1..L : path'[i].next <= Len(targets'[path'[i].at]) + 1
    <3> TAKE i \in 1..L
    <3>1. CASE i = L
      BY <3>1, <1>1, <1>2, <2>1, <2>2 DEF Given
    <3>2. CASE i \in 1..(L - 1)
      <4>1. path'[i] = path[i] /\ i \in DOMAIN path
        BY <3>2, <1>2
      <4> QED
        BY <4>1 DEF IInv, PathIsWalk
    <3> QED
      BY <3>1, <3>2, <1>1
  <2>4. \A i \in 1..(L - 1) : /\ path'[i].next >= 2
                              /\ targets'[path'[i].at][path'[i].next - 1] = path'[i + 1].at
    <3> TAKE i \in 1..(L - 1)
    <3>0. i \in 1..L /\ i + 1 \in 1..L
      BY <1>1
    <3>1. path'[i] = path[i] /\ path'[i + 1].at = path[i + 1].at
      BY <3>0, <1>2, <1>3
    <3> QED
      BY <3>1 DEF IInv, PathIsWalk
  <2> QED
    BY <1>2, <2>3, <2>4 DEF PathIsWalk
<1> QED
  BY <1>2, <1>3, <1>4, <1>5

LEMMA SkipKeeps == ASSUME IInv, Skip PROVE IInv'
<1> DEFINE L == Len(path)
<1>1. /\ path # << >> /\ Given /\ Target \in Black \cup {Missing}
      /\ path' = Passed
      /\ UNCHANGED <<targets, walker, colour, reports, rank>>
      /\ TypeOK
  BY DEF Skip, IInv
<1>2. ~Stopped'
  BY <1>1 DEF IInv, PathIsGrey, Stopped
<1>3. /\ path' \in Seq(Frames) /\ Len(path') = L
      /\ DOMAIN path' = DOMAIN path /\ DOMAIN path = 1..L
      /\ \A i \in DOMAIN path : path'[i].at = path[i].at
      /\ PathIsGrey' /\ PathIsWalk'
  BY <1>1, <1>2, PassedOver
<1>4. Black' = Black
  BY <1>1 DEF Black
<1>5. TypeOK'
  BY <1>1, <1>3 DEF TypeOK, Frames
<1>6. /\ L \in Nat \ {0} /\ Top = path[L] /\ path[L] \in Frames
      /\ \A i \in 1..(L - 1) : path'[i] = path[i]
      /\ path'[L].at = Top.at /\ path'[L].next = Top.next + 1
  BY <1>1, PassedFrames
<1>7. Examined'
  <2> SUFFICES ASSUME reports = {}, NEW i \in 1..L, NEW e \in 1..(path'[i].next - 1)
               PROVE  \/ targets[path'[i].at][e] \in Black \cup {Missing}
                      \/ i < L /\ targets[path'[i].at][e] = path'[i + 1].at
    BY <1>1, <1>3, <1>4 DEF Examined
  <2>1. CASE i = L
    <3>1. Top.next \in Nat \ {0}
      BY <1>6 DEF Frames
    <3>2. CASE e = Top.next
      BY <3>2, <2>1, <1>1, <1>6 DEF Target
    <3>3. CASE e \in 1..(Top.next - 1)
      <4>1. targets[Top.at][e] \in Black \cup {Missing}
        BY <3>3, <1>3, <1>6 DEF IInv, Examined
      <4> QED
        BY <4>1, <2>1, <1>6
    <3> QED
      BY <3>1, <3>2, <3>3, <2>1, <1>6
  <2>2. CASE i \in 1..(L - 1)
    <3>1. path'[i] = path[i] /\ path'[i + 1].at = path[i + 1].at
      BY <2>2, <1>3, <1>6
    <3> QED
      BY <2>2, <3>1, <1>3, <1>6 DEF IInv, Examined
  <2> QED
    BY <2>1, <2>2, <1>6
<1>8. ReportsAreCycles' /\ SaidOnce' /\ RanksAreBelow' /\ FinishedInOrder'
  BY <1>1, <1>4, ReportsStay DEF IInv
<1> QED
  BY <1>3, <1>5, <1>7, <1>8 DEF IInv

(***************************************************************************)
(* What a back edge reports: the path from its target to its top.          *)
(***************************************************************************)
LEMMA BackEdgeCycle ==
    ASSUME IInv, path # << >>, Given, Target \in Node, colour[Target] = "grey"
    PROVE  LET c == CycleFrom(Target)
           IN /\ c \in Seq(Node) /\ c # << >>
              /\ \A i \in 1..(Len(c) - 1) : Edge(c[i], c[i + 1])
              /\ c[Len(c)] = Top.at
              /\ Top.at \in Node /\ Top.next \in Nat \ {0}
              /\ Top.next \in DOMAIN targets[Top.at]
              /\ targets[Top.at][Top.next] = c[1]
<1> DEFINE L == Len(path)
           k == PlaceOf(Target)
           c == CycleFrom(Target)
<1>1. /\ L \in Nat \ {0} /\ path \in Seq(Frames) /\ Top = path[L] /\ path[L] \in Frames
  BY PassedFrames DEF IInv, TypeOK, Frames
<1>2. ~Stopped
  BY DEF IInv, PathIsGrey
<1>3. k \in 1..L /\ path[k].at = Target
  BY <1>1, <1>2 DEF IInv, PathIsGrey, PlaceOf
<1>4. c = [i \in 1..(L - k + 1) |-> path[i + k - 1].at]
  BY DEF CycleFrom
<1> HIDE DEF k, c
<1>5. \A i \in 1..(L - k + 1) : i + k - 1 \in 1..L
  BY <1>1, <1>3
<1>6. \A i \in 1..L : path[i].at \in Node
  <2> TAKE i \in 1..L
  <2>1. path[i] \in Frames
    BY <1>1
  <2> QED
    BY <2>1 DEF Frames
<1>7. c \in Seq(Node) /\ Len(c) = L - k + 1 /\ \A i \in 1..(L - k + 1) : c[i] = path[i + k - 1].at
  <2>1. L - k + 1 \in Nat \ {0}
    BY <1>1, <1>3
  <2>2. c \in [1..(L - k + 1) -> Node]
    BY <1>4, <1>5, <1>6
  <2> QED
    BY <1>4, <2>1, <2>2
<1>8. \A i \in 1..(Len(c) - 1) : Edge(c[i], c[i + 1])
  <2> TAKE i \in 1..(Len(c) - 1)
  <2> DEFINE j == i + k - 1
  <2>1. j \in 1..(L - 1) /\ c[i] = path[j].at /\ c[i + 1] = path[j + 1].at
    <3>1. j \in 1..(L - 1) /\ i \in 1..(L - k + 1) /\ i + 1 \in 1..(L - k + 1) /\ (i + 1) + k - 1 = j + 1
      BY <1>1, <1>3, <1>7
    <3> QED
      BY <3>1, <1>7
  <2>2. path[j] \in Frames /\ path[j].next >= 2 /\ targets[path[j].at][path[j].next - 1] = path[j + 1].at
        /\ path[j].next <= Len(targets[path[j].at]) + 1
    <3>1. j \in DOMAIN path /\ path[j] \in Frames
      BY <2>1, <1>1
    <3> QED
      BY <3>1, <2>1, <1>1 DEF IInv, PathIsWalk
  <2>3. path[j].next - 1 \in DOMAIN targets[path[j].at]
    <3>1. path[j].at \in Node /\ path[j].next \in Nat
      BY <2>2 DEF Frames
    <3>2. targets[path[j].at] \in Seq(Node \cup {Missing}) /\ Len(targets[path[j].at]) \in Nat
      BY <3>1, EdgesType DEF IInv
    <3> HIDE DEF j
    <3> QED
      BY <3>1, <3>2, <2>2
  <2> QED
    BY <2>1, <2>2, <2>3 DEF Edge
<1>9. Top.at \in Node /\ Top.next \in Nat \ {0} /\ Top.next \in DOMAIN targets[Top.at]
  <2>1. Top.at \in Node /\ Top.next \in Nat \ {0}
    BY <1>1 DEF Frames
  <2>2. targets[Top.at] \in Seq(Node \cup {Missing})
    BY <2>1, EdgesType DEF IInv
  <2> QED
    BY <2>1, <2>2 DEF Given
<1>10. c # << >> /\ c[Len(c)] = Top.at /\ c[1] = Target
  <2>1. 1 \in 1..(L - k + 1) /\ L - k + 1 \in 1..(L - k + 1) /\ (L - k + 1) + k - 1 = L /\ 1 + k - 1 = k
    BY <1>1, <1>3
  <2>2. Len(c) # 0 /\ c[Len(c)] = path[L].at
    <3>1. c[Len(c)] = path[(L - k + 1) + k - 1].at
      BY <2>1, <1>7
    <3> QED
      BY <3>1, <2>1, <1>7
  <2>3. c[1] = path[1 + k - 1].at
    BY <2>1, <1>7
  <2> QED
    BY <2>1, <2>2, <2>3, <1>1, <1>3, <1>7
<1> QED
  BY <1>7, <1>8, <1>9, <1>10 DEF Target, c

LEMMA BackEdgeKeeps == ASSUME IInv, BackEdge PROVE IInv'
<1> DEFINE c == CycleFrom(Target)
           new == [at |-> Top.at, edge |-> Top.next, cycle |-> c]
<1>1. /\ path # << >> /\ Given /\ Target \in Node /\ colour[Target] = "grey"
      /\ reports' = IF Known(c) THEN reports ELSE reports \cup {new}
      /\ path' = IF walker = "first" THEN << >> ELSE Passed
      /\ UNCHANGED <<targets, walker, colour, rank>>
      /\ TypeOK
  BY DEF BackEdge, IInv
<1>2. /\ c \in Seq(Node) /\ c # << >>
      /\ \A i \in 1..(Len(c) - 1) : Edge(c[i], c[i + 1])
      /\ c[Len(c)] = Top.at
      /\ Top.at \in Node /\ Top.next \in Nat \ {0}
      /\ Top.next \in DOMAIN targets[Top.at]
      /\ targets[Top.at][Top.next] = c[1]
  BY <1>1, BackEdgeCycle
<1> HIDE DEF c
<1>3. reports' # {}
  BY <1>1 DEF Known
<1>4. Black' = Black
  BY <1>1 DEF Black
<1>5. ReportsAreCycles'
  <2> SUFFICES ASSUME NEW r \in reports'
               PROVE  /\ r.cycle # << >>
                      /\ \A i \in 1..(Len(r.cycle) - 1) : Edge(r.cycle[i], r.cycle[i + 1])
                      /\ r.cycle[Len(r.cycle)] = r.at
                      /\ r.edge \in DOMAIN targets[r.at]
                      /\ targets[r.at][r.edge] = r.cycle[1]
    BY <1>1 DEF ReportsAreCycles, Edge
  <2>1. CASE r \in reports
    BY <2>1 DEF IInv, ReportsAreCycles
  <2>2. CASE r = new
    BY <2>2, <1>2
  <2> QED
    BY <2>1, <2>2, <1>1
<1>6. SaidOnce'
  <2> SUFFICES ASSUME walker = "cycle", NEW r \in reports', NEW s \in reports',
                      Rotated(r.cycle) = Rotated(s.cycle)
               PROVE  r = s
    BY <1>1 DEF SaidOnce, Rotated
  <2>1. CASE r \in reports /\ s \in reports
    BY <2>1 DEF IInv, SaidOnce
  <2>2. CASE Known(c)
    BY <2>1, <2>2, <1>1
  <2>3. CASE ~Known(c)
    <3>1. \A q \in reports : Rotated(q.cycle) # Rotated(new.cycle)
      BY <2>3 DEF Known
    <3> QED
      BY <2>1, <2>3, <3>1, <1>1
  <2> QED
    BY <2>2, <2>3
<1>7. \A r \in reports' : r.at \in Node /\ r.edge \in Nat \ {0} /\ r.cycle \in Seq(Node)
  <2>1. \A r \in reports : r.at \in Node /\ r.edge \in Nat \ {0} /\ r.cycle \in Seq(Node)
    BY <1>1 DEF TypeOK
  <2>2. new.at \in Node /\ new.edge \in Nat \ {0} /\ new.cycle \in Seq(Node)
    BY <1>2
  <2>3. reports' \subseteq reports \cup {new}
    BY <1>1
  <2> HIDE DEF new
  <2> QED
    BY <2>1, <2>2, <2>3
<1>8. path' \in Seq(Frames) /\ PathIsGrey' /\ PathIsWalk'
  <2>1. CASE walker = "first"
    <3>1. path' = << >> /\ Stopped'
      BY <2>1, <1>1, <1>3 DEF Stopped
    <3> QED
      BY <3>1 DEF PathIsGrey, PathIsWalk
  <2>2. CASE walker # "first"
    <3>1. ~Stopped' /\ path' = Passed
      BY <2>2, <1>1 DEF Stopped
    <3> QED
      BY <3>1, <1>1, PassedOver
  <2> QED
    BY <2>1, <2>2
<1>9. TypeOK'
  BY <1>1, <1>7, <1>8 DEF TypeOK, Frames
<1> QED
  BY <1>1, <1>3, <1>4, <1>5, <1>6, <1>8, <1>9
  DEF IInv, Examined, RanksAreBelow, FinishedInOrder

LEMMA FinishKeeps == ASSUME IInv, Finish PROVE IInv'
<1> DEFINE L == Len(path)
           top == path[L].at
<1>1. /\ path # << >> /\ ~Given
      /\ colour' = [colour EXCEPT ![Top.at] = "black"]
      /\ rank' = [rank EXCEPT ![Top.at] = Cardinality(Black)]
      /\ path' = SubSeq(path, 1, Len(path) - 1)
      /\ UNCHANGED <<targets, walker, reports>>
      /\ TypeOK
  BY DEF Finish, IInv
<1>2. ~Stopped /\ ~Stopped'
  BY <1>1 DEF IInv, PathIsGrey, Stopped
<1>3. /\ L \in Nat \ {0} /\ path \in Seq(Frames) /\ Top = path[L] /\ path[L] \in Frames
      /\ top \in Node /\ path[L].next \in Nat \ {0}
  BY <1>1, PassedFrames DEF TypeOK, Frames
<1>4. /\ path' \in Seq(Frames) /\ Len(path') = L - 1
      /\ DOMAIN path' = 1..(L - 1) /\ DOMAIN path = 1..L
      /\ \A i \in 1..(L - 1) : path'[i] = path[i]
  <2>1. L - 1 \in Nat /\ L - 1 <= L /\ path' = [i \in 1..(L - 1) |-> path[i]]
    BY <1>1, <1>3
  <2>2. \A i \in 1..(L - 1) : path[i] \in Frames
    BY <1>3
  <2>3. path' \in Seq(Frames) /\ Len(path') = L - 1
    BY <2>1, <2>2
  <2> QED
    BY <2>1, <2>3, <1>3
<1>5. /\ colour \in [Node -> {"white", "grey", "black"}] /\ rank \in [Node -> Nat]
      /\ colour[top] = "grey"
      /\ colour' = [colour EXCEPT ![top] = "black"]
      /\ rank' = [rank EXCEPT ![top] = Cardinality(Black)]
  <2>1. L \in DOMAIN path
    BY <1>3
  <2>2. colour[top] = "grey"
    BY <2>1 DEF IInv, PathIsGrey
  <2>3. Top.at = top
    BY <1>3
  <2> QED
    BY <2>2, <2>3, <1>1 DEF TypeOK
<1>6. Black' = Black \cup {top} /\ top \notin Black
  BY <1>3, <1>5 DEF Black
<1>7. /\ Cardinality(Black) \in Nat /\ Cardinality(Black') = Cardinality(Black) + 1
  BY <1>3, <1>6, BlackCount DEF Black
<1>8. \A i \in 1..(L - 1) : path[i].at \in Node /\ path[i].at # top
  <2> TAKE i \in 1..(L - 1)
  <2>1. path[i] \in Frames /\ i \in DOMAIN path /\ L \in DOMAIN path /\ i # L
    BY <1>3
  <2>2. path[i].at \in Node
    BY <2>1 DEF Frames
  <2> QED
    BY <2>1, <2>2 DEF IInv, PathIsGrey
<1>9. TypeOK'
  BY <1>1, <1>3, <1>4, <1>5, <1>7 DEF TypeOK, Frames
<1>10. PathIsGrey'
  <2>1. \A i \in 1..(L - 1) : colour'[path'[i].at] = "grey"
    <3> TAKE i \in 1..(L - 1)
    <3>1. path'[i] = path[i] /\ i \in DOMAIN path
      BY <1>3, <1>4
    <3>2. colour[path[i].at] = "grey"
      BY <3>1 DEF IInv, PathIsGrey
    <3> QED
      BY <3>1, <3>2, <1>5, <1>8
  <2>2. \A i, j \in 1..(L - 1) : path'[i].at = path'[j].at => i = j
    <3>1. \A i, j \in DOMAIN path : path[i].at = path[j].at => i = j
      BY DEF IInv, PathIsGrey
    <3>2. \A i \in 1..(L - 1) : i \in DOMAIN path /\ path'[i] = path[i]
      BY <1>3, <1>4
    <3> QED
      BY <3>1, <3>2
  <2>3. \A n \in Node : colour'[n] = "grey" => \E i \in 1..(L - 1) : path'[i].at = n
    <3> SUFFICES ASSUME NEW n \in Node, colour'[n] = "grey"
                 PROVE  \E i \in 1..(L - 1) : path'[i].at = n
      OBVIOUS
    <3>1. n # top /\ colour[n] = "grey"
      BY <1>3, <1>5
    <3>2. PICK i \in 1..L : path[i].at = n
      BY <3>1, <1>2, <1>4 DEF IInv, PathIsGrey
    <3>3. i \in 1..(L - 1)
      BY <3>1, <3>2, <1>3
    <3> QED
      BY <3>2, <3>3, <1>4
  <2> QED
    BY <1>2, <1>4, <2>1, <2>2, <2>3 DEF PathIsGrey
<1>11. PathIsWalk'
  <2>1. \A i \in 1..(L - 1) : path'[i].next <= Len(targets'[path'[i].at]) + 1
    BY <1>1, <1>3, <1>4 DEF IInv, PathIsWalk
  <2>2. \A i \in 1..(L - 2) : /\ path'[i].next >= 2
                              /\ targets'[path'[i].at][path'[i].next - 1] = path'[i + 1].at
    <3> TAKE i \in 1..(L - 2)
    <3>1. i \in 1..(L - 1) /\ i + 1 \in 1..(L - 1)
      BY <1>3
    <3>2. path'[i] = path[i] /\ path'[i + 1] = path[i + 1]
      BY <3>1, <1>4
    <3> QED
      BY <3>1, <3>2, <1>1 DEF IInv, PathIsWalk
  <2>3. (1..(Len(path) - 1))' = 1..(L - 2)
    BY <1>3, <1>4
  <2> QED
    BY <1>4, <2>1, <2>2, <2>3 DEF PathIsWalk
<1>12. Examined'
  <2> SUFFICES ASSUME reports = {}, NEW i \in 1..(L - 1), NEW e \in 1..(path[i].next - 1)
               PROVE  \/ targets[path[i].at][e] \in Black' \cup {Missing}
                      \/ i < L - 1 /\ targets[path[i].at][e] = path'[i + 1].at
    <3>1. /\ reports' = reports /\ targets' = targets
          /\ DOMAIN path' = 1..(L - 1) /\ Len(path') = L - 1
          /\ \A k \in 1..(L - 1) : path'[k] = path[k]
      BY <1>1, <1>4
    <3> QED
      BY <3>1 DEF Examined
  <2>1. \/ targets[path[i].at][e] \in Black \cup {Missing}
        \/ i < L /\ targets[path[i].at][e] = path[i + 1].at
    BY <1>3, <1>4 DEF IInv, Examined
  <2>2. CASE targets[path[i].at][e] = path[i + 1].at /\ i = L - 1
    BY <2>2, <1>3, <1>6
  <2>3. CASE targets[path[i].at][e] = path[i + 1].at /\ i < L - 1
    <3>1. path'[i + 1] = path[i + 1]
      BY <2>3, <1>3, <1>4
    <3> QED
      BY <2>3, <3>1
  <2> QED
    BY <2>1, <2>2, <2>3, <1>3, <1>6
<1>13. RanksAreBelow'
  BY <1>3, <1>5, <1>6, <1>7 DEF RanksAreBelow, IInv, Black
<1>14. FinishedInOrder'
  <2> SUFFICES ASSUME reports = {}, NEW m \in Black', NEW n \in Node, Edge(m, n)
               PROVE  n \in Black' /\ rank'[n] < rank'[m]
    BY <1>1 DEF FinishedInOrder, Edge
  <2>1. CASE m = top
    <3>1. Len(targets[top]) \in Nat /\ targets[top] \in Seq(Node \cup {Missing})
      BY <1>1, <1>3, EdgesType
    <3>2. path[L].next = Len(targets[top]) + 1
      <4>1. L \in DOMAIN path /\ path[L].next \in Nat
        BY <1>3
      <4>2. path[L].next <= Len(targets[top]) + 1
        BY <4>1 DEF IInv, PathIsWalk
      <4>3. ~(path[L].next <= Len(targets[top]))
        BY <1>1, <1>3 DEF Given
      <4> QED
        BY <3>1, <4>1, <4>2, <4>3
    <3>3. PICK e \in 1..Len(targets[top]) : targets[top][e] = n
      BY <3>1, <2>1 DEF Edge
    <3>4. n \in Black \cup {Missing}
      <4>1. L \in DOMAIN path /\ e \in 1..(path[L].next - 1) /\ ~(L < Len(path))
        BY <3>1, <3>2, <1>3
      <4>2. targets[path[L].at][e] \in Black \cup {Missing}
        BY <4>1 DEF IInv, Examined
      <4> QED
        BY <4>2, <3>3
    <3>5. n \in Black /\ n # top
      BY <3>4, <1>6, NAssumption DEF Node, Missing
    <3> QED
      BY <3>5, <2>1, <1>3, <1>5, <1>6 DEF IInv, RanksAreBelow
  <2>2. CASE m \in Black
    <3>1. n \in Black /\ rank[n] < rank[m]
      BY <2>2 DEF IInv, FinishedInOrder
    <3> QED
      BY <3>1, <2>2, <1>3, <1>5, <1>6
  <2> QED
    BY <2>1, <2>2, <1>6
<1>15. ReportsAreCycles'
  BY <1>1, Zenon DEF IInv, ReportsAreCycles, Edge
<1>16. SaidOnce'
  BY <1>1, Zenon DEF IInv, SaidOnce, Rotated
<1> QED
  BY <1>9, <1>10, <1>11, <1>12, <1>13, <1>14, <1>15, <1>16 DEF IInv

LEMMA NextKeeps == IInv /\ [Next]_vars => IInv'
<1> SUFFICES ASSUME IInv, [Next]_vars PROVE IInv'
  OBVIOUS
<1>1. CASE Start
  BY <1>1, StartKeeps
<1>2. CASE Enter
  BY <1>2, EnterKeeps
<1>3. CASE Skip
  BY <1>3, SkipKeeps
<1>4. CASE BackEdge
  BY <1>4, BackEdgeKeeps
<1>5. CASE Finish
  BY <1>5, FinishKeeps
<1>6. CASE UNCHANGED vars
  <2>1. UNCHANGED <<targets, walker, colour, path, reports, rank>>
    BY <1>6 DEF vars
  <2>2. Black' = Black /\ Stopped' = Stopped
    BY <2>1 DEF Black, Stopped
  <2>3. TypeOK'
    BY <2>1 DEF IInv, TypeOK
  <2>4. PathIsGrey'
    BY <2>1, <2>2, Zenon DEF IInv, PathIsGrey
  <2>5. PathIsWalk'
    BY <2>1, Zenon DEF IInv, PathIsWalk
  <2>6. Examined'
    BY <2>1, <2>2, Zenon DEF IInv, Examined
  <2>7. ReportsAreCycles' /\ SaidOnce' /\ RanksAreBelow' /\ FinishedInOrder'
    BY <2>1, <2>2, ReportsStay DEF IInv
  <2> QED
    BY <2>3, <2>4, <2>5, <2>6, <2>7 DEF IInv
<1> QED
  BY <1>1, <1>2, <1>3, <1>4, <1>5, <1>6 DEF Next

(***************************************************************************)
(* Every walk keeps the invariant.                                         *)
(***************************************************************************)
THEOREM Invariant == Spec => []IInv
<1> QED
  BY InitKeeps, NextKeeps, PTL DEF Spec

(***************************************************************************)
(* The colours, the path and the reports have their types.                 *)
(***************************************************************************)
THEOREM TypesHold == Spec => []TypeOK
<1>1. IInv => TypeOK
  BY DEF IInv
<1> QED
  BY <1>1, Invariant, PTL

(***************************************************************************)
(* What detectCycles and the composite walks report as a cycle is one.     *)
(***************************************************************************)
THEOREM ReportedCyclesExist == Spec => []ReportsAreCycles
<1>1. IInv => ReportsAreCycles
  BY DEF IInv
<1> QED
  BY <1>1, Invariant, PTL

(***************************************************************************)
(* The package resolver reports a cycle once.                              *)
(***************************************************************************)
THEOREM CyclesAreSaidOnce == Spec => []SaidOnce
<1>1. IInv => SaidOnce
  BY DEF IInv
<1> QED
  BY <1>1, Invariant, PTL

(***************************************************************************)
(* Without a report, nodes are finished after everything they lead to.     *)
(***************************************************************************)
THEOREM NodesFinishInOrder == Spec => []FinishedInOrder
<1>1. IInv => FinishedInOrder
  BY DEF IInv
<1> QED
  BY <1>1, Invariant, PTL

(***************************************************************************)
(* A walk that ends without a report has walked an acyclic graph: among    *)
(* any nodes, no edge leads from the first finished back to one of them.   *)
(***************************************************************************)
THEOREM SilenceProvesAcyclic == Spec => []SilenceIsProof
<1>1. IInv => SilenceIsProof
  <2> SUFFICES ASSUME IInv, Done, reports = {}, NEW C \in SUBSET Node, C # {}
               PROVE  \E m \in C : \A n \in C : ~Edge(m, n)
    BY DEF SilenceIsProof, Acyclic
  <2>1. path = << >> /\ White = {} /\ ~Stopped
    BY DEF Done, Stopped
  <2>2. \A n \in Node : colour[n] # "grey"
    BY <2>1 DEF IInv, PathIsGrey
  <2>3. Node \subseteq Black
    BY <2>1, <2>2 DEF IInv, TypeOK, White, Black
  <2> DEFINE ranks == {rank[n] : n \in C}
  <2>4. ranks \subseteq Nat /\ ranks # {}
    BY DEF IInv, TypeOK
  <2> HIDE DEF ranks
  <2>5. PICK r \in ranks : \A q \in ranks : r <= q
    BY <2>4, LeastNatural
  <2>6. PICK m \in C : rank[m] = r
    BY <2>5 DEF ranks
  <2>7. \A n \in C : ~Edge(m, n)
    <3> SUFFICES ASSUME NEW n \in C, Edge(m, n) PROVE FALSE
      OBVIOUS
    <3>1. rank[n] < rank[m]
      BY <2>3 DEF IInv, FinishedInOrder
    <3>2. rank[m] <= rank[n] /\ rank[m] \in Nat /\ rank[n] \in Nat
      BY <2>4, <2>5, <2>6 DEF ranks
    <3> QED
      BY <3>1, <3>2
  <2> QED
    BY <2>7
<1> QED
  BY <1>1, Invariant, PTL

(***************************************************************************)
(* All of it: whatever the graph and the walk, silence proves there is no  *)
(* cycle, what is reported is one, and the resolver says it once.          *)
(***************************************************************************)
THEOREM WalkHolds == Spec => []WalkIsSound
<1>1. (/\ TypeOK /\ SilenceIsProof /\ ReportsAreCycles
       /\ FinishedInOrder /\ SaidOnce) => WalkIsSound
  BY DEF WalkIsSound
<1> QED
  BY TypesHold, SilenceProvesAcyclic, ReportedCyclesExist, NodesFinishInOrder,
     CyclesAreSaidOnce, <1>1, PTL
=============================================================================
