----------------------- MODULE PackageResolverProofs -----------------------
(***************************************************************************)
(* Proofs about the package resolver, for every set of packages, versions, *)
(* constraints and worlds.                                                 *)
(***************************************************************************)
EXTENDS PackageResolver, WellFoundedInduction, SequenceTheorems, TLAPS

(***************************************************************************)
(* A non-empty set of naturals has a least element.                        *)
(***************************************************************************)
LEMMA LeastNatural ==
    ASSUME NEW T, T \subseteq Nat, T # {}
    PROVE  \E x \in T : \A y \in T : x <= y
<1>1. PICK x \in T : \A y \in T : ~(<<y, x>> \in OpToRel(<, Nat))
  BY NatLessThanWellFounded, WFMin
<1>2. \A y \in T : ~(y < x)
  BY <1>1 DEF OpToRel
<1> QED
  BY <1>2

(***************************************************************************)
(* A world is a sequence of entries counted from 0.                        *)
(***************************************************************************)
LEMMA WorldEntries ==
    ASSUME world \in DOMAIN Worlds
    PROVE  /\ \A e \in DOMAIN entry : e \in Nat /\ entry[e] \in Entry
           /\ 0 \in DOMAIN entry
           /\ entry[0].identity = Root
<1>1. PICK n \in DOMAIN entry : n \in Nat /\ entry \in [0..n -> Entry]
  BY WorldsAssumption DEF entry
<1> QED
  BY <1>1, WorldsAssumption DEF entry

(***************************************************************************)
(* byIdentity's order picks one entry out of any offered entries: the      *)
(* first one is ahead of all others.                                       *)
(***************************************************************************)
LEMMA FirstIsAhead ==
    ASSUME world \in DOMAIN Worlds,
           NEW T, T \subseteq DOMAIN entry, T # {}
    PROVE  First(T) \in T /\ \A f \in T \ {First(T)} : Ahead(First(T), f)
<1> DEFINE rank(e) == Rank(entry[e].version)
<1>1. \A e \in T : e \in Nat /\ rank(e) \in Nat
  BY WorldEntries, RankAssumption DEF Entry
<1>2. PICK r \in {rank(e) : e \in T} : \A s \in {rank(e) : e \in T} : r <= s
  <2> DEFINE ranks == {rank(e) : e \in T}
  <2>1. ranks \subseteq Nat /\ ranks # {}
    BY <1>1
  <2> HIDE DEF ranks
  <2>2. \E x \in ranks : \A y \in ranks : x <= y
    BY <2>1, LeastNatural
  <2> QED
    BY <2>2 DEF ranks
<1> DEFINE best == {e \in T : rank(e) = r}
<1>3. PICK b \in best : \A c \in best : b <= c
  <2>1. best \subseteq Nat /\ best # {}
    BY <1>1, <1>2
  <2> HIDE DEF best
  <2> QED
    BY <2>1, LeastNatural
<1>4. \A f \in T \ {b} : Ahead(b, f)
  <2> SUFFICES ASSUME NEW f \in T \ {b} PROVE Ahead(b, f)
    OBVIOUS
  <2>1. rank(b) = r /\ rank(b) <= rank(f) /\ rank(f) \in Nat /\ rank(b) \in Nat
    BY <1>1, <1>2, <1>3
  <2>2. CASE rank(f) = r
    <3>1. b <= f /\ b # f /\ b \in Nat /\ f \in Nat
      BY <1>1, <1>3, <2>2
    <3> QED
      BY <3>1, <2>1, <2>2 DEF Ahead
  <2>3. CASE rank(f) # r
    BY <2>1, <2>3 DEF Ahead
  <2> QED
    BY <2>2, <2>3
<1>5. b \in T /\ \A f \in T \ {b} : Ahead(b, f)
  BY <1>3, <1>4
<1> QED
  BY <1>5 DEF First

(***************************************************************************)
(* What is chosen for an import is an offered entry of its target that     *)
(* satisfies every constraint, the import's own among them.                *)
(***************************************************************************)
LEMMA ChosenMatches ==
    ASSUME TypeOK, NEW import,
           Matching(import.target, Extended(import)) # {}
    PROVE  /\ Chosen(import) \in Matching(import.target, Extended(import))
           /\ Chosen(import) \in candidates
           /\ entry[Chosen(import)].identity = import.target
<1>1. Matching(import.target, Extended(import)) \subseteq DOMAIN entry
  BY DEF TypeOK, Matching, Offered
<1>2. Chosen(import) \in Matching(import.target, Extended(import))
  BY <1>1, FirstIsAhead DEF TypeOK, Chosen
<1> QED
  BY <1>2 DEF Matching, Offered

(***************************************************************************)
(* What a step that reads one import leaves well typed: the recorded       *)
(* constraint, the edge, and the imports that remain.                      *)
(***************************************************************************)
LEMMA RecordTypes ==
    ASSUME TypeOK, Importing, RecordImport(Head(pending)), entry' = entry
    PROVE  /\ Head(pending) \in Import
           /\ constraints' \in [Package -> Seq([constraint : Constraint,
                                                 from : DOMAIN entry])]
           /\ edges' \in [Package -> Seq(Package)]
           /\ pending' \in Seq(Import)
<1>1. Head(pending) \in Import /\ Tail(pending) \in Seq(Import)
  BY HeadTailProperties DEF TypeOK, Importing
<1>2. Head(pending).constraint \in Constraint /\ Head(pending).target \in Package
  BY <1>1 DEF RecordImport, Import
<1>3. Extended(Head(pending)) \in Seq([constraint : Constraint,
                                        from : DOMAIN entry])
  BY <1>2, AppendProperties DEF TypeOK, Extended
<1>4. entry[current].identity \in Package
  BY WorldEntries DEF TypeOK, Entry
<1>5. Append(edges[entry[current].identity], Head(pending).target) \in Seq(Package)
  BY <1>2, <1>4, AppendProperties DEF TypeOK
<1> QED
  BY <1>1, <1>2, <1>3, <1>4, <1>5 DEF TypeOK, RecordImport

(***************************************************************************)
(* A report adds one diagnostic of the closed registry.                    *)
(***************************************************************************)
LEMMA ReportTypes ==
    ASSUME TypeOK, NEW code \in Code, NEW package \in Package,
           Report(code, package)
    PROVE  diagnostics' \subseteq [code : Code, package : Package]
BY DEF TypeOK, Report

(***************************************************************************)
(* Every step keeps the types.                                             *)
(***************************************************************************)
LEMMA TypeStep == TypeOK /\ [Next]_vars => TypeOK'
<1> SUFFICES ASSUME TypeOK, [Next]_vars PROVE TypeOK'
  OBVIOUS
<1> USE DEF TypeOK
<1>0. world' = world /\ entry' = entry
  BY DEF Next, vars, RejectRoot, ReadRoot, Discover, RefuseEscape, PassOver,
         KeepCandidate, StartWalk, ExceedLimit, WalkPackage, FinishWalk,
         ReadImport, RefuseConstraint, MissImport, LeaveUnsatisfied,
         LeaveConflicting, SelectImport, KeepImport, ReportConflicts,
         ReportCycles, entry
<1>1. CASE RejectRoot
  <2>1. diagnostics' \subseteq [code : Code, package : Package]
    BY <1>1, RootAssumption, ReportTypes DEF RejectRoot, Code
  <2> QED
    BY <1>0, <1>1, <2>1 DEF RejectRoot, walkVars, Phase
<1>2. CASE ReadRoot
  BY <1>0, <1>2 DEF ReadRoot, walkVars, Phase
<1>3. CASE RefuseEscape
  <2>1. entry[cursor].identity \in Package
    BY <1>3, WorldEntries DEF RefuseEscape, Discovering, Entry
  <2>2. diagnostics' \subseteq [code : Code, package : Package]
    BY <1>3, <2>1, ReportTypes DEF RefuseEscape, Code
  <2>3. cursor' \in Nat \ {0}
    BY <1>3 DEF RefuseEscape
  <2> QED
    BY <1>0, <1>3, <2>2, <2>3 DEF RefuseEscape, walkVars
<1>4. CASE PassOver
  <2>1. cursor' \in Nat \ {0}
    BY <1>4 DEF PassOver
  <2> QED
    BY <1>0, <1>4, <2>1 DEF PassOver, walkVars
<1>5. CASE KeepCandidate
  <2>1. cursor' \in Nat \ {0}
    BY <1>5 DEF KeepCandidate
  <2>2. candidates' \subseteq DOMAIN entry \ {0}
    BY <1>5 DEF KeepCandidate, Discovering
  <2> QED
    BY <1>0, <1>5, <2>1, <2>2 DEF KeepCandidate, walkVars
<1>6. CASE StartWalk
  <2>1. 0 \in DOMAIN entry
    BY WorldEntries
  <2>2. selected' \in [Package -> DOMAIN entry \cup {NoEntry}]
    BY <1>6, <2>1 DEF StartWalk
  <2>3. queue' \in Seq(DOMAIN entry)
    BY <1>6, <2>1 DEF StartWalk
  <2> QED
    BY <1>0, <1>6, <2>2, <2>3 DEF StartWalk, Phase
<1>7. CASE ExceedLimit
  <2>1. diagnostics' \subseteq [code : Code, package : Package]
    BY <1>7, RootAssumption, ReportTypes DEF ExceedLimit, Code
  <2> QED
    BY <1>0, <1>7, <2>1 DEF ExceedLimit, walkVars, Phase
<1>8. CASE WalkPackage
  <2>1. Head(queue) \in DOMAIN entry /\ Tail(queue) \in Seq(DOMAIN entry)
    BY <1>8, HeadTailProperties DEF WalkPackage
  <2>2. entry[Head(queue)].imports \in Seq(Import)
        /\ entry[Head(queue)].identity \in Package
    BY <2>1, WorldEntries DEF Entry
  <2>3. edges' \in [Package -> Seq(Package)]
    BY <1>8, <2>2, EmptySeq DEF WalkPackage
  <2> QED
    BY <1>0, <1>8, <2>1, <2>2, <2>3 DEF WalkPackage
<1>9. CASE FinishWalk
  BY <1>0, <1>9 DEF FinishWalk, walkVars, Phase
<1>10. CASE RefuseConstraint
  <2>1. Head(pending) \in Import /\ Tail(pending) \in Seq(Import)
    BY <1>10, HeadTailProperties DEF RefuseConstraint, Importing
  <2>2. diagnostics' \subseteq [code : Code, package : Package]
    BY <1>10, <2>1, ReportTypes DEF RefuseConstraint, Code, Import
  <2> QED
    BY <1>0, <1>10, <2>1, <2>2 DEF RefuseConstraint
<1>11. CASE MissImport
  <2>1. diagnostics' \subseteq [code : Code, package : Package]
    BY <1>0, <1>11, RecordTypes, ReportTypes DEF MissImport, Code, Import
  <2> QED
    BY <1>0, <1>11, <2>1, RecordTypes DEF MissImport
<1>12. CASE LeaveUnsatisfied
  <2>1. diagnostics' \subseteq [code : Code, package : Package]
    BY <1>0, <1>12, RecordTypes, ReportTypes DEF LeaveUnsatisfied, Code, Import
  <2> QED
    BY <1>0, <1>12, <2>1, RecordTypes DEF LeaveUnsatisfied
<1>13. CASE LeaveConflicting
  BY <1>0, <1>13, RecordTypes DEF LeaveConflicting
<1>14. CASE SelectImport
  <2>1. Chosen(Head(pending)) \in DOMAIN entry
    BY <1>14, ChosenMatches DEF SelectImport
  <2>2. queue' \in Seq(DOMAIN entry)
    BY <1>14, <2>1, AppendProperties DEF SelectImport
  <2>3. selected' \in [Package -> DOMAIN entry \cup {NoEntry}]
    BY <1>14, <2>1 DEF SelectImport
  <2> QED
    BY <1>0, <1>14, <2>2, <2>3, RecordTypes DEF SelectImport
<1>15. CASE KeepImport
  BY <1>0, <1>15, RecordTypes DEF KeepImport
<1>16. CASE ReportConflicts
  <2>1. diagnostics' \subseteq [code : Code, package : Package]
    BY <1>16 DEF ReportConflicts, Code
  <2> QED
    BY <1>0, <1>16, <2>1 DEF ReportConflicts, walkVars, Phase
<1>17. CASE ReportCycles
  <2>1. diagnostics' \subseteq [code : Code, package : Package]
    BY <1>17, RootAssumption, ReportTypes DEF ReportCycles, Code
  <2> QED
    BY <1>0, <1>17, <2>1 DEF ReportCycles, walkVars, Phase
<1>18. CASE UNCHANGED vars
  BY <1>0, <1>18 DEF vars
<1> QED
  BY <1>1, <1>2, <1>3, <1>4, <1>5, <1>6, <1>7, <1>8, <1>9, <1>10, <1>11,
     <1>12, <1>13, <1>14, <1>15, <1>16, <1>17, <1>18
     DEF Next, Discover, ReadImport

(***************************************************************************)
(* The resolver never leaves its types: what is selected, queued or walked *)
(* is always an entry of the world, what is recorded a supported           *)
(* constraint.                                                             *)
(***************************************************************************)
THEOREM TypeCorrect == Spec => []TypeOK
<1>1. Init => TypeOK
  BY WorldEntries, EmptySeq DEF Init, TypeOK, Phase
<1> QED
  BY <1>1, TypeStep, PTL DEF Spec

----------------------------------------------------------------------------
(***************************************************************************)
(* The facts the selection rests on.  Nothing is constrained before the    *)
(* walk; no two candidates share identity and version; what is selected    *)
(* for an identity is a candidate of it, asked for by some import, or the  *)
(* root's own entry; and conflicts are reported after the walk only.       *)
(***************************************************************************)
Consistent ==
    /\ phase \in {"read", "discover"} => constraints = [p \in Package |-> <<>>]
    /\ phase \in {"read", "discover"} => selected = [p \in Package |-> NoEntry]
    /\ \A e, f \in candidates :
          /\ entry[e].identity = entry[f].identity
          /\ entry[e].version = entry[f].version
          => e = f
    /\ \A p \in Package :
          selected[p] # NoEntry =>
             /\ entry[selected[p]].identity = p
             /\ selected[p] \in candidates => constraints[p] # <<>>
             /\ selected[p] \in candidates \cup {0}
    /\ \A p \in Package :
          [code |-> "IMPORT_VERSION_CONFLICT", package |-> p] \in diagnostics
             => phase \in {"cycles", "done"}

IInv == TypeOK /\ Consistent /\ SelectionIsBest /\ ConflictIsReal

Steps == /\ world' = world
         /\ entry' = entry

\* The packages on disk are the same at every step of a resolution.
LEMMA WorldStays == [Next]_vars => Steps
BY DEF Steps, Next, vars, RejectRoot, ReadRoot, Discover, RefuseEscape, PassOver,
       KeepCandidate, StartWalk, ExceedLimit, WalkPackage, FinishWalk,
       ReadImport, RefuseConstraint, MissImport, LeaveUnsatisfied,
       LeaveConflicting, SelectImport, KeepImport, ReportConflicts,
       ReportCycles, entry

(***************************************************************************)
(* Reading an import adds one constraint on its target and touches no      *)
(* other identity.                                                         *)
(***************************************************************************)
LEMMA RecordExtends ==
    ASSUME TypeOK, Importing, RecordImport(Head(pending))
    PROVE  /\ Head(pending).target \in Package
           /\ \A p \in Package : p # Head(pending).target =>
                 constraints'[p] = constraints[p]
           /\ constraints'[Head(pending).target] = Extended(Head(pending))
           /\ Extended(Head(pending)) # <<>>
<1>1. Head(pending) \in Import
  BY HeadTailProperties DEF TypeOK, Importing
<1>2. Head(pending).target \in Package /\ Head(pending).constraint \in Constraint
  BY <1>1 DEF RecordImport, Import
<1> DEFINE record == [constraint |-> Head(pending).constraint, from |-> current]
           records == [constraint : Constraint, from : DOMAIN entry]
<1>3. record \in records /\ constraints[Head(pending).target] \in Seq(records)
  BY <1>2 DEF TypeOK
<1>4. Append(constraints[Head(pending).target], record) # <<>>
  <2> HIDE DEF record, records
  <2> QED
    BY <1>3, AppendProperties
<1> QED
  BY <1>2, <1>4 DEF TypeOK, RecordImport, Extended

\* Every step keeps the selections, the constraints seen for each identity and
\* the walk in agreement.
LEMMA ConsistentStep == IInv /\ [Next]_vars => Consistent'
<1> SUFFICES ASSUME IInv, [Next]_vars PROVE Consistent'
  OBVIOUS
<1>0. Steps /\ TypeOK /\ Consistent
  BY WorldStays DEF IInv
<1> USE DEF Consistent, Steps
<1>1. CASE RejectRoot
  BY <1>0, <1>1 DEF RejectRoot, walkVars, Report
<1>2. CASE ReadRoot
  BY <1>0, <1>2 DEF ReadRoot, walkVars
<1>3. CASE RefuseEscape
  BY <1>0, <1>3 DEF RefuseEscape, Discovering, walkVars, Report
<1>4. CASE PassOver
  BY <1>0, <1>4 DEF PassOver, walkVars
<1>5. CASE KeepCandidate
  <2>1. \A e, f \in candidates' :
           /\ entry[e].identity = entry[f].identity
           /\ entry[e].version = entry[f].version
           => e = f
    BY <1>0, <1>5 DEF KeepCandidate, Taken
  <2>2. \A p \in Package : selected[p] = NoEntry
    BY <1>0, <1>5 DEF KeepCandidate, Discovering
  <2>3. \A p \in Package :
           [code |-> "IMPORT_VERSION_CONFLICT", package |-> p] \notin diagnostics
    BY <1>0, <1>5 DEF KeepCandidate, Discovering
  <2> QED
    BY <1>0, <1>5, <2>1, <2>2, <2>3 DEF KeepCandidate, walkVars
<1>6. CASE StartWalk
  <2>1. entry[0].identity = Root /\ 0 \notin candidates
    BY <1>0, WorldEntries DEF TypeOK
  <2>2. \A p \in Package : selected'[p] = IF p = Root THEN 0 ELSE NoEntry
    BY <1>0, <1>6 DEF StartWalk, TypeOK
  <2> QED
    BY <1>0, <1>6, <2>1, <2>2 DEF StartWalk
<1>7. CASE ExceedLimit
  BY <1>0, <1>7 DEF ExceedLimit, BetweenPackages, walkVars, Report
<1>8. CASE WalkPackage
  BY <1>0, <1>8 DEF WalkPackage
<1>9. CASE FinishWalk
  BY <1>0, <1>9 DEF FinishWalk, BetweenPackages, walkVars
<1>10. CASE RefuseConstraint
  BY <1>0, <1>10 DEF RefuseConstraint, Report
<1>11. CASE MissImport
  BY <1>0, <1>11, RecordExtends DEF MissImport, Importing, Report
<1>12. CASE LeaveUnsatisfied
  BY <1>0, <1>12, RecordExtends DEF LeaveUnsatisfied, Importing, Report
<1>13. CASE LeaveConflicting
  BY <1>0, <1>13, RecordExtends DEF LeaveConflicting, Importing
<1>14. CASE SelectImport
  <2>1. /\ Chosen(Head(pending)) \in candidates
        /\ entry[Chosen(Head(pending))].identity = Head(pending).target
    BY <1>0, <1>14, ChosenMatches DEF SelectImport
  <2>2. /\ Head(pending).target \in Package
        /\ \A p \in Package : p # Head(pending).target =>
              constraints'[p] = constraints[p] /\ selected'[p] = selected[p]
        /\ constraints'[Head(pending).target] # <<>>
        /\ selected'[Head(pending).target] = Chosen(Head(pending))
    <3>1. Importing /\ RecordImport(Head(pending))
          /\ selected' = [selected EXCEPT ![Head(pending).target] =
                               Chosen(Head(pending))]
      BY <1>14 DEF SelectImport
    <3>2. selected \in [Package -> DOMAIN entry \cup {NoEntry}]
      BY <1>0 DEF TypeOK
    <3> QED
      BY <1>0, <3>1, <3>2, RecordExtends
  <2>3. \A p \in Package : selected'[p] # NoEntry =>
           /\ entry[selected'[p]].identity = p
           /\ selected'[p] \in candidates => constraints'[p] # <<>>
           /\ selected'[p] \in candidates \cup {0}
    <3> SUFFICES ASSUME NEW p \in Package, selected'[p] # NoEntry
                 PROVE  /\ entry[selected'[p]].identity = p
                        /\ selected'[p] \in candidates => constraints'[p] # <<>>
                        /\ selected'[p] \in candidates \cup {0}
      OBVIOUS
    <3>1. CASE p = Head(pending).target
      BY <2>1, <2>2, <3>1
    <3>2. CASE p # Head(pending).target
      BY <1>0, <2>2, <3>2
    <3> QED
      BY <3>1, <3>2
  <2>4. phase' = "walk" /\ candidates' = candidates /\ diagnostics' = diagnostics
        /\ phase = "walk"
    BY <1>14 DEF SelectImport, Importing
  <2>5. \A e, f \in candidates' :
           /\ entry'[e].identity = entry'[f].identity
           /\ entry'[e].version = entry'[f].version
           => e = f
    BY <1>0, <2>4
  <2>6. phase' \notin {"read", "discover"}
    BY <2>4
  <2>7. \A p \in Package :
           [code |-> "IMPORT_VERSION_CONFLICT", package |-> p] \notin diagnostics'
    BY <1>0, <2>4
  <2> QED
    BY <1>0, <2>3, <2>4, <2>5, <2>6, <2>7
<1>15. CASE KeepImport
  BY <1>0, <1>15, RecordExtends DEF KeepImport, Importing
<1>16. CASE ReportConflicts
  BY <1>0, <1>16 DEF ReportConflicts, walkVars
<1>17. CASE ReportCycles
  BY <1>0, <1>17 DEF ReportCycles, walkVars, Report
<1>18. CASE UNCHANGED vars
  BY <1>0, <1>18 DEF vars
<1> QED
  BY <1>1, <1>2, <1>3, <1>4, <1>5, <1>6, <1>7, <1>8, <1>9, <1>10, <1>11,
     <1>12, <1>13, <1>14, <1>15, <1>16, <1>17, <1>18
     DEF Next, Discover, ReadImport

(***************************************************************************)
(* What SelectionIsBest says of one identity.                              *)
(***************************************************************************)
BestFor(p) ==
    constraints[p] # <<>> /\ Matching(p, constraints[p]) # {} =>
       /\ selected[p] # NoEntry
       /\ \E e \in Matching(p, constraints[p]) :
             /\ entry[selected[p]].version = entry[e].version
             /\ \A f \in Matching(p, constraints[p]) \ {e} : Ahead(e, f)

\* The best selection, stated one identity at a time.
LEMMA BestForAll == SelectionIsBest <=> \A p \in Package : BestFor(p)
BY DEF SelectionIsBest, BestFor

(***************************************************************************)
(* An identity whose selection and constraints a step leaves alone keeps   *)
(* its best selection.                                                     *)
(***************************************************************************)
LEMMA BestStays ==
    ASSUME Steps, candidates' = candidates, NEW p \in Package, BestFor(p),
           constraints'[p] = constraints[p], selected'[p] = selected[p]
    PROVE  BestFor(p)'
BY DEF Steps, BestFor, Matching, Offered, Ahead

(***************************************************************************)
(* The constraints before an import are among those after it, so what      *)
(* matches after it matched before, and satisfies the import alone.        *)
(***************************************************************************)
LEMMA MatchingShrinks ==
    ASSUME TypeOK, NEW import \in Import, import.constraint \in Constraint
    PROVE  /\ Matching(import.target, Extended(import)) \subseteq
                  Matching(import.target, constraints[import.target])
           /\ Matching(import.target, Extended(import)) \subseteq
                  MatchingAlone(import)
<1> DEFINE record == [constraint |-> import.constraint, from |-> current]
           records == [constraint : Constraint, from : DOMAIN entry]
           before == constraints[import.target]
           after == Append(before, record)
<1>1. record \in records /\ before \in Seq(records)
  BY DEF TypeOK, Import
<1>2. /\ Len(before) \in Nat
      /\ DOMAIN before = 1..Len(before)
      /\ DOMAIN after = 1..(Len(before) + 1)
      /\ \A i \in DOMAIN before : after[i] = before[i]
      /\ after[Len(before) + 1] = record
  <2> HIDE DEF record, records, before
  <2> QED
    BY <1>1, AppendProperties, LenProperties
<1>3. \A i \in DOMAIN before : i \in DOMAIN after /\ after[i] = before[i]
  BY <1>2
<1>4. Len(before) + 1 \in DOMAIN after
      /\ after[Len(before) + 1].constraint = import.constraint
  BY <1>2
<1>5. Extended(import) = after
  BY DEF Extended
<1> HIDE DEF after, before
<1> QED
  BY <1>3, <1>4, <1>5 DEF Matching, MatchingAlone, before

(***************************************************************************)
(* Every step keeps the selection the best one for what is recorded.       *)
(***************************************************************************)
LEMMA BestStep == IInv /\ [Next]_vars => SelectionIsBest'
<1> SUFFICES ASSUME IInv, [Next]_vars, NEW p \in Package PROVE BestFor(p)'
  BY DEF SelectionIsBest, BestFor
<1>0. Steps /\ TypeOK /\ Consistent /\ BestFor(p)
  BY WorldStays, BestForAll DEF IInv
<1>1. CASE phase \in {"read", "discover"}
  <2>1. constraints'[p] = <<>>
    BY <1>0, <1>1 DEF Consistent, Next, vars, RejectRoot, ReadRoot, Discover,
       RefuseEscape, PassOver, KeepCandidate, StartWalk, ExceedLimit,
       WalkPackage, FinishWalk, ReadImport, RefuseConstraint, MissImport,
       LeaveUnsatisfied, LeaveConflicting, SelectImport, KeepImport,
       ReportConflicts, ReportCycles, BetweenPackages, Importing, walkVars
  <2> QED
    BY <2>1 DEF BestFor
<1>2. CASE \/ ExceedLimit \/ WalkPackage \/ FinishWalk \/ RefuseConstraint
          \/ ReportConflicts \/ ReportCycles \/ UNCHANGED vars
  <2>1. /\ candidates' = candidates
        /\ constraints' = constraints
        /\ selected' = selected
    BY <1>2 DEF ExceedLimit, WalkPackage, FinishWalk, RefuseConstraint,
       ReportConflicts, ReportCycles, vars, walkVars
  <2> QED
    BY <1>0, <2>1, BestStays
<1>3. CASE \/ MissImport \/ LeaveUnsatisfied \/ LeaveConflicting
          \/ SelectImport \/ KeepImport
  <2> DEFINE import == Head(pending)
  <2>1. Importing /\ RecordImport(import) /\ candidates' = candidates
    BY <1>3 DEF MissImport, LeaveUnsatisfied, LeaveConflicting, SelectImport,
       KeepImport
  <2>2. import \in Import /\ import.constraint \in Constraint
    <3>1. import \in Import
      BY <1>0, <2>1, HeadTailProperties DEF TypeOK, Importing
    <3>2. import.constraint # Unsupported
      BY <2>1 DEF RecordImport
    <3> QED
      BY <3>1, <3>2 DEF Import
  <2>3. CASE p # import.target
    <3>1. selected'[p] = selected[p]
      BY <1>0, <1>3, <2>3 DEF MissImport, LeaveUnsatisfied, LeaveConflicting,
         SelectImport, KeepImport, TypeOK
    <3>2. constraints'[p] = constraints[p]
      BY <1>0, <2>1, <2>3, RecordExtends
    <3> QED
      BY <1>0, <2>1, <3>1, <3>2, BestStays
  <2>4. CASE p = import.target
    <3> DEFINE agreed == Matching(p, Extended(import))
    <3>1. constraints'[p] = Extended(import)
      BY <1>0, <2>1, <2>4, RecordExtends
    <3>2. Matching(p, constraints[p])' = agreed
      BY <1>0, <2>1, <3>1 DEF Steps, Matching, Offered
    <3>3. CASE agreed = {}
      BY <3>2, <3>3 DEF BestFor
    <3>4. CASE agreed # {}
      <4>1. SelectImport \/ KeepImport
        BY <1>0, <1>3, <2>2, <2>4, <3>4, MatchingShrinks
           DEF MissImport, LeaveUnsatisfied, LeaveConflicting, MatchingAlone
      <4>2. PICK c \in agreed : c = Chosen(import)
        BY <1>0, <2>4, <3>4, ChosenMatches
      <4>3. \A f \in agreed \ {c} : Ahead(c, f)
        <5>1. agreed \subseteq DOMAIN entry
          BY <1>0 DEF TypeOK, Matching, Offered
        <5>2. c = First(agreed)
          BY <2>4, <4>2 DEF Chosen
        <5>3. world \in DOMAIN Worlds
          BY <1>0 DEF TypeOK
        <5> QED
          BY <3>4, <5>1, <5>2, <5>3, FirstIsAhead
      <4>4. selected'[p] # NoEntry /\ entry[selected'[p]].version = entry[c].version
        <5>1. CASE SelectImport
          <6>1. selected'[p] = c
            BY <1>0, <2>4, <4>2, <5>1 DEF SelectImport, TypeOK
          <6>2. c \in Nat
            BY <1>0, <2>4, <3>4, <4>2, ChosenMatches, WorldEntries DEF TypeOK
          <6> QED
            BY <6>1, <6>2, NoEntryAssumption
        <5>2. CASE KeepImport
          BY <2>4, <4>2, <5>2 DEF KeepImport, Moves
        <5> QED
          BY <4>1, <5>1, <5>2
      <4>5. \A f \in agreed \ {c} : Ahead(c, f)'
        BY <1>0, <4>3 DEF Ahead, Steps
      <4> HIDE DEF agreed
      <4> QED
        BY <1>0, <3>2, <4>2, <4>4, <4>5 DEF BestFor, Steps
    <3> QED
      BY <3>3, <3>4
  <2> QED
    BY <2>3, <2>4
<1> QED
  BY <1>1, <1>2, <1>3
     DEF Next, Discover, ReadImport, RejectRoot, ReadRoot, RefuseEscape,
         PassOver, KeepCandidate, StartWalk, Discovering

(***************************************************************************)
(* Only the check after the walk reports conflicts, and nothing it judges  *)
(* changes afterwards.                                                     *)
(***************************************************************************)
LEMMA ConflictStep == IInv /\ [Next]_vars => ConflictIsReal'
<1> DEFINE conflict(p) == [code |-> "IMPORT_VERSION_CONFLICT", package |-> p]
<1> SUFFICES ASSUME IInv, [Next]_vars, NEW p \in Package,
                    conflict(p) \in diagnostics'
             PROVE  (Matching(p, constraints[p]) = {})'
  BY DEF ConflictIsReal
<1>0. Steps /\ TypeOK /\ Consistent /\ BestFor(p) /\ ConflictIsReal
  BY WorldStays, BestForAll DEF IInv
<1>1. CASE conflict(p) \in diagnostics
  <2>1. Matching(p, constraints[p]) = {} /\ phase \in {"cycles", "done"}
    BY <1>0, <1>1 DEF ConflictIsReal, Consistent
  <2>2. constraints' = constraints /\ candidates' = candidates
    BY <2>1 DEF Next, vars, RejectRoot, ReadRoot, Discover,
       RefuseEscape, PassOver, KeepCandidate, StartWalk, ExceedLimit,
       WalkPackage, FinishWalk, ReadImport, RefuseConstraint, MissImport,
       LeaveUnsatisfied, LeaveConflicting, SelectImport, KeepImport,
       ReportConflicts, ReportCycles, Discovering, BetweenPackages, Importing,
       walkVars
  <2> QED
    BY <1>0, <2>1, <2>2 DEF Steps, Matching, Offered
<1>2. CASE conflict(p) \notin diagnostics
  <2>1. ReportConflicts
    BY <1>2 DEF Next, vars, RejectRoot, ReadRoot, Discover,
       RefuseEscape, PassOver, KeepCandidate, StartWalk, ExceedLimit,
       WalkPackage, FinishWalk, ReadImport, RefuseConstraint, MissImport,
       LeaveUnsatisfied, LeaveConflicting, SelectImport, KeepImport,
       ReportCycles, Report
  <2>2. Conflicting(p)
    BY <1>2, <2>1 DEF ReportConflicts
  <2>3. PICK i \in DOMAIN constraints[p] :
           ~Satisfies(entry[selected[p]].version, constraints[p][i].constraint)
    BY <2>2 DEF Conflicting
  <2>4. constraints[p] # <<>>
    BY <2>3
  <2>5. Matching(p, constraints[p]) = {}
    <3> SUFFICES ASSUME Matching(p, constraints[p]) # {} PROVE FALSE
      OBVIOUS
    <3>1. PICK e \in Matching(p, constraints[p]) :
             entry[selected[p]].version = entry[e].version
      BY <1>0, <2>4 DEF BestFor
    <3>2. Satisfies(entry[e].version, constraints[p][i].constraint)
      BY <2>3, <3>1 DEF Matching
    <3> QED
      BY <2>3, <3>1, <3>2
  <2>6. constraints' = constraints /\ candidates' = candidates
    BY <2>1 DEF ReportConflicts, walkVars
  <2> QED
    BY <1>0, <2>5, <2>6 DEF Steps, Matching, Offered
<1> QED
  BY <1>1, <1>2

\* A resolution starts within the invariant: nothing is selected yet.
LEMMA InitIInv == Init => IInv
<1> SUFFICES ASSUME Init PROVE IInv
  OBVIOUS
<1>1. TypeOK
  BY WorldEntries, EmptySeq DEF Init, TypeOK, Phase
<1>2. Consistent /\ SelectionIsBest /\ ConflictIsReal
  BY DEF Init, Consistent, SelectionIsBest, ConflictIsReal
<1> QED
  BY <1>1, <1>2 DEF IInv

\* resolve.mjs resolves imports one by one: after each, the state is well formed,
\* its parts agree, every selection is the best of its candidates and every
\* reported conflict is one.
THEOREM Invariance == Spec => []IInv
<1>1. IInv /\ [Next]_vars => IInv'
  BY TypeStep, ConsistentStep, BestStep, ConflictStep DEF IInv
<1> QED
  BY InitIInv, <1>1, PTL DEF Spec

(***************************************************************************)
(* At every step of every resolution the selected version of an identity   *)
(* is the highest offered one that satisfies every constraint recorded on  *)
(* it, whenever one does.                                                  *)
(***************************************************************************)
THEOREM SelectsBest == Spec => []SelectionIsBest
<1>1. IInv => SelectionIsBest
  BY DEF IInv
<1> QED
  BY Invariance, <1>1, PTL

(***************************************************************************)
(* A reported version conflict is never an accident of the walk: no        *)
(* offered version satisfies every constraint recorded on the identity.    *)
(***************************************************************************)
THEOREM ConflictsAreReal == Spec => []ConflictIsReal
<1>1. IInv => ConflictIsReal
  BY DEF IInv
<1> QED
  BY Invariance, <1>1, PTL

(***************************************************************************)
(* A selection among candidates moves only down the order: to an entry     *)
(* ahead of which the old one was, so that no entry is walked twice.       *)
(***************************************************************************)
LEMMA DescendStep ==
    ASSUME IInv, [Next]_vars, NEW p \in Package
    PROVE  Descends(p)
<1> SUFFICES ASSUME selected[p] \in candidates,
                    selected'[p] # selected[p]
             PROVE  Ahead(selected[p], selected'[p])
  BY DEF Descends
<1>0. TypeOK /\ Consistent /\ BestFor(p)
  BY BestForAll DEF IInv
<1>1. selected[p] \in Nat /\ selected[p] # NoEntry
  BY <1>0, WorldEntries, NoEntryAssumption DEF TypeOK
<1>2. SelectImport
  BY <1>0, <1>1 DEF Consistent, Next, vars, RejectRoot, ReadRoot, Discover,
     RefuseEscape, PassOver, KeepCandidate, StartWalk, ExceedLimit,
     WalkPackage, FinishWalk, ReadImport, RefuseConstraint, MissImport,
     LeaveUnsatisfied, LeaveConflicting, KeepImport, ReportConflicts,
     ReportCycles, walkVars
<1> DEFINE import == Head(pending)
           chosen == Chosen(import)
<1>3. p = import.target /\ selected'[p] = chosen
  BY <1>0, <1>2 DEF SelectImport, TypeOK
<1>4. import \in Import /\ import.constraint \in Constraint
  <2>1. import \in Import
    BY <1>0, <1>2, HeadTailProperties DEF TypeOK, Importing, SelectImport
  <2>2. import.constraint # Unsupported
    BY <1>2 DEF SelectImport, RecordImport
  <2> QED
    BY <2>1, <2>2 DEF Import
<1>5. chosen \in Matching(p, constraints[p])
  BY <1>0, <1>2, <1>3, <1>4, ChosenMatches, MatchingShrinks DEF SelectImport
<1>6. constraints[p] # <<>>
  BY <1>0, <1>1 DEF Consistent
<1>7. PICK e \in Matching(p, constraints[p]) :
         /\ entry[selected[p]].version = entry[e].version
         /\ \A f \in Matching(p, constraints[p]) \ {e} : Ahead(e, f)
  BY <1>0, <1>5, <1>6 DEF BestFor
<1>8. e = selected[p]
  BY <1>0, <1>1, <1>7 DEF Consistent, Matching, Offered
<1>9. chosen # e
  BY <1>3, <1>8
<1> QED
  BY <1>3, <1>5, <1>7, <1>8, <1>9

\* A constraint met later can only lower the version selected for an identity,
\* or take its selection away (resolve.mjs, the candidates matching all of them).
THEOREM SelectionOnlyDescends == Spec => SelectionDescends
<1>1. IInv /\ [Next]_vars => [\A p \in Package : Descends(p)]_vars
  BY DescendStep
<1> QED
  BY Invariance, <1>1, PTL DEF Spec, SelectionDescends

----------------------------------------------------------------------------
(***************************************************************************)
(* The limit.  A selection is made by appending to the queue, and an entry *)
(* is taken off the queue only within the limit: once the queue is empty   *)
(* the limit holds or something was reported.                              *)
(***************************************************************************)
LimitInv ==
    \/ phase = "walk" /\ queue # <<>>
    \/ phase \in {"read", "discover"}
    \/ WithinLimit
    \/ diagnostics # {}

\* Every step keeps it.
LEMMA LimitStep == TypeOK /\ LimitInv /\ [Next]_vars => LimitInv'
<1> SUFFICES ASSUME TypeOK, LimitInv, [Next]_vars PROVE LimitInv'
  OBVIOUS
<1>0. world' = world
  BY WorldStays DEF Steps
<1> USE DEF LimitInv
<1>1. CASE selected' = selected
  <2>1. WithinLimit => WithinLimit'
    BY <1>0, <1>1 DEF WithinLimit, Selected
  <2>2. diagnostics \subseteq diagnostics'
    BY DEF Next, vars, RejectRoot, ReadRoot, Discover, RefuseEscape, PassOver,
       KeepCandidate, StartWalk, ExceedLimit, WalkPackage, FinishWalk,
       ReadImport, RefuseConstraint, MissImport, LeaveUnsatisfied,
       LeaveConflicting, SelectImport, KeepImport, ReportConflicts,
       ReportCycles, Report
  <2>3. CASE WithinLimit \/ diagnostics # {}
    BY <2>1, <2>2, <2>3
  <2>4. CASE diagnostics' # {}
    BY <2>4
  <2>5. CASE ~WithinLimit /\ diagnostics = {} /\ diagnostics' = {}
    <3>1. \/ phase = "walk" /\ queue # <<>>
          \/ phase \in {"read", "discover"}
      BY <2>5
    <3>2. ~RejectRoot /\ ~ExceedLimit /\ ~FinishWalk /\ ~WalkPackage
      BY <2>5, <3>1 DEF RejectRoot, ExceedLimit, FinishWalk, WalkPackage, Report,
         BetweenPackages
    <3>3. CASE phase = "walk"
      BY <3>1, <3>2, <3>3 DEF Next, vars, ReadRoot, Discover, RefuseEscape,
         PassOver, KeepCandidate, StartWalk, ReadImport, RefuseConstraint,
         MissImport, LeaveUnsatisfied, LeaveConflicting, SelectImport,
         KeepImport, ReportConflicts, ReportCycles, Discovering, Importing
    <3>4. CASE phase \in {"read", "discover"}
      BY <3>2, <3>4 DEF Next, vars, ReadRoot, Discover, RefuseEscape,
         PassOver, KeepCandidate, StartWalk, ReadImport, RefuseConstraint,
         MissImport, LeaveUnsatisfied, LeaveConflicting, SelectImport,
         KeepImport, ReportConflicts, ReportCycles, Discovering, Importing
    <3> QED
      BY <3>1, <3>3, <3>4
  <2> QED
    BY <2>3, <2>4, <2>5
<1>2. CASE selected' # selected
  <2>1. StartWalk \/ SelectImport
    BY <1>2 DEF Next, vars, walkVars, RejectRoot, ReadRoot, Discover,
       RefuseEscape, PassOver, KeepCandidate, ExceedLimit, WalkPackage,
       FinishWalk, ReadImport, RefuseConstraint, MissImport, LeaveUnsatisfied,
       LeaveConflicting, KeepImport, ReportConflicts, ReportCycles
  <2>2. CASE StartWalk
    BY <2>2 DEF StartWalk
  <2>3. CASE SelectImport
    <3>1. phase' = "walk" /\ queue' = Append(queue, Chosen(Head(pending)))
      BY <2>3 DEF SelectImport, Importing
    <3>2. Append(queue, Chosen(Head(pending))) # <<>>
      <4> DEFINE chosen == Chosen(Head(pending))
                 indices == DOMAIN entry
      <4>1. chosen \in indices
        BY <2>3, ChosenMatches DEF SelectImport, TypeOK
      <4>2. queue \in Seq(indices)
        BY DEF TypeOK
      <4> HIDE DEF chosen, indices
      <4>3. Append(queue, chosen) # <<>>
        BY <4>1, <4>2, AppendProperties
      <4> QED
        BY <4>3 DEF chosen
    <3> QED
      BY <3>1, <3>2
  <2> QED
    BY <2>1, <2>2, <2>3
<1> QED
  BY <1>1, <1>2

(***************************************************************************)
(* A resolution that selected more packages than maxNodes admits reported  *)
(* something, in every world and for every limit.                          *)
(***************************************************************************)
THEOREM LimitsAreReported == Spec => []LimitIsReported
<1>1. Init => TypeOK /\ LimitInv
  BY InitIInv DEF IInv, Init, LimitInv
<1>2. TypeOK /\ LimitInv => LimitIsReported
  BY DEF LimitInv, LimitIsReported, WithinLimit
<1> QED
  BY <1>1, <1>2, TypeStep, LimitStep, PTL DEF Spec

----------------------------------------------------------------------------
(***************************************************************************)
(* The edges.  An entry is selected by appending it to the queue, so among *)
(* the queued entries of an identity the last is the selected one; when    *)
(* none is queued any more the edges are those of the selected manifest,   *)
(* but for the imports still pending while it is the one being walked.     *)
(***************************************************************************)
Queued(p) == {i \in DOMAIN queue : entry[queue[i]].identity = p}
EdgesOf(p) == {edges[p][i] : i \in DOMAIN edges[p]}
Unread(p) == IF entry[current].identity = p THEN Supported(pending) ELSE {}

QueueFor(p) ==
    \A i \in Queued(p) : (\A j \in Queued(p) : j <= i) => queue[i] = selected[p]
EdgesFor(p) ==
    selected[p] # NoEntry /\ Queued(p) = {} =>
        EdgesOf(p) \cup Unread(p) = Supported(entry[selected[p]].imports)

EdgeInv ==
    /\ \A p \in Package : QueueFor(p) /\ EdgesFor(p)
    /\ phase \in {"read", "discover"} => queue = <<>> /\ pending = <<>>
    /\ Walked /\ ~LimitReported => queue = <<>> /\ pending = <<>>

\* Nothing is in an empty sequence.
LEMMA NothingListed ==
    ASSUME NEW s, s = <<>>
    PROVE  {s[i] : i \in DOMAIN s} = {}
OBVIOUS

\* Nothing is supported of no imports.
LEMMA NoImports == Supported(<<>>) = {}
BY DEF Supported

(***************************************************************************)
(* The supported targets of a list are its head's, if that is supported,   *)
(* and those of its tail.                                                  *)
(***************************************************************************)
LEMMA SupportedHead ==
    ASSUME NEW s \in Seq(Import), s # <<>>
    PROVE  /\ Head(s).constraint = Unsupported => Supported(s) = Supported(Tail(s))
           /\ Head(s).constraint # Unsupported =>
                 Supported(s) = {Head(s).target} \cup Supported(Tail(s))
<1>1. /\ Len(s) \in Nat /\ Len(s) >= 1 /\ DOMAIN s = 1..Len(s)
      /\ DOMAIN Tail(s) = 1..(Len(s) - 1)
      /\ Head(s) = s[1]
      /\ \A i \in 1..(Len(s) - 1) : Tail(s)[i] = s[i + 1]
  BY HeadTailProperties, LenProperties, EmptySeq
<1>2. \A x : x \in Supported(s) <=>
               \E i \in DOMAIN s : s[i].constraint # Unsupported /\ s[i].target = x
  BY DEF Supported
<1>3. \A x : x \in Supported(Tail(s)) <=>
               \E i \in DOMAIN Tail(s) : /\ Tail(s)[i].constraint # Unsupported
                                         /\ Tail(s)[i].target = x
  BY DEF Supported
<1>4. \A x : x \in Supported(Tail(s)) =>  x \in Supported(s)
  <2> SUFFICES ASSUME NEW x \in Supported(Tail(s)) PROVE x \in Supported(s)
    OBVIOUS
  <2>1. PICK i \in DOMAIN Tail(s) : /\ Tail(s)[i].constraint # Unsupported
                                    /\ Tail(s)[i].target = x
    BY <1>3
  <2>2. i + 1 \in DOMAIN s /\ s[i + 1] = Tail(s)[i]
    BY <1>1, <2>1
  <2> QED
    BY <1>2, <2>1, <2>2
<1>5. \A x \in Supported(s) :
         \/ Head(s).constraint # Unsupported /\ Head(s).target = x
         \/ x \in Supported(Tail(s))
  <2> SUFFICES ASSUME NEW x \in Supported(s) 
               PROVE  \/ Head(s).constraint # Unsupported /\ Head(s).target = x
                      \/ x \in Supported(Tail(s))
    OBVIOUS
  <2>1. PICK i \in DOMAIN s : s[i].constraint # Unsupported /\ s[i].target = x
    BY <1>2
  <2>2. CASE i = 1
    BY <1>1, <2>1, <2>2
  <2>3. CASE i # 1
    <3>1. i - 1 \in DOMAIN Tail(s) /\ Tail(s)[i - 1] = s[i]
      BY <1>1, <2>3
    <3> QED
      BY <1>3, <2>1, <3>1
  <2> QED
    BY <2>2, <2>3
<1>6. Head(s).constraint # Unsupported => Head(s).target \in Supported(s)
  BY <1>1, <1>2
<1> QED
  BY <1>4, <1>5, <1>6

(***************************************************************************)
(* An identity whose selection, queued entries, edges and pending imports  *)
(* a step leaves alone keeps both facts.                                   *)
(***************************************************************************)
LEMMA EdgesStay ==
    ASSUME Steps, NEW p \in Package, QueueFor(p), EdgesFor(p),
           queue' = queue, selected'[p] = selected[p], edges'[p] = edges[p],
           Unread(p)' = Unread(p)
    PROVE  QueueFor(p)' /\ EdgesFor(p)'
BY DEF Steps, QueueFor, EdgesFor, Queued, EdgesOf

(***************************************************************************)
(* Reading an import moves its target from the pending imports to the      *)
(* edges of the manifest being walked.                                     *)
(***************************************************************************)
LEMMA RecordMoves ==
    ASSUME TypeOK, Importing, RecordImport(Head(pending)), current' = current,
           Steps, NEW p \in Package
    PROVE  (EdgesOf(p) \cup Unread(p))' = EdgesOf(p) \cup Unread(p)
<1> DEFINE walked == entry[current].identity
           target == Head(pending).target
<1>1. pending \in Seq(Import) /\ pending # <<>> /\ pending' = Tail(pending)
  BY DEF TypeOK, Importing, RecordImport
<1>2. Head(pending).constraint # Unsupported
  BY DEF RecordImport
<1>3. Supported(pending) = {target} \cup Supported(pending')
  BY <1>1, <1>2, SupportedHead
<1>4. CASE p # walked
  <2>1. edges'[p] = edges[p]
    BY <1>4 DEF TypeOK, RecordImport
  <2> QED
    BY <1>4, <2>1 DEF EdgesOf, Unread, Steps
<1>5. CASE p = walked
  <2>1. edges[p] \in Seq(Package) /\ target \in Package
    <3>1. Head(pending) \in Import
      BY <1>1, HeadTailProperties
    <3>2. edges[p] \in Seq(Package)
      BY DEF TypeOK
    <3> QED
      BY <3>1, <3>2 DEF Import
  <2>2. edges'[p] = Append(edges[p], target)
    BY <1>5 DEF TypeOK, RecordImport
  <2>3. {Append(edges[p], target)[i] : i \in DOMAIN Append(edges[p], target)} =
           EdgesOf(p) \cup {target}
    <3>1. /\ Len(edges[p]) \in Nat
          /\ DOMAIN edges[p] = 1..Len(edges[p])
          /\ DOMAIN Append(edges[p], target) = 1..(Len(edges[p]) + 1)
          /\ \A i \in DOMAIN edges[p] : Append(edges[p], target)[i] = edges[p][i]
          /\ Append(edges[p], target)[Len(edges[p]) + 1] = target
      BY <2>1, AppendProperties, LenProperties
    <3>2. \A i \in DOMAIN Append(edges[p], target) :
             i \in DOMAIN edges[p] \/ i = Len(edges[p]) + 1
      BY <3>1
    <3>3. \A i \in DOMAIN edges[p] : i \in DOMAIN Append(edges[p], target)
      BY <3>1
    <3>4. Len(edges[p]) + 1 \in DOMAIN Append(edges[p], target)
      BY <3>1
    <3> DEFINE longer == Append(edges[p], target)
    <3>5. ASSUME NEW i \in DOMAIN longer
          PROVE  longer[i] \in EdgesOf(p) \cup {target}
      <4>1. CASE i \in DOMAIN edges[p]
        BY <3>1, <4>1 DEF EdgesOf
      <4>2. CASE i = Len(edges[p]) + 1
        BY <3>1, <4>2
      <4> QED
        BY <3>2, <4>1, <4>2
    <3>6. ASSUME NEW x \in EdgesOf(p)
          PROVE  \E i \in DOMAIN longer : longer[i] = x
      <4>1. PICK i \in DOMAIN edges[p] : edges[p][i] = x
        BY DEF EdgesOf
      <4> QED
        BY <3>1, <3>3, <4>1
    <3>7. \E i \in DOMAIN longer : longer[i] = target
      BY <3>1, <3>4
    <3> HIDE DEF longer
    <3>8. {longer[i] : i \in DOMAIN longer} = EdgesOf(p) \cup {target}
      BY <3>5, <3>6, <3>7
    <3> QED
      BY <3>8 DEF longer
  <2>4. EdgesOf(p)' = EdgesOf(p) \cup {target}
    BY <2>2, <2>3 DEF EdgesOf
  <2>5. Unread(p) = Supported(pending) /\ Unread(p)' = Supported(pending')
    BY <1>5 DEF Unread, Steps
  <2> QED
    BY <1>3, <2>4, <2>5
<1> QED
  BY <1>4, <1>5

\* Every step keeps the queue, the edges and the selection in agreement.
LEMMA EdgeStep == IInv /\ EdgeInv /\ [Next]_vars => EdgeInv'
<1> SUFFICES ASSUME IInv, EdgeInv, [Next]_vars PROVE EdgeInv'
  OBVIOUS
<1>0. Steps /\ TypeOK /\ Consistent
  BY WorldStays DEF IInv
<1>1. CASE \/ RejectRoot \/ ReadRoot \/ RefuseEscape \/ PassOver \/ KeepCandidate
          \/ ExceedLimit \/ FinishWalk \/ ReportConflicts \/ ReportCycles
          \/ UNCHANGED vars
  <2>1. walkVars' = walkVars
    BY <1>1 DEF RejectRoot, ReadRoot, RefuseEscape, PassOver, KeepCandidate,
       ExceedLimit, FinishWalk, ReportConflicts, ReportCycles, vars, walkVars
  <2>2. \A p \in Package : QueueFor(p)' /\ EdgesFor(p)'
    BY <1>0, <2>1, EdgesStay DEF EdgeInv, walkVars, Unread, Steps
  <2>3. phase' \in {"read", "discover"} => queue' = <<>> /\ pending' = <<>>
    BY <1>1, <2>1 DEF EdgeInv, RejectRoot, ReadRoot, RefuseEscape, PassOver,
       KeepCandidate, ExceedLimit, FinishWalk, ReportConflicts, ReportCycles,
       vars, walkVars, Discovering
  <2>4. Walked' /\ ~LimitReported' => queue' = <<>> /\ pending' = <<>>
    BY <1>1, <2>1 DEF EdgeInv, RejectRoot, ReadRoot, RefuseEscape, PassOver,
       KeepCandidate, ExceedLimit, FinishWalk, ReportConflicts, ReportCycles,
       vars, walkVars, Discovering, Walked, LimitReported, BetweenPackages, Report
  <2> QED
    BY <2>2, <2>3, <2>4 DEF EdgeInv
<1>2. CASE StartWalk
  <2>1. queue' = <<0>> /\ selected' = [selected EXCEPT ![Root] = 0] /\ phase' = "walk"
    BY <1>2 DEF StartWalk
  <2>2. /\ selected = [p \in Package |-> NoEntry]
        /\ Root \in Package /\ entry[0].identity = Root
    BY <1>0, <1>2, RootAssumption, WorldEntries DEF Consistent, StartWalk, TypeOK
  <2>3. selected'[Root] = 0 /\ \A p \in Package \ {Root} : selected'[p] = NoEntry
    BY <2>1, <2>2
  <2>4. \A p \in Package : Queued(p)' = IF p = Root THEN {1} ELSE {}
    BY <1>0, <2>1, <2>2 DEF Queued, Steps
  <2>5. \A p \in Package : QueueFor(p)' /\ EdgesFor(p)'
    BY <2>1, <2>3, <2>4 DEF QueueFor, EdgesFor
  <2> QED
    BY <2>1, <2>5 DEF EdgeInv, Walked
<1>3. CASE WalkPackage
  <2>1. /\ queue \in Seq(DOMAIN entry) /\ queue # <<>>
        /\ queue' = Tail(queue) /\ current' = Head(queue)
        /\ pending = <<>> /\ pending' = entry[Head(queue)].imports
        /\ edges' = [edges EXCEPT ![entry[Head(queue)].identity] = <<>>]
        /\ selected' = selected /\ phase' = "walk"
    BY <1>0, <1>3 DEF WalkPackage, TypeOK, BetweenPackages
  <2>2. /\ Len(queue) \in Nat /\ Len(queue) >= 1 /\ DOMAIN queue = 1..Len(queue)
        /\ DOMAIN queue' = 1..(Len(queue) - 1)
        /\ Head(queue) = queue[1]
        /\ \A i \in 1..(Len(queue) - 1) : queue'[i] = queue[i + 1]
    BY <2>1, HeadTailProperties, LenProperties, EmptySeq
  <2> SUFFICES ASSUME NEW p \in Package PROVE QueueFor(p)' /\ EdgesFor(p)'
    BY <2>1 DEF EdgeInv, Walked
  <2>3. QueueFor(p) /\ EdgesFor(p)
    BY DEF EdgeInv
  <2>4. \A i \in Queued(p)' : i \in Nat /\ i + 1 \in Queued(p)
    BY <1>0, <2>2 DEF Queued, Steps
  <2>5. \A j \in Queued(p) : j = 1 \/ j - 1 \in Queued(p)'
    BY <1>0, <2>2 DEF Queued, Steps
  <2>6. \A j \in Queued(p) : j \in Nat /\ j >= 1
    BY <2>2 DEF Queued
  <2>7. QueueFor(p)'
    <3> SUFFICES ASSUME NEW i \in Queued(p)', \A j \in Queued(p)' : j <= i
                 PROVE  queue'[i] = selected[p]
      BY <2>1 DEF QueueFor
    <3>1. \A j \in Queued(p) : j <= i + 1
      BY <2>4, <2>5, <2>6
    <3>2. queue[i + 1] = selected[p]
      BY <2>3, <2>4, <3>1 DEF QueueFor
    <3>3. i \in 1..(Len(queue) - 1)
      BY <2>2 DEF Queued
    <3> QED
      BY <2>2, <3>2, <3>3
  <2>8. EdgesFor(p)'
    <3> SUFFICES ASSUME selected[p] # NoEntry, Queued(p)' = {}
                 PROVE  EdgesOf(p)' \cup Unread(p)' = Supported(entry[selected[p]].imports)
      BY <1>0, <2>1 DEF EdgesFor, Steps
    <3>1. CASE p = entry[queue[1]].identity
      <4>1. 1 \in Queued(p) /\ \A j \in Queued(p) : j <= 1
        BY <2>2, <2>5, <3>1 DEF Queued
      <4>2. queue[1] = selected[p]
        BY <2>3, <4>1 DEF QueueFor
      <4>3. edges'[p] = <<>>
        BY <1>0, <2>1, <2>2, <3>1 DEF TypeOK
      <4>4. EdgesOf(p)' = {}
        <5> DEFINE row == edges'[p]
        <5>1. row = <<>>
          BY <4>3
        <5> HIDE DEF row
        <5>2. DOMAIN row = {}
          BY <5>1
        <5>3. {row[i] : i \in DOMAIN row} = {}
          BY <5>2, Zenon
        <5> QED
          BY <5>3, Zenon DEF EdgesOf, row
      <4>5. Unread(p)' = Supported(entry[selected[p]].imports)
        BY <1>0, <2>1, <2>2, <3>1, <4>2 DEF Unread, Steps
      <4> QED
        BY <4>4, <4>5
    <3>2. CASE p # entry[queue[1]].identity
      <4>1. Queued(p) = {}
        BY <2>5, <3>2 DEF Queued
      <4>2. EdgesOf(p) \cup Unread(p) = Supported(entry[selected[p]].imports)
        BY <2>3, <4>1 DEF EdgesFor
      <4>3. Unread(p) = {} /\ Unread(p)' = {}
        BY <1>0, <2>1, <2>2, <3>2, NoImports DEF Unread, Steps
      <4>4. edges'[p] = edges[p]
        BY <1>0, <2>1, <2>2, <3>2 DEF TypeOK
      <4> QED
        BY <4>2, <4>3, <4>4 DEF EdgesOf
    <3> QED
      BY <3>1, <3>2
  <2> QED
    BY <2>7, <2>8
<1>4. CASE RefuseConstraint
  <2>1. /\ pending \in Seq(Import) /\ pending # <<>> /\ pending' = Tail(pending)
        /\ Head(pending).constraint = Unsupported /\ phase' = "walk"
        /\ queue' = queue /\ selected' = selected /\ edges' = edges
        /\ current' = current
    BY <1>0, <1>4 DEF RefuseConstraint, Importing, TypeOK
  <2>2. \A p \in Package : Unread(p)' = Unread(p)
    BY <1>0, <2>1, SupportedHead DEF Unread, Steps
  <2>3. \A p \in Package : QueueFor(p)' /\ EdgesFor(p)'
    BY <1>0, <2>1, <2>2, EdgesStay DEF EdgeInv
  <2> QED
    BY <2>1, <2>3 DEF EdgeInv, Walked
<1>5. CASE MissImport \/ LeaveUnsatisfied \/ LeaveConflicting \/ KeepImport
  <2>1. /\ Importing /\ RecordImport(Head(pending))
        /\ queue' = queue /\ selected' = selected /\ current' = current
        /\ phase' = "walk"
    BY <1>5 DEF MissImport, LeaveUnsatisfied, LeaveConflicting, KeepImport, Importing
  <2>2. \A p \in Package : (EdgesOf(p) \cup Unread(p))' = EdgesOf(p) \cup Unread(p)
    BY <1>0, <2>1, RecordMoves
  <2>3. \A p \in Package : QueueFor(p)' /\ EdgesFor(p)'
    BY <1>0, <2>1, <2>2 DEF EdgeInv, QueueFor, EdgesFor, Queued, Steps
  <2> QED
    BY <2>1, <2>3 DEF EdgeInv, Walked
<1>6. CASE SelectImport
  <2> DEFINE target == Head(pending).target
             chosen == Chosen(Head(pending))
  <2>1. /\ Importing /\ RecordImport(Head(pending))
        /\ queue' = Append(queue, chosen) /\ current' = current
        /\ selected' = [selected EXCEPT ![target] = chosen]
        /\ phase' = "walk"
    BY <1>6 DEF SelectImport, Importing
  <2>2. \A p \in Package : (EdgesOf(p) \cup Unread(p))' = EdgesOf(p) \cup Unread(p)
    BY <1>0, <2>1, RecordMoves
  <2>3. chosen \in DOMAIN entry /\ entry[chosen].identity = target
    BY <1>0, <1>6, ChosenMatches DEF SelectImport, TypeOK
  <2>4. target \in Package
    BY <1>0, <2>1, RecordExtends
  <2> HIDE DEF target, chosen
  <2>5. /\ Len(queue) \in Nat /\ DOMAIN queue = 1..Len(queue)
        /\ DOMAIN queue' = 1..(Len(queue) + 1)
        /\ \A i \in DOMAIN queue : queue'[i] = queue[i]
        /\ queue'[Len(queue) + 1] = chosen
    <3>1. queue \in Seq(DOMAIN entry)
      BY <1>0 DEF TypeOK
    <3> QED
      BY <2>1, <2>3, <3>1, AppendProperties, LenProperties
  <2> SUFFICES ASSUME NEW p \in Package PROVE QueueFor(p)' /\ EdgesFor(p)'
    BY <2>1 DEF EdgeInv, Walked
  <2>6. QueueFor(p) /\ EdgesFor(p)
    BY DEF EdgeInv
  <2>7. CASE p = target
    <3>1. Len(queue) + 1 \in Queued(p)'
      BY <1>0, <2>3, <2>5, <2>7 DEF Queued, Steps
    <3>2. \A i \in Queued(p)' : i \in 1..(Len(queue) + 1)
      BY <2>5 DEF Queued
    <3>3. selected'[p] = chosen
      BY <1>0, <2>1, <2>4, <2>7 DEF TypeOK
    <3>4. QueueFor(p)'
      <4> SUFFICES ASSUME NEW i \in Queued(p)', \A j \in Queued(p)' : j <= i
                   PROVE  queue'[i] = selected'[p]
        BY DEF QueueFor
      <4>1. i = Len(queue) + 1
        BY <2>5, <3>1, <3>2
      <4> QED
        BY <2>5, <3>3, <4>1
    <3> QED
      BY <3>1, <3>4 DEF EdgesFor
  <2>8. CASE p # target
    <3>1. selected'[p] = selected[p]
      BY <1>0, <2>1, <2>8 DEF TypeOK
    <3>2. \A i : i \in Queued(p)' <=> i \in Queued(p)
      BY <1>0, <2>3, <2>5, <2>8 DEF Queued, Steps
    <3>3. \A i \in Queued(p) : queue'[i] = queue[i]
      BY <2>5 DEF Queued
    <3>4. QueueFor(p)'
      BY <2>6, <3>1, <3>2, <3>3 DEF QueueFor
    <3>5. EdgesFor(p)'
      BY <1>0, <2>2, <2>6, <3>1, <3>2 DEF EdgesFor, Steps
    <3> QED
      BY <3>4, <3>5
  <2> QED
    BY <2>7, <2>8
<1> QED
  BY <1>1, <1>2, <1>3, <1>4, <1>5, <1>6 DEF Next, Discover, ReadImport

(***************************************************************************)
(* Once the queue is empty nothing is unread, and the edges are those of   *)
(* the selected manifests.                                                 *)
(***************************************************************************)
LEMMA EdgesFollow == EdgeInv => EdgesAreOfSelection
<1> SUFFICES ASSUME EdgeInv, Walked, ~LimitReported, NEW p \in Selected
             PROVE  EdgesOf(p) = Supported(entry[selected[p]].imports)
  BY DEF EdgesAreOfSelection, EdgesOf
<1>1. queue = <<>> /\ pending = <<>> /\ selected[p] # NoEntry /\ p \in Package
  BY DEF EdgeInv, Selected
<1>2. Queued(p) = {} /\ Unread(p) = {}
  BY <1>1, NoImports DEF Queued, Unread
<1> QED
  BY <1>1, <1>2 DEF EdgeInv, EdgesFor

(***************************************************************************)
(* The edges the cycle check reads are those of the manifests that stayed  *)
(* selected, however often selections were replaced while older ones still *)
(* waited to be walked.                                                    *)
(***************************************************************************)
THEOREM EdgesAreTheSelection == Spec => []EdgesAreOfSelection
<1>1. Init => EdgeInv
  <2> SUFFICES ASSUME Init PROVE EdgeInv
    OBVIOUS
  <2>1. \A p \in Package : Queued(p) = {} /\ selected[p] = NoEntry
    BY DEF Init, Queued
  <2> QED
    BY <2>1 DEF Init, EdgeInv, QueueFor, EdgesFor, Walked
<1> QED
  BY <1>1, EdgesFollow, Invariance, EdgeStep, PTL DEF Spec

(***************************************************************************)
(* All of it: at every step of every resolution the selection is the best  *)
(* one, the conflicts reported are real, and what the checks after the     *)
(* walk read is what was selected.                                         *)
(***************************************************************************)
THEOREM SelectionHolds == Spec => []SelectionIsSound
<1>1. (/\ TypeOK /\ SelectionIsBest /\ ConflictIsReal
       /\ EdgesAreOfSelection /\ LimitIsReported) => SelectionIsSound
  BY DEF SelectionIsSound
<1> QED
  BY TypeCorrect, SelectsBest, ConflictsAreReal, EdgesAreTheSelection,
     LimitsAreReported, <1>1, PTL
----------------------------------------------------------------------------
(***************************************************************************)
(* What a resolution that reports nothing has seen to.  Every import of a  *)
(* manifest that stays selected has recorded its constraint by the time it *)
(* is read; whatever is constrained is selected; and after the check for   *)
(* conflicts every selection satisfies what was recorded on it.  Each of   *)
(* these fails in a resolution that reports something: an import may be    *)
(* refused, missed, or left behind when the limit ends the walk.           *)
(***************************************************************************)
Listed(s) == {s[i] : i \in DOMAIN s}

Recorded(lists, import) ==
    \E i \in DOMAIN lists[import.target] :
        lists[import.target][i].constraint = import.constraint

HeardFor(p) ==
    selected[p] # NoEntry /\ Queued(p) = {} =>
        \A import \in Listed(entry[selected[p]].imports) :
            \/ Recorded(constraints, import)
            \/ entry[current].identity = p /\ import \in Listed(pending)

Settled ==
    /\ \A p \in Package : HeardFor(p)
    /\ \A p \in Package : constraints[p] # <<>> => selected[p] # NoEntry
    /\ phase \in {"cycles", "done"} => \A p \in Package : ~Conflicting(p)
    /\ phase \notin {"read", "discover"} => selected[Root] # NoEntry
    /\ phase # "read" => entry[0].outcome = "readable"

QuietInv ==
    /\ \A e \in candidates : entry[e].outcome = "readable"
    /\ diagnostics = {} => Settled

\* What is listed is the head or in the tail.
LEMMA ListedHead ==
    ASSUME NEW T, NEW s \in Seq(T), s # <<>>
    PROVE  \A x \in Listed(s) : x = Head(s) \/ x \in Listed(Tail(s))
<1>1. /\ Len(s) \in Nat /\ DOMAIN s = 1..Len(s)
      /\ DOMAIN Tail(s) = 1..(Len(s) - 1)
      /\ Head(s) = s[1]
      /\ \A i \in 1..(Len(s) - 1) : Tail(s)[i] = s[i + 1]
  BY HeadTailProperties, LenProperties, EmptySeq
<1> SUFFICES ASSUME NEW i \in DOMAIN s, i # 1
             PROVE  s[i] \in Listed(Tail(s))
  BY <1>1 DEF Listed
<1>2. i - 1 \in DOMAIN Tail(s) /\ Tail(s)[i - 1] = s[i]
  BY <1>1
<1> QED
  BY <1>2 DEF Listed

(***************************************************************************)
(* Reading an import records its constraint and forgets none.              *)
(***************************************************************************)
LEMMA RecordedGrows ==
    ASSUME TypeOK, Importing, RecordImport(Head(pending))
    PROVE  /\ Recorded(constraints', Head(pending))
           /\ \A import \in Import :
                 Recorded(constraints, import) => Recorded(constraints', import)
<1> DEFINE import == Head(pending)
           record == [constraint |-> import.constraint, from |-> current]
           records == [constraint : Constraint, from : DOMAIN entry]
           before == constraints[import.target]
           after == Append(before, record)
<1>1. import \in Import /\ import.constraint \in Constraint /\ import.target \in Package
  <2>1. import \in Import
    BY HeadTailProperties DEF TypeOK, Importing
  <2> QED
    BY <2>1 DEF RecordImport, Import
<1>2. record \in records /\ before \in Seq(records)
  BY <1>1 DEF TypeOK
<1>3. /\ Len(before) \in Nat
      /\ DOMAIN before = 1..Len(before)
      /\ DOMAIN after = 1..(Len(before) + 1)
      /\ \A i \in DOMAIN before : after[i] = before[i]
      /\ after[Len(before) + 1] = record
  <2> HIDE DEF record, records, before
  <2> QED
    BY <1>2, AppendProperties, LenProperties
<1>4. \A i \in DOMAIN before : i \in DOMAIN after /\ after[i] = before[i]
  BY <1>3
<1>5. /\ Len(before) + 1 \in DOMAIN after
      /\ after[Len(before) + 1].constraint = import.constraint
  BY <1>3
<1>6. /\ constraints'[import.target] = after
      /\ \A p \in Package : p # import.target => constraints'[p] = constraints[p]
  BY RecordExtends DEF Extended
<1> HIDE DEF after, before
<1>7. Recorded(constraints', import)
  BY <1>5, <1>6 DEF Recorded
<1>8. ASSUME NEW other \in Import, Recorded(constraints, other)
      PROVE  Recorded(constraints', other)
  <2>1. CASE other.target = import.target
    BY <1>4, <1>6, <1>8, <2>1 DEF Recorded, before
  <2>2. CASE other.target # import.target
    <3>1. other.target \in Package
      BY DEF Import
    <3> QED
      BY <1>6, <1>8, <2>2, <3>1 DEF Recorded
  <2> QED
    BY <2>1, <2>2
<1> QED
  BY <1>7, <1>8
(***************************************************************************)
(* An identity whose selection and queued entries a step leaves alone is   *)
(* heard as before, when no constraint is forgotten and no import leaves   *)
(* the pending ones unrecorded.                                            *)
(***************************************************************************)
LEMMA HeardStays ==
    ASSUME TypeOK, Steps, NEW p \in Package, HeardFor(p),
           selected'[p] = selected[p], Queued(p)' = {} => Queued(p) = {},
           \A import \in Import :
               \/ Recorded(constraints, import)
               \/ entry[current].identity = p /\ import \in Listed(pending)
               => \/ Recorded(constraints', import)
                  \/ entry[current'].identity = p /\ import \in Listed(pending')
    PROVE  HeardFor(p)'
<1> SUFFICES ASSUME selected[p] # NoEntry, Queued(p) = {},
                    NEW import \in Listed(entry[selected[p]].imports)
             PROVE  \/ Recorded(constraints', import)
                    \/ entry[current'].identity = p /\ import \in Listed(pending')
  <2>1. entry' = entry
    BY DEF Steps
  <2> QED
    BY <2>1 DEF HeardFor
<1>1. selected[p] \in DOMAIN entry
  BY DEF TypeOK
<1>2. entry[selected[p]].imports \in Seq(Import)
  BY <1>1, WorldEntries DEF TypeOK, Entry
<1>3. import \in Import
  BY <1>2, LenProperties DEF Listed
<1> QED
  BY <1>3 DEF HeardFor

\* Until something is reported, every step keeps what is settled.
LEMMA QuietStep == IInv /\ EdgeInv /\ QuietInv /\ [Next]_vars => QuietInv'
<1> SUFFICES ASSUME IInv, EdgeInv, QuietInv, [Next]_vars PROVE QuietInv'
  OBVIOUS
<1>0. Steps /\ TypeOK /\ Consistent
  BY WorldStays DEF IInv
<1>1. \A e \in candidates' : entry'[e].outcome = "readable"
  <2>1. \/ candidates' = candidates
        \/ /\ entry[cursor].outcome = "readable"
           /\ candidates' = candidates \cup {cursor}
    BY DEF Next, vars, RejectRoot, ReadRoot, Discover, RefuseEscape,
       PassOver, KeepCandidate, StartWalk, ExceedLimit, WalkPackage, FinishWalk,
       ReadImport, RefuseConstraint, MissImport, LeaveUnsatisfied,
       LeaveConflicting, SelectImport, KeepImport, ReportConflicts,
       ReportCycles
  <2> QED
    BY <1>0, <2>1 DEF QuietInv, Steps
<1> SUFFICES ASSUME diagnostics' = {} PROVE Settled'
  BY <1>1 DEF QuietInv
<1>2. diagnostics = {} /\ Settled
  <2>1. diagnostics \subseteq diagnostics'
    BY DEF Next, vars, RejectRoot, ReadRoot, Discover, RefuseEscape,
       PassOver, KeepCandidate, StartWalk, ExceedLimit, WalkPackage, FinishWalk,
       ReadImport, RefuseConstraint, MissImport, LeaveUnsatisfied,
       LeaveConflicting, SelectImport, KeepImport, ReportConflicts,
       ReportCycles, Report
  <2> QED
    BY <2>1 DEF QuietInv
<1>3. ~RejectRoot /\ ~RefuseEscape /\ ~ExceedLimit
      /\ ~RefuseConstraint /\ ~MissImport /\ ~LeaveUnsatisfied
  BY DEF RejectRoot, RefuseEscape, ExceedLimit, RefuseConstraint, MissImport,
     LeaveUnsatisfied, Report
<1>4. CASE \/ ReadRoot \/ PassOver \/ KeepCandidate \/ FinishWalk
          \/ ReportConflicts \/ ReportCycles \/ UNCHANGED vars
  <2>1. UNCHANGED walkVars
    BY <1>4 DEF ReadRoot, PassOver, KeepCandidate, FinishWalk, ReportConflicts,
       ReportCycles, vars, walkVars
  <2>2. \A p \in Package : HeardFor(p)'
    <3> SUFFICES ASSUME NEW p \in Package PROVE HeardFor(p)'
      OBVIOUS
    <3>1. /\ selected' = selected /\ constraints' = constraints /\ queue' = queue
          /\ current' = current /\ pending' = pending
      BY <2>1 DEF walkVars
    <3>2. Queued(p)' = Queued(p)
      BY <1>0, <3>1 DEF Queued, Steps
    <3>3. HeardFor(p)
      BY <1>2 DEF Settled
    <3> QED
      BY <1>0, <3>1, <3>2, <3>3, HeardStays
  <2>3. (\A p \in Package : constraints[p] # <<>> => selected[p] # NoEntry)'
    BY <1>2, <2>1 DEF Settled, walkVars
  <2>4. phase' \in {"cycles", "done"} => \A p \in Package : ~Conflicting(p)'
    <3> SUFFICES ASSUME phase' \in {"cycles", "done"}, NEW p \in Package
                 PROVE  ~Conflicting(p)
      BY <1>0, <2>1 DEF Conflicting, walkVars, Steps
    <3>1. CASE phase \in {"cycles", "done"}
      BY <1>2, <3>1 DEF Settled
    <3>2. CASE ReportConflicts
      BY <3>2 DEF ReportConflicts
    <3> QED
      BY <1>4, <3>1, <3>2 DEF ReadRoot, PassOver, KeepCandidate, FinishWalk,
         ReportCycles, vars, Discovering
  <2>5. phase' \notin {"read", "discover"} => selected'[Root] # NoEntry
    BY <1>2, <1>4, <2>1 DEF Settled, ReadRoot, PassOver, KeepCandidate, FinishWalk,
       ReportConflicts, ReportCycles, vars, walkVars, Discovering, BetweenPackages
  <2>6. phase' # "read" => entry'[0].outcome = "readable"
    BY <1>0, <1>2, <1>4 DEF Settled, ReadRoot, PassOver, KeepCandidate, FinishWalk,
       ReportConflicts, ReportCycles, vars, Discovering, BetweenPackages, Steps
  <2> QED
    BY <2>2, <2>3, <2>4, <2>5, <2>6 DEF Settled
<1>5. CASE StartWalk
  <2>1. /\ queue' = <<0>> /\ selected' = [selected EXCEPT ![Root] = 0]
        /\ phase = "discover" /\ phase' = "walk" /\ constraints' = constraints
    BY <1>5 DEF StartWalk
  <2>2. /\ selected = [p \in Package |-> NoEntry]
        /\ constraints = [p \in Package |-> <<>>]
        /\ Root \in Package /\ entry[0].identity = Root
    BY <1>0, <2>1, RootAssumption, WorldEntries DEF Consistent, TypeOK
  <2>3. selected'[Root] = 0 /\ \A p \in Package \ {Root} : selected'[p] = NoEntry
    BY <2>1, <2>2
  <2>4. \A p \in Package : Queued(p)' = IF p = Root THEN {1} ELSE {}
    BY <1>0, <2>1, <2>2 DEF Queued, Steps
  <2>5. \A p \in Package : HeardFor(p)'
    BY <2>3, <2>4 DEF HeardFor
  <2>6. selected'[Root] # NoEntry
    BY <2>3, NoEntryAssumption
  <2>7. entry'[0].outcome = "readable"
    BY <1>0, <1>2, <2>1 DEF Settled, Steps
  <2> QED
    BY <2>1, <2>2, <2>5, <2>6, <2>7 DEF Settled
<1>6. CASE WalkPackage
  <2>1. /\ queue \in Seq(DOMAIN entry) /\ queue # <<>>
        /\ queue' = Tail(queue) /\ current' = Head(queue)
        /\ pending = <<>> /\ pending' = entry[Head(queue)].imports
        /\ selected' = selected /\ constraints' = constraints
        /\ phase = "walk" /\ phase' = "walk"
    BY <1>0, <1>6 DEF WalkPackage, TypeOK, BetweenPackages
  <2>2. /\ Len(queue) \in Nat /\ Len(queue) >= 1 /\ DOMAIN queue = 1..Len(queue)
        /\ DOMAIN queue' = 1..(Len(queue) - 1)
        /\ Head(queue) = queue[1]
        /\ \A i \in 1..(Len(queue) - 1) : queue'[i] = queue[i + 1]
    BY <2>1, HeadTailProperties, LenProperties, EmptySeq
  <2>3. ASSUME NEW p \in Package PROVE HeardFor(p)'
    <3>1. QueueFor(p) /\ HeardFor(p)
      BY <1>2 DEF EdgeInv, Settled
    <3>2. \A j \in Queued(p) : j = 1 \/ j - 1 \in Queued(p)'
      BY <1>0, <2>2 DEF Queued, Steps
    <3>3. Listed(pending) = {}
      BY <2>1 DEF Listed
    <3>4. CASE p = entry[queue[1]].identity
      <4> SUFFICES ASSUME Queued(p)' = {}
                   PROVE  Listed(entry[selected[p]].imports) = Listed(pending')
        BY <1>0, <2>1, <2>2, <3>4 DEF HeardFor, Steps, Listed
      <4>1. 1 \in Queued(p) /\ \A j \in Queued(p) : j <= 1
        BY <2>2, <3>2, <3>4 DEF Queued
      <4>2. queue[1] = selected[p]
        BY <3>1, <4>1 DEF QueueFor
      <4> QED
        BY <2>1, <2>2, <4>2
    <3>5. CASE p # entry[queue[1]].identity
      <4>1. Queued(p)' = {} => Queued(p) = {}
        BY <3>2, <3>5 DEF Queued
      <4> QED
        BY <1>0, <2>1, <3>1, <3>3, <4>1, HeardStays
    <3> QED
      BY <3>4, <3>5
  <2> QED
    BY <1>0, <1>2, <2>1, <2>3 DEF Settled, Steps
<1>7. CASE LeaveConflicting \/ SelectImport \/ KeepImport
  <2> DEFINE target == Head(pending).target
  <2>1. /\ Importing /\ RecordImport(Head(pending)) /\ current' = current
        /\ phase = "walk" /\ phase' = "walk"
    BY <1>7 DEF LeaveConflicting, SelectImport, KeepImport, Importing
  <2>2. /\ target \in Package
        /\ \A p \in Package : p # target => constraints'[p] = constraints[p]
        /\ constraints'[target] = Extended(Head(pending))
    BY <1>0, <2>1, RecordExtends
  <2>3. \A import \in Import :
           \/ Recorded(constraints, import) \/ import \in Listed(pending)
           => Recorded(constraints', import) \/ import \in Listed(pending')
    <3>1. \A import \in Listed(pending) :
             import = Head(pending) \/ import \in Listed(pending')
      BY <1>0, <2>1, ListedHead DEF TypeOK, Importing, RecordImport
    <3> QED
      BY <1>0, <2>1, <3>1, RecordedGrows
  <2>4. \A p \in Package :
           \/ /\ p # target \/ ~SelectImport
              /\ selected'[p] = selected[p]
              /\ Queued(p)' = {} => Queued(p) = {}
           \/ p = target /\ Queued(p)' # {} /\ selected'[p] # NoEntry
    <3>1. CASE LeaveConflicting \/ KeepImport
      <4>1. ~SelectImport
        BY <3>1 DEF LeaveConflicting, KeepImport, SelectImport
      <4>2. selected' = selected /\ queue' = queue
        BY <3>1 DEF LeaveConflicting, KeepImport
      <4>3. \A p \in Package : Queued(p)' = Queued(p)
        BY <1>0, <4>2 DEF Queued, Steps
      <4> QED
        BY <4>1, <4>2, <4>3
    <3>2. CASE SelectImport
      <4> DEFINE chosen == Chosen(Head(pending))
      <4>1. queue' = Append(queue, chosen) /\ selected' = [selected EXCEPT ![target] = chosen]
        BY <3>2 DEF SelectImport
      <4>2. chosen \in DOMAIN entry /\ entry[chosen].identity = target
        BY <1>0, <3>2, ChosenMatches DEF SelectImport, TypeOK
      <4>3. chosen # NoEntry
        BY <1>0, <4>2, WorldEntries, NoEntryAssumption DEF TypeOK
      <4> HIDE DEF chosen, target
      <4>4. /\ Len(queue) \in Nat /\ DOMAIN queue = 1..Len(queue)
            /\ DOMAIN queue' = 1..(Len(queue) + 1)
            /\ \A i \in DOMAIN queue : queue'[i] = queue[i]
            /\ queue'[Len(queue) + 1] = chosen
        <5>1. queue \in Seq(DOMAIN entry)
          BY <1>0 DEF TypeOK
        <5> QED
          BY <4>1, <4>2, <5>1, AppendProperties, LenProperties
      <4>5. ASSUME NEW p \in Package, p # target
            PROVE  selected'[p] = selected[p] /\ (Queued(p)' = {} => Queued(p) = {})
        <5>1. selected'[p] = selected[p]
          BY <1>0, <4>1, <4>5 DEF TypeOK
        <5>2. \A i \in Queued(p) : i \in Queued(p)'
          BY <1>0, <4>4 DEF Queued, Steps
        <5> QED
          BY <5>1, <5>2
      <4>6. ASSUME NEW p \in Package, p = target
            PROVE  Queued(p)' # {} /\ selected'[p] # NoEntry
        <5>1. Len(queue) + 1 \in DOMAIN queue' /\ entry'[queue'[Len(queue) + 1]].identity = p
          BY <1>0, <4>2, <4>4, <4>6 DEF Steps
        <5>2. selected'[p] = chosen
          BY <1>0, <4>1, <4>6 DEF TypeOK
        <5> QED
          BY <4>3, <5>1, <5>2 DEF Queued
      <4> QED
        BY <4>5, <4>6
    <3> QED
      BY <1>7, <3>1, <3>2
  <2>5. ASSUME NEW p \in Package PROVE HeardFor(p)'
    <3>1. HeardFor(p)
      BY <1>2 DEF Settled
    <3>2. CASE Queued(p)' # {}
      BY <3>2 DEF HeardFor
    <3>3. CASE Queued(p)' = {}
      <4>1. selected'[p] = selected[p] /\ (Queued(p)' = {} => Queued(p) = {})
        BY <2>4, <3>3
      <4>2. \A import \in Import :
               \/ Recorded(constraints, import)
               \/ entry[current].identity = p /\ import \in Listed(pending)
               => \/ Recorded(constraints', import)
                  \/ entry[current'].identity = p /\ import \in Listed(pending')
        BY <1>0, <2>1, <2>3, RecordedGrows
      <4> QED
        BY <1>0, <3>1, <4>1, <4>2, HeardStays
    <3> QED
      BY <3>2, <3>3
  <2>6. ASSUME NEW p \in Package, constraints'[p] # <<>>
        PROVE  selected'[p] # NoEntry
    <3>1. constraints[p] # <<>> => selected[p] # NoEntry
      BY <1>2 DEF Settled
    <3>2. CASE selected[p] # NoEntry
      BY <2>4, <3>2
    <3>3. CASE constraints[p] = <<>>
      <4>1. p = target
        BY <2>2, <2>6, <3>3
      <4>2. CASE SelectImport
        BY <2>4, <4>1, <4>2
      <4>4. CASE KeepImport
        <5>1. selected[target] # NoEntry /\ selected' = selected
          BY <4>4 DEF KeepImport, Moves
        <5> QED
          BY <4>1, <5>1
      <4>3. CASE LeaveConflicting
        <5>1. /\ MatchingAlone(Head(pending)) # {}
              /\ Matching(target, Extended(Head(pending))) = {}
          BY <4>3 DEF LeaveConflicting
        <5>2. Extended(Head(pending)) =
                 <<[constraint |-> Head(pending).constraint, from |-> current]>>
          <6>1. Extended(Head(pending)) =
                   Append(<<>>, [constraint |-> Head(pending).constraint, from |-> current])
            BY <3>3, <4>1 DEF Extended
          <6> DEFINE record == [constraint |-> Head(pending).constraint, from |-> current]
          <6> HIDE DEF record
          <6>2. Append(<<>>, record) = <<record>>
            OBVIOUS
          <6> QED
            BY <6>1, <6>2 DEF record
        <5>3. MatchingAlone(Head(pending)) \subseteq Matching(target, Extended(Head(pending)))
          BY <5>2 DEF MatchingAlone, Matching
        <5> QED
          BY <5>1, <5>3
      <4> QED
        BY <1>7, <4>2, <4>3, <4>4
    <3> QED
      BY <3>1, <3>2, <3>3
  <2>7. selected'[Root] # NoEntry
    BY <1>2, <2>1, <2>4, RootAssumption DEF Settled
  <2> QED
    BY <1>0, <1>2, <2>1, <2>5, <2>6, <2>7 DEF Settled, Steps
<1> QED
  BY <1>3, <1>4, <1>5, <1>6, <1>7 DEF Next, Discover, ReadImport
\* The invariant of the refinement: what the theorems above keep, and what is
\* settled while nothing is reported.
GraphInv == IInv /\ EdgeInv /\ LimitInv /\ QuietInv

(***************************************************************************)
(* What is delivered is what the contract asks for: the root is in it,     *)
(* every import of every package is answered by the one selected version   *)
(* of its target, and the graph is acyclic and bounded.                    *)
(***************************************************************************)
LEMMA DeliveredIsSound ==
    ASSUME GraphInv, diagnostics = {}, phase = "cycles", ~Cyclic
    PROVE  Contract!Sound(selected) /\ Contract!Bounded(selected)
<1>0. /\ TypeOK /\ Consistent /\ Settled
      /\ \A e \in candidates : entry[e].outcome = "readable"
      /\ Walked /\ ~LimitReported /\ EdgeInv /\ EdgesAreOfSelection
      /\ WithinLimit
  BY EdgesFollow DEF GraphInv, IInv, LimitInv, QuietInv, Walked, LimitReported
<1>1. Contract!InGraph(selected) = Selected /\ Contract!entry = entry
  BY DEF Contract!InGraph, Selected, Contract!entry, entry
<1>2. Root \in Selected
  BY <1>0, RootAssumption DEF Settled, Selected
<1>3. ASSUME NEW p \in Selected
      PROVE  /\ p \in Package /\ selected[p] # NoEntry /\ selected[p] \in DOMAIN entry
             /\ entry[selected[p]].identity = p
             /\ entry[selected[p]].outcome = "readable"
             /\ entry[selected[p]].imports \in Seq(Import)
  <2>1. p \in Package /\ selected[p] # NoEntry
    BY DEF Selected
  <2>2. selected[p] \in DOMAIN entry
    BY <1>0, <2>1 DEF TypeOK
  <2>3. /\ entry[selected[p]].identity = p
        /\ selected[p] \in candidates \cup {0}
    BY <1>0, <2>1 DEF Consistent
  <2>4. entry[selected[p]].outcome = "readable"
    <3>1. entry[0].outcome = "readable"
      BY <1>0 DEF Settled
    <3>2. CASE selected[p] = 0
      BY <3>1, <3>2
    <3>3. \A e \in candidates : entry[e].outcome = "readable"
      BY <1>0
    <3> HIDE DEF entry
    <3>4. CASE selected[p] \in candidates
      BY <3>3, <3>4
    <3> QED
      BY <2>3, <3>2, <3>4
  <2> QED
    BY <1>0, <2>1, <2>2, <2>3, <2>4, WorldEntries DEF TypeOK, Entry
<1>4. ASSUME NEW p \in Selected, NEW i \in DOMAIN entry[selected[p]].imports
      PROVE  Contract!Answered(selected, entry[selected[p]].imports[i])
  <2> DEFINE import == entry[selected[p]].imports[i]
  <2>1. import \in Import
    BY <1>3, LenProperties
  <2>2. queue = <<>> /\ pending = <<>>
    BY <1>0 DEF EdgeInv
  <2>3. Queued(p) = {} /\ Listed(pending) = {}
    BY <2>2, NothingListed DEF Queued, Listed
  <2>4. Recorded(constraints, import)
    <3>1. HeardFor(p)
      BY <1>0, <1>3 DEF Settled
    <3>2. import \in Listed(entry[selected[p]].imports)
      BY DEF Listed
    <3> HIDE DEF import
    <3> QED
      BY <1>3, <2>3, <3>1, <3>2 DEF HeardFor
  <2>5. PICK j \in DOMAIN constraints[import.target] :
           constraints[import.target][j].constraint = import.constraint
    BY <2>4, Zenon DEF Recorded
  <2>6. import.target \in Package
    BY <2>1 DEF Import
  <2>7. import.constraint \in Constraint
    <3> DEFINE records == [constraint : Constraint, from : DOMAIN entry]
               list == constraints[import.target]
    <3>1. list \in Seq(records) /\ j \in DOMAIN list
      BY <1>0, <2>5, <2>6 DEF TypeOK
    <3> HIDE DEF records, list
    <3>2. list[j] \in records
      BY <3>1, LenProperties
    <3> QED
      BY <2>5, <3>2 DEF records, list
  <2>8. selected[import.target] # NoEntry
    <3>1. constraints[import.target] # <<>>
      BY <2>5, NothingListed
    <3> HIDE DEF import
    <3> QED
      BY <1>0, <2>6, <3>1 DEF Settled
  <2>9. Satisfies(entry[selected[import.target]].version, import.constraint)
    BY <1>0, <2>5, <2>6, <2>8 DEF Settled, Conflicting
  <2> HIDE DEF import
  <2> QED
    BY <1>1, <2>6, <2>7, <2>8, <2>9, UnsupportedAssumption
       DEF Contract!Answered, Selected, import
<1>5. Contract!Closed(selected)
  BY <1>1, <1>4 DEF Contract!Closed
<1>6. Contract!Acyclic(selected)
  <2> SUFFICES ASSUME NEW C \in (SUBSET Selected) \ {{}},
                      \A p \in C : \E q \in C : Contract!Imports(selected, p, q)
               PROVE  Cyclic
    BY <1>1 DEF Contract!Acyclic
  <2>1. ASSUME NEW p \in C PROVE \E q \in C : Arrow(p, q)
    <3>1. PICK q \in C : Contract!Imports(selected, p, q)
      OBVIOUS
    <3>2. PICK i \in DOMAIN entry[selected[p]].imports :
             entry[selected[p]].imports[i].target = q
      BY <1>1, <3>1 DEF Contract!Imports
    <3>3. entry[selected[p]].imports[i].constraint # Unsupported
      BY <1>4, <3>2 DEF Contract!Answered
    <3>4. q \in Supported(entry[selected[p]].imports)
      BY <3>2, <3>3 DEF Supported
    <3>5. q \in {edges[p][k] : k \in DOMAIN edges[p]}
      BY <1>0, <3>4 DEF EdgesAreOfSelection
    <3> QED
      BY <3>5 DEF Arrow
  <2>2. C \in (SUBSET Package) \ {{}}
    BY DEF Selected
  <2> QED
    BY <2>1, <2>2 DEF Cyclic
<1>7. Contract!Sound(selected)
  BY <1>1, <1>2, <1>3, <1>5, <1>6 DEF Contract!Sound
<1>8. Contract!Bounded(selected)
  <2>1. \A S : Contract!Cardinality(S) = Cardinality(S)
    BY DEF Cardinality, Contract!Cardinality
  <2> QED
    BY <1>0, <1>1, <2>1 DEF WithinLimit, Contract!Bounded
<1> QED
  BY <1>7, <1>8
\* A resolution starts within it and no step leaves it.
LEMMA GraphStays == (Init => GraphInv) /\ (GraphInv /\ [Next]_vars => GraphInv')
<1>1. Init => GraphInv
  <2> SUFFICES ASSUME Init PROVE EdgeInv /\ LimitInv /\ QuietInv
    BY InitIInv DEF GraphInv
  <2>1. \A p \in Package : /\ Queued(p) = {} /\ selected[p] = NoEntry
                           /\ constraints[p] = <<>>
    BY DEF Init, Queued
  <2>2. EdgeInv /\ LimitInv
    BY <2>1 DEF Init, EdgeInv, LimitInv, QueueFor, EdgesFor, Walked
  <2> QED
    BY <2>1, <2>2 DEF Init, QuietInv, Settled, HeardFor
<1>2. GraphInv /\ [Next]_vars => GraphInv'
  <2>1. IInv /\ [Next]_vars => IInv'
    BY TypeStep, ConsistentStep, BestStep, ConflictStep DEF IInv
  <2> QED
    BY <2>1, EdgeStep, LimitStep, QuietStep DEF GraphInv, IInv
<1> QED
  BY <1>1, <1>2

\* What is done stays done.
LEMMA DoneStays ==
    ASSUME TypeOK, phase = "done", [Next]_vars
    PROVE  phase' = phase /\ diagnostics' = diagnostics /\ selected' = selected
BY DEF Next, vars, RejectRoot, ReadRoot, Discover, RefuseEscape, PassOver,
   KeepCandidate, StartWalk, ExceedLimit, WalkPackage, FinishWalk, ReadImport,
   RefuseConstraint, MissImport, LeaveUnsatisfied, LeaveConflicting,
   SelectImport, KeepImport, ReportConflicts, ReportCycles, Discovering,
   BetweenPackages, Importing, walkVars

\* A resolution ends by refusing its root or by the check for cycles.
LEMMA DoneComes ==
    ASSUME TypeOK, phase # "done", phase' = "done", [Next]_vars
    PROVE  RejectRoot \/ ReportCycles
BY DEF Next, vars, ReadRoot, Discover, RefuseEscape, PassOver,
   KeepCandidate, StartWalk, ExceedLimit, WalkPackage, FinishWalk, ReadImport,
   RefuseConstraint, MissImport, LeaveUnsatisfied, LeaveConflicting,
   SelectImport, KeepImport, ReportConflicts, Discovering,
   BetweenPackages, Importing

(***************************************************************************)
(* resolvePackageGraph implements its contract for every set of packages,  *)
(* versions, constraints, limits and worlds: it ends refused with a        *)
(* diagnostic, or delivers a graph in which every import is answered by    *)
(* the one version selected, whatever was selected and replaced on the     *)
(* way.                                                                    *)
(***************************************************************************)
THEOREM Refines == Spec => ImplementsContract
<1> DEFINE status == CASE Resolved -> "resolved"
                       [] phase = "done" /\ ~Resolved -> "refused"
                       [] OTHER -> "pending"
           graph == IF Resolved THEN selected ELSE [p \in Package |-> NoEntry]
<1>1. Init => Contract!Init
  BY DEF Init, Contract!Init, Contract!Nothing, Resolved
<1>2. GraphInv /\ [Next]_vars => [Contract!Next]_(Contract!vars)
  <2> SUFFICES ASSUME GraphInv, [Next]_vars
               PROVE  \/ Contract!Next
                      \/ world' = world /\ status' = status /\ graph' = graph
    BY DEF Contract!vars
  <2>0. world' = world /\ TypeOK
    BY WorldStays DEF Steps, GraphInv, IInv
  <2>1. CASE phase = "done"
    BY <2>0, <2>1, DoneStays DEF Resolved
  <2>2. CASE phase # "done" /\ phase' # "done"
    BY <2>0, <2>2 DEF Resolved
  <2>3. CASE phase # "done" /\ phase' = "done" /\ diagnostics' # {}
    <3>1. status = "pending" /\ status' = "refused" /\ graph' = graph
      BY <2>3 DEF Resolved
    <3> QED
      BY <2>0, <3>1 DEF Contract!Next, Contract!Refuse
  <2>4. CASE phase # "done" /\ phase' = "done" /\ diagnostics' = {}
    <3>1. /\ status = "pending" /\ status' = "resolved" /\ graph' = selected'
      BY <2>4 DEF Resolved
    <3>2. ReportCycles
      BY <2>0, <2>4, DoneComes DEF RejectRoot, Report
    <3>3. /\ phase = "cycles" /\ diagnostics = {} /\ ~Cyclic
          /\ selected' = selected
      BY <2>4, <3>2 DEF ReportCycles, Report, walkVars
    <3>4. Contract!Sound(selected) /\ Contract!Bounded(selected)
      BY <3>3, DeliveredIsSound
    <3>5. selected \in [Package -> DOMAIN Contract!entry \cup {NoEntry}]
      BY <2>0 DEF TypeOK, Contract!entry, entry
    <3>6. graph' = selected
      BY <3>1, <3>3
    <3> HIDE DEF graph, status
    <3>7. Contract!Sound(graph') /\ Contract!Bounded(graph')
      BY <3>4, <3>6
    <3>8. graph' \in [Package -> DOMAIN Contract!entry \cup {NoEntry}]
      BY <3>5, <3>6
    <3> QED
      BY <2>0, <3>1, <3>7, <3>8 DEF Contract!Next, Contract!Deliver, graph, status
  <2> QED
    BY <2>1, <2>2, <2>3, <2>4
<1> QED
  BY <1>1, <1>2, GraphStays, PTL DEF Spec, ImplementsContract, Contract!Spec
=============================================================================
