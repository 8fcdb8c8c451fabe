--------------------------- MODULE OwnerPassProofs ---------------------------
(***************************************************************************)
(* Proofs about the owner pass, for every bundle.  The pass is not monotone*)
(* (an artifact with an owner too many is refused even if the other owner  *)
(* goes in the same round), so what it keeps is characterised from both    *)
(* sides: it needs nothing refused, and nothing that could do without the  *)
(* rest is refused.                                                        *)
(***************************************************************************)
EXTENDS OwnerPass, TLAPS

\* The last round has found nothing to refuse.
Settled == done => Broken(bundle, pending, refused) = {}

\* The first round gives each artifact it keeps the only owner the bundle has
\* for it, if any; later rounds find the same owner or none, and change nothing.
Assigned ==
    \A i \in pending :
      /\ ~TakesOwner(bundle, i) => owner[i] = bundle[i].modelled
      /\ TakesOwner(bundle, i) =>
           \/ /\ owner[i] = Found(bundle, Artifacts, i)
              /\ \A o, p \in owner[i] : o = p
           \/ pending = Artifacts /\ ~done /\ owner[i] = {}

IInv == TypeOK /\ Partition /\ Settled /\ Assigned /\ RefusalsAreNeeded

(***************************************************************************)
(* With fewer artifacts pending an artifact has the owners that are left.  *)
(***************************************************************************)
LEMMA FoundAmong ==
    ASSUME NEW b, NEW P, NEW Q, Q \subseteq P, NEW i
    PROVE  Found(b, Q, i) = Found(b, P, i) \cap Q
BY DEF Found

LEMMA OperationsGrow ==
    ASSUME NEW b, NEW P, NEW Q, Q \subseteq P
    PROVE  Operations(b, Q) \subseteq Operations(b, P)
BY DEF Operations

(***************************************************************************)
(* An artifact of a supported set of pending artifacts breaks no rule.     *)
(***************************************************************************)
LEMMA SupportedIsKept ==
    ASSUME IInv, NEW S \in SUBSET Artifacts, Supported(bundle, S), NEW i \in S
    PROVE  ~Breaks(bundle, pending, refused, i)
<1>1. S \subseteq pending /\ pending \subseteq Artifacts
  BY DEF IInv, RefusalsAreNeeded, TypeOK
<1>2. bundle[i].targets \cap refused = {}
  <2>1. refused \subseteq Lost \cup (Artifacts \ S)
    BY <1>1 DEF IInv, Partition
  <2> QED
    BY <2>1 DEF Supported
<1>3. ~NamesNothing(bundle, pending, i)
  BY <1>1, OperationsGrow DEF Supported, NamesNothing
<1>4. ~OwnerBroken(bundle, pending, i)
  <2> SUFFICES ASSUME TakesOwner(bundle, i)
               PROVE  \/ HasOneOwner(bundle, pending, i)
                      \/ bundle[i].owned = "optional" /\ Found(bundle, pending, i) = {}
    BY DEF OwnerBroken
  <2>1. Found(bundle, pending, i) = Found(bundle, Artifacts, i) \cap pending
    BY <1>1, FoundAmong
  <2>2. CASE \E o \in S : Found(bundle, Artifacts, i) = {o}
    <3>1. PICK o \in S : Found(bundle, Artifacts, i) = {o}
      BY <2>2
    <3>2. Found(bundle, pending, i) = {o}
      BY <1>1, <2>1, <3>1
    <3> QED
      BY <1>1, <3>2 DEF HasOneOwner
  <2>3. CASE bundle[i].owned = "optional" /\ Found(bundle, Artifacts, i) = {}
    BY <2>1, <2>3
  <2> QED
    BY <2>2, <2>3 DEF Supported
<1> QED
  BY <1>2, <1>3, <1>4 DEF Breaks

LEMMA InitInv == Init => IInv
<1> SUFFICES ASSUME Init PROVE IInv
  OBVIOUS
<1>1. TypeOK
  BY DEF Init, TypeOK
<1>2. Partition
  BY LostAssumption DEF Init, Partition
<1>3. Settled /\ RefusalsAreNeeded
  BY DEF Init, Settled, RefusalsAreNeeded
<1>4. Assigned
  BY DEF Init, Assigned, TakesOwner
<1> QED
  BY <1>1, <1>2, <1>3, <1>4 DEF IInv

(***************************************************************************)
(* What a round leaves of the owners: the artifacts it keeps have the only *)
(* owner of the bundle, or none.                                           *)
(***************************************************************************)
LEMMA RoundAssigns ==
    ASSUME IInv, Round, NEW i \in pending', TakesOwner(bundle, i)
    PROVE  /\ owner'[i] = Found(bundle, Artifacts, i)
           /\ \A o, p \in owner'[i] : o = p
<1> DEFINE broken == Broken(bundle, pending, refused)
<1>1. i \in pending \ broken /\ i \in Artifacts
  BY DEF Round, IInv, TypeOK
<1>2. \/ HasOneOwner(bundle, pending, i)
      \/ Found(bundle, pending, i) = {}
  BY <1>1 DEF Broken, Breaks, OwnerBroken
<1>3. owner'[i] = IF HasOneOwner(bundle, pending, i) THEN Found(bundle, pending, i) ELSE owner[i]
  BY <1>1 DEF Round
<1>4. Found(bundle, pending, i) = Found(bundle, Artifacts, i) \cap pending
  BY FoundAmong DEF IInv, TypeOK
<1>5. CASE /\ owner[i] = Found(bundle, Artifacts, i)
           /\ \A o, p \in owner[i] : o = p
  <2>1. CASE HasOneOwner(bundle, pending, i)
    <3>1. PICK o \in pending : Found(bundle, pending, i) = {o}
      BY <2>1 DEF HasOneOwner
    <3>2. o \in Found(bundle, Artifacts, i)
      BY <3>1, <1>4
    <3>3. Found(bundle, Artifacts, i) = {o}
      BY <3>2, <1>5
    <3> QED
      BY <2>1, <1>3, <3>1, <3>3
  <2>2. CASE ~HasOneOwner(bundle, pending, i)
    BY <2>2, <1>3, <1>5
  <2> QED
    BY <2>1, <2>2
<1>6. CASE pending = Artifacts /\ owner[i] = {}
  <2>1. CASE HasOneOwner(bundle, pending, i)
    BY <2>1, <1>6, <1>3 DEF HasOneOwner
  <2>2. CASE ~HasOneOwner(bundle, pending, i)
    BY <2>2, <1>2, <1>3, <1>6
  <2> QED
    BY <2>1, <2>2
<1> QED
  BY <1>1, <1>5, <1>6 DEF IInv, Assigned

LEMMA NextInv == IInv /\ [Next]_vars => IInv'
<1> SUFFICES ASSUME IInv, [Next]_vars PROVE IInv'
  OBVIOUS
<1>1. CASE Round
  <2> DEFINE broken == Broken(bundle, pending, refused)
  <2>0. /\ pending' = pending \ broken
        /\ refused' = refused \cup broken
        /\ done' = (broken = {})
        /\ bundle' = bundle
        /\ broken \subseteq pending
    BY <1>1 DEF Round, Broken
  <2>1. TypeOK'
    <3>1. \A i \in Artifacts : Found(bundle, pending, i) \subseteq Artifacts
      BY DEF IInv, TypeOK, Found
    <3>2. owner' \in [Artifacts -> SUBSET ((UNION {bundle[i].modelled : i \in Artifacts}) \cup Artifacts)]
      <4>1. \A i \in Artifacts : owner'[i] \in SUBSET ((UNION {bundle[k].modelled : k \in Artifacts}) \cup Artifacts)
        <5> SUFFICES ASSUME NEW i \in Artifacts
                     PROVE  owner'[i] \in SUBSET ((UNION {bundle[k].modelled : k \in Artifacts}) \cup Artifacts)
          OBVIOUS
        <5>1. owner'[i] = Found(bundle, pending, i) \/ owner'[i] = owner[i]
          BY <1>1 DEF Round
        <5>2. owner[i] \in SUBSET ((UNION {bundle[k].modelled : k \in Artifacts}) \cup Artifacts)
          BY DEF IInv, TypeOK
        <5> DEFINE M == UNION {bundle[k].modelled : k \in Artifacts}
        <5> HIDE DEF M
        <5>3. Found(bundle, pending, i) \in SUBSET (M \cup Artifacts)
          BY <3>1
        <5> QED
          BY <5>1, <5>2, <5>3 DEF M
      <4>2. owner' = [i \in Artifacts |-> owner'[i]]
        BY <1>1 DEF Round
      <4> QED
        BY <4>1, <4>2
    <3>3. done' \in BOOLEAN
      BY <2>0
    <3>4. pending' \subseteq Artifacts /\ refused' \subseteq Artifacts \cup Lost /\ bundle' \in Bundles
      BY <2>0 DEF IInv, TypeOK
    <3>5. UNION {bundle'[i].modelled : i \in Artifacts} = UNION {bundle[i].modelled : i \in Artifacts}
      BY <2>0
    <3> QED
      BY <3>2, <3>3, <3>4, <3>5 DEF TypeOK
  <2>2. Partition'
    BY <2>0 DEF IInv, Partition
  <2>3. Settled'
    BY <2>0 DEF Settled
  <2>5. Assigned'
    <3>1. ASSUME NEW i \in pending', ~TakesOwner(bundle, i)
          PROVE  owner'[i] = bundle[i].modelled
      <4>1. i \in pending /\ i \in Artifacts
        BY <2>0 DEF IInv, TypeOK
      <4>2. owner'[i] = owner[i]
        BY <1>1, <3>1, <4>1 DEF Round
      <4> QED
        BY <3>1, <4>1, <4>2 DEF IInv, Assigned
    <3>2. ASSUME NEW i \in pending', TakesOwner(bundle, i)
          PROVE  /\ owner'[i] = Found(bundle, Artifacts, i)
                 /\ \A o, p \in owner'[i] : o = p
      BY <1>1, <3>2, RoundAssigns
    <3> QED
      BY <2>0, <3>1, <3>2 DEF Assigned
  <2>4. RefusalsAreNeeded'
    <3> SUFFICES ASSUME NEW S \in SUBSET Artifacts, Supported(bundle, S)
                 PROVE  S \subseteq pending'
      BY <2>0 DEF RefusalsAreNeeded
    <3>1. \A i \in S : i \notin broken
      BY SupportedIsKept DEF Broken
    <3>2. S \subseteq pending
      BY DEF IInv, RefusalsAreNeeded
    <3> QED
      BY <2>0, <3>1, <3>2
  <2> QED
    BY <2>1, <2>2, <2>3, <2>4, <2>5 DEF IInv
<1>2. CASE UNCHANGED vars
  BY <1>2 DEF vars, IInv, TypeOK, Partition, Settled, Assigned, RefusalsAreNeeded
<1> QED
  BY <1>1, <1>2 DEF Next

LEMMA Inductive == Spec => []IInv
BY InitInv, NextInv, PTL DEF Spec

(***************************************************************************)
(* Types.                                                                  *)
(***************************************************************************)
THEOREM TypeCorrect == Spec => []TypeOK
<1>1. IInv => TypeOK
  BY DEF IInv
<1> QED
  BY <1>1, Inductive, PTL

(***************************************************************************)
(* Every artifact stays pending or is refused (assign_owners drains and    *)
(* rebuilds its list in every round).                                      *)
(***************************************************************************)
THEOREM PartitionHolds == Spec => []Partition
<1>1. IInv => Partition
  BY DEF IInv
<1> QED
  BY <1>1, Inductive, PTL

(***************************************************************************)
(* Where an owner is required it is found among what is kept.              *)
(***************************************************************************)
LEMMA RequiredIsFound ==
    ASSUME IInv, done, NEW i \in pending, TakesOwner(bundle, i)
    PROVE  \/ HasOneOwner(bundle, pending, i)
           \/ bundle[i].owned = "optional" /\ Found(bundle, pending, i) = {}
BY DEF IInv, Settled, Broken, Breaks, OwnerBroken

(***************************************************************************)
(* Nothing kept at the end names what is not kept, its assigned owner      *)
(* included, unless the construct may do without an owner and has lost it. *)
(***************************************************************************)
THEOREM KeptIsClosed == Spec => []NothingDangles
<1>1. IInv => NothingDangles
  <2> SUFFICES ASSUME IInv, done, NEW i \in pending
               PROVE  /\ bundle[i].targets \cap (Artifacts \cup Lost) \subseteq pending
                      /\ bundle[i].refs \cup bundle[i].modelled \subseteq pending
                      /\ bundle[i].source \subseteq pending \cup Operations(bundle, pending)
                      /\ \/ owner[i] \subseteq pending
                         \/ /\ TakesOwner(bundle, i) /\ bundle[i].owned = "optional"
                            /\ Found(bundle, pending, i) = {}
    BY DEF NothingDangles
  <2>1. ~Breaks(bundle, pending, refused, i)
    BY DEF IInv, Settled, Broken
  <2>2. /\ bundle[i].targets \cap (Artifacts \cup Lost) \subseteq pending
        /\ bundle[i].refs \cup bundle[i].modelled \subseteq pending
        /\ bundle[i].source \subseteq pending \cup Operations(bundle, pending)
    BY <2>1 DEF Breaks, NamesNothing, IInv, Partition
  <2>3. CASE ~TakesOwner(bundle, i)
    BY <2>2, <2>3 DEF IInv, Assigned
  <2>4. CASE TakesOwner(bundle, i) /\ HasOneOwner(bundle, pending, i)
    <3>1. /\ owner[i] = Found(bundle, Artifacts, i)
          /\ \A o, p \in owner[i] : o = p
      BY <2>4 DEF IInv, Assigned
    <3>2. PICK o \in pending : Found(bundle, pending, i) = {o}
      BY <2>4 DEF HasOneOwner
    <3>3. o \in owner[i]
      BY <3>1, <3>2, FoundAmong DEF IInv, TypeOK
    <3>4. owner[i] = {o}
      BY <3>1, <3>3
    <3> QED
      BY <2>2, <3>4
  <2>5. CASE TakesOwner(bundle, i) /\ ~HasOneOwner(bundle, pending, i)
    BY <2>2, <2>5, RequiredIsFound
  <2> QED
    BY <2>3, <2>4, <2>5
<1> QED
  BY <1>1, Inductive, PTL

(***************************************************************************)
(* Every owner given is the only one the whole bundle has, and every owner *)
(* required is given and kept.                                             *)
(***************************************************************************)
THEOREM SoleOwner == Spec => []OwnersAreSole
<1>1. IInv => OwnersAreSole
  <2> SUFFICES ASSUME IInv, done, NEW i \in pending
               PROVE  /\ ~TakesOwner(bundle, i) => owner[i] = bundle[i].modelled
                      /\ TakesOwner(bundle, i) =>
                           /\ owner[i] = Found(bundle, Artifacts, i)
                           /\ \A o, p \in owner[i] : o = p
                           /\ bundle[i].owned = "required" => HasOneOwner(bundle, pending, i)
    BY DEF OwnersAreSole
  <2>1. ASSUME TakesOwner(bundle, i), bundle[i].owned = "required"
        PROVE  HasOneOwner(bundle, pending, i)
    BY <2>1, RequiredIsFound
  <2> QED
    BY <2>1 DEF IInv, Assigned
<1> QED
  BY <1>1, Inductive, PTL

(***************************************************************************)
(* Whatever can do without the rest of the bundle is kept.                 *)
(***************************************************************************)
THEOREM RefusedWithCause == Spec => []RefusalsAreNeeded
<1>1. IInv => RefusalsAreNeeded
  BY DEF IInv
<1> QED
  BY <1>1, Inductive, PTL

(***************************************************************************)
(* All of it: the rounds of assign_owners lose no artifact, keep nothing   *)
(* that would dangle but an owner a construct may do without, give each    *)
(* the one owner the bundle has for it, and refuse no set of artifacts     *)
(* that could have stood.                                                  *)
(***************************************************************************)
THEOREM PassHolds == Spec => []PassIsSound
<1>1. (/\ Partition /\ NothingDangles /\ OwnersAreSole
       /\ RefusalsAreNeeded) => PassIsSound
  BY DEF PassIsSound
<1> QED
  BY PartitionHolds, KeptIsClosed, SoleOwner, RefusedWithCause, <1>1, PTL
=============================================================================
