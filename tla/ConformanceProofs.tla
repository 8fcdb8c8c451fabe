-------------------------- MODULE ConformanceProofs --------------------------
(***************************************************************************)
(* What a green run of the conformance harness means, for any number of    *)
(* runs, adapters, cases and registers, and for arrays of any length.      *)
(***************************************************************************)
EXTENDS Conformance, FiniteSetTheorems, WellFoundedInduction, TLAPS

----------------------------------------------------------------------------
(* Induction along an array.  What holds of every position is a set of them *)
(* that is closed under the next one.                                       *)

\* A non-empty set of positions has a first one.
LEMMA LeastPosition ==
    ASSUME NEW T, T \subseteq Nat, T # {}
    PROVE  \E x \in T : \A y \in T : x <= y
<1>1. PICK x \in T : \A y \in T : ~(<<y, x>> \in OpToRel(<, Nat))
  BY NatLessThanWellFounded, WFMin
<1>2. \A y \in T : ~(y < x)
  BY <1>1 DEF OpToRel
<1> QED
  BY <1>2

\* A set of positions that holds the first and with each the next one, holds all.
LEMMA AlongAnArray ==
    ASSUME NEW n \in Nat, NEW T, 0 \in T,
           \A i \in 1..n : i - 1 \in T => i \in T
    PROVE  0..n \subseteq T
<1> DEFINE Left == (0..n) \ T
<1> SUFFICES ASSUME Left # {} PROVE FALSE
  OBVIOUS
<1>1. Left \subseteq Nat
  OBVIOUS
<1>2. PICK i \in Left : \A k \in Left : i <= k
  <2> HIDE DEF Left
  <2> QED
    BY <1>1, LeastPosition
<1>3. i \in 1..n /\ i - 1 \notin Left
  BY <1>2
<1> QED
  BY <1>3

\* The first n elements can be judged: there is a list of counts in which each
\* follows from the one before.
Chain(w, adapter, results, f, n) ==
    f = [i \in 0..n |->
            IF i = 0 THEN Nothing ELSE Judge(w, adapter, f[i - 1], results[i])]

LEMMA ChainExists ==
    ASSUME NEW w, NEW adapter, NEW results, NEW n \in Nat
    PROVE  \E f : Chain(w, adapter, results, f, n)
<1> DEFINE T == {m \in 0..n : \E f : Chain(w, adapter, results, f, m)}
<1>1. 0 \in T
  <2> DEFINE f == [i \in 0..0 |-> Nothing]
  <2>1. Chain(w, adapter, results, f, 0)
    BY DEF Chain
  <2> QED
    BY <2>1
<1>2. ASSUME NEW m \in 1..n, m - 1 \in T PROVE m \in T
  <2>1. PICK f : Chain(w, adapter, results, f, m - 1)
    BY <1>2
  <2> DEFINE g == [i \in 0..m |->
                      IF i = m THEN Judge(w, adapter, f[m - 1], results[m]) ELSE f[i]]
  <2>2. ASSUME NEW i \in 0..m
        PROVE  g[i] = IF i = 0 THEN Nothing ELSE Judge(w, adapter, g[i - 1], results[i])
    <3>1. CASE i = m
      BY <3>1
    <3>2. CASE i # m
      <4>1. i \in 0..(m - 1) /\ g[i] = f[i]
        BY <3>2
      <4>2. f[i] = IF i = 0 THEN Nothing ELSE Judge(w, adapter, f[i - 1], results[i])
        BY <2>1, <4>1 DEF Chain
      <4>3. i # 0 => i - 1 \in 0..m /\ i - 1 # m
        OBVIOUS
      <4> QED
        BY <4>1, <4>2, <4>3
    <3> QED
      BY <3>1, <3>2
  <2>3. Chain(w, adapter, results, g, m)
    BY <2>2 DEF Chain
  <2> QED
    BY <2>3
<1>3. 0..n \subseteq T
  <2> HIDE DEF T
  <2> QED
    BY <1>1, <1>2, AlongAnArray
<1> QED
  BY <1>3

\* Judgements follows the array: each count is that of the element before it,
\* judged on.
LEMMA JudgedInOrder ==
    ASSUME NEW w, NEW adapter, NEW results, Len(results) \in Nat
    PROVE  /\ Judgements(w, adapter, results)[0] = Nothing
           /\ \A i \in 1..Len(results) :
                 Judgements(w, adapter, results)[i] =
                    Judge(w, adapter, Judgements(w, adapter, results)[i - 1], results[i])
<1> DEFINE J == Judgements(w, adapter, results)
<1>1. Chain(w, adapter, results, J, Len(results))
  <2>1. J = CHOOSE f : Chain(w, adapter, results, f, Len(results))
    BY DEF Judgements, Chain
  <2> HIDE DEF J
  <2> QED
    BY <2>1, ChainExists
<1> HIDE DEF J
<1>2. J = [i \in 0..Len(results) |->
             IF i = 0 THEN Nothing ELSE Judge(w, adapter, J[i - 1], results[i])]
  BY <1>1 DEF Chain
<1> QED
  BY <1>2 DEF J

----------------------------------------------------------------------------
(* One element judged.                                                      *)

IsJudgement(j) ==
    j = [answered |-> j.answered, matched |-> j.matched, unmet |-> j.unmet,
         failed |-> j.failed, problems |-> j.problems, used |-> j.used]

\* The codes under which a supported element differs from the verdict.
Differences(adapter, result) ==
    compare(Verdict(result.case), result.answer, result.case \in Compatibility,
            adapter.pointerCompatible)

\* An element that is no failure.
Passes(w, adapter, result) ==
    \/ /\ result.support = "supported"
       /\ Suppressed(w.register, adapter.id, result.case, Differences(adapter, result))
    \/ /\ result.support = "unsupported"
       /\ <<result.case, adapter.id>> \in w.unsupportedBy
    \/ /\ result.support = "unavailable"
       /\ adapter.status = "unavailable"

\* An element that shows a registered divergence.
Shows(adapter, key, result) ==
    /\ result.support = "supported"
    /\ result.case = key.case
    /\ adapter.id = key.adapter
    /\ key.code \in Differences(adapter, result)

\* An element is a failure, of a case not answered before or of none, or it
\* passes and answers a case that was not answered before.
LEMMA JudgeStep ==
    ASSUME NEW w, NEW adapter, NEW j, NEW result,
           IsJudgement(j), result.support \in Supports
    PROVE  LET n == Judge(w, adapter, j, result) IN
           /\ IsJudgement(n)
           /\ \/ n.answered = j.answered /\ n.failed = j.failed + 1
              \/ /\ result.case \in Cases \ j.answered
                 /\ n.answered = j.answered \cup {result.case}
                 /\ \/ n.failed = j.failed + 1
                    \/ /\ n.failed = j.failed
                       /\ Passes(w, adapter, result)
           /\ \/ n.failed = j.failed + 1 /\ n.matched = j.matched /\ n.unmet = j.unmet
              \/ n.failed = j.failed /\ n.matched = j.matched + 1 /\ n.unmet = j.unmet
              \/ n.failed = j.failed /\ n.matched = j.matched /\ n.unmet = j.unmet + 1
           /\ \A key \in n.used : key \in j.used \/ Shows(adapter, key, result)
<1> DEFINE n == Judge(w, adapter, j, result)
           reached == Answered(j, result)
<1>0. ASSUME NEW k, IsJudgement(k), NEW problem
      PROVE  /\ IsJudgement(Failed(k, problem))
             /\ Failed(k, problem).answered = k.answered
             /\ Failed(k, problem).failed = k.failed + 1
             /\ Failed(k, problem).matched = k.matched
             /\ Failed(k, problem).unmet = k.unmet
             /\ Failed(k, problem).used = k.used
  <2>1. k = [answered |-> k.answered, matched |-> k.matched, unmet |-> k.unmet,
             failed |-> k.failed, problems |-> k.problems, used |-> k.used]
    BY <1>0 DEF IsJudgement
  <2>2. Failed(k, problem) =
          [answered |-> k.answered, matched |-> k.matched, unmet |-> k.unmet,
           failed |-> k.failed + 1, problems |-> k.problems \cup {problem},
           used |-> k.used]
    <3> DEFINE once == [k EXCEPT !.failed = @ + 1]
    <3>1. once = [answered |-> k.answered, matched |-> k.matched, unmet |-> k.unmet,
                  failed |-> k.failed + 1, problems |-> k.problems, used |-> k.used]
      BY <2>1
    <3>2. Failed(k, problem) = [once EXCEPT !.problems = k.problems \cup {problem}]
      BY DEF Failed
    <3> HIDE DEF once
    <3> QED
      BY <3>1, <3>2
  <2> QED
    BY <2>2 DEF IsJudgement
<1>1. /\ IsJudgement(reached)
      /\ reached.answered = j.answered \cup {result.case}
      /\ reached.failed = j.failed /\ reached.matched = j.matched
      /\ reached.unmet = j.unmet /\ reached.used = j.used
  BY DEF IsJudgement, Answered
<1> HIDE DEF reached
<1>2. CASE \/ result.support = "malformed"
           \/ result.case \notin Cases
           \/ result.case \in j.answered
  <2>1. \E problem : n = Failed(j, problem)
    BY <1>2 DEF Judge
  <2> HIDE DEF n
  <2> QED
    BY <2>1, <1>0 DEF n
<1>3. CASE /\ result.support # "malformed"
           /\ result.case \in Cases \ j.answered
  <2>1. CASE result.support = "unavailable"
    <3>1. \/ /\ adapter.status = "unavailable"
             /\ n = [reached EXCEPT !.unmet = @ + 1]
          \/ \E problem : n = Failed(reached, problem)
      BY <1>3, <2>1 DEF Judge, reached
    <3> HIDE DEF n
    <3>2. CASE /\ adapter.status = "unavailable"
               /\ n = [reached EXCEPT !.unmet = @ + 1]
      BY <1>1, <1>3, <2>1, <3>2 DEF IsJudgement, Passes, n
    <3>3. CASE \E problem : n = Failed(reached, problem)
      BY <1>0, <1>1, <1>3, <3>3 DEF n
    <3> QED
      BY <3>1, <3>2, <3>3
  <2>2. CASE result.support = "unsupported"
    <3>1. \/ /\ <<result.case, adapter.id>> \in w.unsupportedBy
             /\ n = [reached EXCEPT !.unmet = @ + 1]
          \/ \E problem : n = Failed(reached, problem)
      BY <1>3, <2>2 DEF Judge, reached
    <3> HIDE DEF n
    <3>2. CASE /\ <<result.case, adapter.id>> \in w.unsupportedBy
               /\ n = [reached EXCEPT !.unmet = @ + 1]
      BY <1>1, <1>3, <2>2, <3>2 DEF IsJudgement, Passes, n
    <3>3. CASE \E problem : n = Failed(reached, problem)
      BY <1>0, <1>1, <1>3, <3>3 DEF n
    <3> QED
      BY <3>1, <3>2, <3>3
  <2>3. CASE result.support = "supported"
    <3> DEFINE codes == Differences(adapter, result)
               keys == {[case |-> result.case, adapter |-> adapter.id, code |-> code] :
                           code \in codes}
               counted == [reached EXCEPT !.used = @ \cup (keys \cap w.register)]
               passed == codes = {} \/ Suppressed(w.register, adapter.id, result.case, codes)
    <3>1. n = IF passed THEN [counted EXCEPT !.matched = @ + 1]
                        ELSE [counted EXCEPT !.failed = @ + 1]
      <4>1. n = JudgeSupported(w, adapter, reached, result)
        BY <1>3, <2>3 DEF Judge, reached
      <4> QED
        BY <4>1 DEF JudgeSupported, Differences
    <3>2. passed => Passes(w, adapter, result)
      BY <2>3 DEF Passes, Suppressed
    <3>3. \A key \in keys : Shows(adapter, key, result)
      BY <2>3 DEF Shows
    <3> HIDE DEF n, codes, keys, passed
    <3>4. /\ IsJudgement(counted)
          /\ counted.used \subseteq j.used \cup keys
          /\ counted.answered = reached.answered /\ counted.failed = reached.failed
          /\ counted.matched = reached.matched /\ counted.unmet = reached.unmet
      <4>1. reached =
              [answered |-> reached.answered, matched |-> reached.matched,
               unmet |-> reached.unmet, failed |-> reached.failed,
               problems |-> reached.problems, used |-> reached.used]
        BY <1>1 DEF IsJudgement
      <4>2. counted =
              [answered |-> reached.answered, matched |-> reached.matched,
               unmet |-> reached.unmet, failed |-> reached.failed,
               problems |-> reached.problems,
               used |-> reached.used \cup (keys \cap w.register)]
        BY <4>1
      <4> HIDE DEF counted
      <4> QED
        BY <1>1, <4>2 DEF IsJudgement
    <3> HIDE DEF counted
    <3>5. CASE passed
      <4>1. n = [counted EXCEPT !.matched = @ + 1]
        BY <3>1, <3>5
      <4>2. /\ IsJudgement(n) /\ n.used = counted.used
            /\ n.answered = counted.answered /\ n.failed = counted.failed
            /\ n.matched = counted.matched + 1 /\ n.unmet = counted.unmet
        BY <3>4, <4>1 DEF IsJudgement
      <4> QED
        BY <1>1, <1>3, <3>2, <3>3, <3>4, <3>5, <4>2 DEF n
    <3>6. CASE ~passed
      <4>1. n = [counted EXCEPT !.failed = @ + 1]
        BY <3>1, <3>6
      <4>2. /\ IsJudgement(n) /\ n.used = counted.used
            /\ n.answered = counted.answered /\ n.failed = counted.failed + 1
            /\ n.matched = counted.matched /\ n.unmet = counted.unmet
        BY <3>4, <4>1 DEF IsJudgement
      <4> QED
        BY <1>1, <1>3, <3>3, <3>4, <4>2 DEF n
    <3> QED
      BY <3>5, <3>6
  <2> QED
    BY <1>3, <2>1, <2>2, <2>3 DEF Supports
<1> QED
  BY <1>2, <1>3

----------------------------------------------------------------------------
(* A whole array judged.                                                    *)

\* The counts after i elements: each element is counted once, and as long as
\* none failed the elements are one passing answer for each case answered.
Accounted(w, adapter, results, j, i) ==
    /\ IsJudgement(j)
    /\ j.answered \subseteq Cases
    /\ j.matched \in Nat /\ j.unmet \in Nat /\ j.failed \in Nat
    /\ j.matched + j.unmet <= Cardinality(j.answered)
    /\ Cardinality(j.answered) <= j.matched + j.unmet + j.failed
    /\ j.failed = 0 =>
          /\ \A c \in j.answered : \E k \in 1..i : results[k].case = c
          /\ \A k \in 1..i : results[k].case \in j.answered /\ Passes(w, adapter, results[k])
          /\ \A k, l \in 1..i : results[k].case = results[l].case => k = l
    /\ \A key \in j.used : \E k \in 1..i : Shows(adapter, key, results[k])

LEMMA AccountedStep ==
    ASSUME NEW w, NEW adapter, NEW results, NEW i \in Nat \ {0}, NEW j,
           results[i].support \in Supports,
           Accounted(w, adapter, results, j, i - 1)
    PROVE  Accounted(w, adapter, results, Judge(w, adapter, j, results[i]), i)
<1> DEFINE result == results[i]
           n == Judge(w, adapter, j, result)
<1>1. IsJudgement(j) /\ j.answered \subseteq Cases
      /\ j.matched \in Nat /\ j.unmet \in Nat /\ j.failed \in Nat
  BY DEF Accounted
<1>2. /\ IsJudgement(n)
      /\ \/ n.answered = j.answered /\ n.failed = j.failed + 1
         \/ /\ result.case \in Cases \ j.answered
            /\ n.answered = j.answered \cup {result.case}
            /\ \/ n.failed = j.failed + 1
               \/ /\ n.failed = j.failed
                  /\ Passes(w, adapter, result)
      /\ \/ n.failed = j.failed + 1 /\ n.matched = j.matched /\ n.unmet = j.unmet
         \/ n.failed = j.failed /\ n.matched = j.matched + 1 /\ n.unmet = j.unmet
         \/ n.failed = j.failed /\ n.matched = j.matched /\ n.unmet = j.unmet + 1
      /\ \A key \in n.used : key \in j.used \/ Shows(adapter, key, result)
  BY <1>1, JudgeStep
<1> HIDE DEF n
<1>3. \A k \in 1..i : k = i \/ k \in 1..(i - 1)
  OBVIOUS
<1>4. 1..(i - 1) \subseteq 1..i /\ i \in 1..i /\ i \notin 1..(i - 1)
  OBVIOUS
<1>5. /\ n.answered \subseteq Cases
      /\ n.matched \in Nat /\ n.unmet \in Nat /\ n.failed \in Nat
  BY <1>1, <1>2
<1>6. /\ n.matched + n.unmet <= Cardinality(n.answered)
      /\ Cardinality(n.answered) <= n.matched + n.unmet + n.failed
  <2>1. /\ IsFiniteSet(j.answered) /\ Cardinality(j.answered) \in Nat
    BY <1>1, CorpusAssumption, FS_Subset, FS_CardinalityType
  <2>2. result.case \notin j.answered =>
           Cardinality(j.answered \cup {result.case}) = Cardinality(j.answered) + 1
    BY <2>1, FS_AddElement
  <2>3. /\ j.matched + j.unmet <= Cardinality(j.answered)
        /\ Cardinality(j.answered) <= j.matched + j.unmet + j.failed
    BY DEF Accounted
  <2> HIDE DEF result
  <2>4. CASE n.answered = j.answered /\ n.failed = j.failed + 1
    BY <1>1, <1>2, <2>1, <2>3, <2>4
  <2>5. CASE /\ result.case \in Cases \ j.answered
             /\ n.answered = j.answered \cup {result.case}
    BY <1>1, <1>2, <2>1, <2>2, <2>3, <2>5
  <2> QED
    BY <1>2, <2>4, <2>5
<1>7. ASSUME n.failed = 0
      PROVE  /\ \A c \in n.answered : \E k \in 1..i : results[k].case = c
             /\ \A k \in 1..i :
                   results[k].case \in n.answered /\ Passes(w, adapter, results[k])
             /\ \A k, l \in 1..i : results[k].case = results[l].case => k = l
  <2>1. /\ result.case \in Cases \ j.answered
        /\ n.answered = j.answered \cup {result.case}
        /\ j.failed = 0 /\ Passes(w, adapter, result)
    BY <1>1, <1>2, <1>7
  <2>2. /\ \A c \in j.answered : \E k \in 1..(i - 1) : results[k].case = c
        /\ \A k \in 1..(i - 1) :
              results[k].case \in j.answered /\ Passes(w, adapter, results[k])
        /\ \A k, l \in 1..(i - 1) : results[k].case = results[l].case => k = l
    BY <2>1 DEF Accounted
  <2>3. \A c \in n.answered : \E k \in 1..i : results[k].case = c
    BY <1>4, <2>1, <2>2
  <2>4. \A k \in 1..i : results[k].case \in n.answered /\ Passes(w, adapter, results[k])
    BY <1>3, <2>1, <2>2
  <2>5. \A k, l \in 1..i : results[k].case = results[l].case => k = l
    <3> TAKE k, l \in 1..i
    <3> HAVE results[k].case = results[l].case
    <3>1. CASE k \in 1..(i - 1) /\ l \in 1..(i - 1)
      BY <2>2, <3>1
    <3>2. CASE k = i /\ l \in 1..(i - 1)
      BY <2>1, <2>2, <3>2
    <3>3. CASE k \in 1..(i - 1) /\ l = i
      BY <2>1, <2>2, <3>3
    <3> QED
      BY <1>3, <3>1, <3>2, <3>3
  <2> QED
    BY <2>3, <2>4, <2>5
<1>8. \A key \in n.used : \E k \in 1..i : Shows(adapter, key, results[k])
  <2>1. \A key \in j.used : \E k \in 1..(i - 1) : Shows(adapter, key, results[k])
    BY DEF Accounted
  <2> QED
    BY <1>2, <1>4, <2>1
<1> QED
  BY <1>2, <1>5, <1>6, <1>7, <1>8 DEF Accounted, n

LEMMA ArrayAccounted ==
    ASSUME NEW w, NEW adapter, NEW results, IsArray(results)
    PROVE  Accounted(w, adapter, results,
                     Judgements(w, adapter, results)[Len(results)], Len(results))
<1> DEFINE J == Judgements(w, adapter, results)
           T == {i \in 0..Len(results) : Accounted(w, adapter, results, J[i], i)}
<1>1. Len(results) \in Nat /\ \A i \in 1..Len(results) : results[i].support \in Supports
  BY DEF IsArray, IsSequence
<1>2. /\ J[0] = Nothing
      /\ \A i \in 1..Len(results) : J[i] = Judge(w, adapter, J[i - 1], results[i])
  BY <1>1, JudgedInOrder
<1> HIDE DEF J
<1>3. 0 \in T
  <2>1. Accounted(w, adapter, results, Nothing, 0)
    BY FS_EmptySet DEF Nothing, Accounted, IsJudgement
  <2> QED
    BY <1>1, <1>2, <2>1
<1>4. ASSUME NEW i \in 1..Len(results), i - 1 \in T PROVE i \in T
  <2>1. Accounted(w, adapter, results, J[i - 1], i - 1)
    BY <1>4
  <2>2. results[i].support \in Supports /\ i \in Nat \ {0}
    BY <1>1
  <2>3. Accounted(w, adapter, results, Judge(w, adapter, J[i - 1], results[i]), i)
    BY <2>1, <2>2, AccountedStep
  <2>4. Accounted(w, adapter, results, J[i], i)
    BY <1>2, <2>3
  <2> QED
    BY <1>1, <2>4
<1>5. 0..Len(results) \subseteq T
  <2> HIDE DEF T
  <2> QED
    BY <1>1, <1>3, <1>4, AlongAnArray
<1> QED
  BY <1>1, <1>5 DEF J

\* The account of a whole array: what no element answers is failed, so that an
\* array without a failure answers each case once, and well.
THEOREM ArrayJudged ==
    ASSUME NEW w, NEW adapter, NEW results, IsArray(results)
    PROVE  LET j == JudgeAll(w, adapter, results) IN
           /\ j.matched \in Nat /\ j.unmet \in Nat /\ j.failed \in Nat
           /\ j.matched + j.unmet <= Cardinality(Cases)
           /\ j.failed >= Cardinality(Cases) - j.matched - j.unmet
           /\ j.failed = 0 =>
                 \A c \in Cases : \E k \in DOMAIN results :
                    /\ results[k].case = c /\ Passes(w, adapter, results[k])
                    /\ \A l \in DOMAIN results : results[l].case = c => l = k
           /\ \A key \in j.used : \E k \in DOMAIN results : Shows(adapter, key, results[k])
<1> DEFINE n == Len(results)
           last == Judgements(w, adapter, results)[n]
           missing == Cardinality(Cases \ last.answered)
           j == JudgeAll(w, adapter, results)
<1>1. Accounted(w, adapter, results, last, n) /\ DOMAIN results = 1..n
  BY ArrayAccounted DEF IsArray, IsSequence
<1>2. j = Unanswered(adapter, last)
  BY DEF JudgeAll
<1> HIDE DEF n, last, j
<1>3. /\ j.answered = last.answered /\ j.matched = last.matched /\ j.unmet = last.unmet
      /\ j.used = last.used /\ j.failed = last.failed + missing
  <2> DEFINE once == [last EXCEPT !.failed = @ + missing]
             reports == {Problem("missing-answer", adapter.id, c) : c \in Cases \ last.answered}
  <2>1. j = [once EXCEPT !.problems = last.problems \cup reports]
    BY <1>2 DEF Unanswered
  <2>2. last = [answered |-> last.answered, matched |-> last.matched, unmet |-> last.unmet,
                failed |-> last.failed, problems |-> last.problems, used |-> last.used]
    BY <1>1 DEF Accounted, IsJudgement
  <2> HIDE DEF missing, reports
  <2>3. once = [answered |-> last.answered, matched |-> last.matched,
                unmet |-> last.unmet, failed |-> last.failed + missing,
                problems |-> last.problems, used |-> last.used]
    BY <2>2
  <2> HIDE DEF once
  <2> QED
    BY <2>1, <2>3
<1>4. /\ IsFiniteSet(Cases) /\ Cardinality(Cases) \in Nat
      /\ last.answered \subseteq Cases
      /\ last.matched \in Nat /\ last.unmet \in Nat /\ last.failed \in Nat
      /\ last.matched + last.unmet <= Cardinality(last.answered)
      /\ Cardinality(last.answered) <= last.matched + last.unmet + last.failed
  BY <1>1, CorpusAssumption, FS_CardinalityType DEF Accounted
<1>5. /\ missing = Cardinality(Cases) - Cardinality(last.answered)
      /\ missing \in Nat /\ (missing = 0 => Cases \ last.answered = {})
      /\ Cardinality(last.answered) \in Nat
  <2>1. Cases \cap last.answered = last.answered
    BY <1>4
  <2>2. IsFiniteSet(last.answered) /\ Cardinality(last.answered) \in Nat
    BY <1>4, FS_Subset, FS_CardinalityType
  <2>3. /\ IsFiniteSet(Cases \ last.answered)
        /\ missing = Cardinality(Cases) - Cardinality(last.answered)
    BY <1>4, <2>1, FS_Difference
  <2>4. missing \in Nat /\ (missing = 0 => Cases \ last.answered = {})
    BY <2>3, FS_CardinalityType, FS_EmptySet
  <2> QED
    BY <2>2, <2>3, <2>4
<1>6. /\ j.matched \in Nat /\ j.unmet \in Nat /\ j.failed \in Nat
      /\ j.matched + j.unmet <= Cardinality(Cases)
      /\ j.failed >= Cardinality(Cases) - j.matched - j.unmet
  <2> HIDE DEF missing
  <2> QED
    BY <1>3, <1>4, <1>5
<1>7. ASSUME j.failed = 0, NEW c \in Cases
      PROVE  \E k \in DOMAIN results :
                /\ results[k].case = c /\ Passes(w, adapter, results[k])
                /\ \A l \in DOMAIN results : results[l].case = c => l = k
  <2>1. last.failed = 0 /\ c \in last.answered
    <3> HIDE DEF missing
    <3> QED
      BY <1>3, <1>4, <1>5, <1>7
  <2>2. PICK k \in 1..n : results[k].case = c
    BY <1>1, <2>1 DEF Accounted
  <2>3. /\ Passes(w, adapter, results[k])
        /\ \A l \in 1..n : results[l].case = c => l = k
    BY <1>1, <2>1, <2>2 DEF Accounted
  <2> QED
    BY <1>1, <2>2, <2>3
<1>8. \A key \in j.used : \E k \in DOMAIN results : Shows(adapter, key, results[k])
  BY <1>1, <1>3 DEF Accounted
<1> QED
  BY <1>6, <1>7, <1>8 DEF j

----------------------------------------------------------------------------
(* What `compare` says of one answer.                                       *)

\* A position at which two lists of diagnostics differ is reported.
LEMMA DifferenceIsReported ==
    ASSUME NEW expected, IsSequence(expected), NEW observed, IsSequence(observed),
           NEW withPointer, NEW i \in (DOMAIN expected) \cup (DOMAIN observed),
           \/ i \notin DOMAIN expected
           \/ i \notin DOMAIN observed
           \/ Key(expected[i], withPointer) # Key(observed[i], withPointer)
    PROVE  (IF i \in DOMAIN expected THEN expected[i].code ELSE observed[i].code)
              \in DiagnosticCodes(expected, observed, withPointer)
<1>1. i \in 1..Longer(expected, observed)
  BY DEF Longer, IsSequence
<1> QED
  BY <1>1 DEF DiagnosticCodes

\* An answer whose differences are all registered agrees with the verdict.
LEMMA SuppressedAgrees ==
    ASSUME NEW a, NEW c \in Cases, NEW given, IsSequence(given.diagnostics),
           Suppressed(world.register, a.id, c,
                      compare(Verdict(c), given, c \in Compatibility, a.pointerCompatible))
    PROVE  Agrees(a, c, given)
<1> DEFINE expected == Verdict(c)
           registered(code) ==
              [case |-> c, adapter |-> a.id, code |-> code] \in world.register
           place(d) == IF a.pointerCompatible THEN d.at ELSE "any"
           same(d, e) == d.code = e.code /\ place(d) = place(e)
           codes == compare(expected, given, c \in Compatibility, a.pointerCompatible)
<1>1. \A code \in codes : registered(code)
  BY DEF Suppressed
<1>2. /\ given.state # expected.state => "result-state" \in codes
      /\ given.normalized # expected.normalized => "normalized" \in codes
      /\ c \in Compatibility /\ given.classification # expected.classification =>
            "classification" \in codes
      /\ DiagnosticCodes(expected.diagnostics, given.diagnostics, a.pointerCompatible)
            \subseteq codes
  BY DEF compare
<1>3. IsSequence(expected.diagnostics)
  BY VerdictAssumption
<1>4. \A d, e : Key(d, a.pointerCompatible) = Key(e, a.pointerCompatible) => same(d, e)
  BY DEF Key
<1> HIDE DEF expected, codes
<1>5. ASSUME NEW i \in DOMAIN expected.diagnostics
      PROVE  \/ registered(expected.diagnostics[i].code)
             \/ /\ i \in DOMAIN given.diagnostics
                /\ same(expected.diagnostics[i], given.diagnostics[i])
  <2>1. CASE \/ i \notin DOMAIN given.diagnostics
             \/ Key(expected.diagnostics[i], a.pointerCompatible)
                   # Key(given.diagnostics[i], a.pointerCompatible)
    <3>1. expected.diagnostics[i].code \in
             DiagnosticCodes(expected.diagnostics, given.diagnostics, a.pointerCompatible)
      BY <1>3, <2>1, DifferenceIsReported
    <3> QED
      BY <1>1, <1>2, <3>1
  <2>2. CASE /\ i \in DOMAIN given.diagnostics
             /\ Key(expected.diagnostics[i], a.pointerCompatible)
                   = Key(given.diagnostics[i], a.pointerCompatible)
    BY <1>4, <2>2
  <2> QED
    BY <2>1, <2>2
<1>6. ASSUME NEW i \in DOMAIN given.diagnostics \ DOMAIN expected.diagnostics
      PROVE  registered(given.diagnostics[i].code)
  <2>1. given.diagnostics[i].code \in
           DiagnosticCodes(expected.diagnostics, given.diagnostics, a.pointerCompatible)
    BY <1>3, DifferenceIsReported
  <2> QED
    BY <1>1, <1>2, <2>1
<1> QED
  BY <1>1, <1>2, <1>5, <1>6 DEF Agrees, expected

----------------------------------------------------------------------------
(* That the staging directory is whole, for any number of runs, adapters and *)
(* cases.  StagingIsWhole alone is not inductive: that a directory holds     *)
(* what is still to be read follows from what the run wrote before it        *)
(* started its first adapter.                                                *)

\* What a run has put into its directory by the time it is at a label.
Staged(r) ==
    /\ pc[r] \in {"materialize", "adapters", "running"} => Directory(r) \in DOMAIN staging
    /\ pc[r] = "materialize" => Files \ toWrite[r] \subseteq staging[Directory(r)]
    /\ pc[r] \in {"adapters", "running"} => Files \subseteq staging[Directory(r)]

SInv ==
    /\ pc \in [Runs -> Labels]
    /\ toWrite \in [Runs -> SUBSET Files]
    /\ toRead \in [Runs -> SUBSET Files]
    /\ \A r \in Runs : Staged(r)

\* No run has a directory before it starts.
LEMMA InitStaged == Init => SInv
  BY DEF Init, SInv, Staged, Labels

\* mkdtemp gives every run a directory of its own, and no step of a run touches
\* another directory: what the others staged stays as it is.
LEMMA OthersKeepTheirs ==
    ASSUME SInv, NEW r \in Runs, NEW s \in Runs, s # r,
           pc'[s] = pc[s], toWrite'[s] = toWrite[s],
           s \in DOMAIN staging => s \in DOMAIN staging' /\ staging'[s] = staging[s]
    PROVE  Staged(s)'
  BY DEF SInv, Staged, Directory

\* Every step of a run leaves its directory as whole as its label says.
LEMMA StepStaged == SInv /\ [Next]_vars => SInv'
  <1> SUFFICES ASSUME SInv, [Next]_vars PROVE SInv'
    OBVIOUS
  <1>1. CASE UNCHANGED vars
    BY <1>1 DEF vars, SInv, Staged
  <1>2. ASSUME NEW r \in Runs, RunStep(r) \/ Kill(r) PROVE SInv'
    <2> USE DEF Goto, Directory
    <2>1. CASE Stage(r)
      <3>1. /\ pc' \in [Runs -> Labels] /\ toWrite' \in [Runs -> SUBSET Files]
            /\ toRead' \in [Runs -> SUBSET Files]
        BY <2>1 DEF Stage, SInv, Labels
      <3>2. Staged(r)'
        BY <2>1 DEF Stage, SInv, Staged
      <3>3. ASSUME NEW s \in Runs, s # r PROVE Staged(s)'
        BY <2>1, <3>3, OthersKeepTheirs DEF Stage, SInv
      <3> QED
        BY <3>1, <3>2, <3>3 DEF SInv
    <2>2. CASE Materialize(r)
      <3> PICK file \in toWrite[r] :
              /\ staging' = [staging EXCEPT ![r] = @ \cup {file}]
              /\ toWrite' = [toWrite EXCEPT ![r] = @ \ {file}]
              /\ IF toWrite[r] = {file} THEN Goto(r, "adapters") ELSE UNCHANGED pc
        BY <2>2 DEF Materialize
      <3>1. /\ pc' \in [Runs -> Labels] /\ toWrite' \in [Runs -> SUBSET Files]
            /\ toRead' \in [Runs -> SUBSET Files]
        BY <2>2 DEF Materialize, SInv, Labels
      <3>2. Staged(r)'
        <4>1. pc[r] = "materialize" /\ r \in DOMAIN staging
          BY <2>2 DEF Materialize
        <4>2. r \in DOMAIN staging' /\ staging'[r] = staging[r] \cup {file}
          BY <4>1
        <4>3. toWrite'[r] = toWrite[r] \ {file}
          BY DEF SInv
        <4>4. Files \ toWrite[r] \subseteq staging[r]
          BY <4>1 DEF SInv, Staged
        <4>5. CASE toWrite[r] = {file}
          <5>1. pc'[r] = "adapters"
            BY <4>5 DEF SInv
          <5> QED
            BY <5>1, <4>2, <4>4, <4>5 DEF Staged
        <4>6. CASE toWrite[r] # {file}
          <5>1. pc'[r] = "materialize"
            BY <4>6, <4>1
          <5> QED
            BY <5>1, <4>2, <4>3, <4>4 DEF Staged
        <4> QED
          BY <4>5, <4>6
      <3>3. ASSUME NEW s \in Runs, s # r PROVE Staged(s)'
        <4>1. pc'[s] = pc[s] /\ toWrite'[s] = toWrite[s]
          BY <3>3 DEF SInv
        <4>2. s \in DOMAIN staging => s \in DOMAIN staging' /\ staging'[s] = staging[s]
          BY <3>3
        <4> QED
          BY <4>1, <4>2, <3>3, OthersKeepTheirs
      <3> QED
        BY <3>1, <3>2, <3>3 DEF SInv
    <2>3. CASE MaterializeThrows(r)
      BY <2>3 DEF MaterializeThrows, SInv, Staged, Labels
    <2>4. CASE NextAdapter(r)
      <3>1. toRead' \in [Runs -> SUBSET Files]
        BY <2>4 DEF NextAdapter, SInv
      <3> QED
        BY <2>4, <3>1 DEF NextAdapter, SInv, Staged, Labels
    <2>5. CASE ReadStaged(r)
      <3>1. toRead' \in [Runs -> SUBSET Files]
        BY <2>5 DEF ReadStaged, SInv
      <3> QED
        BY <2>5, <3>1 DEF ReadStaged, SInv, Staged
    <2>6. CASE pc[r] = "running" /\ \E results, j : Record(r, results, j)
      BY <2>6 DEF Record, SInv, Staged, Labels
    <2>7. CASE Finish(r)
      <3>1. /\ pc' \in [Runs -> Labels] /\ toWrite' \in [Runs -> SUBSET Files]
            /\ toRead' \in [Runs -> SUBSET Files]
        BY <2>7 DEF Finish, SInv, Labels
      <3>2. Staged(r)'
        BY <2>7 DEF Finish, SInv, Staged
      <3>3. ASSUME NEW s \in Runs, s # r PROVE Staged(s)'
        BY <2>7, <3>3, OthersKeepTheirs DEF Finish, SInv
      <3> QED
        BY <3>1, <3>2, <3>3 DEF SInv
    <2>8. CASE Kill(r)
      BY <2>8 DEF Kill, SInv, Staged, Labels
    <2>9. CASE Answer(r) \/ Fail(r) \/ NoCommand(r)
      BY <2>9, <2>6 DEF Answer, Fail, NoCommand
    <2> QED
      BY <1>2, <2>1, <2>2, <2>3, <2>4, <2>5, <2>7, <2>8, <2>9 DEF RunStep
  <1> QED
    BY <1>1, <1>2 DEF Next

\* For any number of runs side by side, of adapters and of cases: an adapter at
\* work finds every file it has still to read in its run's directory, also
\* while other runs stage, finish or are killed.
THEOREM StagingHolds == Spec => []StagingIsWhole
  <1>1. SInv => StagingIsWhole
    BY DEF SInv, Staged, StagingIsWhole
  <1> QED
    BY <1>1, InitStaged, StepStaged, PTL DEF Spec

----------------------------------------------------------------------------
(* What a run has counted.  GreenIsEarned speaks of runs that ended; that   *)
(* their rows are those of what the adapters printed is kept from the first *)
(* adapter on.                                                              *)

\* What the slot of an adapter nobody wrote answers.
Slot == SetToSeq({Unavailable(c) : c \in Cases})

\* The arrays a run may have judged.
Printed ==
    {<<>>, Slot} \cup UNION {Prints(w, r, Adapters[i]) :
                                w \in Worlds, r \in Runs, i \in DOMAIN Adapters}

RowType ==
    [adapter : {Adapters[i].id : i \in DOMAIN Adapters},
     matched : Nat, unmet : Nat, failed : Nat]

IsReport(x) ==
    /\ x = [problems |-> x.problems, used |-> x.used, rows |-> x.rows]
    /\ x.rows \in Seq(RowType)

\* Where a run is tells how many adapters have answered it.
Placed(r) ==
    /\ pc[r] \in {"idle", "start", "materialize"} => current[r] = 0 /\ printed[r] = <<>>
    /\ pc[r] \in {"adapters", "ended"} => Len(printed[r]) = current[r]
    /\ pc[r] = "running" => current[r] = Len(printed[r]) + 1
    /\ pc[r] = "ended" => current[r] = Len(Adapters)

\* The i-th row is that of the i-th array, or of a failure that was reported.
ToldOf(r, i) ==
    /\ i \in DOMAIN Adapters
    /\ \/ report[r].rows[i] = Row(Adapters[i], JudgeAll(world, Adapters[i], printed[r][i]))
       \/ /\ report[r].rows[i] = Row(Adapters[i], FailedRow(Adapters[i]))
          /\ report[r].problems # {}

\* A divergence counted as used was shown by an element of an array.
ShownOf(r, key) ==
    \E i \in DOMAIN printed[r] : \E k \in DOMAIN printed[r][i] :
        Shows(Adapters[i], key, printed[r][i][k])

RunInv(r) ==
    /\ IsReport(report[r])
    /\ Len(report[r].rows) = Len(printed[r])
    /\ Placed(r)
    /\ \A i \in DOMAIN printed[r] : ToldOf(r, i)
    /\ \A key \in report[r].used : ShownOf(r, key)
    /\ pc[r] = "ended" => Unreproduced(world, report[r].used) \subseteq report[r].problems

CInv ==
    /\ SInv
    /\ world \in Worlds
    /\ \A d \in DOMAIN staging : staging[d] \subseteq Files
    /\ current \in [Runs -> 0..Len(Adapters)]
    /\ printed \in [Runs -> Seq(Printed)]
    /\ report = [r \in Runs |-> report[r]]
    /\ \A r \in Runs : RunInv(r)

LEMMA SlotIsArray == IsArray(Slot)
<1> DEFINE S == {Unavailable(c) : c \in Cases}
           f == [c \in Cases |-> Unavailable(c)]
<1>1. IsFiniteSet(S)
  <2>1. f \in Surjection(Cases, S)
    BY DEF Surjection
  <2> QED
    BY <2>1, CorpusAssumption, FS_Surjection
<1>2. Cardinality(S) \in Nat /\ \E g : g \in Bijection(1..Cardinality(S), S)
  BY <1>1, FS_CardinalityType DEF ExistsBijection
<1>3. \A x \in S : x.support = "unavailable"
  BY DEF Unavailable
<1> HIDE DEF S, f
<1>4. \E g \in [1..Cardinality(S) -> S] : IsInjective(g)
  BY <1>2 DEF Bijection, Injection, IsInjective
<1>5. SetToSeq(S) \in [1..Cardinality(S) -> S]
  BY <1>4 DEF SetToSeq
<1>6. Slot = SetToSeq(S)
  BY DEF Slot, S
<1> HIDE DEF Slot
<1>7. DOMAIN Slot = 1..Cardinality(S) /\ Slot \in Seq(S)
  BY <1>2, <1>5, <1>6
<1>8. Len(Slot) = Cardinality(S)
  BY <1>2, <1>7
<1>9. \A k \in DOMAIN Slot : Slot[k] \in S
  BY <1>5, <1>6, <1>7
<1> QED
  BY <1>2, <1>3, <1>7, <1>8, <1>9 DEF IsArray, IsSequence, Supports

LEMMA PrintedAreArrays == \A results \in Printed : IsArray(results)
<1>1. IsArray(<<>>)
  BY DEF IsArray, IsSequence
<1> QED
  BY <1>1, SlotIsArray, PrintsAssumption DEF Printed

\* The row of a judged array, and of a failure, is a row.
LEMMA RowsAreRows ==
    ASSUME NEW i \in DOMAIN Adapters, NEW results \in Printed
    PROVE  /\ Row(Adapters[i], JudgeAll(world, Adapters[i], results)) \in RowType
           /\ Row(Adapters[i], FailedRow(Adapters[i])) \in RowType
           /\ FailedRow(Adapters[i]).used = {}
           /\ FailedRow(Adapters[i]).problems # {}
<1>1. IsArray(results)
  BY PrintedAreArrays
<1> DEFINE j == JudgeAll(world, Adapters[i], results)
<1>2. j.matched \in Nat /\ j.unmet \in Nat /\ j.failed \in Nat
  BY <1>1, ArrayJudged
<1> HIDE DEF j
<1>3. Row(Adapters[i], j) \in RowType
  BY <1>2 DEF Row, RowType
<1> DEFINE g == FailedRow(Adapters[i])
<1>4. /\ g.matched = 0 /\ g.unmet = 0 /\ g.failed = Cardinality(Cases)
      /\ g.used = {} /\ g.problems # {}
  BY DEF FailedRow, Nothing
<1> HIDE DEF g
<1>5. Cardinality(Cases) \in Nat
  BY CorpusAssumption, FS_CardinalityType
<1>6. Row(Adapters[i], g) \in RowType
  BY <1>4, <1>5 DEF Row, RowType
<1> QED
  BY <1>3, <1>4, <1>6 DEF j, g

\* What a run has counted is its own: a step of another run leaves it.
LEMMA OthersCountTheirs ==
    ASSUME NEW s \in Runs, RunInv(s), world' = world,
           pc'[s] = pc[s], current'[s] = current[s], printed'[s] = printed[s],
           report'[s] = report[s]
    PROVE  RunInv(s)'
BY DEF RunInv, IsReport, Placed, ToldOf, ShownOf, Unreproduced

LEMMA RecordStep ==
    ASSUME CInv, NEW r \in Runs, NEW results \in Printed, NEW j,
           pc[r] = "running", Record(r, results, j),
           \/ j = JudgeAll(world, Current(r), results)
           \/ j = FailedRow(Current(r))
    PROVE  /\ printed' \in [Runs -> Seq(Printed)]
           /\ report' = [s \in Runs |-> report'[s]]
           /\ \A s \in Runs : RunInv(s)'
<1> DEFINE n == Len(printed[r])
           i == n + 1
           row == Row(Current(r), j)
<1>1. /\ RunInv(r) /\ printed[r] \in Seq(Printed) /\ n \in Nat
      /\ IsReport(report[r]) /\ Len(report[r].rows) = n
      /\ report[r].rows \in Seq(RowType)
  BY DEF CInv, RunInv, IsReport
<1>2. current[r] = i /\ i \in DOMAIN Adapters /\ Current(r) = Adapters[i]
  <2>1. current[r] = i /\ current[r] \in 0..Len(Adapters)
    BY <1>1 DEF CInv, RunInv, Placed
  <2>2. DOMAIN Adapters = 1..Len(Adapters)
    BY CorpusAssumption DEF IsSequence
  <2> QED
    BY <1>1, <2>1, <2>2 DEF Current
<1>3. row \in RowType
  BY <1>2, RowsAreRows
<1>4. /\ pc' = [pc EXCEPT ![r] = "adapters"] /\ world' = world /\ current' = current
      /\ printed' = [printed EXCEPT ![r] = Append(printed[r], results)]
  BY DEF Record, Goto
<1>5. /\ report' = [s \in Runs |-> report'[s]]
      /\ \A s \in Runs : s # r => report'[s] = report[s]
      /\ report'[r] = [problems |-> report[r].problems \cup j.problems,
                       used |-> report[r].used \cup j.used,
                       rows |-> Append(report[r].rows, row)]
  <2> DEFINE mine == report[r]
             next == [[[mine EXCEPT !.problems = mine.problems \cup j.problems]
                            EXCEPT !.used = mine.used \cup j.used]
                            EXCEPT !.rows = Append(mine.rows, row)]
  <2>1. report' = [report EXCEPT ![r] = next]
    BY DEF Record, CInv, row
  <2>2. mine = [problems |-> mine.problems, used |-> mine.used, rows |-> mine.rows]
    BY <1>1 DEF IsReport
  <2> HIDE DEF mine, row
  <2>3. next = [problems |-> mine.problems \cup j.problems, used |-> mine.used \cup j.used,
                rows |-> Append(mine.rows, row)]
    <3> DEFINE told == mine.problems \cup j.problems
               shown == mine.used \cup j.used
               rows == Append(mine.rows, row)
               once == [mine EXCEPT !.problems = told]
               twice == [once EXCEPT !.used = shown]
    <3> HIDE DEF told, shown, rows
    <3>1. once = [problems |-> told, used |-> mine.used, rows |-> mine.rows]
      BY <2>2
    <3> HIDE DEF once
    <3>2. twice = [problems |-> told, used |-> shown, rows |-> mine.rows]
      BY <3>1
    <3> HIDE DEF twice
    <3>3. [twice EXCEPT !.rows = rows] = [problems |-> told, used |-> shown, rows |-> rows]
      BY <3>2
    <3> QED
      BY <3>3 DEF told, shown, rows, once, twice
  <2> HIDE DEF next
  <2>4. report = [s \in Runs |-> report[s]]
    BY DEF CInv
  <2> QED
    BY <2>1, <2>3, <2>4 DEF mine
<1> HIDE DEF n, i, row
<1>6. printed' \in [Runs -> Seq(Printed)]
  BY <1>1, <1>4 DEF CInv
<1>7. ASSUME NEW s \in Runs, s # r PROVE RunInv(s)'
  <2>1. pc'[s] = pc[s] /\ printed'[s] = printed[s] /\ current'[s] = current[s]
    BY <1>4, <1>7 DEF CInv, SInv
  <2> QED
    BY <1>4, <1>5, <1>7, <2>1, OthersCountTheirs DEF CInv
<1>8. RunInv(r)'
  <2> DEFINE after == Append(printed[r], results)
             rows == Append(report[r].rows, row)
  <2>1. printed'[r] = after /\ pc'[r] = "adapters" /\ current'[r] = i
    BY <1>2, <1>4 DEF CInv, SInv
  <2>2. /\ after \in Seq(Printed) /\ Len(after) = i /\ DOMAIN after = 1..i
        /\ after[i] = results /\ \A k \in 1..n : after[k] = printed[r][k]
        /\ DOMAIN printed[r] = 1..n
    BY <1>1 DEF n, i
  <2>3. /\ rows \in Seq(RowType) /\ Len(rows) = i /\ rows[i] = row
        /\ \A k \in 1..n : rows[k] = report[r].rows[k]
    BY <1>1, <1>3 DEF n, i
  <2>4. 1..i = 1..n \cup {i} /\ i \in 1..i /\ i \notin 1..n
    BY <1>1 DEF i
  <2> HIDE DEF after, rows
  <2>5. IsReport(report'[r]) /\ report'[r].rows = rows
    BY <1>5, <2>3 DEF IsReport, rows
  <2>6. /\ report'[r].used = report[r].used \cup j.used
        /\ report'[r].problems = report[r].problems \cup j.problems
    BY <1>5
  <2>7. ASSUME NEW k \in 1..i PROVE ToldOf(r, k)'
    <3>1. CASE k \in 1..n
      <4>1. ToldOf(r, k)
        BY <1>1, <2>2, <3>1 DEF RunInv
      <4>2. printed'[r][k] = printed[r][k] /\ report'[r].rows[k] = report[r].rows[k]
        BY <2>1, <2>2, <2>3, <2>5, <3>1
      <4> QED
        BY <1>4, <2>6, <4>1, <4>2 DEF ToldOf
    <3>2. CASE k = i
      <4>1. printed'[r][k] = results /\ report'[r].rows[k] = row
        BY <2>1, <2>2, <2>3, <2>5, <3>2
      <4>2. CASE j = JudgeAll(world, Current(r), results)
        BY <1>2, <1>4, <3>2, <4>1, <4>2 DEF ToldOf, row
      <4>3. CASE j = FailedRow(Current(r))
        <5>1. report'[r].problems # {}
          BY <1>2, <2>6, <4>3, RowsAreRows
        <5> QED
          BY <1>2, <3>2, <4>1, <4>3, <5>1 DEF ToldOf, row
      <4> QED
        BY <4>2, <4>3
    <3> QED
      BY <2>4, <3>1, <3>2
  <2>8. ASSUME NEW key \in report'[r].used PROVE ShownOf(r, key)'
    <3>1. CASE key \in report[r].used
      <4>1. PICK k \in 1..n : \E e \in DOMAIN printed[r][k] :
               Shows(Adapters[k], key, printed[r][k][e])
        BY <1>1, <2>2, <3>1 DEF RunInv, ShownOf
      <4>2. k \in DOMAIN printed'[r] /\ printed'[r][k] = printed[r][k]
        BY <2>1, <2>2, <2>4, <4>1
      <4> QED
        BY <4>1, <4>2 DEF ShownOf, Shows
    <3>2. CASE key \in j.used
      <4>1. j = JudgeAll(world, Adapters[i], results)
        BY <1>2, <3>2, RowsAreRows
      <4>2. PICK e \in DOMAIN results : Shows(Adapters[i], key, results[e])
        BY <3>2, <4>1, PrintedAreArrays, ArrayJudged
      <4>3. i \in DOMAIN printed'[r] /\ printed'[r][i] = results
        BY <2>1, <2>2, <2>4
      <4> QED
        BY <4>2, <4>3 DEF ShownOf, Shows
    <3> QED
      BY <2>6, <3>1, <3>2
  <2>9. Len(report'[r].rows) = Len(printed'[r]) /\ Placed(r)'
    BY <2>1, <2>2, <2>3, <2>5 DEF Placed
  <2> QED
    BY <2>1, <2>2, <2>5, <2>7, <2>8, <2>9 DEF RunInv
<1> QED
  BY <1>5, <1>6, <1>7, <1>8

\* No run has been answered when the runs start.
LEMMA InitCounted == Init => CInv
<1> SUFFICES ASSUME Init PROVE CInv
  OBVIOUS
<1>1. SInv
  BY InitStaged
<1>2. /\ world \in Worlds /\ DOMAIN staging = {}
      /\ current \in [Runs -> 0..Len(Adapters)] /\ printed \in [Runs -> Seq(Printed)]
      /\ report = [r \in Runs |-> report[r]]
  BY CorpusAssumption DEF Init, IsSequence
<1>3. ASSUME NEW r \in Runs PROVE RunInv(r)
  <2>1. /\ pc[r] \in {"idle", "start"} /\ current[r] = 0 /\ printed[r] = <<>>
        /\ report[r] = Empty
    BY DEF Init
  <2>2. IsReport(report[r]) /\ Len(report[r].rows) = 0 /\ report[r].used = {}
    BY <2>1 DEF IsReport, Empty
  <2>3. DOMAIN printed[r] = {} /\ Len(printed[r]) = 0
    BY <2>1
  <2> QED
    BY <2>1, <2>2, <2>3 DEF RunInv, Placed
<1> QED
  BY <1>1, <1>2, <1>3 DEF CInv

\* A step that leaves what every run has counted, and moves one run on.
LEMMA CountStays ==
    ASSUME CInv, NEW r \in Runs, NEW label,
           pc' = [pc EXCEPT ![r] = label],
           world' = world, printed' = printed, report' = report,
           current' \in [Runs -> 0..Len(Adapters)],
           \A s \in Runs : s # r => current'[s] = current[s],
           Placed(r)', label # "ended"
    PROVE  /\ printed' \in [Runs -> Seq(Printed)]
           /\ report' = [s \in Runs |-> report'[s]]
           /\ \A s \in Runs : RunInv(s)'
<1>1. pc'[r] = label /\ \A s \in Runs : s # r => pc'[s] = pc[s]
  BY DEF CInv, SInv
<1>2. RunInv(r)'
  BY <1>1 DEF CInv, RunInv, IsReport, ToldOf, ShownOf
<1>3. ASSUME NEW s \in Runs, s # r PROVE RunInv(s)'
  BY <1>1, <1>3, OthersCountTheirs DEF CInv
<1> QED
  BY <1>2, <1>3 DEF CInv

\* The same for a step that adds to the problems of the run: of one that starts,
\* or of one whose adapters have all answered.
LEMMA ProblemsAdd ==
    ASSUME CInv, NEW r \in Runs, NEW label, NEW problems,
           pc' = [pc EXCEPT ![r] = label],
           world' = world, printed' = printed, current' = current,
           report' = [report EXCEPT ![r].problems = problems],
           printed[r] = <<>> \/ report[r].problems \subseteq problems,
           Placed(r)',
           label = "ended" => Unreproduced(world, report[r].used) \subseteq problems
    PROVE  /\ printed' \in [Runs -> Seq(Printed)]
           /\ report' = [s \in Runs |-> report'[s]]
           /\ \A s \in Runs : RunInv(s)'
<1>1. pc'[r] = label /\ \A s \in Runs : s # r => pc'[s] = pc[s]
  BY DEF CInv, SInv
<1>2. /\ report' = [s \in Runs |-> report'[s]]
      /\ \A s \in Runs : s # r => report'[s] = report[s]
      /\ report'[r] = [report[r] EXCEPT !.problems = problems]
  BY DEF CInv
<1>3. RunInv(r) /\ IsReport(report[r])
  BY DEF CInv, RunInv
<1>4. report'[r] = [problems |-> problems, used |-> report[r].used,
                    rows |-> report[r].rows]
  BY <1>2, <1>3 DEF IsReport
<1>5. RunInv(r)'
  <2>1. IsReport(report'[r]) /\ report'[r].rows = report[r].rows
        /\ report'[r].used = report[r].used /\ report'[r].problems = problems
    BY <1>3, <1>4 DEF IsReport
  <2>2. ASSUME NEW i \in DOMAIN printed[r] PROVE ToldOf(r, i)'
    <3>1. ToldOf(r, i) /\ printed[r] # <<>>
      BY <1>3 DEF RunInv
    <3> QED
      BY <2>1, <3>1 DEF ToldOf
  <2>3. ASSUME NEW key \in report[r].used PROVE ShownOf(r, key)'
    BY <1>3, <2>3 DEF RunInv, ShownOf
  <2> QED
    BY <1>1, <1>3, <2>1, <2>2, <2>3 DEF RunInv
<1>6. ASSUME NEW s \in Runs, s # r PROVE RunInv(s)'
  BY <1>1, <1>2, <1>6, OthersCountTheirs DEF CInv
<1> QED
  BY <1>2, <1>5, <1>6 DEF CInv

\* Every step of a run keeps the account.
LEMMA StepCounted == CInv /\ [Next]_vars => CInv'
<1> SUFFICES ASSUME CInv, [Next]_vars PROVE CInv'
  OBVIOUS
<1>0. SInv'
  BY StepStaged DEF CInv
<1>1. CASE UNCHANGED vars
  <2>1. UNCHANGED <<world, pc, staging, current, printed, report>>
    BY <1>1 DEF vars
  <2>2. \A r \in Runs : RunInv(r)'
    BY <2>1, OthersCountTheirs DEF CInv
  <2> QED
    BY <1>0, <2>1, <2>2 DEF CInv
<1>2. ASSUME NEW r \in Runs, RunStep(r) \/ Kill(r) PROVE CInv'
  <2>0. /\ RunInv(r) /\ pc \in [Runs -> Labels] /\ pc[r] \in Labels
        /\ toWrite[r] \subseteq Files /\ Placed(r)
        /\ printed[r] \in Seq(Printed) /\ Len(printed[r]) \in Nat
        /\ current[r] \in 0..Len(Adapters)
    BY DEF CInv, SInv, RunInv
  <2>1. /\ world' \in Worlds
        /\ \A d \in DOMAIN staging' : staging'[d] \subseteq Files
    <3>1. CASE \E results, j : Record(r, results, j)
      BY <3>1 DEF Record, CInv
    <3>2. CASE Stage(r)
      BY <3>2 DEF Stage, CInv
    <3>3. CASE Materialize(r)
      BY <2>0, <3>3 DEF Materialize, CInv
    <3>4. CASE Finish(r)
      BY <3>4 DEF Finish, CInv
    <3>5. CASE MaterializeThrows(r) \/ NextAdapter(r) \/ ReadStaged(r) \/ Kill(r)
      <4>1. UNCHANGED <<world, staging>>
        BY <3>5 DEF MaterializeThrows, NextAdapter, ReadStaged, Kill
      <4> QED
        BY <4>1 DEF CInv
    <3>6. Answer(r) \/ Fail(r) \/ NoCommand(r) => \E results, j : Record(r, results, j)
      BY Zenon DEF Answer, Fail, NoCommand
    <3> QED
      BY <1>2, <3>1, <3>2, <3>3, <3>4, <3>5, <3>6, Zenon DEF RunStep
  <2> SUFFICES /\ current' \in [Runs -> 0..Len(Adapters)]
               /\ printed' \in [Runs -> Seq(Printed)]
               /\ report' = [s \in Runs |-> report'[s]]
               /\ \A s \in Runs : RunInv(s)'
    BY <1>0, <2>1 DEF CInv
  <2>2. CASE Stage(r)
    <3>1. /\ pc' = [pc EXCEPT ![r] = "materialize"] /\ pc[r] = "start"
          /\ world' = world /\ printed' = printed /\ current' = current
          /\ report' = [report EXCEPT ![r].problems = Opening(world)]
      BY <2>2 DEF Stage, Goto
    <3>2. printed[r] = <<>> /\ current[r] = 0
      BY <2>0, <3>1 DEF Placed
    <3>3. Placed(r)'
      BY <2>0, <3>1, <3>2 DEF Placed
    <3> QED
      BY <3>1, <3>2, <3>3, ProblemsAdd DEF CInv
  <2>3. CASE Materialize(r)
    <3>1. /\ \E label \in {"adapters", pc[r]} : pc' = [pc EXCEPT ![r] = label]
          /\ pc[r] = "materialize"
          /\ UNCHANGED <<world, printed, current, report>>
      BY <2>0, <2>3 DEF Materialize, Goto
    <3>2. PICK label \in {"adapters", "materialize"} : pc' = [pc EXCEPT ![r] = label]
      BY <3>1
    <3>3. printed[r] = <<>> /\ current[r] = 0
      BY <2>0, <3>1 DEF Placed
    <3>4. Placed(r)'
      BY <2>0, <3>1, <3>2, <3>3 DEF Placed
    <3> QED
      BY <3>1, <3>2, <3>4, CountStays DEF CInv
  <2>4. CASE MaterializeThrows(r)
    <3>1. /\ pc' = [pc EXCEPT ![r] = "thrown"]
          /\ UNCHANGED <<world, printed, current, report>>
      BY <2>4 DEF MaterializeThrows, Goto
    <3>2. Placed(r)'
      BY <2>0, <3>1 DEF Placed
    <3> QED
      BY <3>1, <3>2, CountStays DEF CInv
  <2>5. CASE NextAdapter(r)
    <3>1. /\ pc' = [pc EXCEPT ![r] = "running"] /\ pc[r] = "adapters"
          /\ current' = [current EXCEPT ![r] = current[r] + 1]
          /\ current[r] < Len(Adapters)
          /\ UNCHANGED <<world, printed, report>>
      BY <2>5 DEF NextAdapter, Goto
    <3>2. /\ current' \in [Runs -> 0..Len(Adapters)] /\ current'[r] = current[r] + 1
          /\ \A s \in Runs : s # r => current'[s] = current[s]
      BY <2>0, <3>1, CorpusAssumption DEF CInv, IsSequence
    <3>3. Placed(r)'
      BY <2>0, <3>1, <3>2 DEF Placed
    <3> QED
      BY <3>1, <3>2, <3>3, CountStays
  <2>6. CASE ReadStaged(r)
    <3>1. UNCHANGED <<world, pc, printed, current, report>>
      BY <2>6 DEF ReadStaged
    <3>2. \A s \in Runs : RunInv(s)'
      BY <3>1, OthersCountTheirs DEF CInv
    <3> QED
      BY <3>1, <3>2 DEF CInv
  <2>7. CASE Answer(r) \/ Fail(r) \/ NoCommand(r)
    <3>1. pc[r] = "running" /\ Current(r) = Adapters[current[r]]
          /\ current[r] \in DOMAIN Adapters
      <4>1. pc[r] = "running"
        BY <2>7 DEF Answer, Fail, NoCommand
      <4>2. current[r] = Len(printed[r]) + 1
        BY <2>0, <4>1 DEF Placed
      <4> QED
        BY <2>0, <4>1, <4>2, CorpusAssumption DEF IsSequence, Current
    <3>2. \E results \in Printed : \E j :
             /\ Record(r, results, j)
             /\ \/ j = JudgeAll(world, Current(r), results)
                \/ j = FailedRow(Current(r))
      <4>1. CASE Answer(r)
        <5>1. Prints(world, r, Current(r)) \subseteq Printed
          BY <3>1 DEF Printed, CInv
        <5> QED
          BY <4>1, <5>1 DEF Answer
      <4>2. CASE Fail(r)
        <5>1. Record(r, <<>>, FailedRow(Current(r))) /\ <<>> \in Printed
          BY <4>2 DEF Fail, Printed
        <5> QED
          BY <5>1
      <4>3. CASE NoCommand(r)
        <5>1. \/ Record(r, Slot, JudgeAll(world, Current(r), Slot))
              \/ Record(r, <<>>, FailedRow(Current(r)))
          BY <4>3 DEF NoCommand, Slot
        <5>2. Slot \in Printed /\ <<>> \in Printed
          BY DEF Printed
        <5> QED
          BY <5>1, <5>2
      <4> QED
        BY <2>7, <4>1, <4>2, <4>3
    <3>3. current' = current
      BY <3>2 DEF Record
    <3> QED
      BY <3>1, <3>2, <3>3, RecordStep DEF CInv
  <2>8. CASE Finish(r)
    <3> DEFINE problems == report[r].problems \cup Unreproduced(world, report[r].used)
    <3>1. /\ pc' = [pc EXCEPT ![r] = "ended"] /\ pc[r] = "adapters"
          /\ current[r] = Len(Adapters)
          /\ world' = world /\ printed' = printed /\ current' = current
          /\ report' = [report EXCEPT ![r].problems = problems]
      BY <2>8 DEF Finish, Goto, CInv
    <3>2. Placed(r)'
      BY <2>0, <3>1 DEF Placed
    <3> QED
      BY <3>1, <3>2, ProblemsAdd DEF CInv
  <2>9. CASE Kill(r)
    <3>1. /\ pc' = [pc EXCEPT ![r] = "killed"]
          /\ UNCHANGED <<world, printed, current, report>>
      BY <2>9 DEF Kill, Goto
    <3>2. Placed(r)'
      BY <2>0, <3>1 DEF Placed
    <3> QED
      BY <3>1, <3>2, CountStays DEF CInv
  <2> QED
    BY <1>2, <2>2, <2>3, <2>4, <2>5, <2>6, <2>7, <2>8, <2>9 DEF RunStep
<1> QED
  BY <1>1, <1>2 DEF Next

----------------------------------------------------------------------------
(* What the account says of a run that ended.                               *)

\* Every row accounts for the whole corpus.
LEMMA RowsAccount ==
    ASSUME CInv, NEW r \in Runs, NEW i \in DOMAIN report[r].rows
    PROVE  LET row == report[r].rows[i]
           IN  /\ row.matched + row.unmet <= Cardinality(Cases)
               /\ row.failed >= Cardinality(Cases) - row.matched - row.unmet
<1>1. /\ RunInv(r) /\ printed[r] \in Seq(Printed) /\ report[r].rows \in Seq(RowType)
      /\ Cardinality(Cases) \in Nat
  BY CorpusAssumption, FS_CardinalityType DEF CInv, RunInv, IsReport
<1>2. i \in DOMAIN printed[r] /\ printed[r][i] \in Printed
  BY <1>1 DEF RunInv
<1>3. ToldOf(r, i)
  BY <1>1, <1>2 DEF RunInv
<1> DEFINE j == JudgeAll(world, Adapters[i], printed[r][i])
           row == report[r].rows[i]
<1>4. CASE row = Row(Adapters[i], j)
  <2>1. /\ j.matched \in Nat /\ j.unmet \in Nat /\ j.failed \in Nat
        /\ j.matched + j.unmet <= Cardinality(Cases)
        /\ j.failed >= Cardinality(Cases) - j.matched - j.unmet
    BY <1>2, PrintedAreArrays, ArrayJudged
  <2> HIDE DEF j
  <2>2. row.matched = j.matched /\ row.unmet = j.unmet /\ row.failed = j.failed
    BY <1>4 DEF Row
  <2> QED
    BY <2>1, <2>2
<1>5. CASE row = Row(Adapters[i], FailedRow(Adapters[i]))
  <2>1. row.matched = 0 /\ row.unmet = 0 /\ row.failed = Cardinality(Cases)
    BY <1>5 DEF Row, FailedRow, Nothing
  <2> QED
    BY <1>1, <2>1
<1> QED
  BY <1>3, <1>4, <1>5 DEF ToldOf

\* Where a run ended with exit code 0, each row is that of a judged array and
\* counts no failure.
LEMMA GreenRows ==
    ASSUME CInv, NEW r \in Runs, pc[r] = "ended", exitCode(r) = 0,
           NEW i \in DOMAIN Adapters
    PROVE  /\ i \in DOMAIN printed[r] /\ IsArray(printed[r][i])
           /\ JudgeAll(world, Adapters[i], printed[r][i]).failed = 0
<1>1. /\ RunInv(r) /\ printed[r] \in Seq(Printed) /\ report[r].rows \in Seq(RowType)
      /\ Len(report[r].rows) = Len(printed[r]) /\ Len(printed[r]) = Len(Adapters)
  BY DEF CInv, RunInv, IsReport, Placed
<1>2. /\ i \in DOMAIN printed[r] /\ i \in DOMAIN report[r].rows
      /\ IsArray(printed[r][i])
  BY <1>1, CorpusAssumption, PrintedAreArrays DEF IsSequence
<1>3. /\ report[r].problems = {}
      /\ ~(report[r].rows[i].failed > 0)
  BY <1>2 DEF exitCode
<1>4. report[r].rows[i] = Row(Adapters[i], JudgeAll(world, Adapters[i], printed[r][i]))
  BY <1>1, <1>2, <1>3 DEF RunInv, ToldOf
<1> DEFINE j == JudgeAll(world, Adapters[i], printed[r][i])
<1>5. j.failed \in Nat
  BY <1>2, ArrayJudged
<1> HIDE DEF j
<1>6. report[r].rows[i].failed = j.failed
  BY <1>4 DEF Row, j
<1>7. j.failed = 0
  BY <1>3, <1>5, <1>6
<1> QED
  BY <1>2, <1>7 DEF j

\* An exit of 0 means one answer of every available adapter to every case, which
\* agrees with the oracle or is declared.
LEMMA GreenAgreed == CInv => GreenMeansAgreed
<1> SUFFICES ASSUME CInv, NEW r \in Runs, pc[r] = "ended", exitCode(r) = 0,
                    NEW i \in DOMAIN Adapters, Adapters[i].status = "available",
                    NEW c \in Cases
             PROVE  LET mine == {k \in DOMAIN printed[r][i] : printed[r][i][k].case = c}
                    IN  /\ Cardinality(mine) = 1
                        /\ \A k \in mine :
                              LET given == printed[r][i][k]
                              IN  \/ /\ given.support = "supported"
                                     /\ Agrees(Adapters[i], c, given.answer)
                                  \/ /\ given.support = "unsupported"
                                     /\ <<c, Adapters[i].id>> \in world.unsupportedBy
  BY Zenon DEF GreenMeansAgreed
<1> DEFINE results == printed[r][i]
           mine == {k \in DOMAIN results : results[k].case = c}
<1>1. IsArray(results) /\ JudgeAll(world, Adapters[i], results).failed = 0
  BY GreenRows
<1>2. PICK k \in DOMAIN results :
         /\ results[k].case = c /\ Passes(world, Adapters[i], results[k])
         /\ \A l \in DOMAIN results : results[l].case = c => l = k
  BY <1>1, ArrayJudged
<1> HIDE DEF results
<1>3. mine = {k}
  BY <1>2
<1>4. Cardinality(mine) = 1
  BY <1>3, FS_Singleton
<1>5. \/ /\ results[k].support = "supported"
         /\ Agrees(Adapters[i], c, results[k].answer)
      \/ /\ results[k].support = "unsupported"
         /\ <<c, Adapters[i].id>> \in world.unsupportedBy
  <2>1. CASE /\ results[k].support = "supported"
             /\ Suppressed(world.register, Adapters[i].id, results[k].case,
                           Differences(Adapters[i], results[k]))
    <3>1. IsSequence(results[k].answer.diagnostics)
      BY <1>1, <2>1 DEF IsArray
    <3> QED
      BY <1>2, <2>1, <3>1, SuppressedAgrees DEF Differences
  <2> QED
    BY <1>2, <2>1 DEF Passes
<1> QED
  BY <1>3, <1>4, <1>5 DEF results

\* An exit of 0 means that every registered divergence was shown.
LEMMA GreenIsLive == CInv => RegisterIsLive
<1> SUFFICES ASSUME CInv, NEW r \in Runs, pc[r] = "ended", exitCode(r) = 0,
                    NEW key \in world.register
             PROVE  \E i \in DOMAIN Adapters :
                       /\ Adapters[i].id = key.adapter
                       /\ \E k \in DOMAIN printed[r][i] :
                             LET given == printed[r][i][k]
                             IN  /\ given.support = "supported" /\ given.case = key.case
                                 /\ key.code \in compare(Verdict(key.case), given.answer,
                                                         key.case \in Compatibility,
                                                         Adapters[i].pointerCompatible)
  BY Zenon DEF RegisterIsLive
<1>1. RunInv(r) /\ report[r].problems = {}
  BY DEF CInv, exitCode
<1>2. key \in report[r].used
  <2>1. Unreproduced(world, report[r].used) = {}
    BY <1>1 DEF RunInv
  <2> QED
    BY <2>1 DEF Unreproduced
<1>3. PICK i \in DOMAIN printed[r] : \E k \in DOMAIN printed[r][i] :
         Shows(Adapters[i], key, printed[r][i][k])
  BY <1>1, <1>2 DEF RunInv, ShownOf
<1>4. i \in DOMAIN Adapters
  BY <1>1, <1>3 DEF RunInv, ToldOf
<1> QED
  BY <1>3, <1>4 DEF Shows, Differences

\* For any number of runs, adapters and cases, any registers and any arrays: an
\* exit of 0 is earned.
THEOREM GreenHolds == Spec => []GreenIsEarned
<1>1. CInv => TypeOK
  BY DEF CInv, SInv, RunInv, TypeOK
<1>2. CInv => RowsAccountForCases
  BY RowsAccount DEF RowsAccountForCases
<1>3. CInv => GreenIsEarned
  BY <1>1, <1>2, GreenAgreed, GreenIsLive DEF GreenIsEarned
<1> QED
  BY <1>3, InitCounted, StepCounted, PTL DEF Spec
=============================================================================
