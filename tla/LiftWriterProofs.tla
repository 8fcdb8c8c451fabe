-------------------------- MODULE LiftWriterProofs --------------------------
(***************************************************************************)
(* LiftWriter for every set of lifts, paths, faults and crashes: the state *)
(* is well formed, a lift's temporary files are its own, none is left      *)
(* behind, and the final paths only ever hold whole files.                 *)
(***************************************************************************)
EXTENDS LiftWriter, TLAPS

Temps == {TempOf(p) : p \in Path}

Writing == {"open", "write", "rename"}

\* The temporary files that l opened and has not renamed.
Held(l) == {Temp(l, i) : i \in (renamed[l] + 1)..opened[l]}

\* How far l is in its plan, by the call it makes next.
Ledger(l) ==
    /\ pc[l] \in {"check", "lower"} => opened[l] = 0 /\ renamed[l] = 0
    /\ pc[l] \in {"open", "write"} => renamed[l] = 0
    /\ pc[l] = "open" => opened[l] < Len(Plan(l))
    /\ pc[l] = "write" => opened[l] \in 1..Len(Plan(l))
    /\ pc[l] = "rename" => opened[l] = Len(Plan(l)) /\ renamed[l] < Len(Plan(l))
    /\ pc[l] \in Writing => owned[l] = Held(l)
    /\ pc[l] \in {"lower"} \cup Writing =>
          request[l]["document"] # request[l]["diagnostics"]
    /\ pc[l] \in {"check", "lower", "done"} => owned[l] = {}

\* What l holds is there and is of its own making.
Custody(l) ==
    \A t \in owned[l] : t \in Temps /\ files[t] # Absent /\ files[t].writer = l

\* The temporary files of l whose write is over hold the planned bytes.
Written(l) == IF pc[l] = "write" THEN opened[l] - 1 ELSE opened[l]

Ready(l) ==
    pc[l] \in Writing =>
        \A i \in (renamed[l] + 1)..Written(l) :
            files[Temp(l, i)] = Whole(l, Plan(l)[i])

\* A file of l under a temporary name is one that l holds.
Accounted(l) ==
    \A t \in Temps : files[t] # Absent /\ files[t].writer = l => t \in owned[l]

IInv ==
    /\ TypeOK
    /\ \A l \in Lift : Ledger(l)
    /\ Unaliased => \A l \in Lift : Custody(l) /\ Ready(l)
    /\ Unaliased => \A l \in Lift \ Stuck : Accounted(l)

-----------------------------------------------------------------------------
(* The plan *)

\* A plan has one or two files, each in a slot, none twice.
LEMMA PlanShape ==
    ASSUME TypeOK, NEW l \in Lift
    PROVE  /\ Len(Plan(l)) \in 1..2
           /\ \A i \in 1..Len(Plan(l)) : Plan(l)[i] \in Slot
           /\ \A i \in 1..Len(Plan(l)) :
                 /\ Final(l, i) = request[l][Plan(l)[i]]
                 /\ Final(l, i) \in Path
                 /\ Temp(l, i) = TempOf(Final(l, i))
                 /\ Temp(l, i) \in Name /\ Temp(l, i) \in Temps
           /\ \A i, j \in 1..Len(Plan(l)) : Plan(l)[i] = Plan(l)[j] => i = j
<1>1. Len(Plan(l)) \in 1..2 /\ \A i \in 1..Len(Plan(l)) : Plan(l)[i] \in Slot
  BY DEF Plan, Slot
<1>2. \A i \in 1..Len(Plan(l)) : Final(l, i) \in Path
  BY <1>1 DEF TypeOK, Final
<1>3. \A i, j \in 1..Len(Plan(l)) : Plan(l)[i] = Plan(l)[j] => i = j
  BY DEF Plan
<1> QED
  BY <1>1, <1>2, <1>3 DEF Temp, Final, Name, Temps

\* A step that opens, writes or drops a temporary file touches no final path.
LEMMA FinalsUntouched ==
    ASSUME IInv, Unaliased, NEW k \in Lift,
           OpenTemp(k) \/ WriteTemp(k) \/ DropTemp(k)
    PROVE  \A p \in Path : files'[p] = files[p]
<1>1. TypeOK /\ Ledger(k) /\ Custody(k)
  BY DEF IInv
<1>2. PICK t \in Temps : \E c : files' = [files EXCEPT ![t] = c] \/ files' = files
  <2>1. CASE OpenTemp(k)
    <3>1. opened[k] + 1 \in 1..Len(Plan(k))
      <4>1. opened[k] \in 0..2 /\ Len(Plan(k)) \in 1..2
        BY <1>1, PlanShape DEF TypeOK
      <4>2. opened[k] < Len(Plan(k))
        BY <1>1, <2>1 DEF OpenTemp, Ledger
      <4> QED
        BY <4>1, <4>2
    <3>2. Temp(k, opened[k] + 1) \in Temps
      BY <1>1, <3>1, PlanShape
    <3> QED
      BY <2>1, <3>2 DEF OpenTemp
  <2>2. CASE WriteTemp(k)
    <3>1. opened[k] \in 1..Len(Plan(k))
      BY <1>1, <2>2 DEF WriteTemp, Ledger
    <3>2. Temp(k, opened[k]) \in Temps
      BY <1>1, <3>1, PlanShape
    <3> QED
      BY <2>2, <3>2 DEF WriteTemp
  <2>3. CASE DropTemp(k)
    BY <1>1, <2>3 DEF DropTemp, Custody
  <2> QED
    BY <2>1, <2>2, <2>3
<1> QED
  BY <1>1, <1>2 DEF TypeOK, Name, Temps, Unaliased

\* The temporary names of one plan differ when the two outputs do.
LEMMA TempsDiffer ==
    ASSUME TypeOK, NEW l \in Lift,
           request[l]["document"] # request[l]["diagnostics"],
           NEW i \in 1..Len(Plan(l)), NEW j \in 1..Len(Plan(l)), i # j
    PROVE  Temp(l, i) # Temp(l, j)
<1>1. Plan(l)[i] \in Slot /\ Plan(l)[j] \in Slot /\ Plan(l)[i] # Plan(l)[j]
  BY PlanShape
<1>2. request[l][Plan(l)[i]] # request[l][Plan(l)[j]]
  BY <1>1 DEF Slot
<1> QED
  BY <1>2, PlanShape, TempAssumption

\* A step that keeps what a lift was asked and what it writes keeps its plan.
LEMMA PlanStays ==
    ASSUME NEW l \in Lift, request' = request, emission'[l] = emission[l]
    PROVE  /\ Plan(l)' = Plan(l)
           /\ \A i : Final(l, i)' = Final(l, i) /\ Temp(l, i)' = Temp(l, i)
  BY DEF Plan, Final, Temp

\* What a step leaves alone of a lift keeps the lift's part of the invariant.
LEMMA Bystander ==
    ASSUME TypeOK, NEW l \in Lift, Ledger(l), request' = request,
           pc'[l] = pc[l], emission'[l] = emission[l], opened'[l] = opened[l],
           renamed'[l] = renamed[l], owned'[l] = owned[l]
    PROVE  /\ Ledger(l)'
           /\ Custody(l) /\ (\A t \in owned[l] : files'[t] = files[t])
                 => Custody(l)'
           /\ Ready(l) /\ (\A t \in owned[l] : files'[t] = files[t])
                 => Ready(l)'
<1>1. Plan(l)' = Plan(l) /\ \A i : Final(l, i)' = Final(l, i) /\ Temp(l, i)' = Temp(l, i)
  BY PlanStays
<1>2. Held(l)' = Held(l)
  BY <1>1 DEF Held
<1>3. Ledger(l)'
  BY <1>1, <1>2 DEF Ledger
<1>4. Custody(l) /\ (\A t \in owned[l] : files'[t] = files[t]) => Custody(l)'
  BY DEF Custody
<1>5. ASSUME Ready(l), \A t \in owned[l] : files'[t] = files[t]
      PROVE  Ready(l)'
  <2>1. Written(l)' = Written(l)
    BY DEF Written
  <2> SUFFICES ASSUME pc[l] \in Writing,
                      NEW i \in (renamed[l] + 1)..Written(l)
               PROVE  files'[Temp(l, i)] = Whole(l, Plan(l)[i])
    BY <1>1, <2>1 DEF Ready, Whole
  <2>2. i \in (renamed[l] + 1)..opened[l]
    BY DEF TypeOK, Written
  <2>3. Temp(l, i) \in owned[l]
    BY <2>2 DEF Ledger, Held
  <2> QED
    BY <1>5, <2>3 DEF Ready
<1> QED
  BY <1>3, <1>4, <1>5

-----------------------------------------------------------------------------
(* One lemma per kind of step *)

\* Calls that only move a lift on: the file system, the plans and what is
\* held stay.
Turns(k) ==
    \/ RefuseOutput(k) \/ AcceptOutput(k) \/ RefuseBundle(k) \/ FailOpen(k)
    \/ FailWrite(k) \/ FailRename(k) \/ RefuseWrite(k) \/ Crash(k)

\* A lift that changes direction leaves every file as it was.
LEMMA TurnStep ==
    ASSUME IInv, NEW k \in Lift, Turns(k)
    PROVE  IInv'
<1>1. PICK s \in Step, r \in {"running", "refused", "blocked", "written"} :
          /\ pc' = [pc EXCEPT ![k] = s]
          /\ outcome' = [outcome EXCEPT ![k] = r]
          /\ s \in {"done", "lower", "drop", "dead"}
          /\ s = "done" => owned[k] = {}
          /\ s = "lower" => pc[k] = "check" /\ ~Refusable(k)
  <2>1. outcome = [outcome EXCEPT ![k] = outcome[k]]
        /\ outcome[k] \in {"running", "refused", "blocked", "written"}
    BY DEF IInv, TypeOK
  <2>2. Ledger(k)
    BY DEF IInv
  <2>3. CASE RefuseOutput(k)
    BY <2>2, <2>3 DEF RefuseOutput, GoTo, Become, Step, Ledger
  <2>4. CASE AcceptOutput(k)
    BY <2>1, <2>4 DEF AcceptOutput, GoTo, Step
  <2>5. CASE RefuseBundle(k)
    BY <2>2, <2>5 DEF RefuseBundle, GoTo, Become, Step, Ledger
  <2>6. CASE FailOpen(k)
    BY <2>1, <2>6 DEF FailOpen, GoTo, Step
  <2>7. CASE FailWrite(k)
    BY <2>1, <2>7 DEF FailWrite, GoTo, Step
  <2>8. CASE FailRename(k)
    BY <2>1, <2>8 DEF FailRename, GoTo, Step
  <2>9. CASE RefuseWrite(k)
    BY <2>9 DEF RefuseWrite, GoTo, Become, Step
  <2>10. CASE Crash(k)
    BY <2>1, <2>10 DEF Crash, GoTo, Step
  <2> QED
    BY <2>3, <2>4, <2>5, <2>6, <2>7, <2>8, <2>9, <2>10 DEF Turns
<1>2. UNCHANGED <<files, request, emission, opened, renamed, owned>>
  BY DEF Turns, RefuseOutput, AcceptOutput, RefuseBundle, FailOpen, FailWrite,
         FailRename, RefuseWrite, Crash
<1>3. TypeOK'
  BY <1>1, <1>2 DEF IInv, TypeOK
<1>4. ASSUME NEW l \in Lift
      PROVE  Ledger(l)' /\ (Custody(l) => Custody(l)') /\ (Ready(l) => Ready(l)')
  <2>1. TypeOK /\ Ledger(l)
    BY DEF IInv
  <2>2. CASE l # k
    <3>1. pc'[l] = pc[l]
      BY <1>1, <2>1, <2>2 DEF TypeOK
    <3> QED
      BY <1>2, <2>1, <3>1, Bystander
  <2>3. CASE l = k
    <3>1. pc'[k] = s /\ s \notin Writing
      BY <1>1, <2>1 DEF TypeOK, Writing
    <3>2. s = "lower" => opened[k] = 0 /\ renamed[k] = 0 /\ owned[k] = {}
                         /\ request[k]["document"] # request[k]["diagnostics"]
      BY <1>1, <2>1, <2>3 DEF Ledger, Refusable
    <3>3. Ledger(k)'
      BY <1>1, <1>2, <3>1, <3>2 DEF Ledger, Writing
    <3>4. Ready(k)' /\ (Custody(k) => Custody(k)')
      BY <1>2, <3>1 DEF Ready, Custody
    <3> QED
      BY <2>3, <3>3, <3>4
  <2> QED
    BY <2>2, <2>3
<1>5. \A l \in Lift : Accounted(l) => Accounted(l)'
  BY <1>2 DEF Accounted
<1> QED
  BY <1>3, <1>4, <1>5 DEF IInv, Unaliased

\* The lowering decides what to write and touches no file.
LEMMA LowerStep ==
    ASSUME IInv, NEW k \in Lift, Lower(k)
    PROVE  IInv'
<1>1. PICK e \in Emissions : emission' = [emission EXCEPT ![k] = e]
  BY DEF Lower
<1>2. /\ pc[k] = "lower" /\ pc' = [pc EXCEPT ![k] = "open"]
      /\ UNCHANGED <<files, request, opened, renamed, owned, outcome>>
  BY DEF Lower, GoTo
<1>3. TypeOK'
  BY <1>1, <1>2, EmissionsAssumption DEF IInv, TypeOK, Step
<1>4. ASSUME NEW l \in Lift
      PROVE  Ledger(l)' /\ (Custody(l) => Custody(l)') /\ (Ready(l) => Ready(l)')
  <2>1. TypeOK /\ Ledger(l)
    BY DEF IInv
  <2>2. CASE l # k
    <3>1. pc'[l] = pc[l] /\ emission'[l] = emission[l]
      BY <1>1, <1>2, <2>1, <2>2 DEF TypeOK
    <3> QED
      BY <1>2, <2>1, <3>1, Bystander
  <2>3. CASE l = k
    <3>1. /\ pc'[k] = "open" /\ opened'[k] = 0 /\ renamed'[k] = 0
          /\ owned'[k] = {}
          /\ request'[k]["document"] # request'[k]["diagnostics"]
      BY <1>2, <2>1, <2>3 DEF TypeOK, Ledger
    <3>2. Len(Plan(k)') > 0
      BY DEF Plan
    <3>3. Held(k)' = {}
      BY <3>1 DEF Held
    <3>4. Ledger(k)'
      BY <3>1, <3>2, <3>3 DEF Ledger, Writing
    <3>5. Ready(k)' /\ Custody(k)'
      BY <3>1 DEF Ready, Custody, Written
    <3> QED
      BY <2>3, <3>4, <3>5
  <2> QED
    BY <2>2, <2>3
<1>5. \A l \in Lift : Accounted(l) => Accounted(l)'
  BY <1>2 DEF Accounted
<1> QED
  BY <1>3, <1>4, <1>5 DEF IInv, Unaliased

\* create_new gives a lift a temporary name nobody else has.
LEMMA OpenStep ==
    ASSUME IInv, NEW k \in Lift, OpenTemp(k)
    PROVE  IInv'
<1> DEFINE n == opened[k] + 1
           t == Temp(k, n)
<1>1. /\ TypeOK /\ Ledger(k) /\ pc[k] = "open"
      /\ files[t] = Absent
      /\ files' = [files EXCEPT ![t] = Torn(k, Plan(k)[n])]
      /\ opened' = [opened EXCEPT ![k] = n]
      /\ owned' = [owned EXCEPT ![k] = @ \cup {t}]
      /\ pc' = [pc EXCEPT ![k] = "write"]
      /\ UNCHANGED <<request, emission, renamed, outcome>>
  BY DEF OpenTemp, GoTo, IInv
<1>2. n \in 1..Len(Plan(k)) /\ n \in 1..2 /\ renamed[k] = 0 /\ owned[k] = Held(k)
  BY <1>1, PlanShape DEF Ledger, Writing, TypeOK
<1>3. t \in Name /\ t \in Temps /\ Plan(k)[n] \in Slot
  BY <1>1, <1>2, PlanShape
<1> HIDE DEF t
<1>4. Torn(k, Plan(k)[n]) \in Content /\ Torn(k, Plan(k)[n]).writer = k
  BY <1>3 DEF Torn, Content
<1>5. Torn(k, Plan(k)[n]) # Absent
  BY <1>4, AbsentAssumption
<1>6. TypeOK'
  <2>1. files' \in [Name -> Content \cup {Absent}]
    BY <1>1, <1>3, <1>4 DEF TypeOK
  <2>2. opened' \in [Lift -> 0..2]
    BY <1>1, <1>2 DEF TypeOK
  <2>3. owned' \in [Lift -> SUBSET Name]
    BY <1>1, <1>3 DEF TypeOK
  <2>4. pc' \in [Lift -> Step]
    BY <1>1 DEF TypeOK, Step
  <2> QED
    BY <1>1, <2>1, <2>2, <2>3, <2>4 DEF TypeOK
<1>7. /\ files'[t] = Torn(k, Plan(k)[n])
      /\ \A u \in Name : u # t => files'[u] = files[u]
      /\ pc'[k] = "write" /\ opened'[k] = n /\ renamed'[k] = 0
      /\ owned'[k] = owned[k] \cup {t}
      /\ \A l \in Lift : l # k =>
            /\ pc'[l] = pc[l] /\ opened'[l] = opened[l]
            /\ owned'[l] = owned[l]
  BY <1>1, <1>2, <1>3 DEF TypeOK
<1>8. Plan(k)' = Plan(k) /\ \A i : Temp(k, i)' = Temp(k, i)
  BY <1>1, PlanStays
<1>9. Ledger(k)'
  <2>1. Held(k)' = Held(k) \cup {t}
    <3>1. Held(k)' = {Temp(k, i) : i \in 1..n}
      BY <1>7, <1>8 DEF Held
    <3>2. Held(k) = {Temp(k, i) : i \in 1..opened[k]}
      BY <1>2 DEF Held
    <3>3. 1..n = 1..opened[k] \cup {n}
      BY <1>1 DEF TypeOK
    <3> QED
      BY <3>1, <3>2, <3>3 DEF t
  <2>2. request[k]["document"] # request[k]["diagnostics"]
    BY <1>1 DEF Ledger, Writing
  <2> QED
    BY <1>1, <1>2, <1>7, <1>8, <2>1, <2>2 DEF Ledger, Writing
<1>10. ASSUME Unaliased
       PROVE  \A l \in Lift : t \notin owned[l]
  BY <1>1, <1>10 DEF IInv, Custody
<1>11. ASSUME NEW l \in Lift, l # k
       PROVE  /\ Ledger(l)'
              /\ Unaliased => Custody(l)' /\ Ready(l)'
  <2>1. Ledger(l) /\ owned[l] \subseteq Name
    BY <1>1 DEF IInv, TypeOK
  <2>2. Unaliased => Custody(l) /\ Ready(l)
                     /\ \A u \in owned[l] : files'[u] = files[u]
    BY <1>7, <1>10, <2>1 DEF IInv
  <2> QED
    BY <1>1, <1>7, <1>11, <2>1, <2>2, Bystander
<1>12. Unaliased => Custody(k)'
  <2>1. Unaliased => \A u \in owned[k] : files'[u] = files[u]
    BY <1>1, <1>7, <1>10 DEF TypeOK
  <2>2. Unaliased => Custody(k)
    BY DEF IInv
  <2> QED
    BY <1>3, <1>4, <1>5, <1>7, <2>1, <2>2 DEF Custody
<1>13. Unaliased => Ready(k)'
  <2>0. Written(k)' = opened[k] /\ renamed'[k] + 1 = 1
    BY <1>1, <1>7 DEF Written, TypeOK
  <2> SUFFICES ASSUME Unaliased, NEW i \in 1..opened[k]
               PROVE  files'[Temp(k, i)] = Whole(k, Plan(k)[i])
    BY <1>8, <2>0 DEF Ready, Whole
  <2>1. Temp(k, i) \in owned[k]
    BY <1>2 DEF Held
  <2>2. files[Temp(k, i)] = Whole(k, Plan(k)[i])
    <3>1. Ready(k)
      BY DEF IInv
    <3> QED
      BY <1>1, <1>2, <3>1 DEF Ready, Written, Writing
  <2>3. files'[Temp(k, i)] = files[Temp(k, i)]
    BY <1>1, <1>7, <1>10, <2>1 DEF TypeOK
  <2> QED
    BY <2>2, <2>3
<1>14. Unaliased => \A l \in Lift \ Stuck : Accounted(l)'
  <2> SUFFICES ASSUME Unaliased, NEW l \in Lift \ Stuck,
                      NEW u \in Temps, files'[u] # Absent, files'[u].writer = l
               PROVE  u \in owned'[l]
    BY DEF Accounted
  <2>1. CASE u = t
    BY <1>4, <1>7, <2>1
  <2>2. CASE u # t
    <3>1. Accounted(l) /\ u \in Name
      BY DEF IInv, Temps, Name
    <3>2. u \in owned[l]
      BY <1>7, <2>2, <3>1 DEF Accounted
    <3> QED
      BY <1>7, <3>2
  <2> QED
    BY <2>1, <2>2
<1> QED
  BY <1>6, <1>9, <1>11, <1>12, <1>13, <1>14 DEF IInv, Unaliased

\* A lift writes only a temporary file of its own, and whole.
LEMMA WriteStep ==
    ASSUME IInv, NEW k \in Lift, WriteTemp(k)
    PROVE  IInv'
<1> DEFINE n == opened[k]
           t == Temp(k, n)
           new == Whole(k, Plan(k)[n])
           next == IF n = Len(Plan(k)) THEN "rename" ELSE "open"
<1>1. /\ TypeOK /\ Ledger(k) /\ pc[k] = "write"
      /\ files' = [files EXCEPT ![t] = new]
      /\ pc' = [pc EXCEPT ![k] = next]
      /\ UNCHANGED <<request, emission, opened, renamed, owned, outcome>>
  BY DEF WriteTemp, GoTo, IInv
<1>2. n \in 1..Len(Plan(k)) /\ renamed[k] = 0 /\ owned[k] = Held(k)
  BY <1>1 DEF Ledger, Writing
<1>3. t \in Name /\ t \in Temps /\ Plan(k)[n] \in Slot /\ t \in owned[k]
  BY <1>1, <1>2, PlanShape DEF Held
<1>4. new \in Content /\ new.writer = k
  BY <1>3 DEF Whole, Content
<1>5. new # Absent
  BY <1>4, AbsentAssumption
<1> HIDE DEF t, new
<1>6. TypeOK'
  BY <1>1, <1>3, <1>4 DEF TypeOK, Step
<1>7. /\ files'[t] = new
      /\ \A u \in Name : u # t => files'[u] = files[u]
      /\ pc'[k] = next
      /\ \A l \in Lift : l # k => pc'[l] = pc[l]
  BY <1>1, <1>3 DEF TypeOK
<1>8. /\ Plan(k)' = Plan(k) /\ Held(k)' = Held(k)
      /\ \A i : Temp(k, i)' = Temp(k, i)
  BY <1>1, PlanStays DEF Held
<1>9. Ledger(k)'
  <2>1. request[k]["document"] # request[k]["diagnostics"] /\ Len(Plan(k)) \in 1..2
    BY <1>1, PlanShape DEF Ledger, Writing
  <2> QED
    BY <1>1, <1>2, <1>7, <1>8, <2>1 DEF Ledger, Writing
<1>10. ASSUME NEW l \in Lift, l # k
       PROVE  /\ Ledger(l)'
              /\ Unaliased => Custody(l)' /\ Ready(l)'
  <2>1. Ledger(l) /\ owned[l] \subseteq Name
    BY <1>1 DEF IInv, TypeOK
  <2>2. Unaliased => Custody(l) /\ Ready(l) /\ Custody(k)
    BY DEF IInv
  <2>3. Unaliased => \A u \in owned[l] : files'[u] = files[u]
    BY <1>3, <1>7, <1>10, <2>1, <2>2 DEF Custody
  <2> QED
    BY <1>1, <1>7, <1>10, <2>1, <2>2, <2>3, Bystander
<1>11. Unaliased => Custody(k)'
  <2>1. Unaliased => Custody(k)
    BY DEF IInv
  <2>2. owned[k] \subseteq Name
    BY <1>1 DEF TypeOK
  <2> QED
    BY <1>1, <1>4, <1>5, <1>7, <2>1, <2>2 DEF Custody
<1>12. Unaliased => Ready(k)'
  <2> SUFFICES ASSUME Unaliased, NEW i \in 1..n
               PROVE  files'[Temp(k, i)] = Whole(k, Plan(k)[i])
    BY <1>1, <1>2, <1>7, <1>8 DEF Ready, Written, Whole
  <2>1. CASE i = n
    BY <1>7, <2>1 DEF t, new
  <2>2. CASE i # n
    <3>1. i \in 1..(n - 1) /\ i \in 1..Len(Plan(k))
      BY <1>1, <1>2, <2>2, PlanShape
    <3>2. files[Temp(k, i)] = Whole(k, Plan(k)[i])
      BY <1>1, <1>2, <3>1 DEF IInv, Ready, Written, Writing
    <3>3. Temp(k, i) # t
      BY <1>1, <1>2, <2>2, <3>1, TempsDiffer DEF Ledger, Writing, t
    <3> QED
      BY <1>1, <1>7, <3>1, <3>2, <3>3, PlanShape
  <2> QED
    BY <2>1, <2>2
<1>13. Unaliased => \A l \in Lift \ Stuck : Accounted(l)'
  <2> SUFFICES ASSUME Unaliased, NEW l \in Lift \ Stuck,
                      NEW u \in Temps, files'[u] # Absent, files'[u].writer = l
               PROVE  u \in owned[l]
    BY <1>1 DEF Accounted
  <2>1. CASE u = t
    BY <1>3, <1>4, <1>7, <2>1
  <2>2. CASE u # t
    <3>1. Accounted(l) /\ u \in Name
      BY DEF IInv, Temps, Name
    <3> QED
      BY <1>7, <2>2, <3>1 DEF Accounted
  <2> QED
    BY <2>1, <2>2
<1> QED
  BY <1>6, <1>9, <1>10, <1>11, <1>12, <1>13 DEF IInv, Unaliased

\* Of at most two files, the one after those renamed is one of them.
LEMMA NextFile ==
    ASSUME NEW done \in 0..2, NEW all \in 1..2, done < all
    PROVE  done + 1 \in 1..all /\ done + 1 \in 1..2
OBVIOUS

\* A rename moves a whole file of the lift to its final path.
LEMMA RenameStep ==
    ASSUME IInv, NEW k \in Lift, RenameTemp(k)
    PROVE  IInv'
<1> DEFINE n == renamed[k] + 1
           t == Temp(k, n)
           f == Final(k, n)
           last == n = Len(Plan(k))
<1>1. /\ TypeOK /\ Ledger(k) /\ pc[k] = "rename"
      /\ files[t] # Absent
      /\ files' = [files EXCEPT ![f] = files[t], ![t] = Absent]
      /\ renamed' = [renamed EXCEPT ![k] = n]
      /\ owned' = [owned EXCEPT ![k] = @ \ {t}]
      /\ pc' = [pc EXCEPT ![k] = IF last THEN "done" ELSE "rename"]
      /\ UNCHANGED <<request, emission, opened>>
  BY DEF RenameTemp, GoTo, IInv
<1>2. /\ n \in 1..Len(Plan(k)) /\ n \in 1..2 /\ opened[k] = Len(Plan(k))
      /\ owned[k] = Held(k)
      /\ request[k]["document"] # request[k]["diagnostics"]
  <2>1. renamed[k] \in 0..2 /\ Len(Plan(k)) \in 1..2
    BY <1>1, PlanShape DEF TypeOK
  <2>2. /\ opened[k] = Len(Plan(k)) /\ renamed[k] < Len(Plan(k))
        /\ owned[k] = Held(k)
        /\ request[k]["document"] # request[k]["diagnostics"]
    BY <1>1 DEF Ledger, Writing
  <2>3. n \in 1..Len(Plan(k)) /\ n \in 1..2
    BY <2>1, <2>2, NextFile
  <2> QED
    BY <2>2, <2>3
<1>3. /\ t \in Name /\ t \in Temps /\ f \in Path /\ f \in Name
      /\ t \in owned[k]
  BY <1>1, <1>2, PlanShape DEF Held, Name
<1> HIDE DEF t, f
<1>4. TypeOK'
  <2>1. files' \in [Name -> Content \cup {Absent}]
    BY <1>1, <1>3 DEF TypeOK
  <2>2. renamed' \in [Lift -> 0..2]
    BY <1>1, <1>2 DEF TypeOK
  <2>3. owned' \in [Lift -> SUBSET Name]
    BY <1>1 DEF TypeOK
  <2>4. pc' \in [Lift -> Step]
    BY <1>1 DEF TypeOK, Step
  <2>5. outcome' \in [Lift -> {"running", "refused", "blocked", "written"}]
    BY DEF RenameTemp, Become, IInv, TypeOK
  <2> QED
    BY <1>1, <2>1, <2>2, <2>3, <2>4, <2>5 DEF TypeOK
<1>5. /\ files'[t] = Absent
      /\ \A u \in Name : u # t /\ u # f => files'[u] = files[u]
      /\ pc'[k] = (IF last THEN "done" ELSE "rename") /\ renamed'[k] = n
      /\ owned'[k] = owned[k] \ {t}
      /\ \A l \in Lift : l # k =>
            /\ pc'[l] = pc[l] /\ renamed'[l] = renamed[l]
            /\ owned'[l] = owned[l]
  BY <1>1, <1>3 DEF TypeOK
<1>6. Plan(k)' = Plan(k) /\ \A i : Temp(k, i)' = Temp(k, i)
  BY <1>1, PlanStays
<1>7. \A i \in 1..Len(Plan(k)) : i # n => Temp(k, i) # t
  BY <1>1, <1>2, TempsDiffer DEF t
<1>8. Held(k)' = Held(k) \ {t}
  <2>1. Held(k)' = {Temp(k, i) : i \in (n + 1)..Len(Plan(k))}
    BY <1>1, <1>2, <1>5, <1>6 DEF Held
  <2>2. Held(k) = {Temp(k, i) : i \in n..Len(Plan(k))}
    BY <1>2 DEF Held
  <2>3. n..Len(Plan(k)) = {n} \cup (n + 1)..Len(Plan(k)) /\ n \notin (n + 1)..Len(Plan(k))
    BY <1>1, <1>2, PlanShape
  <2>4. \A i \in (n + 1)..Len(Plan(k)) : i \in 1..Len(Plan(k)) /\ i # n
    BY <1>1, <1>2, PlanShape
  <2> QED
    BY <1>7, <2>1, <2>2, <2>3, <2>4 DEF t
<1>9. last => Held(k)' = {}
  BY <1>1, <1>2, <1>5, PlanShape DEF Held
<1>10. Ledger(k)'
  <2>1. owned'[k] = Held(k)'
    BY <1>2, <1>5, <1>8
  <2>2. Len(Plan(k)) \in 1..2
    BY <1>1, PlanShape
  <2> QED
    BY <1>1, <1>2, <1>5, <1>6, <1>9, <2>1, <2>2 DEF Ledger, Writing
<1>11. Unaliased => f \notin Temps
  BY <1>3 DEF Unaliased, Temps
<1>12. ASSUME NEW l \in Lift, l # k
       PROVE  /\ Ledger(l)'
              /\ Unaliased => Custody(l)' /\ Ready(l)'
  <2>1. Ledger(l) /\ owned[l] \subseteq Name
    BY <1>1 DEF IInv, TypeOK
  <2>2. Unaliased => Custody(l) /\ Ready(l) /\ Custody(k)
    BY DEF IInv
  <2>3. Unaliased => \A u \in owned[l] : files'[u] = files[u]
    BY <1>3, <1>5, <1>11, <1>12, <2>1, <2>2 DEF Custody
  <2> QED
    BY <1>1, <1>5, <1>12, <2>1, <2>2, <2>3, Bystander
<1>13. Unaliased => Custody(k)'
  <2>1. Unaliased => Custody(k)
    BY DEF IInv
  <2>2. owned[k] \subseteq Name
    BY <1>1 DEF TypeOK
  <2> QED
    BY <1>5, <1>11, <2>1, <2>2 DEF Custody
<1>14. Unaliased => Ready(k)'
  <2>0. ~last => Written(k)' = opened[k]
    BY <1>1, <1>5 DEF Written
  <2> SUFFICES ASSUME Unaliased, ~last, NEW i \in (n + 1)..opened[k]
               PROVE  files'[Temp(k, i)] = Whole(k, Plan(k)[i])
    BY <1>5, <1>6, <2>0 DEF Ready, Whole, Writing
  <2>1. i \in 1..Len(Plan(k)) /\ i \in n..opened[k] /\ i # n
    BY <1>1, <1>2, PlanShape
  <2>2. files[Temp(k, i)] = Whole(k, Plan(k)[i])
    BY <1>1, <2>1 DEF IInv, Ready, Written, Writing
  <2>3. files'[Temp(k, i)] = files[Temp(k, i)]
    <3>1. Temp(k, i) \in Name /\ Temp(k, i) \in Temps
      BY <1>1, <2>1, PlanShape
    <3>2. Temp(k, i) # t
      BY <1>7, <2>1
    <3> QED
      BY <1>5, <1>11, <3>1, <3>2
  <2> QED
    BY <2>2, <2>3
<1>15. Unaliased => \A l \in Lift \ Stuck : Accounted(l)'
  <2> SUFFICES ASSUME Unaliased, NEW l \in Lift \ Stuck,
                      NEW u \in Temps, files'[u] # Absent, files'[u].writer = l
               PROVE  u \in owned'[l]
    BY DEF Accounted
  <2>1. Accounted(l) /\ u \in Name /\ u # t /\ u # f
    BY <1>5, <1>11 DEF IInv, Temps, Name
  <2>2. u \in owned[l]
    BY <1>5, <2>1 DEF Accounted
  <2> QED
    BY <1>5, <2>1, <2>2
<1> QED
  BY <1>4, <1>10, <1>12, <1>13, <1>14, <1>15 DEF IInv, Unaliased

\* Cleaning up removes only temporary files of the lift.
LEMMA DropStep ==
    ASSUME IInv, NEW k \in Lift, DropTemp(k)
    PROVE  IInv'
<1>1. PICK t \in owned[k] :
          /\ owned' = [owned EXCEPT ![k] = @ \ {t}]
          /\ \/ files' = [files EXCEPT ![t] = Absent]
             \/ k \in Stuck /\ UNCHANGED files
  BY DEF DropTemp
<1>2. /\ TypeOK /\ Ledger(k) /\ pc[k] = "drop"
      /\ UNCHANGED <<request, pc, emission, opened, renamed, outcome>>
  BY DEF DropTemp, IInv
<1>3. t \in Name
  BY <1>1, <1>2 DEF TypeOK
<1>4. TypeOK'
  BY <1>1, <1>2, <1>3 DEF TypeOK
<1>5. /\ \A u \in Name : u # t => files'[u] = files[u]
      /\ files'[t] = Absent \/ (k \in Stuck /\ files'[t] = files[t])
      /\ owned'[k] = owned[k] \ {t}
      /\ \A l \in Lift : l # k => owned'[l] = owned[l]
  BY <1>1, <1>2, <1>3 DEF TypeOK
<1>6. Ledger(k)' /\ Ready(k)'
  BY <1>2 DEF Ledger, Ready, Writing
<1>7. ASSUME NEW l \in Lift, l # k
      PROVE  /\ Ledger(l)'
             /\ Unaliased => Custody(l)' /\ Ready(l)'
  <2>1. Ledger(l) /\ owned[l] \subseteq Name
    BY <1>2 DEF IInv, TypeOK
  <2>2. Unaliased => Custody(l) /\ Ready(l) /\ Custody(k)
    BY DEF IInv
  <2>3. Unaliased => \A u \in owned[l] : files'[u] = files[u]
    BY <1>5, <1>7, <2>1, <2>2 DEF Custody
  <2> QED
    BY <1>2, <1>5, <1>7, <2>1, <2>2, <2>3, Bystander
<1>8. Unaliased => Custody(k)'
  <2>1. Unaliased => Custody(k)
    BY DEF IInv
  <2>2. owned[k] \subseteq Name
    BY <1>2 DEF TypeOK
  <2> QED
    BY <1>5, <2>1, <2>2 DEF Custody
<1>9. Unaliased => \A l \in Lift \ Stuck : Accounted(l)'
  <2> SUFFICES ASSUME Unaliased, NEW l \in Lift \ Stuck,
                      NEW u \in Temps, files'[u] # Absent, files'[u].writer = l
               PROVE  u \in owned'[l]
    BY DEF Accounted
  <2>1. Accounted(l) /\ u \in Name /\ files[t].writer = k
    BY <1>1 DEF IInv, Temps, Name, Custody
  <2>2. u # t
    BY <1>5, <2>1
  <2> QED
    BY <1>5, <2>1, <2>2 DEF Accounted
<1> QED
  BY <1>4, <1>6, <1>7, <1>8, <1>9 DEF IInv, Unaliased

-----------------------------------------------------------------------------
(* The theorems *)

\* The lifts start within the invariant: no temporary file is theirs.
LEMMA InitIInv == Init => IInv
<1> SUFFICES ASSUME Init
             PROVE  IInv
  OBVIOUS
<1>1. TypeOK
  BY RequestsAssumption DEF Init, TypeOK, Content, Step, Emission
<1>2. ASSUME NEW l \in Lift
      PROVE  Ledger(l) /\ Custody(l) /\ Ready(l)
  BY DEF Init, Ledger, Custody, Ready, Writing
<1>3. ASSUME NEW l \in Lift
      PROVE  Accounted(l)
  <2>1. ASSUME NEW u \in Name, files[u] # Absent
        PROVE  files[u].writer = Older
    BY <2>1 DEF Init
  <2> QED
    BY <2>1, OlderAssumption DEF Accounted, Temps, Name
<1> QED
  BY <1>1, <1>2, <1>3 DEF IInv

\* No step leaves the invariant.
LEMMA StepIInv == IInv /\ [Next]_vars => IInv'
<1> SUFFICES ASSUME IInv, [Next]_vars
             PROVE  IInv'
  OBVIOUS
<1>1. ASSUME NEW k \in Lift, Proceed(k) \/ Crash(k)
      PROVE  IInv'
  BY <1>1, TurnStep, LowerStep, OpenStep, WriteStep, RenameStep, DropStep
     DEF Proceed, Turns
<1>2. CASE UNCHANGED vars
  BY <1>2 DEF vars, IInv, TypeOK, Ledger, Custody, Ready, Accounted, Held,
              Written, Plan, Final, Temp, Whole
<1> QED
  BY <1>1, <1>2 DEF Next

\* IInv holds in every state the lifts reach.
THEOREM Invariance == Spec => []IInv
  BY InitIInv, StepIInv, PTL DEF Spec

\* The state stays well formed whatever the lifts, paths, faults and crashes.
THEOREM TypeCorrect == Spec => []TypeOK
<1>1. IInv => TypeOK
  BY DEF IInv
<1> QED
  BY Invariance, <1>1, PTL

\* Opening with create_new keeps each temporary file with the lift that made
\* it: nobody renames or removes another's.
THEOREM TempsAreOwn == Spec => []HeldTempsAreOwn
<1>1. IInv => HeldTempsAreOwn
  <2> SUFFICES ASSUME IInv, Unaliased, NEW l \in Lift, NEW t \in owned[l]
               PROVE  /\ files[t] # Absent /\ files[t].writer = l
                      /\ \A m \in Lift \ {l} : t \notin owned[m]
    BY DEF HeldTempsAreOwn
  <2> QED
    BY DEF IInv, Custody
<1> QED
  BY Invariance, <1>1, PTL

\* A lift that came to its end, and could remove files, left no
\* temporary file of its own.
THEOREM NoneLeft == Spec => []NoTempLeft
<1>1. IInv => NoTempLeft
  <2> SUFFICES ASSUME IInv, Unaliased, NEW l \in Lift \ Stuck, pc[l] = "done", NEW p \in Path,
                      files[TempOf(p)] # Absent, files[TempOf(p)].writer = l
               PROVE  FALSE
    BY DEF NoTempLeft
  <2>1. TempOf(p) \in owned[l]
    BY DEF IInv, Accounted, Temps
  <2> QED
    BY <2>1 DEF IInv, Ledger
<1> QED
  BY Invariance, <1>1, PTL

\* Seen at its final paths, the protocol is AtomicFiles: renames put whole
\* files there in one step, and nothing else touches them.
THEOREM Refines == ASSUME Unaliased PROVE Spec => AtomicFinals
<1> DEFINE seen == [p \in Path |-> files[p]]
<1>1. Init => Files!Init
  <2> SUFFICES ASSUME Init
               PROVE  seen \in [Path -> WholeFile \cup {Absent}]
    BY DEF Files!Init
  <2>1. ASSUME NEW p \in Path, files[p] # Absent
        PROVE  files[p] \in WholeFile
    <3>1. PICK l \in Lift, s \in Slot :
              p \in {request[l][s], TempOf(request[l][s])}
      BY <2>1 DEF Init, Name
    <3>2. request[l][s] \in Path
      BY RequestsAssumption DEF Init
    <3>3. p = request[l][s]
      BY <3>1, <3>2 DEF Unaliased
    <3>4. files[p] = Whole(Older, s)
      BY <2>1, <3>3 DEF Init
    <3> QED
      BY <3>4 DEF WholeFile, Content, Whole
  <2> QED
    BY <2>1
<1>2. IInv /\ [Next]_vars => [Files!Next]_seen
  <2> SUFFICES ASSUME IInv, [Next]_vars
               PROVE  Files!Next \/ seen' = seen
    OBVIOUS
  <2>0. TypeOK
    BY DEF IInv
  <2>1. ASSUME NEW k \in Lift, RenameTemp(k)
        PROVE  Files!Next
    <3> DEFINE n == renamed[k] + 1
               f == Final(k, n)
               t == Temp(k, n)
               new == Whole(k, Plan(k)[n])
    <3>1. /\ n \in 1..Len(Plan(k)) /\ n \in (renamed[k] + 1)..Written(k)
          /\ pc[k] \in Writing
      <4>1. Ledger(k) /\ pc[k] = "rename" /\ renamed[k] \in 0..2
        BY <2>0, <2>1 DEF RenameTemp, IInv, TypeOK
      <4>2. /\ renamed[k] < Len(Plan(k)) /\ Written(k) = Len(Plan(k))
            /\ pc[k] \in Writing
        BY <4>1 DEF Ledger, Written, Writing
      <4>3. Len(Plan(k)) \in 1..2
        BY <2>0, PlanShape
      <4> QED
        BY <4>1, <4>2, <4>3
    <3>2. files[t] = new
      BY <3>1 DEF IInv, Ready
    <3>3. f \in Path /\ t \in Temps /\ Plan(k)[n] \in Slot
      BY <2>0, <3>1, PlanShape
    <3>4. new \in WholeFile
      BY <3>3 DEF Whole, WholeFile, Content
    <3>5. files' = [files EXCEPT ![f] = files[t], ![t] = Absent]
      BY <2>1 DEF RenameTemp
    <3> HIDE DEF f, t, new
    <3>6. seen' = [seen EXCEPT ![f] = new]
      <4>1. ASSUME NEW p \in Path
            PROVE  files'[p] = IF p = f THEN new ELSE files[p]
        BY <2>0, <3>2, <3>3, <3>5 DEF TypeOK, Name, Unaliased, Temps
      <4> QED
        BY <3>3, <4>1
    <3>7. seen'[f] = new
      BY <3>3, <3>6
    <3> QED
      BY <3>3, <3>4, <3>6, <3>7 DEF Files!Next, Files!Replace
  <2>2. ASSUME NEW k \in Lift, OpenTemp(k) \/ WriteTemp(k) \/ DropTemp(k)
        PROVE  seen' = seen
    <3>1. \A p \in Path : files'[p] = files[p]
      BY <2>2, FinalsUntouched
    <3> QED
      BY <3>1
  <2>3. ASSUME NEW k \in Lift, Turns(k) \/ Lower(k)
        PROVE  seen' = seen
    BY <2>3 DEF Turns, RefuseOutput, AcceptOutput, RefuseBundle, FailOpen, FailWrite,
                FailRename, RefuseWrite, Crash, Lower
  <2>4. CASE UNCHANGED vars
    BY <2>4 DEF vars
  <2> QED
    BY <2>1, <2>2, <2>3, <2>4 DEF Next, Proceed, Turns
<1> QED
  BY <1>1, <1>2, Invariance, PTL DEF Spec, AtomicFinals, Files!Spec

\* Temporary files are kept apart while lifts run and gone when they have ended.
THEOREM TempsHold == Spec => []TempsAreKept
<1>1. HeldTempsAreOwn /\ NoTempLeft => TempsAreKept
  BY DEF TempsAreKept
<1> QED
  BY TempsAreOwn, NoneLeft, <1>1, PTL

-----------------------------------------------------------------------------
(* The pair of files *)

\* A final path with a file of l is one that l renamed to, and l starts with its
\* sidecar.
Renamed(l) ==
    /\ renamed[l] >= 1 => files[request[l]["diagnostics"]] # Absent
    /\ \A p \in Path : files[p] # Absent /\ files[p].writer = l => renamed[l] >= 1

\* A sidecar that may stand beside the document of l.
Beside(l, side) ==
    /\ side.whole
    /\ \/ side = Whole(l, "diagnostics")
       \/ emission[side.writer] = "Blocked"
       \/ request[side.writer]["document"] # request[l]["document"]

\* Between the two renames of l its sidecar is replaced, if at all, by one of a
\* lift that could not have come this far with the same document.
Between(l) ==
    pc[l] = "rename" /\ renamed[l] = 1 =>
        LET side == files[request[l]["diagnostics"]] IN
            side # Absent /\ side.writer \in Lift /\ Beside(l, side)

PInv == Unaliased => \A l \in Lift : Renamed(l) /\ Between(l)

\* A rename puts the planned, whole file at its final path and nothing elsewhere.
LEMMA RenameLands ==
    ASSUME IInv, Unaliased, NEW k \in Lift, RenameTemp(k)
    PROVE  LET n == renamed[k] + 1 IN
              /\ n \in 1..Len(Plan(k)) /\ Final(k, n) \in Path
              /\ \A p \in Path : files'[p] = IF p = Final(k, n) THEN Whole(k, Plan(k)[n])
                                                               ELSE files[p]
              /\ renamed'[k] = n /\ opened[k] = Len(Plan(k)) /\ pc[k] = "rename"
              /\ pc'[k] = IF n = Len(Plan(k)) THEN "done" ELSE "rename"
              /\ owned[k] = Held(k) /\ Whole(k, Plan(k)[n]) \in Content
              /\ request' = request /\ emission' = emission
              /\ \A l \in Lift : l # k => pc'[l] = pc[l] /\ renamed'[l] = renamed[l]
<1> DEFINE n == renamed[k] + 1
           f == Final(k, n)
           t == Temp(k, n)
           new == Whole(k, Plan(k)[n])
<1>1. /\ TypeOK /\ Ledger(k) /\ Ready(k) /\ pc[k] = "rename"
      /\ files' = [files EXCEPT ![f] = files[t], ![t] = Absent]
      /\ renamed' = [renamed EXCEPT ![k] = n]
      /\ pc' = [pc EXCEPT ![k] = IF n = Len(Plan(k)) THEN "done" ELSE "rename"]
      /\ request' = request /\ emission' = emission
  BY DEF RenameTemp, GoTo, IInv
<1>2. /\ n \in 1..Len(Plan(k)) /\ n \in (renamed[k] + 1)..Written(k)
      /\ opened[k] = Len(Plan(k)) /\ owned[k] = Held(k)
  <2>1. renamed[k] \in 0..2 /\ Len(Plan(k)) \in 1..2
    BY <1>1, PlanShape DEF TypeOK
  <2>2. /\ opened[k] = Len(Plan(k)) /\ renamed[k] < Len(Plan(k))
        /\ owned[k] = Held(k) /\ Written(k) = Len(Plan(k))
    BY <1>1 DEF Ledger, Written, Writing
  <2>3. n \in 1..Len(Plan(k))
    BY <2>1, <2>2, NextFile
  <2> QED
    BY <2>1, <2>2, <2>3
<1>3. files[t] = new
  BY <1>1, <1>2 DEF Ready, Writing
<1>4. f \in Path /\ t \in Temps /\ t \in Name /\ Plan(k)[n] \in Slot
  BY <1>1, <1>2, PlanShape
<1>5. new \in Content
  BY <1>4 DEF Whole, Content
<1> HIDE DEF f, t, new
<1>6. ASSUME NEW p \in Path
      PROVE  files'[p] = IF p = f THEN new ELSE files[p]
  BY <1>1, <1>3, <1>4 DEF TypeOK, Name, Unaliased, Temps
<1>7. /\ renamed'[k] = n /\ pc'[k] = (IF n = Len(Plan(k)) THEN "done" ELSE "rename")
      /\ \A l \in Lift : l # k => pc'[l] = pc[l] /\ renamed'[l] = renamed[l]
  BY <1>1 DEF TypeOK
<1> QED
  BY <1>1, <1>2, <1>4, <1>5, <1>6, <1>7 DEF f, new

\* Every other step leaves the final paths alone, and only a lift that renamed
\* nothing learns what it has to write.
LEMMA OnlyRenames ==
    ASSUME IInv, Unaliased, NEW k \in Lift, Proceed(k) \/ Crash(k), ~RenameTemp(k)
    PROVE  /\ \A p \in Path : files'[p] = files[p]
           /\ renamed' = renamed /\ request' = request
           /\ \A l \in Lift : pc'[l] = "rename" /\ renamed[l] = 1 => pc[l] = "rename"
           /\ \A l \in Lift : emission'[l] = emission[l] \/ renamed[l] = 0
<1>1. TypeOK /\ \A l \in Lift : Ledger(l)
  BY DEF IInv
<1>2. CASE OpenTemp(k) \/ WriteTemp(k) \/ DropTemp(k)
  <2>2. \A p \in Path : files'[p] = files[p]
    BY <1>2, FinalsUntouched
  <2>3. renamed' = renamed /\ request' = request /\ emission' = emission
    BY <1>2 DEF OpenTemp, WriteTemp, DropTemp
  <2>4. ASSUME NEW l \in Lift, pc'[l] = "rename", renamed[l] = 1
        PROVE  pc[l] = "rename"
    BY <1>1, <1>2, <2>4 DEF OpenTemp, WriteTemp, DropTemp, GoTo, Ledger, TypeOK
  <2> QED
    BY <2>2, <2>3, <2>4
<1>3. CASE Turns(k)
  <2>1. UNCHANGED <<files, renamed, request, emission>>
    BY <1>3 DEF Turns, RefuseOutput, AcceptOutput, RefuseBundle, FailOpen, FailWrite,
                FailRename, RefuseWrite, Crash
  <2>2. \E s \in {"done", "lower", "drop", "dead"} : pc' = [pc EXCEPT ![k] = s]
    BY <1>3 DEF Turns, RefuseOutput, AcceptOutput, RefuseBundle, FailOpen, FailWrite,
                FailRename, RefuseWrite, Crash, GoTo
  <2> QED
    BY <1>1, <2>1, <2>2 DEF TypeOK
<1>4. CASE Lower(k)
  <2>1. /\ UNCHANGED <<files, renamed, request>> /\ pc[k] = "lower"
        /\ pc' = [pc EXCEPT ![k] = "open"]
        /\ \E e : emission' = [emission EXCEPT ![k] = e]
    BY <1>4 DEF Lower, GoTo
  <2>2. renamed[k] = 0
    BY <1>1, <2>1 DEF Ledger
  <2> QED
    BY <1>1, <2>1, <2>2 DEF TypeOK
<1> QED
  BY <1>2, <1>3, <1>4 DEF Proceed, Turns

\* Two lifts of one document path cannot both be about to rename it: its
\* temporary name is in the hands of one.
LEMMA OneDocument ==
    ASSUME IInv, Unaliased, NEW k \in Lift, NEW l \in Lift, k # l,
           pc[k] = "rename", pc[l] = "rename",
           emission[k] = "Document", emission[l] = "Document"
    PROVE  request[k]["document"] # request[l]["document"]
<1>1. ASSUME NEW m \in Lift, pc[m] = "rename", emission[m] = "Document"
      PROVE  TempOf(request[m]["document"]) \in owned[m]
  <2>1. Len(Plan(m)) = 2 /\ Plan(m)[2] = "document"
    BY <1>1 DEF Plan
  <2>2. opened[m] = 2 /\ renamed[m] \in 0..1 /\ owned[m] = Held(m)
    <3>1. Ledger(m) /\ renamed[m] \in 0..2
      BY DEF IInv, TypeOK
    <3> QED
      BY <1>1, <2>1, <3>1 DEF Ledger, Writing
  <2>3. Temp(m, 2) \in Held(m)
    BY <2>2 DEF Held
  <2> QED
    BY <2>1, <2>2, <2>3 DEF Temp, Final
<1>2. TempOf(request[k]["document"]) # TempOf(request[l]["document"])
  <2>1. Custody(k) /\ Custody(l)
    BY DEF IInv
  <2> QED
    BY <1>1, <2>1 DEF Custody
<1> QED
  BY <1>2

\* At first no lift renamed anything.
LEMMA InitPInv == Init => PInv
<1> SUFFICES ASSUME Init, Unaliased, NEW l \in Lift PROVE Renamed(l) /\ Between(l)
  BY DEF PInv
<1>1. ASSUME NEW p \in Path, files[p] # Absent PROVE files[p].writer = Older
  BY <1>1 DEF Init, Name
<1> QED
  BY <1>1, OlderAssumption DEF Init, Renamed, Between

\* No step separates a document from its sidecar.
LEMMA StepPInv == IInv /\ PInv /\ [Next]_vars => PInv'
<1> SUFFICES ASSUME IInv, PInv, [Next]_vars, Unaliased, NEW l \in Lift
             PROVE  Renamed(l)' /\ Between(l)'
  BY DEF PInv, Unaliased
<1>0. TypeOK /\ Renamed(l) /\ Between(l) /\ request[l]["diagnostics"] \in Path
  BY DEF IInv, PInv, TypeOK, Slot
<1>1. CASE UNCHANGED vars
  BY <1>0, <1>1 DEF vars, Renamed, Between, Beside, Whole
<1>2. ASSUME NEW k \in Lift, RenameTemp(k)
      PROVE  Renamed(l)' /\ Between(l)'
  <2> DEFINE n == renamed[k] + 1
             f == Final(k, n)
             new == Whole(k, Plan(k)[n])
             at == request[l]["diagnostics"]
  <2>1. /\ n \in 1..Len(Plan(k)) /\ f \in Path
        /\ \A p \in Path : files'[p] = IF p = f THEN new ELSE files[p]
        /\ renamed'[k] = n /\ opened[k] = Len(Plan(k)) /\ pc[k] = "rename"
        /\ pc'[k] = IF n = Len(Plan(k)) THEN "done" ELSE "rename"
        /\ new \in Content
        /\ request' = request /\ emission' = emission
        /\ \A m \in Lift : m # k => pc'[m] = pc[m] /\ renamed'[m] = renamed[m]
    BY <1>2, RenameLands
  <2>2. new # Absent /\ new.writer = k /\ new.whole
    BY <2>1, AbsentAssumption DEF Whole
  <2>3. Len(Plan(k)) \in 1..2 /\ Plan(k)[1] = "diagnostics" /\ renamed[k] \in Nat
    BY <1>0 DEF Plan, TypeOK
  <2>4. n = 1 => f = request[k]["diagnostics"]
    BY <2>3 DEF Final
  <2>5. Renamed(l)'
    <3>1. ASSUME renamed'[l] >= 1 PROVE files'[at] # Absent
      <4>1. CASE l = k /\ n = 1
        BY <1>0, <2>1, <2>2, <2>4, <4>1
      <4>2. CASE l # k \/ n # 1
        <5>1. renamed[l] >= 1
          BY <2>1, <2>3, <3>1, <4>2
        <5> HIDE DEF f, new
        <5> QED
          BY <1>0, <2>1, <2>2, <5>1 DEF Renamed
      <4> QED
        BY <4>1, <4>2
    <3>2. ASSUME NEW p \in Path, files'[p] # Absent, files'[p].writer = l
          PROVE  renamed'[l] >= 1
      <4>1. CASE l = k
        BY <2>1, <4>1
      <4>2. CASE l # k
        <5> HIDE DEF f, new
        <5>1. files'[p] = files[p]
          BY <2>1, <2>2, <3>2, <4>2
        <5> QED
          BY <1>0, <2>1, <3>2, <4>2, <5>1 DEF Renamed
      <4> QED
        BY <4>1, <4>2
    <3> QED
      BY <2>1, <3>1, <3>2 DEF Renamed
  <2>6. Between(l)'
    <3> SUFFICES ASSUME pc'[l] = "rename", renamed'[l] = 1
                 PROVE  /\ files'[at] # Absent /\ files'[at].writer \in Lift
                        /\ Beside(l, files'[at])
      BY <2>1 DEF Between, Beside, Whole
    <3>1. CASE l = k
      <4>1. n = 1 /\ f = at /\ new = Whole(l, "diagnostics")
        BY <2>1, <2>3, <2>4, <3>1
      <4>2. files'[at] = new
        BY <1>0, <2>1, <4>1
      <4> HIDE DEF f, new
      <4> QED
        BY <2>2, <3>1, <4>1, <4>2 DEF Beside
    <3>2. CASE l # k /\ f # at
      <4>1. files'[at] = files[at] /\ pc[l] = "rename" /\ renamed[l] = 1
        BY <1>0, <2>1, <3>2
      <4> QED
        BY <1>0, <4>1 DEF Between
    <3>3. CASE l # k /\ f = at
      <4>1. files'[at] = new /\ pc[l] = "rename" /\ renamed[l] = 1
        BY <1>0, <2>1, <3>3
      <4>2. emission[l] = "Document"
        <5>1. Len(Plan(l)) > 1
          BY <1>0, <4>1, PlanShape DEF IInv, Ledger
        <5> QED
          BY <5>1 DEF Plan
      <4>3. emission[k] = "Blocked" \/ request[k]["document"] # request[l]["document"]
        BY <1>0, <2>1, <3>3, <4>1, <4>2, OneDocument DEF TypeOK, Emission
      <4> HIDE DEF f, new
      <4> QED
        BY <2>2, <4>1, <4>3 DEF Beside
    <3> QED
      BY <3>1, <3>2, <3>3
  <2> QED
    BY <2>5, <2>6
<1>3. ASSUME NEW k \in Lift, Proceed(k) \/ Crash(k), ~RenameTemp(k)
      PROVE  Renamed(l)' /\ Between(l)'
  <2> DEFINE at == request[l]["diagnostics"]
  <2>1. /\ \A p \in Path : files'[p] = files[p]
        /\ renamed' = renamed /\ request' = request
        /\ pc'[l] = "rename" /\ renamed[l] = 1 => pc[l] = "rename"
        /\ \A m \in Lift : emission'[m] = emission[m] \/ renamed[m] = 0
    BY <1>3, OnlyRenames
  <2>2. Renamed(l)'
    BY <1>0, <2>1 DEF Renamed
  <2>3. ASSUME pc'[l] = "rename", renamed'[l] = 1
        PROVE  /\ files'[at] = files[at] /\ files[at] # Absent /\ files[at].writer \in Lift
               /\ Beside(l, files[at])'
    <3>1. /\ files[at] # Absent /\ files[at].writer \in Lift /\ Beside(l, files[at])
          /\ files'[at] = files[at]
      BY <1>0, <2>1, <2>3 DEF Between
    <3>2. renamed[files[at].writer] >= 1
      BY <1>0, <3>1 DEF PInv, Renamed
    <3>3. emission'[files[at].writer] = emission[files[at].writer]
      BY <2>1, <3>1, <3>2
    <3> QED
      BY <2>1, <3>1, <3>3 DEF Beside, Whole
  <2> QED
    BY <2>1, <2>2, <2>3 DEF Between
<1> QED
  BY <1>1, <1>2, <1>3 DEF Next, Proceed

\* The bookkeeping behind the pair holds at every step of every lift.
THEOREM PairsKept == Spec => [](IInv /\ PInv)
  BY InitIInv, StepIInv, InitPInv, StepPInv, PTL DEF Spec

\* write.rs:15-21: a document never stands without a sidecar; when a lift reports
\* Written both stand, the sidecar its own or that of a blocked lift or of another
\* document; and a blocked lift puts no document anywhere.
THEOREM PairHolds == ASSUME Unaliased PROVE Spec => PairIsKept
<1>1. IInv /\ PInv => DocumentHasSidecar
  <2> SUFFICES ASSUME PInv, NEW p \in Path, NEW l \in Lift, files[p] = Whole(l, "document")
               PROVE  files[request[l]["diagnostics"]] # Absent
    BY DEF DocumentHasSidecar
  <2>1. Whole(l, "document") \in Content /\ Whole(l, "document").writer = l
    BY DEF Whole, Content, Slot
  <2>2. files[p] # Absent /\ files[p].writer = l
    BY <2>1, AbsentAssumption
  <2> QED
    BY <2>2 DEF PInv, Renamed
<1>2. Spec => SidecarComesFirst
  BY <1>1, PairsKept, PTL DEF SidecarComesFirst
<1>3. IInv /\ PInv /\ [Next]_vars =>
        [\A l \in Lift : outcome'[l] = "written" /\ outcome[l] # "written" =>
          /\ files'[request[l]["document"]] = Whole(l, "document")
          /\ LET side == files'[request[l]["diagnostics"]] IN
                /\ side.whole
                /\ \/ side = Whole(l, "diagnostics")
                   \/ emission[side.writer] = "Blocked"
                   \/ request[side.writer]["document"] # request[l]["document"]]_vars
  <2> SUFFICES ASSUME IInv, PInv, Next, NEW l \in Lift,
                      outcome'[l] = "written", outcome[l] # "written"
               PROVE  /\ files'[request[l]["document"]] = Whole(l, "document")
                      /\ Beside(l, files'[request[l]["diagnostics"]])
    BY DEF Beside
  <2>1. RenameTemp(l) /\ renamed[l] + 1 = Len(Plan(l)) /\ emission[l] = "Document"
    BY DEF Next, Proceed, Crash, RefuseOutput, AcceptOutput, RefuseBundle, Lower, OpenTemp,
           FailOpen, WriteTemp, FailWrite, RenameTemp, FailRename, DropTemp, RefuseWrite,
           Become, IInv, TypeOK
  <2>2. renamed[l] = 1 /\ Plan(l)[2] = "document"
    BY <2>1 DEF Plan, IInv, TypeOK
  <2>3. /\ pc[l] = "rename"
        /\ \A p \in Path : files'[p] = IF p = request[l]["document"]
                                       THEN Whole(l, "document") ELSE files[p]
    BY <2>1, <2>2, RenameLands DEF Final
  <2>4. /\ request[l]["document"] \in Path /\ request[l]["diagnostics"] \in Path
        /\ request[l]["document"] # request[l]["diagnostics"]
    BY <2>3 DEF IInv, Ledger, Writing, TypeOK, Slot
  <2> QED
    BY <2>2, <2>3, <2>4 DEF PInv, Between
<1>4. IInv /\ PInv /\ [Next]_vars =>
        [\A l \in Lift : emission[l] = "Blocked" =>
          \A p \in Path : files'[p] # files[p] =>
              files'[p] # Whole(l, "document") /\ files'[p] # Torn(l, "document")]_vars
  <2> SUFFICES ASSUME IInv, Next, NEW l \in Lift, emission[l] = "Blocked",
                      NEW p \in Path, files'[p] # files[p]
               PROVE  files'[p] # Whole(l, "document") /\ files'[p] # Torn(l, "document")
    OBVIOUS
  <2>1. PICK k \in Lift : RenameTemp(k)
    BY OnlyRenames DEF Next
  <2>2. PICK n \in 1..Len(Plan(k)) : files'[p] = Whole(k, Plan(k)[n])
    BY <2>1, RenameLands
  <2>3. Plan(l) = <<"diagnostics">>
    BY DEF Plan
  <2>4. ASSUME k = l PROVE Plan(k)[n] = "diagnostics"
    <3>1. n \in 1..Len(Plan(l)) /\ Len(Plan(l)) = 1
      BY <2>3, <2>4
    <3>2. n = 1
      BY <3>1
    <3> QED
      BY <2>3, <2>4, <3>2
  <2>5. /\ files'[p].writer = k /\ files'[p].slot = Plan(k)[n] /\ files'[p].whole
        /\ Whole(l, "document").writer = l /\ Whole(l, "document").slot = "document"
        /\ ~Torn(l, "document").whole
    BY <2>2 DEF Whole, Torn
  <2>6. CASE files'[p] = Whole(l, "document")
    BY <2>4, <2>5, <2>6
  <2>7. CASE files'[p] = Torn(l, "document")
    BY <2>5, <2>7
  <2> QED
    BY <2>6, <2>7
<1>5. Spec => WrittenPair /\ BlockedKeepsDocument
  BY <1>3, <1>4, PairsKept, PTL DEF Spec, WrittenPair, BlockedKeepsDocument
<1> QED
  BY <1>2, <1>5 DEF PairIsKept
=============================================================================
