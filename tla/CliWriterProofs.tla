--------------------------- MODULE CliWriterProofs ---------------------------
(***************************************************************************)
(* CliWriter for every set of runs, paths, failing calls and killed runs:  *)
(* the state is well formed, and where runs follow one another or name     *)
(* different paths, the paths of the contract verbs only ever hold whole   *)
(* files.                                                                  *)
(***************************************************************************)
EXTENDS CliWriter, TLAPS

\* A name stands for a file no other name stands for.
Linked == \A m, n \in Name : dir[m] # Absent /\ dir[m] = dir[n] => m = n

\* The inode of an output that is still to be opened is nowhere.
Fresh ==
    \A r \in Run, i \in 1..Longest, n \in Name : dir[n] = <<r, i>> =>
        /\ i <= count[r] + 1
        /\ pc[r] \in {"start", "open"} => i <= count[r]

\* A caller that waits has one run under way.
OneAtATime == request \in Serial => \A r, s \in Run : Running(r) /\ Running(s) => r = s

\* A run in the middle of an output has that output in its plan.
Placed ==
    \A r \in Run :
        /\ pc[r] = "start" => count[r] = 0
        /\ pc[r] \in {"write", "rename"} => count[r] < Len(Plan(r))
        /\ pc[r] = "open" => count[r] <= Len(Plan(r))
        /\ pc[r] = "rename" => request[r].verb # "emit-ir"

\* The file a run is writing, or is about to rename, is its own.
Mine(r) ==
    /\ pc[r] = "write" =>
          /\ dir[Opened(r)] = fd[r] /\ fd[r] # Absent
          /\ store[fd[r]].writer = r
    /\ pc[r] = "rename" =>
          /\ dir[Opened(r)] # Absent
          /\ store[dir[Opened(r)]].whole

\* The paths of the contract verbs hold whole files.
Finals == \A p \in Path \ Direct : dir[p] # Absent => store[dir[p]].whole

IInv ==
    /\ TypeOK
    /\ request \in Requests
    /\ Linked
    /\ Fresh
    /\ OneAtATime
    /\ Placed
    /\ Unaliased /\ Separate => (\A r \in Run : Mine(r)) /\ Finals

-----------------------------------------------------------------------------
(* The plan of a run *)

\* What the elements of a concatenation are.
LEMMA Joined ==
    ASSUME NEW S, NEW s \in Seq(S), NEW t \in Seq(S)
    PROVE  /\ s \o t \in Seq(S)
           /\ Len(s \o t) = Len(s) + Len(t)
           /\ \A i \in 1..Len(s) : (s \o t)[i] = s[i]
           /\ \A i \in 1..Len(t) : (s \o t)[Len(s) + i] = t[i]
OBVIOUS

\* The elements of a sequence are the members of its range.
LEMMA Ranged ==
    ASSUME NEW S, NEW s \in Seq(S), NEW i \in 1..Len(s)
    PROVE  s[i] \in S /\ s[i] \in ToSet(s)
BY DEF ToSet

\* Whatever a run decided, it writes a part of the outputs it was given.
LEMMA PlanShape ==
    ASSUME TypeOK, request \in Requests, NEW r \in Run
    PROVE  /\ Plan(r) \in Seq(Path)
           /\ Len(Plan(r)) \in 0..Longest
           /\ \A i \in 1..Len(Plan(r)) :
                 Plan(r)[i] \in Path /\ Plan(r)[i] \in Outputs(request, r)
<1> DEFINE before == request[r].report
           after == request[r].outs
           all == before \o after
<1>1. before \in Seq(Path) /\ after \in Seq(Path) /\ Len(all) <= Longest
  BY RequestsAssumption DEF TypeOK, Request
<1>2. Plan(r) \in {all, <<>>, after, before}
  BY DEF Plan
<1>3. Outputs(request, r) = ToSet(all)
  BY DEF Outputs
<1> HIDE DEF before, after, all
<1> USE DEF all
<1>4. CASE Plan(r) = all
  <2>1. all \in Seq(Path)
    BY <1>1, Joined
  <2> HIDE DEF all
  <2> QED
    BY <1>1, <1>3, <1>4, <2>1, Ranged, LongestAssumption
<1>5. CASE Plan(r) = <<>>
  BY <1>5, LongestAssumption
<1>6. CASE Plan(r) = after
  <2>1. /\ all \in Seq(Path) /\ Len(after) <= Len(all)
        /\ \A i \in 1..Len(after) :
              Len(before) + i \in 1..Len(all) /\ all[Len(before) + i] = after[i]
    BY <1>1, Joined
  <2> HIDE DEF all
  <2>2. \A i \in 1..Len(after) : after[i] \in Path /\ after[i] \in ToSet(all)
    BY <1>1, <2>1, Ranged
  <2> QED
    BY <1>1, <1>3, <1>6, <2>1, <2>2, LongestAssumption
<1>7. CASE Plan(r) = before
  <2>1. /\ all \in Seq(Path) /\ Len(before) <= Len(all)
        /\ \A i \in 1..Len(before) : i \in 1..Len(all) /\ all[i] = before[i]
    BY <1>1, Joined
  <2> HIDE DEF all
  <2>2. \A i \in 1..Len(before) : before[i] \in Path /\ before[i] \in ToSet(all)
    BY <1>1, <2>1, Ranged
  <2> QED
    BY <1>1, <1>3, <1>7, <2>1, <2>2, LongestAssumption
<1> QED
  BY <1>2, <1>4, <1>5, <1>6, <1>7

\* The path a run is at, and the name it opens for it.
LEMMA AtPath ==
    ASSUME TypeOK, request \in Requests, NEW r \in Run, count[r] < Len(Plan(r))
    PROVE  /\ Final(r) \in Path /\ Final(r) \in Outputs(request, r)
           /\ Opened(r) \in Name
           /\ request[r].verb = "emit-ir" => Opened(r) = Final(r) /\ Final(r) \in Direct
           /\ request[r].verb # "emit-ir" => Opened(r) = TempOf(Final(r))
           /\ count[r] + 1 \in 1..Longest
           /\ <<r, count[r] + 1>> \in Inode
<1>1. count[r] + 1 \in 1..Len(Plan(r))
  BY PlanShape DEF TypeOK
<1>2. Final(r) \in Path /\ Final(r) \in Outputs(request, r)
  BY <1>1, PlanShape DEF Final
<1>3. count[r] + 1 \in 1..Longest
  BY <1>1, PlanShape, LongestAssumption
<1> QED
  BY <1>2, <1>3 DEF Opened, Name, Inode, Direct

\* Two runs that are both in the middle of an output open different names, and
\* neither renames over what the other opened.
LEMMA NoClash ==
    ASSUME TypeOK, request \in Requests, OneAtATime, Unaliased, Separate,
           NEW r \in Run, NEW s \in Run, r # s, Running(r), Running(s),
           count[r] < Len(Plan(r)), count[s] < Len(Plan(s))
    PROVE  Opened(r) # Opened(s) /\ Opened(r) # Final(s)
<1>1. request \notin Serial
  BY DEF OneAtATime
<1>2. Outputs(request, r) \cap Outputs(request, s) = {}
  BY <1>1 DEF Separate
<1>3. /\ Final(r) \in Path /\ Final(s) \in Path /\ Final(r) # Final(s)
  BY <1>2, AtPath
<1>4. /\ Opened(r) = Final(r) \/ Opened(r) = TempOf(Final(r))
      /\ Opened(s) = Final(s) \/ Opened(s) = TempOf(Final(s))
  BY AtPath
<1>5. /\ TempOf(Final(r)) # TempOf(Final(s))
      /\ TempOf(Final(r)) \notin Path /\ TempOf(Final(s)) \notin Path
  BY <1>3, TempAssumption DEF Unaliased
<1> QED
  BY <1>3, <1>4, <1>5

-----------------------------------------------------------------------------
(* The invariant *)

\* Whatever was on disk before the first run, it starts within the invariant.
LEMMA InitIInv == Init => IInv
<1> SUFFICES ASSUME Init PROVE IInv
  OBVIOUS
<1>1. request \in [Run -> Request]
  BY RequestsAssumption DEF Init
<1>2. PICK present \in SUBSET Found, torn \in SUBSET {TempOf(p) : p \in Path} :
          /\ torn \subseteq present
          /\ dir = [n \in Name |-> IF n \in present THEN <<Older, n>> ELSE Absent]
          /\ store = [i \in Inode |->
                [writer |-> Older,
                 path |-> IF i[1] = Older
                          THEN CHOOSE p \in Path : i[2] \in {p, TempOf(p)}
                          ELSE CHOOSE p \in Path : TRUE,
                 whole |-> i[1] = Older /\ i[2] \notin torn]]
  BY DEF Init
<1>3. dir \in [Name -> Inode \cup {Absent}]
  BY <1>2 DEF Inode
<1>4. store \in [Inode -> Content]
  <2> SUFFICES ASSUME NEW i \in Inode
               PROVE  (IF i[1] = Older
                       THEN CHOOSE p \in Path : i[2] \in {p, TempOf(p)}
                       ELSE CHOOSE p \in Path : TRUE) \in Path
    BY <1>2 DEF Content
  <2>1. CASE i[1] = Older
    <3>1. i[2] \in Name
      BY <2>1, OlderAssumption DEF Inode
    <3>2. \E p \in Path : i[2] \in {p, TempOf(p)}
      BY <3>1 DEF Name
    <3> QED
      BY <2>1, <3>2
  <2>2. CASE i[1] # Older
    BY <2>2, PathAssumption
  <2> QED
    BY <2>1, <2>2
<1>5. TypeOK
  BY <1>1, <1>3, <1>4, LongestAssumption DEF Init, TypeOK, Step
<1>6. Linked
  BY <1>2 DEF Linked
<1>7. Fresh
  <2> SUFFICES ASSUME NEW r \in Run, NEW i \in 1..Longest, NEW n \in Name
               PROVE  dir[n] # <<r, i>>
    BY DEF Fresh
  <2>1. <<r, i>> # Absent /\ r # Older
    BY OlderAssumption, AbsentAssumption DEF Inode
  <2>2. dir[n] = <<Older, n>> \/ dir[n] = Absent
    BY <1>2
  <2> QED
    BY <2>1, <2>2
<1>8. OneAtATime /\ Placed
  BY DEF Init, OneAtATime, Placed, Running
<1>9. Unaliased => Finals
  <2> SUFFICES ASSUME Unaliased, NEW p \in Path, dir[p] # Absent
               PROVE  store[dir[p]].whole
    BY DEF Finals
  <2>1. p \in Name /\ p \in present
    BY <1>2 DEF Name
  <2>2. dir[p] = <<Older, p>> /\ <<Older, p>> \in Inode
    BY <1>2, <2>1 DEF Inode
  <2>3. p \notin torn
    BY DEF Unaliased
  <2> DEFINE older == <<Older, p>>
  <2>4. older \in Inode /\ older[1] = Older /\ older[2] = p
    BY <2>2
  <2>5. store[older].whole = (older[1] = Older /\ older[2] \notin torn)
    BY <1>2, <2>4
  <2> QED
    BY <2>2, <2>3, <2>4, <2>5
<1>10. \A r \in Run : Mine(r)
  BY DEF Init, Mine
<1> QED
  BY <1>5, <1>6, <1>7, <1>8, <1>9, <1>10 DEF IInv, Init

\* A run that a step leaves alone keeps its plan and its place in it.
LEMMA Bystander ==
    ASSUME NEW s \in Run, request' = request, verdict'[s] = verdict[s],
           count'[s] = count[s]
    PROVE  /\ Plan(s)' = Plan(s) /\ Final(s)' = Final(s) /\ Opened(s)' = Opened(s)
BY DEF Plan, Final, Opened

\* The caller's choices, and so the paths the promise is made for, stay.
LEMMA DirectStays ==
    ASSUME request' = request
    PROVE  Direct' = Direct /\ Separate' = Separate /\ Promised' = Promised
<1>1. Direct' = Direct
  BY DEF Direct
<1>2. Separate' = Separate
  BY DEF Separate
<1> QED
  BY <1>1, <1>2 DEF Promised

\* Deciding what to write opens nothing.
LEMMA StartStep ==
    ASSUME IInv, NEW r \in Run, Start(r)
    PROVE  IInv'
<1>1. PICK v \in {"clean", "blocked", "thrown"} :
          verdict' = [verdict EXCEPT ![r] = v]
  BY DEF Start
<1>2. TypeOK /\ UNCHANGED <<dir, store, request, count, fd, exit>>
  BY DEF IInv, Start
<1>3. pc[r] = "start" /\ pc' = [pc EXCEPT ![r] = "open"]
  BY DEF Start, GoTo
<1>4. TypeOK'
  BY <1>1, <1>2, <1>3 DEF TypeOK, Step
<1>5. request' \in Requests /\ Linked' /\ Fresh'
  BY <1>2, <1>3 DEF IInv, Linked, Fresh, TypeOK
<1>6. OneAtATime'
  BY <1>2, <1>3 DEF IInv, Start, OneAtATime, Running, TypeOK
<1>7. \A s \in Run : s # r =>
          /\ pc'[s] = pc[s] /\ Plan(s)' = Plan(s) /\ Opened(s)' = Opened(s)
  BY <1>1, <1>2, <1>3, Bystander DEF TypeOK
<1>8. Placed'
  <2> SUFFICES ASSUME NEW s \in Run
               PROVE  /\ pc'[s] = "start" => count'[s] = 0
                      /\ pc'[s] \in {"write", "rename"} => count'[s] < Len(Plan(s)')
                      /\ pc'[s] = "open" => count'[s] <= Len(Plan(s)')
                      /\ pc'[s] = "rename" => request'[s].verb # "emit-ir"
    BY DEF Placed
  <2>1. CASE s = r
    <3>1. count'[r] = 0
      BY <1>2, <1>3 DEF IInv, Placed
    <3>2. /\ request[r].report \in Seq(Path) /\ request[r].outs \in Seq(Path)
          /\ request[r].report \o request[r].outs \in Seq(Path)
      BY <1>2 DEF TypeOK, Request
    <3>3. Plan(r)' \in {request[r].report \o request[r].outs, <<>>,
                        request[r].outs, request[r].report}
      BY <1>2 DEF Plan
    <3>4. Len(Plan(r)') \in Nat
      BY <3>2, <3>3
    <3> QED
      BY <1>2, <1>3, <2>1, <3>1, <3>4 DEF TypeOK
  <2>2. CASE s # r
    BY <1>2, <1>7, <2>2 DEF IInv, Placed
  <2> QED
    BY <2>1, <2>2
<1>9. ASSUME Unaliased, Separate
      PROVE  (\A s \in Run : Mine(s)') /\ Finals'
  <2>1. Finals'
    BY <1>2, <1>9, DirectStays DEF IInv, Finals
  <2>2. ASSUME NEW s \in Run PROVE Mine(s)'
    <3>1. CASE s = r
      BY <1>2, <1>3, <3>1 DEF Mine, TypeOK
    <3>2. CASE s # r
      BY <1>2, <1>7, <1>9, <3>2 DEF IInv, Mine
    <3> QED
      BY <3>1, <3>2
  <2> QED
    BY <2>1, <2>2
<1> QED
  BY <1>2, <1>4, <1>5, <1>6, <1>8, <1>9, DirectStays DEF IInv, Unaliased

\* A run that exits, fails or is killed only stops.
Stops(r) == Fail(r) \/ Exit(r) \/ Kill(r)

\* A run that stops leaves the files of the others alone.
LEMMA StopStep ==
    ASSUME IInv, NEW r \in Run, Stops(r)
    PROVE  IInv'
<1>1. TypeOK /\ UNCHANGED <<dir, store, request, verdict, count>>
  BY DEF IInv, Stops, Fail, Exit, Kill
<1>2. PICK step \in {"exited", "dead"} : pc' = [pc EXCEPT ![r] = step]
  BY DEF Stops, Fail, Exit, Kill, GoTo
<1>3. fd' = fd \/ fd' = [fd EXCEPT ![r] = Absent]
  BY DEF Stops, Fail, Exit, Kill
<1>4. exit' = exit \/ exit' = [exit EXCEPT ![r] = "failed"]
                   \/ exit' = [exit EXCEPT ![r] = "ok"]
  BY DEF Stops, Fail, Exit, Kill
<1>5. TypeOK'
  BY <1>1, <1>2, <1>3, <1>4 DEF TypeOK, Step
<1>6. request' \in Requests /\ Linked' /\ Fresh'
  BY <1>1, <1>2 DEF IInv, Linked, Fresh, TypeOK
<1>7. OneAtATime'
  BY <1>1, <1>2 DEF IInv, OneAtATime, Running, TypeOK
<1>8. \A s \in Run : Plan(s)' = Plan(s) /\ Opened(s)' = Opened(s)
  BY <1>1, Bystander
<1>9. Placed'
  BY <1>1, <1>2, <1>8 DEF IInv, Placed, TypeOK
<1>10. ASSUME Unaliased, Separate
       PROVE  (\A s \in Run : Mine(s)') /\ Finals'
  <2>1. Finals'
    BY <1>1, <1>10, DirectStays DEF IInv, Finals
  <2>2. ASSUME NEW s \in Run PROVE Mine(s)'
    <3>1. CASE s = r
      BY <1>1, <1>2, <3>1 DEF Mine, TypeOK
    <3>2. CASE s # r
      <4>1. pc'[s] = pc[s] /\ fd'[s] = fd[s]
        BY <1>1, <1>2, <1>3, <3>2 DEF TypeOK
      <4> QED
        BY <1>1, <1>8, <1>10, <4>1 DEF IInv, Mine
    <3> QED
      BY <3>1, <3>2
  <2> QED
    BY <2>1, <2>2
<1> QED
  BY <1>1, <1>5, <1>6, <1>7, <1>9, <1>10, DirectStays DEF IInv, Unaliased

\* A run that opens a name takes over the file behind it, which no run that is
\* still writing holds.
LEMMA OpenStep ==
    ASSUME IInv, NEW r \in Run, Open(r)
    PROVE  IInv'
<1> DEFINE fresh == <<r, count[r] + 1>>
           name == Opened(r)
           inode == IF dir[name] = Absent THEN fresh ELSE dir[name]
<1>1. /\ TypeOK /\ request \in Requests
      /\ UNCHANGED <<request, verdict, count, exit>>
      /\ pc[r] = "open" /\ count[r] < Len(Plan(r))
      /\ pc' = [pc EXCEPT ![r] = "write"]
      /\ dir' = [dir EXCEPT ![name] = inode]
      /\ fd' = [fd EXCEPT ![r] = inode]
      /\ store' = [store EXCEPT ![inode] = Torn(r, Final(r))]
  BY DEF IInv, Open, GoTo
<1>2. /\ name \in Name /\ Final(r) \in Path
      /\ fresh \in Inode /\ count[r] + 1 \in 1..Longest
      /\ request[r].verb = "emit-ir" => name = Final(r) /\ Final(r) \in Direct
      /\ request[r].verb # "emit-ir" => name = TempOf(Final(r))
  BY <1>1, AtPath
<1>3. inode \in Inode /\ inode # Absent
  BY <1>1, <1>2, AbsentAssumption DEF TypeOK
<1>4. \A n \in Name : n # name => dir[n] # inode
  <2> SUFFICES ASSUME NEW n \in Name, n # name, dir[n] = inode
               PROVE  FALSE
    OBVIOUS
  <2>1. CASE dir[name] = Absent
    <3>1. dir[n] = <<r, count[r] + 1>>
      BY <2>1
    <3>2. count[r] + 1 <= count[r]
      BY <1>1, <1>2, <3>1 DEF IInv, Fresh
    <3> QED
      BY <1>1, <3>2 DEF TypeOK
  <2>2. CASE dir[name] # Absent
    BY <1>2, <2>2 DEF IInv, Linked
  <2> QED
    BY <2>1, <2>2
<1>5. \A n \in Name : dir'[n] = IF n = name THEN inode ELSE dir[n]
  BY <1>1 DEF TypeOK
<1>6. \A s \in Run :
          /\ Plan(s)' = Plan(s) /\ Opened(s)' = Opened(s)
          /\ pc'[s] = (IF s = r THEN "write" ELSE pc[s])
          /\ fd'[s] = (IF s = r THEN inode ELSE fd[s])
  <2> TAKE s \in Run
  <2>1. Plan(s)' = Plan(s) /\ Opened(s)' = Opened(s)
    BY <1>1, Bystander
  <2>2. /\ pc'[s] = (IF s = r THEN "write" ELSE pc[s])
        /\ fd'[s] = (IF s = r THEN inode ELSE fd[s])
    BY <1>1 DEF TypeOK
  <2> QED
    BY <2>1, <2>2
<1>7. \A i \in Inode : store'[i] = IF i = inode THEN Torn(r, Final(r)) ELSE store[i]
  BY <1>1 DEF TypeOK
<1>8. Torn(r, Final(r)) \in Content /\ Torn(r, Final(r)).writer = r
  BY <1>2 DEF Torn, Content
<1> HIDE DEF name, inode
<1>9. TypeOK'
  BY <1>1, <1>2, <1>3, <1>8 DEF TypeOK, Step
<1>10. Linked'
  BY <1>4, <1>5 DEF IInv, Linked
<1>11. Fresh'
  <2> SUFFICES ASSUME NEW s \in Run, NEW i \in 1..Longest, NEW n \in Name,
                      dir'[n] = <<s, i>>
               PROVE  /\ i <= count[s] + 1
                      /\ pc'[s] \in {"start", "open"} => i <= count[s]
    BY <1>1 DEF Fresh
  <2>1. CASE dir[n] = <<s, i>>
    BY <1>6, <2>1 DEF IInv, Fresh
  <2>2. CASE dir[n] # <<s, i>>
    <3>1. <<s, i>> = fresh
      BY <1>5, <2>2 DEF inode, name
    <3>2. s = r /\ i = count[r] + 1
      BY <3>1
    <3> QED
      BY <1>1, <1>6, <3>2 DEF TypeOK
  <2> QED
    BY <2>1, <2>2
<1>12. OneAtATime'
  BY <1>1, <1>6 DEF IInv, OneAtATime, Running
<1>13. Placed'
  BY <1>1, <1>6 DEF IInv, Placed
<1>14. ASSUME Unaliased, Separate
       PROVE  (\A s \in Run : Mine(s)') /\ Finals'
  <2>1. ASSUME NEW s \in Run PROVE Mine(s)'
    <3>1. CASE s = r
      BY <1>2, <1>3, <1>5, <1>6, <1>7, <1>8, <3>1 DEF Mine, name
    <3>2. ASSUME s # r, pc[s] \in {"write", "rename"}
          PROVE  /\ Opened(s) \in Name
                 /\ dir'[Opened(s)] = dir[Opened(s)] /\ dir[Opened(s)] \in Inode
                 /\ store'[dir[Opened(s)]] = store[dir[Opened(s)]]
      <4>1. Running(s) /\ Running(r) /\ count[s] < Len(Plan(s))
        BY <1>1, <3>2 DEF IInv, Placed, Running
      <4>2. Opened(s) \in Name /\ Opened(s) # name
        BY <1>1, <1>14, <3>2, <4>1, AtPath, NoClash DEF IInv, name
      <4>3. dir[Opened(s)] # Absent /\ dir[Opened(s)] \in Inode
        BY <1>1, <1>14, <3>2, <4>2 DEF IInv, Mine, TypeOK
      <4> QED
        BY <1>4, <1>5, <1>7, <4>2, <4>3
    <3> QED
      BY <1>1, <1>6, <1>14, <3>1, <3>2 DEF IInv, Mine
  <2>2. Finals'
    <3> SUFFICES ASSUME NEW p \in Path \ Direct, dir'[p] # Absent
                 PROVE  store'[dir'[p]].whole
      BY <1>1, DirectStays DEF Finals
    <3>1. p # name /\ p \in Name
      BY <1>2, <1>14 DEF Unaliased, Name
    <3>2. dir'[p] = dir[p] /\ dir[p] \in Inode /\ dir[p] # inode
      BY <1>1, <1>4, <1>5, <3>1 DEF TypeOK
    <3> QED
      BY <1>7, <1>14, <3>2 DEF IInv, Finals
  <2> QED
    BY <2>1, <2>2
<1> QED
  BY <1>1, <1>9, <1>10, <1>11, <1>12, <1>13, <1>14, DirectStays DEF IInv, Unaliased

\* What a run writes goes to the file it opened and lands whole.
LEMMA WriteStep ==
    ASSUME IInv, NEW r \in Run, Write(r)
    PROVE  IInv'
<1> DEFINE direct == request[r].verb = "emit-ir"
<1>1. PICK bytes \in {Whole(r, Final(r)), Torn(r, Final(r))} :
          /\ store[fd[r]].writer = r => bytes = Whole(r, Final(r))
          /\ store' = [store EXCEPT ![fd[r]] = bytes]
  BY DEF Write
<1>2. /\ TypeOK /\ request \in Requests
      /\ UNCHANGED <<dir, request, verdict, exit>>
      /\ pc[r] = "write" /\ count[r] < Len(Plan(r))
      /\ fd' = [fd EXCEPT ![r] = Absent]
  BY DEF IInv, Placed, Write
<1>3. /\ pc' = [pc EXCEPT ![r] = IF direct THEN "open" ELSE "rename"]
      /\ count' = IF direct THEN [count EXCEPT ![r] = @ + 1] ELSE count
  BY DEF Write, GoTo
<1>4. Final(r) \in Path /\ Opened(r) \in Name /\ count[r] + 1 \in 1..Longest
  BY <1>2, AtPath
<1>5. bytes \in Content /\ bytes.writer = r
  <2>1. /\ Whole(r, Final(r)) \in Content /\ Whole(r, Final(r)).writer = r
        /\ Torn(r, Final(r)) \in Content /\ Torn(r, Final(r)).writer = r
    BY <1>4 DEF Whole, Torn, Content
  <2> QED
    BY <1>1, <2>1
<1>6. TypeOK'
  <2>1. store' \in [Inode -> Content]
    BY <1>1, <1>2, <1>5 DEF TypeOK
  <2>2. count[r] + 1 \in 0..Longest
    BY <1>4, LongestAssumption
  <2>3. count' \in [Run -> 0..Longest]
    BY <1>2, <1>3, <2>2 DEF TypeOK
  <2>4. pc' \in [Run -> Step]
    BY <1>2, <1>3 DEF TypeOK, Step
  <2>5. fd' \in [Run -> Inode \cup {Absent}]
    BY <1>2 DEF TypeOK
  <2> QED
    BY <1>2, <2>1, <2>3, <2>4, <2>5 DEF TypeOK
<1>7. \A s \in Run :
          /\ pc'[s] = (IF s # r THEN pc[s] ELSE IF direct THEN "open" ELSE "rename")
          /\ count'[s] = (IF s = r /\ direct THEN count[r] + 1 ELSE count[s])
          /\ fd'[s] = (IF s = r THEN Absent ELSE fd[s])
  BY <1>2, <1>3 DEF TypeOK
<1>8. \A s \in Run : Plan(s)' = Plan(s)
  BY <1>2 DEF Plan
<1>9. \A s \in Run : count'[s] = count[s] => Opened(s)' = Opened(s)
  BY <1>2, Bystander
<1>10. Linked'
  BY <1>2 DEF IInv, Linked
<1>11. Fresh'
  <2> SUFFICES ASSUME NEW s \in Run, NEW i \in 1..Longest, NEW n \in Name,
                      dir[n] = <<s, i>>
               PROVE  /\ i <= count'[s] + 1
                      /\ pc'[s] \in {"start", "open"} => i <= count'[s]
    BY <1>2 DEF Fresh
  <2>1. /\ i <= count[s] + 1 /\ count[s] \in Nat
        /\ pc[s] \in {"start", "open"} => i <= count[s]
    <3>1. Fresh /\ count[s] \in Nat
      BY <1>2 DEF IInv, TypeOK
    <3> QED
      BY <3>1 DEF Fresh
  <2> QED
    BY <1>7, <2>1
<1>12. OneAtATime'
  BY <1>2, <1>7 DEF IInv, OneAtATime, Running
<1>13. Placed'
  <2> SUFFICES ASSUME NEW s \in Run
               PROVE  /\ pc'[s] = "start" => count'[s] = 0
                      /\ pc'[s] \in {"write", "rename"} => count'[s] < Len(Plan(s))
                      /\ pc'[s] = "open" => count'[s] <= Len(Plan(s))
                      /\ pc'[s] = "rename" => request[s].verb # "emit-ir"
    BY <1>2, <1>8 DEF Placed
  <2>1. CASE s # r
    BY <1>7, <2>1 DEF IInv, Placed
  <2>2. CASE s = r
    <3>1. count[r] \in Nat /\ Len(Plan(r)) \in Nat
      BY <1>2, PlanShape DEF TypeOK
    <3> QED
      BY <1>2, <1>7, <2>2, <3>1
  <2> QED
    BY <2>1, <2>2
<1>14. ASSUME Unaliased, Separate
       PROVE  (\A s \in Run : Mine(s)') /\ Finals'
  <2>1. /\ dir[Opened(r)] = fd[r] /\ fd[r] # Absent /\ fd[r] \in Inode
        /\ store[fd[r]].writer = r
    BY <1>2, <1>14 DEF IInv, Mine, TypeOK
  <2>2. bytes.whole
    BY <1>1, <2>1 DEF Whole
  <2>3. \A i \in Inode : store'[i] = IF i = fd[r] THEN bytes ELSE store[i]
    BY <1>1, <1>2 DEF TypeOK
  <2>4. ASSUME NEW s \in Run PROVE Mine(s)'
    <3>1. CASE s = r
      BY <1>2, <1>7, <1>9, <2>1, <2>2, <2>3, <3>1 DEF Mine
    <3>2. ASSUME s # r, pc[s] \in {"write", "rename"}
          PROVE  /\ dir[Opened(s)] \in Inode
                 /\ store'[dir[Opened(s)]] = store[dir[Opened(s)]]
      <4>1. Running(s) /\ Running(r) /\ count[s] < Len(Plan(s))
        BY <1>2, <3>2 DEF IInv, Placed, Running
      <4>2. Opened(s) \in Name /\ Opened(s) # Opened(r)
        BY <1>2, <1>14, <3>2, <4>1, AtPath, NoClash DEF IInv
      <4>3. dir[Opened(s)] # Absent /\ dir[Opened(s)] \in Inode
        BY <1>2, <1>14, <3>2, <4>2 DEF IInv, Mine, TypeOK
      <4>4. dir[Opened(s)] # fd[r]
        BY <1>4, <2>1, <4>2, <4>3 DEF IInv, Linked
      <4> QED
        BY <2>3, <4>3, <4>4
    <3>3. CASE s # r
      BY <1>2, <1>7, <1>9, <1>14, <3>2, <3>3 DEF IInv, Mine
    <3> QED
      BY <3>1, <3>3
  <2>5. Finals'
    <3> SUFFICES ASSUME NEW p \in Path \ Direct, dir[p] # Absent
                 PROVE  store'[dir[p]].whole
      BY <1>2, DirectStays DEF Finals
    <3>1. dir[p] \in Inode /\ store[dir[p]].whole
      BY <1>2, <1>14 DEF IInv, Finals, TypeOK, Name
    <3> QED
      BY <2>2, <2>3, <3>1
  <2> QED
    BY <2>4, <2>5
<1> QED
  BY <1>2, <1>6, <1>10, <1>11, <1>12, <1>13, <1>14, DirectStays DEF IInv, Unaliased

\* A rename brings a whole file to its path and frees the temporary name.
LEMMA RenameStep ==
    ASSUME IInv, NEW r \in Run, Rename(r)
    PROVE  IInv'
<1> DEFINE from == Opened(r)
           to == Final(r)
<1>1. /\ TypeOK /\ request \in Requests
      /\ UNCHANGED <<store, request, verdict, fd, exit>>
      /\ pc[r] = "rename" /\ count[r] < Len(Plan(r))
      /\ dir[from] # Absent
      /\ dir' = [dir EXCEPT ![to] = dir[from], ![from] = Absent]
      /\ pc' = [pc EXCEPT ![r] = "open"]
      /\ count' = [count EXCEPT ![r] = @ + 1]
  BY DEF IInv, Placed, Rename, GoTo
<1>2. /\ to \in Path /\ to \in Name /\ from \in Name /\ from = TempOf(to) /\ from # to
      /\ count[r] + 1 \in 1..Longest
  <2>1. request[r].verb # "emit-ir"
    BY <1>1 DEF IInv, Placed
  <2> QED
    BY <1>1, <2>1, AtPath, TempAssumption DEF Name
<1> HIDE DEF from, to
<1>3. \A n \in Name : dir'[n] = (IF n = from THEN Absent
                                ELSE IF n = to THEN dir[from] ELSE dir[n])
  BY <1>1, <1>2 DEF TypeOK
<1>4. \A s \in Run :
          /\ pc'[s] = (IF s = r THEN "open" ELSE pc[s])
          /\ count'[s] = (IF s = r THEN count[r] + 1 ELSE count[s])
  BY <1>1 DEF TypeOK
<1>5. \A s \in Run : Plan(s)' = Plan(s)
  BY <1>1 DEF Plan
<1>6. TypeOK'
  <2>1. count[r] + 1 \in 0..Longest
    BY <1>2, LongestAssumption
  <2> QED
    BY <1>1, <1>2, <2>1 DEF TypeOK, Step
<1>7. Linked'
  BY <1>2, <1>3 DEF IInv, Linked
<1>8. Fresh'
  <2> SUFFICES ASSUME NEW s \in Run, NEW i \in 1..Longest, NEW n \in Name,
                      dir'[n] = <<s, i>>
               PROVE  /\ i <= count'[s] + 1
                      /\ pc'[s] \in {"start", "open"} => i <= count'[s]
    BY DEF Fresh
  <2>1. \E m \in Name : dir[m] = <<s, i>>
    <3>1. <<s, i>> # Absent
      BY AbsentAssumption DEF Inode
    <3> QED
      BY <1>2, <1>3, <3>1
  <2>2. /\ i <= count[s] + 1 /\ count[s] \in Nat
        /\ pc[s] \in {"start", "open"} => i <= count[s]
    <3>1. Fresh /\ count[s] \in Nat
      BY <1>1 DEF IInv, TypeOK
    <3> QED
      BY <2>1, <3>1 DEF Fresh
  <2> QED
    BY <1>4, <2>2
<1>9. OneAtATime'
  BY <1>1, <1>4 DEF IInv, OneAtATime, Running
<1>10. Placed'
  <2> SUFFICES ASSUME NEW s \in Run
               PROVE  /\ pc'[s] = "start" => count'[s] = 0
                      /\ pc'[s] \in {"write", "rename"} => count'[s] < Len(Plan(s))
                      /\ pc'[s] = "open" => count'[s] <= Len(Plan(s))
                      /\ pc'[s] = "rename" => request[s].verb # "emit-ir"
    BY <1>1, <1>5 DEF Placed
  <2>1. CASE s # r
    BY <1>4, <2>1 DEF IInv, Placed
  <2>2. CASE s = r
    <3>1. count[r] \in Nat /\ Len(Plan(r)) \in Nat
      BY <1>1, PlanShape DEF TypeOK
    <3> QED
      BY <1>1, <1>4, <2>2, <3>1
  <2> QED
    BY <2>1, <2>2
<1>11. ASSUME Unaliased, Separate
       PROVE  (\A s \in Run : Mine(s)') /\ Finals'
  <2>1. ASSUME NEW s \in Run PROVE Mine(s)'
    <3>1. CASE s = r
      BY <1>4, <3>1 DEF Mine
    <3>2. ASSUME s # r, pc[s] \in {"write", "rename"}
          PROVE  Opened(s)' = Opened(s) /\ dir'[Opened(s)] = dir[Opened(s)]
      <4>1. Running(s) /\ Running(r) /\ count[s] < Len(Plan(s))
        BY <1>1, <3>2 DEF IInv, Placed, Running
      <4>2. Opened(s) \in Name /\ Opened(s) # from /\ Opened(s) # to
        BY <1>1, <1>11, <3>2, <4>1, AtPath, NoClash DEF IInv, from, to
      <4>3. Opened(s)' = Opened(s)
        BY <1>1, <1>4, <3>2, Bystander
      <4> QED
        BY <1>3, <4>2, <4>3
    <3>3. CASE s # r
      BY <1>1, <1>4, <1>11, <3>2, <3>3 DEF IInv, Mine
    <3> QED
      BY <3>1, <3>3
  <2>2. Finals'
    <3> SUFFICES ASSUME NEW p \in Path \ Direct, dir'[p] # Absent
                 PROVE  store[dir'[p]].whole
      BY <1>1, DirectStays DEF Finals
    <3>1. store[dir[from]].whole
      BY <1>1, <1>11 DEF IInv, Mine, from
    <3>2. p \in Name
      BY DEF Name
    <3> QED
      BY <1>3, <1>11, <3>1, <3>2 DEF IInv, Finals
  <2> QED
    BY <2>1, <2>2
<1> QED
  BY <1>1, <1>6, <1>7, <1>8, <1>9, <1>10, <1>11, DirectStays DEF IInv, Unaliased

\* No step leaves the invariant.
LEMMA StepIInv == IInv /\ [Next]_vars => IInv'
<1> SUFFICES ASSUME IInv, [Next]_vars PROVE IInv'
  OBVIOUS
<1>1. CASE UNCHANGED vars
  <2>1. UNCHANGED <<dir, store, request, verdict, pc, count, fd, exit>>
    BY <1>1 DEF vars
  <2>2. TypeOK' /\ request' \in Requests /\ Linked' /\ Fresh'
    BY <2>1 DEF IInv, TypeOK, Linked, Fresh
  <2>3. \A s \in Run : Plan(s)' = Plan(s) /\ Opened(s)' = Opened(s)
    BY <2>1, Bystander
  <2>4. OneAtATime' /\ Placed'
    BY <2>1, <2>3 DEF IInv, OneAtATime, Placed, Running
  <2>5. Unaliased /\ Separate => (\A s \in Run : Mine(s)') /\ Finals'
    BY <2>1, <2>3, DirectStays DEF IInv, Mine, Finals
  <2> QED
    BY <2>1, <2>2, <2>4, <2>5, DirectStays DEF IInv, Unaliased
<1>2. CASE Next
  BY <1>2, StartStep, OpenStep, WriteStep, RenameStep, StopStep DEF Next, Stops
<1> QED
  BY <1>1, <1>2

-----------------------------------------------------------------------------
(* The theorems *)

\* What cli.mjs's writes keep at every step: names stand for different files,
\* a run that is writing or about to rename holds its own file, and every path
\* written through a temporary file is whole.
THEOREM Invariance == Spec => []IInv
BY InitIInv, StepIInv, PTL DEF Spec

\* The state of the command's runs stays well formed (cli.mjs writeAtomic).
THEOREM TypeCorrect == Spec => []TypeOK
<1>1. IInv => TypeOK
  BY DEF IInv
<1> QED
  BY <1>1, Invariance, PTL

\* cli.mjs:14-16: for runs that follow one another or name different paths,
\* with any of them failing or killed anywhere and whatever they leave behind,
\* a reader of an output path sees whole files replaced by whole files.
THEOREM Refines == ASSUME Unaliased PROVE Spec => AtomicFinals
<1> DEFINE seen == [p \in Path |-> IF p \in Promised THEN Seen(p) ELSE Absent]
<1>1. Init => Files!Init
  <2> SUFFICES ASSUME Init
               PROVE  seen \in [Path -> WholeFile \cup {Absent}]
    BY DEF Files!Init
  <2>1. TypeOK /\ (Separate => Finals)
    BY InitIInv DEF IInv
  <2>2. ASSUME NEW p \in Promised, dir[p] # Absent
        PROVE  store[dir[p]] \in WholeFile
    <3>1. Separate /\ p \in Path \ Direct
      BY <2>2 DEF Promised
    <3>2. dir[p] \in Inode
      BY <2>1, <2>2, <3>1 DEF TypeOK, Name
    <3> QED
      BY <2>1, <2>2, <3>1, <3>2 DEF TypeOK, Finals, WholeFile
  <2> QED
    BY <2>2 DEF Seen
<1>2. IInv /\ [Next]_vars => [Files!Next]_seen
  <2> SUFFICES ASSUME IInv, [Next]_vars
               PROVE  Files!Next \/ seen' = seen
    OBVIOUS
  <2>0. /\ TypeOK /\ request \in Requests /\ Linked /\ Placed
        /\ Separate => \A r \in Run : Mine(r)
    BY DEF IInv
  <2>1. ASSUME NEW r \in Run, Rename(r)
        PROVE  Files!Next \/ seen' = seen
    <3> DEFINE from == Opened(r)
               to == Final(r)
               new == store[dir[from]]
    <3>1. /\ dir' = [dir EXCEPT ![to] = dir[from], ![from] = Absent]
          /\ store' = store /\ request' = request
          /\ pc[r] = "rename" /\ count[r] < Len(Plan(r)) /\ dir[from] # Absent
      BY <2>0, <2>1 DEF Rename, Placed
    <3>2. /\ to \in Path /\ to \in Name /\ from \in Name /\ from \notin Path
      BY <2>0, <3>1, AtPath DEF Placed, Unaliased, Name
    <3>3. dir[from] \in Inode /\ (Separate => new \in WholeFile)
      BY <2>0, <3>1, <3>2 DEF TypeOK, Mine, WholeFile
    <3> HIDE DEF from, to
    <3>4. Promised' = Promised
      BY <3>1, DirectStays
    <3>5. ASSUME NEW p \in Path
          PROVE  /\ Seen(p)' = IF p = to THEN new ELSE Seen(p)
      <4>1. p \in Name /\ p # from
        BY <3>2 DEF Name
      <4>2. dir'[p] = IF p = to THEN dir[from] ELSE dir[p]
        BY <2>0, <3>1, <3>2, <4>1 DEF TypeOK
      <4> QED
        BY <3>1, <4>2 DEF Seen
    <3>6. CASE to \notin Promised
      BY <3>4, <3>5, <3>6
    <3>7. CASE to \in Promised
      <4>1. seen' = [seen EXCEPT ![to] = new]
        BY <3>2, <3>4, <3>5, <3>7
      <4>2. seen'[to] = new
        BY <3>2, <4>1
      <4>3. new \in WholeFile
        BY <3>3, <3>7 DEF Promised
      <4> HIDE DEF seen, new
      <4> QED
        BY <3>2, <4>1, <4>2, <4>3 DEF Files!Next, Files!Replace, seen
    <3> QED
      BY <3>6, <3>7
  <2>2. ASSUME NEW r \in Run, Open(r) \/ Write(r)
        PROVE  seen' = seen
    <3> DEFINE name == Opened(r)
    <3>1. count[r] < Len(Plan(r)) /\ request' = request
      BY <2>0, <2>2 DEF Open, Write, Placed
    <3>2. name \in Name /\ name \notin Path \ Direct
      BY <2>0, <3>1, AtPath DEF Unaliased
    <3>3. Promised' = Promised
      BY <3>1, DirectStays
    <3> HIDE DEF name
    <3>4. ASSUME NEW p \in Promised
          PROVE  Seen(p)' = Seen(p)
      <4>1. p \in Name /\ p # name /\ Separate
        BY <3>2 DEF Name, Promised
      <4>2. CASE Open(r)
        <5> DEFINE inode == IF dir[name] = Absent THEN <<r, count[r] + 1>>
                                                  ELSE dir[name]
        <5>1. /\ dir' = [dir EXCEPT ![name] = inode]
              /\ store' = [store EXCEPT ![inode] = Torn(r, Final(r))]
              /\ pc[r] = "open"
          BY <4>2 DEF Open, name
        <5>2. dir[p] # inode \/ dir[p] = Absent
          <6>1. CASE dir[name] = Absent
            <7>1. ASSUME dir[p] = <<r, count[r] + 1>>
                  PROVE  FALSE
              <8>1. count[r] \in Nat
                BY <2>0 DEF TypeOK
              <8>2. count[r] + 1 \in 1..Longest
                BY <2>0, <3>1, AtPath
              <8>3. count[r] + 1 <= count[r]
                BY <4>1, <5>1, <7>1, <8>2 DEF IInv, Fresh
              <8> QED
                BY <8>1, <8>3
            <7> QED
              BY <6>1, <7>1
          <6>2. CASE dir[name] # Absent
            BY <2>0, <3>2, <4>1, <6>2 DEF Linked
          <6> QED
            BY <6>1, <6>2
        <5>3. dir'[p] = dir[p]
          BY <2>0, <4>1, <5>1 DEF TypeOK
        <5> HIDE DEF inode
        <5>4. dir[p] # Absent => store'[dir[p]] = store[dir[p]]
          BY <2>0, <4>1, <5>1, <5>2 DEF TypeOK
        <5> QED
          BY <5>3, <5>4 DEF Seen
      <4>3. CASE Write(r)
        <5>1. dir' = dir /\ pc[r] = "write" /\ dir[name] = fd[r] /\ fd[r] # Absent
          BY <2>0, <4>1, <4>3 DEF Write, Mine, name
        <5>2. PICK bytes : store' = [store EXCEPT ![fd[r]] = bytes]
          BY <4>3 DEF Write
        <5>3. dir[p] # fd[r]
          BY <2>0, <3>2, <4>1, <5>1 DEF Linked
        <5>4. dir[p] # Absent => store'[dir[p]] = store[dir[p]]
          BY <2>0, <4>1, <5>2, <5>3 DEF TypeOK
        <5> QED
          BY <5>1, <5>4 DEF Seen
      <4> QED
        BY <2>2, <4>2, <4>3
    <3> QED
      BY <3>3, <3>4
  <2>3. ASSUME NEW r \in Run, Start(r) \/ Fail(r) \/ Exit(r) \/ Kill(r)
        PROVE  seen' = seen
    <3>1. dir' = dir /\ store' = store /\ request' = request
      BY <2>3 DEF Start, Fail, Exit, Kill
    <3> QED
      BY <3>1, DirectStays DEF Seen
  <2>4. CASE UNCHANGED vars
    <3>1. dir' = dir /\ store' = store /\ request' = request
      BY <2>4 DEF vars
    <3> QED
      BY <3>1, DirectStays DEF Seen
  <2> QED
    BY <2>1, <2>2, <2>3, <2>4 DEF Next
<1> QED
  BY <1>1, <1>2, Invariance, PTL DEF Spec, AtomicFinals, Files!Spec

-----------------------------------------------------------------------------
(* What a run leaves behind *)

\* The inode a run writes is one that was made, and stands under no name but
\* the temporary file it opened and the path that file is for.
Traced ==
    /\ \A r, s \in Run, i \in 1..Longest : fd[r] = <<s, i>> =>
          /\ i <= count[s] + 1
          /\ pc[s] \in {"start", "open"} => i <= count[s]
    /\ \A r \in Run : pc[r] = "write" =>
          /\ fd[r] # Absent
          /\ Unaliased =>
                \A n \in Name : dir[n] = fd[r] => n = Opened(r) \/ n = Final(r)

\* What a run has finished is still there while it runs, and what it is about to
\* rename is what it planned.
Produced(r) ==
    /\ pc[r] = "rename" => store[dir[Opened(r)]] = Whole(r, Final(r))
    /\ Running(r) =>
          \A i \in 1..Len(Plan(r)) : i <= count[r] =>
              \/ Seen(Plan(r)[i]) = Whole(r, Plan(r)[i])
              \/ pc[r] = "write" /\ Plan(r)[i] = Opened(r)

\* A run whose calls do not fail exits 1 only for what it decided.
Excused(r) == r \notin Faulty /\ exit[r] = "failed" => verdict[r] # "clean"

OInv ==
    /\ \A r \in Run : exit[r] # "none" => pc[r] = "exited"
    /\ Traced
    /\ Unaliased /\ Separate => \A r \in Run : Produced(r) /\ Excused(r)

\* One step of one run.
Moves(r) ==
    Start(r) \/ Open(r) \/ Write(r) \/ Rename(r) \/ Stops(r)

\* A step is one run's, and leaves where the others are.
LEMMA OthersStay ==
    ASSUME IInv, NEW r \in Run, Moves(r), NEW s \in Run, s # r
    PROVE  /\ request' = request
           /\ pc'[s] = pc[s] /\ count'[s] = count[s] /\ verdict'[s] = verdict[s]
           /\ fd'[s] = fd[s] /\ exit'[s] = exit[s]
           /\ Plan(s)' = Plan(s) /\ Final(s)' = Final(s) /\ Opened(s)' = Opened(s)
<1>1. TypeOK
  BY DEF IInv
<1>2. /\ request' = request
      /\ pc'[s] = pc[s] /\ count'[s] = count[s] /\ verdict'[s] = verdict[s]
      /\ fd'[s] = fd[s] /\ exit'[s] = exit[s]
  <2>1. CASE Start(r)
    BY <1>1, <2>1 DEF Start, GoTo, TypeOK
  <2>2. CASE Open(r)
    BY <1>1, <2>2 DEF Open, GoTo, TypeOK
  <2>3. CASE Write(r)
    BY <1>1, <2>3 DEF Write, GoTo, TypeOK
  <2>4. CASE Rename(r)
    BY <1>1, <2>4 DEF Rename, GoTo, TypeOK
  <2>5. CASE Stops(r)
    BY <1>1, <2>5 DEF Stops, Fail, Exit, Kill, GoTo, TypeOK
  <2> QED
    BY <2>1, <2>2, <2>3, <2>4, <2>5 DEF Moves
<1> QED
  BY <1>2, Bystander

\* The run that opens a name takes it for an inode that stands nowhere else.
LEMMA OpenTakes ==
    ASSUME IInv, NEW r \in Run, Open(r)
    PROVE  \E inode \in Inode :
              /\ inode # Absent
              /\ inode = IF dir[Opened(r)] = Absent THEN <<r, count[r] + 1>> ELSE dir[Opened(r)]
              /\ \A n \in Name : dir'[n] = IF n = Opened(r) THEN inode ELSE dir[n]
              /\ \A n \in Name : n # Opened(r) => dir[n] # inode
              /\ \A i \in Inode : store'[i] = IF i = inode THEN Torn(r, Final(r)) ELSE store[i]
              /\ fd'[r] = inode
              /\ pc[r] = "open" /\ pc'[r] = "write" /\ count'[r] = count[r]
              /\ count[r] < Len(Plan(r)) /\ Opened(r) \in Name
              /\ count[r] + 1 \in 1..Longest
<1> DEFINE name == Opened(r)
           inode == IF dir[name] = Absent THEN <<r, count[r] + 1>> ELSE dir[name]
<1>1. /\ TypeOK /\ request \in Requests
      /\ pc[r] = "open" /\ count[r] < Len(Plan(r)) /\ count' = count
      /\ pc' = [pc EXCEPT ![r] = "write"]
      /\ dir' = [dir EXCEPT ![name] = inode]
      /\ fd' = [fd EXCEPT ![r] = inode]
      /\ store' = [store EXCEPT ![inode] = Torn(r, Final(r))]
  BY DEF IInv, Open, GoTo
<1>2. name \in Name /\ <<r, count[r] + 1>> \in Inode /\ count[r] + 1 \in 1..Longest
  BY <1>1, AtPath
<1>3. inode \in Inode /\ inode # Absent
  BY <1>1, <1>2, AbsentAssumption DEF TypeOK
<1>4. ASSUME NEW n \in Name, n # name, dir[n] = inode PROVE FALSE
  <2>1. CASE dir[name] = Absent
    <3>1. dir[n] = <<r, count[r] + 1>>
      BY <1>4, <2>1
    <3>2. count[r] + 1 <= count[r]
      BY <1>1, <1>2, <3>1 DEF IInv, Fresh
    <3> QED
      BY <1>1, <3>2 DEF TypeOK
  <2>2. CASE dir[name] # Absent
    BY <1>2, <1>4, <2>2 DEF IInv, Linked
  <2> QED
    BY <2>1, <2>2
<1>5. /\ \A n \in Name : dir'[n] = IF n = name THEN inode ELSE dir[n]
      /\ \A i \in Inode : store'[i] = IF i = inode THEN Torn(r, Final(r)) ELSE store[i]
      /\ fd'[r] = inode /\ pc'[r] = "write"
  BY <1>1 DEF TypeOK
<1> QED
  BY <1>1, <1>2, <1>3, <1>4, <1>5

\* A write lands on one inode.
LEMMA WriteLands ==
    ASSUME IInv, NEW r \in Run, Write(r)
    PROVE  /\ dir' = dir
           /\ \A i \in Inode : i # fd[r] => store'[i] = store[i]
           /\ pc[r] = "write" /\ pc'[r] \in {"open", "rename"}
           /\ pc'[r] = "open" => request[r].verb = "emit-ir" /\ count'[r] = count[r] + 1
           /\ pc'[r] = "rename" => request[r].verb # "emit-ir" /\ count'[r] = count[r]
           /\ count[r] < Len(Plan(r)) /\ fd'[r] = Absent
           /\ fd[r] \in Inode /\ store[fd[r]].writer = r => store'[fd[r]] = Whole(r, Final(r))
<1>1. PICK bytes \in {Whole(r, Final(r)), Torn(r, Final(r))} :
          /\ store[fd[r]].writer = r => bytes = Whole(r, Final(r))
          /\ store' = [store EXCEPT ![fd[r]] = bytes]
  BY DEF Write
<1>2. TypeOK /\ Placed
  BY DEF IInv
<1>3. /\ dir' = dir /\ pc[r] = "write"
      /\ IF request[r].verb = "emit-ir"
         THEN GoTo(r, "open") /\ count' = [count EXCEPT ![r] = @ + 1]
         ELSE GoTo(r, "rename") /\ UNCHANGED count
      /\ fd' = [fd EXCEPT ![r] = Absent]
  BY DEF Write
<1>4. count[r] < Len(Plan(r))
  BY <1>2, <1>3 DEF Placed
<1>5. /\ \A i \in Inode : i # fd[r] => store'[i] = store[i]
      /\ fd[r] \in Inode /\ store[fd[r]].writer = r => store'[fd[r]] = Whole(r, Final(r))
  BY <1>1, <1>2 DEF TypeOK
<1> QED
  BY <1>2, <1>3, <1>4, <1>5 DEF GoTo, TypeOK

\* A rename moves what the temporary name stands for.
LEMMA RenameMoves ==
    ASSUME IInv, NEW r \in Run, Rename(r)
    PROVE  /\ store' = store
           /\ pc[r] = "rename" /\ pc'[r] = "open" /\ count'[r] = count[r] + 1 /\ fd' = fd
           /\ count[r] < Len(Plan(r)) /\ dir[Opened(r)] # Absent
           /\ Opened(r) = TempOf(Final(r)) /\ Final(r) \in Path /\ Opened(r) \in Name
           /\ Opened(r) # Final(r)
           /\ \A n \in Name : dir'[n] = IF n = Opened(r) THEN Absent
                                       ELSE IF n = Final(r) THEN dir[Opened(r)] ELSE dir[n]
<1> DEFINE from == Opened(r)
           to == Final(r)
<1>1. /\ TypeOK /\ request \in Requests /\ store' = store /\ fd' = fd
      /\ pc[r] = "rename" /\ count[r] < Len(Plan(r)) /\ request[r].verb # "emit-ir"
      /\ dir[from] # Absent
      /\ dir' = [dir EXCEPT ![to] = dir[from], ![from] = Absent]
      /\ pc' = [pc EXCEPT ![r] = "open"]
      /\ count' = [count EXCEPT ![r] = @ + 1]
  BY DEF IInv, Placed, Rename, GoTo
<1>2. from = TempOf(to) /\ to \in Path /\ from \in Name /\ from # to /\ to \in Name
  BY <1>1, AtPath, TempAssumption DEF Name
<1> HIDE DEF from, to
<1>3. \A n \in Name : dir'[n] = IF n = from THEN Absent ELSE IF n = to THEN dir[from] ELSE dir[n]
  BY <1>1, <1>2 DEF TypeOK
<1>4. pc'[r] = "open" /\ count'[r] = count[r] + 1
  BY <1>1 DEF TypeOK
<1> QED
  BY <1>1, <1>2, <1>3, <1>4 DEF from, to

\* A run disturbs no name but the one it opened and the path that is for.
LEMMA Elsewhere ==
    ASSUME IInv, Traced, Unaliased, NEW r \in Run, Moves(r), NEW n \in Name,
           count[r] < Len(Plan(r)) => n # Opened(r) /\ n # Final(r)
    PROVE  dir'[n] = dir[n] /\ Seen(n)' = Seen(n)
<1>0. dir[n] # Absent => dir[n] \in Inode
  BY DEF IInv, TypeOK
<1>1. CASE Start(r)
  BY <1>1 DEF Start, Seen
<1>2. CASE Stops(r)
  BY <1>2 DEF Stops, Fail, Exit, Kill, Seen
<1>3. CASE Open(r)
  <2>1. PICK inode \in Inode :
              /\ \A m \in Name : dir'[m] = IF m = Opened(r) THEN inode ELSE dir[m]
              /\ \A m \in Name : m # Opened(r) => dir[m] # inode
              /\ \A i \in Inode : store'[i] = IF i = inode THEN Torn(r, Final(r)) ELSE store[i]
              /\ count[r] < Len(Plan(r))
    BY <1>3, OpenTakes
  <2> QED
    BY <1>0, <2>1 DEF Seen
<1>4. CASE Write(r)
  <2>1. /\ dir' = dir /\ pc[r] = "write" /\ count[r] < Len(Plan(r))
        /\ \A i \in Inode : i # fd[r] => store'[i] = store[i]
    BY <1>4, WriteLands
  <2>2. dir[n] # fd[r]
    BY <2>1 DEF Traced
  <2> QED
    BY <1>0, <2>1, <2>2 DEF Seen
<1>5. CASE Rename(r)
  BY <1>5, RenameMoves DEF Seen
<1> QED
  BY <1>1, <1>2, <1>3, <1>4, <1>5 DEF Moves

\* The first inode of an output is taken when the output is opened, and an output
\* is only counted once it was.
LEMMA TakenStays ==
    ASSUME IInv, NEW m \in Run, Moves(m), NEW s \in Run, NEW i \in 1..Longest,
           i <= count[s] + 1, pc[s] \in {"start", "open"} => i <= count[s]
    PROVE  i <= count'[s] + 1 /\ (pc'[s] \in {"start", "open"} => i <= count'[s])
<1>0. count[s] \in Nat /\ TypeOK
  BY DEF IInv, TypeOK
<1>1. CASE s # m
  BY <1>1, OthersStay
<1>2. CASE s = m /\ Start(m)
  BY <1>0, <1>2 DEF Start, GoTo
<1>3. CASE s = m /\ Open(m)
  BY <1>3, OpenTakes
<1>4. CASE s = m /\ Write(m)
  BY <1>0, <1>4, WriteLands
<1>5. CASE s = m /\ Rename(m)
  BY <1>0, <1>5, RenameMoves
<1>6. CASE s = m /\ Stops(m)
  <2>1. count' = count /\ pc'[m] \in {"exited", "dead"}
    BY <1>0, <1>6 DEF Stops, Fail, Exit, Kill, GoTo, TypeOK
  <2> QED
    BY <1>6, <2>1
<1> QED
  BY <1>1, <1>2, <1>3, <1>4, <1>5, <1>6 DEF Moves

\* Only the opening of an output makes a run write, and no run comes to write
\* the inode of an output that is still to be opened.
LEMMA TracedStep ==
    ASSUME IInv, Traced, NEW m \in Run, Moves(m)
    PROVE  Traced'
<1>0. /\ TypeOK /\ Fresh /\ Placed /\ request \in Requests
      /\ \A s \in Run, i \in 1..Longest : <<s, i>> \in Inode /\ <<s, i>> # Absent
  BY AbsentAssumption DEF IInv, Inode
<1>1. ~Open(m) => /\ pc'[m] # "write"
                  /\ fd'[m] \in {fd[m], Absent}
  <2>1. CASE Start(m)
    BY <1>0, <2>1 DEF Start, GoTo, TypeOK
  <2>2. CASE Write(m)
    BY <2>2, WriteLands
  <2>3. CASE Rename(m)
    BY <2>3, RenameMoves
  <2>4. CASE Stops(m)
    BY <1>0, <2>4 DEF Stops, Fail, Exit, Kill, GoTo, TypeOK
  <2> QED
    BY <2>1, <2>2, <2>3, <2>4 DEF Moves
<1>2. ASSUME NEW r \in Run, NEW s \in Run, NEW i \in 1..Longest, fd'[r] = <<s, i>>
      PROVE  \/ i <= count[s] + 1 /\ (pc[s] \in {"start", "open"} => i <= count[s])
             \/ s = m /\ Open(m) /\ i = count[m] + 1
  <2>1. CASE fd[r] = <<s, i>>
    BY <2>1 DEF Traced
  <2>2. CASE fd[r] # <<s, i>>
    <3>1. r = m /\ Open(m)
      BY <1>0, <1>1, <1>2, <2>2, OthersStay
    <3>2. \/ fd'[m] = <<m, count[m] + 1>>
          \/ fd'[m] = dir[Opened(m)] /\ Opened(m) \in Name
      BY <3>1, OpenTakes
    <3>3. CASE <<s, i>> = <<m, count[m] + 1>>
      BY <3>1, <3>3
    <3>4. CASE dir[Opened(m)] = <<s, i>> /\ Opened(m) \in Name
      BY <1>0, <3>4 DEF Fresh
    <3> QED
      BY <1>2, <3>1, <3>2, <3>3, <3>4
  <2> QED
    BY <2>1, <2>2
<1>3. ASSUME NEW r \in Run, NEW s \in Run, NEW i \in 1..Longest, fd'[r] = <<s, i>>
      PROVE  i <= count'[s] + 1 /\ (pc'[s] \in {"start", "open"} => i <= count'[s])
  <2>1. CASE s = m /\ Open(m) /\ i = count[m] + 1
    <3>1. count[m] \in Nat
      BY <1>0 DEF TypeOK
    <3> QED
      BY <2>1, <3>1, OpenTakes
  <2>2. CASE i <= count[s] + 1 /\ (pc[s] \in {"start", "open"} => i <= count[s])
    BY <2>2, TakenStays
  <2> QED
    BY <1>2, <1>3, <2>1, <2>2
<1>4. ASSUME NEW r \in Run, pc'[r] = "write"
      PROVE  /\ fd'[r] # Absent
             /\ Unaliased =>
                   \A n \in Name : dir'[n] = fd'[r] => n = Opened(r)' \/ n = Final(r)'
  <2>1. CASE r = m
    <3>1. Open(m)
      BY <1>1, <1>4, <2>1
    <3>2. Opened(m)' = Opened(m)
      BY <3>1, Bystander DEF Open
    <3> QED
      BY <2>1, <3>1, <3>2, OpenTakes
  <2>2. CASE r # m
    <3>1. /\ pc[r] = "write" /\ fd'[r] = fd[r]
          /\ Opened(r)' = Opened(r) /\ Final(r)' = Final(r)
      BY <1>4, <2>2, OthersStay
    <3>2. /\ fd[r] # Absent
          /\ Unaliased => \A n \in Name : dir[n] = fd[r] => n = Opened(r) \/ n = Final(r)
      BY <3>1 DEF Traced
    <3>3. ASSUME Unaliased, NEW n \in Name, dir'[n] = fd[r]
          PROVE  n = Opened(r) \/ n = Final(r)
      <4>1. CASE dir[n] = fd[r]
        BY <3>2, <3>3, <4>1
      <4>2. CASE dir[n] # fd[r] /\ Open(m)
        <5>1. /\ n = Opened(m) /\ dir[Opened(m)] = Absent /\ fd[r] = <<m, count[m] + 1>>
              /\ pc[m] = "open" /\ count[m] + 1 \in 1..Longest
          BY <3>3, <4>2, OpenTakes
        <5>2. count[m] + 1 <= count[m] /\ count[m] \in Nat
          BY <1>0, <5>1 DEF Traced, TypeOK
        <5> QED
          BY <5>2
      <4>3. CASE dir[n] # fd[r] /\ Rename(m)
        <5>1. /\ n = Final(m) /\ dir[Opened(m)] = fd[r] /\ Opened(m) \in Name
              /\ Opened(m) = TempOf(Final(m)) /\ Final(m) \in Path
          BY <3>2, <3>3, <4>3, RenameMoves
        <5>2. Opened(m) = Opened(r) \/ Opened(m) = Final(r)
          BY <3>2, <3>3, <5>1
        <5>3. /\ Final(r) \in Path
              /\ Opened(r) = Final(r) \/ Opened(r) = TempOf(Final(r))
          BY <1>0, <3>1, AtPath DEF Placed
        <5>4. TempOf(Final(m)) \notin Path
          BY <3>3, <5>1 DEF Unaliased
        <5>5. TempOf(Final(m)) = TempOf(Final(r))
          BY <5>1, <5>2, <5>3, <5>4
        <5> QED
          BY <5>1, <5>3, <5>5, TempAssumption
      <4>4. ~Open(m) /\ ~Rename(m) => dir' = dir
        BY DEF Moves, Start, Write, Stops, Fail, Exit, Kill
      <4> QED
        BY <3>3, <4>1, <4>2, <4>3, <4>4
    <3> QED
      BY <3>1, <3>2, <3>3
  <2> QED
    BY <2>1, <2>2
<1> QED
  BY <1>3, <1>4 DEF Traced, Unaliased

\* A run that moves while another is under way has outputs of its own.
LEMMA KeepsToItself ==
    ASSUME IInv, Unaliased, Separate, NEW r \in Run, NEW m \in Run, m # r,
           Running(r), Moves(m), count[m] < Len(Plan(m))
    PROVE  /\ \A p \in Path : p \in Outputs(request, r) => p # Opened(m) /\ p # Final(m)
           /\ count[r] < Len(Plan(r)) /\ request[r].verb # "emit-ir" =>
                 Opened(r) # Opened(m) /\ Opened(r) # Final(m)
<1>1. TypeOK /\ request \in Requests /\ OneAtATime
  BY DEF IInv
<1>2. request \notin Serial
  <2> SUFFICES ASSUME request \in Serial PROVE FALSE
    OBVIOUS
  <2>1. ~Start(m)
    BY DEF Start
  <2>2. Running(m)
    BY <2>1 DEF Moves, Open, Write, Rename, Stops, Fail, Exit, Kill, Running
  <2> QED
    BY <1>1, <2>2 DEF OneAtATime
<1>3. Outputs(request, r) \cap Outputs(request, m) = {}
  BY <1>2 DEF Separate
<1>4. /\ Final(m) \in Path /\ Final(m) \in Outputs(request, m)
      /\ Opened(m) = Final(m) \/ Opened(m) = TempOf(Final(m))
      /\ TempOf(Final(m)) \notin Path
  BY <1>1, AtPath DEF Unaliased
<1>5. ASSUME count[r] < Len(Plan(r)), request[r].verb # "emit-ir"
      PROVE  Opened(r) # Opened(m) /\ Opened(r) # Final(m)
  <2>1. /\ Final(r) \in Path /\ Final(r) \in Outputs(request, r)
        /\ Opened(r) = TempOf(Final(r)) /\ TempOf(Final(r)) \notin Path
    BY <1>1, <1>5, AtPath DEF Unaliased
  <2>2. TempOf(Final(r)) # TempOf(Final(m))
    BY <1>3, <1>4, <2>1, TempAssumption
  <2> QED
    BY <1>4, <2>1, <2>2
<1> QED
  BY <1>3, <1>4, <1>5

\* What a run finished, or is about to rename, no other run takes away.
LEMMA ProducedElsewhere ==
    ASSUME IInv, Traced, Unaliased, Separate, NEW r \in Run, NEW m \in Run, m # r,
           Moves(m), Produced(r)
    PROVE  Produced(r)'
<1>1. /\ pc'[r] = pc[r] /\ count'[r] = count[r] /\ request' = request
      /\ Plan(r)' = Plan(r) /\ Final(r)' = Final(r) /\ Opened(r)' = Opened(r)
  BY OthersStay
<1>2. /\ TypeOK /\ request \in Requests /\ Placed /\ Mine(r)
  BY DEF IInv
<1>3. ASSUME pc[r] = "rename"
      PROVE  store'[dir'[Opened(r)]] = Whole(r, Final(r))
  <2>1. /\ Running(r) /\ count[r] < Len(Plan(r)) /\ request[r].verb # "emit-ir"
        /\ dir[Opened(r)] # Absent
    BY <1>2, <1>3 DEF Placed, Running, Mine
  <2>2. Opened(r) \in Name
    BY <1>2, <2>1, AtPath
  <2>3. dir'[Opened(r)] = dir[Opened(r)] /\ Seen(Opened(r))' = Seen(Opened(r))
    BY <1>1, <2>1, <2>2, KeepsToItself, Elsewhere
  <2>4. store'[dir[Opened(r)]] = store[dir[Opened(r)]]
    BY <1>1, <2>1, <2>3 DEF Seen
  <2> QED
    BY <1>3, <2>3, <2>4 DEF Produced
<1>4. ASSUME Running(r), NEW i \in 1..Len(Plan(r)), i <= count[r]
      PROVE  \/ Seen(Plan(r)[i])' = Whole(r, Plan(r)[i])
             \/ pc[r] = "write" /\ Plan(r)[i] = Opened(r)
  <2>1. Plan(r)[i] \in Path /\ Plan(r)[i] \in Outputs(request, r) /\ Plan(r)[i] \in Name
    BY <1>2, PlanShape DEF Name
  <2>2. Seen(Plan(r)[i])' = Seen(Plan(r)[i])
    <3> DEFINE p == Plan(r)[i]
    <3>1. p \in Name /\ (count[m] < Len(Plan(m)) => p # Opened(m) /\ p # Final(m))
      BY <1>4, <2>1, KeepsToItself
    <3>2. p' = p
      BY <1>1
    <3> HIDE DEF p
    <3>3. dir'[p] = dir[p] /\ (IF dir'[p] = Absent THEN Absent ELSE store'[dir'[p]]) = Seen(p)
      BY <3>1, Elsewhere DEF Seen
    <3> QED
      BY <3>2, <3>3 DEF Seen, p
  <2> QED
    BY <1>4, <2>2 DEF Produced
<1> QED
  BY <1>1, <1>3, <1>4 DEF Produced, Running

\* What a run itself does keeps what it finished.
LEMMA ProducedOwn ==
    ASSUME IInv, Traced, Unaliased, Separate, NEW r \in Run, Moves(r), Produced(r)
    PROVE  Produced(r)'
<1>1. /\ TypeOK /\ request \in Requests /\ Placed /\ Mine(r) /\ Linked
      /\ count[r] \in Nat
  BY DEF IInv, TypeOK
<1>2. CASE Start(r)
  <2>1. count'[r] = 0 /\ pc'[r] = "open"
    BY <1>1, <1>2 DEF Start, GoTo, Placed, TypeOK
  <2>2. ASSUME NEW i \in 1..Len(Plan(r)') PROVE ~(i <= count'[r])
    BY <2>1
  <2> QED
    BY <2>1, <2>2 DEF Produced
<1>3. CASE Stops(r)
  <2>1. pc'[r] \in {"exited", "dead"}
    BY <1>1, <1>3 DEF Stops, Fail, Exit, Kill, GoTo, TypeOK
  <2> QED
    BY <2>1 DEF Produced, Running
<1>4. ASSUME ~Start(r)
      PROVE  /\ request' = request /\ Plan(r)' = Plan(r)
             /\ count'[r] = count[r] => Final(r)' = Final(r) /\ Opened(r)' = Opened(r)
  <2>1. request' = request /\ verdict' = verdict
    BY <1>4 DEF Moves, Open, Write, Rename, Stops, Fail, Exit, Kill
  <2> QED
    BY <2>1, Bystander DEF Plan
<1>5. \A i \in 1..Len(Plan(r)) : Plan(r)[i] \in Path /\ Plan(r)[i] \in Name
  BY <1>1, PlanShape DEF Name
<1>6. CASE Open(r)
  <2>1. PICK inode \in Inode :
              /\ \A n \in Name : dir'[n] = IF n = Opened(r) THEN inode ELSE dir[n]
              /\ \A n \in Name : n # Opened(r) => dir[n] # inode
              /\ \A i \in Inode : store'[i] = IF i = inode THEN Torn(r, Final(r)) ELSE store[i]
              /\ pc[r] = "open" /\ pc'[r] = "write" /\ count'[r] = count[r]
    BY <1>6, OpenTakes
  <2>2. Plan(r)' = Plan(r) /\ Opened(r)' = Opened(r)
    BY <1>4, <1>6, <2>1 DEF Open, Start
  <2>3. ASSUME NEW i \in 1..Len(Plan(r)), i <= count[r], Plan(r)[i] # Opened(r)
        PROVE  (IF dir'[Plan(r)[i]] = Absent THEN Absent ELSE store'[dir'[Plan(r)[i]]])
               = Whole(r, Plan(r)[i])
    <3>1. Seen(Plan(r)[i]) = Whole(r, Plan(r)[i])
      BY <2>1, <2>3 DEF Produced, Running
    <3>2. dir[Plan(r)[i]] \in Inode \cup {Absent} /\ dir'[Plan(r)[i]] = dir[Plan(r)[i]]
      BY <1>1, <1>5, <2>1, <2>3 DEF TypeOK
    <3>3. dir[Plan(r)[i]] # inode
      BY <1>5, <2>1, <2>3
    <3> QED
      BY <2>1, <3>1, <3>2, <3>3 DEF Seen
  <2> QED
    BY <2>1, <2>2, <2>3 DEF Produced, Seen
<1>7. CASE Write(r)
  <2>1. /\ dir' = dir
        /\ \A i \in Inode : i # fd[r] => store'[i] = store[i]
        /\ pc[r] = "write" /\ pc'[r] \in {"open", "rename"}
        /\ pc'[r] = "open" => request[r].verb = "emit-ir" /\ count'[r] = count[r] + 1
        /\ pc'[r] = "rename" => count'[r] = count[r]
        /\ count[r] < Len(Plan(r))
        /\ fd[r] \in Inode /\ store[fd[r]].writer = r => store'[fd[r]] = Whole(r, Final(r))
    BY <1>7, WriteLands
  <2>2. Plan(r)' = Plan(r) /\ (count'[r] = count[r] => Opened(r)' = Opened(r) /\ Final(r)' = Final(r))
    BY <1>4, <1>7, <2>1 DEF Write, Start
  <2>3. /\ dir[Opened(r)] = fd[r] /\ fd[r] # Absent /\ fd[r] \in Inode
        /\ store'[fd[r]] = Whole(r, Final(r)) /\ Opened(r) \in Name
    BY <1>1, <2>1, AtPath DEF Mine, TypeOK
  <2>4. ASSUME pc'[r] = "rename"
        PROVE  store'[dir'[Opened(r)']] = Whole(r, Final(r)')
    BY <2>1, <2>2, <2>3, <2>4
  <2>5. ASSUME NEW i \in 1..Len(Plan(r)), i <= count'[r]
        PROVE  (IF dir[Plan(r)[i]] = Absent THEN Absent ELSE store'[dir[Plan(r)[i]]])
               = Whole(r, Plan(r)[i])
    <3>1. CASE i = count[r] + 1
      <4>1. pc'[r] = "open" /\ request[r].verb = "emit-ir"
        BY <1>1, <2>1, <2>5, <3>1
      <4>2. Final(r) = Plan(r)[i] /\ Opened(r) = Plan(r)[i]
        BY <3>1, <4>1 DEF Final, Opened
      <4> QED
        BY <2>3, <4>2
    <3>2. CASE i # count[r] + 1 /\ Plan(r)[i] = Opened(r)
      <4>1. Final(r) = Opened(r)
        BY <1>1, <1>5, <2>1, <3>2, AtPath DEF Unaliased
      <4> QED
        BY <2>3, <3>2, <4>1
    <3>3. CASE i # count[r] + 1 /\ Plan(r)[i] # Opened(r)
      <4>1. i <= count[r]
        BY <1>1, <2>1, <2>5, <3>3
      <4>2. Seen(Plan(r)[i]) = Whole(r, Plan(r)[i])
        BY <2>1, <3>3, <4>1 DEF Produced, Running
      <4>3. dir[Plan(r)[i]] \in Inode \cup {Absent} /\ dir[Plan(r)[i]] # fd[r]
        BY <1>1, <1>5, <2>3, <3>3 DEF TypeOK, Linked
      <4> QED
        BY <2>1, <4>2, <4>3 DEF Seen
    <3> QED
      BY <3>1, <3>2, <3>3
  <2> QED
    BY <2>1, <2>2, <2>4, <2>5 DEF Produced, Seen
<1>8. CASE Rename(r)
  <2>1. /\ store' = store
        /\ pc[r] = "rename" /\ pc'[r] = "open" /\ count'[r] = count[r] + 1
        /\ count[r] < Len(Plan(r)) /\ dir[Opened(r)] # Absent
        /\ Opened(r) = TempOf(Final(r)) /\ Final(r) \in Path /\ Opened(r) \in Name
        /\ \A n \in Name : dir'[n] = IF n = Opened(r) THEN Absent
                                    ELSE IF n = Final(r) THEN dir[Opened(r)] ELSE dir[n]
    BY <1>8, RenameMoves
  <2>2. Plan(r)' = Plan(r) /\ Opened(r) \notin Path
    BY <1>4, <1>8, <2>1 DEF Rename, Start, Unaliased
  <2>3. ASSUME NEW i \in 1..Len(Plan(r)), i <= count[r] + 1
        PROVE  (IF dir'[Plan(r)[i]] = Absent THEN Absent ELSE store[dir'[Plan(r)[i]]])
               = Whole(r, Plan(r)[i])
    <3>1. Plan(r)[i] \in Name /\ Plan(r)[i] # Opened(r)
      BY <1>5, <2>2
    <3>2. CASE Plan(r)[i] = Final(r)
      <4>1. dir'[Plan(r)[i]] = dir[Opened(r)]
        BY <2>1, <3>1, <3>2
      <4> QED
        BY <2>1, <3>2, <4>1 DEF Produced
    <3>3. CASE Plan(r)[i] # Final(r)
      <4>1. i <= count[r]
        BY <1>1, <2>3, <3>3 DEF Final
      <4>2. dir'[Plan(r)[i]] = dir[Plan(r)[i]]
        BY <2>1, <3>1, <3>3
      <4> QED
        BY <2>1, <4>1, <4>2 DEF Produced, Running, Seen
    <3> QED
      BY <3>2, <3>3
  <2> QED
    BY <2>1, <2>2, <2>3 DEF Produced, Seen
<1> QED
  BY <1>2, <1>3, <1>6, <1>7, <1>8 DEF Moves

\* A run is made to fail by its own calls alone.
LEMMA ExcusedStep ==
    ASSUME IInv, Unaliased, Separate, NEW r \in Run, NEW m \in Run, Moves(m),
           exit[r] # "none" => pc[r] = "exited", Excused(r)
    PROVE  Excused(r)'
<1>1. TypeOK /\ Mine(r)
  BY DEF IInv
<1>2. CASE r # m
  BY <1>2, OthersStay DEF Excused
<1>3. CASE r = m /\ Start(r)
  BY <1>3 DEF Start, Excused
<1>4. CASE r = m /\ (Open(r) \/ Write(r) \/ Rename(r) \/ Kill(r))
  BY <1>4 DEF Open, Write, Rename, Kill, Excused
<1>5. CASE r = m /\ Fail(r)
  BY <1>1, <1>5 DEF Fail, Mine, Excused
<1>6. CASE r = m /\ Exit(r)
  BY <1>1, <1>6 DEF Exit, Excused, TypeOK
<1> QED
  BY <1>2, <1>3, <1>4, <1>5, <1>6 DEF Moves, Stops

\* Before the first run nothing is finished, failed or being written.
LEMMA InitOInv == Init => OInv
<1> SUFFICES ASSUME Init PROVE OInv
  OBVIOUS
<1>1. \A r \in Run, s \in Run, i \in 1..Longest : fd[r] # <<s, i>>
  BY AbsentAssumption DEF Init, Inode
<1>2. \A r \in Run : pc[r] = "start" /\ exit[r] = "none"
  BY DEF Init
<1> QED
  BY <1>1, <1>2 DEF OInv, Traced, Produced, Excused, Running

\* No step of any run takes back what a run finished.
LEMMA StepOInv == IInv /\ OInv /\ [Next]_vars => OInv'
<1> SUFFICES ASSUME IInv, OInv, [Next]_vars PROVE OInv'
  OBVIOUS
<1>1. CASE UNCHANGED vars
  <2>1. /\ UNCHANGED <<dir, store, request, verdict, pc, count, fd, exit>>
        /\ \A r \in Run : Plan(r)' = Plan(r) /\ Final(r)' = Final(r) /\ Opened(r)' = Opened(r)
    BY <1>1, Bystander DEF vars
  <2>2. Traced'
    BY <2>1 DEF OInv, Traced, Unaliased
  <2>3. ASSUME NEW r \in Run, Produced(r), Excused(r) PROVE Produced(r)' /\ Excused(r)'
    BY <2>1, <2>3 DEF Produced, Excused, Running, Seen
  <2> QED
    BY <2>1, <2>2, <2>3, DirectStays DEF OInv, Unaliased
<1>2. CASE Next
  <2>1. PICK m \in Run : Moves(m)
    BY <1>2 DEF Next, Moves, Stops
  <2>2. Traced'
    BY <2>1, TracedStep DEF OInv
  <2>3. ASSUME NEW r \in Run, exit'[r] # "none" PROVE pc'[r] = "exited"
    <3>1. CASE r # m
      BY <2>1, <2>3, <3>1, OthersStay DEF OInv
    <3>2. CASE r = m
      BY <2>1, <2>3, <3>2
         DEF IInv, OInv, TypeOK, Moves, Start, Open, Write, Rename, Stops, Fail, Exit, Kill,
             GoTo, Running
    <3> QED
      BY <3>1, <3>2
  <2>4. request' = request
    BY <2>1 DEF Moves, Start, Open, Write, Rename, Stops, Fail, Exit, Kill
  <2>5. ASSUME Unaliased, Separate, NEW r \in Run
        PROVE  Produced(r)' /\ Excused(r)'
    BY <2>1, <2>5, ProducedElsewhere, ProducedOwn, ExcusedStep DEF OInv
  <2> QED
    BY <2>2, <2>3, <2>4, <2>5, DirectStays DEF OInv, Unaliased
<1> QED
  BY <1>1, <1>2

\* What the runs leave behind at every step: each file a run finished stays whole
\* until that run ends, and no leftover makes a run fail.
THEOREM LeavesBehind == Spec => [](IInv /\ OInv)
BY InitIInv, StepIInv, InitOInv, StepOInv, PTL DEF Spec

\* A run whose calls succeed and whose input is clean exits 0, whatever killed
\* runs left under its temporary names (cli.mjs writeAtomic).
THEOREM LeftoversHold == ASSUME Unaliased PROVE Spec => []LeftoversHarmless
<1>1. IInv /\ OInv => LeftoversHarmless
  BY DEF OInv, Excused, LeftoversHarmless
<1> QED
  BY <1>1, LeavesBehind, PTL

\* cli.mjs:433-438: in the step in which a run exits 0, every file of its plan
\* stands at its path, whole and from this run.
THEOREM CompletesHold == ASSUME Unaliased PROVE Spec => CompletesWhole
<1>1. IInv /\ OInv /\ [Next]_vars =>
        [\A r \in Run : Separate /\ exit'[r] = "ok" /\ exit[r] # "ok" =>
          \A i \in 1..Len(Plan(r)) : Seen(Plan(r)[i])' = Whole(r, Plan(r)[i])]_vars
  <2> SUFFICES ASSUME IInv, OInv, Next, NEW r \in Run, Separate,
                      exit'[r] = "ok", exit[r] # "ok", NEW i \in 1..Len(Plan(r))
               PROVE  Seen(Plan(r)[i])' = Whole(r, Plan(r)[i])
    OBVIOUS
  <2>1. PICK m \in Run : Moves(m)
    BY DEF Next, Moves, Stops
  <2>2. r = m
    BY <2>1, OthersStay
  <2>3. Exit(r)
    BY <2>1, <2>2 DEF IInv, TypeOK, Moves, Start, Open, Write, Rename, Stops, Fail, Kill
  <2>4. /\ pc[r] = "open" /\ count[r] = Len(Plan(r))
        /\ UNCHANGED <<dir, store, request, verdict, count>>
    BY <2>3 DEF Exit
  <2>5. i <= count[r]
    BY <2>4
  <2>6. Seen(Plan(r)[i]) = Whole(r, Plan(r)[i])
    BY <2>4, <2>5 DEF OInv, Produced, Running
  <2>7. Plan(r)' = Plan(r)
    BY <2>4, Bystander
  <2> QED
    BY <2>4, <2>6, <2>7 DEF Seen
<1> QED
  BY <1>1, LeavesBehind, PTL DEF Spec, CompletesWhole

\* FR-052, FR-071: a step of a blocked compile or generation changes the document
\* or the generated files that were there only by putting its report where the
\* caller named it among them, and a run that exits 0 left its own files.
THEOREM OutputsHold == ASSUME Unaliased PROVE Spec => OutputsAreKept
<1>1. IInv /\ OInv /\ [Next]_vars =>
        [\A r \in Run : verdict[r] = "blocked" /\ pc'[r] # pc[r] =>
          \A p \in Kept(r) :
              \/ Seen(p)' = Seen(p)
              \/ /\ p \in ToSet(request[r].report)
                 /\ Separate => Seen(p)' = Whole(r, p)]_vars
  <2> SUFFICES ASSUME IInv, OInv, Next, NEW r \in Run, verdict[r] = "blocked",
                      pc'[r] # pc[r], NEW p \in Kept(r), Seen(p)' # Seen(p)
               PROVE  /\ p \in ToSet(request[r].report)
                      /\ Separate => Seen(p)' = Whole(r, p)
    OBVIOUS
  <2>1. PICK m \in Run : Moves(m)
    BY DEF Next, Moves, Stops
  <2>2. r = m
    BY <2>1, OthersStay
  <2>3. /\ TypeOK /\ request \in Requests
        /\ request[r].report \in Seq(Path) /\ request[r].outs \in Seq(Path)
        /\ request[r].root \subseteq Path
    BY DEF IInv, TypeOK, Request
  <2>4. p \in Path /\ p \in Name
    <3>1. ToSet(request[r].outs) \subseteq Path
      BY <2>3 DEF ToSet
    <3> QED
      BY <2>3, <3>1 DEF Kept, Name
  <2>5. Plan(r) = request[r].report /\ request[r].verb # "emit-ir"
    BY DEF Plan, Kept
  <2>6. count[r] < Len(Plan(r)) /\ (p = Opened(r) \/ p = Final(r))
    BY <2>1, <2>2, <2>4, Elsewhere DEF OInv
  <2>7. p = Final(r) /\ Opened(r) = TempOf(p) /\ Opened(r) # p /\ Opened(r) \in Name
    <3>1. Final(r) \in Path /\ Opened(r) = TempOf(Final(r)) /\ Opened(r) \in Name
      BY <2>3, <2>5, <2>6, AtPath
    <3>2. p # Opened(r)
      BY <2>4, <3>1 DEF Unaliased
    <3> QED
      BY <2>6, <3>1, <3>2
  <2>8. p \in ToSet(request[r].report)
    <3>1. count[r] + 1 \in 1..Len(request[r].report)
      BY <2>3, <2>5, <2>6 DEF TypeOK
    <3> QED
      BY <2>3, <2>5, <2>7, <3>1, Ranged DEF Final
  <2>9. ASSUME Separate PROVE Rename(r)
    \* Another call of the run leaves the path alone: its temporary file is another.
    <3>1. dir[p] # Absent => dir[p] \in Inode
      BY <2>3, <2>4 DEF TypeOK
    <3>2. ~Start(r) /\ ~Stops(r)
      BY DEF Start, Stops, Fail, Exit, Kill, Seen
    <3>3. ASSUME Open(r) PROVE FALSE
      <4>1. PICK inode \in Inode :
                  /\ \A n \in Name : dir'[n] = IF n = Opened(r) THEN inode ELSE dir[n]
                  /\ \A n \in Name : n # Opened(r) => dir[n] # inode
                  /\ \A i \in Inode : store'[i] = IF i = inode THEN Torn(r, Final(r)) ELSE store[i]
        BY <3>3, OpenTakes
      <4>2. dir'[p] = dir[p] /\ dir[p] # inode
        BY <2>4, <2>7, <4>1
      <4> QED
        BY <3>1, <4>1, <4>2 DEF Seen
    <3>4. ASSUME Write(r) PROVE FALSE
      <4>1. /\ dir' = dir
            /\ \A i \in Inode : i # fd[r] => store'[i] = store[i]
            /\ pc[r] = "write"
        BY <3>4, WriteLands
      <4>2. dir[Opened(r)] = fd[r] /\ fd[r] # Absent
        BY <2>9, <4>1 DEF IInv, OInv, Mine
      <4>3. dir[p] # fd[r]
        BY <2>4, <2>7, <4>2 DEF IInv, Linked
      <4> QED
        BY <3>1, <4>1, <4>3 DEF Seen
    <3> QED
      BY <2>1, <2>2, <3>2, <3>3, <3>4 DEF Moves
  <2>10. ASSUME Separate PROVE Seen(p)' = Whole(r, p)
    <3>1. /\ store' = store /\ pc[r] = "rename" /\ dir[Opened(r)] # Absent
          /\ \A n \in Name : dir'[n] = IF n = Opened(r) THEN Absent
                                       ELSE IF n = Final(r) THEN dir[Opened(r)] ELSE dir[n]
      BY <2>9, <2>10, RenameMoves
    <3>2. store[dir[Opened(r)]] = Whole(r, p)
      BY <2>7, <2>10, <3>1 DEF OInv, Produced
    <3>3. dir'[p] = dir[Opened(r)]
      BY <2>4, <2>7, <3>1
    <3> QED
      BY <3>1, <3>2, <3>3 DEF Seen
  <2> QED
    BY <2>8, <2>10
<1>2. Spec => BlockedKeepsOutputs
  BY <1>1, LeavesBehind, PTL DEF Spec, BlockedKeepsOutputs
<1> QED
  BY <1>2, CompletesHold, PTL DEF OutputsAreKept

=============================================================================
