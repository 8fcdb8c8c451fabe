----------------------------- MODULE LiftWriter -----------------------------
(***************************************************************************)
(* The write protocol of the extraction frontend                           *)
(* (crates/extraction-frontend/src/write.rs, lift.rs): several lifts, each *)
(* a process of its own, write a document and its diagnostics sidecar      *)
(* through temporary files on one file system.  A lift may be refused, may *)
(* meet an I/O error at any call, and may die between any two.             *)
(***************************************************************************)
EXTENDS Naturals, Sequences, FiniteSets

CONSTANTS
    Lift,           \* lift processes, each run once
    Path,           \* file names on the file system
    TempOf(_),      \* with_suffix(path, TEMP_SUFFIX)
    Fenced,         \* names under a module or bundle root, or without a parent
    Requests,       \* the output paths of each lift
    Emissions,      \* emissions a lowered bundle can end in
    Faults,         \* file-system calls that may fail
    Stuck,          \* the lifts whose removals of files may fail
    Crashes,        \* the lifts that may die
    Absent,         \* no file
    Older           \* the writer of what the file system held at first

Slot == {"diagnostics", "document"}
Emission == {"Blocked", "Document"}
Fault == {"open", "write", "rename"}

ASSUME OlderAssumption == Older \notin Lift
ASSUME RequestsAssumption == Requests \subseteq [Lift -> [Slot -> Path]]
ASSUME TempAssumption ==
    /\ \A p \in Path : TempOf(p) # p
    /\ \A p, q \in Path : TempOf(p) = TempOf(q) => p = q
ASSUME EmissionsAssumption == Emissions \subseteq Emission
ASSUME FaultsAssumption == Faults \subseteq Fault
ASSUME CrashesAssumption == Crashes \subseteq Lift /\ Stuck \subseteq Lift

Content == [writer : Lift \cup {Older}, slot : Slot, whole : BOOLEAN]

ASSUME AbsentAssumption == Absent \notin Content

\* Final names and the temporary names beside them.
Name == Path \cup {TempOf(p) : p \in Path}

VARIABLES
    files,      \* the file system: name -> content
    request,    \* lift -> slot -> path
    pc,         \* lift -> the call it makes next
    emission,   \* lift -> what is left to write
    opened,     \* lift -> how many temporary files of its plan it opened
    renamed,    \* lift -> how many files of its plan it renamed
    owned,      \* lift -> the temporary files it removes when dropped
    outcome     \* lift -> its LiftOutcome

vars == <<files, request, pc, emission, opened, renamed, owned, outcome>>

Step == {"check", "lower", "open", "write", "rename", "drop", "done", "dead"}

\* Mutant: the document is renamed before its sidecar.
PlanDocumentFirst(l) ==
    IF emission[l] = "Document" THEN <<"document", "diagnostics">>
                                ELSE <<"diagnostics">>

\* `planned`: the sidecar, and on a success verdict the document after it.
Plan(l) == IF emission[l] = "Document" THEN <<"diagnostics", "document">>
                                       ELSE <<"diagnostics">>

Final(l, i) == request[l][Plan(l)[i]]
Temp(l, i) == TempOf(Final(l, i))

Whole(l, slot) == [writer |-> l, slot |-> slot, whole |-> TRUE]
Torn(l, slot) == [writer |-> l, slot |-> slot, whole |-> FALSE]

GoTo(l, step) == pc' = [pc EXCEPT ![l] = step]

Become(l, result) == outcome' = [outcome EXCEPT ![l] = result]

Init ==
    /\ request \in Requests
    /\ files \in [Name -> {Absent} \cup
                     [writer : {Older}, slot : Slot, whole : BOOLEAN]]
    /\ \A p \in Name : files[p] # Absent =>
          \E l \in Lift, s \in Slot : p \in {request[l][s], TempOf(request[l][s])}
    /\ \A l \in Lift, s \in Slot :
          files[request[l][s]] \in {Absent, Whole(Older, s)}
    /\ pc = [l \in Lift |-> "check"]
    /\ emission = [l \in Lift |-> "Blocked"]
    /\ opened = [l \in Lift |-> 0]
    /\ renamed = [l \in Lift |-> 0]
    /\ owned = [l \in Lift |-> {}]
    /\ outcome = [l \in Lift |-> "running"]

\* check_output: a fenced path, or two options that name one file.
Refusable(l) ==
    \/ \E s \in Slot : request[l][s] \in Fenced
    \/ request[l]["document"] = request[l]["diagnostics"]

RefuseOutput(l) ==
    /\ pc[l] = "check"
    /\ Refusable(l)
    /\ GoTo(l, "done")
    /\ Become(l, "refused")
    /\ UNCHANGED <<files, request, emission, opened, renamed, owned>>

AcceptOutput(l) ==
    /\ pc[l] = "check"
    /\ ~Refusable(l)
    /\ GoTo(l, "lower")
    /\ UNCHANGED <<files, request, emission, opened, renamed, owned, outcome>>

\* The bundle, its manifests or the crate's own data do not load.
RefuseBundle(l) ==
    /\ pc[l] = "lower"
    /\ GoTo(l, "done")
    /\ Become(l, "refused")
    /\ UNCHANGED <<files, request, emission, opened, renamed, owned>>

\* Lowering and the independent reader decide what there is to write.
Lower(l) ==
    /\ pc[l] = "lower"
    /\ emission' \in {[emission EXCEPT ![l] = e] : e \in Emissions}
    /\ GoTo(l, "open")
    /\ UNCHANGED <<files, request, opened, renamed, owned, outcome>>

\* create_new: the name must be free, whoever took it.
OpenTemp(l) ==
    /\ pc[l] = "open"
    /\ files[Temp(l, opened[l] + 1)] = Absent
    /\ files' = [files EXCEPT ![Temp(l, opened[l] + 1)] =
                     Torn(l, Plan(l)[opened[l] + 1])]
    /\ opened' = [opened EXCEPT ![l] = @ + 1]
    /\ owned' = [owned EXCEPT ![l] = @ \cup {Temp(l, opened[l] + 1)}]
    /\ GoTo(l, "write")
    /\ UNCHANGED <<request, emission, renamed, outcome>>

\* Mutant: a taken name is waited for.
RetryOpen(l) ==
    /\ pc[l] = "open"
    /\ files[Temp(l, opened[l] + 1)] # Absent \/ "open" \in Faults
    /\ UNCHANGED vars

FailOpen(l) ==
    /\ pc[l] = "open"
    /\ files[Temp(l, opened[l] + 1)] # Absent \/ "open" \in Faults
    /\ GoTo(l, "drop")
    /\ UNCHANGED <<files, request, emission, opened, renamed, owned, outcome>>

WriteTemp(l) ==
    /\ pc[l] = "write"
    /\ files' = [files EXCEPT ![Temp(l, opened[l])] =
                     Whole(l, Plan(l)[opened[l]])]
    /\ GoTo(l, IF opened[l] = Len(Plan(l)) THEN "rename" ELSE "open")
    /\ UNCHANGED <<request, emission, opened, renamed, owned, outcome>>

\* Mutant: the guard exists only once the bytes are written.
FailWriteUnguarded(l) ==
    /\ pc[l] = "write"
    /\ "write" \in Faults
    /\ owned' = [owned EXCEPT ![l] = @ \ {Temp(l, opened[l])}]
    /\ GoTo(l, "drop")
    /\ UNCHANGED <<files, request, emission, opened, renamed, outcome>>

\* Mutant: the error of write_all is not looked at.
FailWriteIgnored(l) ==
    /\ pc[l] = "write"
    /\ "write" \in Faults
    /\ GoTo(l, IF opened[l] = Len(Plan(l)) THEN "rename" ELSE "open")
    /\ UNCHANGED <<files, request, emission, opened, renamed, owned, outcome>>

FailWrite(l) ==
    /\ pc[l] = "write"
    /\ "write" \in Faults
    /\ GoTo(l, "drop")
    /\ UNCHANGED <<files, request, emission, opened, renamed, owned, outcome>>

\* fs::rename replaces whatever the final name held; the guard is kept.
RenameTemp(l) ==
    LET next == renamed[l] + 1
        last == next = Len(Plan(l))
    IN  /\ pc[l] = "rename"
        /\ files[Temp(l, next)] # Absent
        /\ files' = [files EXCEPT ![Final(l, next)] = files[Temp(l, next)],
                                  ![Temp(l, next)] = Absent]
        /\ renamed' = [renamed EXCEPT ![l] = next]
        /\ owned' = [owned EXCEPT ![l] = @ \ {Temp(l, next)}]
        /\ GoTo(l, IF last THEN "done" ELSE "rename")
        /\ IF last
           THEN Become(l, IF emission[l] = "Document" THEN "written" ELSE "blocked")
           ELSE UNCHANGED outcome
        /\ UNCHANGED <<request, emission, opened>>

FailRename(l) ==
    /\ pc[l] = "rename"
    /\ files[Temp(l, renamed[l] + 1)] = Absent \/ "rename" \in Faults
    /\ GoTo(l, "drop")
    /\ UNCHANGED <<files, request, emission, opened, renamed, owned, outcome>>

\* Drop for Temp, once per guard that was not kept; its failure is ignored.
DropTemp(l) ==
    /\ pc[l] = "drop"
    /\ \E t \in owned[l] :
          /\ owned' = [owned EXCEPT ![l] = @ \ {t}]
          /\ \/ files' = [files EXCEPT ![t] = Absent]
             \/ l \in Stuck /\ UNCHANGED files
    /\ UNCHANGED <<request, pc, emission, opened, renamed, outcome>>

RefuseWrite(l) ==
    /\ pc[l] = "drop"
    /\ owned[l] = {}
    /\ GoTo(l, "done")
    /\ Become(l, "refused")
    /\ UNCHANGED <<files, request, emission, opened, renamed, owned>>

\* The process dies: no guard runs, and what it had written stays.
Crash(l) ==
    /\ l \in Crashes
    /\ pc[l] \in {"open", "write", "rename", "drop"}
    /\ GoTo(l, "dead")
    /\ UNCHANGED <<files, request, emission, opened, renamed, owned, outcome>>

Proceed(l) ==
    \/ RefuseOutput(l) \/ AcceptOutput(l) \/ RefuseBundle(l) \/ Lower(l)
    \/ OpenTemp(l) \/ FailOpen(l) \/ WriteTemp(l) \/ FailWrite(l)
    \/ RenameTemp(l) \/ FailRename(l) \/ DropTemp(l) \/ RefuseWrite(l)

Next == \E l \in Lift : Proceed(l) \/ Crash(l)

Spec == Init /\ [][Next]_vars

\* A live process keeps running; nothing makes one die.
FairSpec == Spec /\ \A l \in Lift : WF_vars(Proceed(l))

-----------------------------------------------------------------------------
(* Properties *)

\* The state is well formed.
TypeOK ==
    /\ files \in [Name -> Content \cup {Absent}]
    /\ request \in [Lift -> [Slot -> Path]]
    /\ pc \in [Lift -> Step]
    /\ emission \in [Lift -> Emission]
    /\ opened \in [Lift -> 0..2]
    /\ renamed \in [Lift -> 0..2]
    /\ owned \in [Lift -> SUBSET Name]
    /\ outcome \in [Lift -> {"running", "refused", "blocked", "written"}]

\* No output path is spelled like the temporary file of another.
Unaliased == \A p \in Path : TempOf(p) \notin Path

\* While a lift holds a temporary file (Temp, write.rs:186-232) the file is
\* there, is the one it wrote, and no other lift holds it: what it renames
\* or removes by name is its own, however the other lifts interleave.
HeldTempsAreOwn ==
    Unaliased => \A l \in Lift : \A t \in owned[l] :
        /\ files[t] # Absent
        /\ files[t].writer = l
        /\ \A m \in Lift \ {l} : t \notin owned[m]

\* FR-097 "leave no temporary file behind after any lift": a lift that came
\* to its end, and could remove files, left none of its own under a temporary
\* name.
NoTempLeft ==
    Unaliased => \A l \in Lift \ Stuck : pc[l] = "done" =>
        \A p \in Path : files[TempOf(p)] # Absent => files[TempOf(p)].writer # l

\* A document some lift wrote is never seen without a sidecar: the sidecar is
\* renamed first, so a crash or a failed rename cannot leave the document
\* alone (write.rs:15-18).
DocumentHasSidecar ==
    \A p \in Path, l \in Lift :
        files[p] = Whole(l, "document") => files[request[l]["diagnostics"]] # Absent

\* No step of any lift puts such a document there, and at first there is none.
SidecarComesFirst == [][DocumentHasSidecar']_vars

\* A blocked lift "writes only the diagnostics sidecar and touches no other
\* path" (write.rs:19-21): no step of it puts a document of its own anywhere.
BlockedKeepsDocument ==
    [][\A l \in Lift : emission[l] = "Blocked" =>
          \A p \in Path : files'[p] # files[p] =>
              files'[p] # Whole(l, "document") /\ files'[p] # Torn(l, "document")]_vars

\* When a lift reports Written its own document stands at its final path, and
\* its own sidecar too, unless a lift that was blocked or writes another
\* document shares the sidecar's path: among lifts of one pair of paths the
\* document's temporary name is a lock (write.rs:201-209, 253-262).
WrittenPair ==
    [][\A l \in Lift : outcome'[l] = "written" /\ outcome[l] # "written" =>
          /\ files'[request[l]["document"]] = Whole(l, "document")
          /\ LET side == files'[request[l]["diagnostics"]] IN
                /\ side.whole
                /\ \/ side = Whole(l, "diagnostics")
                   \/ emission[side.writer] = "Blocked"
                   \/ request[side.writer]["document"] # request[l]["document"]]_vars

\* lift.rs:56 "both files written": a lift reports Written only in a step after
\* which both of its files, and not another's, stand at their final paths.
WritesBoth ==
    [][\A l \in Lift : outcome'[l] = "written" /\ outcome[l] # "written" =>
          \A s \in Slot : files'[request[l][s]] = Whole(l, s)]_vars

\* FR-097 "treat an OUTPUT_UNWRITABLE refusal as blocking and write nothing",
\* lift.rs:50-51 "refused ... by the file system: nothing written".
RefusedWroteNothing ==
    \A l \in Lift : outcome[l] = "refused" =>
        \A p \in Path : files[p] # Absent => files[p].writer # l

\* Every lift that does not die comes to an outcome, whatever fails and
\* whoever holds its temporary names: nothing waits for a name to be freed.
EveryLiftEnds == \A l \in Lift : <>(pc[l] \in {"done", "dead"})

\* A reader of the final paths sees whole files replaced in single steps.
WholeFile == {c \in Content : c.whole}

Files == INSTANCE AtomicFiles
            WITH visible <- [p \in Path |-> files[p]]

\* The protocol keeps the promise of AtomicFiles at every final path, across
\* failures, crashes and concurrent lifts (write.rs:234-263).
AtomicFinals == Files!Spec

\* The temporary names a lift holds are its own while it runs, and none is left
\* when it has ended (write.rs:201-262).
TempsAreKept ==
    /\ HeldTempsAreOwn
    /\ NoTempLeft

\* Document and sidecar stand together: no document of a lift without a
\* sidecar, both of them when it reports Written, and no document from a
\* blocked lift (write.rs:15-21).
PairIsKept ==
    /\ SidecarComesFirst
    /\ WrittenPair
    /\ BlockedKeepsDocument
=============================================================================
