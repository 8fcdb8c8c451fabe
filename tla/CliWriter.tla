------------------------------ MODULE CliWriter ------------------------------
(***************************************************************************)
(* How the compiler command line (src/compiler/cli.mjs) puts its outputs   *)
(* on disk.  Every run of the command is a process of its own.  writeAtomic *)
(* truncates or creates `<path>.tmp`, writes it and renames it over the     *)
(* path; emit-ir writes its path directly.  A directory maps names to       *)
(* inodes, because opening an existing name keeps its inode: what a second  *)
(* process renames may be the file the first one is still writing.          *)
(***************************************************************************)
EXTENDS Naturals, Sequences, SequencesExt

CONSTANTS
    Run,            \* invocations of the command
    Path,           \* output paths a caller names
    TempOf(_),      \* `${path}.tmp`
    Requests,       \* the verb and the outputs of each invocation
    Longest,        \* the most outputs one invocation writes
    Found,          \* names that may exist before the first invocation
    Serial,         \* the requests whose caller waits for one invocation
                    \* before it makes the next
    Faulty,         \* invocations whose file-system calls may throw
    Crashes,        \* invocations that may be killed
    Absent,         \* no file
    Older           \* the writer of what was there at first

Verb == {"compile", "generate", "diff", "emit-ir", "inspect"}

\* report: --diagnostics or --manifest, or nothing when it goes to a stream;
\* outs: what is written on success, in order; root: the paths under --out-root.
\* inspect names no path.
Request == [verb : Verb, report : Seq(Path), outs : Seq(Path), root : SUBSET Path]

Name == Path \cup {TempOf(p) : p \in Path}
Inode == (Run \X (1..Longest)) \cup ({Older} \X Name)
Content == [writer : Run \cup {Older}, path : Path, whole : BOOLEAN]

ASSUME OlderAssumption == Older \notin Run
ASSUME PathAssumption == Path # {}
ASSUME LongestAssumption == Longest \in Nat
ASSUME RequestsAssumption ==
    /\ Requests \subseteq [Run -> Request]
    /\ \A q \in Requests : \A r \in Run : Len(q[r].report \o q[r].outs) <= Longest
ASSUME TempAssumption ==
    /\ \A p \in Path : TempOf(p) # p
    /\ \A p, q \in Path : TempOf(p) = TempOf(q) => p = q
ASSUME ModeAssumption ==
    Serial \subseteq Requests /\ Faulty \subseteq Run /\ Crashes \subseteq Run
ASSUME AbsentAssumption == Absent \notin Content /\ Absent \notin Inode

VARIABLES
    dir,        \* name -> inode
    store,      \* inode -> content
    request,    \* run -> its flags
    verdict,    \* run -> what the command decided before it wrote anything
    pc,         \* run -> the call it makes next
    count,      \* run -> how many outputs it finished
    fd,         \* run -> the inode it is writing
    exit        \* run -> its exit status

vars == <<dir, store, request, verdict, pc, count, fd, exit>>

Step == {"start", "open", "write", "rename", "exited", "dead"}

\* The paths a run writes, in order.  compile and generate stop after their
\* report when a diagnostic blocks; diff writes its report whatever it says;
\* a run that throws on the way (a usage error, a formatter failure) writes none.
Plan(r) ==
    LET q == request[r] IN
    IF verdict[r] = "clean" THEN q.report \o q.outs
    ELSE IF verdict[r] # "blocked" THEN <<>>
    ELSE IF q.verb = "diff" THEN q.outs ELSE q.report

Final(r) == Plan(r)[count[r] + 1]

\* Mutant: no temporary file.
OpenedFinal(r) == Final(r)

\* emit-ir has no temporary file.
Opened(r) == IF request[r].verb = "emit-ir" THEN Final(r) ELSE TempOf(Final(r))

Whole(r, p) == [writer |-> r, path |-> p, whole |-> TRUE]
Torn(r, p) == [writer |-> r, path |-> p, whole |-> FALSE]

GoTo(r, step) == pc' = [pc EXCEPT ![r] = step]

Running(r) == pc[r] \in {"open", "write", "rename"}

Init ==
    /\ request \in Requests
    /\ \E present \in SUBSET Found, torn \in SUBSET {TempOf(p) : p \in Path} :
          /\ torn \subseteq present
          /\ dir = [n \in Name |-> IF n \in present THEN <<Older, n>> ELSE Absent]
          /\ store = [i \in Inode |->
                [writer |-> Older,
                 path |-> IF i[1] = Older
                          THEN CHOOSE p \in Path : i[2] \in {p, TempOf(p)}
                          ELSE CHOOSE p \in Path : TRUE,
                 whole |-> i[1] = Older /\ i[2] \notin torn]]
    /\ verdict = [r \in Run |-> "none"]
    /\ pc = [r \in Run |-> "start"]
    /\ count = [r \in Run |-> 0]
    /\ fd = [r \in Run |-> Absent]
    /\ exit = [r \in Run |-> "none"]

\* Everything is decided before the first write: the compile, the generation
\* or the comparison ran, or threw.
Start(r) ==
    /\ pc[r] = "start"
    /\ request \in Serial => \A s \in Run : ~Running(s)
    /\ \E v \in {"clean", "blocked", "thrown"} :
          /\ request[r].verb = "emit-ir" => v # "blocked"
          /\ verdict' = [verdict EXCEPT ![r] = v]
    /\ GoTo(r, "open")
    /\ UNCHANGED <<dir, store, request, count, fd, exit>>

\* Mutant: a leftover temporary file is an error, as it is for the lift.
OpenExclusive(r) ==
    /\ pc[r] = "open"
    /\ count[r] < Len(Plan(r))
    /\ IF dir[Opened(r)] = Absent
       THEN /\ dir' = [dir EXCEPT ![Opened(r)] = <<r, count[r] + 1>>]
            /\ fd' = [fd EXCEPT ![r] = <<r, count[r] + 1>>]
            /\ store' = [store EXCEPT ![<<r, count[r] + 1>>] = Torn(r, Final(r))]
            /\ GoTo(r, "write")
            /\ UNCHANGED exit
       ELSE /\ GoTo(r, "exited")
            /\ exit' = [exit EXCEPT ![r] = "failed"]
            /\ UNCHANGED <<dir, store, fd>>
    /\ UNCHANGED <<request, verdict, count>>

\* writeFileSync opens with O_CREAT | O_TRUNC: a name that exists keeps its
\* inode and loses its bytes, whoever left it there or is still writing it.
Open(r) ==
    /\ pc[r] = "open"
    /\ count[r] < Len(Plan(r))
    /\ LET inode == IF dir[Opened(r)] = Absent THEN <<r, count[r] + 1>>
                                               ELSE dir[Opened(r)]
       IN  /\ dir' = [dir EXCEPT ![Opened(r)] = inode]
           /\ fd' = [fd EXCEPT ![r] = inode]
           /\ store' = [store EXCEPT ![inode] = Torn(r, Final(r))]
    /\ GoTo(r, "write")
    /\ UNCHANGED <<request, verdict, count, exit>>

\* The bytes land whole, unless another run truncated or wrote the inode since:
\* then the longer of the two may stick out behind the other.
Write(r) ==
    /\ pc[r] = "write"
    /\ \E bytes \in {Whole(r, Final(r)), Torn(r, Final(r))} :
          /\ store[fd[r]].writer = r => bytes = Whole(r, Final(r))
          /\ store' = [store EXCEPT ![fd[r]] = bytes]
    /\ fd' = [fd EXCEPT ![r] = Absent]
    /\ IF request[r].verb = "emit-ir"
       THEN GoTo(r, "open") /\ count' = [count EXCEPT ![r] = @ + 1]
       ELSE GoTo(r, "rename") /\ UNCHANGED count
    /\ UNCHANGED <<dir, request, verdict, exit>>

\* renameSync moves whatever file the temporary name stands for by now.
Rename(r) ==
    /\ pc[r] = "rename"
    /\ dir[Opened(r)] # Absent
    /\ dir' = [dir EXCEPT ![Final(r)] = dir[Opened(r)], ![Opened(r)] = Absent]
    /\ count' = [count EXCEPT ![r] = @ + 1]
    /\ GoTo(r, "open")
    /\ UNCHANGED <<store, request, verdict, fd, exit>>

\* A call throws: main prints the message and exits 1; nothing is cleaned up.
Fail(r) ==
    /\ Running(r)
    /\ pc[r] = "open" => count[r] < Len(Plan(r))
    /\ \/ r \in Faulty
       \/ pc[r] = "rename" /\ dir[Opened(r)] = Absent
    /\ GoTo(r, "exited")
    /\ fd' = [fd EXCEPT ![r] = Absent]
    /\ exit' = [exit EXCEPT ![r] = "failed"]
    /\ UNCHANGED <<dir, store, request, verdict, count>>

\* Mutant: the command resolves while its last write is still to come.
ExitEarly(r) ==
    /\ pc[r] = "open"
    /\ count[r] + 1 >= Len(Plan(r))
    /\ GoTo(r, "exited")
    /\ exit' = [exit EXCEPT ![r] = IF verdict[r] = "clean" THEN "ok" ELSE "failed"]
    /\ UNCHANGED <<dir, store, request, verdict, count, fd>>

Exit(r) ==
    /\ pc[r] = "open"
    /\ count[r] = Len(Plan(r))
    /\ GoTo(r, "exited")
    /\ exit' = [exit EXCEPT ![r] = IF verdict[r] = "clean" THEN "ok" ELSE "failed"]
    /\ UNCHANGED <<dir, store, request, verdict, count, fd>>

\* The process is killed; what it had written stays where it is.
Kill(r) ==
    /\ r \in Crashes
    /\ Running(r)
    /\ GoTo(r, "dead")
    /\ fd' = [fd EXCEPT ![r] = Absent]
    /\ UNCHANGED <<dir, store, request, verdict, count, exit>>

Next == \E r \in Run :
    Start(r) \/ Open(r) \/ Write(r) \/ Rename(r) \/ Fail(r) \/ Exit(r) \/ Kill(r)

Spec == Init /\ [][Next]_vars

-----------------------------------------------------------------------------
(* Properties *)

\* The state is well formed.
TypeOK ==
    /\ dir \in [Name -> Inode \cup {Absent}]
    /\ store \in [Inode -> Content]
    /\ request \in [Run -> Request]
    /\ verdict \in [Run -> {"none", "clean", "blocked", "thrown"}]
    /\ pc \in [Run -> Step]
    /\ count \in [Run -> 0..Longest]
    /\ fd \in [Run -> Inode \cup {Absent}]
    /\ exit \in [Run -> {"none", "ok", "failed"}]

\* What a reader that opens a name sees.
Seen(n) == IF dir[n] = Absent THEN Absent ELSE store[dir[n]]

Outputs(q, r) == ToSet(q[r].report \o q[r].outs)

\* Paths emit-ir writes without a temporary file.
Direct ==
    UNION {Outputs(request, r) : r \in {s \in Run : request[s].verb = "emit-ir"}}

\* No output path is spelled like the temporary file of another.
Unaliased == \A p \in Path : TempOf(p) \notin Path

\* Runs follow one another, or name different paths.
Separate ==
    \/ request \in Serial
    \/ \A r, s \in Run :
          r # s => Outputs(request, r) \cap Outputs(request, s) = {}

WholeFile == {c \in Content : c.whole}

\* The paths the promise is made for.
Promised == IF Separate THEN Path \ Direct ELSE {}

Files == INSTANCE AtomicFiles
            WITH visible <- LET promised == Promised IN
                            [p \in Path |-> IF p \in promised THEN Seen(p) ELSE Absent]

\* cli.mjs:14-16 without a condition on the runs: "a failed run cannot leave half
\* a document where the next reader expects a whole one".
NeverTorn == \A p \in Path \ Direct : dir[p] # Absent => store[dir[p]].whole

\* cli.mjs:14-16 "every output is written through a `.tmp` sibling and a rename,
\* so a failed run cannot leave half a document where the next reader expects a
\* whole one": every path of the contract verbs goes from whole file to whole
\* file in one step, through crashes, failures and the files they left behind, as
\* long as runs follow one another or keep to paths of their own.
AtomicFinals == Files!Spec

\* A run that exits 0 has, at that moment, its own whole file at every path it
\* names: the manifest and every file the manifest lists (cli.mjs:433-438).
CompletesWhole ==
    [][\A r \in Run : Separate /\ exit'[r] = "ok" /\ exit[r] # "ok" =>
          \A i \in 1..Len(Plan(r)) : Seen(Plan(r)[i])' = Whole(r, Plan(r)[i])]_vars

\* A run whose own calls do not fail and with nothing wrong in its input exits 0
\* whatever earlier, killed runs left under its temporary names.
LeftoversHarmless ==
    Separate => \A r \in Run \ Faulty : exit[r] = "failed" => verdict[r] # "clean"

\* What a blocked run may not touch: the document of a compile, and for a
\* generation everything under the output root.
Kept(r) == IF request[r].verb = "compile" THEN ToSet(request[r].outs)
           ELSE IF request[r].verb = "generate" THEN request[r].root ELSE {}

\* FR-071:74 "If any diagnostic is blocking, then generate SHALL write no file
\* under --out-root", whatever the command line.  It does not hold where the
\* manifest is named under the output root, which is how the repository's own
\* `make generate-typescript` calls it (Makefile:179) and which cli.mjs:433 does
\* not look for, nor where one path is --out and --diagnostics of a compile.
BlockedTouchesNothing ==
    [][\A r \in Run : verdict[r] = "blocked" /\ pc'[r] # pc[r] =>
          \A p \in Kept(r) : Seen(p)' = Seen(p)]_vars

\* FR-052 "leave a pre-existing --out file byte-unchanged" and FR-071 "write no
\* file under --out-root", for what the code does on every command line: a step
\* of a blocked run changes what it must keep only by putting its report there,
\* and only where the caller named the report as one of those files; what stands
\* there then is that report, whole.
BlockedKeepsOutputs ==
    [][\A r \in Run : verdict[r] = "blocked" /\ pc'[r] # pc[r] =>
          \A p \in Kept(r) :
              \/ Seen(p)' = Seen(p)
              \/ /\ p \in ToSet(request[r].report)
                 /\ Separate => Seen(p)' = Whole(r, p)]_vars

\* A run that reports success left each of its files whole, and a blocked one
\* left everything as it was but its report (cli.mjs writeAtomic, FR-052, FR-071).
OutputsAreKept ==
    /\ CompletesWhole
    /\ BlockedKeepsOutputs
=============================================================================
