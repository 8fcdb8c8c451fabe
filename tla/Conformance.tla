----------------------------- MODULE Conformance -----------------------------
(***************************************************************************)
(* The differential conformance harness: `run` of                          *)
(* conformance/runner/differential.mjs with `compare` of                   *)
(* conformance/corpus.mjs, several runs of it side by side on one          *)
(* checkout, and the adapters it starts.  A run stages the corpus in a     *)
(* directory of its own, starts each adapter in turn, judges the whole     *)
(* array an adapter prints, and removes the directory.                     *)
(*                                                                         *)
(* A world is the registers a run reads, what the corpus gates find and    *)
(* which processes run.  A verdict is a result state, the sequence of      *)
(* diagnostics, each a code at a place, a classification and the           *)
(* normalized document.                                                    *)
(***************************************************************************)
EXTENDS Naturals, Sequences, SequencesExt, FiniteSets, FiniteSetsExt

CONSTANTS
    Runs,     \* the processes that call run()
    Adapters, \* the adapters of the registry, a sequence in code-unit order of id
    Cases,    \* the cases of the manifest
    Unknown,  \* a case the manifest does not declare
    Compatibility,       \* the cases that compare two bundles
    Verdict(_),          \* the oracle's verdict for a case
    Worlds,              \* the registers and gates a run may find
    Prints(_, _, _)      \* in a world, for a run, what an adapter may print

VARIABLES
    world,    \* what this checkout holds
    pc,       \* where each run is
    staging,  \* the staging directories on disk: their files, by name
    toWrite,  \* cases a run has still to materialize
    current,  \* how many adapters a run has started
    toRead,   \* what the running adapter has still to read
    printed,  \* the results each adapter of a run printed, as far as judged
    report    \* the problems, divergences, used register keys and rows so far

vars == <<world, pc, staging, toWrite, current, toRead, printed, report>>

Files == Cases \cup {"index"}

IsSequence(s) == Len(s) \in Nat /\ DOMAIN s = 1..Len(s)

\* An element that fails the schema of results is malformed, whatever it says.
Supports == {"malformed", "supported", "unsupported", "unavailable"}

\* What the harness reads of an array: every element has one of the supports,
\* and a supported one carries a list of diagnostics.
IsArray(results) ==
    /\ IsSequence(results)
    /\ \A k \in DOMAIN results :
          /\ results[k].support \in Supports
          /\ results[k].support = "supported" =>
                IsSequence(results[k].answer.diagnostics)

ASSUME CorpusAssumption == IsFiniteSet(Cases) /\ IsSequence(Adapters)
ASSUME VerdictAssumption == \A c \in Cases : IsSequence(Verdict(c).diagnostics)
ASSUME PrintsAssumption ==
    \A w \in Worlds, r \in Runs, i \in DOMAIN Adapters :
        \A results \in Prints(w, r, Adapters[i]) : IsArray(results)

----------------------------------------------------------------------------
(* The comparison of one answer with the oracle's verdict.                 *)

\* diagnosticKey: a reader that locates by its own scheme has its places dropped.
Key(diagnostic, withPointer) ==
    IF withPointer THEN <<diagnostic.code, diagnostic.at>> ELSE <<diagnostic.code>>

Longer(s, t) == IF Len(s) < Len(t) THEN Len(t) ELSE Len(s)

\* The positions at which the two lists of diagnostics differ, each under the
\* code the oracle expects there, or the one observed where it expects none.
DiagnosticCodes(expected, observed, withPointer) ==
    {IF i \in DOMAIN expected THEN expected[i].code ELSE observed[i].code :
        i \in {i \in 1..Longer(expected, observed) :
                  \/ i \notin DOMAIN expected
                  \/ i \notin DOMAIN observed
                  \/ Key(expected[i], withPointer) # Key(observed[i], withPointer)}}

\* compare: the codes under which an answer differs from the verdict.
compare(verdict, answer, compatibility, withPointer) ==
    (IF answer.state # verdict.state THEN {"result-state"} ELSE {})
    \cup DiagnosticCodes(verdict.diagnostics, answer.diagnostics, withPointer)
    \cup (IF compatibility /\ answer.classification # verdict.classification
          THEN {"classification"} ELSE {})
    \cup (IF answer.normalized # verdict.normalized THEN {"normalized"} ELSE {})

----------------------------------------------------------------------------
(* The judgement of one adapter's array, in order: an element is judged by *)
(* what was answered before it.                                            *)

\* Mutant: one registered difference of a case suppresses the others.
SuppressedSome(register, adapter, case, codes) ==
    \E code \in codes : [case |-> case, adapter |-> adapter, code |-> code] \in register

\* An answer that differs passes only when every difference is registered.
Suppressed(register, adapter, case, codes) ==
    \A code \in codes : [case |-> case, adapter |-> adapter, code |-> code] \in register

Problem(kind, adapter, case) == [kind |-> kind, adapter |-> adapter, case |-> case]

Failed(j, problem) == [j EXCEPT !.failed = @ + 1, !.problems = @ \cup {problem}]

Answered(j, result) == [j EXCEPT !.answered = @ \cup {result.case}]

\* A supported answer: compared with the verdict for its case.
JudgeSupported(w, adapter, j, result) ==
    LET codes == compare(Verdict(result.case), result.answer,
                         result.case \in Compatibility, adapter.pointerCompatible)
        keys == {[case |-> result.case, adapter |-> adapter.id, code |-> code] :
                    code \in codes}
        counted == [j EXCEPT !.used = @ \cup (keys \cap w.register)]
    IN  IF codes = {} \/ Suppressed(w.register, adapter.id, result.case, codes)
        THEN [counted EXCEPT !.matched = @ + 1]
        ELSE [counted EXCEPT !.failed = @ + 1]

Judge(w, adapter, j, result) ==
    LET problem(kind) == Problem(kind, adapter.id, result.case)
        reached == Answered(j, result)
    IN  CASE result.support = "malformed" ->
               Failed(j, Problem("adapter-result", adapter.id, Unknown))
          [] result.support # "malformed" /\ result.case \notin Cases ->
               Failed(j, problem("unknown-case"))
          [] result.support # "malformed" /\ result.case \in j.answered ->
               Failed(j, problem("duplicate-answer"))
          [] OTHER ->
               CASE result.support = "unavailable" ->
                      IF adapter.status = "unavailable"
                      THEN [reached EXCEPT !.unmet = @ + 1]
                      ELSE Failed(reached, problem("unavailable"))
                 [] result.support = "unsupported" ->
                      IF <<result.case, adapter.id>> \in w.unsupportedBy
                      THEN [reached EXCEPT !.unmet = @ + 1]
                      ELSE Failed(reached, problem("unsupported"))
                 [] result.support = "supported" ->
                      JudgeSupported(w, adapter, reached, result)

\* A case no well-formed result answered is missing.
Unanswered(adapter, j) ==
    [j EXCEPT !.failed = @ + Cardinality(Cases \ j.answered),
              !.problems = @ \cup {Problem("missing-answer", adapter.id, c) :
                                       c \in Cases \ j.answered}]

Nothing == [answered |-> {}, matched |-> 0, unmet |-> 0, failed |-> 0,
            problems |-> {}, used |-> {}]

\* What has been counted after each element.
Judgements(w, adapter, results) ==
    LET judged[i \in 0..Len(results)] ==
            IF i = 0 THEN Nothing ELSE Judge(w, adapter, judged[i - 1], results[i])
    IN  judged

JudgeAll(w, adapter, results) ==
    Unanswered(adapter, Judgements(w, adapter, results)[Len(results)])

Row(adapter, j) ==
    [adapter |-> adapter.id, matched |-> j.matched, unmet |-> j.unmet,
     failed |-> j.failed]

\* An adapter that failed to answer at all fails every case.
FailedRow(adapter) ==
    [Nothing EXCEPT !.failed = Cardinality(Cases),
                    !.problems = {Problem("adapter", adapter.id, Unknown)}]

----------------------------------------------------------------------------
(* One run.                                                                *)

\* Mutant: every run stages into the same directory.
DirectoryShared(r) == "staging"

\* mkdtemp names a directory no other run has.
Directory(r) == r

\* The problems known before any adapter starts: the corpus gates, and registry
\* and threshold rows without a partner.
Opening(w) ==
    {Problem("corpus", "none", Unknown) : g \in w.gateFailures}
    \cup {Problem("threshold", a, Unknown) :
             a \in SymDiff({Adapters[i].id : i \in DOMAIN Adapters}, w.thresholds)}

Empty == [problems |-> {}, used |-> {}, rows |-> <<>>]

Init ==
    /\ world \in Worlds
    /\ pc = [r \in Runs |-> IF r \in world.runs THEN "start" ELSE "idle"]
    /\ staging = <<>>
    /\ toWrite = [r \in Runs |-> {}]
    /\ current = [r \in Runs |-> 0]
    /\ toRead = [r \in Runs |-> {}]
    /\ printed = [r \in Runs |-> <<>>]
    /\ report = [r \in Runs |-> Empty]

Goto(r, label) == pc' = [pc EXCEPT ![r] = label]

\* The gates are run, and materializeCases empties the directory it is given.
Stage(r) ==
    /\ pc[r] = "start"
    /\ report' = [report EXCEPT ![r].problems = Opening(world)]
    /\ staging' = [d \in DOMAIN staging \cup {Directory(r)} |->
                      IF d = Directory(r) THEN {} ELSE staging[d]]
    /\ toWrite' = [toWrite EXCEPT ![r] = Files]
    /\ Goto(r, "materialize")
    /\ UNCHANGED <<world, current, toRead, printed>>

\* One file of materializeCases, the index last.
Materialize(r) ==
    /\ pc[r] = "materialize"
    /\ Directory(r) \in DOMAIN staging
    /\ \E file \in toWrite[r] :
          /\ file = "index" => toWrite[r] = {"index"}
          /\ file \notin world.unpatchable
          /\ staging' = [staging EXCEPT ![Directory(r)] = @ \cup {file}]
          /\ toWrite' = [toWrite EXCEPT ![r] = @ \ {file}]
          /\ IF toWrite[r] = {file} THEN Goto(r, "adapters") ELSE UNCHANGED pc
    /\ UNCHANGED <<world, current, toRead, printed, report>>

\* A case whose patch does not apply makes materializeCases throw, before the
\* block whose end removes the directory.
MaterializeThrows(r) ==
    /\ pc[r] = "materialize"
    /\ toWrite[r] \cap world.unpatchable # {}
    /\ Goto(r, "thrown")
    /\ UNCHANGED <<world, staging, toWrite, current, toRead, printed, report>>

\* The next adapter: one without a command is answered for when its slot is
\* unavailable and fails otherwise; one with a command starts as a process.
NextAdapter(r) ==
    /\ pc[r] = "adapters"
    /\ current[r] < Len(Adapters)
    /\ current' = [current EXCEPT ![r] = @ + 1]
    /\ toRead' = [toRead EXCEPT ![r] =
                     IF Adapters[current[r] + 1].readsStaging THEN Files ELSE {}]
    /\ Goto(r, "running")
    /\ UNCHANGED <<world, staging, toWrite, printed, report>>

Current(r) == Adapters[current[r]]

\* An adapter that reads the staging directory reads the index, then its cases.
ReadStaged(r) ==
    /\ pc[r] = "running"
    /\ Current(r).command
    /\ Directory(r) \in DOMAIN staging
    /\ \E file \in toRead[r] \cap staging[Directory(r)] :
          /\ "index" \in toRead[r] => file = "index"
          /\ toRead' = [toRead EXCEPT ![r] = @ \ {file}]
    /\ UNCHANGED <<world, pc, staging, toWrite, current, printed, report>>

\* What was printed is judged and counted.
Record(r, results, j) ==
    /\ printed' = [printed EXCEPT ![r] = Append(@, results)]
    /\ report' = [report EXCEPT
                     ![r].problems = @ \cup j.problems,
                     ![r].used = @ \cup j.used,
                     ![r].rows = Append(@, Row(Current(r), j))]
    /\ Goto(r, "adapters")
    /\ UNCHANGED <<world, staging, toWrite, current, toRead>>

\* The adapter prints its array and it is judged.
Answer(r) ==
    /\ pc[r] = "running"
    /\ Current(r).command
    /\ toRead[r] = {}
    /\ \E results \in Prints(world, r, Current(r)) :
          Record(r, results, JudgeAll(world, Current(r), results))

\* Mutant: an adapter that fails is started again.
FailRetried(r) ==
    /\ pc[r] = "running"
    /\ Current(r).command
    /\ world.adapterMayFail
    /\ current' = [current EXCEPT ![r] = @ - 1]
    /\ Goto(r, "adapters")
    /\ UNCHANGED <<world, staging, toWrite, toRead, printed, report>>

\* The adapter exits non-zero, or prints something other than an array.
Fail(r) ==
    /\ pc[r] = "running"
    /\ Current(r).command
    /\ world.adapterMayFail
    /\ Record(r, <<>>, FailedRow(Current(r)))

Unavailable(case) == [case |-> case, support |-> "unavailable"]

\* A slot without a command.
NoCommand(r) ==
    /\ pc[r] = "running"
    /\ ~Current(r).command
    /\ LET results == SetToSeq({Unavailable(c) : c \in Cases})
       IN  IF Current(r).status = "unavailable"
           THEN Record(r, results, JudgeAll(world, Current(r), results))
           ELSE Record(r, <<>>, FailedRow(Current(r)))

\* A registered divergence that no answer of this run shows.
Unreproduced(w, used) ==
    {Problem("unreproduced-divergence", key.adapter, key.case) :
        key \in w.register \ used}

\* The directory is removed, and the register is compared with what was used.
Finish(r) ==
    /\ pc[r] = "adapters"
    /\ current[r] = Len(Adapters)
    /\ staging' = [d \in DOMAIN staging \ {Directory(r)} |-> staging[d]]
    /\ report' = [report EXCEPT ![r].problems = @ \cup Unreproduced(world, report[r].used)]
    /\ Goto(r, "ended")
    /\ UNCHANGED <<world, toWrite, current, toRead, printed>>

\* A run that is killed leaves its directory.
Kill(r) ==
    /\ world.mayKill
    /\ pc[r] \in {"materialize", "adapters", "running"}
    /\ Goto(r, "killed")
    /\ UNCHANGED <<world, staging, toWrite, current, toRead, printed, report>>

RunStep(r) ==
    \/ Stage(r)
    \/ Materialize(r)
    \/ MaterializeThrows(r)
    \/ NextAdapter(r)
    \/ ReadStaged(r)
    \/ Answer(r)
    \/ Fail(r)
    \/ NoCommand(r)
    \/ Finish(r)

Next == \E r \in Runs : RunStep(r) \/ Kill(r)

\* A process that is not killed takes its next step.
Spec == Init /\ [][Next]_vars /\ \A r \in Runs : WF_vars(RunStep(r))

\* The exit code of a run that ended.
exitCode(r) ==
    IF report[r].problems # {} \/ \E i \in DOMAIN report[r].rows :
                                      report[r].rows[i].failed > 0
    THEN 1 ELSE 0

----------------------------------------------------------------------------
Labels == {"idle", "start", "materialize", "adapters", "running", "thrown", "killed",
           "ended"}

TypeOK ==
    /\ world \in Worlds
    /\ pc \in [Runs -> Labels]
    /\ \A d \in DOMAIN staging : staging[d] \subseteq Files
    /\ toWrite \in [Runs -> SUBSET Files]
    /\ toRead \in [Runs -> SUBSET Files]
    /\ current \in [Runs -> 0..Len(Adapters)]
    /\ \A r \in Runs : Len(report[r].rows) = Len(printed[r])

\* While an adapter of a run is at work, the run's directory holds every case it
\* has still to read: a run beside it neither empties nor removes it.
StagingIsWhole ==
    \A r \in Runs :
        pc[r] = "running" =>
            /\ Directory(r) \in DOMAIN staging
            /\ toRead[r] \subseteq staging[Directory(r)]

\* The row of an adapter accounts for every case of the corpus: what is neither
\* matched nor recorded unmet is failed, so a case can not go unnoticed.
RowsAccountForCases ==
    \A r \in Runs : \A i \in DOMAIN report[r].rows :
        LET row == report[r].rows[i]
        IN  /\ row.matched + row.unmet <= Cardinality(Cases)
            /\ row.failed >= Cardinality(Cases) - row.matched - row.unmet

\* The verdict and an answer agree but for differences the register names, each
\* under the code that is expected or, where none is expected, observed.
Agrees(a, c, given) ==
    LET expected == Verdict(c)
        registered(code) ==
            [case |-> c, adapter |-> a.id, code |-> code] \in world.register
        place(d) == IF a.pointerCompatible THEN d.at ELSE "any"
        same(d, e) == d.code = e.code /\ place(d) = place(e)
    IN  /\ given.state = expected.state \/ registered("result-state")
        /\ given.normalized = expected.normalized \/ registered("normalized")
        /\ \/ c \notin Compatibility
           \/ given.classification = expected.classification
           \/ registered("classification")
        /\ \A i \in DOMAIN expected.diagnostics :
               \/ registered(expected.diagnostics[i].code)
               \/ /\ i \in DOMAIN given.diagnostics
                  /\ same(expected.diagnostics[i], given.diagnostics[i])
        /\ \A i \in DOMAIN given.diagnostics \ DOMAIN expected.diagnostics :
               registered(given.diagnostics[i].code)

\* A run that exits 0 has one answer of every available adapter for every case,
\* and the answer agrees with the oracle or is a declared gap (FR-037).
GreenMeansAgreed ==
    \A r \in Runs :
        pc[r] = "ended" /\ exitCode(r) = 0 =>
            \A i \in DOMAIN Adapters :
                Adapters[i].status = "available" =>
                    \A c \in Cases :
                        LET mine == {k \in DOMAIN printed[r][i] :
                                        printed[r][i][k].case = c}
                        IN  /\ Cardinality(mine) = 1
                            /\ \A k \in mine :
                                   LET given == printed[r][i][k]
                                   IN  \/ /\ given.support = "supported"
                                          /\ Agrees(Adapters[i], c, given.answer)
                                       \/ /\ given.support = "unsupported"
                                          /\ <<c, Adapters[i].id>> \in world.unsupportedBy

\* A run that exits 0 showed every registered divergence: a fixed one can not
\* stay registered and hide its return.
RegisterIsLive ==
    \A r \in Runs :
        pc[r] = "ended" /\ exitCode(r) = 0 =>
            \A key \in world.register :
                \E i \in DOMAIN Adapters :
                    /\ Adapters[i].id = key.adapter
                    /\ \E k \in DOMAIN printed[r][i] :
                          LET given == printed[r][i][k]
                          IN  /\ given.support = "supported" /\ given.case = key.case
                              /\ key.code \in compare(Verdict(key.case),
                                                      given.answer,
                                                      key.case \in Compatibility,
                                                      Adapters[i].pointerCompatible)

\* A run that exits 0 has one agreeing or declared answer of every adapter to
\* every case, showed every registered divergence, and its rows account for the
\* whole corpus (differential.mjs).
GreenIsEarned ==
    /\ TypeOK
    /\ RowsAccountForCases
    /\ GreenMeansAgreed
    /\ RegisterIsLive

\* The staging directory of a run is removed when the run ends (differential.mjs,
\* the comment on the directory).
StagingIsRemoved ==
    \A r \in Runs : pc[r] \in {"ended", "thrown"} => Directory(r) \notin DOMAIN staging

\* Every run that is not killed comes to its end, whatever its adapters do.
EveryRunEnds == \A r \in Runs : <>(pc[r] \in {"idle", "ended", "thrown", "killed"})
=============================================================================
