------------------------------ MODULE Commands ------------------------------
(***************************************************************************)
(* The two commands of src/compiler/cli.mjs that produce something:        *)
(* `compile`, from sources to an IR document, and `generate`, from an IR   *)
(* document to the files of a target, with the reports both print.         *)
(***************************************************************************)
EXTENDS Naturals, FiniteSets

-----------------------------------------------------------------------------
(***************************************************************************)
(* The reports of src/compiler: what a command found, cut down to the      *)
(* request's maxDiagnostics.  Two files define the same operators,         *)
(* src/compiler/diagnostics.mjs and backends/rust-serde/diagnostics.mjs.   *)
(* A diagnostic is its place in the total order of sortDiagnostics and     *)
(* whether it blocks; a report is a set, since nothing here depends on how *)
(* often a line is repeated.                                               *)
(***************************************************************************)
CONSTANTS Possible,     \* the diagnostics the inputs may give rise to
          Limits        \* the values of limits.maxDiagnostics

\* "at" stands for the locus, code and message the order is made of, which
\* tell any two diagnostics apart.  The request's schema wants a limit of 1
\* at least.
ASSUME DiagnosticsAssumption ==
    /\ Possible \subseteq [at : 1..999, blocking : BOOLEAN]
    /\ \A d, e \in Possible : d.at = e.at => d = e
    /\ Limits \subseteq Nat \ {0}

HasBlocking(report) == \E d \in report : d.blocking

\* The advisory that closes a cut report.  It has no locus, so it sorts last.
LimitReached == [at |-> 1000, blocking |-> FALSE]

\* The first max diagnostics of the sorted report.
Earliest(report, max) ==
    {d \in report : Cardinality({e \in report : e.at < d.at}) < max}

\* Mutant: the closing advisory takes a place of its own.
ApplyLimitReserving(report, max) ==
    IF Cardinality(report) < max THEN report
    ELSE Earliest(report, max - 1) \cup {LimitReached}

ApplyDiagnosticLimit(report, max) ==
    IF Cardinality(report) <= max THEN report
    ELSE Earliest(report, max) \cup {LimitReached}

-----------------------------------------------------------------------------
(***************************************************************************)
(* `compile`: compilePackage of src/compiler/pipeline.mjs and the end of   *)
(* the command in src/compiler/cli.mjs.  Five phases; each may find        *)
(* diagnostics, a blocking one stops the compile without a document, and   *)
(* the report is cut to maxDiagnostics only on the way out.  The IR file   *)
(* outlives the command; what a document is here is the set of             *)
(* diagnostics of the compile that wrote it.                               *)
(***************************************************************************)

VARIABLES cPhase,       \* "idle", a phase, or "report" 
          cMax,         \* the compile's limits.maxDiagnostics
          cFound,       \* diagnostics, the list pipeline.mjs keeps
          cIr,          \* is there a result.ir?
          irFile        \* the bytes under --out

compileVars == <<cPhase, cMax, cFound, cIr, irFile>>

NoDocument == [written |-> FALSE]
Document(found) == [written |-> TRUE, found |-> found]

\* No schema stands between --limits and a compile: it may be told to report
\* nothing at all.
CompileLimits == Limits \cup {0}

CompileInit ==
    /\ cPhase = "idle"
    /\ cMax \in CompileLimits
    /\ cFound = {}
    /\ cIr = FALSE
    /\ irFile = NoDocument

\* Every later command line chooses its own --limits.
StartCompile ==
    /\ cPhase = "idle"
    /\ cPhase' = "resolve"
    /\ cMax' \in CompileLimits
    /\ UNCHANGED <<cFound, cIr, irFile>>

\* The process exits and its memory is gone; the files stay.
EndProcess ==
    /\ cPhase' = "idle"
    /\ cFound' = {}
    /\ cIr' = FALSE
    /\ UNCHANGED cMax

\* A phase adds what it found; `stop` leaves for the report with no document.
Add(found, next) ==
    /\ cFound' = cFound \cup found
    /\ cPhase' = IF HasBlocking(cFound \cup found) THEN "report" ELSE next
    /\ UNCHANGED <<cMax, irFile>>

\* A resolution without a root package always carries its reason.
Resolve ==
    /\ cPhase = "resolve"
    /\ \E found \in SUBSET Possible : Add(found, "graph")
    /\ UNCHANGED cIr

\* resolvedPackageGraph and the package block find nothing.
Graph ==
    /\ cPhase = "graph"
    /\ cPhase' = "frontend"
    /\ UNCHANGED <<cMax, cFound, cIr, irFile>>

RunFrontend ==
    /\ cPhase = "frontend"
    /\ \E found \in SUBSET Possible : Add(found, "validate")
    /\ UNCHANGED cIr

\* A frontend that breaks its contract throws, and the command is over.
FrontendThrows ==
    /\ cPhase = "frontend"
    /\ EndProcess
    /\ UNCHANGED irFile

Validate ==
    /\ cPhase = "validate"
    /\ \E found \in SUBSET Possible : Add(found, "assemble")
    /\ UNCHANGED cIr

Assemble ==
    /\ cPhase = "assemble"
    /\ cIr' = TRUE
    /\ cPhase' = "report"
    /\ UNCHANGED <<cMax, cFound, irFile>>

\* What the command sees of the compile's diagnostics.
Reported == ApplyDiagnosticLimit(cFound, cMax)

\* The last lines of `compile`: exit 1, or write the document and exit 0.
WriteIr == cIr /\ ~HasBlocking(Reported)

EndCompile ==
    /\ cPhase = "report"
    /\ irFile' = IF WriteIr THEN Document(cFound) ELSE irFile
    /\ EndProcess

CompileNext ==
    \/ StartCompile
    \/ Resolve
    \/ Graph
    \/ RunFrontend
    \/ FrontendThrows
    \/ Validate
    \/ Assemble
    \/ EndCompile

-----------------------------------------------------------------------------
(***************************************************************************)
(* `generate`: the command of src/compiler/cli.mjs, the seam it calls      *)
(* (backends/seam.mjs) and, behind the seam, the five backends reduced to  *)
(* how each refuses and what it then answers.  The command reads an IR     *)
(* document, prints one output manifest and, if it judges the manifest     *)
(* clean, writes the files under --out-root.                               *)
(*                                                                         *)
(* What a document gives rise to is an input: every stage that looks at it *)
(* finds any set of the diagnostics that stage can raise.                  *)
(***************************************************************************)
CONSTANTS Paths,        \* paths a backend may name
          Outside       \* those that would leave the output root

ASSUME PathAssumption == Outside \subseteq Paths

VARIABLES stage,        \* where the command is, "idle" between commands
          target,       \* --target
          max,          \* limits.maxDiagnostics
          found,        \* every diagnostic this command came upon
          answer,       \* what backend.generate returned
          manifest,     \* the output manifest, once printed
          todo,         \* files not written yet
          disk,         \* the bytes under --out-root
          code          \* process.exitCode, "none" while running

generateVars ==
    <<stage, target, max, found, answer, manifest, todo, disk, code>>

Targets == {"typescript", "json-schema", "python", "sysml", "rust"}

Blocking == {d \in Possible : d.blocking}
Advisory == Possible \ Blocking

\* The bytes at a path: none, an earlier command's, or this command's.
Text == {"none", "old", "new"}

Nothing == [state |-> "none", files |-> {}, diagnostics |-> {}]

Refused == {"invalid", "unsupported", "unavailable"}
Clean(m) == m.state \in {"success", "lossy"}

GenerateInit ==
    /\ stage = "idle"
    /\ target \in Targets
    /\ max \in Limits
    /\ found = {}
    /\ answer = Nothing
    /\ manifest = Nothing
    /\ todo = {}
    /\ disk = [p \in Paths |-> "none"]
    /\ code = "none"

\* readJsonFile refuses a missing --ir with a usage error.
StartGenerate(irExists) ==
    /\ stage = "idle"
    /\ target' \in Targets
    /\ max' \in Limits
    /\ found' = {}
    /\ answer' = Nothing
    /\ manifest' = Nothing
    /\ todo' = {}
    /\ disk' = [p \in Paths |-> IF disk[p] = "none" THEN "none" ELSE "old"]
    /\ stage' = IF irExists THEN "request" ELSE "idle"
    /\ code' = IF irExists THEN "none" ELSE "2"

\* An uncaught error: exit 1, and no manifest.
Throw ==
    /\ stage' = "idle"
    /\ code' = "1"
    /\ UNCHANGED <<target, max, found, answer, manifest, todo, disk>>

Discover(ds) == found' = found \cup ds

Answer(a) ==
    /\ answer' = a
    /\ stage' = "reconcile"

(***************************************************************************)
(* How a backend answers.  Four of them return their state and their list  *)
(* as they are; `finish` of rust-serde/crate.mjs cuts the list first and   *)
(* looks for a blocking diagnostic in what is left.                        *)
(***************************************************************************)

Plain(state, files, ds) ==
    [state |-> state, files |-> files, diagnostics |-> ds]

Finish(state, files, ds) ==
    LET limited == ApplyDiagnosticLimit(ds, max)
    IN  IF HasBlocking(limited) THEN Plain(state, {}, limited)
                                ELSE Plain("success", files, limited)

Reply(state, files, ds) ==
    IF target = "rust" THEN Finish(state, files, ds)
                       ELSE Plain(state, files, ds)

\* A stage that refuses the document when it finds something blocking, and
\* hands it to the next stage when it does not.  (A refusal the Rust cut has
\* turned into a success gets the advisories of Render too; they change
\* neither the verdict nor the files.)
Stage(here, state, next, ds) ==
    /\ stage = here
    /\ Discover(ds)
    /\ IF HasBlocking(ds) THEN Answer(Reply(state, {}, found \cup ds))
                          ELSE stage' = next /\ UNCHANGED answer
    /\ UNCHANGED <<target, max, manifest, todo, disk, code>>

\* The seam's own refusals: the request against its schema, then the IR
\* version and the construct shapes no backend renders.
CheckRequest ==
    \E ds \in SUBSET Blocking :
       /\ stage = "request"
       /\ Discover(ds)
       /\ IF ds # {} THEN Answer(Plain("invalid", {}, ds))
                     ELSE stage' = "shape" /\ UNCHANGED answer
       /\ UNCHANGED <<target, max, manifest, todo, disk, code>>

CheckShape ==
    /\ stage = "shape"
    /\ \/ /\ stage' = IF target = "sysml" THEN "represent" ELSE "admit"
          /\ UNCHANGED <<found, answer>>
       \/ \E d \in Blocking :
             Discover({d}) /\ Answer(Plain("unsupported", {}, {d}))
    /\ UNCHANGED <<target, max, manifest, todo, disk, code>>

\* Admission of typescript and json-schema (python lowers through the
\* latter), and the limits and output root of the Rust backend.
Admit ==
    \E ds \in SUBSET Blocking : Stage("admit", "invalid", "represent", ds)

\* Everything the target cannot carry.  Mapping to Rust also raises an
\* advisory for every omission the profile declares.
Represent ==
    \E ds \in SUBSET (IF target = "rust" THEN Possible ELSE Blocking) :
       Stage("represent", "unsupported", "render", ds)

\* Rendering may still refuse: the Rust patterns, the SysML package name.
RefuseRender ==
    /\ target \in {"rust", "sysml"}
    /\ \E d \in Blocking : Stage("render", "unsupported", "render", {d})

\* The audit of the TypeScript renderer throws on a node it dropped.
RenderThrows ==
    /\ stage = "render"
    /\ target = "typescript"
    /\ Throw

\* The files.  Members carried but not enforced are advisories; the Rust
\* backend adds them to the report its `finish` has already cut.
Render ==
    /\ stage = "render"
    /\ \E ds \in SUBSET Advisory, files \in SUBSET Paths \ {{}} :
          LET reply == Reply("success", files, found) IN
          /\ target = "sysml" => ds = {}
          /\ Discover(ds)
          /\ answer' = Plain(reply.state, reply.files, reply.diagnostics \cup ds)
    /\ stage' = IF target = "python" THEN "produce" ELSE "reconcile"
    /\ UNCHANGED <<target, max, manifest, todo, disk, code>>

\* Python sources come from a child process fed with the lowered schemas.
Produce ==
    /\ stage = "produce"
    /\ \E files \in SUBSET Paths \ {{}} :
          answer' = Plain("success", files, answer.diagnostics)
    /\ stage' = "reconcile"
    /\ UNCHANGED <<target, max, found, manifest, todo, disk, code>>

ProduceFails ==
    /\ stage = "produce"
    /\ \E d \in Blocking :
          Discover({d}) /\ Answer(Plain("invalid", {}, {d}))
    /\ UNCHANGED <<target, max, manifest, todo, disk, code>>

(***************************************************************************)
(* The end of generateTarget and of the command.                           *)
(***************************************************************************)

PathEscapes ==
    /\ stage = "reconcile"
    /\ answer.files \cap Outside # {}
    /\ Throw

\* The formatter runs over every file of an answer that is not a refusal;
\* only TypeScript has one that can fail.
FormatterFails ==
    /\ stage = "reconcile"
    /\ answer.state \notin Refused
    /\ answer.files # {} /\ answer.files \cap Outside = {}
    /\ target = "typescript"
    /\ Throw

Reconciled ==
    IF answer.state \in Refused
    THEN Plain(answer.state, {}, answer.diagnostics)
    ELSE IF HasBlocking(answer.diagnostics)
         THEN Plain("invalid", {}, answer.diagnostics)
         ELSE answer

\* Mutant: the seam does not look at the paths.
PrintUnchecked ==
    /\ stage = "reconcile"
    /\ manifest' = Reconciled
    /\ stage' = "decide"
    /\ UNCHANGED <<target, max, found, answer, todo, disk, code>>

PrintManifest ==
    /\ stage = "reconcile"
    /\ answer.files \cap Outside = {}
    /\ manifest' = Reconciled
    /\ stage' = "decide"
    /\ UNCHANGED <<target, max, found, answer, todo, disk, code>>

Decide ==
    /\ stage = "decide"
    /\ IF ~Clean(manifest) \/ HasBlocking(manifest.diagnostics)
       THEN /\ stage' = "idle"
            /\ code' = "1"
            /\ UNCHANGED todo
       ELSE /\ stage' = "write"
            /\ todo' = manifest.files
            /\ UNCHANGED code
    /\ UNCHANGED <<target, max, found, answer, manifest, disk>>

\* The text written is the text the seam formatted, which the caller recorded
\* under its path.
WriteFile ==
    /\ stage = "write"
    /\ \E p \in todo :
          /\ disk' = [disk EXCEPT ![p] = "new"]
          /\ todo' = todo \ {p}
    /\ UNCHANGED <<stage, target, max, found, answer, manifest, code>>

\* Mutant: go on after a write that failed.
WriteSkipped ==
    /\ stage = "write"
    /\ \E p \in todo : todo' = todo \ {p}
    /\ UNCHANGED <<stage, target, max, found, answer, manifest, disk, code>>

WriteFails ==
    /\ stage = "write"
    /\ todo # {}
    /\ Throw

Exit ==
    /\ stage = "write"
    /\ todo = {}
    /\ stage' = "idle"
    /\ code' = "0"
    /\ UNCHANGED <<target, max, found, answer, manifest, todo, disk>>

GenerateStep ==
    \/ CheckRequest
    \/ CheckShape
    \/ Admit
    \/ Represent
    \/ RefuseRender
    \/ RenderThrows
    \/ Render
    \/ Produce
    \/ ProduceFails
    \/ PathEscapes
    \/ FormatterFails
    \/ PrintManifest
    \/ Decide
    \/ WriteFile
    \/ WriteFails
    \/ Exit
=============================================================================
