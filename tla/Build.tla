-------------------------------- MODULE Build --------------------------------
(***************************************************************************)
(* A working directory in which a user runs `compile` and `generate`, in   *)
(* any order and any number of times, editing the sources in between.  The *)
(* commands share two things: the IR file, which `compile` writes and      *)
(* `generate` reads, and the output root.  Each command is a process of    *)
(* its own; the next one starts when it has exited.                        *)
(***************************************************************************)
EXTENDS Commands

vars == <<compileVars, generateVars>>

Init == CompileInit /\ GenerateInit

Compile ==
    /\ stage = "idle"
    /\ CompileNext
    /\ UNCHANGED generateVars

Generate ==
    /\ cPhase = "idle"
    /\ StartGenerate(irFile.written) \/ GenerateStep
    /\ UNCHANGED compileVars

Next == Compile \/ Generate

Spec == Init /\ [][Next]_vars

ReportType == SUBSET (Possible \cup {LimitReached})

AnswerType ==
    [state : Refused \cup {"none", "success", "lossy"},
     files : SUBSET Paths,
     diagnostics : ReportType]

TypeOK ==
    /\ cPhase \in {"idle", "resolve", "graph", "frontend", "validate",
                   "assemble", "report"}
    /\ cMax \in CompileLimits
    /\ cFound \subseteq Possible
    /\ cIr \in BOOLEAN
    /\ irFile \in {NoDocument} \cup {Document(f) : f \in SUBSET Possible}
    /\ stage \in {"idle", "request", "shape", "admit", "represent", "render",
                  "produce", "reconcile", "decide", "write"}
    /\ target \in Targets
    /\ max \in Limits
    /\ found \subseteq Possible
    /\ answer \in AnswerType
    /\ manifest \in AnswerType
    /\ todo \subseteq Paths
    /\ disk \in [Paths -> Text]
    /\ code \in {"none", "0", "1", "2"}

\* A document under --out comes from a compile that found nothing blocking,
\* however short its report was cut: the report alone may have lost the
\* diagnostic that blocks (pipeline.mjs:57-65, cli.mjs:226).
DocumentIsClean == irFile.written => ~HasBlocking(irFile.found)

\* If any diagnostic is blocking, generate writes no file and leaves those
\* that are there alone (FR-071:74-76).  "Any" is any the command came upon,
\* in the report or not, at whichever stage and in whichever backend.
OnlyCleanWrites ==
    (\E p \in Paths : disk[p] = "new") => ~HasBlocking(found)

\* Nothing lands outside the output root (seam.mjs:226-260).
StaysInside == \A p \in Outside : disk[p] = "none"

\* A manifest that is not clean names a diagnostic that blocks, so the caller
\* is told why; the cut may not take away the reason for the refusal.
RefusalIsExplained ==
    manifest.state \in Refused =>
        HasBlocking(manifest.diagnostics) /\ manifest.files = {}

\* Exit 0 leaves every file the manifest names as this command wrote it, and
\* nothing else it wrote (cli.mjs:437-439).
ManifestIsOnDisk ==
    code = "0" => manifest.files = {p \in Paths : disk[p] = "new"}

\* generate exits 1 when it produced a blocking diagnostic (FR-071:80), as
\* long as the Rust backend did not cut its report.
ExitIsHonestUncut ==
    code = "0" /\ (target = "rust" => Cardinality(found) <= max) =>
        ~HasBlocking(found)

\* FR-071:80 as it is written: "generate SHALL exit 1 when it produced a
\* blocking diagnostic or a manifest state of invalid, unsupported, or
\* unavailable".
ExitIsHonest == code = "0" => ~HasBlocking(found)

\* Neither command writes when something blocks, and generate writes nothing
\* outside its root (FR-071).
WritesAreClean ==
    /\ DocumentIsClean
    /\ OnlyCleanWrites
    /\ StaysInside

\* The manifest says what happened: a refusal with its reason and no files, a
\* success with the files that stand.
ManifestIsTrue ==
    /\ TypeOK
    /\ RefusalIsExplained
    /\ ManifestIsOnDisk
=============================================================================
