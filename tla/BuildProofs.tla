----------------------------- MODULE BuildProofs -----------------------------
(***************************************************************************)
(* For every set of diagnostics, limits and paths: no sequence of compiles *)
(* and generations leaves a document a blocking diagnostic spoke against,  *)
(* writes a file after one was found, or writes outside the output root.   *)
(***************************************************************************)
EXTENDS Build, TLAPS

Early == {"request", "shape", "admit", "represent", "render", "produce"}

Unwritten == todo = {} /\ \A p \in Paths : disk[p] # "new"

\* A compile keeps going only while nothing blocks, and has a document only
\* if nothing did.
CompileInv ==
    /\ cPhase = "idle" => cFound = {} /\ ~cIr
    /\ cPhase # "report" => ~HasBlocking(cFound)
    /\ cIr => cPhase = "report" /\ ~HasBlocking(cFound)
    /\ DocumentIsClean

\* Until the backend has answered nothing blocks and nothing is written ...
Untouched ==
    /\ stage \in Early => ~HasBlocking(found)
    /\ stage \in Early \cup {"reconcile"} => manifest = Nothing
    /\ stage \in Early \cup {"reconcile", "decide"} => Unwritten

\* ... and once something blocks there is no file left that could be.
NoFileToWrite ==
    HasBlocking(found) =>
        answer.files = {} /\ manifest.files = {} /\ Unwritten

\* The files still to write are the manifest's, and none leaves the root.
WithinRoot ==
    /\ todo \subseteq manifest.files
    /\ manifest.files \cap Outside = {}
    /\ StaysInside

GenerateInv ==
    /\ disk \in [Paths -> Text]
    /\ Untouched
    /\ NoFileToWrite
    /\ WithinRoot

\* Blocking is a matter of the single diagnostics (hasBlocking).
LEMMA BlockingUnion ==
    ASSUME NEW S, NEW T
    PROVE  HasBlocking(S \cup T) <=> HasBlocking(S) \/ HasBlocking(T)
  BY DEF HasBlocking

\* Nothing was found yet: nothing blocks.
LEMMA NothingBlocks == ~HasBlocking({})
  BY DEF HasBlocking

\* The advisories are those that do not block.
LEMMA AdvisoriesPass ==
    ASSUME NEW ds \in SUBSET Advisory
    PROVE  ~HasBlocking(ds)
  BY DEF HasBlocking, Advisory, Blocking

\* A refusal carries no file, cut or not.
LEMMA ReplyFiles ==
    ASSUME NEW s, NEW ds
    PROVE  Reply(s, {}, ds).files = {}
  BY DEF Reply, Finish, Plain

\* A compile's phases keep CompileInv, whatever the phase finds.
LEMMA CompileStep ==
    ASSUME CompileInv, CompileNext
    PROVE  CompileInv'
<1> USE NothingBlocks DEF CompileInv
<1>1. CASE StartCompile
  BY <1>1 DEF StartCompile, DocumentIsClean
<1>2. ASSUME NEW ds, NEW next, next # "report", next # "idle",
             cPhase # "report", Add(ds, next), cIr' = cIr
      PROVE  CompileInv'
  <2>1. /\ HasBlocking(cFound') <=> HasBlocking(ds)
        /\ cPhase' = IF HasBlocking(ds) THEN "report" ELSE next
    BY <1>2, BlockingUnion DEF Add
  <2>2. DocumentIsClean'
    BY <1>2 DEF Add, DocumentIsClean
  <2> QED
    BY <1>2, <2>1, <2>2
<1>3. CASE Resolve
  BY <1>2, <1>3 DEF Resolve
<1>4. CASE Graph
  BY <1>4 DEF Graph, DocumentIsClean
<1>5. CASE RunFrontend
  BY <1>2, <1>5 DEF RunFrontend
<1>6. CASE FrontendThrows
  BY <1>6 DEF FrontendThrows, EndProcess, DocumentIsClean
<1>7. CASE Validate
  BY <1>2, <1>7 DEF Validate
<1>8. CASE Assemble
  BY <1>8 DEF Assemble, DocumentIsClean
<1>9. CASE EndCompile
  BY <1>9 DEF EndCompile, EndProcess, WriteIr, Document, NoDocument,
              DocumentIsClean
<1> QED
  BY <1>1, <1>3, <1>4, <1>5, <1>6, <1>7, <1>8, <1>9 DEF CompileNext

\* Whatever the command finds at a stage, it finds before it writes.
LEMMA EarlyStep ==
    ASSUME GenerateInv, stage \in Early,
           manifest' = manifest, todo' = todo, disk' = disk,
           stage' \in Early => ~HasBlocking(found'),
           stage' \in Early \cup {"reconcile"},
           HasBlocking(found') => answer'.files = {}
    PROVE  GenerateInv'
<1>1. manifest = Nothing /\ Unwritten
  BY DEF GenerateInv, Untouched
<1>2. Unwritten'
  BY <1>1 DEF Unwritten
<1>3. Untouched' /\ NoFileToWrite'
  BY <1>1, <1>2 DEF Untouched, NoFileToWrite, Nothing
<1>4. WithinRoot'
  BY DEF GenerateInv, WithinRoot, StaysInside
<1> QED
  BY <1>3, <1>4 DEF GenerateInv

\* An uncaught error ends the command and changes nothing else.
LEMMA ThrowStep ==
    ASSUME GenerateInv, Throw
    PROVE  GenerateInv'
<1>1. stage' = "idle" /\ UNCHANGED <<found, answer, manifest, todo, disk>>
  BY DEF Throw
<1>2. Untouched'
  BY <1>1 DEF Untouched, Early
<1>3. NoFileToWrite' /\ WithinRoot'
  BY <1>1 DEF GenerateInv, NoFileToWrite, Unwritten, WithinRoot, StaysInside
<1> QED
  BY <1>1, <1>2, <1>3 DEF GenerateInv

\* A stage of a backend passes on a document with nothing blocking, or
\* answers with no file.
LEMMA StageStep ==
    ASSUME GenerateInv,
           NEW here, NEW next, NEW state, NEW ds,
           here \in Early, next \in Early,
           Stage(here, state, next, ds)
    PROVE  GenerateInv'
<1>1. /\ stage \in Early
      /\ UNCHANGED <<manifest, todo, disk>>
      /\ found' = found \cup ds
      /\ ~HasBlocking(found)
  BY DEF Stage, Discover, GenerateInv, Untouched
<1>2. HasBlocking(found') <=> HasBlocking(ds)
  BY <1>1, BlockingUnion
<1>3. CASE HasBlocking(ds)
  <2>1. answer'.files = {} /\ stage' = "reconcile"
    BY <1>3, ReplyFiles DEF Stage, Answer
  <2> QED
    BY <1>1, <2>1, EarlyStep DEF Early
<1>4. CASE ~HasBlocking(ds)
  <2>1. stage' = next
    BY <1>4 DEF Stage
  <2> QED
    BY <1>1, <1>2, <1>4, <2>1, EarlyStep
<1> QED
  BY <1>3, <1>4

\* Every step of a running generation keeps GenerateInv.
LEMMA GenerateStepKeeps ==
    ASSUME GenerateInv, GenerateStep
    PROVE  GenerateInv'
<1>1. CASE CheckRequest
  <2>1. PICK ds \in SUBSET Blocking :
           /\ stage = "request"
           /\ Discover(ds)
           /\ IF ds # {} THEN Answer(Plain("invalid", {}, ds))
                         ELSE stage' = "shape" /\ UNCHANGED answer
           /\ UNCHANGED <<target, max, manifest, todo, disk, code>>
    BY <1>1 DEF CheckRequest
  <2>2. stage \in Early /\ ~HasBlocking(found)
    BY <2>1 DEF GenerateInv, Untouched, Early
  <2>3. CASE ds = {}
    <3>1. found' = found /\ stage' = "shape"
      BY <2>1, <2>3 DEF Discover
    <3> QED
      BY <2>1, <2>2, <3>1, EarlyStep DEF Early
  <2>4. CASE ds # {}
    <3>1. answer'.files = {} /\ stage' = "reconcile"
      BY <2>1, <2>4 DEF Answer, Plain
    <3> QED
      BY <2>1, <2>2, <3>1, EarlyStep DEF Early
  <2> QED
    BY <2>3, <2>4
<1>2. CASE CheckShape
  <2>1. stage \in Early /\ ~HasBlocking(found)
    BY <1>2 DEF CheckShape, GenerateInv, Untouched, Early
  <2>2. CASE found' = found /\ stage' \in {"represent", "admit"}
    BY <1>2, <2>1, <2>2, EarlyStep DEF CheckShape, Early
  <2>3. CASE stage' = "reconcile" /\ answer'.files = {}
    BY <1>2, <2>1, <2>3, EarlyStep DEF CheckShape, Early
  <2>4. \/ found' = found /\ stage' \in {"represent", "admit"}
        \/ \E d \in Blocking : Answer(Plain("unsupported", {}, {d}))
    BY <1>2 DEF CheckShape
  <2> QED
    BY <2>2, <2>3, <2>4 DEF Answer, Plain
<1>3. CASE Admit
  BY <1>3, StageStep DEF Admit, Early
<1>4. CASE Represent
  BY <1>4, StageStep DEF Represent, Early
<1>5. CASE RefuseRender
  BY <1>5, StageStep DEF RefuseRender, Early
<1>6. CASE RenderThrows
  BY <1>6, ThrowStep DEF RenderThrows
<1>7. CASE Render
  <2>1. PICK ds \in SUBSET Advisory : Discover(ds)
    BY <1>7 DEF Render
  <2>2. stage \in Early /\ ~HasBlocking(found)
    BY <1>7 DEF Render, GenerateInv, Untouched, Early
  <2>3. ~HasBlocking(found')
    BY <2>1, <2>2, AdvisoriesPass, BlockingUnion DEF Discover
  <2>4. /\ stage' \in {"produce", "reconcile"}
        /\ UNCHANGED <<manifest, todo, disk>>
    BY <1>7 DEF Render
  <2> QED
    BY <2>2, <2>3, <2>4, EarlyStep DEF Early
<1>8. CASE Produce
  <2>1. stage \in Early /\ ~HasBlocking(found)
    BY <1>8 DEF Produce, GenerateInv, Untouched, Early
  <2>2. stage' = "reconcile" /\ UNCHANGED <<found, manifest, todo, disk>>
    BY <1>8 DEF Produce
  <2> QED
    BY <2>1, <2>2, EarlyStep DEF Early
<1>9. CASE ProduceFails
  <2>1. stage \in Early
    BY <1>9 DEF ProduceFails, Early
  <2>2. /\ stage' = "reconcile"
        /\ answer'.files = {}
        /\ UNCHANGED <<manifest, todo, disk>>
    BY <1>9 DEF ProduceFails, Answer, Plain
  <2> QED
    BY <2>1, <2>2, EarlyStep DEF Early
<1>10. CASE PathEscapes
  BY <1>10, ThrowStep DEF PathEscapes
<1>11. CASE FormatterFails
  BY <1>11, ThrowStep DEF FormatterFails
<1>12. CASE PrintManifest
  <2>1. /\ stage = "reconcile" /\ stage' = "decide"
        /\ answer.files \cap Outside = {}
        /\ manifest' = Reconciled
        /\ UNCHANGED <<found, answer, todo, disk>>
    BY <1>12 DEF PrintManifest
  <2>2. manifest'.files \in {{}, answer.files}
    BY <2>1 DEF Reconciled, Plain
  <2>3. Unwritten /\ Unwritten'
    BY <2>1 DEF GenerateInv, Untouched, Unwritten
  <2>4. Untouched'
    BY <2>1, <2>3 DEF Untouched, Early
  <2>5. NoFileToWrite'
    BY <2>1, <2>2, <2>3 DEF GenerateInv, NoFileToWrite
  <2>6. WithinRoot'
    BY <2>1, <2>2, <2>3 DEF GenerateInv, WithinRoot, StaysInside, Unwritten
  <2> QED
    BY <2>1, <2>4, <2>5, <2>6 DEF GenerateInv
<1>13. CASE Decide
  <2>1. /\ stage = "decide" /\ stage' \in {"idle", "write"}
        /\ todo' \in {todo, manifest.files}
        /\ UNCHANGED <<found, answer, manifest, disk>>
    BY <1>13 DEF Decide
  <2>2. Untouched'
    BY <2>1 DEF Untouched, Early
  <2>3. NoFileToWrite' /\ WithinRoot'
    BY <2>1 DEF GenerateInv, NoFileToWrite, Unwritten, WithinRoot, StaysInside
  <2> QED
    BY <2>1, <2>2, <2>3 DEF GenerateInv
<1>14. CASE WriteFile
  <2>1. PICK p \in todo : /\ disk' = [disk EXCEPT ![p] = "new"]
                          /\ todo' = todo \ {p}
    BY <1>14 DEF WriteFile
  <2>2. stage' = "write" /\ UNCHANGED <<found, answer, manifest>>
    BY <1>14 DEF WriteFile
  <2>3. p \notin Outside /\ ~HasBlocking(found)
    BY <2>1 DEF GenerateInv, NoFileToWrite, Unwritten, WithinRoot
  <2>4. disk' \in [Paths -> Text]
    BY <2>1 DEF GenerateInv, Text
  <2>5. Untouched' /\ NoFileToWrite'
    BY <2>2, <2>3 DEF Untouched, NoFileToWrite, Early
  <2>6. WithinRoot'
    BY <2>1, <2>2, <2>3, PathAssumption
       DEF GenerateInv, WithinRoot, StaysInside
  <2> QED
    BY <2>4, <2>5, <2>6 DEF GenerateInv
<1>15. CASE WriteFails
  BY <1>15, ThrowStep DEF WriteFails
<1>16. CASE Exit
  <2>1. stage' = "idle" /\ UNCHANGED <<found, answer, manifest, todo, disk>>
    BY <1>16 DEF Exit
  <2>2. Untouched'
    BY <2>1 DEF Untouched, Early
  <2>3. NoFileToWrite' /\ WithinRoot'
    BY <2>1 DEF GenerateInv, NoFileToWrite, Unwritten, WithinRoot, StaysInside
  <2> QED
    BY <2>1, <2>2, <2>3 DEF GenerateInv
<1> QED
  BY <1>1, <1>2, <1>3, <1>4, <1>5, <1>6, <1>7, <1>8, <1>9, <1>10, <1>11,
     <1>12, <1>13, <1>14, <1>15, <1>16 DEF GenerateStep

\* A new command starts from nothing found and nothing of its own on disk.
LEMMA StartKeeps ==
    ASSUME GenerateInv, NEW irExists, StartGenerate(irExists)
    PROVE  GenerateInv'
<1>1. /\ found' = {} /\ manifest' = Nothing /\ todo' = {}
      /\ disk' = [p \in Paths |-> IF disk[p] = "none" THEN "none" ELSE "old"]
  BY DEF StartGenerate
<1>2. Unwritten' /\ disk' \in [Paths -> Text]
  BY <1>1 DEF Unwritten, Text
<1>3. Untouched' /\ NoFileToWrite'
  BY <1>1, <1>2, NothingBlocks DEF Untouched, NoFileToWrite
<1>4. WithinRoot'
  BY <1>1, PathAssumption DEF GenerateInv, WithinRoot, StaysInside, Nothing
<1> QED
  BY <1>2, <1>3, <1>4 DEF GenerateInv

\* A working directory starts clean.
LEMMA InitKeeps == Init => CompileInv /\ GenerateInv
<1> SUFFICES ASSUME Init PROVE CompileInv /\ GenerateInv
  OBVIOUS
<1>1. CompileInv
  BY NothingBlocks
     DEF Init, CompileInit, CompileInv, DocumentIsClean, NoDocument
<1>2. /\ found = {} /\ manifest = Nothing /\ todo = {}
      /\ disk = [p \in Paths |-> "none"]
  BY DEF Init, GenerateInit
<1>3. GenerateInv
  BY <1>2, NothingBlocks, PathAssumption
     DEF GenerateInv, Untouched, Unwritten, NoFileToWrite, WithinRoot,
         StaysInside, Nothing, Text
<1> QED
  BY <1>1, <1>3

\* No command of the working directory makes it unclean.
LEMMA StepKeeps == CompileInv /\ GenerateInv /\ [Next]_vars => (CompileInv /\ GenerateInv)'
<1> SUFFICES ASSUME CompileInv, GenerateInv, [Next]_vars
             PROVE  CompileInv' /\ GenerateInv'
  OBVIOUS
<1>1. ASSUME UNCHANGED compileVars PROVE CompileInv'
  BY <1>1 DEF compileVars, CompileInv, DocumentIsClean
<1>2. ASSUME UNCHANGED generateVars PROVE GenerateInv'
  BY <1>2 DEF generateVars, GenerateInv, Untouched, Unwritten,
              NoFileToWrite, WithinRoot, StaysInside
<1>3. CASE Compile
  BY <1>2, <1>3, CompileStep DEF Compile
<1>4. CASE Generate
  BY <1>1, <1>4, GenerateStepKeeps, StartKeeps DEF Generate
<1>5. CASE UNCHANGED vars
  BY <1>1, <1>2, <1>5 DEF vars, compileVars, generateVars
<1> QED
  BY <1>3, <1>4, <1>5 DEF Next

\* The three safety properties of a working directory: what --out holds had
\* nothing against it, a file is written only by a generation that found
\* nothing blocking, and none outside the output root.
THEOREM Safety == Spec => [](DocumentIsClean /\ OnlyCleanWrites /\ StaysInside)
<1>1. CompileInv /\ GenerateInv =>
        DocumentIsClean /\ OnlyCleanWrites /\ StaysInside
  BY DEF CompileInv, GenerateInv, NoFileToWrite, Unwritten, WithinRoot,
         OnlyCleanWrites
<1> QED
  BY InitKeeps, StepKeeps, <1>1, PTL DEF Spec

\* The three under the one name the run checks them by: whatever the producers
\* answer and the file system does, what a build writes is clean.
THEOREM WritesHold == Spec => []WritesAreClean
<1>1. DocumentIsClean /\ OnlyCleanWrites /\ StaysInside => WritesAreClean
  BY DEF WritesAreClean
<1> QED
  BY Safety, <1>1, PTL

-----------------------------------------------------------------------------
(* What the manifest and the exit code say.                                *)

\* What blocks was seen whole: no cut of the Rust backend took a line away.
Uncut == target = "rust" => Cardinality(found) <= max

\* The refusal a blocking diagnostic calls for is on its way to the exit code.
Refusing ==
    HasBlocking(found) /\ Uncut =>
        /\ stage = "reconcile" => answer.state \in Refused
        /\ stage = "decide" => manifest.state \in Refused
        /\ stage # "write" /\ code # "0"

\* A refusal is explained from the moment a backend answers with it; the files
\* of the manifest are those written and those still to write.
ReportInv ==
    /\ TypeOK
    /\ stage # "idle" => code = "none"
    /\ answer.state \in Refused => HasBlocking(answer.diagnostics)
    /\ RefusalIsExplained
    /\ stage = "write" => manifest.files = todo \cup {p \in Paths : disk[p] = "new"}
    /\ ManifestIsOnDisk
    /\ Refusing

\* A cut report holds what was found, and perhaps the line that says it was cut.
LEMMA CutWithin ==
    ASSUME NEW ds \in SUBSET Possible, NEW n
    PROVE  /\ ApplyDiagnosticLimit(ds, n) \in ReportType
           /\ Cardinality(ds) <= n => ApplyDiagnosticLimit(ds, n) = ds
  BY DEF ApplyDiagnosticLimit, Earliest, ReportType

\* What a backend may answer a document with.
LEMMA ReplyShape ==
    ASSUME NEW s \in {"invalid", "unsupported", "success"},
           NEW files \in SUBSET Paths, NEW ds \in SUBSET Possible,
           s # "success" => HasBlocking(ds)
    PROVE  /\ Reply(s, files, ds) \in AnswerType
           /\ Reply(s, files, ds).state \in {s, "success"}
           /\ Reply(s, files, ds).state \in Refused => HasBlocking(Reply(s, files, ds).diagnostics)
           /\ s # "success" /\ (target = "rust" => Cardinality(ds) <= max) =>
                 Reply(s, files, ds).state = s
<1> DEFINE limited == ApplyDiagnosticLimit(ds, max)
<1>1. limited \in ReportType /\ (Cardinality(ds) <= max => limited = ds)
  BY CutWithin
<1>2. ds \in ReportType
  BY DEF ReportType
<1>3. CASE target # "rust"
  BY <1>2, <1>3 DEF Reply, Plain, AnswerType, Refused
<1>4. CASE target = "rust"
  <2>1. Reply(s, files, ds) =
          IF HasBlocking(limited) THEN Plain(s, {}, limited) ELSE Plain("success", files, limited)
    BY <1>4 DEF Reply, Finish
  <2> HIDE DEF limited
  <2> QED
    BY <1>1, <1>4, <2>1 DEF Plain, AnswerType, Refused
<1> QED
  BY <1>3, <1>4

\* A compile changes nothing the generation's report is about.
LEMMA CompileReport ==
    ASSUME ReportInv, CompileNext, UNCHANGED generateVars
    PROVE  ReportInv'
<1>1. /\ cPhase' \in {"idle", "resolve", "graph", "frontend", "validate", "assemble", "report"}
      /\ cMax' \in CompileLimits
      /\ cFound' \subseteq Possible
      /\ cIr' \in BOOLEAN
      /\ irFile' \in {NoDocument} \cup {Document(f) : f \in SUBSET Possible}
  BY DEF ReportInv, TypeOK, CompileNext, StartCompile, Resolve, Graph, RunFrontend,
         FrontendThrows, Validate, Assemble, EndCompile, EndProcess, Add
<1>2. UNCHANGED <<stage, target, max, found, answer, manifest, todo, disk, code>>
  BY DEF generateVars
<1> QED
  BY <1>1, <1>2 DEF ReportInv, TypeOK, RefusalIsExplained, ManifestIsOnDisk, Refusing, Uncut

\* A step of a running generation that neither prints a manifest, nor decides,
\* writes or exits: its answer is typed, and a refusal has its reason.
LEMMA AnswerStep ==
    ASSUME ReportInv, UNCHANGED <<compileVars, target, max, manifest, todo, disk, code>>,
           stage \notin {"idle", "decide", "write"},
           stage' \in {"shape", "admit", "represent", "render", "produce", "reconcile"},
           found' \subseteq Possible, answer' \in AnswerType,
           answer'.state \in Refused => HasBlocking(answer'.diagnostics),
           HasBlocking(found') /\ Uncut' /\ stage' = "reconcile" => answer'.state \in Refused
    PROVE  ReportInv'
<1>1. code = "none" /\ code' = "none"
  BY DEF ReportInv
<1>2. TypeOK'
  BY DEF ReportInv, TypeOK, compileVars
<1>3. RefusalIsExplained' /\ ManifestIsOnDisk'
  BY <1>1 DEF ReportInv, RefusalIsExplained, ManifestIsOnDisk
<1>4. Refusing'
  BY <1>1 DEF Refusing
<1> QED
  BY <1>1, <1>2, <1>3, <1>4 DEF ReportInv

\* An uncaught error exits 1 with everything else as it is.
LEMMA ThrowReport ==
    ASSUME ReportInv, Throw, UNCHANGED compileVars
    PROVE  ReportInv'
<1>1. /\ stage' = "idle" /\ code' = "1"
      /\ UNCHANGED <<target, max, found, answer, manifest, todo, disk>>
  BY DEF Throw
<1>2. TypeOK'
  BY <1>1 DEF ReportInv, TypeOK, compileVars
<1>3. RefusalIsExplained' /\ ManifestIsOnDisk' /\ Refusing'
  BY <1>1 DEF ReportInv, RefusalIsExplained, ManifestIsOnDisk, Refusing
<1> QED
  BY <1>1, <1>2, <1>3 DEF ReportInv

\* A stage that looks at the document answers with a refusal that has its
\* reason, or goes on.
LEMMA StageReport ==
    ASSUME ReportInv, GenerateInv, UNCHANGED compileVars,
           NEW here, NEW next, NEW state, NEW ds,
           here \in {"admit", "represent", "render"}, next \in {"represent", "render"},
           state \in {"invalid", "unsupported"}, ds \in SUBSET Possible,
           Stage(here, state, next, ds)
    PROVE  ReportInv'
<1>1. /\ stage = here /\ found' = found \cup ds /\ found' \subseteq Possible
      /\ UNCHANGED <<target, max, manifest, todo, disk, code>>
      /\ ~HasBlocking(found)
  BY DEF Stage, Discover, ReportInv, TypeOK, GenerateInv, Untouched, Early
<1>2. CASE HasBlocking(ds)
  <2>1. answer' = Reply(state, {}, found') /\ stage' = "reconcile"
    BY <1>1, <1>2 DEF Stage, Answer
  <2>2. HasBlocking(found')
    BY <1>1, <1>2, BlockingUnion
  <2>3. /\ answer' \in AnswerType
        /\ answer'.state \in Refused => HasBlocking(answer'.diagnostics)
        /\ Uncut' => answer'.state \in Refused
    <3>1. /\ Reply(state, {}, found') \in AnswerType
          /\ Reply(state, {}, found').state \in Refused =>
                HasBlocking(Reply(state, {}, found').diagnostics)
          /\ (target = "rust" => Cardinality(found') <= max) =>
                Reply(state, {}, found').state = state
      BY <1>1, <2>2, ReplyShape
    <3> QED
      BY <1>1, <2>1, <3>1 DEF Uncut, Refused
  <2> QED
    BY <1>1, <2>1, <2>3, AnswerStep
<1>3. CASE ~HasBlocking(ds)
  <2>1. answer' = answer /\ stage' = next
    BY <1>3 DEF Stage
  <2>2. answer \in AnswerType /\ (answer.state \in Refused => HasBlocking(answer.diagnostics))
    BY DEF ReportInv, TypeOK
  <2> QED
    BY <1>1, <2>1, <2>2, AnswerStep
<1> QED
  BY <1>2, <1>3

\* Every step of a running generation keeps ReportInv.
LEMMA GenerateReport ==
    ASSUME ReportInv, GenerateInv, GenerateStep, UNCHANGED compileVars
    PROVE  ReportInv'
<1>0. /\ answer \in AnswerType /\ found \subseteq Possible
      /\ answer.state \in Refused => HasBlocking(answer.diagnostics)
  BY DEF ReportInv, TypeOK
<1>1. CASE CheckRequest
  <2>1. PICK ds \in SUBSET Blocking :
           /\ stage = "request"
           /\ Discover(ds)
           /\ IF ds # {} THEN Answer(Plain("invalid", {}, ds))
                         ELSE stage' = "shape" /\ UNCHANGED answer
           /\ UNCHANGED <<target, max, manifest, todo, disk, code>>
    BY <1>1 DEF CheckRequest
  <2>2. found' \subseteq Possible /\ ~HasBlocking(found)
    BY <1>0, <2>1 DEF Discover, Blocking, GenerateInv, Untouched, Early
  <2>3. CASE ds = {}
    <3>1. stage' = "shape" /\ answer' = answer
      BY <2>1, <2>3
    <3> QED
      BY <1>0, <2>1, <2>2, <3>1, AnswerStep
  <2>4. CASE ds # {}
    <3>1. answer' = Plain("invalid", {}, ds) /\ stage' = "reconcile"
      BY <2>1, <2>4 DEF Answer
    <3>2. HasBlocking(ds) /\ ds \in ReportType
      BY <2>4 DEF HasBlocking, Blocking, ReportType
    <3>3. answer' \in AnswerType /\ answer'.state \in Refused /\ answer'.diagnostics = ds
      BY <3>1, <3>2 DEF Plain, AnswerType, Refused
    <3> QED
      BY <2>1, <2>2, <3>1, <3>2, <3>3, AnswerStep
  <2> QED
    BY <2>3, <2>4
<1>2. CASE CheckShape
  <2>1. stage = "shape" /\ UNCHANGED <<target, max, manifest, todo, disk, code>>
    BY <1>2 DEF CheckShape
  <2>2. CASE stage' \in {"represent", "admit"} /\ UNCHANGED <<found, answer>>
    BY <1>0, <2>1, <2>2, AnswerStep
  <2>3. ASSUME NEW d \in Blocking, Discover({d}), Answer(Plain("unsupported", {}, {d}))
        PROVE  ReportInv'
    <3>1. /\ answer' = Plain("unsupported", {}, {d}) /\ stage' = "reconcile"
          /\ found' \subseteq Possible
      BY <1>0, <2>3 DEF Answer, Discover, Blocking
    <3>2. HasBlocking({d}) /\ {d} \in ReportType
      BY DEF HasBlocking, Blocking, ReportType
    <3>3. answer' \in AnswerType /\ answer'.state \in Refused /\ answer'.diagnostics = {d}
      BY <3>1, <3>2 DEF Plain, AnswerType, Refused
    <3> QED
      BY <2>1, <3>1, <3>2, <3>3, AnswerStep
  <2> QED
    BY <1>2, <2>2, <2>3 DEF CheckShape
<1>3. CASE Admit
  <2>1. PICK ds \in SUBSET Blocking : Stage("admit", "invalid", "represent", ds)
    BY <1>3 DEF Admit
  <2>2. ds \in SUBSET Possible
    BY DEF Blocking
  <2> QED
    BY <2>1, <2>2, StageReport
<1>4. CASE Represent
  <2>1. PICK ds \in SUBSET (IF target = "rust" THEN Possible ELSE Blocking) :
           Stage("represent", "unsupported", "render", ds)
    BY <1>4 DEF Represent
  <2>2. ds \in SUBSET Possible
    BY DEF Blocking
  <2> QED
    BY <2>1, <2>2, StageReport
<1>5. CASE RefuseRender
  <2>1. PICK d \in Blocking : Stage("render", "unsupported", "render", {d})
    BY <1>5 DEF RefuseRender
  <2>2. {d} \in SUBSET Possible
    BY DEF Blocking
  <2> QED
    BY <2>1, <2>2, StageReport
<1>6. CASE RenderThrows
  BY <1>6, ThrowReport DEF RenderThrows
<1>7. CASE Render
  <2>1. PICK ds \in SUBSET Advisory, files \in SUBSET Paths \ {{}} :
           /\ Discover(ds)
           /\ answer' = Plain(Reply("success", files, found).state,
                              Reply("success", files, found).files,
                              Reply("success", files, found).diagnostics \cup ds)
    BY <1>7 DEF Render
  <2>2. /\ stage = "render" /\ stage' \in {"produce", "reconcile"}
        /\ UNCHANGED <<target, max, manifest, todo, disk, code>>
    BY <1>7 DEF Render
  <2>3. /\ found' = found \cup ds /\ found' \subseteq Possible /\ ~HasBlocking(found')
    BY <1>0, <2>1, <2>2, AdvisoriesPass, BlockingUnion
       DEF Discover, Advisory, GenerateInv, Untouched, Early
  <2> DEFINE reply == Reply("success", files, found)
  <2>4. reply \in AnswerType /\ reply.state = "success"
    BY <1>0, ReplyShape
  <2>5. answer' \in AnswerType /\ answer'.state = "success"
    <3> HIDE DEF reply
    <3>1. reply.diagnostics \cup ds \in ReportType /\ reply.files \in SUBSET Paths
      BY <2>4 DEF AnswerType, ReportType, Advisory
    <3>2. answer' = Plain(reply.state, reply.files, reply.diagnostics \cup ds)
      BY <2>1 DEF reply
    <3> QED
      BY <2>4, <3>1, <3>2 DEF Plain, AnswerType
  <2>6. answer'.state \notin Refused
    BY <2>5 DEF Refused
  <2> QED
    BY <2>2, <2>3, <2>5, <2>6, AnswerStep
<1>8. CASE Produce
  <2>1. PICK files \in SUBSET Paths \ {{}} : answer' = Plain("success", files, answer.diagnostics)
    BY <1>8 DEF Produce
  <2>2. /\ stage = "produce" /\ stage' = "reconcile"
        /\ UNCHANGED <<target, max, found, manifest, todo, disk, code>>
    BY <1>8 DEF Produce
  <2>3. answer' \in AnswerType /\ answer'.state \notin Refused
    BY <1>0, <2>1 DEF Plain, AnswerType, Refused
  <2>4. ~HasBlocking(found')
    BY <2>2 DEF GenerateInv, Untouched, Early
  <2> QED
    BY <1>0, <2>2, <2>3, <2>4, AnswerStep
<1>9. CASE ProduceFails
  <2>1. PICK d \in Blocking : Discover({d}) /\ Answer(Plain("invalid", {}, {d}))
    BY <1>9 DEF ProduceFails
  <2>2. /\ stage = "produce" /\ stage' = "reconcile" /\ found' \subseteq Possible
        /\ answer' = Plain("invalid", {}, {d})
        /\ UNCHANGED <<target, max, manifest, todo, disk, code>>
    BY <1>0, <1>9, <2>1 DEF ProduceFails, Answer, Discover, Blocking
  <2>3. HasBlocking({d}) /\ {d} \in ReportType
    BY DEF HasBlocking, Blocking, ReportType
  <2>4. answer' \in AnswerType /\ answer'.state \in Refused /\ answer'.diagnostics = {d}
    BY <2>2, <2>3 DEF Plain, AnswerType, Refused
  <2> QED
    BY <2>2, <2>3, <2>4, AnswerStep
<1>10. CASE PathEscapes
  BY <1>10, ThrowReport DEF PathEscapes
<1>11. CASE FormatterFails
  BY <1>11, ThrowReport DEF FormatterFails
<1>12. CASE PrintManifest
  <2>1. /\ stage = "reconcile" /\ stage' = "decide"
        /\ manifest' = Reconciled
        /\ UNCHANGED <<target, max, found, answer, todo, disk, code>>
    BY <1>12 DEF PrintManifest
  <2>2. /\ manifest' \in AnswerType
        /\ manifest'.state \in Refused => HasBlocking(manifest'.diagnostics) /\ manifest'.files = {}
        /\ answer.state \in Refused => manifest'.state \in Refused
    BY <1>0, <2>1 DEF Reconciled, Plain, AnswerType, Refused
  <2>3. code' = "none"
    BY <2>1 DEF ReportInv
  <2>4. TypeOK'
    BY <2>1, <2>2 DEF ReportInv, TypeOK, compileVars
  <2>5. RefusalIsExplained' /\ ManifestIsOnDisk' /\ Refusing'
    BY <2>1, <2>2, <2>3 DEF ReportInv, RefusalIsExplained, ManifestIsOnDisk, Refusing, Uncut
  <2> QED
    BY <1>0, <2>1, <2>3, <2>4, <2>5 DEF ReportInv
<1>13. CASE Decide
  <2>1. /\ stage = "decide" /\ stage' \in {"idle", "write"}
        /\ UNCHANGED <<target, max, found, answer, manifest, disk>>
        /\ stage' = "idle" => code' = "1" /\ todo' = todo
        /\ stage' = "write" => code' = code /\ todo' = manifest.files /\ Clean(manifest)
    BY <1>13 DEF Decide
  <2>2. manifest \in AnswerType /\ code = "none" /\ {p \in Paths : disk[p] = "new"} = {}
    BY <2>1 DEF ReportInv, TypeOK, GenerateInv, Untouched, Unwritten
  <2>3. TypeOK'
    BY <2>1, <2>2 DEF ReportInv, TypeOK, compileVars, AnswerType
  <2>4. RefusalIsExplained' /\ ManifestIsOnDisk'
    BY <2>1, <2>2 DEF ReportInv, RefusalIsExplained, ManifestIsOnDisk
  <2>5. Refusing'
    BY <2>1, <2>2 DEF ReportInv, Refusing, Uncut, Clean, Refused
  <2> QED
    BY <1>0, <2>1, <2>2, <2>3, <2>4, <2>5 DEF ReportInv
<1>14. CASE WriteFile
  <2>1. PICK p \in todo : /\ disk' = [disk EXCEPT ![p] = "new"]
                          /\ todo' = todo \ {p}
    BY <1>14 DEF WriteFile
  <2>2. /\ stage = "write" /\ stage' = "write" /\ code = "none"
        /\ UNCHANGED <<target, max, found, answer, manifest, code>>
    BY <1>14 DEF WriteFile, ReportInv
  <2>3. p \in Paths /\ disk \in [Paths -> Text]
    BY DEF ReportInv, TypeOK
  <2>4. TypeOK'
    BY <2>1, <2>2, <2>3 DEF ReportInv, TypeOK, compileVars, Text
  <2>5. manifest'.files = todo' \cup {q \in Paths : disk'[q] = "new"}
    BY <2>1, <2>2, <2>3 DEF ReportInv
  <2>6. RefusalIsExplained' /\ ManifestIsOnDisk' /\ Refusing'
    BY <2>2 DEF ReportInv, RefusalIsExplained, ManifestIsOnDisk, Refusing, Uncut
  <2> QED
    BY <1>0, <2>2, <2>4, <2>5, <2>6 DEF ReportInv
<1>15. CASE WriteFails
  BY <1>15, ThrowReport DEF WriteFails
<1>16. CASE Exit
  <2>1. /\ stage = "write" /\ todo = {} /\ stage' = "idle" /\ code' = "0"
        /\ UNCHANGED <<target, max, found, answer, manifest, todo, disk>>
    BY <1>16 DEF Exit
  <2>2. TypeOK'
    BY <2>1 DEF ReportInv, TypeOK, compileVars
  <2>3. RefusalIsExplained' /\ ManifestIsOnDisk' /\ Refusing'
    BY <2>1 DEF ReportInv, RefusalIsExplained, ManifestIsOnDisk, Refusing, Uncut
  <2> QED
    BY <1>0, <2>1, <2>2, <2>3 DEF ReportInv
<1> QED
  BY <1>1, <1>2, <1>3, <1>4, <1>5, <1>6, <1>7, <1>8, <1>9, <1>10, <1>11,
     <1>12, <1>13, <1>14, <1>15, <1>16 DEF GenerateStep

\* A new command has said nothing yet.
LEMMA StartReport ==
    ASSUME ReportInv, NEW irExists \in BOOLEAN, StartGenerate(irExists), UNCHANGED compileVars
    PROVE  ReportInv'
<1>1. /\ target' \in Targets /\ max' \in Limits
      /\ found' = {} /\ answer' = Nothing /\ manifest' = Nothing /\ todo' = {}
      /\ disk' = [p \in Paths |-> IF disk[p] = "none" THEN "none" ELSE "old"]
      /\ \/ stage' = "request" /\ code' = "none"
         \/ stage' = "idle" /\ code' = "2"
  BY DEF StartGenerate
<1>2. Nothing \in AnswerType /\ Nothing.state \notin Refused
  BY DEF Nothing, AnswerType, ReportType, Refused
<1>3. TypeOK'
  BY <1>1, <1>2 DEF ReportInv, TypeOK, compileVars, Text
<1>4. RefusalIsExplained' /\ ManifestIsOnDisk' /\ Refusing'
  BY <1>1, <1>2, NothingBlocks DEF RefusalIsExplained, ManifestIsOnDisk, Refusing
<1> QED
  BY <1>1, <1>2, <1>3, <1>4 DEF ReportInv

\* What a build's commands keep at every step: nothing is written once something
\* blocked, and what is reported is what was found and what was written.
THEOREM Invariance == Spec => [](CompileInv /\ GenerateInv /\ ReportInv)
<1>1. Init => CompileInv /\ GenerateInv /\ ReportInv
  <2> SUFFICES ASSUME Init PROVE ReportInv
    BY InitKeeps
  <2>1. /\ stage = "idle" /\ code = "none" /\ found = {} /\ todo = {}
        /\ answer = Nothing /\ manifest = Nothing
        /\ disk = [p \in Paths |-> "none"]
    BY DEF Init, GenerateInit
  <2>2. Nothing \in AnswerType /\ Nothing.state \notin Refused
    BY DEF Nothing, AnswerType, ReportType, Refused
  <2>3. TypeOK
    BY <2>1, <2>2 DEF Init, GenerateInit, CompileInit, TypeOK, Text
  <2> QED
    BY <2>1, <2>2, <2>3, NothingBlocks DEF ReportInv, RefusalIsExplained, ManifestIsOnDisk, Refusing
<1>2. CompileInv /\ GenerateInv /\ ReportInv /\ [Next]_vars => (CompileInv /\ GenerateInv /\ ReportInv)'
  <2> SUFFICES ASSUME CompileInv, GenerateInv, ReportInv, [Next]_vars
               PROVE  ReportInv'
    BY StepKeeps
  <2>1. CASE Compile
    BY <2>1, CompileReport DEF Compile
  <2>2. CASE Generate
    <3>1. irFile.written \in BOOLEAN
      <4>1. irFile = NoDocument \/ \E f \in SUBSET Possible : irFile = Document(f)
        BY DEF ReportInv, TypeOK
      <4>2. NoDocument.written = FALSE /\ \A f \in SUBSET Possible : Document(f).written = TRUE
        BY DEF NoDocument, Document
      <4> QED
        BY <4>1, <4>2
    <3> QED
      BY <2>2, <3>1, GenerateReport, StartReport DEF Generate
  <2>3. CASE UNCHANGED vars
    BY <2>3 DEF vars, compileVars, generateVars, ReportInv, TypeOK, RefusalIsExplained,
                ManifestIsOnDisk, Refusing, Uncut
  <2> QED
    BY <2>1, <2>2, <2>3 DEF Next
<1> QED
  BY <1>1, <1>2, PTL DEF Spec

\* The manifest a user reads is true: a refusal names what blocks and lists no
\* file, an exit 0 leaves exactly the listed files written (cli.mjs:437-439).
THEOREM ManifestHolds == Spec => []ManifestIsTrue
<1>1. ReportInv => ManifestIsTrue
  BY DEF ReportInv, ManifestIsTrue
<1> QED
  BY Invariance, <1>1, PTL

\* FR-071:80: generate exits 0 only when it came upon nothing that blocks, for
\* every backend that does not cut its report before it looks at it.
THEOREM ExitIsHonestWhereUncut == Spec => []ExitIsHonestUncut
<1>1. ReportInv => ExitIsHonestUncut
  BY DEF ReportInv, Refusing, Uncut, ExitIsHonestUncut
<1> QED
  BY Invariance, <1>1, PTL

=============================================================================
