# A verification development of filament-core-data

filament-core-data turns specifications into one semantic IR document and
turns that document into packages for several languages.  This directory
holds TLA+ models of the code that decides something on the way: the three
frontends that lower a source to IR, the readers that admit a document in
three implementations, the classifiers of a revision, the package resolver,
the compile pipeline, the backends and their names, patterns and type graphs,
the two protocols files are written by, and the harness that compares the
implementations.  TLC checks each on small instances; TLAPS proves the
properties of the stateful parts for every value of the constants.

Paths below are relative to the repository root; `compiler/` stands for
`src/compiler/`, `extraction-frontend/` and `semantic-ir/` for the crates of
those names.  `PROJECT.json` lists, for every definition, the lines it models,
and for every property a change of the code that breaks it.  In the modules
these changes are the operators commented "Mutant:"; no specification uses
them.

## The system

| component | state it keeps | operations | talks to |
|---|---|---|---|
| Lift (extraction-frontend) | files it writes; artifacts kept and refused, round by round | lower a bundle of Markdown documents, assign owners, write sidecar and document | file system; other lifts through it |
| Compiler command line (compiler/cli.mjs) | files it writes | emit-ir, compile, inspect, diff, generate | pipeline, seam, file system |
| Compile pipeline (compiler/pipeline.mjs) | diagnostics and phases of one call | resolve, graph, frontend, validate, assemble | resolver, frontends, lift |
| Package resolver (compiler/packages) | candidates, selection, constraints, edges, worklist of one call | read manifests, select, walk imports, report | host (read only) |
| Frontends (compiler/frontend) | tables of types minted so far | TypeSpec program or JSON Schema bundle to one IR document | TypeScript compiler |
| Readers (semantic-ir/src/rules.rs, compiler/ir/reader.mjs, conformance/oracle) | indexes of one document; answers kept along references (Rust) | decode, check across fields, units, constructs | each judges the same document |
| Classifiers (compiler/compat/diff.mjs, semantic-ir/src/compat.rs, the oracle) | none | class a revision of a contract | pipeline, harness |
| Generation seam and backends (compiler/backends) | none | admit a request, name, map, render, format | formatter, Python producer |
| Conformance harness (conformance/runner) | staging directory and rows of one run | stage cases, start adapters, judge, gate | child processes, oracle |

Most of it is a synchronous computation of one process over a value that can
be any shape.  What a test hardly reaches is where the hard behaviour is:

* **Files shared by processes.** A lift replaces a pair of files and a command
  several, through temporary names beside the final ones; two processes can
  meet there, any call can fail, a process can die between any two calls.  Two
  harness runs stage the corpus in one checkout.
* **A worklist that changes its mind.** The resolver replaces a selection while
  the entry it replaces is queued or already walked; the owner pass refuses an
  artifact for what a later round refuses.
* **Decisions taken from reports**, which several parties sort and cut in turn.
* **Rules written two and three times.** Rust, JavaScript and Python decide the
  same question apart, and each corpus case exercises one.
* **Answers kept for later.** Aliases, kinds and decimal policies are resolved
  along chains whose intermediate answers are cached, in whatever order the
  questions come.
* **Soundness across rules.** That an accepted document has no dangling chain,
  that its units convert and its subtypes substitute, follows from all the
  rules of a reader together and from none of them alone.

`PROJECT.json` lists each of these at its line, under `hazards`, with the
properties that would catch it.

## The modules

| module | models | checked through |
|---|---|---|
| `AtomicFiles` | abstract: at every path, whole files replaced in single steps | refined by LiftWriter and CliWriter |
| `LiftWriter` | extraction-frontend/src/write.rs, lift.rs | `MCLiftWriter` |
| `CliWriter` | `writeAtomic` and the order each verb of compiler/cli.mjs writes in | `MCCliWriter` |
| `SemVer` | versions, precedence, ranges of compiler/packages/resolve.mjs | `MCText`, `MCPackageResolver` |
| `PackageResolver` | `resolvePackageGraph` | `MCPackageResolver`, `MCResolveTwice` |
| `ResolutionContract` | abstract: one call, answered with a closed, acyclic, bounded graph or a refusal | refined by PackageResolver |
| `DepthFirst` | the four depth-first cycle walks: rules.rs (composites, packages), reader.mjs, resolve.mjs | itself |
| `Commands` | `compile`: compiler/pipeline.mjs and the end of the command; `generate`: the command, `generateTarget`, the answers of five backends; `hasBlocking` and `applyDiagnosticLimit` | `MCBuild` |
| `Build` | a directory in which both commands run in any order | `MCBuild` |
| `Conformance` | conformance/runner/differential.mjs with corpus.mjs, runs side by side and the adapters they start | `MCConformance` |
| `OwnerRules`, `OwnerPass` | `assign_owners` of extraction-frontend/src/constructs.rs | itself |
| `Identities` | the identities both frontends mint | `MCLowering` |
| `TypeSpecLowering` | compiler/frontend/typespec/lower.mjs | `MCLowering` |
| `ArtifactLowering` | the lowering of a bundle: bundle.rs, resolve.rs, lower.rs, edges.rs, clauses.rs, enumeration.rs, limits.rs, lift.rs | `MCLowering` |
| `SchemaLowering` | compiler/frontend/json-schema | `MCSchemas`, `MCLowering` |
| `TypeRefs` | what a reference stands for, as the Rust reader keeps it and the compiler's reader walks it | `MCLowering` |
| `IrDocument` | a document as the cross-field rules see it | `MCDocuments` |
| `ReaderRules`, `OracleRules` | the rules of rules.rs, reader.mjs, oracle.mjs over it; package contexts | `MCDocuments` |
| `Constructs` | construct declarations, tables, types and the construct model, in both languages; the Python classes | `MCDocuments` |
| `Compat` | `diffSemanticContract`, `classify` of compat.rs and of oracle.mjs | `MCDocuments` |
| `Patterns` | parser, lowering and matcher of a pattern, and the Rust reader's syntax check | `MCText` |
| `Scalars` | decimals, integers, bytes, dates, durations and locus paths as each implementation reads them | `MCText` |
| `JsonValue`, `JsonReader` | semantic-ir/src/json.rs and patch.rs, the oracle's patch applier | `MCText` |
| `UnitGraph` | unit_graph.rs and unit-graph.mjs, the component searches, the Rust type graph | `MCText` |
| `TypeScriptNames` | names and surface of a generated TypeScript package | `MCText` |
| `*Proofs` | the theorems | tlapm |

How state and actions correspond to the code, where it is not one to one:

**LiftWriter.** `files` maps names to contents; a content is who wrote it, as
which slot, and whether all of it is there.  `pc[l]` is the place of lift `l`
in `write_lift`; `opened` and `renamed` count the files of its plan that
reached that stage; `owned` holds the names its `Temp` guards will remove.
`OpenTemp`/`FailOpen` are `create_new` and its error, `WriteTemp`/`FailWrite`
the write, `RenameTemp`/`FailRename` `rename_over`, `DropTemp` the guard's
`Drop`.  `Crash` kills a lift at any point, and no guard runs.  The lowering is
a choice of emission; `Fenced` names are those `check_output` refuses.
`Stuck` lifts cannot remove files: `Drop` ignores that error.

**CliWriter.** `dir` maps names to inodes and `store` inodes to contents,
because `writeFileSync` truncates what a name points at: two runs that opened
one temporary name share its inode, and the rename of one moves what the other
is still writing.  `Plan` lists a run's writes in the order of its verb: the
report first, the outputs only when nothing blocks.  `emit-ir` writes in place.

**PackageResolver.** One action per step: read the root, look at each directory
entry, take a package from the worklist, answer one import of it, replace a
selection, report conflicts and cycles.  `constraints`, `selected`, `edges` and
`queue` are the maps and arrays of the code.  A world is a record of what the
directories hold.  Versions come in by `Rank` and `Satisfies`, which the
instances take from `SemVer`.  Cycles are modelled by what they are; the search
for them is `DepthFirst`.

**DepthFirst.** A frame is a call of `visit`, or an element of the explicit
stack of rules.rs: a node and the next of its edges.  The constant `Walkers`
says which of the three behaviours at a back edge are considered: "first", the
first ends the walk; "each", every one is reported; "cycle", each cycle is
reported once, however it was entered.

**Build.** A diagnostic is its place in the sorted report and whether it
blocks.  What inputs give rise to is a choice: each phase or stage finds any
set of the diagnostics it can raise.  `found` remembers all of them, which the
code does not, so that a property can speak of what was found and not of what
was left in a report.  The five backends differ in their stages and in
`Reply`: the Rust backend's `finish` cuts the list first, the others do not.

**Conformance.** A run stages the corpus, starts each adapter in turn, judges
the whole array it prints and removes the directory.  An adapter prints any
array of results or fails.  A world is the registers a run reads, what the
corpus gates find, and which other run there is.

**The lowerings and the readers** are operators: a program, bundle, document or
revision is built by the actions of the MC module, an element at a time, and
`lowered`, `lifted`, `outcome` or `findings` is what the operators make of it.
`TypeRefs` is the exception: its variables are the caches of the Rust reader,
and its actions are the questions asked of them.

## The runs

The pure models share three runs; each family of inputs is an initial state of
its own, and a property speaks of the family it is about.  A property of these
runs is a conjunction of named parts, listed here; each part has a comment of
its own where it is defined.

| run | instance and bounds | property | parts |
|---|---|---|---|
| `text` | JSON texts to 7 tokens, numbers to 6 and strings to 5 characters; patterns to 6 symbols in three families, subjects to 2; scalars to 5 and durations to 6 symbols; ten years around every calendar boundary; patches of 2 operations; graphs of 3 nodes, units and types of 3 declarations, names of 2 definitions | `PatternsMeanTheSame` | `LoweredMatchesEngine`, `NothingSpins`, `ExpressibleCompiles`, `ClassesAreCanonical` |
| | | `ScalarsAgree` | `LocusPathIsPublished`, `LocusLanguagesNest`, `DecimalsAgree`, `DecimalsAreOrdered`, `OperandsAreInstances`, `IntegersAreCanonical`, `BytesHaveOneText`, `DaysAreSuccessive`, `DurationsNest` |
| | | `JsonIsReadAndWritten` | `ReaderIsGrammar`, `SpacesAreSkipped`, `DepthIsNesting`, `LoopsAreStructural`, `DebugIsDerived`, `CanonicalIsTheValue`, `NumbersAreTheGrammar`, `NumberTextIsItsValue`, `StringsAreWellFormed` |
| | | `PatchesAgree` | `PointersSayTheirTokens`, `AppliersAgree`, `AddedIsAddressed`, `MoveKeepsScalars`, `RepeatsChain`, `OwnersAgree` |
| | | `AlgorithmsReturnTheirMeaning` | `ComparesByPrecedence`, `SortsConsistently`, `CaretIsAnInterval`, `ComponentsAreMutualReach`, `ComponentOrderIsDeclared`, `RustTypesAreFinite`, `BoxesCloseCycles`, `NamesAreDeclaredOnce`, `SurfaceIsDeclared` |
| | | `UnitsConvert` | `SpellingIsUnique`, `LowestTermsAccepted`, `UnitReadersAgree`, `AcceptedDimensionsExpand`, `AcceptedUnitsConvert` |
| `documents` | documents of two plain types and a third with one thing of every kind in it; declarations, tables and hierarchies of up to 4 types; two edits of a contract; bundles of two packages | `AcceptedIsSound` | `AcceptedResolves`, `OptionsDoNotNest`, `SpecialMembersAreBare` |
| | | `AcceptedValuesBelong` | `ValuesBelong`, `OneDecimalPolicy` |
| | | `DocumentReadersAgree` | `ReadersAgree`, `OracleAgrees`, `ContextAgrees` |
| | | `DeclarationsAgree` | `DeclarationReadersAgree`, `QualifiedIsReadBack`, `SchemasAgree`, `RulesAreKept`, `KindsAreBound`, `EntriesAgree` |
| | | `SubtypesSubstitute` | `AncestorsAreTheClosure`, `FarthestFirst`, `CyclesAreReported`, `SubtypesSeeMore`, `EveryFieldIsCarried`, `IdentityIsCarried`, `RedefinitionsChain`, `MembershipIsAPartition`, `OrdersAreComplete`, `ValuesAreInstances`, `ClassesAreThere` |
| | | `NarrowingIsSeen` | `NarrowingBreaksWhereWeighed`, `LessEvidenceIsNoRelief`, `RevertIsSeen` |
| | | `ClassifiersClassAlike` | `OneClass`, `PatchesAreUnread` |
| `lowering` | names to 5 characters and every pair of nodes of a small set; TypeSpec programs of 2 declarations; bundles of 3 Markdown documents; a JSON Schema record over every shape of property with what it refers to; all reference graphs of 3 identities, under every order of questions and limits none, 0 and 1 | `IdentitiesAreMintedAlike` | `SlugsAgree`, `MintersAgree`, `MintsApart` |
| | | `ProgramsAreKept` | `WidthsAreKept`, `NothingIsLost`, `RefsResolve`, `OneBoundPerKeyword`, `IdentitiesAreOnce` |
| | | `BundlesAreClosed` | `ClosedWhenWritten`, `MissingIsLegacy`, `IdentitiesOnce`, `OrderFree` |
| | | `AnswersAreFresh` | `KeptIsFresh`, `SpecialsAgree`, `AliasVerdicts`, `PoliciesCrossedByCore` |
| | | `SchemasKeepTheirMeaning` | `NeverLooser`, `NeverTighter`, `CollisionsAreForetold`, `SchemaRefsResolve`, `GivenOrderFree` |
| `lift_write` | two lifts at one pair of paths, apart, sharing the sidecar, or refused by `check_output`; every initial directory; any call of either may fail; one may die and cannot remove files | `TempsAreKept` | `HeldTempsAreOwn`, `NoTempLeft` |
| | | `PairIsKept` | `SidecarComesFirst`, `WrittenPair`, `BlockedKeepsDocument` |
| | | `AtomicFinals`, `EveryLiftEnds` | refinement of `AtomicFiles`; liveness |
| `cli_writes` | three runs of one command in sequence, a generation beside each other verb, two compiles at once; the manifest under the output root, the diagnostics apart from the document and at its path; older files and torn leftovers; one run may fail anywhere, two may be killed | `OutputsAreKept` | `CompletesWhole`, `BlockedKeepsOutputs` |
| | | `AtomicFinals`, `LeftoversHarmless` | refinement of `AtomicFiles`; what dead runs left stops nobody |
| `package_resolver` | root and two identities, two or three versions, five directory entries of any outcome, limit two or three | `SelectionIsSound` | `TypeOK`, `SelectionIsBest`, `ConflictIsReal`, `EdgesAreOfSelection`, `LimitIsReported` |
| | | `SelectionDescends`, `Termination`, `ImplementsContract` | action property; liveness; refinement of `ResolutionContract` |
| `resolve_twice` | every order of directories and of imports, with one version each and with a version that is replaced | `OrderIsImmaterial` | violated: two orders of the root's imports give different verdicts |
| `walks` | every graph of 3 nodes with up to two edges each, to nodes or nowhere; three behaviours | `WalkIsSound` | `TypeOK`, `SilenceIsProof`, `ReportsAreCycles`, `FinishedInOrder`, `SaidOnce` |
| | | `Ends` | liveness |
| `owner_pass` | every bundle of 3 artifacts that name, contain and own one another | `PassIsSound` | `Partition`, `NothingDangles`, `OwnersAreSole`, `RefusalsAreNeeded` |
| | | `Ends` | liveness |
| `build` | four diagnostics, two that block, limits 1, 2 and 4 (0 for compile), two paths inside and one outside, five targets, commands forever | `WritesAreClean` | `DocumentIsClean`, `OnlyCleanWrites`, `StaysInside` |
| | | `ManifestIsTrue` | `TypeOK`, `RefusalIsExplained`, `ManifestIsOnDisk` |
| | | `ExitIsHonestUncut` | an exit of 0 where the Rust backend did not cut its report means that nothing blocked |
| `build_refusal` | the same | `ExitIsHonest` | violated: a Rust generation that found something blocking exits 0 |
| `conformance` | two cases, three adapters, arrays of two answers (three after two right ones), registers, gates, a second run that may be killed | `GreenIsEarned` | `TypeOK`, `RowsAccountForCases`, `GreenMeansAgreed`, `RegisterIsLive` |
| | | `StagingIsWhole`, `EveryRunEnds` | the staged cases stay as long as they are read; liveness |

Why the bounds are enough.  A lift has at most two files and meets another
lift only at a name, so two lifts at one name exercise every pair of steps.
The resolver's interesting case is a selection replaced while the old one is
queued, being walked or done, which needs two versions of one identity and a
second identity to bring the second constraint.  Two orders of blocking and
advisory diagnostics with a cut between them need four diagnostics.  A version
order is decided at the first difference.  A cycle with a shortcut, a diamond
and a back edge to a finished node need three nodes.  A rule of a document
looks at one thing and at what a chain leads to; with three types a chain has a
middle, which is where a cached answer or a missed alias shows.  A pattern of
six symbols holds every pair of nested quantifiers; `NothingSpins` uses the
step bound 1000 where the code has a much larger one, and is the stronger for
it.  Two edits of a contract are one edit that hides another.  A property of a
frontend speaks of one declaration and what it refers to: two declarations, or
three Markdown documents, hold every such pair and one bystander.

Integers: `UnitGraph` keeps the width of the code's i128 with `Width` = 4 bits,
so that overflow is met by small numbers; `Scalars` and `Compat` (`Safe` = 2)
scale the safe integers of JavaScript the same way.

Deadlock checking is off where the system really stops: each lift, each run of
the command, each harness run and each resolution happens once, and a text, a
document or a program of full length is not continued.  `Build` never stops and
is checked for deadlock.

### Fairness

`LiftWriter` assumes weak fairness of each live lift: a process that has not
been killed is eventually scheduled, and its calls return.  It assumes nothing
of a lift in `Crashes`, which may die at any moment, and no order between
lifts.  `Conformance` assumes the same of a run that is not killed, and that an
adapter ends: the harness itself waits for it without a limit.
`PackageResolver`, `DepthFirst` and `OwnerPass` assume weak fairness of their
next step, as one synchronous call is never left in the middle.  The other runs
have no liveness property and state no fairness.

### Limits of what is stated

Some properties are stated for less than one might expect, and the reason is in
the code.

* `WrittenPair` lets a blocked lift, or one with another document, replace the
  sidecar of a lift that has reported Written: the document's temporary name
  serializes lifts of one pair only, and a blocked lift does not take it.
* `BlockedKeepsOutputs` lets a blocked run put its report where the caller named
  it: a manifest under the output root, as `Makefile` (line 179) has it, or the
  diagnostics of a compile at `--out`.  FR-071:74 and FR-052 know no such
  exception; `BlockedTouchesNothing` is without it and fails.
* `AtomicFinals` of `CliWriter` leaves out the path of `emit-ir` and runs that
  share an output at the same time.
* `NothingDangles` of the owner pass lets the owner of one kind of construct
  dangle: the owner is optional and was refused in a later round than the one
  that assigned it.  `OwnersAreKept` is without the exception and fails.
* `NarrowingBreaksWhereWeighed` says which changes of a bound the compiler does
  not weigh as narrowing: one of the keyword alone, and a bound taken away.
* `OneClass` says for which differences the three classifiers agree, and that an
  edit of any other kind divides them; `PatchesAreUnread` says what each passes.
* `MintersAgree` and `NamesAreDeclaredOnce` say in the same way where two
  frontends part, and which names a written package exports twice.
* `NeverLooser` and `NeverTighter` speak of schemas all of whose keywords one
  row of the lowering reads; the next section lists the others.
* `AppliersAgree` leaves out a `test` of `null` and a document with repeated
  members; `PoliciesCrossedByCore` leaves out constructs of the alias shape.

## Disagreements

Where a sentence of the repository and its code part, or two implementations of
one rule do, the models say how.  Two are kept as runs.  In `build_refusal`,
`finish` in rust-serde/crate.mjs asks a report it has already cut whether
anything blocks, and `generate` exits 0.  In `resolve_twice`, a version that was
selected, walked and then replaced leaves its constraints recorded and its
imports looked for, so that the order of the root's imports decides whether the
package resolves at all; FR-047:89 says that it shall not.  The following
definitions are kept beside the properties and each fails in the model; put one
in the place of the properties of its configuration to see the trace.

| definition | what the trace shows |
|---|---|
| `CliWriter!NeverTorn` | two compiles with one `--out`: the temporary name of `writeAtomic` is fixed and opened with truncation (cli.mjs:159), so half a document can stand at the output path |
| `CliWriter!BlockedTouchesNothing` | a blocked generation whose manifest lies under the output root writes it there (cli.mjs:433, Makefile:179, against FR-071:74), and a blocked compile its diagnostics at `--out` |
| `LiftWriter!WritesBoth` | `--diagnostics <out>.tmp`: `check_output` compares final paths and not temporary ones (write.rs:157), and Written is reported with the sidecar's bytes at the document's path |
| `LiftWriter!RefusedWroteNothing` | the second rename fails (write.rs:258) after the sidecar was replaced |
| `PackageResolver!RootStays` | something imports the root's identity; the root is not a candidate (resolve.mjs:414), and a dependency replaces it |
| `Conformance!StagingIsRemoved` | a case that cannot be staged stops a run outside the block that cleans up (differential.mjs:157) |
| `OwnerPass!OwnersAreKept` | a construct that may do without an owner is given one, the owner is refused a round later, and the construct is emitted with it (constructs.rs:1477 assigns, the loop at 1277 takes nothing back; against the comment at 1268 and FR-143:106) |
| `MCText!ExportsAreApart` | a type named like a validator, a derived name or a name of the fixed surface outside `RESERVED_NAMES` is written, and the barrel exports the name twice (package-layout.mjs:357) |
| `MCText!DerivedNamesRefused` | two types whose derived TypeScript names (`State`, `Equals`) meet are generated without a diagnostic (model.mjs:590, FR-064:90) |
| `MCText!UnresolvableTestThrows` | the oracle's `test` of `null` passes where nothing is (oracle/json.mjs:241) |
| `MCLowering!CollisionsAreRefused` | two TypeSpec declarations that mint one identity are lowered, the later one silently over the earlier (lower.mjs:688) |
| `MCDocuments!NarrowingBreaks` | a bound that changes its keyword and keeps its operand (`min` 0 to `exclusiveMin` 0, diff.mjs:1020), or a bound taken away from an integer that stays wide, which has the safe end for it then, excludes integers without breaking (FR-051:66) |
| `MCDocuments!ClassesLinearise` | bases of an abstract Python class are sorted by identity, and Python cannot order the class (runner/constructs.py:962) |
| `TypeRefs!PoliciesCrossed` | two decimal policies across a construct of the alias shape: one reader refuses, the other accepts |

Differences the models keep, as each implementation has them; no property says
that these are alike.

* *Reading a document.* An unresolved `appliesTo` and two policies across a
  construct alias are refused by one reader only.  Dangling targets of aliases,
  sequences, maps, variants and positions, cycles of aliases, repeated field
  names and repeated identities are found by the Rust reader and the oracle and
  not by `reader.mjs`.  `enumValues` and defaults of booleans are unchecked in
  Rust; an integer outside i128 has one code in Rust and another elsewhere; a
  null default of a member that is not nullable is accepted by the oracle.  The
  oracle knows no clock, unit, option, construct or field as a subject.
* *Answers kept along references* are not right under every limit: an alias
  whose chain ends at a native scalar is not refused for its depth
  (rules.rs:27-31), and `AliasVerdicts` says so.
* *Identities.* TypeSpec mints `A-B` for a type `A_B`, Markdown `A_B`; the
  members, which both call `A_B/...`, are then not under their type in TypeSpec,
  although contracts-v1.md:138 says that a member's identity starts with its
  owner's.  A constraint of a type itself has the slot `constraint/A-min` in
  TypeSpec and `constraint/A/min` in Markdown and in contracts-v1.md.
* *Text.* The Rust reader admits `1.` and `-0.` as decimals (rules.rs:2033-2053)
  and `[b-a]`, `a{3,1}` and `{2}` as patterns, which JavaScript refuses.
  Generated TypeScript admits non-zero padding bits of Base64, a sign before a
  duration and a date 2021-99-99; generated Rust admits none of these, and
  fractions on any component of a duration where TypeScript has them on seconds
  only.  `ScalarsAgree` says of each text who reads it.
* *Patches.* JavaScript takes `""`, `-0` and `1.0` for indexes, the bound 512 of
  `x-repeat` is Rust's only, and removing a repeated member uncovers the earlier
  one in Rust.
* *Revisions.* A new constraint is breaking to the compiler and conditional to
  the Rust reader and the oracle; one taken away is conditional to the compiler
  and additive to the two.  The name of a field is compared by Rust only; the
  keyword of a bound that keeps its operand is compared by Rust only.
  Supertypes, abstraction, the presence of a field (beside its multiplicity)
  and the constraints of a field are not read by the Rust classifier; the oracle
  calls the first two and the last unknown, and does not read the presence.  A field retyped to an equivalent type
  is a patch to the oracle, calls from preserve to surface are conditional to it
  and breaking to Rust, and it passes over a removed variant, a variant's
  payload, an upper bound and an order.
* *Lowering TypeSpec.* Two namespaces that declare one name, and a declaration
  named as a built-in, decide by the order they come in; `mintIdentity` throws a
  TypeError on a name seam.mjs:8 promises a diagnostic for; a null in an
  operation's return and an unresolved return are dropped.
* *Lowering Markdown.* An artifact with two owners is refused although one of
  them goes in the same round; an unnamed row, a duplicate and a row beyond a
  limit are skipped without joining `lowered_to_nothing`.
* *Lowering JSON Schema.* The suffix of FR-083 for colliding names and the
  reuse of equal types are not there: `mint.mjs` foretells collisions, and the
  lowering does not ask.  Types stay in the order of the files, since the sort
  compares a name that is never set.  Keywords beside `$ref`, `anyOf`, `enum`
  and an integer, `$defs` and an undeclared name in `required` are passed over
  unsaid although FR-082 says "never a silent drop"; `unevaluatedProperties:
  {not: null}` seals a document; an optional array with `minItems` becomes one
  that must be there.  FR-082's limits on nodes and depth are not applied.

## The proofs

| theorem | statement | from |
|---|---|---|
| `PackageResolverProofs!SelectionHolds` | `Spec => []SelectionIsSound`, by `TypeCorrect`, `SelectsBest`, `ConflictsAreReal`, `EdgesAreTheSelection`, `LimitsAreReported` | any `Rank` and `Satisfies`, any worlds |
| `PackageResolverProofs!SelectionOnlyDescends` | `Spec => SelectionDescends` | the same |
| `PackageResolverProofs!Refines` | `Spec => ImplementsContract`: each step is a stutter, a refusal or a delivery of `ResolutionContract` | the same, any limits |
| `DepthFirstProofs!WalkHolds` | `Spec => []WalkIsSound`, by `TypesHold`, `SilenceProvesAcyclic`, `ReportedCyclesExist`, `NodesFinishInOrder`, `CyclesAreSaidOnce` | any number of nodes, any graphs |
| `OwnerPassProofs!PassHolds` | `Spec => []PassIsSound`, by `PartitionHolds`, `KeptIsClosed`, `SoleOwner`, `RefusedWithCause` | any bundles |
| `LiftWriterProofs!TempsHold` | `Spec => []TempsAreKept`, by `TempsAreOwn`, `NoneLeft` | `Unaliased` where the part asks for it |
| `LiftWriterProofs!PairHolds` | `Spec => PairIsKept`, from `PairsKept` | `Unaliased` |
| `LiftWriterProofs!Refines` | the protocol implements `AtomicFiles` | `Unaliased` |
| `CliWriterProofs!Refines` | the command implements `AtomicFiles` where runs are separate | `Unaliased` |
| `CliWriterProofs!LeftoversHold` | `Spec => []LeftoversHarmless`, from `LeavesBehind` | `Unaliased` |
| `CliWriterProofs!CompletesHold`, `OutputsHold` | `Spec => CompletesWhole`, `Spec => OutputsAreKept` | `Unaliased` |
| `BuildProofs!WritesHold` | `Spec => []WritesAreClean` | the constants' assumptions |
| `BuildProofs!ManifestHolds`, `ExitIsHonestWhereUncut` | `Spec => []ManifestIsTrue`, `Spec => []ExitIsHonestUncut` | the same |
| `ConformanceProofs!StagingHolds` | `Spec => []StagingIsWhole` | any runs, adapters, cases and worlds |
| `ConformanceProofs!GreenHolds` | `Spec => []GreenIsEarned`, from `ArrayJudged` | the same; finitely many cases, arrays and lists of diagnostics of any length |
| `TypeRefsProofs!AnswersHold` | `ReferencesSpec => []AnswersAreFresh`, from `WalkLeads`, `ReachIsPassed`, `SpecialStep`, `ResolvedStep`, `PoliciesStep`, `ChainStep` | any documents of finitely many declarations, any depth limits |
| `LiftWriterProofs!TypeCorrect`, `CliWriterProofs!TypeCorrect` | `Spec => []TypeOK` | the constants' assumptions |

`Unaliased` says that no output is spelled like the temporary file of an
output; `WritesBoth` shows what happens without it.  Nothing is assumed of where
a command line names its report: `OutputsHold` covers `make generate-typescript`,
whose manifest lies under the output root, and says that a blocked run changes
of what it must keep only that report, and leaves it whole.

**PackageResolver.** `SelectionIsBest` is not inductive alone: a recorded
constraint is only answered for an identity that has a selection, so
`Consistent` ties the selection, the candidates and the constraints together.
`ConflictIsReal` then follows where conflicts are reported.  That a selection
only moves down the order needs that constraints are only ever added.  For the
edges, `EdgeInv` speaks of each identity: what is last in the queue for it is
its selection (`QueueFor`), and once nothing of it waits, the edges recorded
and the imports still to be read make up the supported imports of that
selection (`EdgesFor`); an entry walked late, after it was replaced, is what
the two together exclude.  `LimitInv` holds because a selection is made by
appending to the queue and the limit is looked at before the next is taken.

The refinement needs more, because the contract speaks of the imports of the
packages delivered and the resolver of the constraints it recorded.  `Settled`
joins them, for as long as nothing was reported: each import of a manifest that
is selected and no longer queued has recorded its constraint or is still
pending (`HeardFor`); whatever is constrained is selected, since the only steps
that record a constraint and choose nothing either report or follow an earlier
choice (`LeaveConflicting`); after the check for conflicts each selection
satisfies all that was recorded on it.  With `EdgeInv` the edges are then
exactly the imports of the graph, so that the check for cycles is one of the
graph delivered, and `DeliveredIsSound` puts the parts together.  Constraints
of a replaced manifest stay recorded; the delivered graph satisfies these too,
which the contract does not ask.

**DepthFirst.** The grey nodes are those of the path, each once, and each frame
but the last was left by the edge to the next one: so a back edge closes a
cycle.  Finished nodes carry a rank, and unless something was reported every
edge of a finished node leads to one of lower rank; in any set of nodes the one
of least rank then has no edge into the set.

**OwnerPass.** The pass is not monotone: an artifact with an owner too many is
refused even if the other owner goes in the same round.  What it keeps is
therefore characterised from both sides, by what has settled when a round
refuses nothing, and by the sets that need nothing outside themselves, of which
no round refuses a member.
`Assigned` ties the owners to the rounds: the first round gives a construct the
only owner the whole bundle has for it, and later rounds find that one or none;
so an owner that is not kept belongs to a construct that may do without.

**LiftWriter.** `IInv` joins the type invariant with four facts about each
lift.  `Ledger` ties the counters to the place in the program.  `Custody` says
that the names a lift holds contain its own files and are held by nobody else:
this is what `create_new` buys.  `Ready` says that what has been written so far
is whole, `Accounted` that a file of a lift under a temporary name is one it
still owns.  The type invariant alone cannot tell whose file a rename moves.
For the pair, `PInv` adds what the order of the two renames leaves behind: a
path holds a file of a lift only once the lift has renamed, from then on its
sidecar path is never empty (`Renamed`), and between its two renames nobody
replaces its sidecar but a blocked lift or one with another document
(`Between`): a lift with the same document would need the temporary name that
this one holds.

**CliWriter.** Names can share a content through an inode, so the invariant
first says they do not: `Linked` and `Fresh`.  `Placed` says where the file of a
run is at each of its steps.  Where runs are separate, `Mine` says that the
file a run is writing or renaming is its own, and `Finals` that the contract's
paths hold whole files.  For sequential runs `OneAtATime` keeps two from being
under way together; for runs apart the paths do.  What a run leaves behind is a
second invariant, `OInv`: an inode being written stands under no name but its
own temporary one and its final path (`Traced`), what a running command has
renamed is still there whole (`Produced`), and a run whose calls do not fail
fails only for what it decided (`Excused`).  `Traced` is what makes opening a
leftover with truncation harmless: the inode it empties is nobody's output.

**Build.** `CompileInv`: a compile before its report has nothing blocking, and
one with a document never has.  `Untouched`: until the backend has answered
nothing is printed or written, and before it answers nothing blocks.
`NoFileToWrite`: once something blocks there is no file in the answer, in the
manifest or left to write; this holds although `ExitIsHonest` does not, because
a refusal hands `finish` no file.  `ReportInv` carries the manifest through the
stages.  A refusal is explained from the moment a backend answers with it: the
Rust backend decides from the report it has already cut, so that a refusal it
does give has kept its reason (`ReplyShape`; that it may not give one is
`build_refusal`).  While files are written the manifest names those on disk and
those still to write, and on every path of a command that found something
blocking and was not cut the exit is not 0 (`Refusing`).

**Conformance.** `StagingIsWhole` speaks of an adapter at work; that its
directory holds what it reads was arranged before it started.  `Staged` says it
by label: while a run stages, what it has not still to write is there, and from
its first adapter on every file is.  That the other runs change none of it
rests on `Directory` naming a directory of its own for each run, and on nothing
else.

`GreenIsEarned` needs to know where a report comes from.  `RunInv` says it of
each run: it has one row for each adapter it is done with (`Placed`), each row
is that of the array printed or of a failure and the problems of both are in
the report (`ToldOf`), and a register row counts as used only if an element of
a printed array shows its difference (`ShownOf`).  What one array is worth is
`ArrayJudged`, and that is an induction along the array: `Accounted` says of
the first `i` elements that what was matched or declared unmet is no more than
the cases answered, that every other element has failed, and that without a
failure every case answered was answered once and well.  `AccountedStep`
carries it over one element, whichever of the eight ways `Judge` takes.  The
induction is a least counterexample (`LeastPosition`, `AlongAnArray`), as
`Judgements` is a function on the positions and the set of positions where
`Accounted` holds needs no operator as a parameter; that such a function exists
is itself proved (`ChainExists`).  From there an exit of 0 means that no row
has a failure and no problem was said, hence that each array is good as a whole.
The hypotheses are those the code has: the corpus is finite, an element has one
of the supports the schema names or is malformed, and a supported one carries a
list of diagnostics.

**TypeRefs.** The invariant `RInv` says of each cache that what it keeps for a
reference is what a walk from that reference would find; asking is then only a
matter of one step.  The work is about walks.  A walk is determined by where it
starts (`OneWalk`): it leads along declarations, passes nothing twice, and ends
where it cannot go on (`WalkLeads`); as declarations are finite it is no longer
than they are many (`WalksAreShort`), which is why the bounded function `Walk`
reaches its end.  What a walk passes is what is reachable (`ReachIsPassed`), and
counting positions is counting nodes (`PassedOnce`): so the properties, stated
by reachability and cardinality, can be read off one walk.

What is kept is kept for everything a walk passed, so the proof needs what a
walk from the middle finds.  Where a walk ends, the walk from a node on it is
the rest of it (`RestOfWalk`).  Where a walk closes on itself that is false
(the walk from a node on the circle goes once around it), and it is replaced by
`Circling`: no walk from a node on it gets out.  `SameEnd` joins the two cases,
and each cache has one lemma built on it: `SpecialFound`, `ChainFound`,
`PoliciesFound`, and for the resolved types two, because a depth limit counts
links from the start of a walk: without a limit the answer is right for all that
was passed (`ResolvedUnlimited`), with one for the start only, which is all the
code keeps then (`ResolvedLimited`, with `LinksAreCounted`).

Two parts carry the hypotheses the properties themselves name.  `KeptIsFresh`
asks that aliases lead to types (`Closed`), as a reader demands of a document it
admits.  `PoliciesCrossedByCore` asks that no construct of the alias shape is on
the way, because the walk that counts policies stops there and the one that
resolves does not; `PoliciesFollowTypes`, that the two walks are one, is
false without it.  The constants' assumptions say that identities are finitely
many and that identities, native scalars, clock and quantity are different
names; nothing is assumed of the shape of a document.

Model-checked only: every liveness property (`EveryLiftEnds`, `EveryRunEnds`,
`Termination`, both `Ends`), which is beyond the prover under fairness; `text`,
`documents` and `lowering` but for its `AnswersAreFresh`, whose operators are
recursive over their data.

## What is not modelled

* The text of generated packages and schemas, the wording of diagnostics, the
  registries of codes, documentation blocks and source spans: data.
* The parsing of Markdown, tables and YAML (extraction-frontend/src/extract.rs)
  and TypeSpec's own compiler: the models start from what they deliver.
* The published kernel (packages/semantic-kernel, semantic-core) and everything
  else generated: outputs of the compiler.
* Reconciliation of imports and exports in the resolver (447-512), and mapping
  and profile documents but for the checks of a package context.
* Units, dimensions and extensions in the classifiers; populations in the
  oracle; construct declarations written in TypeSpec.
* The golden installer (`write_goldens`, `install_golden`): a developer's tool
  whose outputs are under version control.
* Hard links, permissions, disks that lose renamed files after a power cut: the
  code does not call fsync and promises nothing about it.
* What an adapter answers: the harness is modelled for any answer.  (For a
  compatibility case whose prior bundle its schema refuses, the oracle carries
  that bundle's rows, corpus.mjs:125-129, and an adapter those of the later.)
* compiler/host.mjs: read roots and module loads around the file system; its
  `writeFile` has no caller.
* Child processes (formatter, Python producer, adapters): external; the models
  say that they answer or fail.  The harness sets no time limit, so there is
  none to model.
* Package graph projection and canonical form: a sort of the resolution.

## What would come next

1. Import and export reconciliation as further actions of `PackageResolver`.
2. Units, dimensions and extensions in `Compat`.
3. Admission rules of the backends (admit.mjs, mapping.mjs) as operators over
   `IrDocument`, with the property that an admitted document has a rendering.
4. Proofs: a measure on the selections under which every step of the resolver's
   walk descends, which is the part of `Termination` that is not fairness.
