# A TLA+ verification of archlint

archlint decides whether a repository respects a functional-core architecture.
Language adapters read the repository and print *facts*; one evaluator reads the
facts and prints *violations*.  This directory holds TLA+ models of that program,
the TLC runs that check them on small instances, and proofs, checked by TLAPS,
that hold for every instance.

Read `Promises.tla` first: it says what an accepted repository is promised.  Then
`Facts.tla`, `Policy.tla` and `Evaluator.tla`, which are the code, and
`Evaluator_proofs.tla`, which joins the two.  The TypeScript
adapter is the other half: `Discovery.tla` (which files), `TypeScriptAdapter.tla` with
`References.tla` and `Expansion.tla` (references and effects), `Requirements.tla`
(effects in types) and `TypeScriptFacts.tla`, which composes the adapter with the
evaluator and says what an accepted document means for the *program*.

## 1. Inventory of the system

### Components, state, operations

| Component | Source | State | Operations |
|---|---|---|---|
| Evaluator run | `evaluate.py` 140-281: `main`, `evaluate_adapters`, `run_adapter` | the position in the adapter list, the accumulator `violations`, an exception in flight, the exit status | run the next adapter as a child process; fail on a missing option, a bad exit status, bad JSON or a schema error; evaluate one document; report; diagnose |
| Schema and parsing | `fact.schema.json`, `evaluate.py` 284-413 | none | validate a document; derive the fields of each file (`has_property_test`, `operation_sequence_references`, ...) |
| Policy | `evaluate.py` 416-911: `evaluate` and eleven `evaluate_*` functions | none between documents; within one, tables keyed by domain | one rule group per function |
| TypeScript adapter: discovery | `typescript/src/main.ts` (2296 lines): `sourceFiles`, `buildProgram`, `workspacePackageRoots` | the files found, the workspace package roots, calls of two recursions | walk the tree; stop at a relevant diagnostic; expand workspace patterns |
| TypeScript adapter: facts | the rest of `main.ts` | per file: identifiers, API references, a table from function names to *Set objects*; across files: the table of globally unique functions and the local call graph, which *share* those Set objects | parse all files; collect global references; build the local call graph; for each file merge tables, walk again, expand effects to a fixpoint, emit |
| Go adapter | `go/main.go` (1286) | the packages as loaded, with their test variants; one typed context per file path | load packages, collect their errors; choose a context per file; emit facts or violations |
| OCaml adapter | `ocaml/main.ml`, `qualified_reference.ml` (1456) | an index of `.cmt` artifacts by source; owners of compilation units | index the build directory; choose the artifact of each source; resolve owners of references; emit |
| Swift adapter | `swift/Sources/SwiftArchLint/main.swift` (1329) | a temporary index store, child processes and their pipes | build the index, one compiler process per file; query it per reference; emit |
| Metadata tags | a parser in each adapter | none | read `@archlint.module`, `.domain`, `.exempt-reason` from the leading comment |
| Task runner, CI action | `justfile`, `action.yml` | log and status files of the suites | run five suites in parallel and aggregate; install one toolchain, run the evaluator |

### How they interact

The evaluator starts one adapter at a time, waits for it without a timeout, takes
its standard output as one document, validates, evaluates, and only then starts the
next.  Documents are never merged (README "facts are not merged before policy
evaluation").  Inside a document, files are linked by their `@archlint.domain`
string: shells to cores, cores to tests, state modules to state tests and through
them to cores.  Inside an adapter, files are linked by function names and, in the
TypeScript adapter, by Set objects that several files' tables hold at once.

### What is hard, and what makes each part correct

* **Evaluator run.**  Several adapters, each of which may answer, fail, or print what
  the schema refuses; an accumulator; an exception that discards it.  Correct when
  exit status 0 means that *every* adapter answered and *every* document conforms,
  and no violation of any document is lost.
* **Policy.**  Fifty-seven rules in eleven functions, several of which leave early
  (`continue`) when a cheaper violation was reported.  The guarantee a reader cares about (say:
  every callable decision of a core is exercised from generated input in a test
  that really calls it) is the joint work of three functions on the facts of two
  files.  Correct when *no violation* implies the whole chain, and the converse:
  nothing is reported without reason.
* **TypeScript adapter.**  Aliased mutable sets, a walk whose result depends on the
  order of files, two fixpoints, bare names that capture one another.  Correct when a
  file's facts depend only on the file and on what it calls, and effects reach every
  caller.
* **Go adapter.**  Files that belong to several variants of a package.  Correct when
  every file is emitted once, from the context of the production package, and an
  error in any package stops the run.
* **OCaml adapter.**  Stale or doubled build artifacts; names seen through wrappers,
  `open` and aliases.  Correct when a reference is attributed to the module that
  owns it, or to none.
* **Swift adapter.**  Child processes with two pipes and no reader while they run;
  compilers that fail one by one, an index store that may be partial, and an error that
  must still tell why.
* **Task runner.**  Parallel jobs that communicate by files.

The file and line at which each hazard bites is in `PROJECT.json`, with the
properties that would notice it.

## 2. Modules

| Module | Role |
|---|---|
| `Facts` | the fact document, the schema's constraints and every derived field of `parse_source_file` |
| `Policy` | the eleven `evaluate_*` functions.  Each is a record: under the name of a rule, the set of files it reports |
| `Promises` | the abstract side: ten promises about one document, on raw facts; shares no definition with `Facts` or `Policy` |
| `Conformance` | the abstract run: sources answer in any order; *accepted* only if all answered and conform, *rejected* only with a reason |
| `Evaluator` | the run of `evaluate.py`; composes `Policy`; its properties; `Refines` maps it to `Conformance` |
| `MCEvaluator` | families of documents for TLC |
| `Discovery` | which files the TypeScript adapter analyses and which belong to a workspace package |
| `References` | references and tables of the TypeScript adapter |
| `Expansion` | the recursion `expandedApiReferences`, one step per reference, with its call stack |
| `TypeScriptAdapter` | from parsed files to effect marks, evidence, property checks and operation sequences; expands in one step, by the operator `Expansion` is shown to implement |
| `Requirements` | the two recursions over types, `classifiedEffectRequirements`; what they find are the `requirement` effects of `TypeScriptAdapter` |
| `TypeScriptFacts` | every field of the emitted facts; composes `TypeScriptAdapter` with `Policy` |
| `IndexBuild` | the Swift adapter's child processes, their pipes and the index store |
| `TestRunner` | the parallel recipe `just test` |
| `MC...` | documents, tables, programs, types and directory trees for TLC |
| `Evaluator_proofs` | `Evaluate(doc) = {}` if and only if `Conformant(doc)`; the inductive invariant of the run, its consequences and the refinement; that each rule group is local to a domain |
| `References_proofs` | what `Expanded` computes, layer by layer: lemmas for the next two |
| `Expansion_proofs` | the recursion computes a least closed set, and that set is `Expanded` |
| `TypeScriptAdapter_proofs` | type correctness; that the effect marks are a least set; what marks and checks say of the calls that really happen; that the facts are consistent, and what an accepted document says of the program |
| `Discovery_proofs` | what the two walks of `Discovery` find |
| `Requirements_proofs`, `IndexBuild_proofs`, `TestRunner_proofs` | the safety properties of these modules |

`Discovery` and `Requirements` hand their results to `TypeScriptAdapter` as data (which
sources are owned, the field `workspace`, the `requirement` events); they are modules
of their own because their state is gone before the next phase reads the result.

### Correspondence

| `Evaluator` | Code |
|---|---|
| `adapter` | the iterator of `for adapter in adapters` (evaluate.py:186); `AdapterCount + 1` once exhausted |
| `parsed` | the value `run_adapter` returned and `evaluate` has not yet consumed |
| `raised` | an exception between `run_adapter` and the handler in `main` (167) |
| `violations` | the accumulator of `evaluate_adapters` (185) |
| `exit`, `printed` | the value `main` returns and what it printed before |
| `answer` | history only: what each adapter answered; no action reads it |
| `AdapterFails`, `SchemaRefuses`, `RunAdapter` | the three ways out of `run_adapter` |
| `EvaluateDocument` | `violations.extend(evaluate(...))` |
| `Diagnose`, `Report` | the two ways out of `main` |

Reading one document from a file or standard input is the run with one source.

| `TypeScriptAdapter` | Code (`main.ts`) |
|---|---|
| `phase`, `file` | where `main` is (380-391): parsing, the local call graph, the global table, then `sourceFact` per file |
| `heap` | the Set objects; an identity names the file and function that made the Set |
| `tables` | `facts.functionReferences` of each file, from references to Set identities: tables of several files may lead to one Set |
| `globals`, `graph`, `effects` | `uniqueGlobalFunctionReferences`, `localCallGraph.functionReferences`, `.effectfulFunctions` |
| `pos`, `marked`, `evidence`, `checks` | the second walk, `effectfulIdentifiers`, `effectfulReferences`, `propertyChecks` of the file in hand |
| `ParseSourceFacts` | `parseSourceFacts`, with the table entries of `collectTopLevel` |
| `CollectLocalCallGraph` | one file of `collectLocalCallGraph`, with its own two walks and its expansion |
| `MergeTables` | the two loops at the head of `sourceFact` |
| `RecordEffect`, `RecordRunner`, `RecordCheck`, `CollectNodeFactsEnds` | what `collectNodeFacts` meets, in source order |
| `ExpandEffectfulIdentifier`, `EmitFact` | the loop of `expandEffectfulIdentifiers` and its end |
| `OperationSequences` | `operationSequencesForProperty`, inside `RecordCheck` |

`TypeScriptFacts` adds no action: `SourceFact` is the record that `sourceFact` returns,
computed from the source and from what the walk collected, and `Accepted` is the
evaluator's verdict on the document of all of them.

| `Discovery` | Code (`main.ts`) |
|---|---|
| `todo` | the calls of the recursion at hand that are still to be made: a directory, and the segments of a pattern that are left |
| `WalkDirectory` | `walk` in `sourceFiles` (416) |
| `BuildProgram`, `Relevant` | `buildProgram` with `relevantProgramDiagnostics`: the run fails or goes on to the packages |
| `Visit`, `Matched` | `visit` in `expandWorkspacePattern`, with and without segments left |
| `IsWorkspaceSourceFile` | `workspacePackageRootForFile` |

| `Requirements` | Code (`main.ts`) |
|---|---|
| `todo`, `visited` | calls to make and the visited set of the recursion at hand |
| `CollectEffectRequirementTypes` | one call of `collectEffectRequirementTypes` |
| `StartClassifying` | between the two recursions, where the visited set is a new one that holds the type in question |
| `ClassifiedRequirementTypes` | one call of `classifiedRequirementTypes` |

| `IndexBuild` | Code (`main.swift`) |
|---|---|
| `process`, `phase` | which child of `buildIndexStore`, and where `runProcess` is with it: before `run()`, in `waitUntilExit()`, reading standard output, reading standard error |
| `output`, `pipe`, `said` | what the child has to say, what its pipes hold, and what of it reads as text |
| `combined`, `buildOutput`, `report` | `combinedOutput` of `runProcess`, `buildOutput` of `buildIndexStore`, the message of the error that is thrown |
| `ToolFound` | whether what `developerToolPath` returns, the whole of `combinedOutput`, is a path that can be run |
| `Read` | `readDataToEndOfFile` and the decoding of what it returns |
| `Write`, `ChildExits`, `ChildCrashes` | the child, external |

| `TestRunner` | Code (`justfile`) |
|---|---|
| `shell`, `code`, `file` | how far each background subshell is, the exit code of its suite, and its status file |
| `SuiteEnds`, `OpenStatus`, `WriteStatus`, `Killed` | the subshell: the suite, then `echo` into a file that the shell has opened; or a kill at any point |
| `Fork`, `Wait`, `ReadStatus`, `DumpLog`, `Exit` | the three loops of the recipe, the `wait` between and the exit |

In `Expansion` a frame of `stack` is an activation of `expandedApiReferences`: `todo`
is the rest of the Set it iterates over, `expanded` its result.

Abstractions, all on data:

* A document is a set of files with distinct paths.  A path is its rank in sorted
  order, since `evaluate.py` only compares paths.
* Names are values.  `"Module.symbol"` is the pair `<<Module, symbol>>`; the code
  concatenates with a dot, so a symbol that itself contains a dot could coincide
  with another module's, and that coincidence is not modelled.
* A JSON list is the set of its items; every consumer is a `set(...)` or an `any`.
* A violation is a path and the name of a rule; the names listed in the message and
  its wording are left out.
* `ValidDomains` stands for the strings that `DOMAIN_PATTERN` matches.
* A shape error of the JSON (missing key, wrong type) behaves as any other document
  the schema refuses; the documents the schema refuses for a *value* are modelled.

* A source file is what the compiler says of it: module name, effectful imports, the
  calls of each function, and the effects, effect runners and property checks in
  source order, and (for `TypeScriptFacts`) its declarations, imports, tags and
  identifiers with their position.  Syntax is gone, and so are the receivers that the code
  records in front of a call.
* A callee has three names.  The caller's text (`TextOf`) is what bare references,
  identifiers and the keys of expansion are made of; the compiler's symbol (`SymbolName`) is
  the second half of a qualified reference, and is `default` for a default export; tables
  and evidence are kept under the name of the declaration.  A call in the model gives the
  last, and the source record (`aliases`, `defaults`, `renamed`, `quoted`) where the others
  differ.  A file calls one callee by one text, and has no two methods of one name (of which
  the code keeps the later, main.ts:916).
* A call of a function of another file is attributed to it if the file is imported by a
  relative path or belongs to a workspace package (`Resolves`), as in the code; what the
  compiler resolves is an input.
* The sweeps of the effect loop take functions in any order, where the code has
  insertion order; the loop ends when no function is left to mark.
* A recursion that only collects is the set of its calls still to make, taken in any
  order; the code's order is one of these.
* A directory tree has at most one link in a path, wildcards stand for whole names, and
  negated patterns (which the code takes literally) are left out.
* A diagnostic of the compiler is what the code looks at: code 2307 or another, its
  category, whether it has a file, and the module its message names.
* A pipe holds a number of writes, not of bytes; whether they read as text is chosen when
  the child ends, and text of blanks is none.  That a child may spawn a process which keeps
  its pipe open is left out.

A definition named `X_slip` is a plausible programming slip in `X`.  No
specification uses it: it exists so that each property can be seen to fail when the
code it speaks about is wrong (`PROJECT.json`, `mutants`).

## 3. Runs

The runs of the evaluator (`MCEvaluator`) have two well-formed domains (`mail`, `http`).

| Run | Instances | Checks |
|---|---|---|
| `policy` | four families of documents: linkage (a core of 8 shapes, a core of another domain, a shell of 7, a test of 6 and another, each present or absent), state (cores, 7 state modules and tests of 10 traces that lack operations, assertions, their own input, or the right domain), single file (a conforming domain and one file of any module type, unknown and absent ones too, domain, exemption, scope, and one of 6 kinds of effect evidence or 5 of logic), breadth (every subset of two cores and five shells, beside two tests and a value) | nine `Accepted...` promises, `VerdictsAreLocal` |
| `adapters` | three adapters, five documents (two conform, one conforms only together with another, one is refused by the schema), any of them failing | `NothingSkipped`, `AnsweredRunEnds`, `Refines` |
| `expansion` | every table over three helpers (or two) and an external name, three starts: 13056 cases | `ExpansionIsLeastClosed`, `ExpansionIsExpanded`, `ExpansionEnds` |
| `effects` | 6012 programs of three files: functions that call each other across files, recursive ones, effects by global name, summary, import and required type, in functions, constructors and computed methods, effect runners, property checks before and after the runners of their helpers, a function name in two files, a module name of two files, a file that is not imported, imports under another name, default exports, methods with quoted names, the third file under the root or not | `TypeOK`, `MarksAreLeast`, `MarksAreJustified`, `ImportedEffectsAreFound`, `ChecksNameTheirCalls`, `ChecksFollowWalkedHelpers`, `WalksStayAtHome` |
| `conformance` | 331 programs of a core, a shell, a state module and a test, each in variants around an accepted program: what the test really calls, through which helper, with which generators; exported, inert and untested functions; tags missing, doubled or unknown; effects anywhere; helpers and effects imported under another name or as default exports; state modules that use the name of a decision without calling it | `FactsAreConsistent`, four `Accepted...` properties of the program, `SequencesFollowTheirInput`, `EveryFileIsEmitted` |
| `requirements` | 4900 pairs of a program's types and one of them: five types, each made of earlier ones as union, Effect, Layer, alias or stranger, with shared parts | `RequirementsAreFound` |
| `discovery` | 6572 trees of three levels with an ignored directory, links to below and above (followed once or twice), all patterns of two segments and some of three; diagnostics of each kind, alone or with another | `AnalysisIsComplete`, `WorkspaceSourcesAreRecognised`, `DiscoveryEnds` |
| `index_build` | the tool and two compilers, pipes of two writes, output of up to three | `FailuresAreExplained`, `IndexGapsAreFailures`, `BuildEndsIfOutputFits` |
| `test_runner` | three suites, exit codes 0, 1 and 2 | `SuccessIsEarned`, `FailuresAreShown`, `RecipeEnds` |
| `effect_chains`, `shifted_generators`, `unenclosed_requirements` | the programs of `effects` and `conformance`, and some with destructured parameters | one documented claim each, which the code does not keep (section 6) |

What `conformance` shows is the point of the whole: the promises above speak of facts,
the `Accepted...` properties of `TypeScriptFacts` of functions that call functions.  For
example, `AcceptedDecisionsAreCalled` says that in an accepted program each exported
function of a core that is not inert is called, through helpers perhaps, by a property
check of a test of its domain.

**Bounds.**  `DomainLimit` is 3 instead of 16: the rule compares one count with it, and
the `breadth` documents lie on both sides in one domain while the other stays under.
Two domains suffice for leaks between domains, since each rule looks at the domain of
one file and all others look the same to it.  Three adapters give a first, a middle and
a last one; five documents are every verdict, empty and not.  The families vary
the facts that some rule of the group reads and keep the rest as a conforming
project has it.  In the adapter, three files are the one in hand, one it calls, and one
that file calls in turn, before or after it in path order; references of two
hops within a file and two across files are what tells the local call graph, the
global table and the file's own table apart.  In `conformance` each role of the linkage
rules (core, handler, state, test) occurs once and the run varies it; a second core or
test is what `policy` has.  Five types are the least on which both recursions meet a type
twice by different ways.  Three levels of directories leave one name below what a double
wildcard skips.  `MaxOutput` is above `Capacity`, so a child can fill a pipe; with two
compilers there is one that is followed by another and one that is not.  Three suites
have a first, a middle and a last.  The theorems have no bounds.

Some properties of the adapter hold only of programs whose names are distinct
(`DistinctNames`) or whose modules are (`DistinctModules`): the adapter identifies
functions by bare name and files by base name, and credits a namesake (section 6).  The
facts add more uses of names to those of the walk, so `AcceptedStatesFollowTraces` asks for
`DistinctUses`: what is called by the name of a function is that function there, too, and no
type has such a name.  A function that is declared without a body (`declare function`, an
overload) is on the decision surface but in no table; `FunctionsHaveBodies` leaves it out.
Most programs of both runs satisfy these; `MarksAreLeast`, `WalksStayAtHome` and
`FactsAreConsistent` do not need them.

Others are limited by how the code names a callee.  A default export is recorded as `default`
and a quoted method is no identifier, so the effects of such a function do not reach its
callers in other files: `ImportedEffectsAreFound` and `AcceptedPureFilesTouchNoEffects` speak
of functions that are `KnownByName`.  The expansion of helpers goes by the caller's text, so
`ChecksFollowWalkedHelpers` asks that the calls under a check are `ByName`.  That a check or a
mark has *no more* than it should holds under any names (`DistinctNames` asks that no such
text be another function's name).  `FactsAreConsistent` asks that no method has its
name in quotes, since the table of functions holds such a name and the list of identifiers
does not.

The type invariants of `Evaluator`, `IndexBuild` and `TestRunner` are proved (`TypeCorrect`)
rather than run; that of `TypeScriptAdapter`, which says that every table leads to Sets
that exist, is both.

**Deadlock** is not checked: every one of these programs ends.  The one that may hang is
the Swift adapter, and that is what `BuildEndsIfOutputFits` is about: its precondition
(no child has more to say on a pipe than the pipe holds) is what the code needs, because
`runProcess` reads only after the exit (main.swift:553).  Without it, child and adapter
wait for each other.

**Fairness.**  `FairSpec` asks for weak fairness of the evaluator's own steps
(`EvaluateDocument`, `Diagnose`, `Report`): straight-line Python.  Nothing is asked
of adapters: `subprocess.run` has no timeout, so an adapter may be silent for ever,
and `AnsweredRunEnds` only promises an end once the last adapter has answered or
one has failed.  `Expansion`, `TypeScriptAdapter` and `Discovery` are sequential programs: weak
fairness of the next step says no more than that the process goes on.  `TestRunner` asks
it of the recipe and of each subshell (a suite that never ends would keep the recipe
waiting; the code has no timeout), `IndexBuild` of the adapter and of its child, and
neither of kills and crashes.

## 4. Proofs

Assumptions: the absent name is no valid domain, `DomainLimit` is a natural number,
there is at least one source, a document is a finite set.  Of the programs for the
TypeScript adapter: sources and walks are sequences, and at least one file is under the
root; a file has finitely many functions, which have names, and what they call is in a file
of the program or in none; other names are given to functions of other files only; and a
module has a name, so that a reference with
a module is never a bare one.  Of what `TypeScriptFacts` adds to them: a qualified name is
no name of a function, since it has a dot (a method whose quoted name has one is left
out), and the types in a function's signature are
types that the file names.  Of types: they are numbered so that a type is made of earlier ones, which leaves
out type aliases that name themselves.  There is at least one suite and one Swift file,
a pipe holds at least one write, and "no file" and "empty file" are no exit codes.
The tables of `Expansion` are finite.  Of directory trees (`TreesAssumption`): directories
and files are told by their real paths, so that a link is no part of one and what is around
one is a directory; links lead to directories; the sources are looked for in a real
directory; and no pattern has `..`, which could lead out of the repository.  TLC evaluates each assumption on its instance.

**`PolicyDecidesConformance`** (`Evaluator_proofs`).  For each finite document that the
schema accepts, `Evaluate(doc) = {} <=> C!Conformant(doc)`.  One lemma for
each rule group states what it means that the group is silent, as a conjunction
over files (`NoReports` turns a record of rules into its fields).  From left to
right each promise is derived from the groups that carry it; `DecisionsTested`, for
example, needs `CoreModules` (coverage), `FactConsistency` (a covering reference is
really called) and `FileMetadata` (the covering test stands in a test scope).  From
right to left each group is shown silent.  The early exits are where the argument
is delicate: a core reported for one reason is not examined for others, so the
equivalence holds of *no violation at all*, not group by group.

**`LedgerHolds`** (`Evaluator_proofs`).  The promises about an accepted run are not
inductive: nothing in `exit = 0` speaks of the loop.  The inductive invariant is
`IInv == TypeOK /\ Ledger`, whose parts say that sources before `adapter` have
answered with valid documents, that `violations` is exactly the union of their
`Evaluate`, that `parsed` is the current answer, that `raised` stems from it, that
later sources are silent and that the exit status was earned.  From it follow

* `TypeCorrect`, `NothingIsSkipped`,
* `AcceptedRunsKeepPromises`: every promise about every document, through
  `PolicyDecidesConformance`, and from it a theorem for each of the nine `Accepted*`
  properties (`DecisionsAreTested`, `HandlersUseCores`, `StatesAreCovered`,
  `TracesAreInPlace`, `EffectsAreConfined`, `VocabularyIsInert`, `LayersAreRespected`,
  `FilesAreDeclared`, `DomainsAreNarrow`),
* `RunsKeepThePromise`: `Spec => Refines`.  `Running` maps to *pending*, 0 to
  *accepted*, 1 to *rejected*.  `RunAdapter`, `AdapterFails` and `SchemaRefuses` map
  to `Answer`, `Report` to `Accept` or `Reject`, `Diagnose` to `Reject`, and
  `EvaluateDocument` is a stutter.

A consequence worth spelling out: files of type `exempt` contribute to the
implementation surface (evaluate.py:717), but an accepted exempt file has no domain
and an accepted core has one, so that part of the rule never decides an accepted
document.  `LayersRespected` therefore speaks of shells and states only, and is
still equivalent to the rule.

**`LeastClosed`** (`Expansion_proofs`).  That the visited set is shared while results
are not makes the claim delicate: a helper that is skipped because another call has
visited it need not be complete when it is skipped.  The invariant therefore speaks of
everything *under way*: what all calls on the stack have in their results or have yet
to take.  It says that the start is under way; that the references of every visited
helper are (`Entered`); that results were visited (`Visited`); and that every closed
set around the start holds what is under way (`Reached`).  When the stack is empty,
what is under way is the result.

**`RecursionIsExpanded`** (`Expansion_proofs`, from `References_proofs`).  `Expanded` is
defined by layers: what is reached in `k` hops, for as many hops as the table has entries.
That a recursive function of this form exists is itself a lemma (`LayersExist`, on the
theorem's own induction over the naturals).  Every layer lies in every closed set
(`LayersInside`), and a layer that is not closed has entered more functions than there
were layers before it (`LayersEnter`), so the last one is closed (`ExpandedIsLeastClosed`).  `LeastClosed` says the same of the recursion, and there is only
one least closed set.

**`LeastMarks`** (`TypeScriptAdapter_proofs`).  While the loop runs, the marks lie between
the direct marks and every closed set of identifiers (`MarkedInClosedSets`); this is
kept because more marks trigger no fewer functions (`TriggersGrow`) and because tables
and Sets do not change during the loop (`LoopIsStable`).  To start it, the invariant
follows the walk: what is marked at each position is what the events before it mark.
At the end nothing is triggered, so the marks are closed themselves.  `TypeCorrect` is
carried along: it needs that the global table leads to Sets that exist.  What
`Expanded` computes is not used.

**Tables and calls** (`TypeScriptAdapter_proofs`).  Five more properties of `effects` compare
what the adapter records with `CallTable`, the calls that really happen.  The adapter never
sees that table: it sees names, in tables that are merged from three sources, which lead to
Sets that several tables share and that the walk goes on changing.  The inductive invariant
is `TInv`:

* `OwnTables`: which Set each entry of each table leads to, before and after its merge, and
  whose that Set is;
* `FiniteTables`: tables and Sets stay finite, so that `ExpandedIsLeastClosed` applies;
* `SoundTables`: a Set holds no more than references of calls that its function makes;
* `CompleteTables`, `CompleteSets`: a Set holds all calls of its function's body, and of the
  Effects it runs those that were walked;
* `EffectsAreEvidence`: the effect table of the local call graph holds evidence of the
  function under whose name it is kept;

and `Recorded` carries what was true when each check, each mark and each fact was recorded
up to the end, because tables go on changing after that.  `RecordedInvariance` is
`Spec => [](TInv /\ Recorded)`.  From it follow

* `WalksAddAtHome` (`Spec => WalksStayAtHome`): a name of the file's own leads to its own
  Set, since own entries take precedence in the merge;
* `ChecksNameOnlyCalls`: where names are distinct, what the references of called functions
  stand for is closed under the table (`TableFollowsCalls`), so the least closed set stays
  inside it;
* `ChecksFollowHelpers`: the converse, along `CalledByCalled`, as far as the Sets are
  complete;
* `JustifiedMarksOnly`: marks that come from an own function, from the local call graph and
  from the effect table are three cases, each traced to a function that has an effect
  (`LocalMarksHold`, `EffectsAreMarked`);
* `ImportsAreFound`: the entry of an imported function is in the table (`EntryHoldsCalls`)
  and the loop does not settle before its callers are marked (`SettledFindsImports`).  This
  needs distinct modules only: namesakes can add marks and cannot take one away.  The
  qualified reference meets the evidence because the function is known by its name; what
  the caller calls it does not matter.

The attempt to prove these corrected three statements.  `DistinctNames` did not exclude an
effectful name that is also called as something else, nor an effect that stands in a name
which others call; TLC then found both on small programs.  `ImportedEffectsAreFound` and
`AcceptedPureFilesTouchNoEffects` spoke of any effect where the code finds an effectful
global only if it is called (`HasEffect`, section 6).

**What acceptance says of the program** (`TypeScriptAdapter_proofs`).  These theorems join the
adapter with the evaluator, and are what the two are for.  To `TInv /\ Recorded` the
inductive invariant adds `Kept`: the sequences of each recorded check are of inputs that a
generator controls (`Controlled`) and mention what its callback leads to (`Traced`);
evidence stands in named code (`Enclosed`); a file whose effects the walk has met has
evidence (`MetEffects`, `Whole`); and the facts of every file before the one in hand are
emitted (`Finished`), so that the evaluator's silence speaks of all of them
(`DocumentIsWhole`).  `KeptInvariance` is `Spec => [](TInv /\ Recorded /\ Kept)`.

* `SequencesHaveTheirInput` is `Controlled`.
* `ConsistentFacts`: each fact is `Coherent`, field by field (`FactIsCoherent`), and no
  consistency rule reports a coherent file (`CoherentFiles`).
* `ShellsUseACore`: the module name in a qualified reference leads back to one file.
* `PureFilesAreFree`: no rule reports the file, so it has no marks and no evidence; the
  latter leaves no effect in the file (`Whole`), the former no caller of an imported one
  (`FindsImports`, from the proof of `ImportsAreFound`).
* `DecisionsAreCalled` and `StatesFollowTraces`: the evaluator compares texts.  `TextTells`
  says that where names are distinct, a text that is a function's name stands for a call of
  that function; `CreditedIsExercised`, `ReferencedIsCalled` and `SequencedIsTraced` carry a
  name in the facts back to the calls it was made from.

The attempt to prove `StatesFollowTraces` showed the property false as it stood, and TLC
confirmed it on three small programs, now part of `conformance`: the API references of a
state module hold the types it names, the callees of other packages and all that its own
property checks lead to, so the name of a decision can be among them without a call of the
decision in the module's functions.  The property now says `CallsOrChecks`, and asks that
names be distinct in these uses.

**`LocalVerdicts`** (`Evaluator_proofs`).  `Local` says of one rule group that what it
reports of the files of one domain is what it reports of them in the whole document; one
lemma per group shows it.  Groups that report a file for its own facts are local at once.
Those that look at other files of the domain need that a domain within a domain is that
domain (`DomainsNest`).  Two groups report the *first* file of a set, by path, in place of
the file that is at fault: this is local because such a set lies in one domain
(`FirstsAreLocal`) and because a set of paths has a first one (`LeastPath`, from the well-founded
order of the naturals).

**`CompleteAnalysis`, `RecognisedSources`** (`Discovery_proofs`).  `WalkInv`: each call of the
walk still to make is for a directory under the root that nothing ignores, and each source
under the root is found or below such a call (`Due`).  `PatternInv` says the same of the
patterns in both directions.  What is found is matched: the directory of a call takes the
first segments of a pattern (`Takes`), and each step takes the next one or more of a double
wildcard (`TakesOneMore`).  What is matched is found: if the names of a path fall to the
segments of a pattern, there is a call which has as many of both behind it as belong
together (`Parted`), and it makes another such call (`CallsReachFurther`); which of its calls
that is, with a double wildcard, depends on where the next name falls.  No induction over
patterns is needed: the assignment of names to segments is fixed, and the calls move along
it.

**`RequirementsFound`** (`Requirements_proofs`).  Each recursion keeps what it has visited
and what is pending around its start, and closed under parts but for what is pending
(`Collecting`, `Classifying`).  The delicate step is the second recursion, which starts
with the type in question already visited and so would skip it: it never meets it, since
what a type requires, and the parts of that, are made before the type
(`RequirementsAreOlder`, `PartsAreOlder`, `RootIsNotNeeded`).

**`FailuresExplained`, `GapsAreFailures`** (`IndexBuild_proofs`).  `Order`: the adapter reads
only of a child that has exited; `Told`: which texts stem from processes that are over, and
that `buildOutput` and `combined` hold just those which are read; `Found`: no compiler runs
before xcrun has named one; `Outcome`: each process that has ended left records or failed.
`FailuresAreExplained` is part of the invariant, since a failed build does not change.

**`EarnedSuccess`, `ShownFailures`** (`TestRunner_proofs`).  `Files`: a status file holds a
number only once its subshell ended; `Forked`: after the wait no subshell is left that
could write; `Summary`: what the two later loops know of the suites before the current
one.  A suite that was killed leaves no file or an empty one, and `[ "" -eq 0 ]` is false.

**Only model-checked:**

* liveness, out of the prover's reach: `AnsweredRunEnds`, `ExpansionEnds`,
  `EveryFileIsEmitted`, `DiscoveryEnds`, `RecipeEnds`, `BuildEndsIfOutputFits`.

Every invariant and action property of the passing runs has a theorem.

## 5. Not modelled, and why

* Pattern matching on syntax trees and classification by tables of library names: data,
  not behaviour.  They are the inputs of `TypeScriptAdapter` and `TypeScriptFacts`.
* The Go adapter: one pass over what `go/packages` returns.  Its closure over the helpers
  of a property has the shape that `Expansion` proves.  The choice among the variants of a
  package is one test per file.
* The OCaml adapter: one pass over the typed trees that dune left.  The index of build
  artifacts is the part that would earn a model.
* Of the Swift adapter, the queries to the index and the syntax walk.
* The metadata parsers of the Go, OCaml and Swift adapters (that of the TypeScript adapter
  is `Tag` in `TypeScriptFacts`).
* Installing toolchains (`just setup-*`, `action.yml`): what an interrupted installer leaves
  behind is external.

## 6. Where documentation and code differ

A run shows each of these.

* `effect_chains`: typescript/test.sh:159 expects a function to be reported as effectful
  when it calls an effectful helper of another file, and README.md:199 has effectful
  code identified from known libraries.  `main.ts:846` keeps for each
  function of another file only the evidence *inside* it.  In the run's counterexample
  `h` calls the imported `g`, which calls `f` in its own file, which calls `fetch`: `g` is
  kept without evidence, and `h` is not reported.  No renamed import and no default export
  takes part (`PlainImports`).
* `shifted_generators`: README.md:303 says that each operation sequence reports the
  generated input that controls the trace.  `main.ts:1249` numbers inputs by bound name and
  generators by argument, so a destructured first parameter shifts all that follow, and a
  sequence is emitted for an input that no sequence generates.
* `unenclosed_requirements`: README.md:199-200 says that known effectful libraries identify
  effectful code and that it lives in modules that admit effects.  `main.ts:1717` drops a
  required effectful service when no named function, method or top-level variable encloses
  the code, so a core whose constructor requires one is accepted.

Read in the code while modelling, without a run of their own; the models follow the code:

* README.md:322 asks that *every* `propertyChecks[].references` entry appear in
  `apiReferences`; `evaluate.py:343-344` keeps only checks with a used input before
  `evaluate.py:484` compares (`Coherent` in `Promises` says what is promised).
* README.md:322 asks that an operation sequence refer to an input *of the same property
  check*; `evaluate.py:495` pools the inputs of the file.
* README.md:210 says that only `stateTest` modules may emit operation sequences;
  `evaluate.py:701` reports those that have both operations and assertions.
* README.md:199 has effectful code identified from known libraries.  `main.ts:846` keeps the
  effects of functions of other files by what marks them, and an effectful global marks its
  own name: a function that uses `process.env` without calling anything effectful is known
  to use it in its own file, and its callers in other files are not reported.
* typescript/test.sh:159 expects the caller of an effectful function of another file to be
  reported.  `main.ts:1401` refers to it by the name of its symbol, which is `default` for
  `export default function`, and the evidence is kept under the declaration's name
  (`main.ts:2020`): callers of an effectful default export in other files are not reported.
* README.md:303 wants the references of a property check to come from the property and its
  helpers.  `main.ts:1355` takes the text of the call, and the tables are kept by the
  declaration's name: a helper imported as `g as x`, or as a default under another name, is
  not followed.
* README.md:303 wants the references of a property check to come from the property and its
  helpers.  The table of `main.ts:655` knows functions of all files by bare name, so
  `map.k()` is expanded as the function `k` of an unrelated file (`DistinctNames` excludes
  this); and what a helper of a later file runs as an Effect enters its Set after the check
  was expanded (`WalkedBefore` excludes that).
* `main.ts:495-501` looks at the compiler's code 2307 and at errors without a file.  A
  relative import that the compiler reports under another code (2834 or 2835, for a missing
  extension) does not stop the run, and nothing says that the file behind it is not followed.
  No document speaks of these; `AnalysisIsComplete` is limited to what is reported as not
  found.
* `main.swift:528` takes all that `xcrun` prints, on both streams, for the compiler's path: a
  warning beside the path makes the build fail (`ToolFound`), with an error that names both.

## 7. Plan

1. *(done)* Policy and evaluator run: the product's verdict, its proofs, locality.
2. *(done)* The TypeScript adapter: discovery, references and effects, required types, the
   facts, and their composition with the evaluator.
3. *(done)* The Swift adapter's index build, the test recipe.
4. Left: the OCaml adapter's index of artifacts (stale or doubled `.cmt` files) and owner
   resolution; the metadata parsers of four adapters, checked against each other; the
   choice among package variants in the Go adapter.
5. *(done)* That `Expanded` is what the recursion computes, and that it agrees with the real
   calls where names are distinct.
6. *(done)* The invariants of `TypeScriptFacts`, from `RecordedInvariance` and the evaluator's
   rules.
7. *(done)* The invariants of `Discovery`.
