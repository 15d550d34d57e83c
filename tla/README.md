# cdfgg in TLA+

cdfgg turns a C or C++ program into a graph of its control flow and data flow
and colours it with what the program really did. A run of the driver compiles
the source with a clang plugin, which dumps the graph of the module (the
*static* graph) and can insert `printf` calls that log entries, calls and
edges; it runs the instrumented program, merges the log into the graph (the
*dynamic* graph) and renders both.

This directory specifies that program: TLA+ modules translated from the source
under `src/sources` and `src/include`, TLC configurations that check them on
small instances, and TLAPS proofs for the builder, where the ids are made, the
injection, which puts them into the code, the running program, which logs them, the
merge, where the counts are made, and the driver, which passes both around.

Everything a user reads off a dynamic graph depends on one thing: that the ids
in the log are the ids of the graph it is merged into and that each event stands
where it says it does. Four programs have to agree on it (the builder inside
clang, the injection, the running program, the merge tool), in separate
processes, over text files a fifth one (the driver) passes around. No
tests come with the repository. The specification is organised along that chain.

## Inventory

| Component | State | Operations | Speaks to | Hard behaviour |
| :-- | :-- | :-- | :-- | :-- |
| **Graph builder** `ir_graph_builder.cpp` | the four vectors of `ir_graph::Graph`, the maps from LLVM pointers to ids, the lookup maps of `BuildInfo` | five passes over the module, `populateBuildInfo` | called by both passes of the plugin | ids are handed out while the vectors grow; the order of phi blocks, predecessors and successors differs; several successors may be one block |
| **Graph data model** `ir_graph.cpp` | vectors of functions, blocks, nodes, edges; optional fields | add, get by id | everything | an id is an index; a field may be unset |
| **Inject pass** `dynamic_info_pass.cpp` | the module it changes, the list of edges still to be split | entry logs, call logs, collect edges, split and log an edge | builder, LLVM's `SplitEdge` | each split changes the blocks, predecessors and phis the next one looks at |
| **Instrumented program** (what `LoggingEmitter` inserts) | the stacks of its threads, stdout | run | the log file | it may exit, `_exit`, throw, crash or recurse anywhere; it is called back and starts threads; its own text shares stdout with the log |
| **Profile merge** `ir_graph_profile.cpp`, `ir_graph_merge_with_profile.cpp` | three count maps, the counts of the graph in memory, the output file | parse a line, initialize, apply three maps, write | reads the JSON and the log | hash-map order; an error found when half of the counts is applied; a graph merged before; ids at the size of a vector |
| **Dump pass, registration** `static_info_pass.cpp`, `pass_api.cpp` | dump files | dump or instrument before or after optimization | driver through clang options | a dump that cannot be opened does not fail the compilation |
| **Driver** `cdfgg.py` | options, `RunArtifacts`, the files of one optimization level after another | compile, run, merge, copy, render, clean up | every tool, through files and exit codes | any step may fail or be interrupted, or leave half a file and not notice; the clean-up may fail as well; leftovers of earlier runs; options that switch on others |
| **ir_graph_to_dot** | none | JSON to DOT | driver | its write is not checked |
| **JSON serialization** `ir_graph_serde.cpp` | none | graph to JSON and back | plugin, tools | a value, `null` and a missing key must survive two round trips; 0 is not "none" |
| **DOT renderer** `ir_graph_to_dot.cpp` | text | nested clusters, labels with counts, heat colours | – | regrouping by ids through hash maps; division by the logarithm of the hottest count; rounding |
| **Build files** | – | – | – | – |

What makes each component correct:

- *Builder*: ids are positions; every edge, call and use of the module is in the
  graph once; the lookup maps lead to the right edge.
- *Injection*: the module does what it did, and each path logs what it passes,
  once.
- *Program and log*: at any moment the log is what has happened, give or take
  the one event in progress; the log of a program that exited fits its graph.
- *Merge*: an output file holds exactly the counts of the log; a log that does
  not fit gives none.
- *Files and picture*: what a tool reads is what the one before wrote; every node,
  block and edge is drawn once, where it belongs, with the count of the run.
- *Driver*: what was asked for is delivered and genuine; a failed level leaves
  nothing of its own that its clean-up could remove, and destroys nothing else.

The hazards behind these, each with its source line and the properties aimed at
it, are under `hazards` in `PROJECT.json`.

## Modules

```
ProfileData ─ ProfileMerge ─ ProfileMergeProofs (TLAPS)
     │             ├ implements ── MergeContract
     │             └ MCProfileMerge
     └───────────────────────────────────┐
IrGraph ──┐                              │
LlvmModule ─ IrGraphBuilder ─ InjectPass ─ InstrumentedProgram ─ implements ─ Program
                 │               │                │
                 ├ MCIrGraphBuilder  MCInjectPass  MCInstrumentedProgram   (all with MCModules)
                 ├ IrGraphBuilderProofs   (TLAPS, with SequenceFacts)
                 │               └ InjectPassProofs (TLAPS)
                 │                                └ InstrumentedProgramProofs ─ LogCountProofs ─ ProfileProofs
                                                  │
IrGraph ─ IrGraphSerde, DotRenderer ───────── DynamicGraph ─ MCDynamicGraph

DriverOptions ─ CdfggDriver ─ MCCdfggDriver
                     └ CdfggDriverProofs   (TLAPS, with SequenceFacts)
```

### The merge

`ProfileData` holds what the log, the graph and the merge share: entities
`<<map, id>>`, log lines, `InitialCounts` (`initializeProfileFields`), and two
definitions at once of what the merge should do, `Acceptable` and `Merged`.

`ProfileMerge` is one run of `main`. `pc` is the position in `main`; `ParseLine`
is one round of the line loop, with `RuntimeProfile`'s three maps as one
function `profile`; `ApplyRuntimeProfile(x)` one round of one of the three
apply loops. The loops run over `unordered_map`s, so the entries of a map are
taken in any order, and the counts already applied are visible state when a
later entry throws. `FileFailure` is any of the stream and JSON errors.
`WriteOutput` may leave a truncated file and still end in `ok`, as the code
does not look at the stream after the write. A line is kept as its event and the
id of the field that is counted; the digits, the order of the fields, and the
fields that are parsed but not counted are abstracted into "event" or
"malformed". Counts are natural numbers: `std::uint64_t` does not overflow in a
log that fits a disk.

`MergeContract` is the tool as one atomic step: success with `Merged`, or
failure with nothing written.

### The graph

`IrGraph` is `ir_graph::Graph`: four vectors of elements with all the fields of
the source and their initializers. `Function(fields)` and its kin are a new element
and a chain of setters: what is not set keeps its initializer. A text is the pair
of what it names and, in the pictures, its count.

`LlvmModule` is the part of an `llvm::Module` that the plugin reads: blocks in
module order, instructions by class, operands by kind, successors, phi blocks. It
is external, and `WellFormed` is what LLVM's verifier guarantees of it. Note
that predecessors and use lists have one entry *per edge* and *per operand*, as
in LLVM; the builder depends on it.

`IrGraphBuilder` is `IrGraphBuilder::build`. Each action is one round of the
outer loop of a pass: a function with its blocks, a block with its nodes, a
block's sequence edges, a block's incoming control-flow edges, an instruction's
data flow and call edge, an edge entered into the lookup maps. `Emplace` keeps the
first entry, as `unordered_map::emplace` does. `ProcessedCall == FALSE` is the
by-value parameter of `registerInstrUsersDataFlowEdges`. The order of LLVM's use
list is fixed to module order: no property depends on it.

### The instrumented program

`InjectPass` continues the builder with `injectLogging`. The changed module is
`code`, a sequence of items per block (an original instruction, a log, a goto),
and `succs`. `InjectControlFlowEdgeLog` is one round of
`injectControlFlowEdgeLogs`; the effect of `llvm::SplitEdge` is modelled from its
contract: a critical edge or the only edge into its target gets a block before
the target, which in the second case takes the target's phis with it, otherwise
the source's terminator moves to a new block.

A module that defines `printf` itself gets calls of a function with a body. The pass
for calls looks at every call in the block, those of the logs included: it asks for the
node of one (`NodeIdOf`), finds none and throws (`AbortInjection`).

`Program` is how a module without logs runs: threads with their frames, branches,
calls through a name or a pointer, external functions that return, call back a
function they were given, start a thread with it, exit, leave by `_exit`, or throw
to the nearest `invoke` of their thread; crashes. It counts what happens:
`entered`, `taken`, `called`.

`InstrumentedProgram` runs the code `InjectPass` has made, counts the same
things as a history and writes `stdout`. `printf` locks its stream, so a log is one
step, but a thread may stop between a log and what it announces. The program's own
text goes to the same stream (`WriteText`): a whole line, or an open one that hides
the prefix of the event printed next. `Quit` is `_exit(0)`: what is still in the
buffer is lost from some byte on. `CutLine` gives what the parser can find in a
line of which only the beginning is there: text, a malformed event, or an event
whose id has lost its last digits. The merge is `Merged` of `ProfileData`, which
the proofs show to be what `ProfileMerge` writes; so the properties here speak of
the counts at the end of the whole chain.

### Files and pictures

`IrGraphSerde` is `to_json` and `from_json`: an object is a function from keys to
values, and a missing key, `null`, 0 and a value are told apart, as in
`optionalValue` and `json::value`. `DotRenderer` is `renderDotGraph`: clusters of
functions with clusters of blocks with nodes, edges between names, labels, and the fill colour
of a block computed in integers over a table `Log1p` of thousandths of logarithms,
where the code computes in doubles: a colour between the two ends may differ in its
last bit, and the properties speak of the ends and of the order only.

`DynamicGraph` composes them with all before: `Dump`, `Execute`, `MergeProfile`
and `Draw` are the plugin, the program and the two tools, which have nothing but
files in common. `FileAssumption` says what makes null and a missing value
unambiguous there: an absent count is the absent value of a field, and no text is `null`.

### The driver

`DriverOptions` is `build_behavior` and the order of `main`'s loop body: an
option record gives the sequence of steps (`Plan == Preparation \o Work`), each with
the files it reads and writes. `CdfggDriver` carries out the plans of the
optimization levels. A file's content says whether this run wrote it, whether it is
complete, and which module its ids are those of: clang's pipeline dumps and
instruments at two points (`pass_api.cpp`), and merging a log with the wrong graph
gives "mismatch". Any step may `Raise`, before it wrote something, after, or half way
(`Midway`): a removal of several files stops at the first that cannot be removed, and
`RemovedFirst` is a constant with the sets it may have come to. The `except` clause then
goes by steps of its own: with `--debug` the run is over; otherwise the status is
"failing" until tmp is removed (`RemoveFailedTmp`), "unlinking" until the copies are
(`UnlinkCopies`), and then "error". Each of the two may raise itself: nobody catches
that, and the run ends "broken off" with what is left (`CleanupBreaksOff`). A tmp whose
removal made the step fail may so fail the clean-up too, before a copy is unlinked.
`Interrupt` is Ctrl-C or a kill during a step, which no handler catches; during the
clean-up it does the same as an exception. A dump that cannot be
opened (`DumpFaults`) and a tool that does not notice that its write failed
(`ToolFaults`) are steps that work: their half files travel down the plan until a
tool reads one (`Readable`) or they are copied out. A log is always whole
here, because a program that fails ends the level (`run_instrumented_program`): the merge
would take a part of one for the whole, which is what the mutated form of
`CopiedOutputsAreGenuine` lets happen.

## Runs

| Run | Question | Bounds | Distinct states |
| :-- | :-- | :-- | --: |
| `profile_merge` | Are the counts exact or is there no file? Does the tool implement its contract, and does it get an acceptable log applied? | every log of at most 4 lines over 8 kinds of line, 2 graphs, fresh or used JSON, all faults | 156 336 |
| `inject_pass` | Is the graph complete and consistent? Is the code preserved and logged right? | every graph of 3 blocks over `ret`, `br`, `switch` with each set of phis, a module of calls, two modules with a `printf` | 79 419 |
| `instrumented_program` | Is the dynamic graph what the program did? Does the program do what it did? | 2 more block entries than blocks, up to 3 threads, text in whole lines, up to 2 lines lost by `_exit` | 139 644 |
| `dynamic_graph` | Do the pictures say what the program did? | loops, parallel edges, calls, callbacks, eleven blocks; 4 more block entries than blocks | 4 895 |
| `driver` | Is what was asked for delivered, and nothing else left or lost? | every pair of emitting options, stages, levels, keep/delete options; leftovers; a failure of any step | 276 769 |

Why the bounds are enough. *Merge*: two events of one key, an unknown id at the
size of a vector, an edge of the wrong kind, a declaration and a bad line before
and after good ones all fit in 4 lines; the proofs below have no bound at all.
*Builder and injection*: with three blocks there are loops on one block and on two,
critical edges, several edges between the same two blocks by `br` and by
`switch`, blocks with one and with several predecessors in every order of
processing, phis whose order differs from the predecessors', and unreachable
blocks. The module of calls adds recursion, a call of a function defined later, a
declaration, a call through a pointer, an `invoke` with its landing pad and a
block with two calls of one function. *Program*: a bound on block entries relative to
the number of blocks goes round each loop twice and recurses twice; one module has
eleven blocks, so that an id has two digits to lose; one hands a function to an
external one, which calls it back or starts threads with it. *Pictures*: the same
shapes, with counts 0, 1 and more, longer loops and one thread, as threads change the order
of the log only. *Driver*: any two emitting options together with each default
they imply, one level, a repeated one and two different ones; a fault may fall on
any step of any of them, and the merge and the renderer may cut their output short.
A removal that breaks off has removed nothing (what fails at once), or all that is not
of the stage after; so files of each kind are left behind by some of them, and some are not.
`DumpFaults` is restricted to the base compilation, the
only one whose dumps are read afterwards.

Deadlock is not checked: each of these systems ends (the tool exits, the build is
done, the program dies or reaches the bound). Symmetry is not used: ids are
positions, so they are not interchangeable.

Every property of these runs has a mutated form of a definition in
`PROJECT.json` (a missing guard, a swapped order, a forgotten reset) under which
TLC finds it violated.

### What the properties say

- `OutputIsMerge`, `NoOutputUnlessAcceptable`, `ImplementsContract`: whatever
  the order of the maps, the counts already in the JSON and the moment of a
  fault, an output has for each entity the number of its events, and a log that
  is empty, has a bad line or is foreign to the graph leads to no file.
- `AcceptableLogIsApplied`: once its files are loaded, the tool gets every
  acceptable log as far as the output. It is checked under `FairSpec`, whose
  `WF(Next)` is the fairness of a sequential process that waits for nobody;
  faults are then possible only at the two ends, where the files are opened.
- `IdsArePositions`, `CrossReferences`: during the whole build each id is its
  element's index, and block, function and node references agree.
- `ControlFlowComplete`, `CallEdgesComplete`, `DataFlowComplete`: the graph has
  every edge of the module as often as the module does.
- `LookupFindsFirstSuccessor`: of several successors that are one block the
  lookup map knows the first only. It is the exact statement of what the log
  can name.
- `LogsLogNothing`: what stands behind a call log is the call of the original code
  that its edge is of, from the pass for calls on and through all splits. A call that
  has been inserted is never logged, also where its callee is a function with a body.
- `GraphOnlyGrows`: no round takes out or moves an element or changes any field of one,
  but that a function or block without an entry node gets one. That vectors
  reallocate, and a reference into them dangles, is not in the model.
- `CodePreserved`, `EdgesLoggedOnce`, `EntriesAndCallsLoggedOnce`: at every
  moment of the injection each original edge leads through the instructions it
  led through, no log precedes a phi, and at the end each path logs what it
  passes exactly once.
- `RunsLikeTheProgram`: the instrumented program implements `Program`; logs and
  gotos are stuttering steps.
- `ExactProfile`: when the program has exited and its other threads have ended, the
  merged counts are the entries, calls and edges it really made; for pairs of blocks
  with an edge that is not logged they are never too high.
- `LogKeepsPace`: also in the middle, and at a crash, the log is at most one event
  per thread off, and each kind in one direction. `LogBelongsToGraph`: the merge
  can take it.
- `CutLogCountsLittleTooMuch`: a program that leaves by `_exit(0)` may lose counts,
  but a log cut in the middle of an id adds at most one event per thread that did
  not happen.
- `GraphSurvivesFiles`: what is read back from each JSON is the graph in memory,
  absent values and zeros included.
- `PictureIsWhole`: every function, block and node is drawn once, in its place, and
  every edge once, between drawn nodes. `PictureTellsTheRun`: the labels of the
  dynamic picture are the counts of the run, the static one has none.
  `HeatTellsTheRun`: colours are in the order of the counts, cold means 0 and hot
  the maximum.
- `FinishedLevelsDelivered`, `CopiedOutputsAreGenuine`, `NothingLeftBehind`,
  `OldArtifactsSurvive`: what a level was asked for is there once it is
  finished and stays there; what has been copied out was made by this run, with
  counts from a whole log of the same module; a failing level leaves nothing of its own
  unless `--debug`, a good one no tmp unless `--keep-tmp`; and artifacts of earlier
  runs are not removed, but for the tmp of the level at work and the binary of
  `--delete-bins`. Where the clean-up breaks off, what it leaves is in tmp or is a copy
  it knows of, and as long as a file of tmp is left no copy has been unlinked.
- `DrawnGraphsAreWhole`: half a JSON or DOT can be delivered only where no tool had
  to read it: at the end of a good level everything behind a delivered SVG is whole.
- `DriverInvariant`: why no stale file is delivered, the inductive part of
  `CopiedOutputsAreGenuine`.

## Where the code and its documents differ

Each of these is a run that TLC ends with a counterexample.

| Run | What the code does | What is said |
| :-- | :-- | :-- |
| `duplicate_successor` | `findSuccessorIndex` gives parallel edges one index, so a block reached by two cases of a `switch` is counted for one of them only | README: how many times each CFG edge was taken |
| `invoke_edge` | edges of an `invoke` are drawn and never logged | the same |
| `open_line` | an event printed in the middle of a line of the program's text is lost without an error | the same |
| `hidden_call_target` | `processed_call` is passed by value, so a call with a call edge still shows its callee as an operand | the name and test of `is_hidden_call_target` |
| `full_with_output` | `--full -o x.svg` renders the dynamic SVG of the stage before and saves it nowhere | README: `--full` saves all main artifacts for before and after |
| `emit_ll` | `--emit-ll` saves the stages of the requested graphs, by default (no stage given) `after_opt.ll` alone | README: it saves `before_opt.ll` and `after_opt.ll` |
| `partial_copy` | a copy that breaks off leaves its part, as the destination is noted only afterwards | help of `--debug`: that option is what keeps partial artifacts |

## Proofs

### The merge

`ProfileMergeProofs` proves for all sets of graphs and logs, all prior counts
and all faults:

- `InvariantHolds`: `InductiveInvariant` is invariant.
- `TypeCorrect`: the type invariant follows.
- `OutputCorrect`, `OutputOnlyWhenAcceptable`: the two safety properties.
- `MergeImplementsContract`: the tool implements `MergeContract`.

They rest on `InputAssumption` (graphs, logs and prior counts have their types) and
`NoCountAssumption` (no count is not a number), both evaluated by TLC.

The output's correctness is not inductive: nothing in it says what the maps hold
before the end. The strengthening says what each variable mirrors.
`ParsedPrefix`: the keys of `profile` are those of the first `pos` lines, each
with its number of hits, and none of those lines was bad. `AppliedPart`: the counts
are those of the entries taken, and the initial fields elsewhere; each entry taken
passed its check. `PassedStages`: behind each position of `main` lie all lines, at
least one event, and all entries of the maps before it. The step that needs work is
`ParseLine`: one more line adds one to the hits of exactly one key
(`HitsStep`, from the cardinality theorems). `OkMeansMerged` then shows that at
the end nothing is pending, so the counts are `Merged` and the log was
`Acceptable`; the refinement maps `WriteOutput` to `Succeed`, each throw to
`Fail`, and all else to stuttering.

### The driver

`CdfggDriverProofs` proves for all sets of command lines, all leftovers and all
faults that `DriverAssumption` admits:

- `InvariantHolds`: `DriverInvariant` is invariant.
- `CopiesAreGenuine`: `CopiedOutputsAreGenuine`, if no copy breaks off half way
  (with one, the `partial_copy` run shows it fail).
- `EarlierArtifactsSurvive`: `OldArtifactsSurvive`, without any condition, wherever a
  step or the clean-up breaks off.

That a copy is genuine follows from what it is a copy of, and that from the step that
wrote it, back to the reset of tmp; so the invariant has to know which steps can
still be to come. Its first half: the rest of the plan is a sequence over
`WorkSteps`, the steps with the paths that the driver ever combines, perhaps
behind what is left of `Preparation`. `WorkType` shows this of the plan of every
command line, option by option, from `FlattenOne`, `FlattenTwo` (the stages of a list
are never more than two) and `EmittedType`. Its second half: before the reset
nothing has been copied, and after it everything in tmp is `Genuine`: of this run,
with the ids its place calls for. Each kind of step then keeps it: a compilation by
`CompiledIsGenuine`, a tool because all of its inputs have the ids of one stage
(`OutputOfAlike`), a copy because its source and its destination call for the same ids
(`PlacesOfTmp`, `DeliveryIntro`). There is one lemma per action, and
`StepInvariant` puts them together.

Its second half proves under the same assumption what a run leaves behind:

- `OutcomeInvariantHolds`: `OutcomeInv` is invariant.
- `DriverTypesHold`: `DriverTypeOK`.
- `RequestedIsDelivered`: `FinishedLevelsDelivered`, without any condition.
- `NothingIsLeftBehind`: `NothingLeftBehind`, if no copy breaks off half way.
- `DrawnFilesAreWhole`: `DrawnGraphsAreWhole`, without any condition.

`Effects` first sums the actions up: a step `Drops` files, `Writes` into tmp,
`Copies` out, or `Stops` the run, which the steps of the clean-up do too (`CleansUp`
adds what each of them has removed); or the next level begins. `OutcomeInv` then
says of the level at work that what is requested is there or a copy of it is still to
come (`RequestedIsComing`), that what it has copied out is remembered
(`CopiesAreRemembered`) and is all there until it is unlinked (`CopiesAreThere`, so
that only `--delete-bins` removes a file that was there before), that its plan ends with
the removal of tmp (`TmpIsCleared`),
and that what has been written is of this level or of one before (`FilesAreOfLevels`).
Two facts about the options carry it. `LevelsAreDistinct`: `NormalizeOptLevels` names
each level once, so that no level overwrites what another has delivered or removes
its tmp; and with `-o` there is only one level (`RequestedBefore`,
`NothingOfNextLevel`). `RequestedIsBrought`: the plan of every command line that is
not rejected has a copy for everything that is requested, option by option, and what
is deleted at the end was not requested.

`DrawnFilesAreWhole` is about the order of the plan, not only about what is in it. A JSON
or DOT that is cut short can be copied out because `copy_artifact` does not read it; what
keeps it from staying is a step behind the copy that parses the same file while it is
still the same (`IsChecked`). Each part of the plan is said to leave a file alone
(`Leaves`), not to copy it (`Keeps`) or not to write it after its copy (`Settles`), and
`OrderOfJoin` puts the parts together: the JSONs are copied behind all that writes them
and in front of all that draws them (`FrontOrder`), and a DOT is parsed by the renderer
that follows its copy (`OrderOfEmission`). `WorkOrder` concludes it of every plan and every
kind that an SVG is drawn from. `PlanIsChecked` and `CopiesAreRead` then carry it through the
run: of a delivered file that is not whole the source in tmp is not whole either and is
still to be parsed, so that the level cannot end well.

### The builder

`IrGraphBuilderProofs` proves for every set of modules that `BuilderAssumption`
admits, that is, for every module that is `WellFormed` (what the LLVM verifier
guarantees of a module):

- `InvariantHolds`: `IInv` is invariant.
- `TypeCorrect`, `IdsPosition`, `ReferencesAgree`: `BuilderTypeOK`,
  `IdsArePositions` and `CrossReferences`.
- `OnlyGrowth`: `GraphOnlyGrows`: nodes and edges by `Grows`, which the lemma of each
  action shows, functions and blocks field by field (`FieldsKept`).

The properties say how the elements that are there relate; the invariant has to say
which ones are there. `Seen` is the set of blocks whose nodes are registered.
`FunctionsKnown` and `BlocksKnown` give every field of the first elements, and of
the blocks that they are those of the first `cursor` functions; `NodesKnown`
puts each node into a block and says that the pointer map holds the
instructions of the blocks seen; `EdgesKnown` says that every edge `Fits` its end
nodes. The first pass takes an entry block's id before it pushes the block, which is
right because the blocks of a function stand together in the module (`OwnBlocks`). The
second finds an entry node unset exactly at the entry block (`NodesStep`).
A control-flow edge stays in one function because a predecessor, and an incoming
block of a phi by the count of the verifier, ends in a branch to the block
(`PhiType`, `PredecessorsType`). Every edge of the last two passes is
shown to fit when it is made (`UserEdgesFit`, `CallEdgeFits`,
`PhiOperandEdgesFit`, `OperandEdgeFits`), and `AddedEdges` and `FitsInMore` that
it keeps fitting while nodes are added behind the others.

Its second half proves of the same modules what a finished graph holds:

- `CompletenessHolds`: `IInv /\ Complete` is invariant.
- `ControlFlowIsWhole`, `CallsComplete`, `UsesComplete`: `ControlFlowComplete`,
  `CallEdgesComplete`, `DataFlowComplete`.
- `LookupIsUnambiguous`: `LookupFindsFirstSuccessor`.

These count edges, so `Complete` counts in the middle of the build: of the
blocks, instructions and edges behind the cursor, each kind of edge is there as often
as the module gives it, and of those ahead none is; in the last pass the lookup maps
have the first edge of each key among the edges looked at. A round adds a sequence of
edges put together by `FlattenSeq`, and how often an edge is in it is counted by
`CountInOne`, `CountJoined` and `CountOfOnly`. That the number of edges from block to
block is that of the successors comes by `SamePieces` from the two forms of the pass:
with phis it goes by the incoming blocks, whose number the verifier gives, without by
the predecessors.

### The injection

`InjectPassProofs` proves for every set of well-formed modules:

- `InjectInvHolds`: `InjectInv` is invariant.
- `InjectTypesHold`, `CodeIsPreserved`: `InjectTypeOK` and `CodePreserved`.
- `EdgesAreLogged`, `EntriesAndCallsAreLogged`: `EdgesLoggedOnce` and
  `EntriesAndCallsLoggedOnce`.
- `NoLogOfLogs`: `LogsLogNothing`: what is `Paired` (below) stays so, a module with
  a `printf` of its own included (`LogsAreNotLogged`).

The properties follow paths through the changed code, and the code changes shape with
every split: blocks are added, successors redirected, phis and terminators moved. So
`InjectInv` describes the code outright, as a function of what has been done:
`Described` says that there are `heads` (phis), `mids` (what stands between phis and
terminator), a set `done` of edges that have been split and a numbering `new` of the
blocks added, such that every block of the module is what `BlockNow` makes of
them and every added block is `Between` the ends of its edge (`Changed`). The
three cases of `llvm::SplitEdge` are `Follows` and `Moves`, and an edge split earlier may have moved
phis or a terminator that a later one meets: that a block gives each of them away at
most once is what the proof of the split turns on. `MidsIn` says which logs
the middles have in each phase, with every call log `Paired` with its call, and
`SplitsIn` that the edges to be split are those of the worklist and those of `done`,
each once. `Stages` takes over from the builder: up to the first log `IInv` and
`Complete` hold, afterwards what the injection needs of them, `Ready`. The properties
are then read off the description.

### The running program

`InstrumentedProgramProofs` proves for every set of well-formed modules that can be run,
and for every bound on block entries, threads and lost lines:

- `RunInvHolds`: `InjectInv /\ CodeInv /\ RunInv` is invariant.
- `RunTypesHold`: `RunTypeOK`.
- `LogsBelong`: `LogBelongsToGraph`.
- `RunImplementsProgram`: `RunsLikeTheProgram`, the refinement of `Program`.

That a module can be run is `Executable`, part of `RunAssumption`, which TLC evaluates:
function 1 is main and has a body, an `invoke` has two successors, and an entry
block has no phi and no landing pad, as nothing leads to it. LLVM's verifier guarantees
the last two. `WellFormed` has one guarantee of the verifier more that only proofs need:
a landing pad is the first instruction of its block but for phis.

`CodeInv` carries what the run needs through the injection: every block is a sequence
over `KnownItems`, that is, instructions of the module, gotos, and logs whose id
is in the graph (`KnownLogs`; for an edge one of a kind that may be counted), and the
first item of every function is its own log (`StartsWithLog`). The ids come from the
lookup maps of a finished graph (`BuiltInGraph`), and the log stays first because no
split moves the front of an entry block (`SplitKeepsCode`). `EndsAreLinked` reads off
the description of `InjectInv` that a block that ends with a terminator has as many
ways out as that has in the module, and one that ends with a goto has one.

`RunInv` says where the program is: every frame is at a place of the code and every
frame below the top of its stack at a call (`StackOK`), so that a return or an unwinding
finds a call or an `invoke` to go on from (`ResumeKeeps`, `UnwindKeeps`). Of the log it
says that all lines are `GoodLines` until the program leaves by `_exit`, whose cut
lines are still in the graph's range (`CutLineKeeps`), and that there is an event unless
nothing at all has happened: that main's entry is logged before an instruction can write
text is what makes the log of every program acceptable, even of one that writes
only open lines (`HasBegun`). There is one lemma per action.

The refinement maps each frame to `NextOriginal`, the next instruction of the module
that runs from its place on, through added blocks. That there is one is not plain: it
needs the description of the code. `Leads` reads off it that what runs through any
block, added or not, comes to the rest of one block of the module (`CodeLeads`), that
a goto leads to what its target has ahead (`FirstAhead`), and that each successor of a
terminator has the whole of the block ahead that it was before the splits
(`BodyAhead`). `Guides` puts this into a function from places to instructions, which
exists once the module is injected (`GuideThere`). Every step is then followed frame by frame:
a log and a goto change nothing of what is seen (`WriteLogSeen`, `FollowGotoSeen`), and
each other action is the action of the same name of `Program` (`BranchSeen`,
`CallFunctionSeen`, `ReturnSeen`, ...), an unwinding with the same handler
(`UnwindSeen`). While the pass still changes the code, the one frame sees the first
instruction of main (`StartSeen`), so the whole of the instrumentation is
stuttering too.

### The counts

`LogCountProofs` (the books and the pace) and `ProfileProofs` (what the merge makes of the
log) prove that the log tells what happens, for the same modules and bounds:

- `BooksHold`: `BooksInv` is invariant.
- `LogAlwaysKeepsPace`: `LogKeepsPace`, crashes included.
- `ProfileAlwaysExact`: `ExactProfile`.
- `CutLogsCountLittleTooMuch`: `CutLogCountsLittleTooMuch`.

These assume `"open" \notin Texts`: no external function leaves a line of the
program's own text open. With one an event is hidden, and the merge counts too little
without noticing; the `open_line` run shows it. `LogsBelong` and the refinement need no
such assumption.

None of the three properties is inductive, since a log and what it announces are two steps. The
invariant is about debts. At a place of the changed code a thread may owe keys of the
profile: *late* those of events that have happened and are logged further down (the
function and the block just entered, and the edge just taken, if its log is in a block
added behind the branch),
*early* those of a log just written whose event is ahead (a call, or a branch along the
edge that is logged in front of it). `Debts(L, E)` says that `L` and `E` give every place of the
code its debts so that each item changes them as it should: a log pays or takes on its
own key, a call or a branch makes the key of what it does, entering a block brings the
debts of its start, a return needs none. `Books(L, E)` says that for every key the hits
in the log and the debts of all threads, added (`Told`), make what has happened
(`Tells`). Only the top frame of a thread owes, because a frame is at a call when
another is on top of it, and there its call has happened.

- One lemma for each action (`WriteLogBooked`, `BranchBooked`, `CallFunctionBooked`, ...)
  shows the books kept, from the debts only: `ToldLine` and `ToldMore` say what one
  line and one frame change.
- That there are debts needs the shape of the changed code. `ShapedNow` reads off
  `InjectInv` where the logs are in each block: `IsLate` and `IsEarly` are then the
  logs still to come and the event that follows a log behind, and `DebtsThere` shows
  them to be `Debts`.
- For the properties, the threads that owe different keys of one kind are different
  threads (`BearersApart`), so the sums over blocks, calls and edges are at
  most the number of threads, by counting disjoint sets (`SumWithin`).
- For the merge, `KeysAreNames` and `EdgesBetween` identify the keys in the log with the
  elements of the graph, also when two blocks share several edges.
- `Quit` cuts at most one line to another id: under one key there may be one hit too much
  (`NoMuchMore`). The thread that leaves is at a call without a log of its own, owes
  nothing (`ClearThread`), and is the one this hit is charged to (`ChargedApart`).

### The files

`ProfileProofs` also proves `GraphsSurviveFiles`: `GraphSurvivesFiles` is an invariant of
`DynamicSpec`, for the same modules, any bounds and any external functions, under
`FileAssumption` and `NullAssumption` (null is no number). `SavedObject` is the round trip of one object:
required fields come back as they are, optional ones if they are `Savable`, that is, not
a `null` that stands for something. The rest is to show that the builder makes nothing
else: `ElementsKept` says of each element that it has the fields of a new one and
savable values, and is carried through every round of the build; ids and references are
numbers or absent by the invariant of the builder. So the graph is `WholeGraph`, and it
still is when the merge has put counts into it (`WithCounts`). `FilesInv` says what is
in the files, and when.

### Sequences

`SequenceFacts` holds what the library does not have. Its theorems of induction take
an operator, which the provers cannot instantiate; here induction over the
natural numbers is a fact about sets (`SetInduction`, by the least counterexample),
and so is induction over the sequences of a set (`SequenceInduction`). From these come
the type of what `FlattenSeq` returns and what it is for one more element
(`FlattenUnfold`, `FlattenAppended`), how often an element is in it, and the laws of
`Spread`, which replaces each element of a sequence by a sequence: of the levels, of
the items of a block and of the edges to split. `SumExists` and `SumGrows` do the same
for the sum of a function over a finite set, which the bound on block entries is about.

### Only model-checked

- Liveness (`AcceptableLogIsApplied`): outside the prover's temporal reasoning.
- The pictures (`PictureIsWhole`, `PictureTellsTheRun`, `HeatTellsTheRun`). The counts of
  the runs stay small, so `HeatTellsTheRun` does not show what large counts round to.

## Not modelled, and abstractions

- The text forms: JSON and DOT syntax, names, formatting, styles that do not depend on
  the graph, messages and tool lookup.
- In the instrumented program: `longjmp`, signals handlers that print, a full disk
  under its own stdout, a `printf` of another type in the module.
- Inside `printf`: it is atomic, as the C library locks the stream.
- Addresses: a reallocation of the builder's vectors while a reference into one is held.
- Directories (an output directory that is empty after `--delete-bins`, and that
  one's removal, are not files), and the paths given with `--emit-*`: only whether each
  option is given.
- Two runs of the driver at once in one directory.
- Build files: they configure the compilation and have no behaviour at run time.

## Plan

Done, in the order of importance to the counts: merge and its proofs; builder;
injection; program and the whole chain; driver; `_exit` and its cut log, threads and
callbacks; truncated outputs; serialization; renderer and the composition of all of
them; the proofs about the driver, the builder, the injection and, of the running program,
its types, its refinement of `Program` and its counts; the clean-up of a failed run by
steps that may fail; the round trip of the graph through its files.

Left, to model: stdout on a full disk; `longjmp` across frames with pending logs.

Left, to prove: that each node is drawn once (`PictureIsWhole`); lemmas on `Merged` and
`Acceptable` (the order of a log does not matter, merging twice is merging once).
