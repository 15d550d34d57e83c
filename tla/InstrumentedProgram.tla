------------------------- MODULE InstrumentedProgram -------------------------
(***************************************************************************)
(* The instrumented program: InjectPass inserts the logs, then the program *)
(* runs its changed code and writes to stdout, which the driver hands to   *)
(* the merge tool as the runtime log.  The program's own output goes to    *)
(* the same stream.                                                        *)
(*                                                                         *)
(* entered, taken and called record what the program really did; nothing   *)
(* that is logged is computed from them.                                   *)
(***************************************************************************)
EXTENDS InjectPass, ProfileData

CONSTANTS MaxRevisits,  \* bound on the block entries of a run beyond one for each block
          MaxThreads,   \* bound on the threads of a run, the one of main included
          MaxLost,      \* bound on the lines that _exit leaves in the buffer
          Texts         \* what an external call may write: "none", a whole
                        \* "line", or an "open" one, without a line feed

\* What is guaranteed of a module that is run: function 1 is its main; an invoke
\* leads to one block on return and one on unwinding; nothing precedes the first
\* block of a function, so it has neither phis nor landing pads.
Executable(m) ==
  /\ 1 \in Functions(m) /\ ~ IsDeclaration(m, 1)
  /\ \A b \in Blocks(m) :
       /\ Instr(m, Terminator(m, b)).op = "invoke" => Len(Successors(m, b)) = 2
       /\ IsEntryBlock(m, b) =>
            \A k \in 1..Len(m.body[b]) : m.body[b][k].op \notin {"phi", "landingpad"}

ASSUME RunAssumption ==
  /\ \A m \in Modules : Executable(m)
  /\ MaxRevisits \in Nat /\ MaxThreads \in Nat \ {0} /\ MaxLost \in Nat
  /\ Texts \subseteq {"none", "line", "open"}

VARIABLES threads,  \* stacks of pairs <<block, item>> of the changed code
          status, entered, taken, called,
          stdout,   \* the lines written so far
          lineOpen  \* whether the stream is in the middle of a line of text

runVars == <<threads, status, entered, taken, called, stdout, lineOpen>>
buildVars == <<builderVars, injectVars>>

TextLine == [event |-> "text", id |-> 0]

Start(f) == <<<<EntryBlock(module, f), 1>>>>

RunInit ==
  /\ InjectInit
  /\ threads = <<Start(1)>>
  /\ status = "running"
  /\ entered = [b \in Blocks(module) |-> IF b = EntryBlock(module, 1) THEN 1 ELSE 0]
  /\ taken = [e \in CfgEdges(module) |-> 0]
  /\ called = [p \in Pointers(module) |-> 0]
  /\ stdout = <<>> /\ lineOpen = FALSE

Compile == InjectNext /\ UNCHANGED runVars

At(t) == Last(threads[t])
ItemAt(place) == code[place[1]][place[2]]
OpAt(place) == OpOf(ItemAt(place))
Item(t) == ItemAt(At(t))
Here(t) == Instr(module, Item(t).at)
NextItem(place) == <<place[1], place[2] + 1>>

Live == {t \in DOMAIN threads : threads[t] # <<>>}

SumOf(f) == FoldFunction(+, 0, f)
MaxEntries == Len(module.body) + MaxRevisits
WithinBound == SumOf(entered) < MaxEntries
Entered(b) == [entered EXCEPT ![b] = @ + 1]

SetStack(t, stack) == threads' = [threads EXCEPT ![t] = stack]

MoveTo(t, place) ==
  /\ SetStack(t, Append(Front(threads[t]), place))
  /\ UNCHANGED <<status, entered, taken, called>>

Quiet == UNCHANGED <<stdout, lineOpen>>

\* A call of printf that LoggingEmitter has inserted.  In the middle of a line
\* of text it only ends that line: the prefix is not where the merge looks.
\* printf locks the stream, so threads do not write into each other's lines.
WriteLog(t) ==
  /\ Item(t).kind = "log"
  /\ stdout' = Append(stdout, IF lineOpen THEN TextLine
                              ELSE [event |-> Item(t).event, id |-> Item(t).id])
  /\ lineOpen' = FALSE
  /\ MoveTo(t, NextItem(At(t)))

FollowGoto(t) ==
  /\ Item(t).kind = "goto"
  /\ MoveTo(t, <<succs[At(t)[1]][1], 1>>)
  /\ Quiet

\* What the program itself writes.
WriteText(text) ==
  CASE text = "none" -> Quiet
    [] text = "line" -> stdout' = Append(stdout, TextLine) /\ lineOpen' = FALSE
    [] text = "open" -> lineOpen' = TRUE /\ UNCHANGED stdout

\* Thread t keeps the frames below; the terminator item at place is left by
\* successor k.
Follow(t, below, place, k) ==
  LET b == ItemAt(place).at[1] IN
    /\ WithinBound
    /\ SetStack(t, Append(below, <<succs[place[1]][k], 1>>))
    /\ entered' = Entered(EdgeTarget(module, <<b, k>>))
    /\ taken' = [taken EXCEPT ![<<b, k>>] = @ + 1]
    /\ UNCHANGED <<status, called>>

Resume(t, stack) ==
  LET place == Last(stack) IN
    IF OpAt(place) = "invoke" THEN Follow(t, Front(stack), place, 1)
    ELSE /\ SetStack(t, Append(Front(stack), NextItem(place)))
         /\ UNCHANGED <<status, entered, taken, called>>

Stop(how) == status' = how /\ UNCHANGED <<threads, entered, taken, called>>

Straight(t) ==
  /\ OpOf(Item(t)) \in {"phi", "landingpad", "other"}
  /\ MoveTo(t, NextItem(At(t)))
  /\ Quiet

Branch(t) ==
  /\ OpOf(Item(t)) \in {"br", "switch"}
  /\ \E k \in DOMAIN succs[At(t)[1]] : Follow(t, Front(threads[t]), At(t), k)
  /\ Quiet

CallFunction(t) ==
  /\ IsOriginal(Item(t)) /\ IsCall(Here(t)) /\ WithinBound
  /\ \E f \in Callees(module, Here(t)) :
       /\ SetStack(t, threads[t] \o Start(f))
       /\ entered' = Entered(EntryBlock(module, f))
       /\ called' = [called EXCEPT ![Item(t).at] = @ + 1]
  /\ UNCHANGED <<status, taken>>
  /\ Quiet

\* An external function calls one that it has been given, or starts a thread with it.
CallBack(t) ==
  /\ IsOriginal(Item(t)) /\ WithinBound
  /\ \E f \in Handed(module, Here(t)) :
       /\ \/ SetStack(t, threads[t] \o Start(f))
          \/ Len(threads) < MaxThreads /\ threads' = Append(threads, Start(f))
       /\ entered' = Entered(EntryBlock(module, f))
  /\ UNCHANGED <<status, taken, called>>
  /\ Quiet

CallExternal(t) ==
  /\ IsOriginal(Item(t)) /\ IsCall(Here(t)) /\ ~ IsDirectCall(module, Here(t))
  /\ \E text \in Texts : WriteText(text)
  /\ \/ Resume(t, threads[t])
     \/ Stop("exited")
     \/ LET handlers == {n \in DOMAIN threads[t] : OpAt(threads[t][n]) = "invoke"} IN
          IF handlers = {} THEN Stop("crashed")
          ELSE Follow(t, SubSeq(threads[t], 1, Max(handlers) - 1), threads[t][Max(handlers)], 2)

\* The forms a line can have when only its beginning is in the file: without the
\* whole prefix, without the whole name of the event, without the counted field,
\* or with some of the digits of its id (of seven at most).
CutLine(line) ==
  IF ~ IsEvent(line) THEN {TextLine}
  ELSE {TextLine} \cup {[event |-> bad, id |-> 0] : bad \in BadLines}
         \cup {[line EXCEPT !.id = @ \div d] :
                d \in {p \in {1, 10, 100, 1000, 10000, 100000, 1000000} : p = 1 \/ p <= line.id}}

\* An external function leaves by _exit(0): what is still in the buffer of the
\* stream is not written, from some byte on.
Quit(t) ==
  /\ IsOriginal(Item(t)) /\ IsCall(Here(t)) /\ ~ IsDirectCall(module, Here(t))
  /\ \E n \in Max({0, Len(stdout) - MaxLost})..Len(stdout) :
       \/ stdout' = SubSeq(stdout, 1, n)
       \/ n < Len(stdout) /\ \E part \in CutLine(stdout[n + 1]) :
                               stdout' = Append(SubSeq(stdout, 1, n), part)
  /\ Stop("quit") /\ UNCHANGED lineOpen

Return(t) ==
  /\ OpOf(Item(t)) = "ret"
  /\ LET below == Front(threads[t])
         external(place) == IsExternalCall(module, Instr(module, ItemAt(place).at))
     IN CASE below = <<>> /\ t = 1 -> Stop("exited")
          [] below = <<>> /\ t # 1 ->
               SetStack(t, <<>>) /\ UNCHANGED <<status, entered, taken, called>>
          [] below # <<>> /\ external(Last(below)) ->
               SetStack(t, below) /\ UNCHANGED <<status, entered, taken, called>>
          [] OTHER -> Resume(t, below)
  /\ Quiet

Crash == Stop("crashed") /\ Quiet

Run ==
  /\ phase = "injected" /\ status = "running"
  /\ \/ \E t \in Live :
          \/ WriteLog(t) \/ FollowGoto(t) \/ Straight(t) \/ Branch(t) \/ CallFunction(t)
          \/ CallBack(t) \/ CallExternal(t) \/ Quit(t) \/ Return(t)
     \/ Crash
  /\ UNCHANGED buildVars

RunNext == Compile \/ Run

RunSpec == RunInit /\ [][RunNext]_<<buildVars, runVars>>

------------------------------------------------------------------------------
ModuleGraph == GraphOf(<<"module">>, functions, basicBlocks, nodes, edges)

\* What the merge reads of a graph.
ProfiledPart(g) ==
  [functions |-> Len(g.functions), basic_blocks |-> Len(g.basic_blocks),
   declarations |-> {k - 1 : k \in {j \in DOMAIN g.functions :
                                      g.functions[j].entry_basic_block = None}},
   edges |-> Each(g.edges, LAMBDA e : e.kind)]

BuiltGraph == ProfiledPart(ModuleGraph)

\* Types of a run: its frames are at items of the code, the lower ones at calls,
\* and it logs ids of the graph.
RunTypeOK ==
  /\ status \in {"running", "exited", "quit", "crashed"} /\ lineOpen \in BOOLEAN
  /\ Len(threads) \in 1..MaxThreads /\ threads[1] # <<>>
  /\ \A t \in DOMAIN threads : \A n \in DOMAIN threads[t] :
       LET place == threads[t][n] IN
         /\ place[1] \in DOMAIN code /\ place[2] \in DOMAIN code[place[1]]
         /\ n < Len(threads[t]) => OpAt(place) \in {"call", "invoke"}
  /\ SumOf(entered) <= MaxEntries
  /\ \A k \in DOMAIN stdout :
       stdout[k] \in Line /\ (IsEvent(stdout[k]) => KeyOf(stdout[k]) \in Entities(BuiltGraph))

\* The next instruction of the original program that runs from a place.
NextOriginal(place) ==
  LET rest == SubSeq(code[place[1]], place[2], Len(code[place[1]]))
      items == IF Last(rest) = Goto THEN rest \o Through(succs[place[1]][1]) ELSE rest
  IN Originals(items)[1].at

\* The threads seen through the next original instruction of every frame.
OriginalThreads ==
  [t \in DOMAIN threads |-> [n \in DOMAIN threads[t] |-> NextOriginal(threads[t][n])]]

\* The instrumented program does what the program does: so seen, logs and split
\* edges are stuttering, and each branch, call, return and unwinding is one the
\* program can make (injectLogging leaves the meaning of the module alone).
Uninstrumented == INSTANCE Program WITH threads <- OriginalThreads
RunsLikeTheProgram == Uninstrumented!Spec

Logged(x) == Hits(stdout, Len(stdout), x)
EdgeKey(id) == <<"edge", id>>

Traversals(s, t) ==
  SumOf([e \in {c \in EdgesInto(module, t) : c[1] = s} |-> taken[e]])

\* The indices of the graph's control-flow edges between the two blocks.
CfgIndices(s, t) ==
  {k \in DOMAIN edges : /\ edges[k].kind = "control_flow"
                        /\ edges[k].source_basic_block = s - 1
                        /\ edges[k].target_basic_block = t - 1}

MergedTraversals(count, s, t) ==
  SumOf([k \in CfgIndices(s, t) |-> count[EdgeKey(k - 1)]])

DirectCalls == {p \in Pointers(module) : IsDirectCall(module, Instr(module, p))}

\* When the program has exited and its threads have ended before, the merge of
\* its log has for every function, block and call edge the number of times the
\* program entered or made it, and for the edges from s to t those it took, unless
\* some of them have no log: then never more (ids of the log, places of the logs,
\* parse and merge agree).
ExactProfile ==
  status = "exited" /\ Live = {1} =>
    LET count == Merged(BuiltGraph, stdout) IN
      /\ \A f \in Functions(module) :
           count[<<"function", f - 1>>]
             = IF IsDeclaration(module, f) THEN NoCount ELSE entered[EntryBlock(module, f)]
      /\ \A b \in Blocks(module) : count[<<"basic_block", b - 1>>] = entered[b]
      /\ \A p \in DirectCalls : count[EdgeKey(callEdgeIds[CallKey(p)])] = called[p]
      /\ \A s, t \in Blocks(module) :
           IF \A e \in EdgesInto(module, t) : e[1] = s => IsLogged(e)
           THEN MergedTraversals(count, s, t) = Traversals(s, t)
           ELSE MergedTraversals(count, s, t) <= Traversals(s, t)

Late(b) == entered[b] - Logged(<<"basic_block", b - 1>>)
Announced(p) == Logged(EdgeKey(callEdgeIds[CallKey(p)])) - called[p]
Gap(e) == taken[e] - Logged(EdgeKey(cfgEdgeIds[CfgKey(e[1], e[2])]))

Abs(n) == IF n < 0 THEN -n ELSE n

\* At every moment of the run, a crash included, the log is at most one event for
\* every thread away from what has happened: an entry not yet logged, a call
\* logged and not yet made, an edge logged before or after it is taken, never one
\* of another kind or in the other direction.  (What is printed: a crash may lose
\* the buffer, and the driver then discards the log.)
LogKeepsPace ==
  phase = "injected" /\ status # "quit" =>
    LET late == [b \in Blocks(module) |-> Late(b)]
        announced == [p \in DirectCalls |-> Announced(p)]
        gap == [e \in {c \in CfgEdges(module) : IsLogged(c)} |-> Abs(Gap(e))]
    IN /\ \A b \in DOMAIN late : late[b] >= 0
       /\ \A p \in DOMAIN announced : announced[p] >= 0
       /\ SumOf(late) <= Cardinality(Live)
       /\ SumOf(announced) <= Cardinality(Live)
       /\ SumOf(gap) <= Cardinality(Live)

Over(count, truth) == IF count = NoCount THEN 0 ELSE Max({0, count - truth})

\* What a program that leaves by _exit loses of its log can only make counts too
\* small, but for one event for every thread: of the thread that leaves the one
\* whose id has lost its last digits, of another the one it has announced.  A merge
\* that accepts such a log never reports more than that beyond what happened
\* (parseUnsigned takes any number, and the driver looks at the exit code only).
CutLogCountsLittleTooMuch ==
  status = "quit" /\ Acceptable(BuiltGraph, stdout) =>
    LET count == Merged(BuiltGraph, stdout)
        ofFunctions == [f \in Functions(module) |->
          Over(count[<<"function", f - 1>>],
               IF IsDeclaration(module, f) THEN 0 ELSE entered[EntryBlock(module, f)])]
        ofBlocks == [b \in Blocks(module) |-> Over(count[<<"basic_block", b - 1>>], entered[b])]
        ofCalls == [p \in DirectCalls |-> Over(count[EdgeKey(callEdgeIds[CallKey(p)])], called[p])]
        ofEdges == [st \in Blocks(module) \X Blocks(module) |->
          Over(MergedTraversals(count, st[1], st[2]), Traversals(st[1], st[2]))]
    IN SumOf(ofFunctions) + SumOf(ofBlocks) + SumOf(ofCalls) + SumOf(ofEdges) <= Cardinality(Live)

\* The merge can take the log of every program that has exited together with
\* the graph of its module: every id is one it may count (applyRuntimeProfile).
LogBelongsToGraph ==
  status = "exited" => Acceptable(BuiltGraph, stdout)

\* README.md, "Сравнение статического и динамического графа": the dynamic graph
\* says how many times each CFG edge was taken.
EveryEdgeCounted ==
  status = "exited" =>
    LET count == Merged(BuiltGraph, stdout) IN
      \A s, t \in Blocks(module) : MergedTraversals(count, s, t) = Traversals(s, t)

==============================================================================
