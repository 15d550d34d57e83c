------------------------------ MODULE InjectPass ------------------------------
(***************************************************************************)
(* InjectPass::injectLogging: builds the graph of the module it is given   *)
(* (IrGraphBuilder, whose steps come first), then inserts calls of printf  *)
(* that log every entry of a function or block, every direct call and      *)
(* every control-flow edge of a br or switch, under the ids of that graph. *)
(*                                                                         *)
(* code and succs are the module as it is changed: blocks keep their       *)
(* numbers, llvm::SplitEdge adds new ones after them.  A block is a        *)
(* sequence of items: an instruction of the original module, a log call,   *)
(* or the goto (an unconditional br) that ends a block SplitEdge has made. *)
(***************************************************************************)
EXTENDS IrGraphBuilder

VARIABLES code, succs,
          splits    \* the original edges injectControlFlowEdgeLogs has yet to split

injectVars == <<code, succs, splits>>

Original(b, k) == [kind |-> "instruction", at |-> <<b, k>>]
Log(event, id) == [kind |-> "log", event |-> event, id |-> id]
Goto == [kind |-> "goto"]

IsOriginal(item) == item.kind = "instruction"
OpOf(item) == IF IsOriginal(item) THEN Instr(module, item.at).op ELSE "none"

InjectInit ==
  /\ Init
  /\ code = [b \in Blocks(module) |-> [k \in DOMAIN module.body[b] |-> Original(b, k)]]
  /\ succs = [b \in Blocks(module) |-> Successors(module, b)]
  /\ splits = <<>>

Build == BuilderNext /\ UNCHANGED injectVars

InjectStage(from, to) ==
  phase = from /\ phase' = to /\ UNCHANGED <<module, cursor, graphVars, idVars, infoVars>>

Cat(seqs) == FlattenSeq(seqs)

------------------------------------------------------------------------------
\* Mutated form: before the first instruction, even if it is a phi.
StartOfBlock(items) == 0

\* getFirstInsertionPt: after the phis and the landing pad of the block.
EntryInsertionPoint(items) ==
  Cardinality({k \in DOMAIN items : OpOf(items[k]) \in {"phi", "landingpad"}})

InjectEntryLogs ==
  /\ InjectStage("built", "entry_logged")
  /\ code' = [b \in DOMAIN code |->
       LET at == EntryInsertionPoint(code[b]) IN
         SubSeq(code[b], 1, at)
           \o (IF IsEntryBlock(module, b)
               THEN <<Log("func_enter", functionIds[module.function_of[b]])>> ELSE <<>>)
           \o <<Log("bb_enter", basicBlockIds[b])>>
           \o SubSeq(code[b], at + 1, Len(code[b]))]
  /\ UNCHANGED <<succs, splits>>

CallKey(p) == <<instructionNodeIds[p], functionIds[Instr(module, p).callee]>>

\* Mutated form: the log of a call is written when the call has returned.
CallThenLog(item) ==
  IF IsOriginal(item) /\ IsDirectCall(module, Instr(module, item.at))
  THEN <<item, Log("call_edge", callEdgeIds[CallKey(item.at)])>> ELSE <<item>>

\* A call of a function with a body: of the original module, or, if that is printf,
\* any of the logs inserted before.
CallsDefinedFunction(item) ==
  IF IsOriginal(item) THEN IsDirectCall(module, Instr(module, item.at))
  ELSE item.kind = "log" /\ DefinesPrintf(module)

CalleeOf(item) == IF IsOriginal(item) THEN Instr(module, item.at).callee ELSE module.printf

\* Mutated form: in the place of at a find that falls back to 0.
NodeIdOrZero(item) == IF IsOriginal(item) THEN instructionNodeIds[item.at] ELSE 0

\* What has been inserted since the graph was built has no node.
NodeIdOf(item) == IF IsOriginal(item) THEN instructionNodeIds[item.at] ELSE None

KeyOfCall(item) == <<NodeIdOf(item), functionIds[CalleeOf(item)]>>

\* A call of a function of this module that has a call edge, after its log.
LogThenCall(item) ==
  IF CallsDefinedFunction(item) /\ KeyOfCall(item) \in DOMAIN callEdgeIds
  THEN <<Log("call_edge", callEdgeIds[KeyOfCall(item)]), item>> ELSE <<item>>

\* at() throws for a log that calls a printf of this module.
HasNoNode(item) == CallsDefinedFunction(item) /\ NodeIdOf(item) = None

InjectionThrows == \E b \in DOMAIN code : \E k \in DOMAIN code[b] : HasNoNode(code[b][k])

AbortInjection ==
  /\ InjectStage("entry_logged", "aborted")
  /\ InjectionThrows
  /\ UNCHANGED injectVars

InjectCallEdgeLogs ==
  /\ InjectStage("entry_logged", "calls_logged")
  /\ ~ InjectionThrows
  /\ code' = [b \in DOMAIN code |-> Cat([k \in DOMAIN code[b] |-> LogThenCall(code[b][k])])]
  /\ UNCHANGED <<succs, splits>>

------------------------------------------------------------------------------
IsSupportedControlFlowTerminator(instr) == instr.op \in {"br", "switch"}

CfgKey(b, k) ==
  <<basicBlockIds[b], basicBlockIds[Successors(module, b)[k]], k - 1>>

\* The edge of a supported terminator that the graph has under its index.
IsLogged(e) ==
  /\ IsSupportedControlFlowTerminator(Instr(module, Terminator(module, e[1])))
  /\ CfgKey(e[1], e[2]) \in DOMAIN cfgEdgeIds

CollectOriginalCfgEdges ==
  /\ InjectStage("calls_logged", "splitting")
  /\ splits' = Cat([b \in Blocks(module) |->
       Cat([k \in DOMAIN Successors(module, b) |-> Only(IsLogged(<<b, k>>), <<b, k>>)])])
  /\ UNCHANGED <<code, succs>>

EdgesTo(t) == UNION {{<<b, k>> : k \in {j \in DOMAIN succs[b] : succs[b][j] = t}} :
                      b \in DOMAIN succs}

\* Mutated form: the first successor is redirected whatever the target.
TopSlot(s, t) == 1

\* llvm::SplitEdge takes the first successor of s that is t.
SuccessorSlot(s, t) ==
  CHOOSE k \in DOMAIN succs[s] :
    succs[s][k] = t /\ \A j \in 1..(k - 1) : succs[s][j] # t

\* A critical edge, or one that is the only way into t, gets a new block; in
\* the second case it takes the phis of t with it.
SplitBeforeTarget(s, t, log) ==
  LET new == Len(code) + 1
      phis == IF Cardinality(EdgesTo(t)) = 1
              THEN Cardinality({k \in DOMAIN code[t] : OpOf(code[t][k]) = "phi"}) ELSE 0
  IN /\ code' = Append([code EXCEPT ![t] = SubSeq(code[t], phis + 1, Len(code[t]))],
                       SubSeq(code[t], 1, phis) \o <<log, Goto>>)
     /\ succs' = Append([succs EXCEPT ![s][SuccessorSlot(s, t)] = new], <<t>>)

\* Otherwise t is the only successor of s, whose terminator gets the new block.
SplitAfterSource(s, log) ==
  LET new == Len(code) + 1 IN
    /\ code' = Append([code EXCEPT ![s] = Append(Front(code[s]), Goto)],
                      <<log, Last(code[s])>>)
    /\ succs' = Append([succs EXCEPT ![s] = <<new>>], succs[s])

SplitsAfterSource(s, t) == Len(succs[s]) = 1 /\ Cardinality(EdgesTo(t)) > 1

\* Mutated form: the log goes to the end of the source, without a block of its own.
LogAtEndOfSource ==
  /\ phase = "splitting" /\ splits # <<>>
  /\ LET s == Head(splits)[1]
         log == Log("cfg_edge", cfgEdgeIds[CfgKey(s, Head(splits)[2])])
     IN code' = [code EXCEPT ![s] = Front(@) \o <<log, Last(@)>>]
  /\ splits' = Tail(splits)
  /\ UNCHANGED <<builderVars, succs>>

\* One round of injectControlFlowEdgeLogs: the log goes before the terminator
\* of the block that SplitEdge returns.
InjectControlFlowEdgeLog ==
  /\ phase = "splitting" /\ splits # <<>>
  /\ LET s == Head(splits)[1]
         k == Head(splits)[2]
         t == Successors(module, s)[k]
         log == Log("cfg_edge", cfgEdgeIds[CfgKey(s, k)])
     IN IF SplitsAfterSource(s, t) THEN SplitAfterSource(s, log)
        ELSE SplitBeforeTarget(s, t, log)
  /\ splits' = Tail(splits)
  /\ UNCHANGED builderVars

EndOfInjection ==
  /\ splits = <<>>
  /\ InjectStage("splitting", "injected")
  /\ UNCHANGED injectVars

InjectNext ==
  \/ Build
  \/ InjectEntryLogs
  \/ AbortInjection
  \/ InjectCallEdgeLogs
  \/ CollectOriginalCfgEdges
  \/ InjectControlFlowEdgeLog
  \/ EndOfInjection

InjectSpec == InjectInit /\ [][InjectNext]_<<builderVars, injectVars>>

------------------------------------------------------------------------------
EndsBlock(item) == item = Goto \/ OpOf(item) \in Terminators

\* Types of the changed module: still a module, whose blocks have their one
\* terminator at the end and lead to blocks.
InjectTypeOK ==
  /\ phase \in DOMAIN NextPhase
       \cup {"built", "entry_logged", "aborted", "calls_logged", "splitting", "injected"}
  /\ DOMAIN code = DOMAIN succs /\ Len(code) >= Len(module.body)
  /\ \A b \in DOMAIN code :
       /\ code[b] # <<>>
       /\ \A k \in DOMAIN code[b] :
            /\ code[b][k].kind \in {"instruction", "log", "goto"}
            /\ EndsBlock(code[b][k]) <=> k = Len(code[b])
       /\ \A k \in DOMAIN succs[b] : succs[b][k] \in DOMAIN code
  /\ \A k \in DOMAIN splits : splits[k] \in CfgEdges(module)

\* The items that run from the start of block b to the next original terminator.
Through(b) ==
  LET walk[c \in DOMAIN code] ==
        IF Last(code[c]) = Goto THEN Front(code[c]) \o walk[succs[c][1]] ELSE code[c]
  IN walk[b]

\* Where an edge of the original module leads now: the block its slot names in
\* the block that its terminator has been moved to.
HomeOf(b) == CHOOSE c \in DOMAIN code : Last(code[c]) = Original(b, Len(module.body[b]))
Arrival(e) == succs[HomeOf(e[1])][e[2]]

\* The items that pass a test, in their order.
Kept(items, Test(_)) == Cat([k \in DOMAIN items |-> Only(Test(items[k]), items[k])])
Originals(items) == Kept(items, IsOriginal)

\* At every moment of the injection each edge of the original module leads
\* through all instructions of its target in their order and to its terminator,
\* and nothing precedes a phi in its block: the program that is instrumented
\* does what it did (SplitEdge, getBasicBlockEntryInsertionPoint).
CodePreserved ==
  phase \notin DOMAIN NextPhase =>
    /\ \A e \in CfgEdges(module) :
         LET t == EdgeTarget(module, e) IN
           Originals(Through(Arrival(e))) = [k \in DOMAIN module.body[t] |-> Original(t, k)]
    /\ \A b \in DOMAIN code : \A k \in 2..Len(code[b]) :
         OpOf(code[b][k]) = "phi" => OpOf(code[b][k - 1]) = "phi"

IsLogOf(item, events) == item.kind = "log" /\ item.event \in events
CfgLogs(items) == Kept(items, LAMBDA i : IsLogOf(i, {"cfg_edge"}))
EntryLogs(items) == Kept(items, LAMBDA i : IsLogOf(i, {"func_enter", "bb_enter"}))

\* The part of a path before the target's own entry log.
UpToEntry(items) ==
  SubSeq(items, 1, Min({k \in DOMAIN items : IsLogOf(items[k], {"bb_enter"})}))

\* Between entering a block and entering a successor the program logs that edge
\* once and no other, whether the log had to go into the block, into the
\* successor's end or between them; an edge without a log stays without one
\* (collectOriginalCfgEdges, injectControlFlowEdgeLogs).
EdgesLoggedOnce ==
  phase = "injected" =>
    \A e \in CfgEdges(module) :
      CfgLogs(Through(e[1]) \o UpToEntry(Through(Arrival(e))))
        = IF IsLogged(e) THEN <<Log("cfg_edge", cfgEdgeIds[CfgKey(e[1], e[2])])>> ELSE <<>>

\* Running through a block logs its entry once (and before it that of its
\* function, if it is the entry block), and each direct call once, right before
\* the call, under the edge from that very call (injectEntryLogs,
\* injectCallEdgeLogs).
EntriesAndCallsLoggedOnce ==
  phase = "injected" =>
    \A b \in Blocks(module) :
      LET items == Through(b)
          calls == {k \in DOMAIN items : IsLogOf(items[k], {"call_edge"})}
      IN /\ EntryLogs(items)
              = (IF IsEntryBlock(module, b)
                 THEN <<Log("func_enter", module.function_of[b] - 1)>> ELSE <<>>)
                  \o <<Log("bb_enter", b - 1)>>
         /\ \A k \in calls : k < Len(items) /\ IsOriginal(items[k + 1])
         /\ {items[k + 1].at : k \in calls}
              = {p \in Pointers(module) : p[1] = b /\ IsDirectCall(module, Instr(module, p))}
         /\ \A k \in calls :
              LET e == edges[items[k].id + 1] IN
                e.kind = "call" /\ e.source_node = instructionNodeIds[items[k + 1].at]

\* As soon as the calls are logged, and through all splits, the item behind the log
\* of a call edge is the original call that this is the edge of, and never one that
\* has been inserted: no log carries a log, not even where a log is itself a call of
\* a function with a body, because then at() throws (injectCallEdgeLogs).
LogsLogNothing ==
  phase \in {"calls_logged", "splitting", "injected"} =>
    \A b \in DOMAIN code : \A k \in DOMAIN code[b] :
      IsLogOf(code[b][k], {"call_edge"}) =>
        /\ k < Len(code[b]) /\ IsOriginal(code[b][k + 1])
        /\ IsDirectCall(module, Instr(module, code[b][k + 1].at))
        /\ code[b][k].id = callEdgeIds[CallKey(code[b][k + 1].at)]

==============================================================================
