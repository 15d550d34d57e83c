---------------------------- MODULE IrGraphBuilder ----------------------------
(***************************************************************************)
(* ir_graph::IrGraphBuilder::build: five passes over the module that fill  *)
(* the four vectors of the graph and the maps from LLVM pointers to ids,   *)
(* then one over the edges that fills the lookup maps of BuildInfo.  Every *)
(* action is one round of a pass's loop; cursor counts the rounds.         *)
(***************************************************************************)
EXTENDS LlvmModule, IrGraph

CONSTANT Modules    \* the modules build may be called with

ASSUME BuilderAssumption == \A m \in Modules : WellFormed(m)

VARIABLES
  module, phase, cursor,
  functions, basicBlocks, nodes, edges,           \* the vectors of the graph
  functionIds, basicBlockIds, instructionNodeIds, \* pointers to ids
  cfgEdgeIds, callEdgeIds                         \* keys to edge ids

graphVars == <<functions, basicBlocks, nodes, edges>>
idVars == <<functionIds, basicBlockIds, instructionNodeIds>>
infoVars == <<cfgEdgeIds, callEdgeIds>>
builderVars == <<module, phase, cursor, graphVars, idVars, infoVars>>

EmptyMap == [x \in {} |-> 0]

Init ==
  /\ module \in Modules
  /\ phase = "blocks" /\ cursor = 0
  /\ functions = <<>> /\ basicBlocks = <<>> /\ nodes = <<>> /\ edges = <<>>
  /\ functionIds = EmptyMap /\ basicBlockIds = EmptyMap
  /\ instructionNodeIds = EmptyMap
  /\ cfgEdgeIds = EmptyMap /\ callEdgeIds = EmptyMap

\* The passes in their order, and how many rounds each has.
NextPhase ==
  [blocks |-> "nodes", nodes |-> "sequence", sequence |-> "control_flow",
   control_flow |-> "data_flow", data_flow |-> "info", info |-> "built"]

Rounds(ph) ==
  CASE ph = "blocks"    -> module.functions
    [] ph = "data_flow" -> Len(Layout(module))
    [] ph = "info"      -> Len(edges)
    [] OTHER            -> Len(module.body)

Round(ph) == phase = ph /\ cursor < Rounds(ph) /\ cursor' = cursor + 1 /\ phase' = phase

EndOfPhase ==
  /\ phase \in DOMAIN NextPhase /\ cursor = Rounds(phase)
  /\ phase' = NextPhase[phase] /\ cursor' = 0
  /\ UNCHANGED <<module, graphVars, idVars, infoVars>>

------------------------------------------------------------------------------
\* Mutated form: operator[] in the place of emplace, the last entry wins.
Assign(map, key, id) == (key :> id) @@ map

\* Adds a pointer to a map unless it is there: unordered_map::emplace.
Extended(map, more) ==
  [x \in DOMAIN map \cup DOMAIN more |-> IF x \in DOMAIN map THEN map[x] ELSE more[x]]
Emplace(map, key, id) == Extended(map, [x \in {key} |-> id])

\* Mutated form: blocks are numbered from 0 in every function.
BlockIdPerFunction(k) == k - 1

BlockIdAt(k) == Len(basicBlocks) + k - 1

RegisterFunctionsAndBasicBlocks ==
  /\ Round("blocks")
  /\ LET f == cursor + 1
         own == BlocksOf(module, f)
     IN /\ functions' = Add(functions, <<Function(
             [id |-> Len(functions), name |-> <<"function", f>>,
              entry_basic_block |-> IF own = {} THEN None ELSE BlockIdAt(1)])>>)
        /\ functionIds' = Emplace(functionIds, f, Len(functions))
        /\ basicBlocks' = Add(basicBlocks,
             [k \in 1..Cardinality(own) |-> BasicBlock(
                [id |-> BlockIdAt(k), function |-> Len(functions),
                 label |-> <<"block", EntryBlock(module, f) + k - 1>>])])
        /\ basicBlockIds' = Extended(basicBlockIds,
             [b \in own |-> BlockIdAt(b - EntryBlock(module, f) + 1)])
  /\ UNCHANGED <<module, nodes, edges, instructionNodeIds, infoVars>>

\* Sets the entry node of element id of a vector unless it has one.
WithEntryNode(vector, id, node) ==
  IF Element(vector, id).entry_node = None
  THEN [vector EXCEPT ![id + 1].entry_node = node] ELSE vector

\* Mutated form: the entry node is whatever comes last.
WithLatestEntryNode(vector, id, node) ==
  [vector EXCEPT ![id + 1].entry_node = node]

SetEntryNode(vector, id, node) == WithEntryNode(vector, id, node)

RegisterInstructionNodes ==
  /\ Round("nodes")
  /\ LET b == cursor + 1
         body == module.body[b]
         fid == functionIds[module.function_of[b]]
         bid == basicBlockIds[b]
     IN /\ nodes' = Add(nodes,
             [k \in DOMAIN body |-> Node(
                [id |-> Len(nodes) + k - 1, function |-> fid, basic_block |-> bid,
                 label |-> <<"opcode", body[k].op>>, opcode_name |-> <<"opcode", body[k].op>>])])
        /\ instructionNodeIds' = Extended(instructionNodeIds,
             [p \in {b} \X DOMAIN body |-> Len(nodes) + p[2] - 1])
        /\ functions' = SetEntryNode(functions, fid, Len(nodes))
        /\ basicBlocks' = SetEntryNode(basicBlocks, bid, Len(nodes))
  /\ UNCHANGED <<module, edges, functionIds, basicBlockIds, infoVars>>

------------------------------------------------------------------------------
\* An edge between two nodes; the pass that adds it fills in what it knows.
EdgeBetween(kind, source, target) ==
  Edge([kind |-> kind, source_node |-> source, target_node |-> target])

\* Mutated form: the id is taken after the edge was pushed.
AddEdgesCountedFromOne(new) ==
  edges' = Add(edges, [k \in DOMAIN new |-> [new[k] EXCEPT !.id = Len(edges) + k]])

\* Appends edges, each with its index as its id.
AddEdges(new) ==
  edges' = Add(edges, [k \in DOMAIN new |-> [new[k] EXCEPT !.id = Len(edges) + k - 1]])

RegisterInstructionSequenceEdges ==
  /\ Round("sequence")
  /\ LET b == cursor + 1
         at(k) == instructionNodeIds[<<b, k>>]
     IN AddEdges([k \in 1..(Len(module.body[b]) - 1) |->
                    EdgeBetween("instruction_sequence", at(k), at(k + 1))])
  /\ UNCHANGED <<module, functions, basicBlocks, nodes, idVars, infoVars>>

\* The first successor of source's terminator that is destination.
FindSuccessorIndex(source, destination) ==
  (CHOOSE k \in DOMAIN Successors(module, source) :
     /\ Successors(module, source)[k] = destination
     /\ \A j \in 1..(k - 1) : Successors(module, source)[j] # destination) - 1

\* Mutated form: the loop over a phi's blocks stops at a block seen before.
DistinctIncomingBlocks(b) ==
  SelectSeq([s \in Blocks(module) |-> s], LAMBDA s : b \in ToSet(Successors(module, s)))

\* The blocks an edge to b comes from: those of its first phi, if it has one.
IncomingBlocks(b) ==
  IF HasPhi(module, b) THEN module.body[b][1].incoming ELSE Predecessors(module, b)

RegisterControlFlowEdges ==
  /\ Round("control_flow")
  /\ LET b == cursor + 1
         fid == functionIds[module.function_of[b]]
         from == IncomingBlocks(b)
         edgeFrom(s) ==
           [EdgeBetween("control_flow", instructionNodeIds[Terminator(module, s)],
                        instructionNodeIds[<<b, 1>>])
              EXCEPT !.source_function = fid, !.target_function = fid,
                     !.source_basic_block = basicBlockIds[s],
                     !.target_basic_block = basicBlockIds[b],
                     !.successor_index = FindSuccessorIndex(s, b)]
     IN AddEdges([k \in DOMAIN from |-> edgeFrom(from[k])])
  /\ UNCHANGED <<module, functions, basicBlocks, nodes, idVars, infoVars>>

------------------------------------------------------------------------------
\* formatSlotLabel of getLocalSlot: only unnamed instructions and arguments have one.
SlotLabel(value) == IF value[1] \in {"instruction", "argument"} THEN value ELSE None

\* registerInstrUsersDataFlowEdges: an edge to every use by an instruction, in
\* the order of the use list (here: module order), then the call edge.
UserEdges(p) ==
  LET uses == UseList(module, p) IN
    [k \in DOMAIN uses |->
       [EdgeBetween("data_flow", instructionNodeIds[p], instructionNodeIds[uses[k][1]])
          EXCEPT !.label = SlotLabel(<<"instruction", p>>)]]

CallEdge(p) ==
  LET callee == Element(functions, functionIds[Instr(module, p).callee]) IN
    [EdgeBetween("call", instructionNodeIds[p], callee.entry_node)
       EXCEPT !.source_function = functionIds[module.function_of[p[1]]],
              !.target_function = callee.id,
              !.source_basic_block = basicBlockIds[p[1]],
              !.target_basic_block = callee.entry_basic_block]

\* Mutated form: a function's calls of itself get no edge.
CallEdgesToOthersOnly(p) ==
  IF /\ IsDirectCall(module, Instr(module, p))
     /\ Instr(module, p).callee # module.function_of[p[1]]
  THEN <<CallEdge(p)>> ELSE <<>>

\* Mutated form: a call of a declaration gets an edge as well.
CallEdgesToDeclarationsToo(p) ==
  IF IsCall(Instr(module, p)) /\ Instr(module, p).callee # 0 THEN <<CallEdge(p)>> ELSE <<>>

RegisterCallEdge(p) ==
  IF IsDirectCall(module, Instr(module, p)) THEN <<CallEdge(p)>> ELSE <<>>

\* registerPhiNodeOperandsDataFlowEdges: one from every incoming terminator.
PhiOperandEdges(p) ==
  [k \in DOMAIN Instr(module, p).incoming |->
     LET s == Instr(module, p).incoming[k] IN
       [EdgeBetween("data_flow", instructionNodeIds[Terminator(module, s)],
                    instructionNodeIds[p])
          EXCEPT !.label = Instr(module, p).operands[k],
                 !.source_function = functionIds[module.function_of[p[1]]],
                 !.target_function = functionIds[module.function_of[p[1]]],
                 !.source_basic_block = basicBlockIds[s],
                 !.target_basic_block = basicBlockIds[p[1]]]]

\* registerInstrUsersDataFlowEdges sets processed_call in a copy of its own, so
\* it is false when the operands are looked at.
ProcessedCall == FALSE

\* Mutated form: every function operand is taken for a hidden call target.
OperandsThatAreValues(p) ==
  LET operands == Instr(module, p).operands
  IN SelectSeq([k \in DOMAIN operands |-> k], LAMBDA k : operands[k][1] = "value")

\* The operands of an instruction that is no phi which get a node of their own.
OperandsWithNode(p) ==
  LET operands == Instr(module, p).operands
      hidden(k) == \/ operands[k][1] \in {"instruction", "block"}
                   \/ ProcessedCall /\ operands[k][1] = "function"
  IN FlattenSeq([k \in DOMAIN operands |-> Only(~ hidden(k), k)])

OperandNode(p, id, k) ==
  Node([id |-> id, kind |-> "operand", function |-> functionIds[module.function_of[p[1]]],
        basic_block |-> basicBlockIds[p[1]], label |-> Instr(module, p).operands[k],
        consumer |-> instructionNodeIds[p], operand_index |-> k - 1])

OperandEdge(p, id, k) ==
  [EdgeBetween("data_flow", id, instructionNodeIds[p])
     EXCEPT !.label = SlotLabel(Instr(module, p).operands[k])]

RegisterDataFlowAndCallEdges ==
  /\ Round("data_flow")
  /\ LET p == Layout(module)[cursor + 1]
         fromResult == UserEdges(p) \o RegisterCallEdge(p)
         operands == OperandsWithNode(p)
         node(k) == Len(nodes) + k - 1
     IN IF Instr(module, p).op = "phi"
        THEN AddEdges(fromResult \o PhiOperandEdges(p)) /\ UNCHANGED nodes
        ELSE /\ nodes' = Add(nodes,
                  [k \in DOMAIN operands |-> OperandNode(p, node(k), operands[k])])
             /\ AddEdges(fromResult \o
                  [k \in DOMAIN operands |-> OperandEdge(p, node(k), operands[k])])
  /\ UNCHANGED <<module, functions, basicBlocks, idVars, infoVars>>

PopulateBuildInfo ==
  /\ Round("info")
  /\ LET e == edges[cursor + 1] IN
       /\ cfgEdgeIds' =
            IF e.kind = "control_flow"
            THEN Emplace(cfgEdgeIds,
                   <<e.source_basic_block, e.target_basic_block, e.successor_index>>, e.id)
            ELSE cfgEdgeIds
       /\ callEdgeIds' =
            IF e.kind = "call"
            THEN Emplace(callEdgeIds, <<e.source_node, e.target_function>>, e.id)
            ELSE callEdgeIds
  /\ UNCHANGED <<module, graphVars, idVars>>

BuilderNext ==
  \/ RegisterFunctionsAndBasicBlocks
  \/ RegisterInstructionNodes
  \/ RegisterInstructionSequenceEdges
  \/ RegisterControlFlowEdges
  \/ RegisterDataFlowAndCallEdges
  \/ PopulateBuildInfo
  \/ EndOfPhase

BuilderSpec == Init /\ [][BuilderNext]_builderVars

------------------------------------------------------------------------------
IdsIn(vector) == 0..(Len(vector) - 1)

\* Types of the graph: every id it holds is one of an element that is there, and
\* only a declaration or a block not yet visited lacks its entry.
BuilderTypeOK ==
  /\ module \in Modules
  /\ cursor \in Nat
  /\ \A k \in DOMAIN functions :
       /\ functions[k].entry_basic_block \in IdsIn(basicBlocks) \cup {None}
       /\ functions[k].entry_node \in IdsIn(nodes) \cup {None}
  /\ \A k \in DOMAIN basicBlocks :
       /\ basicBlocks[k].function \in IdsIn(functions)
       /\ basicBlocks[k].entry_node \in IdsIn(nodes) \cup {None}
  /\ \A k \in DOMAIN nodes : nodes[k].kind \in {"instruction", "operand"}
  /\ \A k \in DOMAIN edges :
       /\ edges[k].kind \in {"instruction_sequence", "control_flow", "data_flow", "call"}
       /\ {edges[k].source_node, edges[k].target_node} \subseteq IdsIn(nodes)

\* An id is the index of its element in the vector of its kind, at every moment
\* of the build, and the pointer maps lead to it: Graph::function(id) and its
\* siblings, the log and the merge all rely on it (addFunction ... addEdge).
IdsArePositions ==
  /\ \A k \in DOMAIN functions : functions[k].id = k - 1
  /\ \A k \in DOMAIN basicBlocks : basicBlocks[k].id = k - 1
  /\ \A k \in DOMAIN nodes : nodes[k].id = k - 1
  /\ \A k \in DOMAIN edges : edges[k].id = k - 1
  /\ \A f \in DOMAIN functionIds : functionIds[f] = f - 1
  /\ \A b \in DOMAIN basicBlockIds : basicBlockIds[b] = b - 1

FirstNode(b) == instructionNodeIds[<<b, 1>>]

\* The references between the vectors agree: a node lies in a block of its own
\* function; an edge that names blocks or functions names those of its end
\* nodes; the entry node of a function is that of its entry block, which is
\* that block's first instruction (registerInstructionNodes, registerCallEdge).
CrossReferences ==
  /\ \A k \in DOMAIN nodes :
       nodes[k].function = basicBlocks[nodes[k].basic_block + 1].function
  /\ \A k \in DOMAIN edges :
       LET e == edges[k]
           source == nodes[e.source_node + 1]
           target == nodes[e.target_node + 1]
       IN /\ e.source_basic_block \in {None, source.basic_block}
          /\ e.target_basic_block \in {None, target.basic_block}
          /\ e.source_function \in {None, source.function}
          /\ e.target_function \in {None, target.function}
  /\ phase \notin {"blocks", "nodes"} =>
       /\ \A b \in Blocks(module) : basicBlocks[b].entry_node = FirstNode(b)
       /\ \A f \in Functions(module) :
            IF IsDeclaration(module, f)
            THEN functions[f].entry_node = None /\ functions[f].entry_basic_block = None
            ELSE /\ functions[f].entry_node = FirstNode(EntryBlock(module, f))
                 /\ functions[f].entry_basic_block = EntryBlock(module, f) - 1

EdgesOf(kind, source, target) ==
  {e \in {edges[k] : k \in DOMAIN edges} :
     e.kind = kind /\ e.source_node = source /\ e.target_node = target}

\* The built graph has, from every terminator to the first instruction of every
\* block, as many control-flow edges as the terminator has successors that are
\* that block, whether the block begins with a phi or not, and no others
\* (registerControlFlowEdgesWithPhi, registerControlFlowEdgesWithoutPhi).
ControlFlowComplete ==
  phase = "built" =>
    /\ \A s, b \in Blocks(module) :
         Cardinality(EdgesOf("control_flow", instructionNodeIds[Terminator(module, s)],
                             FirstNode(b)))
           = Cardinality({e \in EdgesInto(module, b) : e[1] = s})
    /\ Cardinality({k \in DOMAIN edges : edges[k].kind = "control_flow"})
         = Cardinality(CfgEdges(module))

\* Every direct call of a function with a body has exactly one call edge, to
\* that function's first instruction, which its key finds; nothing else has
\* (registerCallEdge, CallEdgeKey).
CallEdgesComplete ==
  phase = "built" =>
    \A p \in Pointers(module) :
      LET own == {k \in DOMAIN edges : edges[k].kind = "call"
                                       /\ edges[k].source_node = instructionNodeIds[p]}
          callee == Instr(module, p).callee
      IN IF IsDirectCall(module, Instr(module, p))
         THEN \E k \in own :
                /\ own = {k}
                /\ edges[k].target_node = FirstNode(EntryBlock(module, callee))
                /\ callEdgeIds[<<instructionNodeIds[p], callee - 1>>] = k - 1
         ELSE own = {}

\* Every use of a value by an instruction shows up exactly once: as an edge from
\* the instruction that computes it, or as an operand node of its own with the
\* index the operand has (registerInstrUsersDataFlowEdges, addOperandNode); of the
\* callee of a direct call nothing is said.
DataFlowComplete ==
  phase = "built" =>
    \A p \in Pointers(module) :
      LET me == instructionNodeIds[p]
          instr == Instr(module, p)
          mine == {k \in DOMAIN nodes : nodes[k].consumer = me}
      IN /\ \A q \in Pointers(module) :
              Cardinality({e \in EdgesOf("data_flow", me, instructionNodeIds[q]) :
                             e.target_basic_block = None})
                = Cardinality({k \in DOMAIN Instr(module, q).operands : IsUse(module, p, <<q, k>>)})
         /\ \A j \in DOMAIN instr.operands :
              LET operand == instr.operands[j]
                  own == {k \in mine : nodes[k].operand_index = j - 1 /\ nodes[k].label = operand}
              IN IF instr.op = "phi" \/ operand[1] \in {"instruction", "block"} THEN own = {}
                 ELSE \/ Cardinality(own) = 1
                      \/ IsDirectCall(module, instr) /\ operand = <<"function", instr.callee>>
         /\ \A k \in mine : Cardinality(EdgesOf("data_flow", k - 1, me)) = 1

\* Of the successors of a terminator that are one block, the lookup map holds
\* the first and only the first, and leads to the first of their edges: the log
\* of an edge can name no other (findSuccessorIndex, populateBuildInfo).
LookupFindsFirstSuccessor ==
  LET firsts == {e \in CfgEdges(module) :
                   \A j \in 1..(e[2] - 1) :
                     Successors(module, e[1])[j] # EdgeTarget(module, e)}
      keyOf(e) == <<e[1] - 1, EdgeTarget(module, e) - 1, e[2] - 1>>
  IN phase = "built" =>
       /\ DOMAIN cfgEdgeIds = {keyOf(e) : e \in firsts}
       /\ \A e \in firsts :
            LET found == edges[cfgEdgeIds[keyOf(e)] + 1] IN
              \A other \in EdgesOf("control_flow",
                                   instructionNodeIds[Terminator(module, e[1])],
                                   FirstNode(EdgeTarget(module, e))) :
                found.kind = "control_flow" /\ found.id <= other.id

\* What is in a vector stays in its place with all its fields, but for an entry node
\* that was not set yet.
KeepsElements(old, new) ==
  \A k \in DOMAIN old :
    /\ k \in DOMAIN new /\ DOMAIN new[k] = DOMAIN old[k]
    /\ \A field \in DOMAIN old[k] :
         \/ new[k][field] = old[k][field]
         \/ field = "entry_node" /\ old[k].entry_node = None

\* No later round, of whatever pass, changes a field of a function, block, node or
\* edge that is in the graph, but that a function or block without an entry node gets
\* one: it is set once (IrGraphBuilder::build, registerInstructionNodes).
GraphOnlyGrows ==
  [][/\ IsPrefix(nodes, nodes') /\ IsPrefix(edges, edges')
     /\ KeepsElements(functions, functions')
     /\ KeepsElements(basicBlocks, basicBlocks')]_builderVars

\* What is_hidden_call_target is for: the callee of a call that has a call edge
\* is no operand node (ir_graph_builder.cpp, registerInstrOperandsDataFlowEdges).
HiddenCallTarget ==
  \A k \in DOMAIN nodes :
    nodes[k].kind = "operand" /\ nodes[k].label[1] = "function" =>
      \A j \in DOMAIN edges :
        edges[j].kind = "call" => edges[j].source_node # nodes[k].consumer

==============================================================================
