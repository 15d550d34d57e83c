------------------------ MODULE IrGraphBuilderProofs ------------------------
(***************************************************************************)
(* Theorems about IrGraphBuilder, for every set of well-formed modules: at *)
(* every moment of the build ids are positions and all references between  *)
(* the vectors of the graph agree; when it is done the graph is complete.  *)
(***************************************************************************)
EXTENDS IrGraphBuilder, SequenceFacts, FiniteSetTheorems

(***************************************************************************)
(* Facts about modules.                                                    *)
(***************************************************************************)
LEMMA BodyType ==
  ASSUME NEW m, WellFormed(m)
  PROVE  /\ m.functions \in Nat /\ Len(m.body) \in Nat
         /\ \A b \in Blocks(m) :
              /\ m.function_of[b] \in Functions(m)
              /\ m.body[b] \in Seq(Instructions(m)) /\ Len(m.body[b]) \in Nat \ {0}
              /\ Terminator(m, b) \in Pointers(m) /\ <<b, 1>> \in Pointers(m)
<1>1. m.functions \in Nat /\ m.body \in Seq(Seq(Instructions(m))) /\ Len(m.body) \in Nat
  BY DEF WellFormed
<1>2. ASSUME NEW b \in Blocks(m)
      PROVE  /\ m.function_of[b] \in Functions(m)
             /\ m.body[b] \in Seq(Instructions(m)) /\ Len(m.body[b]) \in Nat \ {0}
  <2>1. m.function_of \in Seq(Functions(m)) /\ Len(m.function_of) = Len(m.body)
    BY DEF WellFormed
  <2>2. m.body[b] \in Seq(Instructions(m)) /\ m.body[b] # <<>>
    BY <1>1 DEF WellFormed, Blocks
  <2>3. m.function_of[b] \in Functions(m)
    BY <2>1 DEF Blocks
  <2> QED BY <2>2, <2>3
<1>3. ASSUME NEW b \in Blocks(m)
      PROVE  Terminator(m, b) \in Pointers(m) /\ <<b, 1>> \in Pointers(m)
  <2>1. Len(m.body[b]) \in 1..Len(m.body[b]) /\ 1 \in 1..Len(m.body[b])
    BY <1>2
  <2> QED BY <2>1 DEF Pointers, Terminator
<1> QED BY <1>1, <1>2, <1>3

\* A pointer is a block of the module and a position in it.
LEMMA PointerParts ==
  ASSUME NEW m, NEW p
  PROVE  p \in Pointers(m) <=>
           /\ p = <<p[1], p[2]>>
           /\ p[1] \in Blocks(m) /\ p[2] \in 1..Len(m.body[p[1]])
BY DEF Pointers

\* A pointer leads to an instruction.
LEMMA InstrType ==
  ASSUME NEW m, WellFormed(m), NEW p \in Pointers(m)
  PROVE  Instr(m, p) \in Instructions(m)
<1>1. p[1] \in Blocks(m) /\ p[2] \in 1..Len(m.body[p[1]])
  BY PointerParts
<1>2. m.body[p[1]] \in Seq(Instructions(m))
  BY <1>1, BodyType
<1> QED BY <1>1, <1>2 DEF Instr

\* The first block of a function is its entry block.
LEMMA EntryBlockIsFirst ==
  ASSUME NEW m, NEW f, ~ IsDeclaration(m, f), Len(m.body) \in Nat
  PROVE  /\ EntryBlock(m, f) \in BlocksOf(m, f)
         /\ \A c \in BlocksOf(m, f) : EntryBlock(m, f) <= c
<1>1. BlocksOf(m, f) \subseteq Nat /\ BlocksOf(m, f) # {}
  BY DEF BlocksOf, Blocks, IsDeclaration
<1>2. PICK b \in BlocksOf(m, f) : \A c \in BlocksOf(m, f) : b <= c
  BY <1>1, Minimum
<1>3. \A c \in BlocksOf(m, f) : IsEntryBlock(m, c) <=> \A d \in BlocksOf(m, f) : c <= d
  BY DEF IsEntryBlock, BlocksOf
<1>4. EntryBlock(m, f) \in BlocksOf(m, f) /\ IsEntryBlock(m, EntryBlock(m, f))
  BY <1>2, <1>3 DEF EntryBlock
<1> QED BY <1>3, <1>4

\* Only returns a sequence of at most one element.
LEMMA OnlyType ==
  ASSUME NEW S, NEW c, NEW x, c => x \in S
  PROVE  Only(c, x) \in Seq(S)
BY DEF Only

\* Module order lists pointers.
LEMMA LayoutType ==
  ASSUME NEW m, WellFormed(m)
  PROVE  Layout(m) \in Seq(Pointers(m))
<1> DEFINE of(b) == [k \in DOMAIN m.body[b] |-> <<b, k>>]
<1>1. Blocks(m) = 1..Len(m.body) /\ Len(m.body) \in Nat
  BY BodyType DEF Blocks
<1>2. ASSUME NEW b \in Blocks(m) PROVE of(b) \in Seq(Pointers(m))
  <2>1. DOMAIN m.body[b] = 1..Len(m.body[b]) /\ Len(m.body[b]) \in Nat
    BY BodyType
  <2>2. \A k \in 1..Len(m.body[b]) : <<b, k>> \in Pointers(m)
    BY PointerParts
  <2> QED BY <2>1, <2>2
<1> HIDE DEF of
<1>3. [b \in Blocks(m) |-> of(b)] \in Seq(Seq(Pointers(m)))
  BY <1>1, <1>2
<1> QED BY <1>3, FlattenType DEF Layout, of

\* The blocks that b is a successor of.
Before(m, b) ==
  {s \in Blocks(m) : \E k \in 1..Len(Successors(m, s)) : Successors(m, s)[k] = b}

\* The successors of a terminator are blocks.
LEMMA SuccessorsType ==
  ASSUME NEW m, WellFormed(m), NEW b \in Blocks(m)
  PROVE  /\ Successors(m, b) \in Seq(Blocks(m))
         /\ DOMAIN Successors(m, b) = 1..Len(Successors(m, b))
         /\ Len(Successors(m, b)) \in Nat
<1>1. Instr(m, Terminator(m, b)) \in Instructions(m)
  BY BodyType, InstrType
<1>2. Successors(m, b) \in Seq(Blocks(m))
  BY <1>1 DEF Instructions, Successors
<1> QED BY <1>2

\* An edge does not leave its function.
LEMMA BeforeIsInFunction ==
  ASSUME NEW m, WellFormed(m), NEW b \in Blocks(m), NEW s \in Before(m, b)
  PROVE  s \in Blocks(m) /\ m.function_of[s] = m.function_of[b]
BY DEF Before, WellFormed

\* llvm::predecessors lists blocks that an edge comes from.
LEMMA PredecessorsType ==
  ASSUME NEW m, WellFormed(m), NEW b \in Blocks(m)
  PROVE  Predecessors(m, b) \in Seq(Before(m, b))
<1> DEFINE from(s) == [k \in DOMAIN Successors(m, s) |-> Only(Successors(m, s)[k] = b, s)]
           all == [s \in Blocks(m) |-> FlattenSeq(from(s))]
<1>1. Blocks(m) = 1..Len(m.body) /\ Len(m.body) \in Nat
  BY BodyType DEF Blocks
<1>2. ASSUME NEW s \in Blocks(m) PROVE FlattenSeq(from(s)) \in Seq(Before(m, b))
  <2>1. ASSUME NEW k \in 1..Len(Successors(m, s))
        PROVE  Only(Successors(m, s)[k] = b, s) \in Seq(Before(m, b))
    <3>1. Successors(m, s)[k] = b => s \in Before(m, b)
      BY DEF Before
    <3> QED BY <3>1, OnlyType
  <2>2. from(s) \in Seq(Seq(Before(m, b)))
    <3>1. DOMAIN Successors(m, s) = 1..Len(Successors(m, s)) /\ Len(Successors(m, s)) \in Nat
      BY SuccessorsType
    <3>2. from(s) = [k \in 1..Len(Successors(m, s)) |-> Only(Successors(m, s)[k] = b, s)]
      BY <3>1
    <3> QED BY <2>1, <3>1, <3>2
  <2> HIDE DEF from
  <2> QED BY <2>2, FlattenType
<1> HIDE DEF from
<1>3. all \in Seq(Seq(Before(m, b)))
  BY <1>1, <1>2
<1>4. Predecessors(m, b) = FlattenSeq(all)
  BY DEF Predecessors, from
<1> HIDE DEF all
<1> QED BY <1>3, <1>4, FlattenType

\* The incoming blocks of a phi are predecessors.
LEMMA PhiType ==
  ASSUME NEW m, WellFormed(m), NEW p \in Pointers(m), Instr(m, p).op = "phi"
  PROVE  Instr(m, p).incoming \in Seq(Before(m, p[1]))
<1> DEFINE b == p[1]
           incoming == Instr(m, p).incoming
<1>1. b \in Blocks(m) /\ p[2] \in 1..Len(m.body[b])
  BY PointerParts
<1>2. incoming \in Seq(Blocks(m))
  BY InstrType DEF Instructions
<1>3. ASSUME NEW k \in 1..Len(incoming) PROVE incoming[k] \in Before(m, b)
  <2> DEFINE c == incoming[k]
             here == {j \in DOMAIN incoming : incoming[j] = c}
             edgesIn == {e \in EdgesInto(m, b) : e[1] = c}
  <2>1. c \in Blocks(m)
    BY <1>2
  <2>2. Cardinality(here) = Cardinality(edgesIn)
    BY <1>1, <2>1 DEF WellFormed, Instr
  <2>3. IsFiniteSet(here) /\ here # {}
    <3>1. DOMAIN incoming = 1..Len(incoming) /\ Len(incoming) \in Nat
      BY <1>2
    <3>2. IsFiniteSet(1..Len(incoming))
      BY <3>1, FS_Interval
    <3>3. here \subseteq 1..Len(incoming) /\ k \in here
      BY <3>1
    <3> QED BY <3>2, <3>3, FS_Subset
  <2>4. Cardinality(here) # 0
    BY <2>3, FS_EmptySet
  <2>5. edgesIn # {}
    BY <2>2, <2>4, FS_EmptySet
  <2>6. PICK e \in EdgesInto(m, b) : e[1] = c
    BY <2>5
  <2>7. e \in CfgEdges(m) /\ Successors(m, e[1])[e[2]] = b
    BY DEF EdgesInto, EdgeTarget
  <2>8. e[2] \in 1..Len(Successors(m, e[1]))
    BY <2>7 DEF CfgEdges
  <2> QED BY <2>1, <2>6, <2>7, <2>8 DEF Before
<1> QED BY <1>2, <1>3

\* So do the blocks that registerControlFlowEdges visits, with a phi or without.
LEMMA IncomingType ==
  ASSUME NEW m, WellFormed(m), NEW b \in Blocks(m)
  PROVE  (IF HasPhi(m, b) THEN m.body[b][1].incoming ELSE Predecessors(m, b))
           \in Seq(Before(m, b))
<1>1. CASE HasPhi(m, b)
  <2>1. <<b, 1>> \in Pointers(m) /\ Instr(m, <<b, 1>>) = m.body[b][1]
    BY BodyType DEF Instr
  <2> QED BY <1>1, <2>1, PhiType DEF HasPhi
<1>2. CASE ~ HasPhi(m, b)
  BY <1>2, PredecessorsType
<1> QED BY <1>1, <1>2

\* The use list of a value names instructions.
LEMMA UseListType ==
  ASSUME NEW m, WellFormed(m), NEW p
  PROVE  /\ IsVector(UseList(m, p))
         /\ \A k \in 1..Len(UseList(m, p)) : UseList(m, p)[k][1] \in Pointers(m)
<1> DEFINE S == Pointers(m) \X Nat
           all == [i \in DOMAIN Layout(m) |-> UsesBy(m, p, Layout(m)[i])]
<1>1. ASSUME NEW q \in Pointers(m) PROVE UsesBy(m, p, q) \in Seq(S)
  <2> DEFINE operands == Instr(m, q).operands
             uses == [k \in DOMAIN operands |-> Only(IsUse(m, p, <<q, k>>), <<q, k>>)]
  <2>1. operands \in Seq(Operands(m))
    BY InstrType DEF Instructions
  <2>2. DOMAIN operands = 1..Len(operands) /\ Len(operands) \in Nat
    BY <2>1
  <2>3. \A k \in 1..Len(operands) : Only(IsUse(m, p, <<q, k>>), <<q, k>>) \in Seq(S)
    BY OnlyType
  <2> HIDE DEF operands, S
  <2>4. uses \in Seq(Seq(S))
    BY <2>2, <2>3
  <2> HIDE DEF uses
  <2> QED BY <2>4, FlattenType DEF UsesBy, uses, operands
<1>2. Layout(m) \in Seq(Pointers(m))
  BY LayoutType
<1>3. all \in Seq(Seq(S))
  <2>1. DOMAIN Layout(m) = 1..Len(Layout(m)) /\ Len(Layout(m)) \in Nat
    BY <1>2
  <2>2. \A i \in 1..Len(Layout(m)) : UsesBy(m, p, Layout(m)[i]) \in Seq(S)
    BY <1>1, <1>2
  <2> HIDE DEF S
  <2> QED BY <2>1, <2>2
<1>4. UseList(m, p) \in Seq(S)
  <2> HIDE DEF S, all
  <2>1. FlattenSeq(all) \in Seq(S)
    BY <1>3, FlattenType
  <2> QED BY <2>1 DEF UseList, all
<1>5. \A u \in S : u[1] \in Pointers(m)
  OBVIOUS
<1> HIDE DEF S
<1> QED BY <1>4, <1>5, VectorOf

(***************************************************************************)
(* Facts about maps and about new elements of a graph.                     *)
(***************************************************************************)
LEMMA ExtendedMap ==
  ASSUME NEW map, NEW more
  PROVE  /\ DOMAIN Extended(map, more) = DOMAIN map \cup DOMAIN more
         /\ \A x \in DOMAIN map : Extended(map, more)[x] = map[x]
BY DEF Extended

\* What a pointer map has after an insertion that was new.
LEMMA ExtensionOfMap ==
  ASSUME NEW map, NEW more, NEW x \in DOMAIN more, x \notin DOMAIN map
  PROVE  Extended(map, more)[x] = more[x]
BY DEF Extended

\* What addFunction is given, and what it leaves at its initializer.
LEMMA FunctionFields ==
  ASSUME NEW id, NEW name, NEW entry
  PROVE  LET f == Function([id |-> id, name |-> name, entry_basic_block |-> entry]) IN
           /\ DOMAIN f = DOMAIN NewFunction
           /\ f.id = id /\ f.entry_basic_block = entry /\ f.entry_node = None
BY DEF Function, Setting, NewFunction

\* What addBasicBlock is given, and what it leaves at its initializer.
LEMMA BasicBlockFields ==
  ASSUME NEW id, NEW function, NEW label
  PROVE  LET b == BasicBlock([id |-> id, function |-> function, label |-> label]) IN
           /\ DOMAIN b = DOMAIN NewBasicBlock
           /\ b.id = id /\ b.function = function /\ b.entry_node = None
BY DEF BasicBlock, Setting, NewBasicBlock

\* What addInstructionNode is given.
LEMMA InstructionNodeFields ==
  ASSUME NEW id, NEW function, NEW block, NEW label, NEW opcode
  PROVE  LET n == Node([id |-> id, function |-> function, basic_block |-> block,
                        label |-> label, opcode_name |-> opcode]) IN
           n.id = id /\ n.kind = "instruction" /\ n.function = function /\ n.basic_block = block
BY DEF Node, Setting, NewNode

\* What addOperandNode is given: the block and function of the consumer.
LEMMA OperandNodeFields ==
  ASSUME NEW p, NEW id, NEW k
  PROVE  LET n == OperandNode(p, id, k) IN
           /\ n.id = id /\ n.kind = "operand"
           /\ n.function = functionIds[module.function_of[p[1]]]
           /\ n.basic_block = basicBlockIds[p[1]]
BY DEF OperandNode, Node, Setting, NewNode

\* An edge names no function and no block until its pass sets them.
LEMMA EdgeFields ==
  ASSUME NEW kind, NEW source, NEW target
  PROVE  LET e == EdgeBetween(kind, source, target) IN
           /\ DOMAIN e = DOMAIN NewEdge
           /\ e.kind = kind /\ e.source_node = source /\ e.target_node = target
           /\ e.source_function = None /\ e.target_function = None
           /\ e.source_basic_block = None /\ e.target_basic_block = None
BY DEF EdgeBetween, Edge, Setting, NewEdge

(***************************************************************************)
(* The inductive invariant: what each pass has put into the graph so far.  *)
(***************************************************************************)
\* The blocks whose nodes have been registered.
Seen == IF phase = "blocks" THEN {} ELSE IF phase = "nodes" THEN 1..cursor ELSE Blocks(module)

Control ==
  /\ module \in Modules /\ cursor \in Nat
  /\ phase \in {"blocks", "nodes", "sequence", "control_flow", "data_flow", "info", "built"}
  /\ phase = "blocks" => cursor <= module.functions
  /\ phase = "nodes" => cursor <= Len(module.body)

FunctionsKnown ==
  /\ IsVector(functions)
  /\ Len(functions) = IF phase = "blocks" THEN cursor ELSE module.functions
  /\ DOMAIN functionIds = 1..Len(functions)
  /\ \A f \in 1..Len(functions) :
       /\ DOMAIN functions[f] = DOMAIN NewFunction
       /\ functions[f].id = f - 1 /\ functionIds[f] = f - 1
       /\ functions[f].entry_basic_block
            = IF IsDeclaration(module, f) THEN None ELSE EntryBlock(module, f) - 1
       /\ functions[f].entry_node
            = IF IsDeclaration(module, f) \/ EntryBlock(module, f) \notin Seen
              THEN None ELSE FirstNode(EntryBlock(module, f))

BlocksKnown ==
  /\ IsVector(basicBlocks)
  /\ Len(basicBlocks) <= Len(module.body)
  /\ \A b \in Blocks(module) :
       b <= Len(basicBlocks) <=> (phase # "blocks" \/ module.function_of[b] <= cursor)
  /\ DOMAIN basicBlockIds = 1..Len(basicBlocks)
  /\ \A b \in 1..Len(basicBlocks) :
       /\ DOMAIN basicBlocks[b] = DOMAIN NewBasicBlock
       /\ basicBlocks[b].id = b - 1 /\ basicBlockIds[b] = b - 1
       /\ basicBlocks[b].function = module.function_of[b] - 1
       /\ basicBlocks[b].entry_node = IF b \in Seen THEN FirstNode(b) ELSE None

InBlock(n, b) == n.basic_block = b - 1 /\ n.function = module.function_of[b] - 1

NodesKnown ==
  /\ IsVector(nodes)
  /\ \A k \in 1..Len(nodes) :
       /\ nodes[k].id = k - 1 /\ nodes[k].kind \in {"instruction", "operand"}
       /\ \E b \in 1..Len(basicBlocks) : InBlock(nodes[k], b)
  /\ DOMAIN instructionNodeIds = {p \in Pointers(module) : p[1] \in Seen}
  /\ \A p \in DOMAIN instructionNodeIds :
       instructionNodeIds[p] \in IdsIn(nodes) /\ InBlock(nodes[instructionNodeIds[p] + 1], p[1])

\* The edge connects nodes that are there, and what it says of them is so.
Fits(e, vector) ==
  LET source == vector[e.source_node + 1]
      target == vector[e.target_node + 1]
  IN /\ e.kind \in {"instruction_sequence", "control_flow", "data_flow", "call"}
     /\ e.source_node \in IdsIn(vector) /\ e.target_node \in IdsIn(vector)
     /\ e.source_basic_block \in {None, source.basic_block}
     /\ e.target_basic_block \in {None, target.basic_block}
     /\ e.source_function \in {None, source.function}
     /\ e.target_function \in {None, target.function}

EdgesKnown ==
  /\ IsVector(edges)
  /\ \A k \in 1..Len(edges) : edges[k].id = k - 1 /\ Fits(edges[k], nodes)

IInv == Control /\ FunctionsKnown /\ BlocksKnown /\ NodesKnown /\ EdgesKnown

\* The elements of a vector stay when others are put behind them.
Continues(v, w) == Len(v) <= Len(w) /\ \A k \in 1..Len(v) : w[k] = v[k]

\* What no step takes back.
Grows ==
  /\ module' = module /\ Continues(nodes, nodes') /\ Continues(edges, edges')
  /\ \A b \in Seen : b \in Seen' /\ instructionNodeIds'[<<b, 1>>] = instructionNodeIds[<<b, 1>>]

\* Nothing is registered before the first pass.
LEMMA InitInvariant == Init => IInv
<1> SUFFICES ASSUME Init PROVE IInv
  OBVIOUS
<1> USE DEF Init
<1>1. IsVector(<<>>) /\ Len(<<>>) = 0 /\ 1..0 = {} /\ DOMAIN EmptyMap = {}
  BY DEF IsVector, EmptyMap
<1>2. WellFormed(module) /\ module.functions \in Nat /\ Len(module.body) \in Nat
  BY BuilderAssumption, BodyType
<1>3. ASSUME NEW b \in Blocks(module) PROVE ~ (b <= 0) /\ ~ (module.function_of[b] <= 0)
  <2>1. b \in 1..Len(module.body) /\ module.function_of[b] \in 1..module.functions
    BY <1>2, BodyType DEF Blocks, Functions
  <2> QED BY <1>2, <2>1
<1>4. Control
  BY <1>2 DEF Control
<1>5. FunctionsKnown
  BY <1>1 DEF FunctionsKnown
<1>6. BlocksKnown
  <2>1. Len(basicBlocks) = 0 /\ phase = "blocks" /\ cursor = 0
    BY <1>1
  <2>2. \A b \in Blocks(module) : b <= Len(basicBlocks) <=> module.function_of[b] <= cursor
    BY <1>3, <2>1
  <2> QED BY <1>1, <1>2, <2>1, <2>2 DEF BlocksKnown
<1>7. NodesKnown
  BY <1>1 DEF NodesKnown, Seen
<1>8. EdgesKnown
  BY <1>1 DEF EdgesKnown
<1> QED BY <1>4, <1>5, <1>6, <1>7, <1>8 DEF IInv

(***************************************************************************)
(* The first pass: a function and its blocks.                              *)
(***************************************************************************)
\* The blocks of the next function stand right behind those of the functions before.
LEMMA OwnBlocks ==
  ASSUME NEW m, WellFormed(m), NEW f \in Functions(m), NEW done \in Nat,
         done <= Len(m.body),
         \A b \in Blocks(m) : b <= done <=> m.function_of[b] <= f - 1
  PROVE  LET n == Cardinality(BlocksOf(m, f)) IN
           /\ n \in Nat /\ BlocksOf(m, f) = (done + 1)..(done + n)
           /\ done + n <= Len(m.body)
           /\ \A b \in Blocks(m) : b <= done + n <=> m.function_of[b] <= f
           /\ ~ IsDeclaration(m, f) => EntryBlock(m, f) = done + 1
<1> DEFINE len == Len(m.body)
           T == {k \in Nat : k >= done /\ \A b \in Blocks(m) : b > k => m.function_of[b] > f}
<1>1. len \in Nat /\ Blocks(m) = 1..len /\ f \in Nat \ {0}
  BY BodyType DEF Blocks, Functions
<1>2. ASSUME NEW b \in Blocks(m) PROVE m.function_of[b] \in Nat
  <2>1. m.function_of[b] \in 1..m.functions /\ m.functions \in Nat
    BY BodyType DEF Functions
  <2> QED BY <2>1
<1>3. \A b, c \in Blocks(m) : c < b => m.function_of[c] <= m.function_of[b]
  BY DEF WellFormed
<1>4. len \in T
  BY <1>1
<1>5. PICK last \in T : \A k \in T : last <= k
  <2>1. T \subseteq Nat /\ T # {}
    BY <1>4
  <2> HIDE DEF T
  <2> QED BY <2>1, Minimum
<1>6. last \in Nat /\ done <= last /\ last <= len
  BY <1>4, <1>5
<1>7. ASSUME NEW b \in Blocks(m) PROVE b <= last <=> m.function_of[b] <= f
  <2>1. b > last => m.function_of[b] > f
    BY <1>5
  <2>2. ASSUME b <= last, m.function_of[b] > f PROVE FALSE
    <3>1. b > done
      BY <1>1, <1>2, <2>2
    <3>2. last - 1 \in Nat /\ last - 1 >= done
      BY <1>1, <1>6, <2>2, <3>1
    <3>3. ASSUME NEW c \in Blocks(m), c > last - 1 PROVE m.function_of[c] > f
      <4>1. c = b \/ b < c
        BY <1>1, <1>6, <2>2, <3>3
      <4> QED BY <1>1, <1>2, <1>3, <2>2, <4>1
    <3>4. last - 1 \in T
      BY <3>2, <3>3
    <3> QED BY <1>5, <1>6, <3>4
  <2> QED BY <1>1, <1>2, <1>6, <2>1, <2>2
<1>8. BlocksOf(m, f) = (done + 1)..last
  <2>1. ASSUME NEW b PROVE b \in BlocksOf(m, f) <=> b \in (done + 1)..last
    <3>1. b \in Blocks(m) => (m.function_of[b] = f <=> b > done /\ b <= last)
      BY <1>1, <1>2, <1>6, <1>7
    <3>2. b \in (done + 1)..last <=> b \in Blocks(m) /\ b > done /\ b <= last
      BY <1>1, <1>6
    <3> QED BY <3>1, <3>2 DEF BlocksOf
  <2> QED BY <2>1
<1>9. Cardinality(BlocksOf(m, f)) = last - done
  <2>1. Cardinality((done + 1)..last)
          = IF done + 1 > last THEN 0 ELSE last - (done + 1) + 1
    BY <1>6, FS_Interval
  <2> QED BY <1>6, <1>8, <2>1
<1>10. ~ IsDeclaration(m, f) => EntryBlock(m, f) = done + 1
  <2> SUFFICES ASSUME ~ IsDeclaration(m, f) PROVE EntryBlock(m, f) = done + 1
    OBVIOUS
  <2>1. /\ EntryBlock(m, f) \in BlocksOf(m, f)
        /\ \A c \in BlocksOf(m, f) : EntryBlock(m, f) <= c
    BY <1>1, EntryBlockIsFirst
  <2> DEFINE first == EntryBlock(m, f)
  <2>2. first \in (done + 1)..last
    BY <1>8, <2>1
  <2> HIDE DEF first
  <2>3. done + 1 \in (done + 1)..last
    BY <1>6, <2>2
  <2>4. first <= done + 1
    BY <1>8, <2>1, <2>3 DEF first
  <2> QED BY <1>6, <2>2, <2>4 DEF first
<1>11. last - done \in Nat /\ done + (last - done) = last
  BY <1>6
<1> QED BY <1>6, <1>7, <1>8, <1>9, <1>10, <1>11

\* The vectors are sequences and the module is well formed.
LEMMA Known ==
  ASSUME IInv
  PROVE  /\ WellFormed(module) /\ module.functions \in Nat /\ Len(module.body) \in Nat
         /\ cursor \in Nat
         /\ Len(functions) \in Nat /\ DOMAIN functions = 1..Len(functions)
         /\ Len(basicBlocks) \in Nat /\ DOMAIN basicBlocks = 1..Len(basicBlocks)
         /\ Len(nodes) \in Nat /\ DOMAIN nodes = 1..Len(nodes)
         /\ Len(edges) \in Nat /\ DOMAIN edges = 1..Len(edges)
<1>1. module \in Modules /\ cursor \in Nat
  BY DEF IInv, Control
<1>2. WellFormed(module)
  BY <1>1, BuilderAssumption
<1>3. IsVector(functions) /\ IsVector(basicBlocks) /\ IsVector(nodes) /\ IsVector(edges)
  BY DEF IInv, FunctionsKnown, BlocksKnown, NodesKnown, EdgesKnown
<1> QED BY <1>1, <1>2, <1>3, BodyType, VectorDomain

\* registerFunctionsAndBasicBlocks, one function.
LEMMA BlocksStep ==
  ASSUME IInv, RegisterFunctionsAndBasicBlocks
  PROVE  IInv' /\ Grows
<1> DEFINE f == cursor + 1
           done == Len(basicBlocks)
           n == Cardinality(BlocksOf(module, f))
           entry == IF BlocksOf(module, f) = {} THEN None ELSE BlockIdAt(1)
           newFunction == Function([id |-> Len(functions), name |-> <<"function", f>>,
                                    entry_basic_block |-> entry])
           block(k) == BasicBlock([id |-> BlockIdAt(k), function |-> Len(functions),
                                   label |-> <<"block", EntryBlock(module, f) + k - 1>>])
           ids == [b \in BlocksOf(module, f) |-> BlockIdAt(b - EntryBlock(module, f) + 1)]
<1>1. /\ phase = "blocks" /\ phase' = phase /\ cursor < module.functions /\ cursor' = f
      /\ functions' = functions \o <<newFunction>>
      /\ functionIds' = Extended(functionIds, [x \in {f} |-> Len(functions)])
      /\ basicBlocks' = basicBlocks \o [k \in 1..n |-> block(k)]
      /\ basicBlockIds' = Extended(basicBlockIds, ids)
      /\ UNCHANGED <<module, nodes, edges, instructionNodeIds>>
  BY DEF RegisterFunctionsAndBasicBlocks, Round, Rounds, Add, Emplace
<1>2. /\ WellFormed(module) /\ module.functions \in Nat /\ cursor \in Nat /\ done \in Nat
      /\ Len(functions) = cursor /\ Len(module.body) \in Nat
  BY <1>1, Known DEF IInv, FunctionsKnown
<1>3. f \in Functions(module) /\ f - 1 = cursor
  BY <1>1, <1>2 DEF Functions
<1>4. /\ done <= Len(module.body)
      /\ \A b \in Blocks(module) : b <= done <=> module.function_of[b] <= f - 1
  BY <1>1, <1>3 DEF IInv, BlocksKnown
<1>5. /\ n \in Nat /\ BlocksOf(module, f) = (done + 1)..(done + n)
      /\ done + n <= Len(module.body)
      /\ \A b \in Blocks(module) : b <= done + n <=> module.function_of[b] <= f
      /\ ~ IsDeclaration(module, f) => EntryBlock(module, f) = done + 1
  BY <1>2, <1>3, <1>4, OwnBlocks
<1> HIDE DEF n, done
<1>6. entry = IF IsDeclaration(module, f) THEN None ELSE EntryBlock(module, f) - 1
  BY <1>2, <1>5 DEF IsDeclaration, BlockIdAt, done
<1> HIDE DEF entry
<1>7. Seen = {} /\ Seen' = {}
  BY <1>1 DEF Seen
<1>8. Control'
  BY <1>1, <1>2 DEF Control, IInv
<1> DEFINE new == [k \in 1..n |-> block(k)]
<1>9. IsVector(new) /\ Len(new) = n /\ \A k \in 1..n : new[k] = block(k)
  <2>1. new = [k \in 1..n |-> new[k]] /\ \A k \in 1..n : new[k] = block(k)
    OBVIOUS
  <2> HIDE DEF new
  <2> QED BY <1>5, <2>1, VectorIntro
<1>10. basicBlocks' = basicBlocks \o new
  BY <1>1
<1> HIDE DEF new
<1>16. IsVector(new) /\ Len(new) = n
  BY <1>9
<1>11. /\ IsVector(basicBlocks') /\ Len(basicBlocks') = done + n
       /\ \A k \in 1..done : basicBlocks'[k] = basicBlocks[k]
       /\ \A k \in 1..n : basicBlocks'[done + k] = new[k]
  <2>1. IsVector(basicBlocks)
    BY DEF IInv, BlocksKnown
  <2>2. /\ IsVector(basicBlocks \o new) /\ Len(basicBlocks \o new) = Len(basicBlocks) + Len(new)
        /\ \A k \in 1..Len(basicBlocks) : (basicBlocks \o new)[k] = basicBlocks[k]
        /\ \A k \in 1..Len(new) : (basicBlocks \o new)[Len(basicBlocks) + k] = new[k]
    BY <1>16, <2>1, Appending
  <2> QED BY <1>10, <1>16, <2>2 DEF done
<1>12. FunctionsKnown'
  <2>1. IsVector(functions) /\ IsVector(<<newFunction>>) /\ Len(<<newFunction>>) = 1
    <3> HIDE DEF newFunction
    <3>1. <<newFunction>> = [k \in 1..1 |-> <<newFunction>>[k]]
      OBVIOUS
    <3> QED BY <3>1, VectorIntro DEF IInv, FunctionsKnown
  <2>2. /\ IsVector(functions') /\ Len(functions') = f
        /\ \A k \in 1..cursor : functions'[k] = functions[k]
        /\ functions'[f] = newFunction
    <3> HIDE DEF newFunction
    <3> QED BY <1>1, <1>2, <2>1, Appending
  <2>3. /\ DOMAIN newFunction = DOMAIN NewFunction
        /\ newFunction.id = cursor /\ newFunction.entry_node = None
        /\ newFunction.entry_basic_block = entry
    BY <1>2, FunctionFields
  <2> HIDE DEF newFunction
  <2>4. /\ DOMAIN functionIds' = 1..f /\ functionIds'[f] = cursor
        /\ \A k \in 1..cursor : functionIds'[k] = functionIds[k]
    <3>1. DOMAIN functionIds = 1..cursor
      BY <1>2 DEF IInv, FunctionsKnown
    <3>2. f \notin 1..cursor /\ 1..f = (1..cursor) \cup {f}
      BY <1>2
    <3> DEFINE more == [x \in {f} |-> Len(functions)]
    <3>3. DOMAIN more = {f} /\ more[f] = cursor
      BY <1>2
    <3>4. functionIds' = Extended(functionIds, more)
      BY <1>1
    <3> HIDE DEF more, f
    <3>5. /\ DOMAIN functionIds' = (1..cursor) \cup {f}
          /\ \A k \in 1..cursor : functionIds'[k] = functionIds[k]
      BY <3>1, <3>3, <3>4, ExtendedMap
    <3>6. f \in DOMAIN more /\ f \notin DOMAIN functionIds
      BY <3>1, <3>2, <3>3
    <3>7. functionIds'[f] = more[f]
      BY <3>4, <3>6, ExtensionOfMap
    <3> QED BY <3>2, <3>3, <3>5, <3>7
  <2>5. ASSUME NEW k \in 1..f
        PROVE  /\ DOMAIN functions'[k] = DOMAIN NewFunction
               /\ functions'[k].id = k - 1 /\ functionIds'[k] = k - 1
               /\ functions'[k].entry_basic_block
                    = IF IsDeclaration(module, k) THEN None ELSE EntryBlock(module, k) - 1
               /\ functions'[k].entry_node = None
    <3>1. CASE k = f
      BY <1>3, <1>6, <2>2, <2>3, <2>4, <3>1
    <3>2. CASE k # f
      <4>1. k \in 1..cursor
        BY <1>2, <3>2
      <4> QED BY <1>2, <1>7, <2>2, <2>4, <4>1 DEF IInv, FunctionsKnown
    <3> QED BY <3>1, <3>2
  <2> QED BY <1>1, <1>7, <2>2, <2>4, <2>5 DEF FunctionsKnown
<1>13. BlocksKnown'
  <2>4. /\ IsVector(basicBlocks') /\ Len(basicBlocks') = done + n
        /\ \A k \in 1..done : basicBlocks'[k] = basicBlocks[k]
        /\ \A k \in 1..n : basicBlocks'[done + k] = block(k)
    <3> HIDE DEF block
    <3> QED BY <1>9, <1>11
  <2>5. ASSUME NEW k \in 1..n
        PROVE  /\ DOMAIN block(k) = DOMAIN NewBasicBlock
               /\ block(k).id = done + k - 1 /\ block(k).function = cursor
               /\ block(k).entry_node = None
    BY <1>2, BasicBlockFields DEF BlockIdAt, done
  <2> HIDE DEF block
  <2>6. /\ DOMAIN basicBlockIds' = 1..(done + n)
        /\ \A b \in 1..done : basicBlockIds'[b] = basicBlockIds[b]
        /\ \A b \in (done + 1)..(done + n) : basicBlockIds'[b] = b - 1
    <3>1. DOMAIN basicBlockIds = 1..done
      BY DEF IInv, BlocksKnown, done
    <3>2. DOMAIN ids = (done + 1)..(done + n)
      BY <1>5
    <3>3. ASSUME NEW b \in (done + 1)..(done + n) PROVE ids[b] = b - 1
      <4>1. EntryBlock(module, f) = done + 1
        BY <1>5 DEF IsDeclaration
      <4>2. ids[b] = done + (b - (done + 1) + 1) - 1
        BY <1>5, <4>1 DEF BlockIdAt, done
      <4> QED BY <1>2, <1>5, <4>2
    <3>4. /\ 1..(done + n) = (1..done) \cup ((done + 1)..(done + n))
          /\ \A b \in (done + 1)..(done + n) : b \notin 1..done
      BY <1>2, <1>5
    <3>5. basicBlockIds' = Extended(basicBlockIds, ids)
      BY <1>1
    <3> HIDE DEF ids
    <3>6. /\ DOMAIN basicBlockIds' = (1..done) \cup ((done + 1)..(done + n))
          /\ \A b \in 1..done : basicBlockIds'[b] = basicBlockIds[b]
      BY <3>1, <3>2, <3>5, ExtendedMap
    <3>7. ASSUME NEW b \in (done + 1)..(done + n) PROVE basicBlockIds'[b] = ids[b]
      <4>1. b \in DOMAIN ids /\ b \notin DOMAIN basicBlockIds
        BY <3>1, <3>2, <3>4
      <4> QED BY <3>5, <4>1, ExtensionOfMap
    <3> QED BY <3>3, <3>4, <3>6, <3>7
  <2>7. ASSUME NEW b \in 1..(done + n)
        PROVE  /\ DOMAIN basicBlocks'[b] = DOMAIN NewBasicBlock
               /\ basicBlocks'[b].id = b - 1 /\ basicBlockIds'[b] = b - 1
               /\ basicBlocks'[b].function = module.function_of[b] - 1
               /\ basicBlocks'[b].entry_node = None
    <3>1. CASE b \in 1..done
      BY <1>7, <2>4, <2>6, <3>1 DEF IInv, BlocksKnown, done
    <3>2. CASE b \notin 1..done
      <4>1. /\ b - done \in 1..n /\ b = done + (b - done) /\ b \in (done + 1)..(done + n)
            /\ done + (b - done) - 1 = b - 1
        BY <1>2, <1>5, <3>2
      <4>2. basicBlocks'[b] = block(b - done)
        BY <2>4, <4>1
      <4>3. module.function_of[b] = f
        BY <1>5, <4>1 DEF BlocksOf
      <4> QED BY <1>3, <2>5, <2>6, <4>1, <4>2, <4>3
    <3> QED BY <3>1, <3>2
  <2>8. \A b \in Blocks(module) :
          b <= done + n <=> (phase' # "blocks" \/ module.function_of[b] <= cursor')
    BY <1>1, <1>5
  <2> QED BY <1>1, <1>5, <1>7, <2>4, <2>6, <2>7, <2>8 DEF BlocksKnown
<1>14. NodesKnown'
  <2>1. 1..Len(basicBlocks) \subseteq 1..Len(basicBlocks')
    BY <1>2, <1>5, <1>11 DEF done
  <2>2. NodesKnown
    BY DEF IInv
  <2>3. /\ nodes' = nodes /\ instructionNodeIds' = instructionNodeIds /\ module' = module
        /\ Seen' = Seen
    BY <1>1, <1>7
  <2>4. \A e, b : InBlock(e, b)' <=> InBlock(e, b)
    BY <2>3 DEF InBlock
  <2>5. /\ IsVector(nodes') /\ Pointers(module') = Pointers(module)
        /\ IdsIn(nodes') = IdsIn(nodes)
    BY <2>2, <2>3 DEF NodesKnown
  <2> QED BY <2>1, <2>2, <2>3, <2>4, <2>5 DEF NodesKnown
<1>15. EdgesKnown'
  BY <1>1 DEF IInv, EdgesKnown, Fits, IdsIn
<1>17. Grows
  BY <1>1, <1>7, Known DEF Grows, Continues
<1> QED BY <1>8, <1>12, <1>13, <1>14, <1>15, <1>17 DEF IInv

(***************************************************************************)
(* What the later passes add.                                              *)
(***************************************************************************)
LEMMA FitsInMore ==
  ASSUME NEW v, NEW w, Len(v) \in Nat, Len(w) \in Nat, Len(v) <= Len(w),
         \A k \in 1..Len(v) : w[k] = v[k],
         NEW e, Fits(e, v)
  PROVE  Fits(e, w)
<1>1. e.source_node \in 0..(Len(v) - 1) /\ e.target_node \in 0..(Len(v) - 1)
  BY DEF Fits, IdsIn
<1>2. /\ e.source_node + 1 \in 1..Len(v) /\ e.target_node + 1 \in 1..Len(v)
      /\ e.source_node \in 0..(Len(w) - 1) /\ e.target_node \in 0..(Len(w) - 1)
  BY <1>1
<1>3. /\ w[e.source_node + 1] = v[e.source_node + 1]
      /\ w[e.target_node + 1] = v[e.target_node + 1]
  BY <1>2
<1> QED BY <1>2, <1>3 DEF Fits, IdsIn

\* Edges as the passes make them, with an id that is not set yet.
FittingEdges(new, vector) ==
  /\ IsVector(new)
  /\ \A k \in 1..Len(new) : DOMAIN new[k] = DOMAIN NewEdge /\ Fits(new[k], vector)

\* Edges that fit, put behind edges that fit.
LEMMA JoinedEdges ==
  ASSUME NEW v, NEW w, NEW vector, FittingEdges(v, vector), FittingEdges(w, vector)
  PROVE  FittingEdges(v \o w, vector)
<1>1. IsVector(v) /\ IsVector(w)
  BY DEF FittingEdges
<1>2. /\ IsVector(v \o w)
      /\ \A k \in 1..Len(v) : (v \o w)[k] = v[k]
      /\ \A k \in 1..Len(v \o w) :
           \/ k \in 1..Len(v)
           \/ k - Len(v) \in 1..Len(w) /\ (v \o w)[k] = w[k - Len(v)]
  BY <1>1, Appending
<1>3. ASSUME NEW k \in 1..Len(v \o w)
      PROVE  DOMAIN (v \o w)[k] = DOMAIN NewEdge /\ Fits((v \o w)[k], vector)
  <2>1. CASE k \in 1..Len(v)
    BY <1>2, <2>1 DEF FittingEdges
  <2>2. CASE k - Len(v) \in 1..Len(w) /\ (v \o w)[k] = w[k - Len(v)]
    BY <2>2 DEF FittingEdges
  <2> QED BY <1>2, <2>1, <2>2
<1> QED BY <1>2, <1>3 DEF FittingEdges

\* Edges given one by one.
LEMMA EdgesAsFunction ==
  ASSUME NEW n \in Nat, NEW new, NEW vector, new = [k \in 1..n |-> new[k]],
         \A k \in 1..n : DOMAIN new[k] = DOMAIN NewEdge /\ Fits(new[k], vector)
  PROVE  FittingEdges(new, vector)
BY VectorIntro DEF FittingEdges

\* A single edge.
LEMMA SingleEdge ==
  ASSUME NEW e, NEW vector, DOMAIN e = DOMAIN NewEdge, Fits(e, vector)
  PROVE  FittingEdges(<<e>>, vector)
<1> DEFINE new == <<e>>
<1>1. /\ new = [k \in 1..1 |-> new[k]]
      /\ \A k \in 1..1 : new[k] = e
  OBVIOUS
<1> HIDE DEF new
<1>2. IsVector(new) /\ Len(new) = 1
  <2>1. 1 \in Nat
    OBVIOUS
  <2> QED BY <1>1, <2>1, VectorIntro
<1>3. FittingEdges(new, vector)
  BY <1>1, <1>2 DEF FittingEdges
<1> QED BY <1>3 DEF new

\* Edges that fit still do when nodes are put behind the others.
LEMMA FittingInMore ==
  ASSUME NEW v, NEW w, Len(v) \in Nat, Len(w) \in Nat, Len(v) <= Len(w),
         \A k \in 1..Len(v) : w[k] = v[k],
         NEW new, FittingEdges(new, v)
  PROVE  FittingEdges(new, w)
BY FitsInMore DEF FittingEdges

\* Setting the id of an edge changes nothing else of it.
LEMMA EdgeWithId ==
  ASSUME NEW e, DOMAIN e = DOMAIN NewEdge, NEW id, NEW vector, Fits(e, vector)
  PROVE  [e EXCEPT !.id = id].id = id /\ Fits([e EXCEPT !.id = id], vector)
<1> DEFINE w == [e EXCEPT !.id = id]
<1>1. "id" \in DOMAIN e
  BY DEF NewEdge
<1>2. w.id = id
  BY <1>1
<1>3. /\ w.kind = e.kind /\ w.source_node = e.source_node /\ w.target_node = e.target_node
      /\ w.source_function = e.source_function /\ w.target_function = e.target_function
      /\ w.source_basic_block = e.source_basic_block
      /\ w.target_basic_block = e.target_basic_block
  BY DEF NewEdge
<1> HIDE DEF w
<1>4. Fits(w, vector)
  BY <1>3 DEF Fits
<1> QED BY <1>2, <1>4 DEF w

\* addEdge for each of some edges between nodes that are there now.
LEMMA AddedEdges ==
  ASSUME EdgesKnown, NEW new, FittingEdges(new, nodes'), AddEdges(new),
         Len(nodes) \in Nat, Len(nodes') \in Nat, Len(nodes) <= Len(nodes'),
         \A k \in 1..Len(nodes) : nodes'[k] = nodes[k]
  PROVE  EdgesKnown' /\ Continues(edges, edges')
<1> DEFINE n == Len(edges)
           added == [k \in 1..Len(new) |-> [new[k] EXCEPT !.id = n + k - 1]]
<1>1. IsVector(edges) /\ IsVector(new) /\ n \in Nat /\ Len(new) \in Nat
      /\ DOMAIN new = 1..Len(new)
  BY VectorDomain DEF EdgesKnown, FittingEdges
<1>2. edges' = edges \o added
  BY <1>1 DEF AddEdges, Add
<1>3. ASSUME NEW k \in 1..Len(new)
      PROVE  added[k].id = n + k - 1 /\ Fits(added[k], nodes')
  <2>1. DOMAIN new[k] = DOMAIN NewEdge /\ Fits(new[k], nodes')
    BY DEF FittingEdges
  <2>2. added[k] = [new[k] EXCEPT !.id = n + k - 1]
    OBVIOUS
  <2> DEFINE id == n + k - 1
  <2> HIDE DEF added, id
  <2>3. [new[k] EXCEPT !.id = id].id = id /\ Fits([new[k] EXCEPT !.id = id], nodes')
    BY <2>1, EdgeWithId
  <2> QED BY <2>2, <2>3 DEF id
<1>4. IsVector(added) /\ Len(added) = Len(new)
  <2>1. added = [k \in 1..Len(new) |-> added[k]]
    OBVIOUS
  <2> HIDE DEF added
  <2> QED BY <1>1, <2>1, VectorIntro
<1> HIDE DEF added
<1>5. /\ IsVector(edges') /\ Len(edges') = n + Len(added)
      /\ \A k \in 1..n : edges'[k] = edges[k]
      /\ \A k \in 1..Len(edges') :
           k \in 1..n \/ (k - n \in 1..Len(added) /\ edges'[k] = added[k - n])
  <2>1. LET r == edges \o added IN
          /\ IsVector(r) /\ Len(r) = Len(edges) + Len(added)
          /\ \A k \in 1..Len(edges) : r[k] = edges[k]
          /\ \A k \in 1..Len(r) :
               \/ k \in 1..Len(edges)
               \/ k - Len(edges) \in 1..Len(added) /\ r[k] = added[k - Len(edges)]
    BY <1>1, <1>4, Appending
  <2> QED BY <1>2, <2>1
<1>6. ASSUME NEW k \in 1..Len(edges') PROVE edges'[k].id = k - 1 /\ Fits(edges'[k], nodes')
  <2>1. CASE k \in 1..n
    <3>1. edges'[k].id = k - 1 /\ Fits(edges'[k], nodes)
      BY <1>5, <2>1 DEF EdgesKnown
    <3> QED BY <3>1, FitsInMore
  <2>2. CASE k - n \in 1..Len(added) /\ edges'[k] = added[k - n]
    <3>1. n + (k - n) - 1 = k - 1
      BY <1>1, <1>4, <1>5
    <3> QED BY <1>3, <1>4, <2>2, <3>1
  <2> QED BY <1>5, <2>1, <2>2
<1>7. Continues(edges, edges')
  <2>1. Len(added) \in Nat
    BY <1>1, <1>4
  <2> QED BY <1>1, <1>5, <2>1 DEF Continues
<1> QED BY <1>5, <1>6, <1>7 DEF EdgesKnown

\* Setting the entry node of one element leaves the rest of the vector alone.
LEMMA EntryNodeSet ==
  ASSUME NEW v, IsVector(v), NEW k \in 1..Len(v), "entry_node" \in DOMAIN v[k],
         NEW id, id + 1 = k, NEW node
  PROVE  LET w == WithEntryNode(v, id, node) IN
           /\ IsVector(w) /\ Len(w) = Len(v)
           /\ \A j \in 1..Len(v) : j # k => w[j] = v[j]
           /\ DOMAIN w[k] = DOMAIN v[k]
           /\ \A field \in DOMAIN v[k] : field # "entry_node" => w[k][field] = v[k][field]
           /\ w[k].entry_node = IF v[k].entry_node = None THEN node ELSE v[k].entry_node
<1> DEFINE w == WithEntryNode(v, id, node)
           old == v[k]
           new == [old EXCEPT !.entry_node = node]
<1>1. /\ Len(v) \in Nat /\ DOMAIN v = 1..Len(v)
      /\ v = [j \in 1..Len(v) |-> v[j]]
  BY VectorDomain
<1>2. CASE old.entry_node = None
  <2>1. w = [v EXCEPT ![k] = new]
    BY <1>2 DEF WithEntryNode, Element
  <2>2. /\ DOMAIN new = DOMAIN old /\ new.entry_node = node
        /\ \A field \in DOMAIN old : field # "entry_node" => new[field] = old[field]
    OBVIOUS
  <2> HIDE DEF w, new
  <2>3. /\ w = [j \in 1..Len(v) |-> w[j]] /\ w[k] = new
        /\ \A j \in 1..Len(v) : j # k => w[j] = v[j]
    BY <1>1, <2>1
  <2>4. IsVector(w) /\ Len(w) = Len(v)
    BY <1>1, <2>3, VectorIntro
  <2> QED BY <1>2, <2>2, <2>3, <2>4 DEF w
<1>3. CASE old.entry_node # None
  BY <1>3 DEF WithEntryNode, Element
<1> QED BY <1>2, <1>3

(***************************************************************************)
(* The second pass: the nodes of a block.                                  *)
(***************************************************************************)
\* registerInstructionNodes, one block.
LEMMA NodesStep ==
  ASSUME IInv, RegisterInstructionNodes
  PROVE  IInv' /\ Grows
<1> DEFINE b == cursor + 1
           body == module.body[b]
           f == module.function_of[b]
           size == Len(body)
           count == Len(nodes)
           new == [k \in DOMAIN body |-> Node(
                    [id |-> count + k - 1, function |-> functionIds[f],
                     basic_block |-> basicBlockIds[b],
                     label |-> <<"opcode", body[k].op>>, opcode_name |-> <<"opcode", body[k].op>>])]
           ids == [p \in {b} \X DOMAIN body |-> count + p[2] - 1]
<1>1. /\ phase = "nodes" /\ phase' = phase /\ cursor < Len(module.body) /\ cursor' = b
      /\ nodes' = nodes \o new
      /\ instructionNodeIds' = Extended(instructionNodeIds, ids)
      /\ functions' = WithEntryNode(functions, functionIds[f], count)
      /\ basicBlocks' = WithEntryNode(basicBlocks, basicBlockIds[b], count)
      /\ UNCHANGED <<module, edges, functionIds, basicBlockIds>>
  BY DEF RegisterInstructionNodes, Round, Rounds, Add, SetEntryNode
<1>2. /\ WellFormed(module) /\ module.functions \in Nat /\ Len(module.body) \in Nat
      /\ cursor \in Nat /\ count \in Nat /\ Len(edges) \in Nat
      /\ Len(functions) = module.functions
  BY <1>1, Known DEF IInv, FunctionsKnown
<1>3. b \in Blocks(module) /\ Blocks(module) = 1..Len(module.body) /\ b - 1 = cursor
  <2>1. cursor \in Nat /\ Len(module.body) \in Nat /\ cursor < Len(module.body)
    BY <1>1, <1>2
  <2> QED BY <2>1 DEF Blocks
<1>4. /\ f \in 1..module.functions /\ f \in Nat /\ size \in Nat \ {0}
      /\ DOMAIN body = 1..size
  <2>1. f \in Functions(module) /\ size \in Nat \ {0} /\ body \in Seq(Instructions(module))
    BY <1>2, <1>3, BodyType
  <2> HIDE DEF f, body
  <2> QED BY <1>2, <2>1 DEF Functions, size
<1>5. Len(basicBlocks) = Len(module.body) /\ functionIds[f] = f - 1 /\ basicBlockIds[b] = b - 1
  <2>1. \A c \in Blocks(module) : c <= Len(basicBlocks)
    BY <1>1 DEF IInv, BlocksKnown
  <2>2. Len(basicBlocks) <= Len(module.body) /\ Len(basicBlocks) \in Nat
    BY Known DEF IInv, BlocksKnown
  <2>3. Len(module.body) \in Blocks(module)
    <3>1. Len(module.body) \in Nat /\ b \in 1..Len(module.body)
      BY <1>2, <1>3
    <3> QED BY <1>3, <3>1
  <2>4. Len(basicBlocks) = Len(module.body)
    BY <1>2, <2>1, <2>2, <2>3
  <2> QED BY <1>2, <1>3, <1>4, <2>4 DEF IInv, BlocksKnown, FunctionsKnown
<1> HIDE DEF f, size, count, b
<1>6. Seen = 1..cursor /\ Seen' = 1..b /\ b \notin 1..cursor /\ 1..b = (1..cursor) \cup {b}
  BY <1>1, <1>2 DEF Seen, b
<1>7. Control'
  BY <1>1, <1>2 DEF Control, IInv, b
<1>8. /\ IsVector(new) /\ Len(new) = size
      /\ \A k \in 1..size : /\ new[k].id = count + k - 1 /\ new[k].kind = "instruction"
                              /\ InBlock(new[k], b)
  <2>1. ASSUME NEW k \in 1..size
        PROVE  /\ new[k].id = count + k - 1 /\ new[k].kind = "instruction"
               /\ InBlock(new[k], b)
    BY <1>4, <1>5, InstructionNodeFields DEF InBlock, f
  <2>2. new = [k \in 1..size |-> new[k]]
    BY <1>4
  <2> HIDE DEF new
  <2> QED BY <1>4, <2>1, <2>2, VectorIntro
<1>9. /\ DOMAIN ids = {b} \X (1..size)
      /\ \A k \in 1..size : ids[<<b, k>>] = count + k - 1
  BY <1>4
<1> HIDE DEF new, ids
<1>10. /\ IsVector(nodes') /\ Len(nodes') = count + size
       /\ \A k \in 1..count : nodes'[k] = nodes[k]
       /\ \A k \in 1..size : nodes'[count + k] = new[k]
       /\ \A k \in 1..(count + size) :
            k \in 1..count \/ (k - count \in 1..size /\ nodes'[k] = new[k - count])
  <2>1. IsVector(nodes)
    BY DEF IInv, NodesKnown
  <2>2. LET r == nodes \o new IN
          /\ IsVector(r) /\ Len(r) = Len(nodes) + Len(new)
          /\ \A k \in 1..Len(nodes) : r[k] = nodes[k]
          /\ \A k \in 1..Len(new) : r[Len(nodes) + k] = new[k]
          /\ \A k \in 1..Len(r) :
               \/ k \in 1..Len(nodes)
               \/ k - Len(nodes) \in 1..Len(new) /\ r[k] = new[k - Len(nodes)]
    BY <1>8, <2>1, Appending
  <2> QED BY <1>1, <1>8, <2>2 DEF count
<1>11. /\ DOMAIN instructionNodeIds' = DOMAIN instructionNodeIds \cup ({b} \X (1..size))
       /\ \A p \in DOMAIN instructionNodeIds : instructionNodeIds'[p] = instructionNodeIds[p]
       /\ \A k \in 1..size : instructionNodeIds'[<<b, k>>] = count + k - 1
  <2>1. DOMAIN instructionNodeIds = {p \in Pointers(module) : p[1] \in 1..cursor}
    BY <1>6 DEF IInv, NodesKnown
  <2>2. ASSUME NEW k \in 1..size PROVE instructionNodeIds'[<<b, k>>] = count + k - 1
    <3>1. <<b, k>> \in DOMAIN ids /\ <<b, k>> \notin DOMAIN instructionNodeIds
      BY <1>6, <1>9, <2>1
    <3>2. instructionNodeIds'[<<b, k>>] = ids[<<b, k>>]
      BY <1>1, <3>1, ExtensionOfMap
    <3> QED BY <1>9, <3>2
  <2> QED BY <1>1, <1>9, <2>2, ExtendedMap
<1>12. instructionNodeIds'[<<b, 1>>] = count
  BY <1>2, <1>4, <1>11
<1>13. ASSUME NEW c \in 1..cursor
       PROVE  <<c, 1>> \in DOMAIN instructionNodeIds /\ FirstNode(c)' = FirstNode(c)
  <2>1. c \in Blocks(module)
    BY <1>2, <1>3 DEF b
  <2>2. <<c, 1>> \in Pointers(module)
    BY <1>2, <2>1, BodyType
  <2>3. <<c, 1>> \in DOMAIN instructionNodeIds
    BY <1>6, <2>2 DEF IInv, NodesKnown
  <2> QED BY <1>11, <2>3 DEF FirstNode
<1>14. FunctionsKnown'
  <2>1. /\ IsVector(functions)
        /\ \A g \in 1..module.functions :
             /\ DOMAIN functions[g] = DOMAIN NewFunction
             /\ functions[g].id = g - 1 /\ functionIds[g] = g - 1
             /\ functions[g].entry_basic_block
                  = IF IsDeclaration(module, g) THEN None ELSE EntryBlock(module, g) - 1
             /\ functions[g].entry_node
                  = IF IsDeclaration(module, g) \/ EntryBlock(module, g) \notin 1..cursor
                    THEN None ELSE FirstNode(EntryBlock(module, g))
        /\ DOMAIN functionIds = 1..module.functions
    BY <1>1, <1>2, <1>6 DEF IInv, FunctionsKnown
  <2>2. functionIds[f] + 1 = f /\ "entry_node" \in DOMAIN functions[f]
    BY <1>4, <1>5, <2>1 DEF NewFunction
  <2>3. /\ IsVector(functions') /\ Len(functions') = module.functions
        /\ \A g \in 1..module.functions : g # f => functions'[g] = functions[g]
        /\ DOMAIN functions'[f] = DOMAIN functions[f]
        /\ \A field \in DOMAIN functions[f] :
             field # "entry_node" => functions'[f][field] = functions[f][field]
        /\ functions'[f].entry_node
             = IF functions[f].entry_node = None THEN count ELSE functions[f].entry_node
    <3> DEFINE id == functionIds[f]
               w == WithEntryNode(functions, id, count)
    <3>1. IsVector(functions) /\ f \in 1..Len(functions) /\ id + 1 = f
      BY <1>2, <1>4, <2>1, <2>2
    <3> HIDE DEF id
    <3>2. /\ IsVector(w) /\ Len(w) = Len(functions)
          /\ \A g \in 1..Len(functions) : g # f => w[g] = functions[g]
          /\ DOMAIN w[f] = DOMAIN functions[f]
          /\ \A field \in DOMAIN functions[f] :
               field # "entry_node" => w[f][field] = functions[f][field]
          /\ w[f].entry_node
               = IF functions[f].entry_node = None THEN count ELSE functions[f].entry_node
      BY <2>2, <3>1, EntryNodeSet
    <3>3. functions' = w
      BY <1>1 DEF id
    <3> QED BY <1>2, <3>2, <3>3
  <2>4. ASSUME NEW g \in 1..module.functions
        PROVE  /\ DOMAIN functions'[g] = DOMAIN NewFunction
               /\ functions'[g].id = g - 1
               /\ functions'[g].entry_basic_block
                    = IF IsDeclaration(module, g) THEN None ELSE EntryBlock(module, g) - 1
    <3>1. CASE g = f
      <4>1. "id" \in DOMAIN functions[f] /\ "entry_basic_block" \in DOMAIN functions[f]
        BY <1>4, <2>1 DEF NewFunction
      <4> QED BY <2>1, <2>3, <3>1, <4>1
    <3>2. CASE g # f
      BY <2>1, <2>3, <3>2
    <3> QED BY <3>1, <3>2
  <2>5. ASSUME NEW g \in 1..module.functions, ~ IsDeclaration(module, g)
        PROVE  functions'[g].entry_node
                 = IF EntryBlock(module, g) \notin 1..b THEN None
                   ELSE instructionNodeIds'[<<EntryBlock(module, g), 1>>]
    <3> DEFINE e == EntryBlock(module, g)
    <3>1. e \in BlocksOf(module, g) /\ \A c \in BlocksOf(module, g) : e <= c
      BY <1>2, <2>5, EntryBlockIsFirst
    <3>2. e \in Blocks(module) /\ e \in Nat /\ e # 0 /\ module.function_of[e] = g
      BY <1>3, <3>1 DEF BlocksOf
    <3>3. functions[g].entry_node = IF e \notin 1..cursor THEN None ELSE FirstNode(e)
      BY <2>1, <2>5
    <3>4. e \in 1..cursor => instructionNodeIds'[<<e, 1>>] = FirstNode(e)
      BY <1>13 DEF FirstNode
    <3> HIDE DEF e
    <3>5. CASE g # f
      <4>1. e # b
        BY <3>2, <3>5 DEF f
      <4> QED BY <1>6, <2>3, <3>3, <3>4, <3>5, <4>1 DEF e
    <3>6. CASE g = f /\ e = b
      <4>1. functions'[g].entry_node = count
        BY <1>6, <2>3, <3>3, <3>6
      <4> QED BY <1>6, <1>12, <3>6, <4>1 DEF e
    <3>7. CASE g = f /\ e # b
      <4>1. b \in BlocksOf(module, g)
        BY <1>3, <3>7 DEF BlocksOf, f
      <4>2. e \in 1..cursor
        BY <1>2, <3>1, <3>2, <3>7, <4>1 DEF b, e
      <4>3. FirstNode(e) \in Nat
        BY <1>2, <1>13, <4>2 DEF IInv, NodesKnown, IdsIn, FirstNode, count
      <4>4. functions'[g].entry_node = FirstNode(e)
        BY <2>3, <3>3, <3>7, <4>2, <4>3, NoneAssumption
      <4> QED BY <1>6, <3>4, <4>2, <4>4 DEF e
    <3> QED BY <3>5, <3>6, <3>7
  <2>6. ASSUME NEW g \in 1..module.functions, IsDeclaration(module, g)
        PROVE  functions'[g].entry_node = None
    <3>1. b \in BlocksOf(module, f)
      BY <1>3 DEF BlocksOf, f
    <3>2. g # f
      BY <2>6, <3>1 DEF IsDeclaration
    <3> QED BY <2>1, <2>3, <2>6, <3>2
  <2>7. ASSUME NEW g \in 1..module.functions
        PROVE  functions'[g].entry_node
                 = (IF IsDeclaration(module, g) \/ EntryBlock(module, g) \notin Seen
                    THEN None ELSE FirstNode(EntryBlock(module, g)))'
    BY <1>1, <1>6, <2>5, <2>6 DEF FirstNode
  <2> QED BY <1>1, <2>1, <2>3, <2>4, <2>7 DEF FunctionsKnown
<1>15. BlocksKnown'
  <2>1. /\ IsVector(basicBlocks) /\ DOMAIN basicBlockIds = Blocks(module)
        /\ \A c \in Blocks(module) :
             /\ DOMAIN basicBlocks[c] = DOMAIN NewBasicBlock
             /\ basicBlocks[c].id = c - 1 /\ basicBlockIds[c] = c - 1
             /\ basicBlocks[c].function = module.function_of[c] - 1
             /\ basicBlocks[c].entry_node = IF c \in 1..cursor THEN FirstNode(c) ELSE None
    BY <1>3, <1>5, <1>6 DEF IInv, BlocksKnown
  <2>2. /\ "entry_node" \in DOMAIN basicBlocks[b] /\ b \in Blocks(module)
        /\ "id" \in DOMAIN basicBlocks[b] /\ "function" \in DOMAIN basicBlocks[b]
    BY <1>3, <2>1 DEF NewBasicBlock, b
  <2>3. /\ IsVector(basicBlocks') /\ Len(basicBlocks') = Len(module.body)
        /\ \A c \in Blocks(module) : c # b => basicBlocks'[c] = basicBlocks[c]
        /\ DOMAIN basicBlocks'[b] = DOMAIN basicBlocks[b]
        /\ \A field \in DOMAIN basicBlocks[b] :
             field # "entry_node" => basicBlocks'[b][field] = basicBlocks[b][field]
        /\ basicBlocks'[b].entry_node
             = IF basicBlocks[b].entry_node = None THEN count ELSE basicBlocks[b].entry_node
    <3> DEFINE id == basicBlockIds[b]
               w == WithEntryNode(basicBlocks, id, count)
    <3>1. b \in 1..Len(basicBlocks) /\ id + 1 = b
      BY <1>2, <1>3, <1>5, <2>2 DEF b
    <3> HIDE DEF id
    <3>2. /\ IsVector(w) /\ Len(w) = Len(basicBlocks)
          /\ \A c \in 1..Len(basicBlocks) : c # b => w[c] = basicBlocks[c]
          /\ DOMAIN w[b] = DOMAIN basicBlocks[b]
          /\ \A field \in DOMAIN basicBlocks[b] :
               field # "entry_node" => w[b][field] = basicBlocks[b][field]
          /\ w[b].entry_node
               = IF basicBlocks[b].entry_node = None THEN count ELSE basicBlocks[b].entry_node
      BY <2>1, <2>2, <3>1, EntryNodeSet
    <3>3. basicBlocks' = w
      BY <1>1 DEF id
    <3> QED BY <1>3, <1>5, <3>2, <3>3
  <2>4. ASSUME NEW c \in Blocks(module)
        PROVE  /\ DOMAIN basicBlocks'[c] = DOMAIN NewBasicBlock
               /\ basicBlocks'[c].id = c - 1 /\ basicBlockIds'[c] = c - 1
               /\ basicBlocks'[c].function = module.function_of[c] - 1
               /\ basicBlocks'[c].entry_node
                    = IF c \in 1..b THEN instructionNodeIds'[<<c, 1>>] ELSE None
    <3>1. CASE c = b
      <4>1. basicBlocks[b].entry_node = None
        BY <1>6, <2>1, <2>2
      <4>2. b \in 1..b
        BY <1>6
      <4> QED BY <1>1, <1>12, <2>1, <2>2, <2>3, <3>1, <4>1, <4>2
    <3>2. CASE c # b
      BY <1>1, <1>6, <1>13, <2>1, <2>3, <3>2 DEF FirstNode
    <3> QED BY <3>1, <3>2
  <2>5. ASSUME NEW c \in Blocks(module)
        PROVE  basicBlocks'[c].entry_node = (IF c \in Seen THEN FirstNode(c) ELSE None)'
    BY <1>6, <2>4 DEF FirstNode
  <2>6. /\ Blocks(module') = Blocks(module) /\ Blocks(module) = 1..Len(basicBlocks')
        /\ Len(basicBlocks') <= Len(module.body)
        /\ \A c \in Blocks(module) : c <= Len(basicBlocks')
    BY <1>1, <1>2, <1>3, <2>3
  <2> QED BY <1>1, <2>1, <2>3, <2>4, <2>5, <2>6 DEF BlocksKnown
<1>16. NodesKnown'
  <2>1. /\ \A k \in 1..count :
             /\ nodes[k].id = k - 1 /\ nodes[k].kind \in {"instruction", "operand"}
             /\ \E c \in 1..Len(basicBlocks) : InBlock(nodes[k], c)
        /\ DOMAIN instructionNodeIds = {p \in Pointers(module) : p[1] \in 1..cursor}
        /\ \A p \in DOMAIN instructionNodeIds :
             /\ instructionNodeIds[p] \in 0..(count - 1)
             /\ InBlock(nodes[instructionNodeIds[p] + 1], p[1])
    BY <1>6 DEF IInv, NodesKnown, IdsIn, count
  <2>2. Len(basicBlocks') = Len(basicBlocks) /\ b \in 1..Len(basicBlocks)
    <3>1. \A c \in Blocks(module) : c <= Len(basicBlocks')
      BY <1>1, <1>15 DEF BlocksKnown
    <3>2. Len(basicBlocks') <= Len(module.body) /\ Len(basicBlocks') \in Nat
      BY <1>1, <1>15, VectorDomain DEF BlocksKnown
    <3>3. Len(module.body) \in Blocks(module)
      BY <1>1, <1>2, <1>3
    <3> QED BY <1>2, <1>3, <1>5, <3>1, <3>2, <3>3
  <2>3. ASSUME NEW k \in 1..Len(nodes')
        PROVE  /\ nodes'[k].id = k - 1 /\ nodes'[k].kind \in {"instruction", "operand"}
               /\ \E c \in 1..Len(basicBlocks) : InBlock(nodes'[k], c)
    <3>1. CASE k \in 1..count
      BY <1>10, <2>1, <3>1
    <3>2. CASE k - count \in 1..size /\ nodes'[k] = new[k - count]
      <4>1. count + (k - count) - 1 = k - 1
        BY <1>2, <1>4, <1>10
      <4> QED BY <1>8, <2>2, <3>2, <4>1
    <3> QED BY <1>10, <3>1, <3>2
  <2>4. {p \in Pointers(module) : p[1] \in 1..b}
          = {p \in Pointers(module) : p[1] \in 1..cursor} \cup ({b} \X (1..size))
    <3>1. ASSUME NEW p PROVE p \in {b} \X (1..size) <=> p \in Pointers(module) /\ p[1] = b
      <4>1. p \in Pointers(module) <=> /\ p = <<p[1], p[2]>> /\ p[1] \in Blocks(module)
                                       /\ p[2] \in 1..Len(module.body[p[1]])
        BY PointerParts
      <4>2. size = Len(module.body[b]) /\ b \in Blocks(module)
        BY <1>3 DEF size, b
      <4> QED BY <4>1, <4>2
    <3> QED BY <1>6, <3>1
  <2>5. ASSUME NEW p \in Pointers(module), p[1] \in 1..b
        PROVE  /\ instructionNodeIds'[p] \in 0..(count + size - 1)
               /\ InBlock(nodes'[instructionNodeIds'[p] + 1], p[1])
    <3>1. CASE p[1] \in 1..cursor
      <4>1. /\ instructionNodeIds[p] \in 0..(count - 1)
            /\ InBlock(nodes[instructionNodeIds[p] + 1], p[1])
            /\ instructionNodeIds'[p] = instructionNodeIds[p]
        BY <1>11, <2>1, <3>1
      <4>2. instructionNodeIds[p] + 1 \in 1..count
        BY <1>2, <4>1
      <4> QED BY <1>2, <1>4, <1>10, <4>1, <4>2
    <3>2. CASE p[1] = b
      <4>1. p = <<b, p[2]>> /\ p[2] \in 1..size
        BY <3>2, PointerParts DEF size
      <4>2. instructionNodeIds'[p] = count + p[2] - 1
        BY <1>11, <4>1
      <4>3. /\ count + p[2] - 1 \in 0..(count + size - 1)
            /\ count + p[2] - 1 + 1 = count + p[2]
        BY <1>2, <1>4, <4>1
      <4>4. nodes'[count + p[2]] = new[p[2]] /\ InBlock(new[p[2]], b)
        BY <1>8, <1>10, <4>1
      <4> QED BY <3>2, <4>2, <4>3, <4>4
    <3> QED BY <1>6, <2>5, <3>1, <3>2
  <2>6. DOMAIN instructionNodeIds' = {p \in Pointers(module) : p[1] \in 1..b}
    BY <1>11, <2>1, <2>4
  <2>7. ASSUME NEW k \in 1..Len(nodes')
        PROVE  /\ nodes'[k].id = k - 1 /\ nodes'[k].kind \in {"instruction", "operand"}
               /\ \E c \in 1..Len(basicBlocks') : InBlock(nodes[k], c)'
    <3>1. PICK c \in 1..Len(basicBlocks) : InBlock(nodes'[k], c)
      BY <2>3
    <3>2. InBlock(nodes[k], c)'
      BY <1>1, <3>1 DEF InBlock
    <3> QED BY <2>2, <2>3, <3>2
  <2>8. DOMAIN instructionNodeIds' = {p \in Pointers(module') : p[1] \in Seen'}
    BY <1>1, <1>6, <2>6
  <2>9. \A p \in DOMAIN instructionNodeIds' :
          /\ instructionNodeIds'[p] \in IdsIn(nodes)'
          /\ InBlock(nodes[instructionNodeIds[p] + 1], p[1])'
    <3> SUFFICES ASSUME NEW p \in DOMAIN instructionNodeIds'
                 PROVE  /\ instructionNodeIds'[p] \in IdsIn(nodes)'
                        /\ InBlock(nodes[instructionNodeIds[p] + 1], p[1])'
      OBVIOUS
    <3>1. p \in Pointers(module) /\ p[1] \in 1..b
      BY <2>6
    <3>2. /\ instructionNodeIds'[p] \in 0..(count + size - 1)
          /\ InBlock(nodes'[instructionNodeIds'[p] + 1], p[1])
      BY <2>5, <3>1
    <3>3. instructionNodeIds'[p] \in IdsIn(nodes)'
      <4>1. Len(nodes') = count + size
        BY <1>10
      <4>2. IdsIn(nodes)' = 0..(count + size - 1)
        BY <1>2, <1>4, <4>1 DEF IdsIn
      <4> QED BY <3>2, <4>2
    <3> QED BY <1>1, <3>2, <3>3 DEF InBlock
  <2> QED BY <1>10, <2>7, <2>8, <2>9 DEF NodesKnown
<1>17. EdgesKnown'
  <2>1. ASSUME NEW k \in 1..Len(edges)
        PROVE  edges[k].id = k - 1 /\ Fits(edges[k], nodes')
    <3>1. edges[k].id = k - 1 /\ Fits(edges[k], nodes)
      BY DEF IInv, EdgesKnown
    <3>2. Len(nodes) <= Len(nodes') /\ Len(nodes') \in Nat /\ Len(nodes) \in Nat
      BY <1>2, <1>4, <1>10 DEF count
    <3> QED BY <1>10, <3>1, <3>2, FitsInMore DEF count
  <2> QED BY <1>1, <2>1 DEF IInv, EdgesKnown
<1>18. Grows
  <2>1. Continues(nodes, nodes')
    BY <1>2, <1>4, <1>10 DEF Continues, count
  <2>2. Continues(edges, edges')
    BY <1>1, <1>2 DEF Continues
  <2> QED BY <1>1, <1>6, <1>13, <2>1, <2>2 DEF Grows, FirstNode
<1> QED BY <1>7, <1>14, <1>15, <1>16, <1>17, <1>18 DEF IInv

(***************************************************************************)
(* The passes that add edges.                                              *)
(***************************************************************************)
\* What the two passes over the blocks leave.
LEMMA AfterNodes ==
  ASSUME IInv, phase \notin {"blocks", "nodes"}
  PROVE  /\ Seen = Blocks(module) /\ Blocks(module) = 1..Len(module.body)
         /\ Len(functions) = module.functions
         /\ \A f \in Functions(module) : functionIds[f] = f - 1
         /\ \A b \in Blocks(module) :
              /\ b \in 1..Len(basicBlocks) /\ basicBlockIds[b] = b - 1
              /\ functionIds[module.function_of[b]] = module.function_of[b] - 1
         /\ DOMAIN instructionNodeIds = Pointers(module)
         /\ \A p \in Pointers(module) :
              /\ instructionNodeIds[p] \in IdsIn(nodes)
              /\ InBlock(nodes[instructionNodeIds[p] + 1], p[1])
<1>1. /\ WellFormed(module) /\ Len(functions) = module.functions
      /\ Len(module.body) \in Nat /\ Len(basicBlocks) \in Nat
  BY Known DEF IInv, FunctionsKnown
<1>2. Seen = Blocks(module)
  BY DEF Seen
<1>3. \A f \in Functions(module) : functionIds[f] = f - 1
  BY <1>1 DEF IInv, FunctionsKnown, Functions
<1>4. ASSUME NEW b \in Blocks(module)
      PROVE  /\ b \in 1..Len(basicBlocks) /\ basicBlockIds[b] = b - 1
             /\ functionIds[module.function_of[b]] = module.function_of[b] - 1
  <2>1. b <= Len(basicBlocks) /\ b \in 1..Len(module.body)
    BY DEF IInv, BlocksKnown, Blocks
  <2>2. b \in 1..Len(basicBlocks)
    BY <1>1, <2>1
  <2>3. module.function_of[b] \in Functions(module)
    BY <1>1, BodyType
  <2> QED BY <1>3, <2>2, <2>3 DEF IInv, BlocksKnown
<1>5. DOMAIN instructionNodeIds = Pointers(module)
  <2>1. DOMAIN instructionNodeIds = {p \in Pointers(module) : p[1] \in Blocks(module)}
    BY <1>2 DEF IInv, NodesKnown
  <2>2. \A p \in Pointers(module) : p[1] \in Blocks(module)
    BY PointerParts
  <2> QED BY <2>1, <2>2
<1> QED BY <1>1, <1>2, <1>3, <1>4, <1>5 DEF IInv, NodesKnown, Blocks

\* Nothing but edges, and perhaps operand nodes, is added.
LEMMA OnlyEdgesAdded ==
  ASSUME IInv, phase \notin {"blocks", "nodes"}, phase' = phase, cursor' = cursor + 1,
         UNCHANGED <<module, functions, basicBlocks, idVars>>,
         NodesKnown', EdgesKnown', Continues(nodes, nodes'), Continues(edges, edges')
  PROVE  IInv' /\ Grows
<1>1. cursor \in Nat /\ Seen' = Seen
  BY Known DEF Seen
<1>2. Control'
  BY <1>1 DEF IInv, Control
<1>3. FunctionsKnown'
  BY <1>1 DEF IInv, FunctionsKnown, FirstNode, idVars
<1>4. BlocksKnown'
  BY <1>1 DEF IInv, BlocksKnown, FirstNode, idVars
<1>5. Grows
  BY <1>1 DEF Grows, idVars
<1> QED BY <1>2, <1>3, <1>4, <1>5 DEF IInv

\* A pass that adds no node keeps what is known of the nodes.
LEMMA SameNodes ==
  ASSUME IInv, phase \notin {"blocks", "nodes"}, phase' = phase,
         UNCHANGED <<module, basicBlocks, nodes, idVars>>
  PROVE  NodesKnown' /\ Continues(nodes, nodes')
<1>1. NodesKnown'
  BY DEF IInv, NodesKnown, Seen, InBlock, IdsIn, idVars
<1>2. Continues(nodes, nodes')
  BY Known DEF Continues
<1> QED BY <1>1, <1>2

\* registerInstructionSequenceEdges, one block.
LEMMA SequenceStep ==
  ASSUME IInv, RegisterInstructionSequenceEdges
  PROVE  IInv' /\ Grows
<1> DEFINE b == cursor + 1
           size == Len(module.body[b])
           at(k) == instructionNodeIds[<<b, k>>]
           edge(k) == EdgeBetween("instruction_sequence", at(k), at(k + 1))
           new == [k \in 1..(size - 1) |-> edge(k)]
<1>1. /\ phase = "sequence" /\ phase' = phase /\ cursor < Len(module.body)
      /\ cursor' = cursor + 1 /\ AddEdges(new)
      /\ UNCHANGED <<module, functions, basicBlocks, nodes, idVars>>
  BY DEF RegisterInstructionSequenceEdges, Round, Rounds
<1>2. /\ WellFormed(module) /\ cursor \in Nat /\ Len(module.body) \in Nat
      /\ Len(nodes) \in Nat
  BY Known
<1>3. b \in Blocks(module) /\ size \in Nat \ {0}
  <2>1. b \in Blocks(module)
    BY <1>1, <1>2 DEF Blocks
  <2> HIDE DEF b
  <2> QED BY <1>2, <2>1, BodyType
<1>4. ASSUME NEW k \in 1..(size - 1)
      PROVE  DOMAIN edge(k) = DOMAIN NewEdge /\ Fits(edge(k), nodes)
  <2>1. k \in 1..size /\ k + 1 \in 1..size
    BY <1>3
  <2>2. <<b, k>> \in Pointers(module) /\ <<b, k + 1>> \in Pointers(module)
    BY <1>3, <2>1, PointerParts
  <2>3. at(k) \in IdsIn(nodes) /\ at(k + 1) \in IdsIn(nodes)
    BY <1>1, <2>2, AfterNodes
  <2> HIDE DEF at
  <2> QED BY <2>3, EdgeFields DEF Fits
<1>5. FittingEdges(new, nodes)
  <2>1. new = [k \in 1..(size - 1) |-> new[k]] /\ \A k \in 1..(size - 1) : new[k] = edge(k)
    OBVIOUS
  <2>2. size - 1 \in Nat
    BY <1>3
  <2> HIDE DEF new, edge
  <2> QED BY <1>4, <2>1, <2>2, EdgesAsFunction
<1> HIDE DEF new
<1>6. NodesKnown' /\ Continues(nodes, nodes')
  BY <1>1, SameNodes
<1>7. EdgesKnown' /\ Continues(edges, edges')
  BY <1>1, <1>2, <1>5, AddedEdges DEF IInv
<1> QED BY <1>1, <1>6, <1>7, OnlyEdgesAdded

\* registerControlFlowEdges, one block: the edge lies in one function.
LEMMA ControlFlowStep ==
  ASSUME IInv, RegisterControlFlowEdges
  PROVE  IInv' /\ Grows
<1> DEFINE b == cursor + 1
           fid == functionIds[module.function_of[b]]
           from == IncomingBlocks(b)
           between(s) == EdgeBetween("control_flow", instructionNodeIds[Terminator(module, s)],
                                     instructionNodeIds[<<b, 1>>])
           edgeFrom(s) ==
             [between(s)
                EXCEPT !.source_function = fid, !.target_function = fid,
                       !.source_basic_block = basicBlockIds[s],
                       !.target_basic_block = basicBlockIds[b],
                       !.successor_index = FindSuccessorIndex(s, b)]
           new == [k \in DOMAIN from |-> edgeFrom(from[k])]
<1>1. /\ phase = "control_flow" /\ phase' = phase /\ cursor < Len(module.body)
      /\ cursor' = cursor + 1 /\ AddEdges(new)
      /\ UNCHANGED <<module, functions, basicBlocks, nodes, idVars>>
  BY DEF RegisterControlFlowEdges, Round, Rounds
<1> HIDE DEF new, edgeFrom
<1>2. /\ WellFormed(module) /\ cursor \in Nat /\ Len(module.body) \in Nat
      /\ Len(nodes) \in Nat
  BY Known
<1>3. b \in Blocks(module)
  BY <1>1, <1>2 DEF Blocks
<1>4. from \in Seq(Before(module, b))
  BY <1>2, <1>3, IncomingType DEF IncomingBlocks
<1>5. ASSUME NEW s \in Before(module, b)
      PROVE  DOMAIN edgeFrom(s) = DOMAIN NewEdge /\ Fits(edgeFrom(s), nodes)
  <2>1. s \in Blocks(module) /\ module.function_of[s] = module.function_of[b]
    BY <1>2, <1>3, BeforeIsInFunction
  <2>2. Terminator(module, s) \in Pointers(module) /\ <<b, 1>> \in Pointers(module)
    BY <1>2, <1>3, <2>1, BodyType
  <2> DEFINE source == instructionNodeIds[Terminator(module, s)]
             target == instructionNodeIds[<<b, 1>>]
             f == module.function_of[b]
  <2>3. /\ source \in IdsIn(nodes) /\ target \in IdsIn(nodes)
        /\ nodes[source + 1].basic_block = s - 1 /\ nodes[source + 1].function = f - 1
        /\ nodes[target + 1].basic_block = b - 1 /\ nodes[target + 1].function = f - 1
    <3>1. Terminator(module, s)[1] = s /\ <<b, 1>>[1] = b
      BY DEF Terminator
    <3> QED BY <1>1, <2>1, <2>2, <3>1, AfterNodes DEF InBlock
  <2>4. fid = f - 1 /\ basicBlockIds[s] = s - 1 /\ basicBlockIds[b] = b - 1
    BY <1>1, <1>3, <2>1, AfterNodes
  <2>5. /\ DOMAIN between(s) = DOMAIN NewEdge
        /\ between(s).kind = "control_flow"
        /\ between(s).source_node = source /\ between(s).target_node = target
    BY EdgeFields
  <2> HIDE DEF between, fid, source, target, f, b
  <2>6. /\ DOMAIN edgeFrom(s) = DOMAIN NewEdge
        /\ edgeFrom(s).kind = "control_flow"
        /\ edgeFrom(s).source_node = source /\ edgeFrom(s).target_node = target
        /\ edgeFrom(s).source_function = fid /\ edgeFrom(s).target_function = fid
        /\ edgeFrom(s).source_basic_block = basicBlockIds[s]
        /\ edgeFrom(s).target_basic_block = basicBlockIds[b]
    BY <2>5 DEF NewEdge, edgeFrom
  <2> QED BY <2>3, <2>4, <2>6 DEF Fits
<1>6. FittingEdges(new, nodes)
  <2>1. DOMAIN from = 1..Len(from) /\ Len(from) \in Nat
    BY <1>4
  <2> HIDE DEF from, b
  <2>2. \A k \in 1..Len(from) : from[k] \in Before(module, b)
    BY <1>4
  <2>3. /\ new = [k \in 1..Len(from) |-> new[k]]
        /\ \A k \in 1..Len(from) : new[k] = edgeFrom(from[k])
    BY <2>1 DEF new
  <2> QED BY <1>5, <2>1, <2>2, <2>3, EdgesAsFunction
<1>7. NodesKnown' /\ Continues(nodes, nodes')
  BY <1>1, SameNodes
<1>8. EdgesKnown' /\ Continues(edges, edges')
  BY <1>1, <1>2, <1>6, AddedEdges DEF IInv
<1> QED BY <1>1, <1>7, <1>8, OnlyEdgesAdded

(***************************************************************************)
(* The edges and operand nodes of an instruction.                          *)
(***************************************************************************)
\* registerInstrUsersDataFlowEdges: edges to the users.
LEMMA UserEdgesFit ==
  ASSUME IInv, phase = "data_flow", NEW p \in Pointers(module)
  PROVE  FittingEdges(UserEdges(p), nodes)
<1> DEFINE uses == UseList(module, p)
           between(k) == EdgeBetween("data_flow", instructionNodeIds[p],
                                     instructionNodeIds[uses[k][1]])
           label == SlotLabel(<<"instruction", p>>)
           edge(k) == [between(k) EXCEPT !.label = label]
<1>1. WellFormed(module)
  BY Known
<1>2. IsVector(uses) /\ \A k \in 1..Len(uses) : uses[k][1] \in Pointers(module)
  BY <1>1, UseListType
<1>3. Len(uses) \in Nat /\ DOMAIN uses = 1..Len(uses)
  BY <1>2, VectorDomain
<1>4. UserEdges(p) = [k \in 1..Len(uses) |-> edge(k)]
  BY <1>3 DEF UserEdges
<1> HIDE DEF uses
<1>5. ASSUME NEW k \in 1..Len(uses)
      PROVE  DOMAIN edge(k) = DOMAIN NewEdge /\ Fits(edge(k), nodes)
  <2>1. /\ instructionNodeIds[p] \in IdsIn(nodes)
        /\ instructionNodeIds[uses[k][1]] \in IdsIn(nodes)
    BY <1>2, AfterNodes
  <2>2. /\ DOMAIN between(k) = DOMAIN NewEdge
        /\ between(k).kind = "data_flow" /\ between(k).source_node = instructionNodeIds[p]
        /\ between(k).target_node = instructionNodeIds[uses[k][1]]
        /\ between(k).source_function = None /\ between(k).target_function = None
        /\ between(k).source_basic_block = None /\ between(k).target_basic_block = None
    BY EdgeFields
  <2> HIDE DEF between, label
  <2>3. /\ DOMAIN edge(k) = DOMAIN NewEdge
        /\ edge(k).kind = "data_flow" /\ edge(k).source_node = instructionNodeIds[p]
        /\ edge(k).target_node = instructionNodeIds[uses[k][1]]
        /\ edge(k).source_function = None /\ edge(k).target_function = None
        /\ edge(k).source_basic_block = None /\ edge(k).target_basic_block = None
    BY <2>2 DEF NewEdge
  <2> HIDE DEF edge
  <2> QED BY <2>1, <2>3 DEF Fits
<1> HIDE DEF edge
<1>6. /\ UserEdges(p) = [k \in 1..Len(uses) |-> UserEdges(p)[k]]
      /\ \A k \in 1..Len(uses) : UserEdges(p)[k] = edge(k)
  BY <1>4
<1> QED BY <1>3, <1>5, <1>6, EdgesAsFunction

\* registerCallEdge: the callee has a body, hence an entry node in its entry block.
LEMMA CallEdgeFits ==
  ASSUME IInv, phase = "data_flow", NEW p \in Pointers(module)
  PROVE  FittingEdges(RegisterCallEdge(p), nodes)
<1> DEFINE c == Instr(module, p).callee
           e == EntryBlock(module, c)
           callee == Element(functions, functionIds[c])
           between == EdgeBetween("call", instructionNodeIds[p], callee.entry_node)
           f == module.function_of[p[1]]
<1>1. WellFormed(module) /\ Len(module.body) \in Nat /\ module.functions \in Nat
  BY Known
<1>2. CASE IsDirectCall(module, Instr(module, p))
  <2>1. c \in Functions(module) /\ ~ IsDeclaration(module, c)
    <3>1. Instr(module, p) \in Instructions(module)
      BY <1>1, InstrType
    <3> QED BY <1>2, <3>1 DEF Instructions, IsDirectCall
  <2>2. e \in Blocks(module) /\ module.function_of[e] = c
    BY <1>1, <2>1, EntryBlockIsFirst DEF BlocksOf
  <2>3. p[1] \in Blocks(module) /\ <<e, 1>> \in Pointers(module)
    BY <1>1, <2>2, BodyType, PointerParts
  <2> HIDE DEF c, e
  <2>4. callee = functions[c]
    <3>1. functionIds[c] = c - 1 /\ c \in Nat
      BY <1>1, <2>1, AfterNodes DEF Functions
    <3> QED BY <3>1 DEF Element
  <2>5. callee.id = c - 1 /\ callee.entry_node = FirstNode(e) /\ callee.entry_basic_block = e - 1
    <3>1. c \in 1..Len(functions) /\ e \in Seen
      BY <2>1, <2>2, AfterNodes DEF Functions
    <3> QED BY <2>1, <2>4, <3>1 DEF IInv, FunctionsKnown, e
  <2>6. /\ FirstNode(e) \in IdsIn(nodes) /\ instructionNodeIds[p] \in IdsIn(nodes)
        /\ nodes[FirstNode(e) + 1].basic_block = e - 1
        /\ nodes[FirstNode(e) + 1].function = c - 1
        /\ nodes[instructionNodeIds[p] + 1].basic_block = p[1] - 1
        /\ nodes[instructionNodeIds[p] + 1].function = f - 1
        /\ functionIds[f] = f - 1 /\ basicBlockIds[p[1]] = p[1] - 1
    <3>1. <<e, 1>>[1] = e
      OBVIOUS
    <3> QED BY <2>2, <2>3, <3>1, AfterNodes DEF FirstNode, InBlock
  <2>7. /\ DOMAIN between = DOMAIN NewEdge
        /\ between.kind = "call" /\ between.source_node = instructionNodeIds[p]
        /\ between.target_node = FirstNode(e)
    BY <2>5, EdgeFields
  <2>8. CallEdge(p) = [between EXCEPT !.source_function = functionIds[f],
                                      !.target_function = callee.id,
                                      !.source_basic_block = basicBlockIds[p[1]],
                                      !.target_basic_block = callee.entry_basic_block]
    BY DEF CallEdge, c
  <2> HIDE DEF between, callee, f
  <2>9. /\ DOMAIN CallEdge(p) = DOMAIN NewEdge
        /\ CallEdge(p).kind = "call" /\ CallEdge(p).source_node = instructionNodeIds[p]
        /\ CallEdge(p).target_node = FirstNode(e)
        /\ CallEdge(p).source_function = functionIds[f]
        /\ CallEdge(p).target_function = callee.id
        /\ CallEdge(p).source_basic_block = basicBlockIds[p[1]]
        /\ CallEdge(p).target_basic_block = callee.entry_basic_block
    BY <2>7, <2>8 DEF NewEdge
  <2>10. Fits(CallEdge(p), nodes)
    BY <2>5, <2>6, <2>9 DEF Fits
  <2>11. RegisterCallEdge(p) = <<CallEdge(p)>>
    BY <1>2 DEF RegisterCallEdge
  <2> QED BY <2>9, <2>10, <2>11, SingleEdge
<1>3. CASE ~ IsDirectCall(module, Instr(module, p))
  <2>1. RegisterCallEdge(p) = <<>>
    BY <1>3 DEF RegisterCallEdge
  <2>2. IsVector(<<>>) /\ Len(<<>>) = 0 /\ 1..0 = {}
    BY DEF IsVector
  <2> QED BY <2>1, <2>2 DEF FittingEdges
<1> QED BY <1>2, <1>3

\* registerPhiNodeOperandsDataFlowEdges: the terminator is one of the same function.
LEMMA PhiOperandEdgesFit ==
  ASSUME IInv, phase = "data_flow", NEW p \in Pointers(module), Instr(module, p).op = "phi"
  PROVE  FittingEdges(PhiOperandEdges(p), nodes)
<1> DEFINE incoming == Instr(module, p).incoming
           f == module.function_of[p[1]]
           source(s) == instructionNodeIds[Terminator(module, s)]
           between(s) == EdgeBetween("data_flow", source(s), instructionNodeIds[p])
           edge(k) == [between(incoming[k])
                         EXCEPT !.label = Instr(module, p).operands[k],
                                !.source_function = functionIds[f],
                                !.target_function = functionIds[f],
                                !.source_basic_block = basicBlockIds[incoming[k]],
                                !.target_basic_block = basicBlockIds[p[1]]]
<1>1. WellFormed(module) /\ p[1] \in Blocks(module)
  BY Known, PointerParts
<1>2. incoming \in Seq(Before(module, p[1]))
  BY <1>1, PhiType
<1>3. /\ Len(incoming) \in Nat /\ DOMAIN incoming = 1..Len(incoming)
      /\ \A k \in 1..Len(incoming) : incoming[k] \in Before(module, p[1])
  BY <1>2
<1>4. PhiOperandEdges(p) = [k \in 1..Len(incoming) |-> edge(k)]
  BY <1>3 DEF PhiOperandEdges
<1> HIDE DEF incoming
<1>5. ASSUME NEW k \in 1..Len(incoming)
      PROVE  DOMAIN edge(k) = DOMAIN NewEdge /\ Fits(edge(k), nodes)
  <2> DEFINE s == incoming[k]
             from == source(s)
             to == instructionNodeIds[p]
             label == Instr(module, p).operands[k]
  <2>1. s \in Blocks(module) /\ module.function_of[s] = f
    BY <1>1, <1>3, BeforeIsInFunction
  <2>2. Terminator(module, s) \in Pointers(module)
    BY <1>1, <2>1, BodyType
  <2>3. /\ from \in IdsIn(nodes) /\ to \in IdsIn(nodes)
        /\ nodes[from + 1].basic_block = s - 1 /\ nodes[from + 1].function = f - 1
        /\ nodes[to + 1].basic_block = p[1] - 1 /\ nodes[to + 1].function = f - 1
        /\ functionIds[f] = f - 1 /\ basicBlockIds[s] = s - 1
        /\ basicBlockIds[p[1]] = p[1] - 1
    <3>1. Terminator(module, s)[1] = s
      BY DEF Terminator
    <3> QED BY <1>1, <2>1, <2>2, <3>1, AfterNodes DEF InBlock
  <2>4. /\ DOMAIN between(s) = DOMAIN NewEdge /\ between(s).kind = "data_flow"
        /\ between(s).source_node = from /\ between(s).target_node = to
    BY EdgeFields
  <2> HIDE DEF between, source, s, to, label, f
  <2>5. /\ DOMAIN edge(k) = DOMAIN NewEdge /\ edge(k).kind = "data_flow"
        /\ edge(k).source_node = from /\ edge(k).target_node = to
        /\ edge(k).source_function = functionIds[f]
        /\ edge(k).target_function = functionIds[f]
        /\ edge(k).source_basic_block = basicBlockIds[s]
        /\ edge(k).target_basic_block = basicBlockIds[p[1]]
    BY <2>4 DEF NewEdge, s
  <2> HIDE DEF edge
  <2> QED BY <2>3, <2>5 DEF Fits
<1> HIDE DEF edge
<1>6. /\ PhiOperandEdges(p) = [k \in 1..Len(incoming) |-> PhiOperandEdges(p)[k]]
      /\ \A k \in 1..Len(incoming) : PhiOperandEdges(p)[k] = edge(k)
  BY <1>4
<1> QED BY <1>3, <1>5, <1>6, EdgesAsFunction

\* The edge from an operand node to its consumer.
LEMMA OperandEdgeFits ==
  ASSUME NEW p, NEW id, NEW k, NEW vector, id \in 0..(Len(vector) - 1),
         instructionNodeIds[p] \in 0..(Len(vector) - 1)
  PROVE  /\ DOMAIN OperandEdge(p, id, k) = DOMAIN NewEdge
         /\ Fits(OperandEdge(p, id, k), vector)
<1> DEFINE between == EdgeBetween("data_flow", id, instructionNodeIds[p])
           label == SlotLabel(Instr(module, p).operands[k])
           e == [between EXCEPT !.label = label]
<1>1. /\ DOMAIN between = DOMAIN NewEdge /\ between.kind = "data_flow"
      /\ between.source_node = id /\ between.target_node = instructionNodeIds[p]
      /\ between.source_function = None /\ between.target_function = None
      /\ between.source_basic_block = None /\ between.target_basic_block = None
  BY EdgeFields
<1> HIDE DEF between, label
<1>2. /\ DOMAIN e = DOMAIN NewEdge /\ e.kind = "data_flow"
      /\ e.source_node = id /\ e.target_node = instructionNodeIds[p]
      /\ e.source_function = None /\ e.target_function = None
      /\ e.source_basic_block = None /\ e.target_basic_block = None
  BY <1>1 DEF NewEdge
<1>3. OperandEdge(p, id, k) = e
  BY DEF OperandEdge, between, label
<1> HIDE DEF e
<1> QED BY <1>2, <1>3 DEF Fits, IdsIn

\* The operands that get a node are counted by their index.
LEMMA OperandsType ==
  ASSUME WellFormed(module), NEW p \in Pointers(module)
  PROVE  OperandsWithNode(p) \in Seq(Nat)
<1> DEFINE operands == Instr(module, p).operands
           hidden(k) == \/ operands[k][1] \in {"instruction", "block"}
                        \/ ProcessedCall /\ operands[k][1] = "function"
           picked == [k \in DOMAIN operands |-> Only(~ hidden(k), k)]
<1>1. operands \in Seq(Operands(module))
  BY InstrType DEF Instructions
<1>2. Len(operands) \in Nat /\ DOMAIN operands = 1..Len(operands)
  BY <1>1
<1>3. OperandsWithNode(p) = FlattenSeq(picked)
  BY DEF OperandsWithNode
<1>4. \A k \in 1..Len(operands) : Only(~ hidden(k), k) \in Seq(Nat)
  BY <1>2, OnlyType
<1> HIDE DEF operands, hidden
<1>5. picked \in Seq(Seq(Nat))
  BY <1>2, <1>4
<1> HIDE DEF picked
<1> QED BY <1>3, <1>5, FlattenType

\* registerDataFlowAndCallEdges, one instruction.
LEMMA DataFlowStep ==
  ASSUME IInv, RegisterDataFlowAndCallEdges
  PROVE  IInv' /\ Grows
<1> DEFINE p == Layout(module)[cursor + 1]
           fromResult == UserEdges(p) \o RegisterCallEdge(p)
           operands == OperandsWithNode(p)
           count == Len(nodes)
           node(k) == OperandNode(p, count + k - 1, operands[k])
           edge(k) == OperandEdge(p, count + k - 1, operands[k])
           newNodes == [k \in DOMAIN operands |-> node(k)]
           newEdges == [k \in DOMAIN operands |-> edge(k)]
           me == instructionNodeIds[p]
<1>1. /\ phase = "data_flow" /\ phase' = phase /\ cursor < Len(Layout(module))
      /\ cursor' = cursor + 1
      /\ UNCHANGED <<module, functions, basicBlocks, idVars>>
  BY DEF RegisterDataFlowAndCallEdges, Round, Rounds
<1>2. \/ /\ Instr(module, p).op = "phi"
         /\ AddEdges(fromResult \o PhiOperandEdges(p)) /\ UNCHANGED nodes
      \/ /\ nodes' = nodes \o newNodes
         /\ AddEdges(fromResult \o newEdges)
  BY DEF RegisterDataFlowAndCallEdges, Add
<1>3. /\ WellFormed(module) /\ cursor \in Nat /\ count \in Nat
  BY Known
<1>4. p \in Pointers(module)
  <2>1. Layout(module) \in Seq(Pointers(module))
    BY <1>3, LayoutType
  <2>2. cursor + 1 \in 1..Len(Layout(module))
    BY <1>1, <1>3, <2>1
  <2> QED BY <2>1, <2>2
<1> HIDE DEF p, count
<1>5. FittingEdges(fromResult, nodes)
  BY <1>1, <1>4, UserEdgesFit, CallEdgeFits, JoinedEdges
<1> HIDE DEF fromResult, newNodes, newEdges
<1>6. CASE /\ Instr(module, p).op = "phi"
           /\ AddEdges(fromResult \o PhiOperandEdges(p)) /\ UNCHANGED nodes
  <2> DEFINE new == fromResult \o PhiOperandEdges(p)
  <2>1. FittingEdges(new, nodes)
    BY <1>1, <1>4, <1>5, <1>6, PhiOperandEdgesFit, JoinedEdges
  <2> HIDE DEF new
  <2>2. FittingEdges(new, nodes')
    BY <1>6, <2>1
  <2>3. EdgesKnown' /\ Continues(edges, edges')
    BY <1>3, <1>6, <2>2, AddedEdges DEF IInv, new, count
  <2>4. NodesKnown' /\ Continues(nodes, nodes')
    BY <1>1, <1>6, SameNodes
  <2> QED BY <1>1, <2>3, <2>4, OnlyEdgesAdded
<1>7. CASE nodes' = nodes \o newNodes /\ AddEdges(fromResult \o newEdges)
  <2>1. Len(operands) \in Nat /\ DOMAIN operands = 1..Len(operands)
    <3>1. operands \in Seq(Nat)
      BY <1>3, <1>4, OperandsType
    <3> HIDE DEF operands
    <3> QED BY <3>1
  <2> DEFINE n == Len(operands)
  <2> HIDE DEF operands, n
  <2>2. /\ p[1] \in Blocks(module) /\ p[1] \in 1..Len(basicBlocks)
        /\ functionIds[module.function_of[p[1]]] = module.function_of[p[1]] - 1
        /\ basicBlockIds[p[1]] = p[1] - 1
        /\ me \in IdsIn(nodes) /\ InBlock(nodes[me + 1], p[1])
    BY <1>1, <1>4, AfterNodes, PointerParts
  <2>3. ASSUME NEW k \in 1..n
        PROVE  /\ node(k).id = count + k - 1 /\ node(k).kind = "operand"
               /\ InBlock(node(k), p[1])
    BY <2>2, OperandNodeFields DEF InBlock
  <2> HIDE DEF node
  <2>4. /\ IsVector(newNodes) /\ Len(newNodes) = n
        /\ \A k \in 1..n : newNodes[k] = node(k)
    <3>1. newNodes = [k \in 1..n |-> newNodes[k]] /\ \A k \in 1..n : newNodes[k] = node(k)
      BY <2>1 DEF newNodes, n
    <3>2. n \in Nat
      BY <2>1 DEF n
    <3> QED BY <3>1, <3>2, VectorIntro
  <2>5. /\ IsVector(nodes') /\ Len(nodes') = count + n
        /\ \A k \in 1..count : nodes'[k] = nodes[k]
        /\ \A k \in 1..(count + n) :
             k \in 1..count \/ (k - count \in 1..n /\ nodes'[k] = node(k - count))
    <3>1. IsVector(nodes)
      BY DEF IInv, NodesKnown
    <3>2. LET r == nodes \o newNodes IN
            /\ IsVector(r) /\ Len(r) = Len(nodes) + Len(newNodes)
            /\ \A k \in 1..Len(nodes) : r[k] = nodes[k]
            /\ \A k \in 1..Len(r) :
                 \/ k \in 1..Len(nodes)
                 \/ k - Len(nodes) \in 1..Len(newNodes) /\ r[k] = newNodes[k - Len(nodes)]
      BY <2>4, <3>1, Appending
    <3> QED BY <1>7, <2>4, <3>2 DEF count
  <2>6. n \in Nat /\ Len(nodes) = count /\ Len(nodes) <= Len(nodes') /\ Len(nodes') \in Nat
    BY <1>3, <2>1, <2>5 DEF n, count
  <2>7. NodesKnown'
    <3>1. /\ DOMAIN instructionNodeIds = Pointers(module)
          /\ \A q \in Pointers(module) : instructionNodeIds[q] \in 0..(count - 1)
      BY <1>1, AfterNodes DEF IdsIn, count
    <3>2. ASSUME NEW k \in 1..Len(nodes')
          PROVE  /\ nodes'[k].id = k - 1 /\ nodes'[k].kind \in {"instruction", "operand"}
                 /\ \E b \in 1..Len(basicBlocks) : InBlock(nodes'[k], b)
      <4>1. CASE k \in 1..count
        BY <2>5, <4>1 DEF IInv, NodesKnown, count
      <4>2. CASE k - count \in 1..n /\ nodes'[k] = node(k - count)
        <5>1. count + (k - count) - 1 = k - 1
          BY <1>3, <2>5, <2>6
        <5> QED BY <2>2, <2>3, <4>2, <5>1
      <4> QED BY <2>5, <4>1, <4>2
    <3>3. ASSUME NEW q \in Pointers(module)
          PROVE  /\ instructionNodeIds[q] \in 0..(count + n - 1)
                 /\ InBlock(nodes'[instructionNodeIds[q] + 1], q[1])
      <4>1. instructionNodeIds[q] \in 0..(count - 1) /\ instructionNodeIds[q] + 1 \in 1..count
        BY <1>3, <3>1
      <4>2. InBlock(nodes[instructionNodeIds[q] + 1], q[1])
        BY <1>1, AfterNodes
      <4> QED BY <1>3, <2>5, <2>6, <4>1, <4>2
    <3>4. IdsIn(nodes)' = 0..(count + n - 1)
      BY <1>3, <2>5, <2>6 DEF IdsIn
    <3>5. \A k \in 1..Len(nodes') :
            /\ nodes'[k].id = k - 1 /\ nodes'[k].kind \in {"instruction", "operand"}
            /\ \E b \in 1..Len(basicBlocks') : InBlock(nodes[k], b)'
      BY <1>1, <3>2 DEF InBlock
    <3>6. \A q \in DOMAIN instructionNodeIds' :
            /\ instructionNodeIds'[q] \in IdsIn(nodes)'
            /\ InBlock(nodes[instructionNodeIds[q] + 1], q[1])'
      BY <1>1, <3>1, <3>3, <3>4 DEF InBlock, idVars
    <3>7. DOMAIN instructionNodeIds' = {q \in Pointers(module') : q[1] \in Seen'}
      <4>1. Seen' = Seen /\ DOMAIN instructionNodeIds = {q \in Pointers(module) : q[1] \in Seen}
        BY <1>1 DEF Seen, IInv, NodesKnown
      <4> QED BY <1>1, <4>1 DEF idVars
    <3> QED BY <2>5, <3>5, <3>6, <3>7 DEF NodesKnown
  <2>8. FittingEdges(newEdges, nodes')
    <3>1. /\ newEdges = [k \in 1..n |-> newEdges[k]]
          /\ \A k \in 1..n : newEdges[k] = edge(k)
      BY <2>1 DEF newEdges, n
    <3>2. ASSUME NEW k \in 1..n
          PROVE  DOMAIN edge(k) = DOMAIN NewEdge /\ Fits(edge(k), nodes')
      <4>1. me \in 0..(Len(nodes') - 1)
        BY <1>3, <2>2, <2>5, <2>6 DEF IdsIn
      <4>2. count + k - 1 \in 0..(Len(nodes') - 1)
        BY <1>3, <2>5, <2>6
      <4> QED BY <4>1, <4>2, OperandEdgeFits
    <3> HIDE DEF edge
    <3> QED BY <2>6, <3>1, <3>2, EdgesAsFunction
  <2>9. FittingEdges(fromResult, nodes')
    BY <1>3, <1>5, <2>5, <2>6, FittingInMore
  <2> DEFINE new == fromResult \o newEdges
  <2>10. FittingEdges(new, nodes')
    BY <2>8, <2>9, JoinedEdges
  <2> HIDE DEF new
  <2>11. EdgesKnown' /\ Continues(edges, edges')
    BY <1>7, <2>5, <2>6, <2>10, AddedEdges DEF IInv, new
  <2>12. Continues(nodes, nodes')
    BY <2>5, <2>6 DEF Continues
  <2> QED BY <1>1, <2>7, <2>11, <2>12, OnlyEdgesAdded
<1> QED BY <1>2, <1>6, <1>7

(***************************************************************************)
(* The other steps, and the theorems.                                      *)
(***************************************************************************)
\* populateBuildInfo, one edge: only the lookup maps change.
LEMMA InfoStep ==
  ASSUME IInv, PopulateBuildInfo
  PROVE  IInv' /\ Grows
<1>1. /\ phase = "info" /\ phase' = phase /\ cursor' = cursor + 1 /\ cursor \in Nat
      /\ UNCHANGED <<module, graphVars, idVars>>
  BY Known DEF PopulateBuildInfo, Round
<1>2. NodesKnown' /\ Continues(nodes, nodes')
  BY <1>1, SameNodes DEF graphVars
<1>3. EdgesKnown' /\ Continues(edges, edges')
  <2>1. EdgesKnown'
    BY <1>1 DEF IInv, EdgesKnown, Fits, IdsIn, graphVars
  <2>2. Continues(edges, edges')
    BY <1>1, Known DEF Continues, graphVars
  <2> QED BY <2>1, <2>2
<1> QED BY <1>1, <1>2, <1>3, OnlyEdgesAdded DEF graphVars

\* From one pass to the next: what is registered is what the next pass counts on.
LEMMA EndOfPhaseStep ==
  ASSUME IInv, EndOfPhase
  PROVE  IInv' /\ Grows
<1>1. /\ phase \in DOMAIN NextPhase /\ cursor = Rounds(phase)
      /\ phase' = NextPhase[phase] /\ cursor' = 0
      /\ UNCHANGED <<module, functions, basicBlocks, nodes, edges, idVars>>
  BY DEF EndOfPhase, graphVars
<1>2. /\ WellFormed(module) /\ Len(module.body) \in Nat /\ module.functions \in Nat
      /\ Blocks(module) = 1..Len(module.body)
  BY Known DEF Blocks
<1>3. /\ phase = "blocks" => cursor = module.functions /\ phase' = "nodes"
      /\ phase = "nodes" => cursor = Len(module.body) /\ phase' = "sequence"
      /\ phase \notin {"blocks", "nodes"} => phase' \notin {"blocks", "nodes"}
      /\ phase' \in {"nodes", "sequence", "control_flow", "data_flow", "info", "built"}
  BY <1>1 DEF Rounds, NextPhase
<1>4. Seen' = Seen
  BY <1>1, <1>2, <1>3 DEF Seen
<1>5. Control'
  BY <1>1, <1>2, <1>3 DEF IInv, Control
<1>6. FunctionsKnown'
  BY <1>1, <1>3, <1>4 DEF IInv, FunctionsKnown, FirstNode, idVars
<1>7. BlocksKnown'
  <2>1. \A b \in Blocks(module) : b <= Len(basicBlocks)
    <3>1. ASSUME NEW b \in Blocks(module), phase = "blocks"
          PROVE  module.function_of[b] <= cursor
      <4>1. module.function_of[b] \in 1..module.functions
        BY <1>2, BodyType DEF Functions
      <4> QED BY <1>2, <1>3, <3>1, <4>1
    <3> QED BY <3>1 DEF IInv, BlocksKnown
  <2> QED BY <1>1, <1>3, <1>4, <2>1 DEF IInv, BlocksKnown, FirstNode, idVars
<1>8. NodesKnown'
  BY <1>1, <1>4 DEF IInv, NodesKnown, InBlock, IdsIn, idVars
<1>9. EdgesKnown'
  BY <1>1 DEF IInv, EdgesKnown, Fits, IdsIn
<1>10. Grows
  BY <1>1, <1>4, Known DEF Grows, Continues, idVars
<1> QED BY <1>5, <1>6, <1>7, <1>8, <1>9, <1>10 DEF IInv

\* A step that changes nothing.
LEMMA StutterStep ==
  ASSUME IInv, UNCHANGED builderVars
  PROVE  IInv' /\ Grows
<1>1. UNCHANGED <<module, phase, cursor, functions, basicBlocks, nodes, edges, functionIds,
                  basicBlockIds, instructionNodeIds>>
  BY DEF builderVars, graphVars, idVars
<1>2. Control'
  BY <1>1 DEF IInv, Control
<1>3. FunctionsKnown'
  BY <1>1 DEF IInv, FunctionsKnown, FirstNode, Seen
<1>4. BlocksKnown'
  BY <1>1 DEF IInv, BlocksKnown, FirstNode, Seen
<1>5. NodesKnown'
  BY <1>1 DEF IInv, NodesKnown, InBlock, IdsIn, Seen
<1>6. EdgesKnown'
  BY <1>1 DEF IInv, EdgesKnown, Fits, IdsIn
<1>7. Grows
  BY <1>1, Known DEF Grows, Continues, Seen
<1> QED BY <1>2, <1>3, <1>4, <1>5, <1>6, <1>7 DEF IInv

\* Every step keeps the invariant and takes nothing back.
LEMMA NextStep ==
  ASSUME IInv, [BuilderNext]_builderVars
  PROVE  IInv' /\ Grows
<1>1. CASE RegisterFunctionsAndBasicBlocks
  BY <1>1, BlocksStep
<1>2. CASE RegisterInstructionNodes
  BY <1>2, NodesStep
<1>3. CASE RegisterInstructionSequenceEdges
  BY <1>3, SequenceStep
<1>4. CASE RegisterControlFlowEdges
  BY <1>4, ControlFlowStep
<1>5. CASE RegisterDataFlowAndCallEdges
  BY <1>5, DataFlowStep
<1>6. CASE PopulateBuildInfo
  BY <1>6, InfoStep
<1>7. CASE EndOfPhase
  BY <1>7, EndOfPhaseStep
<1>8. CASE UNCHANGED builderVars
  BY <1>8, StutterStep
<1> QED BY <1>1, <1>2, <1>3, <1>4, <1>5, <1>6, <1>7, <1>8 DEF BuilderNext

\* Between any two rounds of IrGraphBuilder::build, of any module, the vectors
\* hold exactly what the passes so far have registered, and all of it fits together.
THEOREM InvariantHolds == BuilderSpec => []IInv
BY InitInvariant, NextStep, PTL DEF BuilderSpec

\* What each pass has put in has the types of the graph.
LEMMA BuildIsTyped == IInv => BuilderTypeOK
<1> SUFFICES ASSUME IInv PROVE BuilderTypeOK
  OBVIOUS
<1>1. /\ DOMAIN functions = 1..Len(functions) /\ DOMAIN basicBlocks = 1..Len(basicBlocks)
      /\ DOMAIN nodes = 1..Len(nodes) /\ DOMAIN edges = 1..Len(edges)
      /\ Len(functions) \in Nat /\ Len(basicBlocks) \in Nat /\ Len(nodes) \in Nat
      /\ WellFormed(module) /\ module.functions \in Nat /\ Len(module.body) \in Nat
      /\ cursor \in Nat
  BY Known
<1>2. ASSUME NEW b \in Seen PROVE b \in Blocks(module) /\ FirstNode(b) \in IdsIn(nodes)
  <2>1. b \in Blocks(module)
    BY <1>1 DEF IInv, Control, Seen, Blocks
  <2>2. <<b, 1>> \in Pointers(module)
    BY <1>1, <2>1, BodyType
  <2>3. <<b, 1>> \in DOMAIN instructionNodeIds
    BY <2>2 DEF IInv, NodesKnown
  <2> QED BY <2>1, <2>3 DEF IInv, NodesKnown, FirstNode
<1>3. ASSUME NEW f \in 1..Len(functions)
      PROVE  /\ functions[f].entry_basic_block \in IdsIn(basicBlocks) \cup {None}
             /\ functions[f].entry_node \in IdsIn(nodes) \cup {None}
  <2> DEFINE e == EntryBlock(module, f)
  <2>1. ~ IsDeclaration(module, f) => e - 1 \in IdsIn(basicBlocks)
    <3> SUFFICES ASSUME ~ IsDeclaration(module, f) PROVE e - 1 \in IdsIn(basicBlocks)
      OBVIOUS
    <3>1. e \in BlocksOf(module, f)
      BY <1>1, EntryBlockIsFirst
    <3>2. e \in Blocks(module) /\ e \in Nat /\ e # 0 /\ module.function_of[e] = f
      BY <1>1, <3>1 DEF BlocksOf, Blocks
    <3>3. phase = "blocks" => f <= cursor
      BY <1>1 DEF IInv, FunctionsKnown
    <3>4. e <= Len(basicBlocks)
      BY <3>2, <3>3 DEF IInv, BlocksKnown
    <3> HIDE DEF e
    <3> QED BY <1>1, <3>2, <3>4 DEF IdsIn
  <2>2. functions[f].entry_basic_block = IF IsDeclaration(module, f) THEN None ELSE e - 1
    BY DEF IInv, FunctionsKnown
  <2>3. functions[f].entry_node
          = IF IsDeclaration(module, f) \/ e \notin Seen THEN None ELSE FirstNode(e)
    BY DEF IInv, FunctionsKnown
  <2> QED BY <1>2, <2>1, <2>2, <2>3
<1>4. ASSUME NEW b \in 1..Len(basicBlocks)
      PROVE  /\ basicBlocks[b].function \in IdsIn(functions)
             /\ basicBlocks[b].entry_node \in IdsIn(nodes) \cup {None}
  <2>1. b \in Blocks(module) /\ b <= Len(basicBlocks)
    BY <1>1 DEF IInv, BlocksKnown, Blocks
  <2>2. module.function_of[b] \in 1..module.functions
    BY <1>1, <2>1, BodyType DEF Functions
  <2>3. phase = "blocks" => module.function_of[b] <= cursor
    BY <2>1 DEF IInv, BlocksKnown
  <2>4. Len(functions) = IF phase = "blocks" THEN cursor ELSE module.functions
    BY DEF IInv, FunctionsKnown
  <2>5. module.function_of[b] - 1 \in IdsIn(functions)
    BY <1>1, <2>2, <2>3, <2>4 DEF IdsIn
  <2>6. /\ basicBlocks[b].function = module.function_of[b] - 1
        /\ basicBlocks[b].entry_node = IF b \in Seen THEN FirstNode(b) ELSE None
    BY DEF IInv, BlocksKnown
  <2> QED BY <1>2, <2>5, <2>6
<1>5. \A k \in 1..Len(nodes) : nodes[k].kind \in {"instruction", "operand"}
  BY DEF IInv, NodesKnown
<1>6. \A k \in 1..Len(edges) :
        /\ edges[k].kind \in {"instruction_sequence", "control_flow", "data_flow", "call"}
        /\ {edges[k].source_node, edges[k].target_node} \subseteq IdsIn(nodes)
  BY DEF IInv, EdgesKnown, Fits
<1>7. module \in Modules
  BY DEF IInv, Control
<1> QED BY <1>1, <1>3, <1>4, <1>5, <1>6, <1>7 DEF BuilderTypeOK

\* Every id the graph holds is one of an element that is there, so that node(id)
\* and its siblings are in range; only a declaration, or what registerInstructionNodes
\* has not come to, lacks its entry node.
THEOREM TypeCorrect == BuilderSpec => []BuilderTypeOK
BY BuildIsTyped, InvariantHolds, PTL

\* An id is the index of its element, at every moment of the build, though the
\* five add functions take it from the size of a vector that keeps growing, and
\* the pointer maps lead to it.
THEOREM IdsPosition == BuilderSpec => []IdsArePositions
<1>1. IInv => IdsArePositions
  <2> SUFFICES ASSUME IInv PROVE IdsArePositions
    OBVIOUS
  <2>1. /\ DOMAIN functions = 1..Len(functions) /\ DOMAIN basicBlocks = 1..Len(basicBlocks)
        /\ DOMAIN nodes = 1..Len(nodes) /\ DOMAIN edges = 1..Len(edges)
    BY Known
  <2>2. /\ \A f \in 1..Len(functions) : functions[f].id = f - 1 /\ functionIds[f] = f - 1
        /\ DOMAIN functionIds = 1..Len(functions)
    BY DEF IInv, FunctionsKnown
  <2>3. /\ \A b \in 1..Len(basicBlocks) : basicBlocks[b].id = b - 1 /\ basicBlockIds[b] = b - 1
        /\ DOMAIN basicBlockIds = 1..Len(basicBlocks)
    BY DEF IInv, BlocksKnown
  <2>4. \A k \in 1..Len(nodes) : nodes[k].id = k - 1
    BY DEF IInv, NodesKnown
  <2>5. \A k \in 1..Len(edges) : edges[k].id = k - 1
    BY DEF IInv, EdgesKnown
  <2> QED BY <2>1, <2>2, <2>3, <2>4, <2>5 DEF IdsArePositions
<1> QED BY <1>1, InvariantHolds, PTL

\* The references between the vectors agree, though five passes set them from
\* different maps: an edge that names blocks or functions names those of its end
\* nodes, and a call edge leads to the entry node in the entry block of its callee.
THEOREM ReferencesAgree == BuilderSpec => []CrossReferences
<1>1. IInv => CrossReferences
  <2> SUFFICES ASSUME IInv PROVE CrossReferences
    OBVIOUS
  <2>1. /\ DOMAIN nodes = 1..Len(nodes) /\ DOMAIN edges = 1..Len(edges)
        /\ Len(basicBlocks) \in Nat /\ Len(module.body) \in Nat /\ WellFormed(module)
    BY Known
  <2>2. ASSUME NEW k \in 1..Len(nodes)
        PROVE  nodes[k].function = basicBlocks[nodes[k].basic_block + 1].function
    <3>1. PICK b \in 1..Len(basicBlocks) : InBlock(nodes[k], b)
      BY DEF IInv, NodesKnown
    <3>2. nodes[k].basic_block + 1 = b /\ nodes[k].function = module.function_of[b] - 1
      BY <2>1, <3>1 DEF InBlock
    <3>3. basicBlocks[b].function = module.function_of[b] - 1
      BY DEF IInv, BlocksKnown
    <3> QED BY <3>2, <3>3
  <2>3. ASSUME NEW k \in 1..Len(edges)
        PROVE  LET e == edges[k]
                   source == nodes[e.source_node + 1]
                   target == nodes[e.target_node + 1]
               IN /\ e.source_basic_block \in {None, source.basic_block}
                  /\ e.target_basic_block \in {None, target.basic_block}
                  /\ e.source_function \in {None, source.function}
                  /\ e.target_function \in {None, target.function}
    BY DEF IInv, EdgesKnown, Fits
  <2>4. ASSUME phase \notin {"blocks", "nodes"}, NEW b \in Blocks(module)
        PROVE  basicBlocks[b].entry_node = FirstNode(b)
    <3>1. Seen = Blocks(module) /\ b \in 1..Len(basicBlocks)
      BY <2>4, AfterNodes
    <3> QED BY <3>1 DEF IInv, BlocksKnown
  <2>5. ASSUME phase \notin {"blocks", "nodes"}, NEW f \in Functions(module)
        PROVE  IF IsDeclaration(module, f)
               THEN functions[f].entry_node = None /\ functions[f].entry_basic_block = None
               ELSE /\ functions[f].entry_node = FirstNode(EntryBlock(module, f))
                    /\ functions[f].entry_basic_block = EntryBlock(module, f) - 1
    <3>1. Seen = Blocks(module) /\ f \in 1..Len(functions)
      BY <2>5, AfterNodes DEF Functions
    <3>2. ~ IsDeclaration(module, f) => EntryBlock(module, f) \in Blocks(module)
      BY <2>1, EntryBlockIsFirst DEF BlocksOf
    <3> QED BY <3>1, <3>2 DEF IInv, FunctionsKnown
  <2> QED BY <2>1, <2>2, <2>3, <2>4, <2>5 DEF CrossReferences
<1> QED BY <1>1, InvariantHolds, PTL

\* A vector is a prefix of one that continues it.
LEMMA PrefixOfVector ==
  ASSUME NEW v, NEW w, IsVector(v), IsVector(w), Continues(v, w)
  PROVE  IsPrefix(v, w)
<1> DEFINE n == Len(v)
           S == ToSet(v)
           left == SubSeq(v, 1, n)
           right == SubSeq(w, 1, n)
<1>1. n \in Nat /\ v \in Seq(S) /\ \A k \in 1..n : v[k] \in S
  BY VectorOf, VectorDomain DEF IsVector
<1>2. \A k \in 1..n : w[k] = v[k]
  BY DEF Continues
<1> HIDE DEF S
<1>3. left = v
  BY <1>1, SubSeqFull
<1>4. /\ right \in Seq(S) /\ Len(right) = n
      /\ \A k \in 1..n : right[k] = v[k]
  <2>1. \A k \in 1..n : w[k] \in S
    BY <1>1, <1>2
  <2>2. /\ SubSeq(w, 1, n) \in Seq(S)
        /\ Len(SubSeq(w, 1, n)) = IF 1 <= n THEN n - 1 + 1 ELSE 0
        /\ \A k \in 1..(n - 1 + 1) : SubSeq(w, 1, n)[k] = w[1 + k - 1]
    BY <1>1, <2>1, SubSeqProperties
  <2> QED BY <1>1, <1>2, <2>2
<1> HIDE DEF left, right
<1>5. right = v
  BY <1>1, <1>4
<1> QED BY <1>3, <1>5 DEF IsPrefix, Continues, left, right

LEMMA KeptByAdding ==
  ASSUME NEW v, NEW u, NEW w, IsVector(v), IsVector(u), w = Add(v, u)
  PROVE  KeepsElements(v, w)
<1>1. /\ IsVector(w) /\ Len(w) = Len(v) + Len(u) /\ Len(u) \in Nat
      /\ \A k \in 1..Len(v) : w[k] = v[k]
  BY Appending, VectorDomain DEF Add
<1>2. /\ Len(v) \in Nat /\ DOMAIN v = 1..Len(v) /\ DOMAIN w = 1..Len(w)
  BY <1>1, VectorDomain
<1>3. \A k \in DOMAIN v : k \in DOMAIN w /\ w[k] = v[k]
  BY <1>1, <1>2
<1> QED BY <1>3 DEF KeepsElements

LEMMA KeptBySetting ==
  ASSUME NEW v, NEW id, NEW node, NEW w, w = SetEntryNode(v, id, node)
  PROVE  KeepsElements(v, w)
<1>1. CASE w = v
  BY <1>1 DEF KeepsElements
<1>2. CASE v[id + 1].entry_node = None /\ w = [v EXCEPT ![id + 1].entry_node = node]
  <2> SUFFICES ASSUME NEW k \in DOMAIN v
               PROVE  /\ k \in DOMAIN w /\ DOMAIN w[k] = DOMAIN v[k]
                      /\ \A field \in DOMAIN v[k] :
                           \/ w[k][field] = v[k][field]
                           \/ field = "entry_node" /\ v[k].entry_node = None
    BY DEF KeepsElements
  <2>1. k \in DOMAIN w
    BY <1>2
  <2>2. CASE k # id + 1
    BY <1>2, <2>1, <2>2
  <2>3. CASE k = id + 1
    <3>1. PICK r : r = v[k]
      OBVIOUS
    <3>2. w[k] = [r EXCEPT !.entry_node = node] /\ r.entry_node = None
      BY <1>2, <2>3, <3>1
    <3> QED BY <2>1, <3>1, <3>2
  <2> QED BY <2>2, <2>3
<1> QED BY <1>1, <1>2 DEF SetEntryNode, WithEntryNode, Element

\* Only two passes touch functions and blocks: one adds, one sets the entry nodes.
LEMMA FieldsKept ==
  ASSUME IInv, [BuilderNext]_builderVars
  PROVE  KeepsElements(functions, functions') /\ KeepsElements(basicBlocks, basicBlocks')
<1>1. \A v : KeepsElements(v, v)
  BY DEF KeepsElements
<1>2. CASE RegisterFunctionsAndBasicBlocks
  <2>1. PICK f, x : /\ f = cursor + 1
                    /\ functions' = Add(functions, <<x>>)
    BY <1>2 DEF RegisterFunctionsAndBasicBlocks
  <2>2. PICK n : n = Cardinality(BlocksOf(module, cursor + 1))
    OBVIOUS
  <2>3. PICK new : new = [k \in 1..n |-> BasicBlock(
                            [id |-> BlockIdAt(k), function |-> Len(functions),
                             label |-> <<"block", EntryBlock(module, cursor + 1) + k - 1>>])]
    OBVIOUS
  <2>4. basicBlocks' = Add(basicBlocks, new)
    BY <1>2, <2>2, <2>3 DEF RegisterFunctionsAndBasicBlocks
  <2>5. n \in Nat
    <3>1. Len(module.body) \in Nat
      BY Known
    <3>2. IsFiniteSet(1..Len(module.body)) /\ BlocksOf(module, cursor + 1) \subseteq 1..Len(module.body)
      BY <3>1, FS_Interval DEF BlocksOf, Blocks
    <3> QED BY <2>2, <3>2, FS_Subset, FS_CardinalityType
  <2>6. IsVector(new)
    <3>1. new = [k \in 1..n |-> new[k]]
      BY <2>3
    <3> QED BY <2>5, <3>1, VectorIntro
  <2>7. IsVector(functions) /\ IsVector(basicBlocks)
    BY DEF IInv, FunctionsKnown, BlocksKnown
  <2>8. IsVector(<<x>>)
    BY DEF IsVector, ToSet
  <2> QED BY <2>1, <2>4, <2>6, <2>7, <2>8, KeptByAdding
<1>3. CASE RegisterInstructionNodes
  BY <1>3, KeptBySetting DEF RegisterInstructionNodes
<1>4. CASE UNCHANGED <<functions, basicBlocks>>
  BY <1>1, <1>4
<1>5. \/ RegisterFunctionsAndBasicBlocks \/ RegisterInstructionNodes
      \/ UNCHANGED <<functions, basicBlocks>>
  BY DEF BuilderNext, RegisterInstructionSequenceEdges, RegisterControlFlowEdges,
         RegisterDataFlowAndCallEdges, PopulateBuildInfo, EndOfPhase, builderVars, graphVars
<1> QED BY <1>2, <1>3, <1>4, <1>5

\* No later round changes a field of what is in the graph, but for the entry node of a
\* function or a block, which registerInstructionNodes sets once.
THEOREM OnlyGrowth == BuilderSpec => GraphOnlyGrows
<1> DEFINE A ==
      /\ IsPrefix(nodes, nodes') /\ IsPrefix(edges, edges')
      /\ KeepsElements(functions, functions')
      /\ KeepsElements(basicBlocks, basicBlocks')
<1>1. IInv /\ IInv' /\ [BuilderNext]_builderVars => [A]_builderVars
  <2> SUFFICES ASSUME IInv, IInv', [BuilderNext]_builderVars PROVE A
    OBVIOUS
  <2>1. Continues(nodes, nodes') /\ Continues(edges, edges')
    BY NextStep DEF Grows
  <2>2. IsPrefix(nodes, nodes') /\ IsPrefix(edges, edges')
    BY <2>1, PrefixOfVector DEF IInv, NodesKnown, EdgesKnown
  <2> QED BY <2>2, FieldsKept
<1> QED BY <1>1, InvariantHolds, PTL DEF BuilderSpec, GraphOnlyGrows

------------------------------------------------------------------------------
(***************************************************************************)
(* Completeness: when IrGraphBuilder is done, the graph has every edge of  *)
(* the module as often as the module has it, and lookup maps that lead to  *)
(* them.                                                                   *)
(***************************************************************************)

(***************************************************************************)
(* Facts about modules: how often an element is in what FlattenSeq lists.  *)
(***************************************************************************)
\* Only of a condition on positions, with one element: as many as meet it.
LEMMA CountOfOnly ==
  ASSUME NEW n \in Nat, NEW C \in SUBSET (1..n), NEW x, NEW ss,
         ss = [k \in 1..n |-> Only(k \in C, x)]
  PROVE  /\ Count(FlattenSeq(ss), x) = Cardinality(C)
         /\ FlattenSeq(ss) \in Seq({x})
<1>1. ASSUME NEW k \in 1..n
      PROVE  /\ ss[k] \in Seq({x}) /\ IsVector(ss[k])
             /\ Count(ss[k], x) = IF k \in C THEN 1 ELSE 0
  <2>1. CASE k \in C
    <3>1. ss[k] = <<x>>
      BY <2>1 DEF Only
    <3>2. <<x>> \in Seq({x}) /\ Places(<<x>>, x) = {1}
      BY DEF Places
    <3> QED BY <2>1, <3>1, <3>2, VectorOf, FS_Singleton DEF Count
  <2>2. CASE k \notin C
    <3>1. ss[k] = <<>>
      BY <2>2 DEF Only
    <3>2. <<>> \in Seq({x}) /\ Places(<<>>, x) = {}
      BY DEF Places
    <3> QED BY <2>2, <3>1, <3>2, VectorOf, FS_EmptySet DEF Count
  <2> QED BY <2>1, <2>2
<1> DEFINE S == {x}
<1>2. ss \in Seq(Seq(S)) /\ Len(ss) = n
  BY <1>1
<1> HIDE DEF S
<1>10. PICK f : /\ f[0] = <<>>
                /\ \A i \in 1..Len(ss) : f[i] = f[i - 1] \o ss[i]
                /\ \A i \in 0..Len(ss) : f[i] \in Seq(S)
                /\ FlattenSeq(ss) = f[Len(ss)]
  BY <1>2, FlattenUnfold
<1>3. /\ f[0] = <<>>
      /\ \A i \in 1..n : f[i] = f[i - 1] \o ss[i]
      /\ \A i \in 0..n : f[i] \in Seq(S)
      /\ FlattenSeq(ss) = f[n]
  BY <1>2, <1>10
<1>4. ASSUME NEW i \in 1..n PROVE Count(f[i], x) = Count(f[i - 1], x) + Count(ss[i], x)
  <2>0. i - 1 \in 0..n
    OBVIOUS
  <2>1. f[i - 1] \in Seq(S) /\ f[i] = f[i - 1] \o ss[i]
    BY <1>3, <2>0
  <2>2. IsVector(f[i - 1]) /\ IsVector(ss[i])
    BY <1>1, <2>1, VectorOf
  <2>3. Count(f[i - 1] \o ss[i], x) = Count(f[i - 1], x) + Count(ss[i], x)
    BY <2>2, CountJoined
  <2> QED BY <2>1, <2>3
<1>5. Count(f[0], x) = 0
  <2>1. Places(f[0], x) = {}
    BY <1>3 DEF Places
  <2> QED BY <2>1, FS_EmptySet DEF Count
<1> DEFINE U(i) == C \cap 1..i
           T == {i \in 0..n : Count(f[i], x) = Cardinality(U(i))}
<1>6. 0 \in T
  <2>1. U(0) = {}
    OBVIOUS
  <2> QED BY <1>5, <2>1, FS_EmptySet
<1>7. ASSUME NEW i \in 0..(n - 1), i \in T PROVE i + 1 \in T
  <2>1. i + 1 \in 1..n /\ (i + 1) - 1 = i /\ i \in Nat
    OBVIOUS
  <2>2. Count(f[i + 1], x) = Count(f[i], x) + Count(ss[i + 1], x)
    BY <1>4, <2>1
  <2>3. IsFiniteSet(U(i)) /\ Cardinality(U(i)) \in Nat
    <3>1. IsFiniteSet(1..i)
      BY <2>1, FS_Interval
    <3>2. U(i) \subseteq 1..i
      OBVIOUS
    <3> QED BY <3>1, <3>2, FS_Subset, FS_CardinalityType
  <2>4. Cardinality(U(i + 1)) = Cardinality(U(i)) + (IF i + 1 \in C THEN 1 ELSE 0)
    <3>1. CASE i + 1 \in C
      <4>1. U(i + 1) = U(i) \cup {i + 1} /\ i + 1 \notin U(i)
        BY <2>1, <3>1
      <4> HIDE DEF U
      <4> QED BY <2>3, <3>1, <4>1, FS_AddElement
    <3>2. CASE i + 1 \notin C
      <4>1. U(i + 1) = U(i)
        BY <2>1, <3>2
      <4> HIDE DEF U
      <4> QED BY <2>3, <3>2, <4>1
    <3> QED BY <3>1, <3>2
  <2>5. Count(f[i], x) = Cardinality(U(i))
    BY <1>7
  <2> HIDE DEF U
  <2> QED BY <1>1, <2>1, <2>2, <2>4, <2>5
<1>8. n \in T
  <2> HIDE DEF T
  <2>1. \A i \in 0..n : i \in T
    BY <1>6, <1>7, IntervalInduction
  <2> QED BY <2>1
<1>9. U(n) = C
  OBVIOUS
<1> QED BY <1>3, <1>8, <1>9 DEF S

\* What f maps to s, of a set.
Piece(A, f, s) == {a \in A : f[a] = s}

\* Two finite sets that are cut into n pieces each, of the same sizes.
LEMMA SamePieces ==
  ASSUME NEW n \in Nat, NEW A, NEW B, IsFiniteSet(A), IsFiniteSet(B),
         NEW f \in [A -> 1..n], NEW g \in [B -> 1..n],
         \A s \in 1..n : Cardinality(Piece(A, f, s)) = Cardinality(Piece(B, g, s))
  PROVE  Cardinality(A) = Cardinality(B)
<1> DEFINE P(i) == {a \in A : f[a] <= i}
           Q(i) == {b \in B : g[b] <= i}
           T == {i \in 0..n : Cardinality(P(i)) = Cardinality(Q(i))}
<1>1. 0 \in T
  <2>1. P(0) = {} /\ Q(0) = {}
    OBVIOUS
  <2> QED BY <2>1
<1>2. ASSUME NEW i \in 0..(n - 1), i \in T PROVE i + 1 \in T
  <2> DEFINE p == Piece(A, f, i + 1)
             q == Piece(B, g, i + 1)
  <2>1. P(i + 1) = P(i) \cup p /\ P(i) \cap p = {} /\ P(i) \subseteq A /\ p \subseteq A
    BY DEF Piece
  <2>2. Q(i + 1) = Q(i) \cup q /\ Q(i) \cap q = {} /\ Q(i) \subseteq B /\ q \subseteq B
    BY DEF Piece
  <2>3. i + 1 \in 1..n /\ Cardinality(P(i)) = Cardinality(Q(i))
    BY <1>2
  <2>4. Cardinality(p) = Cardinality(q)
    BY <2>3
  <2> HIDE DEF p, q, P, Q
  <2>5. Cardinality(P(i + 1)) = Cardinality(P(i)) + Cardinality(p) - Cardinality({})
    <3>1. IsFiniteSet(P(i)) /\ IsFiniteSet(p)
      BY <2>1, FS_Subset
    <3> QED BY <2>1, <3>1, FS_Union
  <2>6. Cardinality(Q(i + 1)) = Cardinality(Q(i)) + Cardinality(q) - Cardinality({})
    <3>1. IsFiniteSet(Q(i)) /\ IsFiniteSet(q)
      BY <2>2, FS_Subset
    <3> QED BY <2>2, <3>1, FS_Union
  <2> QED BY <2>3, <2>4, <2>5, <2>6
<1>3. n \in T
  <2> HIDE DEF T
  <2>1. \A i \in 0..n : i \in T
    BY <1>1, <1>2, IntervalInduction
  <2> QED BY <2>1
<1>4. P(n) = A /\ Q(n) = B
  OBVIOUS
<1> HIDE DEF P, Q
<1> QED BY <1>3, <1>4

\* Module order has every instruction once.
LEMMA LayoutOnce ==
  ASSUME NEW m, WellFormed(m), NEW p \in Pointers(m)
  PROVE  Count(Layout(m), p) = 1
<1> DEFINE row(b) == [k \in DOMAIN m.body[b] |-> <<b, k>>]
           ss == [b \in Blocks(m) |-> row(b)]
           j == p[1]
<1>1. Blocks(m) = 1..Len(m.body) /\ Len(m.body) \in Nat
  BY BodyType DEF Blocks
<1>2. j \in Blocks(m) /\ p[2] \in 1..Len(m.body[j]) /\ p = <<j, p[2]>>
  BY PointerParts
<1>3. ASSUME NEW b \in Blocks(m)
      PROVE  /\ row(b) \in Seq(Pointers(m)) /\ Len(row(b)) = Len(m.body[b])
             /\ \A k \in 1..Len(row(b)) : row(b)[k] = <<b, k>>
  <2>1. DOMAIN m.body[b] = 1..Len(m.body[b]) /\ Len(m.body[b]) \in Nat
    BY BodyType
  <2>2. \A k \in 1..Len(m.body[b]) : <<b, k>> \in Pointers(m)
    BY PointerParts
  <2> QED BY <2>1, <2>2
<1> HIDE DEF row
<1>4. ss \in Seq(Seq(Pointers(m))) /\ Len(ss) = Len(m.body)
  BY <1>1, <1>3
<1>5. ASSUME NEW i \in 1..Len(ss), i # j PROVE \A k \in 1..Len(ss[i]) : ss[i][k] # p
  <2>1. i \in Blocks(m) /\ ss[i] = row(i)
    BY <1>1, <1>4
  <2> QED BY <1>2, <1>3, <1>5, <2>1
<1>6. ss[j] = row(j) /\ j \in 1..Len(ss)
  BY <1>1, <1>2, <1>4
<1>7. Places(row(j), p) = {p[2]}
  BY <1>2, <1>3 DEF Places
<1>8. Count(ss[j], p) = 1
  BY <1>6, <1>7, FS_Singleton DEF Count
<1> HIDE DEF ss
<1>9. Count(FlattenSeq(ss), p) = Count(ss[j], p)
  BY <1>4, <1>5, <1>6, CountInOne
<1> QED BY <1>8, <1>9 DEF Layout, ss, row

\* So each instruction has one place in it.
LEMMA PlaceInLayout ==
  ASSUME NEW m, WellFormed(m), NEW p \in Pointers(m)
  PROVE  /\ Len(Layout(m)) \in Nat
         /\ \E i \in 1..Len(Layout(m)) :
              /\ Layout(m)[i] = p
              /\ \A k \in 1..Len(Layout(m)) : Layout(m)[k] = p => k = i
<1>1. Len(Layout(m)) \in Nat
  BY LayoutType
<1>2. IsFiniteSet(Places(Layout(m), p)) /\ Cardinality(Places(Layout(m), p)) = 1
  BY <1>1, CountType, LayoutOnce DEF Count
<1>3. PICK i : Places(Layout(m), p) = {i}
  BY <1>2, FS_Singleton
<1>4. i \in 1..Len(Layout(m)) /\ Layout(m)[i] = p
  BY <1>3 DEF Places
<1>5. ASSUME NEW k \in 1..Len(Layout(m)), Layout(m)[k] = p PROVE k = i
  BY <1>3, <1>5 DEF Places
<1> QED BY <1>1, <1>4, <1>5

\* The control-flow edges into b that come from s.
EdgesFromTo(m, s, b) == {e \in EdgesInto(m, b) : e[1] = s}
SlotsTo(m, s, b) == {k \in 1..Len(Successors(m, s)) : Successors(m, s)[k] = b}

\* They are the successors of s that are b.
LEMMA EdgesAsSlots ==
  ASSUME NEW m, WellFormed(m), NEW s \in Blocks(m), NEW b
  PROVE  /\ IsFiniteSet(SlotsTo(m, s, b))
         /\ IsFiniteSet(EdgesFromTo(m, s, b))
         /\ Cardinality(EdgesFromTo(m, s, b)) = Cardinality(SlotsTo(m, s, b))
         /\ EdgesFromTo(m, s, b) = {s} \X SlotsTo(m, s, b)
<1> DEFINE slots == SlotsTo(m, s, b)
           f == [k \in slots |-> <<s, k>>]
<1>1. IsFiniteSet(slots)
  <2>1. Len(Successors(m, s)) \in Nat /\ slots \subseteq 1..Len(Successors(m, s))
    BY SuccessorsType DEF SlotsTo
  <2>2. IsFiniteSet(1..Len(Successors(m, s)))
    BY <2>1, FS_Interval
  <2> QED BY <2>1, <2>2, FS_Subset
<1>2. EdgesFromTo(m, s, b) = {s} \X slots
  <2>1. ASSUME NEW e PROVE e \in EdgesFromTo(m, s, b) <=> e \in {s} \X slots
    <3>1. e \in CfgEdges(m) /\ e[1] = s <=> e \in {s} \X (1..Len(Successors(m, s)))
      BY DEF CfgEdges
    <3> QED BY <3>1 DEF EdgesFromTo, EdgesInto, EdgeTarget, SlotsTo
  <2> QED BY <2>1
<1> HIDE DEF slots
<1>3. f \in Bijection(slots, {s} \X slots)
  <2>1. f \in [slots -> {s} \X slots]
    OBVIOUS
  <2>2. \A i, j \in slots : f[i] = f[j] => i = j
    OBVIOUS
  <2>3. \A e \in {s} \X slots : \E k \in slots : f[k] = e
    OBVIOUS
  <2> HIDE DEF f
  <2> QED BY <2>1, <2>2, <2>3 DEF Bijection, Injection, IsInjective, Surjection
<1>4. /\ IsFiniteSet({s} \X slots)
      /\ Cardinality({s} \X slots) = Cardinality(slots)
  BY <1>1, <1>3, FS_Bijection DEF ExistsBijection
<1> QED BY <1>1, <1>2, <1>4 DEF slots

\* b follows s if and only if there is one.
LEMMA BeforeAsSlots ==
  ASSUME NEW m, WellFormed(m), NEW s \in Blocks(m), NEW b
  PROVE  /\ s \in Before(m, b) <=> SlotsTo(m, s, b) # {}
         /\ s \in Before(m, b) <=> Cardinality(EdgesFromTo(m, s, b)) # 0
<1>1. s \in Before(m, b) <=> SlotsTo(m, s, b) # {}
  BY DEF Before, SlotsTo
<1> QED BY <1>1, EdgesAsSlots, FS_EmptySet

\* The first of them, counted from 0.
FirstSlot(m, s, b) ==
  (CHOOSE k \in DOMAIN Successors(m, s) :
     /\ Successors(m, s)[k] = b
     /\ \A j \in 1..(k - 1) : Successors(m, s)[j] # b) - 1

LEMMA FirstSlotIsFirst ==
  ASSUME NEW m, WellFormed(m), NEW b, NEW s \in Before(m, b)
  PROVE  LET first == FirstSlot(m, s, b) + 1 IN
           /\ first \in Nat /\ first \in SlotsTo(m, s, b) /\ FirstSlot(m, s, b) \in Int
           /\ \A j \in 1..(first - 1) : Successors(m, s)[j] # b
<1> DEFINE slots == SlotsTo(m, s, b)
           succ == Successors(m, s)
           IsFirst(k) == succ[k] = b /\ \A j \in 1..(k - 1) : succ[j] # b
<1>1. s \in Blocks(m) /\ slots # {}
  BY BeforeAsSlots DEF Before
<1>2. DOMAIN succ = 1..Len(succ) /\ Len(succ) \in Nat
  BY <1>1, SuccessorsType
<1>3. slots \subseteq Nat
  BY <1>2 DEF SlotsTo
<1>4. PICK least \in slots : \A k \in slots : least <= k
  <2> HIDE DEF slots
  <2> QED BY <1>1, <1>3, Minimum
<1>5. least \in DOMAIN succ /\ IsFirst(least)
  <2>1. least \in 1..Len(succ) /\ succ[least] = b
    BY DEF SlotsTo
  <2>2. ASSUME NEW j \in 1..(least - 1), succ[j] = b PROVE FALSE
    <3>1. j \in slots
      BY <1>2, <2>1, <2>2 DEF SlotsTo
    <3>2. least <= j
      BY <1>4, <3>1
    <3> QED BY <1>2, <2>1, <3>2
  <2> QED BY <1>2, <2>1, <2>2
<1> DEFINE k == CHOOSE j \in DOMAIN succ : IsFirst(j)
<1>6. k \in DOMAIN succ /\ IsFirst(k)
  <2> HIDE DEF IsFirst
  <2> QED BY <1>5
<1>7. FirstSlot(m, s, b) = k - 1
  BY DEF FirstSlot
<1> HIDE DEF k
<1>8. k \in Nat /\ (k - 1) + 1 = k /\ k - 1 \in Int /\ k \in slots
  BY <1>2, <1>6 DEF SlotsTo
<1> QED BY <1>6, <1>7, <1>8

\* llvm::predecessors lists a block as often as there are edges from it.
LEMMA PredecessorsCount ==
  ASSUME NEW m, WellFormed(m), NEW b \in Blocks(m), NEW s \in Blocks(m)
  PROVE  Count(Predecessors(m, b), s) = Cardinality(EdgesFromTo(m, s, b))
<1> DEFINE len(c) == Len(Successors(m, c))
           from(c) == [k \in 1..len(c) |-> Only(k \in SlotsTo(m, c, b), c)]
           all == [c \in Blocks(m) |-> FlattenSeq(from(c))]
<1>1. Blocks(m) = 1..Len(m.body) /\ Len(m.body) \in Nat
  BY BodyType DEF Blocks
<1>2. ASSUME NEW c \in Blocks(m)
      PROVE  /\ FlattenSeq(from(c)) \in Seq({c})
             /\ Count(FlattenSeq(from(c)), c) = Cardinality(SlotsTo(m, c, b))
             /\ FlattenSeq([k \in DOMAIN Successors(m, c) |->
                              Only(Successors(m, c)[k] = b, c)]) = FlattenSeq(from(c))
  <2>1. DOMAIN Successors(m, c) = 1..len(c) /\ len(c) \in Nat
    BY SuccessorsType
  <2>2. SlotsTo(m, c, b) \in SUBSET (1..len(c))
    BY DEF SlotsTo
  <2>3. FlattenSeq(from(c)) \in Seq({c})
        /\ Count(FlattenSeq(from(c)), c) = Cardinality(SlotsTo(m, c, b))
    <3> DEFINE ss == from(c)
               n == len(c)
    <3>1. ss = [k \in 1..n |-> Only(k \in SlotsTo(m, c, b), c)]
      OBVIOUS
    <3> HIDE DEF ss, n
    <3>2. /\ Count(FlattenSeq(ss), c) = Cardinality(SlotsTo(m, c, b))
          /\ FlattenSeq(ss) \in Seq({c})
      BY <2>1, <2>2, <3>1, CountOfOnly DEF n
    <3> QED BY <3>2 DEF ss, n
  <2>4. ASSUME NEW k \in 1..len(c)
        PROVE  Only(Successors(m, c)[k] = b, c) = Only(k \in SlotsTo(m, c, b), c)
    BY DEF SlotsTo, Only
  <2>5. [k \in DOMAIN Successors(m, c) |-> Only(Successors(m, c)[k] = b, c)] = from(c)
    BY <2>1, <2>4
  <2> QED BY <2>3, <2>5
<1> HIDE DEF from
<1>3. all = [c \in Blocks(m) |->
               FlattenSeq([k \in DOMAIN Successors(m, c) |->
                             Only(Successors(m, c)[k] = b, c)])]
  BY <1>2
<1>4. Predecessors(m, b) = FlattenSeq(all)
  BY <1>3 DEF Predecessors
<1>5. all \in Seq(Seq(Blocks(m))) /\ Len(all) = Len(m.body)
  <2>1. ASSUME NEW c \in Blocks(m) PROVE FlattenSeq(from(c)) \in Seq(Blocks(m))
    <3> DEFINE list == FlattenSeq(from(c))
    <3>1. list \in Seq({c})
      BY <1>2
    <3> HIDE DEF list
    <3>2. list \in Seq(Blocks(m))
      BY <3>1
    <3> QED BY <3>2 DEF list
  <2> QED BY <1>1, <2>1
<1>6. s \in 1..Len(all) /\ all[s] = FlattenSeq(from(s))
  BY <1>1, <1>5
<1>7. ASSUME NEW c \in 1..Len(all), c # s PROVE \A k \in 1..Len(all[c]) : all[c][k] # s
  <2>1. c \in Blocks(m) /\ all[c] = FlattenSeq(from(c))
    BY <1>1, <1>5
  <2>2. FlattenSeq(from(c)) \in Seq({c})
    BY <1>2, <2>1
  <2> QED BY <1>7, <2>1, <2>2
<1>8. Count(all[s], s) = Cardinality(SlotsTo(m, s, b))
  BY <1>2, <1>6
<1> HIDE DEF all
<1>9. Count(FlattenSeq(all), s) = Count(all[s], s)
  BY <1>5, <1>6, <1>7, CountInOne
<1> QED BY <1>4, <1>8, <1>9, EdgesAsSlots

\* So do the blocks that registerControlFlowEdges visits, with a phi or without.
LEMMA IncomingCount ==
  ASSUME NEW m, WellFormed(m), NEW b \in Blocks(m), NEW s \in Blocks(m)
  PROVE  Count(IF HasPhi(m, b) THEN m.body[b][1].incoming ELSE Predecessors(m, b), s)
           = Cardinality(EdgesFromTo(m, s, b))
<1>1. CASE HasPhi(m, b)
  <2> DEFINE incoming == m.body[b][1].incoming
  <2>1. 1 \in 1..Len(m.body[b])
    <3>1. Len(m.body[b]) \in Nat \ {0}
      BY BodyType
    <3> QED BY <3>1
  <2>2. incoming \in Seq(Blocks(m))
    <3>1. <<b, 1>> \in Pointers(m)
      BY BodyType
    <3>2. Instr(m, <<b, 1>>) \in Instructions(m)
      BY <3>1, InstrType
    <3> QED BY <3>2 DEF Instructions, Instr
  <2>3. DOMAIN incoming = 1..Len(incoming)
    BY <2>2
  <2>4. m.body[b][1].op = "phi"
    BY <1>1 DEF HasPhi
  <2>5. Cardinality({j \in DOMAIN incoming : incoming[j] = s})
          = Cardinality({e \in EdgesInto(m, b) : e[1] = s})
    BY <2>1, <2>4 DEF WellFormed
  <2> HIDE DEF incoming
  <2>6. Count(incoming, s) = Cardinality({e \in EdgesInto(m, b) : e[1] = s})
    BY <2>3, <2>5 DEF Count, Places
  <2> QED BY <1>1, <2>6 DEF EdgesFromTo, incoming
<1>2. CASE ~ HasPhi(m, b)
  BY <1>2, PredecessorsCount
<1> QED BY <1>1, <1>2

\* The operands of q that are what p computes.
OperandsUsing(m, p, q) == {k \in DOMAIN Instr(m, q).operands : IsUse(m, p, <<q, k>>)}

\* The uses of p by one instruction.
LEMMA UsesByOne ==
  ASSUME NEW m, WellFormed(m), NEW p, NEW q \in Pointers(m)
  PROVE  /\ UsesBy(m, p, q) \in Seq({q} \X OperandsUsing(m, p, q))
         /\ \A k \in OperandsUsing(m, p, q) : Count(UsesBy(m, p, q), <<q, k>>) = 1
         /\ OperandsUsing(m, p, q) \in SUBSET Nat
<1> DEFINE operands == Instr(m, q).operands
           n == Len(operands)
           C == OperandsUsing(m, p, q)
           S == {q} \X C
           ss == [k \in DOMAIN operands |-> Only(IsUse(m, p, <<q, k>>), <<q, k>>)]
<1>1. operands \in Seq(Operands(m))
  BY InstrType DEF Instructions
<1>2. n \in Nat /\ DOMAIN operands = 1..n /\ C \in SUBSET (1..n) /\ C \in SUBSET Nat
  BY <1>1 DEF OperandsUsing
<1>3. UsesBy(m, p, q) = FlattenSeq(ss)
  BY DEF UsesBy
<1>4. ASSUME NEW k \in 1..n
      PROVE  /\ ss[k] \in Seq(S)
             /\ \A j \in 1..Len(ss[k]) : ss[k][j] = <<q, k>>
             /\ k \in C => ss[k] = <<<<q, k>>>>
  <2> DEFINE x == <<q, k>>
             u == IsUse(m, p, x)
  <2>1. ss[k] = IF u THEN <<x>> ELSE <<>>
    BY <1>2 DEF Only
  <2>2. (u <=> k \in C) /\ (u => x \in S)
    BY <1>2 DEF OperandsUsing
  <2> HIDE DEF x, u, S, ss, C
  <2>3. ss[k] \in Seq(S) /\ \A j \in 1..Len(ss[k]) : ss[k][j] = x
    BY <2>1, <2>2
  <2>4. k \in C => ss[k] = <<x>>
    BY <2>1, <2>2
  <2> QED BY <2>3, <2>4 DEF x
<1>5. ss = [k \in 1..n |-> ss[k]]
  BY <1>2
<1> HIDE DEF S, ss, n
<1>6. ss \in Seq(Seq(S)) /\ Len(ss) = n
  BY <1>2, <1>4, <1>5
<1>7. FlattenSeq(ss) \in Seq(S)
  BY <1>6, FlattenType
<1>8. ASSUME NEW k \in C PROVE Count(FlattenSeq(ss), <<q, k>>) = 1
  <2> DEFINE x == <<q, k>>
  <2>1. k \in 1..Len(ss) /\ ss[k] = <<x>> /\ ss \in Seq(Seq(S))
    BY <1>2, <1>4, <1>6
  <2>2. ASSUME NEW i \in 1..Len(ss), i # k
        PROVE  \A j \in 1..Len(ss[i]) : ss[i][j] # x
    BY <1>4, <1>6, <2>2
  <2> HIDE DEF x
  <2>3. Count(FlattenSeq(ss), x) = Count(ss[k], x)
    BY <2>1, <2>2, CountInOne
  <2>4. Places(<<x>>, x) = {1}
    BY DEF Places
  <2> QED BY <2>1, <2>3, <2>4, FS_Singleton DEF Count, x
<1> QED BY <1>2, <1>3, <1>7, <1>8 DEF S

\* The use list names an instruction once for every operand that is a use.
LEMMA UsesCount ==
  ASSUME NEW m, WellFormed(m), NEW p, NEW q \in Pointers(m)
  PROVE  LET uses == UseList(m, p)
             own == {i \in 1..Len(uses) : uses[i][1] = q}
         IN IsFiniteSet(own) /\ Cardinality(own) = Cardinality(OperandsUsing(m, p, q))
<1> DEFINE S == UNION {{x} \X OperandsUsing(m, p, x) : x \in Pointers(m)}
           all == [i \in DOMAIN Layout(m) |-> UsesBy(m, p, Layout(m)[i])]
           uses == UseList(m, p)
           own == {i \in 1..Len(uses) : uses[i][1] = q}
           C == OperandsUsing(m, p, q)
<1>1. Layout(m) \in Seq(Pointers(m))
  BY LayoutType
<1>2. DOMAIN Layout(m) = 1..Len(Layout(m)) /\ Len(Layout(m)) \in Nat
  BY <1>1
<1>3. ASSUME NEW i \in 1..Len(Layout(m))
      PROVE  UsesBy(m, p, Layout(m)[i]) \in Seq(S)
  <2> DEFINE x == Layout(m)[i]
             D == {x} \X OperandsUsing(m, p, x)
             list == UsesBy(m, p, x)
  <2>1. x \in Pointers(m)
    BY <1>1
  <2>2. list \in Seq(D)
    BY <2>1, UsesByOne
  <2>3. D \subseteq S
    BY <2>1
  <2> HIDE DEF D, S, list
  <2>4. list \in Seq(S)
    BY <2>2, <2>3
  <2> QED BY <2>4 DEF list
<1>4. all \in Seq(Seq(S)) /\ Len(all) = Len(Layout(m)) /\ uses = FlattenSeq(all)
  <2> HIDE DEF S
  <2> QED BY <1>2, <1>3 DEF UseList
<1>5. uses \in Seq(S)
  <2> HIDE DEF S, all
  <2> QED BY <1>4, FlattenType
<1>6. ASSUME NEW k \in C PROVE Count(uses, <<q, k>>) = 1
  <2>1. PICK i \in 1..Len(Layout(m)) :
          /\ Layout(m)[i] = q
          /\ \A j \in 1..Len(Layout(m)) : Layout(m)[j] = q => j = i
    BY PlaceInLayout
  <2>2. i \in 1..Len(all) /\ all[i] = UsesBy(m, p, q)
    BY <1>2, <1>4, <2>1
  <2>3. ASSUME NEW j \in 1..Len(all), j # i
        PROVE  \A l \in 1..Len(all[j]) : all[j][l] # <<q, k>>
    <3> DEFINE x == Layout(m)[j]
               list == UsesBy(m, p, x)
    <3>1. x \in Pointers(m) /\ x # q /\ all[j] = list
      BY <1>1, <1>2, <1>4, <2>1, <2>3
    <3>2. list \in Seq({x} \X OperandsUsing(m, p, x))
      BY <3>1, UsesByOne
    <3> HIDE DEF list, x
    <3>3. \A l \in 1..Len(list) : list[l] \in {x} \X OperandsUsing(m, p, x)
      BY <3>2
    <3> QED BY <3>1, <3>3
  <2> DEFINE u == <<q, k>>
  <2> HIDE DEF S, all, u
  <2>4. Count(FlattenSeq(all), u) = Count(all[i], u)
    BY <1>4, <2>2, <2>3, CountInOne DEF u
  <2>5. Count(UsesBy(m, p, q), u) = 1
    BY UsesByOne DEF u
  <2> QED BY <1>4, <2>2, <2>4, <2>5 DEF u
<1>7. /\ Len(uses) \in Nat
      /\ \A i \in 1..Len(uses) :
           uses[i] = <<uses[i][1], uses[i][2]>> /\ uses[i][2] \in OperandsUsing(m, p, uses[i][1])
  <2>1. \A u \in S : u = <<u[1], u[2]>> /\ u[2] \in OperandsUsing(m, p, u[1])
    OBVIOUS
  <2> HIDE DEF S
  <2> QED BY <1>5, <2>1
<1> HIDE DEF uses
<1>8. ASSUME NEW k \in C
      PROVE  \E i \in own : \A j \in own : uses[j][2] = k <=> j = i
  <2>1. IsFiniteSet(Places(uses, <<q, k>>))
    BY <1>7, CountType
  <2>2. PICK i : Places(uses, <<q, k>>) = {i}
    BY <1>6, <2>1, FS_Singleton DEF Count
  <2>3. i \in 1..Len(uses) /\ uses[i] = <<q, k>>
    BY <2>2 DEF Places
  <2>4. ASSUME NEW j \in own, uses[j][2] = k PROVE j = i
    <3>1. uses[j] = <<q, k>>
      BY <1>7, <2>4
    <3> QED BY <2>2, <3>1 DEF Places
  <2> QED BY <2>3, <2>4
<1> DEFINE f == [i \in own |-> uses[i][2]]
<1>9. f \in Bijection(own, C)
  <2>1. f \in [own -> C]
    BY <1>7
  <2>2. ASSUME NEW i \in own, NEW j \in own, f[i] = f[j] PROVE i = j
    BY <1>8, <2>1, <2>2
  <2>3. \A k \in C : \E i \in own : f[i] = k
    BY <1>8
  <2> HIDE DEF f
  <2> QED BY <2>1, <2>2, <2>3 DEF Bijection, Injection, IsInjective, Surjection
<1>10. IsFiniteSet(own)
  <2>1. IsFiniteSet(1..Len(uses))
    BY <1>7, FS_Interval
  <2> QED BY <2>1, FS_Subset
<1> HIDE DEF own, C
<1>11. Cardinality(C) = Cardinality(own)
  BY <1>9, <1>10, FS_Bijection DEF ExistsBijection
<1> QED BY <1>10, <1>11 DEF own, C, uses

(***************************************************************************)
(* The invariant: what the last passes have put into the graph so far.     *)
(***************************************************************************)
\* The blocks whose incoming control-flow edges are there.
Joined ==
  IF phase \in {"blocks", "nodes", "sequence"} THEN {}
  ELSE IF phase = "control_flow" THEN 1..cursor ELSE Blocks(module)

\* The instructions whose data-flow and call edges are there.
Visited ==
  IF phase \in {"blocks", "nodes", "sequence", "control_flow"} THEN {}
  ELSE IF phase = "data_flow" THEN {Layout(module)[i] : i \in 1..cursor} ELSE Pointers(module)

\* The edges that the lookup maps know.
Looked == IF phase = "info" THEN 1..cursor ELSE IF phase = "built" THEN 1..Len(edges) ELSE {}

Progress ==
  /\ phase \in {"blocks", "nodes"} => edges = <<>>
  /\ phase = "control_flow" => cursor <= Len(module.body)
  /\ phase = "data_flow" => cursor <= Len(Layout(module))
  /\ phase = "info" => cursor <= Len(edges)

\* No two instructions share a node.
NodeIdsDistinct ==
  \A p, q \in DOMAIN instructionNodeIds :
    instructionNodeIds[p] = instructionNodeIds[q] => p = q

\* An edge to b with all that registerControlFlowEdges knows of it.
IsEdgeBetweenBlocks(e, s, b) ==
  /\ e.kind = "control_flow"
  /\ e.source_node = instructionNodeIds[Terminator(module, s)] /\ e.target_node = FirstNode(b)
  /\ e.source_basic_block = s - 1 /\ e.target_basic_block = b - 1
  /\ e.successor_index = FirstSlot(module, s, b)

EdgesBetweenBlocks(s, b) ==
  {k \in 1..Len(edges) : IsEdgeBetweenBlocks(edges[k], s, b)}

ControlFlowKnown ==
  /\ \A k \in 1..Len(edges) : edges[k].kind = "control_flow" =>
       \E b \in Joined : \E s \in Before(module, b) : IsEdgeBetweenBlocks(edges[k], s, b)
  /\ \A s \in Blocks(module), b \in Joined :
       Cardinality(EdgesBetweenBlocks(s, b)) = Cardinality(EdgesFromTo(module, s, b))

CallEdgesFrom(p) ==
  {k \in 1..Len(edges) : edges[k].kind = "call" /\ edges[k].source_node = instructionNodeIds[p]}

CallsKnown ==
  /\ \A k \in 1..Len(edges) : edges[k].kind = "call" =>
       \E p \in Visited : /\ IsDirectCall(module, Instr(module, p))
                          /\ edges[k].source_node = instructionNodeIds[p]
  /\ \A p \in Visited : IsDirectCall(module, Instr(module, p)) =>
       \E k \in 1..Len(edges) :
         /\ CallEdgesFrom(p) = {k}
         /\ edges[k].target_node = FirstNode(EntryBlock(module, Instr(module, p).callee))
         /\ edges[k].target_function = Instr(module, p).callee - 1

CfgEdgeKey(e) == <<e.source_basic_block, e.target_basic_block, e.successor_index>>
CallEdgeKey(e) == <<e.source_node, e.target_function>>

LookedOfKind(kind) == {k \in Looked : edges[k].kind = kind}

LookupKnown ==
  /\ DOMAIN cfgEdgeIds = {CfgEdgeKey(edges[k]) : k \in LookedOfKind("control_flow")}
  /\ \A k \in LookedOfKind("control_flow") :
       \E j \in LookedOfKind("control_flow") :
         /\ cfgEdgeIds[CfgEdgeKey(edges[k])] = j - 1 /\ j <= k
         /\ CfgEdgeKey(edges[j]) = CfgEdgeKey(edges[k])
  /\ DOMAIN callEdgeIds = {CallEdgeKey(edges[k]) : k \in LookedOfKind("call")}
  /\ \A k \in LookedOfKind("call") :
       \E j \in LookedOfKind("call") :
         /\ callEdgeIds[CallEdgeKey(edges[k])] = j - 1
         /\ CallEdgeKey(edges[j]) = CallEdgeKey(edges[k])

EdgesToUser(p, q) ==
  {k \in 1..Len(edges) :
     /\ edges[k].kind = "data_flow" /\ edges[k].target_basic_block = None
     /\ edges[k].source_node = instructionNodeIds[p]
     /\ edges[k].target_node = instructionNodeIds[q]}

UsersKnown ==
  /\ \A p \in Visited, q \in Pointers(module) :
       Cardinality(EdgesToUser(p, q)) = Cardinality(OperandsUsing(module, p, q))
  /\ \A p \in DOMAIN instructionNodeIds \ Visited, q \in DOMAIN instructionNodeIds :
       EdgesToUser(p, q) = {}

\* The operands of p that have a node of their own.
ShownOperands(p) ==
  IF Instr(module, p).op = "phi" THEN {}
  ELSE {k \in DOMAIN Instr(module, p).operands :
          Instr(module, p).operands[k][1] \notin {"instruction", "block"}}

IsNodeOfOperand(n, p, j) ==
  /\ n.consumer = instructionNodeIds[p] /\ n.operand_index = j - 1
  /\ n.label = Instr(module, p).operands[j]

NodesOfOperand(p, j) == {k \in 1..Len(nodes) : IsNodeOfOperand(nodes[k], p, j)}

OperandEdges(k) ==
  {i \in 1..Len(edges) : /\ edges[i].kind = "data_flow" /\ edges[i].source_node = k - 1
                         /\ edges[i].target_node = nodes[k].consumer}

OperandsKnown ==
  /\ \A p \in DOMAIN instructionNodeIds : nodes[instructionNodeIds[p] + 1].consumer = None
  /\ \A k \in 1..Len(nodes) : nodes[k].consumer # None =>
       /\ \E p \in Visited : \E j \in ShownOperands(p) : IsNodeOfOperand(nodes[k], p, j)
       /\ Cardinality(OperandEdges(k)) = 1
  /\ \A p \in Visited : \A j \in ShownOperands(p) :
       Cardinality(NodesOfOperand(p, j)) = 1

Complete ==
  /\ Progress /\ NodeIdsDistinct /\ ControlFlowKnown /\ CallsKnown /\ LookupKnown
  /\ UsersKnown /\ OperandsKnown

(***************************************************************************)
(* What a pass that adds edges leaves as it was.                           *)
(***************************************************************************)
\* Two edges that are the same but for the id.
SameButId(d, e) ==
  /\ d.kind = e.kind /\ d.source_node = e.source_node /\ d.target_node = e.target_node
  /\ d.target_function = e.target_function /\ d.source_basic_block = e.source_basic_block
  /\ d.target_basic_block = e.target_basic_block /\ d.successor_index = e.successor_index

\* The edges that addEdge puts behind the others.
LEMMA EdgesBehind ==
  ASSUME EdgesKnown, NEW new, IsVector(new), AddEdges(new),
         \A j \in 1..Len(new) : DOMAIN new[j] = DOMAIN NewEdge
  PROVE  /\ Len(edges) \in Nat /\ Len(new) \in Nat /\ Len(edges') = Len(edges) + Len(new)
         /\ \A k \in 1..Len(edges) : edges'[k] = edges[k]
         /\ \A j \in 1..Len(new) : SameButId(edges'[Len(edges) + j], new[j])
         /\ \A k \in 1..Len(edges') :
              k \in 1..Len(edges) \/ (k - Len(edges) \in 1..Len(new)
                                      /\ SameButId(edges'[k], new[k - Len(edges)]))
<1> DEFINE n == Len(edges)
           added == [k \in 1..Len(new) |-> [new[k] EXCEPT !.id = n + k - 1]]
<1>1. /\ IsVector(edges) /\ n \in Nat /\ Len(new) \in Nat /\ DOMAIN new = 1..Len(new)
  BY VectorDomain DEF EdgesKnown
<1>2. edges' = edges \o added
  BY <1>1 DEF AddEdges, Add
<1>3. ASSUME NEW k \in 1..Len(new) PROVE SameButId(added[k], new[k])
  <2> DEFINE e == new[k]
             id == n + k - 1
             d == [e EXCEPT !.id = id]
  <2>1. DOMAIN e = DOMAIN NewEdge
    OBVIOUS
  <2>2. added[k] = d
    OBVIOUS
  <2> HIDE DEF added, e, id
  <2>3. SameButId(d, e)
    BY <2>1 DEF SameButId, NewEdge
  <2> QED BY <2>2, <2>3 DEF e
<1>4. IsVector(added) /\ Len(added) = Len(new)
  <2>1. added = [k \in 1..Len(new) |-> added[k]]
    OBVIOUS
  <2> HIDE DEF added
  <2> QED BY <1>1, <2>1, VectorIntro
<1> HIDE DEF added
<1>5. /\ Len(edges') = n + Len(new)
      /\ \A k \in 1..n : edges'[k] = edges[k]
      /\ \A k \in 1..Len(new) : edges'[n + k] = added[k]
      /\ \A k \in 1..Len(edges') :
           k \in 1..n \/ (k - n \in 1..Len(new) /\ edges'[k] = added[k - n])
  <2>1. LET r == edges \o added IN
          /\ Len(r) = Len(edges) + Len(added)
          /\ \A k \in 1..Len(edges) : r[k] = edges[k]
          /\ \A k \in 1..Len(added) : r[Len(edges) + k] = added[k]
          /\ \A k \in 1..Len(r) :
               \/ k \in 1..Len(edges)
               \/ k - Len(edges) \in 1..Len(added) /\ r[k] = added[k - Len(edges)]
    BY <1>1, <1>4, Appending
  <2> QED BY <1>2, <1>4, <2>1
<1> QED BY <1>1, <1>3, <1>5

\* Edges of other kinds are added.
LEMMA ControlFlowKept ==
  ASSUME ControlFlowKnown, Len(edges) \in Nat, Len(edges') \in Nat, Continues(edges, edges'),
         \A k \in 1..Len(edges') : k \in 1..Len(edges) \/ edges'[k].kind # "control_flow",
         module' = module, instructionNodeIds' = instructionNodeIds, Joined' = Joined
  PROVE  ControlFlowKnown'
<1>2. \A k \in 1..Len(edges) : k \in 1..Len(edges') /\ edges'[k] = edges[k]
  BY DEF Continues
<1>3. ASSUME NEW k \in 1..Len(edges'), edges'[k].kind = "control_flow"
      PROVE  \E b \in Joined' : \E s \in Before(module', b) :
               IsEdgeBetweenBlocks(edges[k], s, b)'
  <2>1. k \in 1..Len(edges) /\ edges'[k] = edges[k]
    BY <1>2, <1>3
  <2>2. PICK b \in Joined : \E s \in Before(module, b) : IsEdgeBetweenBlocks(edges[k], s, b)
    BY <1>3, <2>1 DEF ControlFlowKnown
  <2>3. PICK s \in Before(module, b) : IsEdgeBetweenBlocks(edges[k], s, b)
    BY <2>2
  <2>4. IsEdgeBetweenBlocks(edges[k], s, b)'
    BY <2>1, <2>3 DEF IsEdgeBetweenBlocks, FirstNode
  <2> QED BY <2>3, <2>4
<1>4. ASSUME NEW s, NEW b PROVE EdgesBetweenBlocks(s, b)' = EdgesBetweenBlocks(s, b)
  <2>1. ASSUME NEW k \in 1..Len(edges')
        PROVE  IsEdgeBetweenBlocks(edges[k], s, b)'
                 <=> k \in 1..Len(edges) /\ IsEdgeBetweenBlocks(edges[k], s, b)
    BY <1>2 DEF IsEdgeBetweenBlocks, FirstNode
  <2> QED BY <1>2, <2>1 DEF EdgesBetweenBlocks
<1>5. \A s \in Blocks(module'), b \in Joined' :
        Cardinality(EdgesBetweenBlocks(s, b)') = Cardinality(EdgesFromTo(module', s, b))
  BY <1>4 DEF ControlFlowKnown
<1> QED BY <1>3, <1>5 DEF ControlFlowKnown

LEMMA CallsKept ==
  ASSUME CallsKnown, Len(edges) \in Nat, Len(edges') \in Nat, Continues(edges, edges'),
         \A k \in 1..Len(edges') : k \in 1..Len(edges) \/ edges'[k].kind # "call",
         module' = module, instructionNodeIds' = instructionNodeIds, Visited' = Visited
  PROVE  CallsKnown'
<1>1. \A k \in 1..Len(edges) : k \in 1..Len(edges') /\ edges'[k] = edges[k]
  BY DEF Continues
<1>2. ASSUME NEW p PROVE CallEdgesFrom(p)' = CallEdgesFrom(p)
  BY <1>1 DEF CallEdgesFrom
<1>3. \A k \in 1..Len(edges') : edges'[k].kind = "call" =>
        \E p \in Visited' : /\ IsDirectCall(module', Instr(module', p))
                            /\ edges'[k].source_node = instructionNodeIds'[p]
  BY <1>1 DEF CallsKnown
<1>4. ASSUME NEW p \in Visited', IsDirectCall(module', Instr(module', p))
      PROVE  \E k \in 1..Len(edges') :
               /\ CallEdgesFrom(p)' = {k}
               /\ edges'[k].target_node = FirstNode(EntryBlock(module, Instr(module, p).callee))'
               /\ edges'[k].target_function = Instr(module', p).callee - 1
  <2>1. PICK k \in 1..Len(edges) :
          /\ CallEdgesFrom(p) = {k}
          /\ edges[k].target_node = FirstNode(EntryBlock(module, Instr(module, p).callee))
          /\ edges[k].target_function = Instr(module, p).callee - 1
    BY <1>4 DEF CallsKnown
  <2> QED BY <1>1, <1>2, <2>1 DEF FirstNode
<1> QED BY <1>3, <1>4 DEF CallsKnown

LEMMA UsersKept ==
  ASSUME UsersKnown, Len(edges) \in Nat, Len(edges') \in Nat, Continues(edges, edges'),
         \A k \in 1..Len(edges') : k \in 1..Len(edges) \/ edges'[k].kind # "data_flow",
         module' = module, instructionNodeIds' = instructionNodeIds, Visited' = Visited
  PROVE  UsersKnown'
<1>1. \A k \in 1..Len(edges) : k \in 1..Len(edges') /\ edges'[k] = edges[k]
  BY DEF Continues
<1>2. ASSUME NEW p, NEW q
      PROVE  EdgesToUser(p, q)' = EdgesToUser(p, q)
  BY <1>1 DEF EdgesToUser
<1> QED BY <1>2 DEF UsersKnown

LEMMA OperandsKept ==
  ASSUME OperandsKnown, Len(edges) \in Nat, Len(edges') \in Nat, Continues(edges, edges'),
         \A k \in 1..Len(edges') : k \in 1..Len(edges) \/ edges'[k].kind # "data_flow",
         module' = module, instructionNodeIds' = instructionNodeIds, nodes' = nodes,
         Visited' = Visited
  PROVE  OperandsKnown'
<1>1. \A k \in 1..Len(edges) : k \in 1..Len(edges') /\ edges'[k] = edges[k]
  BY DEF Continues
<1>2. ASSUME NEW k PROVE OperandEdges(k)' = OperandEdges(k)
  BY <1>1 DEF OperandEdges
<1>3. ASSUME NEW k, NEW p, NEW j
      PROVE  /\ ShownOperands(p)' = ShownOperands(p)
             /\ IsNodeOfOperand(nodes[k], p, j)' <=> IsNodeOfOperand(nodes[k], p, j)
  BY DEF ShownOperands, IsNodeOfOperand
<1>4. ASSUME NEW p, NEW j PROVE NodesOfOperand(p, j)' = NodesOfOperand(p, j)
  BY <1>3 DEF NodesOfOperand
<1>5. ASSUME NEW k \in 1..Len(nodes'), nodes'[k].consumer # None
      PROVE  /\ \E p \in Visited' : \E j \in ShownOperands(p)' : IsNodeOfOperand(nodes[k], p, j)'
             /\ Cardinality(OperandEdges(k)') = 1
  BY <1>2, <1>3, <1>5 DEF OperandsKnown
<1>6. \A p \in Visited' : \A j \in ShownOperands(p)' :
        Cardinality(NodesOfOperand(p, j)') = 1
  BY <1>3, <1>4 DEF OperandsKnown
<1>7. \A p \in DOMAIN instructionNodeIds' : nodes'[instructionNodeIds'[p] + 1].consumer = None
  BY DEF OperandsKnown
<1> QED BY <1>5, <1>6, <1>7 DEF OperandsKnown

\* The lookup maps are empty until the last pass.
LEMMA LookupKept ==
  ASSUME LookupKnown, Looked = {}, Looked' = {}, UNCHANGED infoVars
  PROVE  LookupKnown'
<1>1. \A kind : LookedOfKind(kind) = {} /\ LookedOfKind(kind)' = {}
  BY DEF LookedOfKind
<1> QED BY <1>1 DEF LookupKnown, infoVars

(***************************************************************************)
(* The passes before the first control-flow edge, and the last one.        *)
(***************************************************************************)
NothingJoined == edges = <<>> /\ Joined = {} /\ Visited = {}

LEMMA NothingJoinedYet == NothingJoined => ControlFlowKnown /\ CallsKnown /\ UsersKnown
<1> SUFFICES ASSUME NothingJoined PROVE ControlFlowKnown /\ CallsKnown /\ UsersKnown
  OBVIOUS
<1>1. 1..Len(edges) = {} /\ Joined = {} /\ Visited = {}
  BY DEF NothingJoined
<1>2. \A p, q : EdgesToUser(p, q) = {}
  BY <1>1 DEF EdgesToUser
<1>3. ControlFlowKnown
  BY <1>1 DEF ControlFlowKnown
<1>4. CallsKnown
  BY <1>1 DEF CallsKnown
<1>5. UsersKnown
  BY <1>1, <1>2 DEF UsersKnown
<1> QED BY <1>3, <1>4, <1>5

LEMMA NothingJoinedNext == NothingJoined' => ControlFlowKnown' /\ CallsKnown' /\ UsersKnown'
BY NothingJoinedYet, PTL

\* Nothing is there before the first pass.
LEMMA InitComplete == Init => Complete
<1> SUFFICES ASSUME Init PROVE Complete
  OBVIOUS
<1> USE DEF Init
<1>1. Joined = {} /\ Visited = {} /\ Looked = {} /\ 1..0 = {} /\ Len(<<>>) = 0
  BY DEF Joined, Visited, Looked
<1>2. DOMAIN EmptyMap = {}
  BY DEF EmptyMap
<1>3. ControlFlowKnown /\ CallsKnown /\ UsersKnown
  BY <1>1, NothingJoinedYet DEF NothingJoined
<1>4. LookupKnown
  BY <1>1, <1>2 DEF LookupKnown, LookedOfKind
<1>5. Progress
  BY DEF Progress
<1>6. NodeIdsDistinct
  BY <1>2 DEF NodeIdsDistinct
<1>7. OperandsKnown
  BY <1>1, <1>2 DEF OperandsKnown
<1> QED BY <1>3, <1>4, <1>5, <1>6, <1>7 DEF Complete

\* A step that leaves the graph and the lookup maps as they are.
LEMMA GraphKept ==
  ASSUME IInv, Complete, Progress', UNCHANGED <<module, nodes, edges, instructionNodeIds, infoVars>>,
         Joined' = Joined, Visited' = Visited, Looked' = Looked
  PROVE  Complete'
<1>1. Len(edges) \in Nat /\ Len(edges') = Len(edges) /\ Continues(edges, edges')
  BY Known DEF Continues
<1>2. ControlFlowKnown' /\ CallsKnown' /\ UsersKnown' /\ OperandsKnown'
  BY <1>1, ControlFlowKept, CallsKept, UsersKept, OperandsKept DEF Complete
<1>3. LookupKnown'
  BY DEF Complete, LookupKnown, LookedOfKind, infoVars
<1>4. NodeIdsDistinct'
  BY DEF Complete, NodeIdsDistinct
<1> QED BY <1>2, <1>3, <1>4 DEF Complete

\* registerFunctionsAndBasicBlocks adds neither nodes nor edges.
LEMMA BlocksStepComplete ==
  ASSUME IInv, Complete, RegisterFunctionsAndBasicBlocks
  PROVE  Complete'
<1>1. /\ phase = "blocks" /\ phase' = "blocks"
      /\ UNCHANGED <<module, nodes, edges, instructionNodeIds, infoVars>>
  BY DEF RegisterFunctionsAndBasicBlocks, Round
<1>2. Joined' = Joined /\ Visited' = Visited /\ Looked' = Looked
  BY <1>1 DEF Joined, Visited, Looked
<1>3. Progress'
  BY <1>1 DEF Complete, Progress
<1> QED BY <1>1, <1>2, <1>3, GraphKept

\* The next pass begins where the one before has ended.
LEMMA EndOfPhaseComplete ==
  ASSUME IInv, Complete, EndOfPhase
  PROVE  Complete'
<1>1. /\ phase \in DOMAIN NextPhase /\ cursor = Rounds(phase)
      /\ phase' = NextPhase[phase] /\ cursor' = 0
      /\ UNCHANGED <<module, nodes, edges, instructionNodeIds, infoVars>>
  BY DEF EndOfPhase, graphVars, idVars
<1>2. /\ WellFormed(module) /\ Blocks(module) = 1..Len(module.body) /\ 1..0 = {}
      /\ Len(edges) \in Nat /\ Len(module.body) \in Nat
  BY Known DEF Blocks
<1>3. Layout(module) \in Seq(Pointers(module)) /\ Len(Layout(module)) \in Nat
  BY <1>2, LayoutType
<1>4. {Layout(module)[i] : i \in 1..Len(Layout(module))} = Pointers(module)
  <2>1. \A p \in Pointers(module) : \E i \in 1..Len(Layout(module)) : Layout(module)[i] = p
    BY <1>2, PlaceInLayout
  <2> QED BY <1>3, <2>1
<1>5. /\ phase = "blocks" => phase' = "nodes"
      /\ phase = "nodes" => phase' = "sequence"
      /\ phase = "sequence" => phase' = "control_flow"
      /\ phase = "control_flow" => phase' = "data_flow" /\ cursor = Len(module.body)
      /\ phase = "data_flow" => phase' = "info" /\ cursor = Len(Layout(module))
      /\ phase = "info" => phase' = "built" /\ cursor = Len(edges)
      /\ phase \in {"blocks", "nodes", "sequence", "control_flow", "data_flow", "info"}
  BY <1>1 DEF NextPhase, Rounds
<1>6. Joined' = Joined
  BY <1>1, <1>2, <1>5 DEF Joined
<1>7. Visited' = Visited
  <2> HIDE DEF Blocks
  <2>1. CASE phase = "data_flow"
    BY <1>1, <1>4, <1>5, <2>1 DEF Visited
  <2>2. CASE phase = "control_flow"
    BY <1>1, <1>2, <1>5, <2>2 DEF Visited
  <2>3. CASE phase \notin {"control_flow", "data_flow"}
    BY <1>1, <1>5, <2>3 DEF Visited
  <2> QED BY <2>1, <2>2, <2>3
<1>8. Looked' = Looked
  BY <1>1, <1>2, <1>5 DEF Looked
<1>9. Progress'
  BY <1>1, <1>2, <1>3, <1>5 DEF Complete, Progress
<1> QED BY <1>1, <1>6, <1>7, <1>8, <1>9, GraphKept

\* registerInstructionNodes, one block: the new nodes get ids that no node has.
LEMMA NodesStepComplete ==
  ASSUME IInv, Complete, RegisterInstructionNodes
  PROVE  Complete'
<1> DEFINE b == cursor + 1
           body == module.body[b]
           size == Len(body)
           count == Len(nodes)
           fid == functionIds[module.function_of[b]]
           bid == basicBlockIds[b]
           node(k) == Node([id |-> count + k - 1, function |-> fid, basic_block |-> bid,
                            label |-> <<"opcode", body[k].op>>,
                            opcode_name |-> <<"opcode", body[k].op>>])
           new == [k \in DOMAIN body |-> node(k)]
           ids == [p \in {b} \X DOMAIN body |-> count + p[2] - 1]
<1>1. /\ phase = "nodes" /\ phase' = "nodes" /\ cursor < Len(module.body) /\ cursor' = b
      /\ nodes' = nodes \o new
      /\ instructionNodeIds' = Extended(instructionNodeIds, ids)
      /\ UNCHANGED <<module, edges, infoVars>>
  BY DEF RegisterInstructionNodes, Round, Rounds, Add
<1>2. /\ WellFormed(module) /\ cursor \in Nat /\ Len(module.body) \in Nat
      /\ count \in Nat /\ IsVector(nodes)
  BY Known DEF IInv, NodesKnown
<1>3. /\ b \in Blocks(module) /\ size \in Nat /\ DOMAIN body = 1..size
  <2>1. b \in Blocks(module)
    BY <1>1, <1>2 DEF Blocks
  <2>2. body \in Seq(Instructions(module))
    BY <1>2, <2>1, BodyType
  <2> HIDE DEF body
  <2> QED BY <2>1, <2>2
<1> HIDE DEF b, body, fid, bid
<1>4. ASSUME NEW k \in 1..size PROVE node(k).consumer = None
  BY DEF Node, Setting, NewNode
<1> HIDE DEF node
<1>5. IsVector(new) /\ Len(new) = size /\ \A k \in 1..size : new[k].consumer = None
  <2>1. new = [k \in 1..size |-> new[k]] /\ \A k \in 1..size : new[k] = node(k)
    BY <1>3
  <2> HIDE DEF new
  <2> QED BY <1>3, <1>4, <2>1, VectorIntro
<1>6. /\ DOMAIN ids = {b} \X (1..size)
      /\ \A k \in 1..size : ids[<<b, k>>] = count + k - 1
  BY <1>3
<1> HIDE DEF new, ids, size
<1>7. /\ Len(nodes') = count + size
      /\ \A k \in 1..count : nodes'[k] = nodes[k]
      /\ \A k \in 1..size : nodes'[count + k].consumer = None
      /\ \A k \in 1..Len(nodes') : k \in 1..count \/ nodes'[k].consumer = None
  <2>1. LET r == nodes \o new IN
          /\ Len(r) = Len(nodes) + Len(new)
          /\ \A k \in 1..Len(nodes) : r[k] = nodes[k]
          /\ \A k \in 1..Len(new) : r[Len(nodes) + k] = new[k]
          /\ \A k \in 1..Len(r) :
               \/ k \in 1..Len(nodes)
               \/ k - Len(nodes) \in 1..Len(new) /\ r[k] = new[k - Len(nodes)]
    BY <1>2, <1>5, Appending
  <2> QED BY <1>1, <1>5, <2>1
<1> HIDE DEF count
<1>8. DOMAIN instructionNodeIds = {p \in Pointers(module) : p[1] \in 1..cursor}
  BY <1>1 DEF IInv, NodesKnown, Seen
<1>9. /\ DOMAIN instructionNodeIds' = DOMAIN instructionNodeIds \cup ({b} \X (1..size))
      /\ \A p \in DOMAIN instructionNodeIds : instructionNodeIds'[p] = instructionNodeIds[p]
      /\ \A k \in 1..size : instructionNodeIds'[<<b, k>>] = count + k - 1
  <2>1. ASSUME NEW k \in 1..size PROVE instructionNodeIds'[<<b, k>>] = count + k - 1
    <3>1. <<b, k>> \in DOMAIN ids /\ <<b, k>> \notin DOMAIN instructionNodeIds
      BY <1>2, <1>6, <1>8 DEF b
    <3>2. instructionNodeIds'[<<b, k>>] = ids[<<b, k>>]
      BY <1>1, <3>1, ExtensionOfMap
    <3> QED BY <1>6, <3>2
  <2> QED BY <1>1, <1>6, <2>1, ExtendedMap
<1>10. \A p \in DOMAIN instructionNodeIds :
         instructionNodeIds[p] \in 0..(count - 1) /\ instructionNodeIds[p] + 1 \in 1..count
  BY <1>2 DEF IInv, NodesKnown, IdsIn, count
<1>11. \A p \in {b} \X (1..size) : p = <<b, p[2]>> /\ p[2] \in 1..size
  OBVIOUS
<1>12. ASSUME NEW p \in {b} \X (1..size)
       PROVE  instructionNodeIds'[p] = count + p[2] - 1
  BY <1>9, <1>11
<1>13. NodeIdsDistinct'
  <2>1. ASSUME NEW p \in DOMAIN instructionNodeIds', NEW q \in DOMAIN instructionNodeIds',
               instructionNodeIds'[p] = instructionNodeIds'[q]
        PROVE  p = q
    <3>1. CASE p \in DOMAIN instructionNodeIds /\ q \in DOMAIN instructionNodeIds
      BY <1>9, <2>1, <3>1 DEF Complete, NodeIdsDistinct
    <3>2. CASE p \in {b} \X (1..size) /\ q \in {b} \X (1..size)
      <4>1. count + p[2] - 1 = count + q[2] - 1
        BY <1>12, <2>1, <3>2
      <4>2. p[2] = q[2]
        BY <1>2, <1>3, <1>11, <3>2, <4>1
      <4> QED BY <1>11, <3>2, <4>2
    <3>3. ASSUME NEW x \in DOMAIN instructionNodeIds, NEW y \in {b} \X (1..size)
          PROVE  instructionNodeIds'[x] # instructionNodeIds'[y]
      <4>1. instructionNodeIds'[x] \in 0..(count - 1)
        BY <1>9, <1>10
      <4>2. instructionNodeIds'[y] = count + y[2] - 1 /\ y[2] \in 1..size
        BY <1>11, <1>12
      <4> QED BY <1>2, <1>3, <4>1, <4>2
    <3> QED BY <1>9, <2>1, <3>1, <3>2, <3>3
  <2> QED BY <2>1 DEF NodeIdsDistinct
<1>14. edges' = <<>> /\ Progress'
  BY <1>1 DEF Complete, Progress
<1>15. /\ Joined' = {} /\ Visited = {} /\ Visited' = {} /\ Looked = {} /\ Looked' = {}
  BY <1>1 DEF Joined, Visited, Looked
<1>16. ControlFlowKnown' /\ CallsKnown' /\ UsersKnown'
  BY <1>14, <1>15, NothingJoinedNext DEF NothingJoined
<1>17. LookupKnown'
  BY <1>1, <1>15, LookupKept DEF Complete
<1>18. OperandsKnown'
  <2>1. ASSUME NEW p \in DOMAIN instructionNodeIds'
        PROVE  nodes'[instructionNodeIds'[p] + 1].consumer = None
    <3>1. CASE p \in DOMAIN instructionNodeIds
      <4>1. nodes[instructionNodeIds[p] + 1].consumer = None
        BY <3>1 DEF Complete, OperandsKnown
      <4> QED BY <1>7, <1>9, <1>10, <3>1, <4>1
    <3>2. CASE p \in {b} \X (1..size)
      <4>1. instructionNodeIds'[p] + 1 = count + p[2] /\ p[2] \in 1..size
        BY <1>2, <1>3, <1>11, <1>12, <3>2
      <4> QED BY <1>7, <4>1
    <3> QED BY <1>9, <3>1, <3>2
  <2>2. ASSUME NEW k \in 1..Len(nodes') PROVE nodes'[k].consumer = None
    <3>1. CASE k \in 1..count
      <4>1. nodes[k].consumer = None
        BY <1>15, <3>1 DEF Complete, OperandsKnown, count
      <4> QED BY <1>7, <3>1, <4>1
    <3> QED BY <1>7, <3>1
  <2> QED BY <1>15, <2>1, <2>2 DEF OperandsKnown
<1> QED BY <1>13, <1>14, <1>16, <1>17, <1>18 DEF Complete

\* registerInstructionSequenceEdges, one block: edges of a kind of their own.
LEMMA SequenceStepComplete ==
  ASSUME IInv, Complete, RegisterInstructionSequenceEdges
  PROVE  Complete'
<1> DEFINE b == cursor + 1
           size == Len(module.body[b])
           at(k) == instructionNodeIds[<<b, k>>]
           edge(k) == EdgeBetween("instruction_sequence", at(k), at(k + 1))
           new == [k \in 1..(size - 1) |-> edge(k)]
<1>1. /\ phase = "sequence" /\ phase' = "sequence" /\ cursor < Len(module.body)
      /\ AddEdges(new) /\ UNCHANGED <<module, nodes, instructionNodeIds, infoVars>>
  BY DEF RegisterInstructionSequenceEdges, Round, Rounds, idVars
<1>2. WellFormed(module) /\ cursor \in Nat /\ Len(module.body) \in Nat
  BY Known
<1>3. size - 1 \in Nat
  <2>1. b \in Blocks(module)
    BY <1>1, <1>2 DEF Blocks
  <2>2. size \in Nat \ {0}
    BY <1>2, <2>1, BodyType
  <2> QED BY <2>2
<1>4. /\ IsVector(new)
      /\ \A k \in 1..Len(new) : /\ DOMAIN new[k] = DOMAIN NewEdge
                                /\ new[k].kind = "instruction_sequence"
  <2>1. \A k \in 1..(size - 1) : new[k] = edge(k)
    OBVIOUS
  <2>2. new = [k \in 1..(size - 1) |-> new[k]]
    OBVIOUS
  <2>3. ASSUME NEW k \in 1..(size - 1)
        PROVE  DOMAIN edge(k) = DOMAIN NewEdge /\ edge(k).kind = "instruction_sequence"
    BY EdgeFields
  <2> HIDE DEF new, edge, size
  <2> QED BY <1>3, <2>1, <2>2, <2>3, VectorIntro
<1> HIDE DEF new
<1>5. /\ Len(edges) \in Nat /\ Len(new) \in Nat /\ Len(edges') = Len(edges) + Len(new)
      /\ \A k \in 1..Len(edges) : edges'[k] = edges[k]
      /\ \A k \in 1..Len(edges') :
           k \in 1..Len(edges) \/ (k - Len(edges) \in 1..Len(new)
                                   /\ SameButId(edges'[k], new[k - Len(edges)]))
  BY <1>1, <1>4, EdgesBehind DEF IInv
<1>6. /\ Continues(edges, edges') /\ Len(edges') \in Nat
      /\ \A k \in 1..Len(edges') :
           k \in 1..Len(edges) \/ edges'[k].kind = "instruction_sequence"
  BY <1>4, <1>5 DEF Continues, SameButId
<1>7. /\ Joined' = Joined /\ Visited' = Visited /\ Looked = {} /\ Looked' = {}
  BY <1>1 DEF Joined, Visited, Looked
<1>8. ControlFlowKnown' /\ CallsKnown' /\ UsersKnown' /\ OperandsKnown'
  BY <1>1, <1>5, <1>6, <1>7, ControlFlowKept, CallsKept, UsersKept, OperandsKept DEF Complete
<1>9. LookupKnown'
  BY <1>1, <1>7, LookupKept DEF Complete
<1>10. NodeIdsDistinct' /\ Progress'
  BY <1>1 DEF Complete, NodeIdsDistinct, Progress
<1> QED BY <1>8, <1>9, <1>10 DEF Complete

(***************************************************************************)
(* The control-flow edges of a block.                                      *)
(***************************************************************************)
\* What registerControlFlowEdges adds: an edge for every incoming block.
LEMMA ControlFlowEdges ==
  ASSUME IInv, RegisterControlFlowEdges, NEW b, b = cursor + 1
  PROVE  /\ b \in Blocks(module) /\ IncomingBlocks(b) \in Seq(Before(module, b))
         /\ \E new :
              /\ AddEdges(new) /\ IsVector(new) /\ Len(new) = Len(IncomingBlocks(b))
              /\ \A k \in 1..Len(new) :
                   /\ DOMAIN new[k] = DOMAIN NewEdge
                   /\ IsEdgeBetweenBlocks(new[k], IncomingBlocks(b)[k], b)
<1> DEFINE fid == functionIds[module.function_of[b]]
           from == IncomingBlocks(b)
           between(s) == EdgeBetween("control_flow", instructionNodeIds[Terminator(module, s)],
                                     instructionNodeIds[<<b, 1>>])
           edgeFrom(s) ==
             [between(s)
                EXCEPT !.source_function = fid, !.target_function = fid,
                       !.source_basic_block = basicBlockIds[s],
                       !.target_basic_block = basicBlockIds[b],
                       !.successor_index = FindSuccessorIndex(s, b)]
           new == [k \in DOMAIN from |-> edgeFrom(from[k])]
<1>1. /\ phase = "control_flow" /\ cursor < Len(module.body) /\ AddEdges(new)
  BY DEF RegisterControlFlowEdges, Round, Rounds
<1> HIDE DEF new, edgeFrom
<1>2. WellFormed(module) /\ cursor \in Nat /\ Len(module.body) \in Nat
  BY Known
<1>3. b \in Blocks(module)
  BY <1>1, <1>2 DEF Blocks
<1>4. from \in Seq(Before(module, b))
  BY <1>2, <1>3, IncomingType DEF IncomingBlocks
<1>5. ASSUME NEW s \in Before(module, b)
      PROVE  DOMAIN edgeFrom(s) = DOMAIN NewEdge /\ IsEdgeBetweenBlocks(edgeFrom(s), s, b)
  <2>1. s \in Blocks(module)
    BY <1>2, <1>3, BeforeIsInFunction
  <2>2. basicBlockIds[s] = s - 1 /\ basicBlockIds[b] = b - 1
    BY <1>1, <1>3, <2>1, AfterNodes
  <2>3. FindSuccessorIndex(s, b) = FirstSlot(module, s, b)
    BY DEF FindSuccessorIndex, FirstSlot
  <2> DEFINE source == instructionNodeIds[Terminator(module, s)]
             target == instructionNodeIds[<<b, 1>>]
             index == FindSuccessorIndex(s, b)
  <2>4. /\ DOMAIN between(s) = DOMAIN NewEdge
        /\ between(s).kind = "control_flow"
        /\ between(s).source_node = source /\ between(s).target_node = target
    BY EdgeFields
  <2> HIDE DEF between, fid, source, target, index
  <2>5. /\ DOMAIN edgeFrom(s) = DOMAIN NewEdge
        /\ edgeFrom(s).kind = "control_flow"
        /\ edgeFrom(s).source_node = source /\ edgeFrom(s).target_node = target
        /\ edgeFrom(s).source_basic_block = basicBlockIds[s]
        /\ edgeFrom(s).target_basic_block = basicBlockIds[b]
        /\ edgeFrom(s).successor_index = index
    BY <2>4 DEF NewEdge, edgeFrom, index
  <2> QED BY <2>2, <2>3, <2>5 DEF IsEdgeBetweenBlocks, FirstNode, source, target, index
<1>6. /\ IsVector(new) /\ Len(new) = Len(from)
      /\ \A k \in 1..Len(new) :
           DOMAIN new[k] = DOMAIN NewEdge /\ IsEdgeBetweenBlocks(new[k], from[k], b)
  <2>1. DOMAIN from = 1..Len(from) /\ Len(from) \in Nat
    BY <1>4
  <2> HIDE DEF from
  <2>2. \A k \in 1..Len(from) : from[k] \in Before(module, b)
    BY <1>4
  <2>3. /\ new = [k \in 1..Len(from) |-> new[k]]
        /\ \A k \in 1..Len(from) : new[k] = edgeFrom(from[k])
    BY <2>1 DEF new
  <2>4. IsVector(new) /\ Len(new) = Len(from)
    BY <2>1, <2>3, VectorIntro
  <2> QED BY <1>5, <2>2, <2>3, <2>4
<1> QED BY <1>1, <1>3, <1>4, <1>6

\* registerControlFlowEdges, one block: of the edges into b none is there yet, and
\* afterwards as many as the module has.
LEMMA ControlFlowStepComplete ==
  ASSUME IInv, Complete, RegisterControlFlowEdges
  PROVE  Complete'
<1>21. PICK b : b = cursor + 1
  OBVIOUS
<1>22. PICK from : from = IncomingBlocks(b)
  OBVIOUS
<1>23. PICK n : n = Len(edges)
  OBVIOUS
<1>1. /\ phase = "control_flow" /\ phase' = "control_flow" /\ cursor < Len(module.body)
      /\ cursor' = b /\ UNCHANGED <<module, nodes, instructionNodeIds, infoVars>>
  BY <1>21 DEF RegisterControlFlowEdges, Round, Rounds, idVars
<1>2. WellFormed(module) /\ cursor \in Nat /\ Len(module.body) \in Nat
  BY Known
<1>3. /\ Joined = 1..cursor /\ Joined' = 1..b /\ b \notin Joined /\ Joined' = Joined \cup {b}
      /\ Visited' = Visited /\ Looked = {} /\ Looked' = {}
  BY <1>1, <1>2, <1>21 DEF Joined, Visited, Looked
<1>4. b \in Blocks(module) /\ from \in Seq(Before(module, b))
  BY <1>21, <1>22, ControlFlowEdges
<1>5. PICK new :
        /\ AddEdges(new) /\ IsVector(new) /\ Len(new) = Len(from)
        /\ \A k \in 1..Len(new) :
             DOMAIN new[k] = DOMAIN NewEdge /\ IsEdgeBetweenBlocks(new[k], from[k], b)
  BY <1>21, <1>22, ControlFlowEdges
<1>6. /\ n \in Nat /\ Len(new) \in Nat /\ Len(edges') = n + Len(new)
      /\ \A k \in 1..n : edges'[k] = edges[k]
      /\ \A j \in 1..Len(new) : SameButId(edges'[n + j], new[j])
      /\ \A k \in 1..Len(edges') :
           k \in 1..n \/ (k - n \in 1..Len(new) /\ SameButId(edges'[k], new[k - n]))
  BY <1>5, <1>23, EdgesBehind DEF IInv
<1>7. /\ \A k \in 1..Len(from) : from[k] \in Before(module, b) /\ from[k] \in Blocks(module)
      /\ Blocks(module) \subseteq Nat
  <2>1. \A k \in 1..Len(from) : from[k] \in Before(module, b)
    BY <1>4
  <2> QED BY <1>2, <1>4, <2>1, BeforeIsInFunction DEF Blocks
<1>8. ASSUME NEW e, NEW s, NEW c
      PROVE  IsEdgeBetweenBlocks(e, s, c) => e.source_basic_block = s - 1
                                             /\ e.target_basic_block = c - 1
  BY DEF IsEdgeBetweenBlocks
<1>9. ASSUME NEW k \in 1..Len(new)
      PROVE  /\ IsEdgeBetweenBlocks(edges[n + k], from[k], b)'
             /\ edges'[n + k].kind = "control_flow"
             /\ edges'[n + k].source_basic_block = from[k] - 1
             /\ edges'[n + k].target_basic_block = b - 1
  <2>1. PICK e, d : e = edges'[n + k] /\ d = new[k]
    OBVIOUS
  <2>2. SameButId(e, d) /\ IsEdgeBetweenBlocks(d, from[k], b)
    BY <1>5, <1>6, <2>1
  <2>3. IsEdgeBetweenBlocks(e, from[k], b)
    BY <2>2 DEF IsEdgeBetweenBlocks, SameButId
  <2>4. IsEdgeBetweenBlocks(edges[n + k], from[k], b)'
    BY <1>1, <2>1, <2>3 DEF IsEdgeBetweenBlocks, FirstNode
  <2> QED BY <2>1, <2>3, <2>4 DEF IsEdgeBetweenBlocks
<1>10. \A k \in 1..n : \A s, c :
         IsEdgeBetweenBlocks(edges[k], s, c)' <=> IsEdgeBetweenBlocks(edges[k], s, c)
  BY <1>1, <1>6 DEF IsEdgeBetweenBlocks, FirstNode
<1>11. ASSUME NEW k \in 1..Len(edges'), edges'[k].kind = "control_flow"
       PROVE  \E c \in Joined' : \E s \in Before(module', c) :
                IsEdgeBetweenBlocks(edges[k], s, c)'
  <2>1. CASE k \in 1..n
    <3>1. PICK c \in Joined : \E s \in Before(module, c) : IsEdgeBetweenBlocks(edges[k], s, c)
      BY <1>6, <1>11, <1>23, <2>1 DEF Complete, ControlFlowKnown
    <3> QED BY <1>1, <1>3, <1>10, <2>1, <3>1
  <2>2. CASE k - n \in 1..Len(new)
    <3>1. n + (k - n) = k
      BY <1>6
    <3>2. IsEdgeBetweenBlocks(edges[k], from[k - n], b)'
      BY <1>9, <2>2, <3>1
    <3>3. from[k - n] \in Before(module, b)
      BY <1>5, <1>7, <2>2
    <3> QED BY <1>1, <1>3, <3>2, <3>3
  <2> QED BY <1>6, <2>1, <2>2
<1>12. ASSUME NEW s \in Blocks(module), NEW c \in Joined
       PROVE  Cardinality(EdgesBetweenBlocks(s, c)') = Cardinality(EdgesFromTo(module, s, c))
  <2>1. c # b /\ c \in Nat /\ b \in Nat
    BY <1>2, <1>3, <1>4 DEF Blocks
  <2>2. ASSUME NEW k \in 1..Len(edges'), IsEdgeBetweenBlocks(edges[k], s, c)'
        PROVE  k \in 1..n
    <3>1. edges'[k].target_basic_block = c - 1
      BY <2>2 DEF IsEdgeBetweenBlocks
    <3>2. CASE k - n \in 1..Len(new)
      <4>1. n + (k - n) = k
        BY <1>6
      <4>2. edges'[k].target_basic_block = b - 1
        BY <1>9, <3>2, <4>1
      <4> QED BY <2>1, <3>1, <4>2
    <3> QED BY <1>6, <3>2
  <2>3. EdgesBetweenBlocks(s, c)' = EdgesBetweenBlocks(s, c)
    <3>1. \A k \in 1..n : k \in 1..Len(edges')
      BY <1>6
    <3> QED BY <1>10, <1>23, <2>2, <3>1 DEF EdgesBetweenBlocks
  <2> QED BY <2>3 DEF Complete, ControlFlowKnown
<1>13. ASSUME NEW s \in Blocks(module)
       PROVE  Cardinality(EdgesBetweenBlocks(s, b)') = Cardinality(EdgesFromTo(module, s, b))
  <2> DEFINE K == EdgesBetweenBlocks(s, b)'
             m == Len(new)
             high == {j \in 1..m : n + j \in K}
  <2>1. K \in SUBSET (1..(n + m))
    BY <1>6 DEF EdgesBetweenBlocks
  <2>2. K \cap 1..n = {}
    <3>1. ASSUME NEW k \in 1..n, IsEdgeBetweenBlocks(edges[k], s, b)' PROVE FALSE
      <4>1. IsEdgeBetweenBlocks(edges[k], s, b)
        BY <1>10, <3>1
      <4>2. edges[k].kind = "control_flow" /\ edges[k].target_basic_block = b - 1
        BY <4>1 DEF IsEdgeBetweenBlocks
      <4>3. PICK c \in Joined : \E t \in Before(module, c) : IsEdgeBetweenBlocks(edges[k], t, c)
        BY <1>23, <4>2 DEF Complete, ControlFlowKnown
      <4>4. edges[k].target_basic_block = c - 1 /\ c \in Nat /\ b \in Nat
        BY <1>2, <1>3, <1>4, <4>3 DEF IsEdgeBetweenBlocks, Blocks
      <4>5. c = b
        BY <4>2, <4>4
      <4> QED BY <1>3, <4>5
    <3> QED BY <3>1 DEF EdgesBetweenBlocks
  <2>3. high = Places(from, s)
    <3>1. ASSUME NEW j \in 1..m PROVE n + j \in K <=> from[j] = s
      <4>1. n + j \in 1..Len(edges')
        BY <1>6
      <4>2. n + j \in K <=> IsEdgeBetweenBlocks(edges[n + j], s, b)'
        BY <4>1 DEF EdgesBetweenBlocks
      <4>3. edges'[n + j].source_basic_block = from[j] - 1 /\ from[j] \in Nat /\ s \in Nat
        BY <1>5, <1>7, <1>9
      <4>4. IsEdgeBetweenBlocks(edges[n + j], s, b)' => from[j] = s
        <5>1. IsEdgeBetweenBlocks(edges[n + j], s, b)'
                => edges'[n + j].source_basic_block = s - 1
          BY DEF IsEdgeBetweenBlocks
        <5> QED BY <4>3, <5>1
      <4>5. from[j] = s => IsEdgeBetweenBlocks(edges[n + j], s, b)'
        BY <1>9
      <4> QED BY <4>2, <4>4, <4>5
    <3> QED BY <1>5, <3>1 DEF Places
  <2>4. Count(from, s) = Cardinality(EdgesFromTo(module, s, b))
    BY <1>2, <1>4, <1>22, IncomingCount DEF IncomingBlocks
  <2> HIDE DEF K
  <2>5. Cardinality(K) = Cardinality(K \cap 1..n) + Cardinality(high)
        /\ Cardinality(high) \in Nat
    BY <1>6, <2>1, SplitCount
  <2>6. Cardinality(K \cap 1..n) = 0
    BY <2>2, FS_EmptySet
  <2> HIDE DEF high
  <2>7. Cardinality(K) = Cardinality(high)
    BY <2>5, <2>6
  <2> QED BY <2>3, <2>4, <2>7 DEF Count, K
<1>14. ControlFlowKnown'
  BY <1>1, <1>3, <1>11, <1>12, <1>13 DEF ControlFlowKnown
<1>15. /\ Continues(edges, edges') /\ Len(edges') \in Nat
       /\ \A k \in 1..Len(edges') : k \in 1..Len(edges) \/ edges'[k].kind = "control_flow"
  <2>1. ASSUME NEW k \in 1..Len(edges') PROVE k \in 1..n \/ edges'[k].kind = "control_flow"
    <3>1. CASE k - n \in 1..Len(new)
      <4>1. n + (k - n) = k
        BY <1>6
      <4> QED BY <1>9, <3>1, <4>1
    <3> QED BY <1>6, <3>1
  <2> QED BY <1>6, <1>23, <2>1 DEF Continues
<1>16. CallsKnown' /\ UsersKnown' /\ OperandsKnown'
  BY <1>1, <1>3, <1>6, <1>15, <1>23, CallsKept, UsersKept, OperandsKept DEF Complete
<1>17. LookupKnown'
  BY <1>1, <1>3, LookupKept DEF Complete
<1>18. NodeIdsDistinct' /\ Progress'
  BY <1>1, <1>2, <1>21 DEF Complete, NodeIdsDistinct, Progress
<1> QED BY <1>14, <1>16, <1>17, <1>18 DEF Complete

(***************************************************************************)
(* The lookup maps, one edge.                                              *)
(***************************************************************************)
\* Nothing is there twice, whatever is looked at next.
LEMMA LookedAtNext ==
  ASSUME Complete, PopulateBuildInfo, IInv
  PROVE  /\ cursor \in Nat /\ Len(edges) \in Nat /\ cursor + 1 \in 1..Len(edges)
         /\ Looked = 1..cursor /\ Looked' = Looked \cup {cursor + 1} /\ Looked' = 1..(cursor + 1)
         /\ Joined' = Joined /\ Visited' = Visited
         /\ phase' = "info" /\ cursor' = cursor + 1
         /\ UNCHANGED <<module, nodes, edges, instructionNodeIds>>
         /\ edges[cursor + 1].id = cursor
<1>1. /\ phase = "info" /\ phase' = "info" /\ cursor < Len(edges) /\ cursor' = cursor + 1
      /\ UNCHANGED <<module, nodes, edges, instructionNodeIds>>
  BY DEF PopulateBuildInfo, Round, Rounds, graphVars, idVars
<1>2. cursor \in Nat /\ Len(edges) \in Nat
  BY Known
<1>3. cursor + 1 \in 1..Len(edges) /\ (cursor + 1) - 1 = cursor
  BY <1>1, <1>2
<1>4. edges[cursor + 1].id = cursor
  BY <1>3 DEF IInv, EdgesKnown
<1>5. /\ Looked = 1..cursor /\ Looked' = 1..(cursor + 1)
      /\ 1..(cursor + 1) = 1..cursor \cup {cursor + 1}
  BY <1>1, <1>2 DEF Looked
<1>6. Joined' = Joined /\ Visited' = Visited
  BY <1>1 DEF Joined, Visited
<1> QED BY <1>1, <1>2, <1>3, <1>4, <1>5, <1>6

\* populateBuildInfo, one edge: its key is in the map of its kind.
LEMMA InfoStepComplete ==
  ASSUME IInv, Complete, PopulateBuildInfo
  PROVE  Complete'
<1>1. PICK c : c = cursor + 1
  OBVIOUS
<1>2. PICK e : e = edges[c]
  OBVIOUS
<1>3. /\ c \in Nat /\ Len(edges) \in Nat /\ c \in 1..Len(edges)
      /\ Looked' = Looked \cup {c} /\ c \notin Looked /\ \A k \in Looked : k \in Nat /\ k <= c
      /\ Joined' = Joined /\ Visited' = Visited
      /\ phase' = "info" /\ cursor' = c /\ e.id = c - 1
      /\ UNCHANGED <<module, nodes, edges, instructionNodeIds>>
  BY <1>1, <1>2, LookedAtNext
<1>4. /\ cfgEdgeIds' = IF e.kind = "control_flow" THEN Emplace(cfgEdgeIds, CfgEdgeKey(e), c - 1)
                       ELSE cfgEdgeIds
      /\ callEdgeIds' = IF e.kind = "call" THEN Emplace(callEdgeIds, CallEdgeKey(e), c - 1)
                        ELSE callEdgeIds
  BY <1>1, <1>2, <1>3 DEF PopulateBuildInfo, CfgEdgeKey, CallEdgeKey
<1>5. ASSUME NEW kind
      PROVE  LookedOfKind(kind)' = LookedOfKind(kind) \cup (IF e.kind = kind THEN {c} ELSE {})
  BY <1>2, <1>3 DEF LookedOfKind
<1>7. /\ DOMAIN cfgEdgeIds' = {CfgEdgeKey(edges[k]) : k \in LookedOfKind("control_flow")'}
      /\ \A k \in LookedOfKind("control_flow")' :
           \E j \in LookedOfKind("control_flow")' :
             /\ cfgEdgeIds'[CfgEdgeKey(edges[k])] = j - 1 /\ j <= k
             /\ CfgEdgeKey(edges[j]) = CfgEdgeKey(edges[k])
  <2> DEFINE old == LookedOfKind("control_flow")
             key == CfgEdgeKey(e)
  <2>1. /\ DOMAIN cfgEdgeIds = {CfgEdgeKey(edges[k]) : k \in old}
        /\ \A k \in old : \E j \in old :
             /\ cfgEdgeIds[CfgEdgeKey(edges[k])] = j - 1 /\ j <= k
             /\ CfgEdgeKey(edges[j]) = CfgEdgeKey(edges[k])
    BY DEF Complete, LookupKnown
  <2>2. \A k \in old : k <= c
    BY <1>3 DEF LookedOfKind
  <2> HIDE DEF old
  <2>3. CASE e.kind # "control_flow"
    BY <1>4, <1>5, <2>1, <2>3 DEF old
  <2>4. CASE e.kind = "control_flow"
    <3>1. LookedOfKind("control_flow")' = old \cup {c}
      BY <1>5, <2>4 DEF old
    <3>2. /\ DOMAIN cfgEdgeIds' = DOMAIN cfgEdgeIds \cup {key}
          /\ \A x \in DOMAIN cfgEdgeIds : cfgEdgeIds'[x] = cfgEdgeIds[x]
          /\ key \notin DOMAIN cfgEdgeIds => cfgEdgeIds'[key] = c - 1
      <4> DEFINE id == c - 1
      <4>1. cfgEdgeIds' = Emplace(cfgEdgeIds, key, id)
        BY <1>4, <2>4
      <4> HIDE DEF key, id
      <4>2. PICK more : more = cfgEdgeIds'
        OBVIOUS
      <4>3. more = Emplace(cfgEdgeIds, key, id)
        BY <4>1, <4>2
      <4>4. /\ DOMAIN more = DOMAIN cfgEdgeIds \cup {key}
            /\ \A x \in DOMAIN cfgEdgeIds : more[x] = cfgEdgeIds[x]
            /\ key \notin DOMAIN cfgEdgeIds => more[key] = id
        BY <4>3 DEF Emplace, Extended
      <4> QED BY <4>2, <4>4 DEF id
    <3> DEFINE now == LookedOfKind("control_flow")'
    <3> HIDE DEF now
    <3>3. ASSUME NEW k \in old
          PROVE  \E j \in now : /\ cfgEdgeIds'[CfgEdgeKey(edges[k])] = j - 1 /\ j <= k
                                /\ CfgEdgeKey(edges[j]) = CfgEdgeKey(edges[k])
      BY <2>1, <3>1, <3>2 DEF now
    <3>4. \E j \in now : /\ cfgEdgeIds'[CfgEdgeKey(edges[c])] = j - 1 /\ j <= c
                         /\ CfgEdgeKey(edges[j]) = CfgEdgeKey(edges[c])
      <4>1. CASE key \in DOMAIN cfgEdgeIds
        <5>1. PICK k \in old : key = CfgEdgeKey(edges[k])
          BY <2>1, <4>1
        <5>2. PICK j \in old : /\ cfgEdgeIds[CfgEdgeKey(edges[k])] = j - 1 /\ j <= k
                               /\ CfgEdgeKey(edges[j]) = CfgEdgeKey(edges[k])
          BY <2>1
        <5>3. j <= c /\ j \in now
          BY <2>2, <3>1 DEF now
        <5> QED BY <1>2, <3>2, <4>1, <5>1, <5>2, <5>3
      <4>2. CASE key \notin DOMAIN cfgEdgeIds
        <5>1. c \in now /\ c <= c
          BY <1>3, <3>1 DEF now
        <5> QED BY <1>2, <3>2, <4>2, <5>1
      <4> QED BY <4>1, <4>2
    <3>5. DOMAIN cfgEdgeIds' = {CfgEdgeKey(edges[k]) : k \in now}
      BY <1>2, <2>1, <3>1, <3>2 DEF now
    <3> QED BY <3>1, <3>3, <3>4, <3>5 DEF now
  <2> QED BY <2>3, <2>4
<1>8. /\ DOMAIN callEdgeIds' = {CallEdgeKey(edges[k]) : k \in LookedOfKind("call")'}
      /\ \A k \in LookedOfKind("call")' :
           \E j \in LookedOfKind("call")' :
             /\ callEdgeIds'[CallEdgeKey(edges[k])] = j - 1
             /\ CallEdgeKey(edges[j]) = CallEdgeKey(edges[k])
  <2> DEFINE old == LookedOfKind("call")
             key == CallEdgeKey(e)
  <2>1. /\ DOMAIN callEdgeIds = {CallEdgeKey(edges[k]) : k \in old}
        /\ \A k \in old : \E j \in old :
             /\ callEdgeIds[CallEdgeKey(edges[k])] = j - 1
             /\ CallEdgeKey(edges[j]) = CallEdgeKey(edges[k])
    BY DEF Complete, LookupKnown
  <2> HIDE DEF old
  <2>3. CASE e.kind # "call"
    BY <1>4, <1>5, <2>1, <2>3 DEF old
  <2>4. CASE e.kind = "call"
    <3>1. LookedOfKind("call")' = old \cup {c}
      BY <1>5, <2>4 DEF old
    <3>2. /\ DOMAIN callEdgeIds' = DOMAIN callEdgeIds \cup {key}
          /\ \A x \in DOMAIN callEdgeIds : callEdgeIds'[x] = callEdgeIds[x]
          /\ key \notin DOMAIN callEdgeIds => callEdgeIds'[key] = c - 1
      <4> DEFINE id == c - 1
      <4>1. callEdgeIds' = Emplace(callEdgeIds, key, id)
        BY <1>4, <2>4
      <4> HIDE DEF key, id
      <4>2. PICK more : more = callEdgeIds'
        OBVIOUS
      <4>3. more = Emplace(callEdgeIds, key, id)
        BY <4>1, <4>2
      <4>4. /\ DOMAIN more = DOMAIN callEdgeIds \cup {key}
            /\ \A x \in DOMAIN callEdgeIds : more[x] = callEdgeIds[x]
            /\ key \notin DOMAIN callEdgeIds => more[key] = id
        BY <4>3 DEF Emplace, Extended
      <4> QED BY <4>2, <4>4 DEF id
    <3> DEFINE now == LookedOfKind("call")'
    <3> HIDE DEF now
    <3>3. ASSUME NEW k \in old
          PROVE  \E j \in now : /\ callEdgeIds'[CallEdgeKey(edges[k])] = j - 1
                                /\ CallEdgeKey(edges[j]) = CallEdgeKey(edges[k])
      BY <2>1, <3>1, <3>2 DEF now
    <3>4. \E j \in now : /\ callEdgeIds'[CallEdgeKey(edges[c])] = j - 1
                         /\ CallEdgeKey(edges[j]) = CallEdgeKey(edges[c])
      <4>1. CASE key \in DOMAIN callEdgeIds
        <5>1. PICK k \in old : key = CallEdgeKey(edges[k])
          BY <2>1, <4>1
        <5>2. PICK j \in old : /\ callEdgeIds[CallEdgeKey(edges[k])] = j - 1
                               /\ CallEdgeKey(edges[j]) = CallEdgeKey(edges[k])
          BY <2>1
        <5> QED BY <1>2, <3>1, <3>2, <4>1, <5>1, <5>2 DEF now
      <4>2. CASE key \notin DOMAIN callEdgeIds
        BY <1>2, <3>1, <3>2, <4>2 DEF now
      <4> QED BY <4>1, <4>2
    <3>5. DOMAIN callEdgeIds' = {CallEdgeKey(edges[k]) : k \in now}
      BY <1>2, <2>1, <3>1, <3>2 DEF now
    <3> QED BY <3>1, <3>3, <3>4, <3>5 DEF now
  <2> QED BY <2>3, <2>4
<1>9. LookupKnown'
  BY <1>3, <1>7, <1>8 DEF LookupKnown
<1>10. /\ Continues(edges, edges') /\ Len(edges') \in Nat
       /\ \A k \in 1..Len(edges') : k \in 1..Len(edges)
  BY <1>3 DEF Continues
<1>11. ControlFlowKnown' /\ CallsKnown' /\ UsersKnown' /\ OperandsKnown'
  BY <1>3, <1>10, ControlFlowKept, CallsKept, UsersKept, OperandsKept DEF Complete
<1>12. NodeIdsDistinct' /\ Progress'
  BY <1>3 DEF Complete, NodeIdsDistinct, Progress
<1> QED BY <1>9, <1>11, <1>12 DEF Complete

(***************************************************************************)
(* The edges and operand nodes of an instruction.                          *)
(***************************************************************************)
\* Three vectors joined, element by element.
LEMMA ThreeJoined ==
  ASSUME NEW a, NEW b, NEW c, IsVector(a), IsVector(b), IsVector(c)
  PROVE  LET v == (a \o b) \o c IN
         /\ IsVector(v) /\ Len(a) \in Nat /\ Len(b) \in Nat /\ Len(c) \in Nat
         /\ Len(v) = Len(a) + Len(b) + Len(c)
         /\ \A k \in 1..Len(a) : v[k] = a[k]
         /\ \A k \in 1..Len(b) : v[Len(a) + k] = b[k]
         /\ \A k \in 1..Len(c) : v[Len(a) + Len(b) + k] = c[k]
<1>1. PICK w : w = a \o b
  OBVIOUS
<1>2. /\ IsVector(w) /\ Len(w) = Len(a) + Len(b)
      /\ \A k \in 1..Len(a) : w[k] = a[k]
      /\ \A k \in 1..Len(b) : w[Len(a) + k] = b[k]
  BY <1>1, Appending
<1>3. PICK v : v = w \o c
  OBVIOUS
<1>4. /\ IsVector(v) /\ Len(v) = Len(w) + Len(c)
      /\ \A k \in 1..Len(w) : v[k] = w[k]
      /\ \A k \in 1..Len(c) : v[Len(w) + k] = c[k]
  <2>1. /\ IsVector(w \o c) /\ Len(w \o c) = Len(w) + Len(c)
        /\ \A k \in 1..Len(w) : (w \o c)[k] = w[k]
        /\ \A k \in 1..Len(c) : (w \o c)[Len(w) + k] = c[k]
    <3>1. IsVector(w)
      BY <1>2
    <3> QED BY <3>1, Appending
  <2> QED BY <1>3, <2>1
<1>5. Len(a) \in Nat /\ Len(b) \in Nat /\ Len(c) \in Nat
  BY VectorDomain
<1>6. \A k \in 1..Len(a) : k \in 1..Len(w)
  BY <1>2, <1>5
<1>7. \A k \in 1..Len(b) : Len(a) + k \in 1..Len(w)
  BY <1>2, <1>5
<1>8. /\ IsVector(v) /\ Len(v) = Len(a) + Len(b) + Len(c)
      /\ \A k \in 1..Len(a) : v[k] = a[k]
      /\ \A k \in 1..Len(b) : v[Len(a) + k] = b[k]
      /\ \A k \in 1..Len(c) : v[Len(a) + Len(b) + k] = c[k]
  BY <1>2, <1>4, <1>6, <1>7
<1> QED BY <1>1, <1>3, <1>5, <1>8

\* What the passes know of the edges they add.
IsUserEdge(e, p, q) ==
  /\ e.kind = "data_flow" /\ e.target_basic_block = None
  /\ e.source_node = instructionNodeIds[p] /\ e.target_node = instructionNodeIds[q]

IsCallEdge(e, p) ==
  /\ e.kind = "call" /\ e.source_node = instructionNodeIds[p]
  /\ e.target_node = FirstNode(EntryBlock(module, Instr(module, p).callee))
  /\ e.target_function = Instr(module, p).callee - 1

IsPhiOperandEdge(e, p) ==
  /\ e.kind = "data_flow" /\ e.target_basic_block # None
  /\ \E q \in Pointers(module) : e.source_node = instructionNodeIds[q]

IsOperandEdge(e, id, p) ==
  /\ e.kind = "data_flow" /\ e.source_node = id /\ e.target_node = instructionNodeIds[p]

\* Of the id of an edge they know nothing.
LEMMA WhateverTheId ==
  ASSUME NEW d, NEW e, SameButId(d, e), NEW p
  PROVE  /\ IsCallEdge(e, p) => IsCallEdge(d, p)
         /\ IsPhiOperandEdge(e, p) => IsPhiOperandEdge(d, p)
         /\ \A q : IsUserEdge(e, p, q) => IsUserEdge(d, p, q)
BY DEF SameButId, IsCallEdge, IsPhiOperandEdge, IsUserEdge

\* registerInstrUsersDataFlowEdges.
LEMMA UserEdgesAre ==
  ASSUME IInv, NEW p
  PROVE  /\ IsVector(UserEdges(p)) /\ Len(UserEdges(p)) = Len(UseList(module, p))
         /\ \A k \in 1..Len(UserEdges(p)) :
              IsUserEdge(UserEdges(p)[k], p, UseList(module, p)[k][1])
<1> DEFINE uses == UseList(module, p)
           between(k) == EdgeBetween("data_flow", instructionNodeIds[p],
                                     instructionNodeIds[uses[k][1]])
           label == SlotLabel(<<"instruction", p>>)
           edge(k) == [between(k) EXCEPT !.label = label]
<1>1. WellFormed(module)
  BY Known
<1>2. Len(uses) \in Nat /\ DOMAIN uses = 1..Len(uses)
  BY <1>1, UseListType, VectorDomain
<1>3. UserEdges(p) = [k \in 1..Len(uses) |-> edge(k)]
  BY <1>2 DEF UserEdges
<1> HIDE DEF uses
<1>4. ASSUME NEW k \in 1..Len(uses) PROVE IsUserEdge(edge(k), p, uses[k][1])
  <2>1. /\ DOMAIN between(k) = DOMAIN NewEdge
        /\ between(k).kind = "data_flow" /\ between(k).source_node = instructionNodeIds[p]
        /\ between(k).target_node = instructionNodeIds[uses[k][1]]
        /\ between(k).target_basic_block = None
    BY EdgeFields
  <2> HIDE DEF between, label
  <2> QED BY <2>1 DEF NewEdge, IsUserEdge
<1> HIDE DEF edge
<1>5. /\ UserEdges(p) = [k \in 1..Len(uses) |-> UserEdges(p)[k]]
      /\ \A k \in 1..Len(uses) : UserEdges(p)[k] = edge(k)
  BY <1>3
<1>6. IsVector(UserEdges(p)) /\ Len(UserEdges(p)) = Len(uses)
  BY <1>2, <1>5, VectorIntro
<1> QED BY <1>4, <1>5, <1>6 DEF uses

\* registerCallEdge.
LEMMA CallEdgeIs ==
  ASSUME IInv, phase = "data_flow", NEW p \in Pointers(module)
  PROVE  IF IsDirectCall(module, Instr(module, p))
         THEN /\ RegisterCallEdge(p) = <<CallEdge(p)>> /\ IsCallEdge(CallEdge(p), p)
         ELSE RegisterCallEdge(p) = <<>>
<1> SUFFICES ASSUME IsDirectCall(module, Instr(module, p)) PROVE IsCallEdge(CallEdge(p), p)
  BY DEF RegisterCallEdge
<1> DEFINE c == Instr(module, p).callee
           e == EntryBlock(module, c)
           callee == Element(functions, functionIds[c])
           between == EdgeBetween("call", instructionNodeIds[p], callee.entry_node)
           f == functionIds[module.function_of[p[1]]]
           b == basicBlockIds[p[1]]
           id == callee.id
           entry == callee.entry_basic_block
<1>1. WellFormed(module) /\ module.functions \in Nat
  BY Known
<1>2. c \in Functions(module) /\ ~ IsDeclaration(module, c)
  <2>1. Instr(module, p) \in Instructions(module)
    BY <1>1, InstrType
  <2> QED BY <2>1 DEF Instructions, IsDirectCall
<1>3. e \in Blocks(module)
  BY <1>1, <1>2, EntryBlockIsFirst DEF BlocksOf
<1> HIDE DEF c, e
<1>4. callee = functions[c]
  <2>1. functionIds[c] = c - 1 /\ c \in Nat
    BY <1>1, <1>2, AfterNodes DEF Functions
  <2> QED BY <2>1 DEF Element
<1>5. id = c - 1 /\ callee.entry_node = FirstNode(e)
  <2>1. c \in 1..Len(functions) /\ e \in Seen
    BY <1>2, <1>3, AfterNodes DEF Functions
  <2> QED BY <1>2, <1>4, <2>1 DEF IInv, FunctionsKnown, e
<1>6. /\ DOMAIN between = DOMAIN NewEdge
      /\ between.kind = "call" /\ between.source_node = instructionNodeIds[p]
      /\ between.target_node = FirstNode(e)
  BY <1>5, EdgeFields
<1>7. CallEdge(p) = [between EXCEPT !.source_function = f, !.target_function = id,
                                    !.source_basic_block = b, !.target_basic_block = entry]
  BY DEF CallEdge, c
<1> HIDE DEF between, f, b, id, entry
<1>8. /\ CallEdge(p).kind = "call" /\ CallEdge(p).source_node = instructionNodeIds[p]
      /\ CallEdge(p).target_node = FirstNode(e) /\ CallEdge(p).target_function = id
  BY <1>6, <1>7 DEF NewEdge
<1> QED BY <1>5, <1>8 DEF IsCallEdge, c, e

\* registerPhiNodeOperandsDataFlowEdges: those edges name the phi's block.
LEMMA PhiOperandEdgesAre ==
  ASSUME IInv, phase = "data_flow", NEW p \in Pointers(module), Instr(module, p).op = "phi"
  PROVE  /\ IsVector(PhiOperandEdges(p))
         /\ \A k \in 1..Len(PhiOperandEdges(p)) : IsPhiOperandEdge(PhiOperandEdges(p)[k], p)
<1> DEFINE incoming == Instr(module, p).incoming
           f == functionIds[module.function_of[p[1]]]
           b == basicBlockIds[p[1]]
           between(s) == EdgeBetween("data_flow", instructionNodeIds[Terminator(module, s)],
                                     instructionNodeIds[p])
           edge(k) == [between(incoming[k])
                         EXCEPT !.label = Instr(module, p).operands[k],
                                !.source_function = f, !.target_function = f,
                                !.source_basic_block = basicBlockIds[incoming[k]],
                                !.target_basic_block = b]
<1>1. WellFormed(module) /\ p[1] \in Blocks(module) /\ Blocks(module) \subseteq Nat \ {0}
  BY Known, PointerParts DEF Blocks
<1>2. incoming \in Seq(Before(module, p[1]))
  BY <1>1, PhiType
<1>3. /\ Len(incoming) \in Nat /\ DOMAIN incoming = 1..Len(incoming)
      /\ \A k \in 1..Len(incoming) : incoming[k] \in Before(module, p[1])
  BY <1>2
<1>4. PhiOperandEdges(p) = [k \in 1..Len(incoming) |-> edge(k)]
  BY <1>3 DEF PhiOperandEdges
<1>5. b # None
  <2>1. b = p[1] - 1 /\ p[1] \in Nat \ {0}
    BY <1>1, AfterNodes
  <2>2. p[1] - 1 \in Nat
    BY <2>1
  <2> QED BY <2>1, <2>2, NoneAssumption
<1> HIDE DEF incoming
<1>6. ASSUME NEW k \in 1..Len(incoming) PROVE IsPhiOperandEdge(edge(k), p)
  <2> DEFINE s == incoming[k]
             from == instructionNodeIds[Terminator(module, s)]
             label == Instr(module, p).operands[k]
             bs == basicBlockIds[s]
  <2>1. Terminator(module, s) \in Pointers(module)
    BY <1>1, <1>3, BeforeIsInFunction, BodyType
  <2>2. DOMAIN between(s) = DOMAIN NewEdge /\ between(s).kind = "data_flow"
        /\ between(s).source_node = from
    BY EdgeFields
  <2>3. edge(k) = [between(s) EXCEPT !.label = label, !.source_function = f,
                     !.target_function = f, !.source_basic_block = bs, !.target_basic_block = b]
    OBVIOUS
  <2> HIDE DEF between, s, from, label, bs, b, f, edge
  <2>4. edge(k).kind = "data_flow" /\ edge(k).source_node = from
        /\ edge(k).target_basic_block = b
    BY <2>2, <2>3 DEF NewEdge
  <2> QED BY <1>5, <2>1, <2>4 DEF IsPhiOperandEdge, from
<1> HIDE DEF edge
<1>7. /\ PhiOperandEdges(p) = [k \in 1..Len(incoming) |-> PhiOperandEdges(p)[k]]
      /\ \A k \in 1..Len(incoming) : PhiOperandEdges(p)[k] = edge(k)
  BY <1>4
<1>8. IsVector(PhiOperandEdges(p)) /\ Len(PhiOperandEdges(p)) = Len(incoming)
  BY <1>3, <1>7, VectorIntro
<1> QED BY <1>6, <1>7, <1>8

\* addOperandNode and the edge from it.
LEMMA OperandNodeIs ==
  ASSUME NEW p, NEW id, NEW k
  PROVE  /\ IsNodeOfOperand(OperandNode(p, id, k), p, k)
         /\ IsOperandEdge(OperandEdge(p, id, k), id, p)
         /\ DOMAIN OperandEdge(p, id, k) = DOMAIN NewEdge
<1> DEFINE label == Instr(module, p).operands[k]
           slot == SlotLabel(label)
           me == instructionNodeIds[p]
           between == EdgeBetween("data_flow", id, me)
           fid == functionIds[module.function_of[p[1]]]
           bid == basicBlockIds[p[1]]
           index == k - 1
           fields == [id |-> id, kind |-> "operand", function |-> fid, basic_block |-> bid,
                      label |-> label, consumer |-> me, operand_index |-> index]
<1>1. OperandNode(p, id, k) = Node(fields)
  BY DEF OperandNode
<1>2. OperandEdge(p, id, k) = [between EXCEPT !.label = slot]
  BY DEF OperandEdge
<1>3. /\ DOMAIN between = DOMAIN NewEdge /\ between.kind = "data_flow"
      /\ between.source_node = id /\ between.target_node = me
  BY EdgeFields
<1> HIDE DEF between, slot, label, me, fid, bid, index
<1>4. Node(fields).label = label /\ Node(fields).consumer = me
      /\ Node(fields).operand_index = index
  BY DEF Node, Setting, NewNode
<1>5. /\ DOMAIN OperandEdge(p, id, k) = DOMAIN NewEdge
      /\ OperandEdge(p, id, k).kind = "data_flow" /\ OperandEdge(p, id, k).source_node = id
      /\ OperandEdge(p, id, k).target_node = me
  BY <1>2, <1>3 DEF NewEdge
<1> QED BY <1>1, <1>4, <1>5 DEF IsNodeOfOperand, IsOperandEdge, label, me, index

\* The operands with a node are those that are shown, each once.
LEMMA OperandsShown ==
  ASSUME WellFormed(module), NEW p \in Pointers(module), Instr(module, p).op # "phi"
  PROVE  /\ OperandsWithNode(p) \in Seq(ShownOperands(p))
         /\ \A k \in ShownOperands(p) : Count(OperandsWithNode(p), k) = 1
<1> DEFINE operands == Instr(module, p).operands
           n == Len(operands)
           S == ShownOperands(p)
           shown(k) == ~ (\/ operands[k][1] \in {"instruction", "block"}
                          \/ ProcessedCall /\ operands[k][1] = "function")
           ss == [k \in DOMAIN operands |-> Only(shown(k), k)]
<1>1. operands \in Seq(Operands(module))
  BY InstrType DEF Instructions
<1>2. n \in Nat /\ DOMAIN operands = 1..n
  BY <1>1
<1>3. OperandsWithNode(p) = FlattenSeq(ss)
  BY DEF OperandsWithNode
<1>4. \A k : k \in S <=> k \in 1..n /\ shown(k)
  BY <1>2 DEF ShownOperands, ProcessedCall
<1>5. ASSUME NEW k \in 1..n
      PROVE  /\ ss[k] \in Seq(S)
             /\ \A j \in 1..Len(ss[k]) : ss[k][j] = k
             /\ k \in S => ss[k] = <<k>>
  <2> DEFINE u == shown(k)
  <2>1. ss[k] = IF u THEN <<k>> ELSE <<>>
    BY <1>2 DEF Only
  <2>2. u <=> k \in S
    BY <1>4
  <2> HIDE DEF u, S, ss
  <2> QED BY <2>1, <2>2
<1>6. ss = [k \in 1..n |-> ss[k]]
  BY <1>2
<1>11. \A k \in S : k \in 1..n
  BY <1>4
<1> HIDE DEF S, ss, n
<1>7. ss \in Seq(Seq(S)) /\ Len(ss) = n
  BY <1>2, <1>5, <1>6
<1>8. FlattenSeq(ss) \in Seq(S)
  BY <1>7, FlattenType
<1>9. ASSUME NEW k \in S PROVE Count(FlattenSeq(ss), k) = 1
  <2>1. k \in 1..Len(ss) /\ ss[k] = <<k>> /\ ss \in Seq(Seq(S))
    BY <1>5, <1>7, <1>11
  <2>2. ASSUME NEW i \in 1..Len(ss), i # k PROVE \A j \in 1..Len(ss[i]) : ss[i][j] # k
    BY <1>5, <1>7, <2>2
  <2>3. Count(FlattenSeq(ss), k) = Count(ss[k], k)
    BY <2>1, <2>2, CountInOne
  <2>4. Places(<<k>>, k) = {1}
    BY DEF Places
  <2> QED BY <2>1, <2>3, <2>4, FS_Singleton DEF Count
<1> QED BY <1>3, <1>8, <1>9 DEF S

\* What registerDataFlowAndCallEdges adds for p: u edges to users, c call edges and
\* r edges to p from its operands or, if it is a phi, from incoming terminators.
IsAdded(p, n, count, uses, ops, u, c, r) ==
  /\ u = Len(uses) /\ c = (IF IsDirectCall(module, Instr(module, p)) THEN 1 ELSE 0)
  /\ Len(edges') = n + (u + c + r)
  /\ \A k \in 1..n : edges'[k] = edges[k]
  /\ \A j \in 1..u : IsUserEdge(edges'[n + j], p, uses[j][1])
  /\ \A j \in 1..c : IsCallEdge(edges'[n + u + j], p)
  /\ IF Instr(module, p).op = "phi"
     THEN /\ nodes' = nodes
          /\ \A j \in 1..r : IsPhiOperandEdge(edges'[n + u + c + j], p)
     ELSE /\ r = Len(ops) /\ Len(nodes') = count + r
          /\ \A k \in 1..count : nodes'[k] = nodes[k]
          /\ \A j \in 1..r : IsNodeOfOperand(nodes'[count + j], p, ops[j])
          /\ \A j \in 1..r : IsOperandEdge(edges'[n + u + c + j], count + j - 1, p)

LEMMA DataFlowAdds ==
  ASSUME IInv, RegisterDataFlowAndCallEdges, NEW p, p = Layout(module)[cursor + 1],
         NEW n, n = Len(edges), NEW count, count = Len(nodes),
         NEW uses, uses = UseList(module, p), NEW ops, ops = OperandsWithNode(p)
  PROVE  \E u, c, r \in Nat : IsAdded(p, n, count, uses, ops, u, c, r)
<1> DEFINE users == UserEdges(p)
           call == RegisterCallEdge(p)
           node(j) == OperandNode(p, count + j - 1, ops[j])
           edge(j) == OperandEdge(p, count + j - 1, ops[j])
           newNodes == [j \in DOMAIN ops |-> node(j)]
           newEdges == [j \in DOMAIN ops |-> edge(j)]
           phi == Instr(module, p).op = "phi"
           u == Len(users)
           c == Len(call)
<1>1. /\ phase = "data_flow" /\ cursor < Len(Layout(module)) /\ WellFormed(module)
      /\ cursor \in Nat
  BY Known DEF RegisterDataFlowAndCallEdges, Round, Rounds
<1>2. IF phi THEN AddEdges((users \o call) \o PhiOperandEdges(p)) /\ nodes' = nodes
      ELSE AddEdges((users \o call) \o newEdges) /\ nodes' = nodes \o newNodes
  BY DEF RegisterDataFlowAndCallEdges, Add
<1>3. p \in Pointers(module)
  <2>1. Layout(module) \in Seq(Pointers(module))
    BY <1>1, LayoutType
  <2>2. cursor + 1 \in 1..Len(Layout(module))
    BY <1>1, <2>1
  <2> QED BY <2>1, <2>2
<1>4. /\ IsVector(users) /\ IsVector(call) /\ u \in Nat /\ c \in Nat
      /\ \A j \in 1..u : DOMAIN users[j] = DOMAIN NewEdge
      /\ \A j \in 1..c : DOMAIN call[j] = DOMAIN NewEdge
  BY <1>1, <1>3, UserEdgesFit, CallEdgeFits, VectorDomain DEF FittingEdges
<1>5. u = Len(uses) /\ \A j \in 1..u : IsUserEdge(users[j], p, uses[j][1])
  BY UserEdgesAre
<1>6. /\ c = IF IsDirectCall(module, Instr(module, p)) THEN 1 ELSE 0
      /\ \A j \in 1..c : IsCallEdge(call[j], p)
  <2>1. CASE IsDirectCall(module, Instr(module, p))
    <3>1. call = <<CallEdge(p)>> /\ IsCallEdge(CallEdge(p), p)
      BY <1>1, <1>3, <2>1, CallEdgeIs
    <3> QED BY <2>1, <3>1
  <2>2. CASE ~ IsDirectCall(module, Instr(module, p))
    <3>1. call = <<>>
      BY <1>1, <1>3, <2>2, CallEdgeIs
    <3> QED BY <2>2, <3>1
  <2> QED BY <2>1, <2>2
<1> HIDE DEF users, call, u, c
\* Common to both cases: new edges behind the others, in three parts.
<1>7. ASSUME NEW rest, IsVector(rest), AddEdges((users \o call) \o rest),
             \A j \in 1..Len(rest) : DOMAIN rest[j] = DOMAIN NewEdge
      PROVE  /\ Len(rest) \in Nat /\ Len(edges') = n + (u + c + Len(rest)) /\ n \in Nat
             /\ \A k \in 1..n : edges'[k] = edges[k]
             /\ \A j \in 1..u : SameButId(edges'[n + j], users[j])
             /\ \A j \in 1..c : SameButId(edges'[n + u + j], call[j])
             /\ \A j \in 1..Len(rest) : SameButId(edges'[n + u + c + j], rest[j])
  <2>1. PICK new : new = (users \o call) \o rest
    OBVIOUS
  <2>9. PICK r : r = Len(rest)
    OBVIOUS
  <2>2. /\ IsVector(new) /\ r \in Nat /\ Len(new) = u + c + r
        /\ \A k \in 1..u : new[k] = users[k]
        /\ \A k \in 1..c : new[u + k] = call[k]
        /\ \A k \in 1..r : new[u + c + k] = rest[k]
    <3>1. /\ IsVector(new) /\ Len(rest) \in Nat /\ Len(new) = Len(users) + Len(call) + Len(rest)
          /\ \A k \in 1..Len(users) : new[k] = users[k]
          /\ \A k \in 1..Len(call) : new[Len(users) + k] = call[k]
          /\ \A k \in 1..Len(rest) : new[Len(users) + Len(call) + k] = rest[k]
      BY <1>4, <1>7, <2>1, ThreeJoined
    <3> QED BY <2>9, <3>1 DEF u, c
  <2>3. /\ \A k \in 1..u : k \in 1..Len(new)
        /\ \A k \in 1..c : u + k \in 1..Len(new)
        /\ \A k \in 1..r : u + c + k \in 1..Len(new)
        /\ \A k \in 1..Len(new) : \/ k \in 1..u
                                  \/ \E j \in 1..c : k = u + j
                                  \/ \E j \in 1..r : k = u + c + j
    <3>1. ASSUME NEW k \in 1..Len(new), k > u, ~ (k > u + c)
          PROVE  k - u \in 1..c /\ k = u + (k - u)
      BY <1>4, <2>2, <3>1
    <3>2. ASSUME NEW k \in 1..Len(new), k > u + c
          PROVE  k - (u + c) \in 1..r /\ k = u + c + (k - (u + c))
      BY <1>4, <2>2, <3>2
    <3>3. \A k \in 1..Len(new) : ~ (k > u) => k \in 1..u
      BY <1>4, <2>2
    <3>4. /\ \A k \in 1..u : k \in 1..Len(new)
          /\ \A k \in 1..c : u + k \in 1..Len(new)
          /\ \A k \in 1..r : u + c + k \in 1..Len(new)
      BY <1>4, <2>2
    <3> QED BY <3>1, <3>2, <3>3, <3>4
  <2>4. ASSUME NEW k \in 1..Len(new) PROVE DOMAIN new[k] = DOMAIN NewEdge
    <3>1. CASE k \in 1..u
      BY <1>4, <2>2, <3>1
    <3>2. ASSUME NEW j \in 1..c, k = u + j PROVE DOMAIN new[k] = DOMAIN NewEdge
      BY <1>4, <2>2, <3>2
    <3>3. ASSUME NEW j \in 1..r, k = u + c + j PROVE DOMAIN new[k] = DOMAIN NewEdge
      BY <1>7, <2>2, <2>9, <3>3
    <3> QED BY <2>3, <3>1, <3>2, <3>3
  <2>5. /\ n \in Nat /\ Len(edges') = n + Len(new)
        /\ \A k \in 1..n : edges'[k] = edges[k]
        /\ \A j \in 1..Len(new) : SameButId(edges'[n + j], new[j])
    <3>1. AddEdges(new)
      BY <1>7, <2>1
    <3> QED BY <2>2, <2>4, <3>1, EdgesBehind DEF IInv
  <2>6. \A j \in 1..u : SameButId(edges'[n + j], users[j])
    BY <2>2, <2>3, <2>5
  <2>7. ASSUME NEW j \in 1..c PROVE SameButId(edges'[n + u + j], call[j])
    <3>1. n + (u + j) = n + u + j
      BY <1>4, <2>5
    <3>2. u + j \in 1..Len(new)
      BY <2>3
    <3> QED BY <2>2, <2>5, <3>1, <3>2
  <2>8. ASSUME NEW j \in 1..r PROVE SameButId(edges'[n + u + c + j], rest[j])
    <3>1. n + (u + c + j) = n + u + c + j
      BY <1>4, <2>2, <2>5
    <3>2. u + c + j \in 1..Len(new)
      BY <2>3
    <3> QED BY <2>2, <2>5, <3>1, <3>2
  <2> QED BY <2>2, <2>5, <2>6, <2>7, <2>8, <2>9
<1>8. CASE phi
  <2> DEFINE rest == PhiOperandEdges(p)
             r == Len(rest)
  <2>1. /\ IsVector(rest) /\ \A j \in 1..r : DOMAIN rest[j] = DOMAIN NewEdge
        /\ \A j \in 1..r : IsPhiOperandEdge(rest[j], p)
    BY <1>1, <1>3, <1>8, PhiOperandEdgesFit, PhiOperandEdgesAre DEF FittingEdges
  <2> HIDE DEF rest
  <2>2. /\ r \in Nat /\ Len(edges') = n + (u + c + r)
        /\ \A k \in 1..n : edges'[k] = edges[k]
        /\ \A j \in 1..u : SameButId(edges'[n + j], users[j])
        /\ \A j \in 1..c : SameButId(edges'[n + u + j], call[j])
        /\ \A j \in 1..r : SameButId(edges'[n + u + c + j], rest[j])
    BY <1>2, <1>7, <1>8, <2>1 DEF rest
  <2> HIDE DEF r, phi
  <2>3. \A j \in 1..u : IsUserEdge(edges'[n + j], p, uses[j][1])
    <3> SUFFICES ASSUME NEW j \in 1..u PROVE IsUserEdge(edges'[n + j], p, uses[j][1])
      OBVIOUS
    <3>1. PICK d, e : d = edges'[n + j] /\ e = users[j]
      OBVIOUS
    <3>2. SameButId(d, e)
      BY <2>2, <3>1
    <3>3. IsUserEdge(e, p, uses[j][1])
      BY <1>5, <3>1
    <3>4. IsUserEdge(d, p, uses[j][1])
      BY <3>2, <3>3, WhateverTheId
    <3> QED BY <3>1, <3>4
  <2>4. \A j \in 1..c : IsCallEdge(edges'[n + u + j], p)
    BY <1>6, <2>2, WhateverTheId
  <2>5. \A j \in 1..r : IsPhiOperandEdge(edges'[n + u + c + j], p)
    BY <2>1, <2>2, WhateverTheId DEF r
  <2>6. nodes' = nodes
    BY <1>2, <1>8
  <2>7. IsAdded(p, n, count, uses, ops, u, c, r)
    BY <1>5, <1>6, <1>8, <2>2, <2>3, <2>4, <2>5, <2>6 DEF phi, IsAdded
  <2> QED BY <1>4, <2>2, <2>7
<1>9. CASE ~ phi
  <2> DEFINE r == Len(ops)
  <2>1. r \in Nat /\ DOMAIN ops = 1..r
    <3>1. ops \in Seq(Nat)
      BY <1>1, <1>3, OperandsType
    <3> QED BY <3>1
  <2> HIDE DEF r
  <2>2. /\ newEdges = [j \in 1..r |-> newEdges[j]] /\ \A j \in 1..r : newEdges[j] = edge(j)
        /\ newNodes = [j \in 1..r |-> newNodes[j]] /\ \A j \in 1..r : newNodes[j] = node(j)
    BY <2>1
  <2>3. ASSUME NEW j \in 1..r
        PROVE  /\ IsNodeOfOperand(node(j), p, ops[j])
               /\ IsOperandEdge(edge(j), count + j - 1, p) /\ DOMAIN edge(j) = DOMAIN NewEdge
    <3> DEFINE id == count + j - 1
    <3> HIDE DEF id
    <3> QED BY OperandNodeIs DEF id
  <2> HIDE DEF newNodes, newEdges, node, edge
  <2>4. /\ IsVector(newEdges) /\ Len(newEdges) = r /\ IsVector(newNodes) /\ Len(newNodes) = r
    BY <2>1, <2>2, VectorIntro
  <2>5. /\ Len(edges') = n + (u + c + r)
        /\ \A k \in 1..n : edges'[k] = edges[k]
        /\ \A j \in 1..u : SameButId(edges'[n + j], users[j])
        /\ \A j \in 1..c : SameButId(edges'[n + u + j], call[j])
        /\ \A j \in 1..r : SameButId(edges'[n + u + c + j], newEdges[j])
    <3>1. AddEdges((users \o call) \o newEdges)
      BY <1>2, <1>9
    <3>2. \A j \in 1..Len(newEdges) : DOMAIN newEdges[j] = DOMAIN NewEdge
      BY <2>2, <2>3, <2>4
    <3> QED BY <1>7, <2>4, <3>1, <3>2
  <2>6. /\ Len(nodes') = count + r /\ \A k \in 1..count : nodes'[k] = nodes[k]
        /\ \A j \in 1..r : nodes'[count + j] = newNodes[j]
    <3>1. IsVector(nodes) /\ nodes' = nodes \o newNodes
      BY <1>2, <1>9 DEF IInv, NodesKnown
    <3>2. /\ Len(nodes \o newNodes) = Len(nodes) + Len(newNodes)
          /\ \A k \in 1..Len(nodes) : (nodes \o newNodes)[k] = nodes[k]
          /\ \A k \in 1..Len(newNodes) : (nodes \o newNodes)[Len(nodes) + k] = newNodes[k]
      BY <2>4, <3>1, Appending
    <3> QED BY <2>4, <3>1, <3>2
  <2> HIDE DEF phi
  <2>7. \A j \in 1..u : IsUserEdge(edges'[n + j], p, uses[j][1])
    <3> SUFFICES ASSUME NEW j \in 1..u PROVE IsUserEdge(edges'[n + j], p, uses[j][1])
      OBVIOUS
    <3>1. PICK d, e : d = edges'[n + j] /\ e = users[j]
      OBVIOUS
    <3>2. SameButId(d, e)
      BY <2>5, <3>1
    <3>3. IsUserEdge(e, p, uses[j][1])
      BY <1>5, <3>1
    <3>4. IsUserEdge(d, p, uses[j][1])
      BY <3>2, <3>3, WhateverTheId
    <3> QED BY <3>1, <3>4
  <2>8. \A j \in 1..c : IsCallEdge(edges'[n + u + j], p)
    BY <1>6, <2>5, WhateverTheId
  <2>9. ASSUME NEW j \in 1..r PROVE IsOperandEdge(edges'[n + u + c + j], count + j - 1, p)
    <3> DEFINE id == count + j - 1
    <3>1. IsOperandEdge(newEdges[j], id, p)
      BY <2>2, <2>3
    <3>2. SameButId(edges'[n + u + c + j], newEdges[j])
      BY <2>5
    <3> HIDE DEF id
    <3> QED BY <3>1, <3>2 DEF SameButId, IsOperandEdge, id
  <2>10. \A j \in 1..r : IsNodeOfOperand(nodes'[count + j], p, ops[j])
    BY <2>2, <2>3, <2>6
  <2>11. IsAdded(p, n, count, uses, ops, u, c, r)
    BY <1>5, <1>6, <1>9, <2>5, <2>6, <2>7, <2>8, <2>9, <2>10 DEF phi, r, IsAdded
  <2> QED BY <1>4, <2>1, <2>11
<1> QED BY <1>8, <1>9

\* A set of numbers of which none is up to n, counted above n.
LEMMA CountAbove ==
  ASSUME NEW n \in Nat, NEW m \in Nat, NEW K \in SUBSET (1..(n + m)), NEW high
  PROVE  /\ K \cap 1..n = {}
         /\ \A j : j \in high <=> j \in 1..m /\ n + j \in K
         => Cardinality(K) = Cardinality(high)
<1> DEFINE above == {j \in 1..m : n + j \in K}
<1>1. Cardinality(K) = Cardinality(K \cap 1..n) + Cardinality(above)
      /\ Cardinality(above) \in Nat
  <2>1. /\ IsFiniteSet(K) /\ Cardinality(K) \in Nat
        /\ Cardinality(K \cap 1..n) \in Nat /\ Cardinality(above) \in Nat
        /\ Cardinality(K) = Cardinality(K \cap 1..n) + Cardinality(above)
    BY SplitCount
  <2> QED BY <2>1, Zenon
<1> SUFFICES ASSUME K \cap 1..n = {}, \A j : j \in high <=> j \in 1..m /\ n + j \in K
             PROVE  Cardinality(K) = Cardinality(high)
  OBVIOUS
<1>2. high = above
  OBVIOUS
<1> HIDE DEF above
<1>3. Cardinality(K \cap 1..n) = 0
  BY FS_EmptySet
<1> QED BY <1>1, <1>2, <1>3

\* The instruction that is next has not been visited.
LEMMA NextToVisit ==
  ASSUME IInv, Complete, RegisterDataFlowAndCallEdges, NEW p, p = Layout(module)[cursor + 1]
  PROVE  /\ phase = "data_flow" /\ phase' = "data_flow" /\ p \in Pointers(module)
         /\ p \notin Visited /\ Visited' = Visited \cup {p} /\ Visited \subseteq Pointers(module)
         /\ Joined' = Joined /\ Looked = {} /\ Looked' = {}
         /\ Progress' /\ UNCHANGED <<module, instructionNodeIds, infoVars>>
<1>1. /\ phase = "data_flow" /\ phase' = "data_flow" /\ cursor < Len(Layout(module))
      /\ cursor' = cursor + 1 /\ UNCHANGED <<module, instructionNodeIds, infoVars>>
  BY DEF RegisterDataFlowAndCallEdges, Round, Rounds, idVars
<1>2. WellFormed(module) /\ cursor \in Nat
  BY Known
<1>3. Layout(module) \in Seq(Pointers(module))
  BY <1>2, LayoutType
<1>4. /\ Len(Layout(module)) \in Nat
      /\ \A i \in 1..Len(Layout(module)) : Layout(module)[i] \in Pointers(module)
  BY <1>3
<1>5. cursor + 1 \in 1..Len(Layout(module)) /\ \A i \in 1..cursor : i \in 1..Len(Layout(module))
  BY <1>1, <1>2, <1>4
<1>6. p \in Pointers(module) /\ Visited \subseteq Pointers(module)
  BY <1>1, <1>4, <1>5 DEF Visited
<1>7. p \notin Visited
  <2>1. PICK i \in 1..Len(Layout(module)) :
          \A k \in 1..Len(Layout(module)) : Layout(module)[k] = p => k = i
    BY <1>2, <1>6, PlaceInLayout
  <2>2. i = cursor + 1
    BY <1>5, <2>1
  <2>3. ASSUME NEW k \in 1..cursor, Layout(module)[k] = p PROVE FALSE
    <3>1. k = cursor + 1
      BY <1>5, <2>1, <2>2, <2>3
    <3> QED BY <1>2, <3>1
  <2> QED BY <1>1, <2>3 DEF Visited
<1>8. Visited' = Visited \cup {p}
  <2>1. 1..(cursor + 1) = 1..cursor \cup {cursor + 1}
    BY <1>2
  <2> QED BY <1>1, <2>1 DEF Visited
<1>9. Progress'
  BY <1>1, <1>2, <1>4 DEF Progress
<1>10. Joined' = Joined /\ Looked = {} /\ Looked' = {}
  BY <1>1 DEF Joined, Looked
<1> QED BY <1>1, <1>6, <1>7, <1>8, <1>9, <1>10

\* registerDataFlowAndCallEdges, one instruction.
LEMMA DataFlowStepComplete ==
  ASSUME IInv, Complete, RegisterDataFlowAndCallEdges
  PROVE  Complete'
<1>1. PICK p : p = Layout(module)[cursor + 1]
  OBVIOUS
<1>2. PICK n : n = Len(edges)
  OBVIOUS
<1>3. PICK count : count = Len(nodes)
  OBVIOUS
<1>4. PICK uses : uses = UseList(module, p)
  OBVIOUS
<1>5. PICK ops : ops = OperandsWithNode(p)
  OBVIOUS
<1>6. PICK ids : ids = instructionNodeIds
  OBVIOUS
<1>7. PICK phi \in BOOLEAN : phi = (Instr(module, p).op = "phi")
  OBVIOUS
<1>8. PICK direct \in BOOLEAN : direct <=> IsDirectCall(module, Instr(module, p))
  OBVIOUS
<1>9. PICK u \in Nat, c \in Nat, r \in Nat :
        /\ u = Len(uses) /\ c = (IF direct THEN 1 ELSE 0)
        /\ Len(edges') = n + (u + c + r)
        /\ \A k \in 1..n : edges'[k] = edges[k]
        /\ \A j \in 1..u : IsUserEdge(edges'[n + j], p, uses[j][1])
        /\ \A j \in 1..c : IsCallEdge(edges'[n + u + j], p)
        /\ IF phi
           THEN /\ nodes' = nodes
                /\ \A j \in 1..r : IsPhiOperandEdge(edges'[n + u + c + j], p)
           ELSE /\ r = Len(ops) /\ Len(nodes') = count + r
                /\ \A k \in 1..count : nodes'[k] = nodes[k]
                /\ \A j \in 1..r : IsNodeOfOperand(nodes'[count + j], p, ops[j])
                /\ \A j \in 1..r : IsOperandEdge(edges'[n + u + c + j], count + j - 1, p)
  <2>1. PICK u \in Nat, c \in Nat, r \in Nat : IsAdded(p, n, count, uses, ops, u, c, r)
    BY <1>1, <1>2, <1>3, <1>4, <1>5, DataFlowAdds
  <2> QED BY <1>7, <1>8, <2>1 DEF IsAdded
<1>10. /\ phase = "data_flow" /\ phase' = "data_flow" /\ p \in Pointers(module)
       /\ p \notin Visited /\ Visited' = Visited \cup {p} /\ Visited \subseteq Pointers(module)
       /\ Joined' = Joined /\ Looked = {} /\ Looked' = {}
       /\ Progress' /\ UNCHANGED <<module, instructionNodeIds, infoVars>>
  BY <1>1, NextToVisit
<1>11. WellFormed(module) /\ n \in Nat /\ count \in Nat
  BY <1>2, <1>3, Known
<1>12. /\ DOMAIN ids = Pointers(module)
       /\ \A q \in Pointers(module) : ids[q] \in 0..(count - 1) /\ ids[q] # None
       /\ \A x, y \in Pointers(module) : ids[x] = ids[y] => x = y
  <2>1. /\ DOMAIN ids = Pointers(module)
        /\ \A q \in Pointers(module) : ids[q] \in 0..(count - 1)
    BY <1>3, <1>6, <1>10, AfterNodes DEF IdsIn
  <2>2. \A q \in Pointers(module) : ids[q] \in Nat
    BY <1>11, <2>1
  <2> QED BY <1>6, <2>1, <2>2, NoneAssumption DEF Complete, NodeIdsDistinct
\* Every new edge is of one of the kinds that were added.
<1>13. ASSUME NEW k \in 1..Len(edges')
       PROVE  \/ k \in 1..n
              \/ \E j \in 1..u : k = n + j
              \/ \E j \in 1..c : k = n + u + j
              \/ \E j \in 1..r : k = n + u + c + j
  <2>1. k \in Nat /\ k >= 1 /\ k <= n + (u + c + r)
    BY <1>9, <1>11
  <2>2. CASE k <= n
    BY <1>11, <2>1, <2>2
  <2>3. CASE k > n /\ k <= n + u
    <3>1. k - n \in 1..u /\ k = n + (k - n)
      BY <1>11, <2>1, <2>3
    <3> QED BY <3>1
  <2>4. CASE k > n + u /\ k <= n + u + c
    <3>1. k - (n + u) \in 1..c /\ k = n + u + (k - (n + u))
      BY <1>11, <2>1, <2>4
    <3> QED BY <3>1
  <2>5. CASE k > n + u + c
    <3>1. k - (n + u + c) \in 1..r /\ k = n + u + c + (k - (n + u + c))
      BY <1>11, <2>1, <2>5
    <3> QED BY <3>1
  <2>6. k <= n \/ (k > n /\ k <= n + u) \/ (k > n + u /\ k <= n + u + c) \/ k > n + u + c
    BY <1>11, <2>1
  <2> QED BY <2>2, <2>3, <2>4, <2>5, <2>6
<1>14. /\ \A k \in 1..n : k \in 1..Len(edges')
       /\ \A j \in 1..u : n + j \in 1..Len(edges')
       /\ \A j \in 1..c : n + u + j \in 1..Len(edges')
       /\ \A j \in 1..r : n + u + c + j \in 1..Len(edges')
  <2>1. \A k \in 1..n : k \in 1..(n + (u + c + r))
    BY <1>11
  <2>2. \A j \in 1..u : n + j \in 1..(n + (u + c + r))
    BY <1>11
  <2>3. \A j \in 1..c : n + u + j \in 1..(n + (u + c + r))
    BY <1>11
  <2>4. \A j \in 1..r : n + u + c + j \in 1..(n + (u + c + r))
    BY <1>11
  <2> QED BY <1>9, <2>1, <2>2, <2>3, <2>4
<1>15. /\ \A j \in 1..u : /\ edges'[n + j].kind = "data_flow"
                          /\ edges'[n + j].target_basic_block = None
                          /\ edges'[n + j].source_node = ids[p]
                          /\ edges'[n + j].target_node = ids[uses[j][1]]
       /\ \A j \in 1..c : /\ edges'[n + u + j].kind = "call"
                          /\ edges'[n + u + j].source_node = ids[p]
       /\ \A j \in 1..r : /\ edges'[n + u + c + j].kind = "data_flow"
                          /\ IF phi
                             THEN /\ edges'[n + u + c + j].target_basic_block # None
                                  /\ \E q \in Pointers(module) :
                                       edges'[n + u + c + j].source_node = ids[q]
                             ELSE /\ edges'[n + u + c + j].source_node = count + j - 1
                                  /\ edges'[n + u + c + j].target_node = ids[p]
  <2>1. \A j \in 1..u : /\ edges'[n + j].kind = "data_flow"
                        /\ edges'[n + j].target_basic_block = None
                        /\ edges'[n + j].source_node = ids[p]
                        /\ edges'[n + j].target_node = ids[uses[j][1]]
    BY <1>6, <1>9 DEF IsUserEdge
  <2>2. \A j \in 1..c : /\ edges'[n + u + j].kind = "call"
                        /\ edges'[n + u + j].source_node = ids[p]
    BY <1>6, <1>9 DEF IsCallEdge
  <2>3. CASE phi
    BY <1>6, <1>9, <2>1, <2>2, <2>3 DEF IsPhiOperandEdge
  <2>4. CASE ~ phi
    BY <1>6, <1>9, <2>1, <2>2, <2>4 DEF IsOperandEdge
  <2> QED BY <2>3, <2>4
<1>16. /\ Continues(edges, edges') /\ Len(edges) \in Nat /\ Len(edges') \in Nat
       /\ \A k \in 1..Len(edges') : k \in 1..Len(edges) \/ edges'[k].kind \in {"data_flow", "call"}
  <2>1. Len(edges') \in Nat /\ n <= Len(edges')
    BY <1>9, <1>11
  <2>2. Continues(edges, edges')
    BY <1>2, <1>9, <2>1 DEF Continues
  <2>3. \A k \in 1..Len(edges') : k \in 1..n \/ edges'[k].kind \in {"data_flow", "call"}
    BY <1>13, <1>15
  <2> QED BY <1>2, <1>11, <2>1, <2>2, <2>3
<1>17. ControlFlowKnown'
  <2>1. \A k \in 1..Len(edges') : k \in 1..Len(edges) \/ edges'[k].kind # "control_flow"
    BY <1>16
  <2> QED BY <1>10, <1>16, <2>1, ControlFlowKept DEF Complete
<1>18. LookupKnown'
  BY <1>10, LookupKept DEF Complete
<1>19. NodeIdsDistinct'
  BY <1>10 DEF Complete, NodeIdsDistinct
<1>20. CallsKnown'
  <2>1. /\ \A k \in 1..n : edges[k].kind = "call" =>
             \E q \in Visited : /\ IsDirectCall(module, Instr(module, q))
                                /\ edges[k].source_node = ids[q]
        /\ \A q \in Visited : IsDirectCall(module, Instr(module, q)) =>
             \E k \in 1..n :
               /\ CallEdgesFrom(q) = {k}
               /\ edges[k].target_node = FirstNode(EntryBlock(module, Instr(module, q).callee))
               /\ edges[k].target_function = Instr(module, q).callee - 1
    BY <1>2, <1>6 DEF Complete, CallsKnown
  <2>2. /\ (c = 1 /\ direct) \/ (c = 0 /\ ~ direct)
        /\ direct => n + u + 1 \in 1..Len(edges') /\ IsCallEdge(edges'[n + u + 1], p)
    <3>1. CASE direct
      <4>1. 1 \in 1..c /\ c = 1
        BY <1>9, <3>1
      <4> QED BY <1>9, <1>14, <3>1, <4>1
    <3>2. CASE ~ direct
      BY <1>9, <3>2
    <3> QED BY <3>1, <3>2
  <2>3. ASSUME NEW k \in 1..Len(edges'), edges'[k].kind = "call"
        PROVE  k \in 1..n \/ (direct /\ k = n + u + 1 /\ edges'[k].source_node = ids[p])
    <3>1. CASE \E j \in 1..c : k = n + u + j
      <4>1. PICK j \in 1..c : k = n + u + j
        BY <3>1
      <4>2. direct /\ j = 1
        BY <2>2, <4>1
      <4> QED BY <1>15, <4>1, <4>2
    <3> QED BY <1>13, <1>15, <2>3, <3>1
  <2>4. ASSUME NEW k \in 1..Len(edges'), edges'[k].kind = "call"
        PROVE  \E q \in Visited' : /\ IsDirectCall(module', Instr(module', q))
                                   /\ edges'[k].source_node = instructionNodeIds'[q]
    BY <1>6, <1>8, <1>9, <1>10, <2>1, <2>3, <2>4
  <2>5. ASSUME NEW q \in Visited, IsDirectCall(module, Instr(module, q))
        PROVE  CallEdgesFrom(q)' = CallEdgesFrom(q)
    <3>1. ids[q] # ids[p]
      BY <1>10, <1>12
    <3>2. ASSUME NEW k \in 1..Len(edges')
          PROVE  edges'[k].kind = "call" /\ edges'[k].source_node = ids[q]
                   <=> k \in 1..n /\ edges[k].kind = "call" /\ edges[k].source_node = ids[q]
      BY <1>9, <2>3, <3>1
    <3>3. \A k : k \in CallEdgesFrom(q)' <=> k \in CallEdgesFrom(q)
      <4>1. \A k : k \in CallEdgesFrom(q)'
                     <=> k \in 1..Len(edges') /\ edges'[k].kind = "call"
                         /\ edges'[k].source_node = ids[q]
        BY <1>6, <1>10 DEF CallEdgesFrom
      <4>2. \A k : k \in CallEdgesFrom(q)
                     <=> k \in 1..n /\ edges[k].kind = "call" /\ edges[k].source_node = ids[q]
        BY <1>2, <1>6 DEF CallEdgesFrom
      <4> QED BY <1>14, <3>2, <4>1, <4>2
    <3> QED BY <3>3 DEF CallEdgesFrom
  <2>6. direct => CallEdgesFrom(p)' = {n + u + 1}
    <3> SUFFICES ASSUME direct PROVE CallEdgesFrom(p)' = {n + u + 1}
      OBVIOUS
    <3>1. ASSUME NEW k \in 1..n, edges'[k].kind = "call", edges'[k].source_node = ids[p]
          PROVE  FALSE
      <4>1. PICK q \in Visited : edges[k].source_node = ids[q]
        BY <1>9, <2>1, <3>1
      <4> QED BY <1>9, <1>10, <1>12, <3>1, <4>1
    <3>2. \A k : k \in CallEdgesFrom(p)'
                   <=> k \in 1..Len(edges') /\ edges'[k].kind = "call"
                       /\ edges'[k].source_node = ids[p]
      BY <1>6, <1>10 DEF CallEdgesFrom
    <3>3. n + u + 1 \in CallEdgesFrom(p)'
      BY <1>6, <2>2, <3>2 DEF IsCallEdge
    <3> QED BY <2>3, <3>1, <3>2, <3>3
  <2>7. ASSUME NEW q \in Visited', IsDirectCall(module', Instr(module', q))
        PROVE  \E k \in 1..Len(edges') :
                 /\ CallEdgesFrom(q)' = {k}
                 /\ edges'[k].target_node = FirstNode(EntryBlock(module, Instr(module, q).callee))'
                 /\ edges'[k].target_function = Instr(module', q).callee - 1
    <3>1. CASE q = p
      <4>1. direct
        BY <1>8, <1>10, <2>7, <3>1
      <4> QED BY <1>10, <2>2, <2>6, <3>1, <4>1 DEF IsCallEdge, FirstNode
    <3>2. CASE q \in Visited
      <4>1. IsDirectCall(module, Instr(module, q))
        BY <1>10, <2>7
      <4>2. PICK k \in 1..n :
              /\ CallEdgesFrom(q) = {k}
              /\ edges[k].target_node = FirstNode(EntryBlock(module, Instr(module, q).callee))
              /\ edges[k].target_function = Instr(module, q).callee - 1
        BY <2>1, <3>2, <4>1
      <4>3. CallEdgesFrom(q)' = {k} /\ k \in 1..Len(edges') /\ edges'[k] = edges[k]
        BY <1>9, <1>14, <2>5, <3>2, <4>1, <4>2
      <4> QED BY <1>10, <4>2, <4>3 DEF FirstNode
    <3> QED BY <1>10, <3>1, <3>2
  <2> QED BY <2>4, <2>7 DEF CallsKnown
<1>21. ASSUME NEW x \in Pointers(module), NEW q \in Pointers(module)
       PROVE  \A k \in 1..Len(edges') :
                k \in EdgesToUser(x, q)'
                  <=> \/ k \in 1..n /\ k \in EdgesToUser(x, q)
                      \/ x = p /\ \E j \in 1..u : k = n + j /\ uses[j][1] = q
  <2>1. \A k : k \in EdgesToUser(x, q)'
                 <=> /\ k \in 1..Len(edges') /\ edges'[k].kind = "data_flow"
                     /\ edges'[k].target_basic_block = None
                     /\ edges'[k].source_node = ids[x] /\ edges'[k].target_node = ids[q]
    BY <1>6, <1>10 DEF EdgesToUser
  <2>2. \A k \in 1..n : k \in EdgesToUser(x, q)' <=> k \in EdgesToUser(x, q)
    BY <1>2, <1>6, <1>9, <1>14, <2>1 DEF EdgesToUser
  <2>3. ASSUME NEW j \in 1..u
        PROVE  n + j \in EdgesToUser(x, q)' <=> x = p /\ uses[j][1] = q
    <3>1. uses[j][1] \in Pointers(module)
      BY <1>4, <1>9, <1>11, UseListType
    <3>2. n + j \in EdgesToUser(x, q)' <=> ids[p] = ids[x] /\ ids[uses[j][1]] = ids[q]
      BY <1>14, <1>15, <2>1
    <3> QED BY <1>10, <1>12, <3>1, <3>2
  <2>4. ASSUME NEW j \in 1..c PROVE n + u + j \notin EdgesToUser(x, q)'
    BY <1>15, <2>1
  <2>5. ASSUME NEW j \in 1..r PROVE n + u + c + j \notin EdgesToUser(x, q)'
    <3>1. CASE phi
      BY <1>15, <2>1, <3>1
    <3>2. CASE ~ phi
      <4>1. edges'[n + u + c + j].source_node = count + j - 1
        BY <1>15, <3>2
      <4>2. ids[x] < count /\ ids[x] \in Nat /\ count + j - 1 >= count
        BY <1>11, <1>12
      <4>3. ids[x] # count + j - 1
        BY <1>11, <4>2
      <4> QED BY <2>1, <4>1, <4>3
    <3> QED BY <3>1, <3>2
  <2>6. ASSUME NEW k \in 1..Len(edges')
        PROVE  k \in EdgesToUser(x, q)'
                 <=> \/ k \in 1..n /\ k \in EdgesToUser(x, q)
                     \/ x = p /\ \E j \in 1..u : k = n + j /\ uses[j][1] = q
    <3>1. CASE k \in 1..n
      <4>1. \A j \in 1..u : k # n + j
        BY <1>11, <3>1
      <4> QED BY <2>2, <3>1, <4>1
    <3>2. ASSUME NEW j \in 1..u, k = n + j
          PROVE  k \in EdgesToUser(x, q)'
                   <=> \/ k \in 1..n /\ k \in EdgesToUser(x, q)
                       \/ x = p /\ \E i \in 1..u : k = n + i /\ uses[i][1] = q
      <4>1. k \notin 1..n /\ \A i \in 1..u : k = n + i => i = j
        BY <1>11, <3>2
      <4> QED BY <2>3, <3>2, <4>1
    <3>3. ASSUME NEW j \in 1..c, k = n + u + j
          PROVE  k \notin 1..n /\ \A i \in 1..u : k # n + i
      BY <1>11, <3>3
    <3>4. ASSUME NEW j \in 1..r, k = n + u + c + j
          PROVE  k \notin 1..n /\ \A i \in 1..u : k # n + i
      BY <1>11, <3>4
    <3> QED BY <1>13, <2>4, <2>5, <3>1, <3>2, <3>3, <3>4
  <2> QED BY <2>6
<1>22. UsersKnown'
  <2>1. /\ \A x \in Visited, q \in Pointers(module) :
             Cardinality(EdgesToUser(x, q)) = Cardinality(OperandsUsing(module, x, q))
        /\ \A x \in Pointers(module) \ Visited, q \in Pointers(module) :
             EdgesToUser(x, q) = {}
    BY <1>6, <1>12 DEF Complete, UsersKnown
  <2>2. ASSUME NEW x \in Pointers(module), NEW q \in Pointers(module), x # p
        PROVE  EdgesToUser(x, q)' = EdgesToUser(x, q)
    <3>1. \A k : k \in EdgesToUser(x, q)' => k \in 1..Len(edges')
      BY DEF EdgesToUser
    <3>2. \A k : k \in EdgesToUser(x, q) => k \in 1..n
      BY <1>2 DEF EdgesToUser
    <3>3. \A k : k \in EdgesToUser(x, q)' <=> k \in EdgesToUser(x, q)
      BY <1>14, <1>21, <2>2, <3>1, <3>2
    <3>4. \A k : k \in EdgesToUser(x, q) => k \in EdgesToUser(x, q)'
      BY <3>3
    <3> QED BY <3>3 DEF EdgesToUser
  <2>3. ASSUME NEW q \in Pointers(module)
        PROVE  Cardinality(EdgesToUser(p, q)') = Cardinality(OperandsUsing(module, p, q))
    <3>1. PICK K : K = EdgesToUser(p, q)'
      OBVIOUS
    <3>2. PICK own : own = {j \in 1..u : uses[j][1] = q}
      OBVIOUS
    <3>3. Cardinality(own) = Cardinality(OperandsUsing(module, p, q)) /\ IsFiniteSet(own)
      <4> DEFINE listed == {i \in 1..Len(UseList(module, p)) : UseList(module, p)[i][1] = q}
      <4>1. IsFiniteSet(listed) /\ Cardinality(listed) = Cardinality(OperandsUsing(module, p, q))
        BY <1>11, UsesCount
      <4>2. listed = own
        BY <1>4, <1>9, <3>2
      <4> HIDE DEF listed
      <4> QED BY <4>1, <4>2
    <3>4. K \in SUBSET (1..(n + (u + c + r)))
      BY <1>9, <3>1 DEF EdgesToUser
    <3>5. EdgesToUser(p, q) = {}
      BY <1>10, <2>1
    <3>6. ASSUME NEW k \in 1..Len(edges')
          PROVE  k \in K <=> \E j \in 1..u : k = n + j /\ uses[j][1] = q
      BY <1>10, <1>21, <3>1, <3>5
    <3>7. K \cap 1..n = {}
      <4>1. ASSUME NEW k \in 1..n, k \in K PROVE FALSE
        <5>1. PICK j \in 1..u : k = n + j
          BY <1>14, <3>6, <4>1
        <5> QED BY <1>11, <5>1
      <4> QED BY <4>1
    <3>8. {j \in 1..(u + c + r) : n + j \in K} = own
      <4>1. ASSUME NEW j \in 1..(u + c + r), n + j \in K PROVE j \in own
        <5>1. n + j \in 1..Len(edges')
          BY <1>9, <1>11
        <5>2. PICK i \in 1..u : n + j = n + i /\ uses[i][1] = q
          BY <3>6, <4>1, <5>1
        <5>3. i = j
          BY <1>11, <5>2
        <5> QED BY <3>2, <5>2, <5>3
      <4>2. ASSUME NEW j \in own PROVE j \in 1..(u + c + r) /\ n + j \in K
        <5>1. j \in 1..u /\ uses[j][1] = q
          BY <3>2
        <5>2. n + j \in K
          BY <1>14, <3>6, <5>1
        <5>3. j \in 1..(u + c + r)
          BY <5>1
        <5> QED BY <5>2, <5>3
      <4> QED BY <4>1, <4>2
    <3>9. PICK m \in Nat : m = u + c + r
      OBVIOUS
    <3>10. /\ K \in SUBSET (1..(n + m)) /\ K \cap 1..n = {}
           /\ \A j : j \in own <=> j \in 1..m /\ n + j \in K
      BY <3>4, <3>7, <3>8, <3>9
    <3>12. Cardinality(K) = Cardinality(own)
      BY <1>11, <3>10, CountAbove
    <3> QED BY <3>1, <3>3, <3>12
  <2>4. \A x \in Visited', q \in Pointers(module') :
          Cardinality(EdgesToUser(x, q)') = Cardinality(OperandsUsing(module', x, q))
    BY <1>10, <2>1, <2>2, <2>3
  <2>5. \A x \in DOMAIN instructionNodeIds' \ Visited', q \in DOMAIN instructionNodeIds' :
          EdgesToUser(x, q)' = {}
    BY <1>6, <1>10, <1>12, <2>1, <2>2
  <2> QED BY <2>4, <2>5 DEF UsersKnown
\* The nodes that were there are, and the others are those of the operands.
<1>23. /\ \A k \in 1..count : k \in 1..Len(nodes') /\ nodes'[k] = nodes[k]
       /\ ~ phi => r = Len(ops)
       /\ \A k \in 1..Len(nodes') :
            \/ k \in 1..count
            \/ ~ phi /\ \E j \in 1..r : k = count + j /\ IsNodeOfOperand(nodes'[k], p, ops[j])
       /\ ~ phi => \A j \in 1..r : /\ count + j \in 1..Len(nodes')
                                   /\ IsNodeOfOperand(nodes'[count + j], p, ops[j])
  <2>1. CASE phi
    BY <1>3, <1>9, <2>1
  <2>2. CASE ~ phi
    <3>1. /\ Len(nodes') = count + r /\ r = Len(ops)
          /\ \A k \in 1..count : nodes'[k] = nodes[k]
          /\ \A j \in 1..r : IsNodeOfOperand(nodes'[count + j], p, ops[j])
      BY <1>9, <2>2
    <3>2. ASSUME NEW k \in 1..Len(nodes')
          PROVE  k \in 1..count \/ \E j \in 1..r : k = count + j
      <4>1. (k - count \in 1..r /\ k = count + (k - count)) \/ k \in 1..count
        BY <1>11, <3>1
      <4> QED BY <4>1
    <3>3. /\ \A k \in 1..count : k \in 1..(count + r)
          /\ \A j \in 1..r : count + j \in 1..(count + r)
      BY <1>11
    <3> QED BY <2>2, <3>1, <3>2, <3>3
  <2> QED BY <2>1, <2>2
<1>24. /\ \A q \in Pointers(module) : nodes[ids[q] + 1].consumer = None
       /\ \A k \in 1..count : nodes[k].consumer # None =>
            /\ \E x \in Visited : \E j \in ShownOperands(x) : IsNodeOfOperand(nodes[k], x, j)
            /\ Cardinality(OperandEdges(k)) = 1
       /\ \A x \in Visited : \A j \in ShownOperands(x) : Cardinality(NodesOfOperand(x, j)) = 1
  BY <1>3, <1>6, <1>12 DEF Complete, OperandsKnown
<1>25. \A q \in Pointers(module) : ids[q] + 1 \in 1..count
  BY <1>11, <1>12
<1>26. ~ phi => /\ ops \in Seq(ShownOperands(p))
                /\ \A j \in 1..Len(ops) : ops[j] \in ShownOperands(p)
                /\ \A j \in ShownOperands(p) : Count(ops, j) = 1 /\ j \in Nat
  <2> SUFFICES ASSUME ~ phi
               PROVE  /\ ops \in Seq(ShownOperands(p))
                      /\ \A j \in 1..Len(ops) : ops[j] \in ShownOperands(p)
                      /\ \A j \in ShownOperands(p) : Count(ops, j) = 1 /\ j \in Nat
    OBVIOUS
  <2>1. ops \in Seq(ShownOperands(p)) /\ \A j \in ShownOperands(p) : Count(ops, j) = 1
    BY <1>5, <1>7, <1>10, <1>11, OperandsShown
  <2>2. \A j \in 1..Len(ops) : ops[j] \in ShownOperands(p)
    BY <2>1
  <2>3. \A j \in ShownOperands(p) : j \in Nat
    <3>1. Instr(module, p).operands \in Seq(Operands(module))
      BY <1>10, <1>11, InstrType DEF Instructions
    <3>2. \A j \in DOMAIN Instr(module, p).operands : j \in Nat
      BY <3>1
    <3> QED BY <3>2 DEF ShownOperands
  <2> QED BY <2>1, <2>2, <2>3
<1>27. ASSUME NEW k, NEW x, NEW j
       PROVE  /\ IsNodeOfOperand(nodes[k], x, j)' <=> IsNodeOfOperand(nodes'[k], x, j)
              /\ ShownOperands(x)' = ShownOperands(x)
  BY <1>10 DEF IsNodeOfOperand, ShownOperands
<1>28. ASSUME NEW e, NEW x, NEW j, IsNodeOfOperand(e, x, j) PROVE e.consumer = ids[x]
  BY <1>6, <1>28 DEF IsNodeOfOperand
\* An operand node that was there belongs to an instruction visited before.
<1>29. ASSUME NEW k \in 1..count, NEW j, IsNodeOfOperand(nodes[k], p, j) PROVE FALSE
  <2>1. nodes[k].consumer = ids[p]
    BY <1>28, <1>29
  <2>2. nodes[k].consumer # None
    BY <1>10, <1>12, <2>1
  <2>3. PICK x \in Visited : \E i \in ShownOperands(x) : IsNodeOfOperand(nodes[k], x, i)
    BY <1>24, <2>2
  <2>4. nodes[k].consumer = ids[x]
    BY <1>28, <2>3
  <2> QED BY <1>10, <1>12, <2>1, <2>3, <2>4
\* Its edges are those it had.
<1>30. ASSUME NEW k \in 1..count, nodes[k].consumer # None
       PROVE  OperandEdges(k)' = OperandEdges(k)
  <2>1. \A i : i \in OperandEdges(k)'
                 <=> i \in 1..Len(edges') /\ edges'[i].kind = "data_flow"
                     /\ edges'[i].source_node = k - 1
                     /\ edges'[i].target_node = nodes[k].consumer
    BY <1>23 DEF OperandEdges
  <2>2. \A q \in Pointers(module) : ids[q] # k - 1
    <3>1. ASSUME NEW q \in Pointers(module), ids[q] = k - 1 PROVE FALSE
      <4>1. ids[q] + 1 = k
        BY <1>11, <3>1
      <4> QED BY <1>24, <1>30, <4>1
    <3> QED BY <3>1
  <2>3. ASSUME NEW i \in 1..Len(edges'), i \in OperandEdges(k)' PROVE i \in 1..n
    <3>1. edges'[i].kind = "data_flow" /\ edges'[i].source_node = k - 1
      BY <2>1, <2>3
    <3>2. ASSUME NEW j \in 1..u, i = n + j PROVE FALSE
      BY <1>10, <1>15, <2>2, <3>1, <3>2
    <3>3. ASSUME NEW j \in 1..c, i = n + u + j PROVE FALSE
      BY <1>15, <3>1, <3>3
    <3>4. ASSUME NEW j \in 1..r, i = n + u + c + j PROVE FALSE
      <4>1. CASE phi
        BY <1>15, <2>2, <3>1, <3>4, <4>1
      <4>2. CASE ~ phi
        <5>1. k - 1 = count + j - 1
          BY <1>15, <3>1, <3>4, <4>2
        <5> QED BY <1>11, <5>1
      <4> QED BY <4>1, <4>2
    <3> QED BY <1>13, <3>2, <3>3, <3>4
  <2>4. \A i : i \in OperandEdges(k)
                 <=> i \in 1..n /\ edges[i].kind = "data_flow"
                     /\ edges[i].source_node = k - 1
                     /\ edges[i].target_node = nodes[k].consumer
    BY <1>2 DEF OperandEdges
  <2>5. \A i : i \in OperandEdges(k)' <=> i \in OperandEdges(k)
    BY <1>9, <1>14, <2>1, <2>3, <2>4
  <2> QED BY <2>5 DEF OperandEdges
\* A new one has the edge that was added with it.
<1>31. ASSUME ~ phi, NEW j \in 1..r PROVE Cardinality(OperandEdges(count + j)') = 1
  <2> DEFINE k == count + j
             i == n + u + c + j
  <2>1. nodes'[k].consumer = ids[p]
    BY <1>23, <1>28, <1>31
  <2>2. \A l : l \in OperandEdges(k)'
                 <=> l \in 1..Len(edges') /\ edges'[l].kind = "data_flow"
                     /\ edges'[l].source_node = k - 1 /\ edges'[l].target_node = ids[p]
    BY <2>1 DEF OperandEdges
  <2>6. ASSUME NEW h \in 1..r
        PROVE  /\ edges'[n + u + c + h].kind = "data_flow"
               /\ edges'[n + u + c + h].source_node = count + h - 1
               /\ edges'[n + u + c + h].target_node = ids[p]
    BY <1>15, <1>31
  <2>3. i \in OperandEdges(k)'
    <3>1. i \in 1..Len(edges')
      BY <1>14
    <3>2. k - 1 = count + j - 1
      BY <1>11
    <3> QED BY <2>2, <2>6, <3>1, <3>2
  <2>4. ASSUME NEW l \in 1..Len(edges'), edges'[l].source_node = k - 1,
               edges'[l].kind = "data_flow"
        PROVE  l = i
    <3>1. \A q \in Pointers(module) : ids[q] # k - 1
      BY <1>11, <1>12
    <3>2. CASE l \in 1..n
      <4>1. edges[l].source_node \in 0..(count - 1)
        BY <1>2, <1>3, <3>2 DEF IInv, EdgesKnown, Fits, IdsIn
      <4>2. edges[l].source_node = k - 1
        BY <1>9, <2>4, <3>2
      <4> QED BY <1>11, <4>1, <4>2
    <3>3. ASSUME NEW h \in 1..u, l = n + h PROVE FALSE
      BY <1>10, <1>15, <2>4, <3>1, <3>3
    <3>4. ASSUME NEW h \in 1..c, l = n + u + h PROVE FALSE
      BY <1>15, <2>4, <3>4
    <3>5. ASSUME NEW h \in 1..r, l = n + u + c + h PROVE l = i
      <4>1. count + h - 1 = count + j - 1
        <5>1. edges'[l].source_node = count + h - 1
          BY <2>6, <3>5
        <5>2. k - 1 = count + j - 1
          BY <1>11
        <5> QED BY <2>4, <5>1, <5>2
      <4>2. h = j
        BY <1>11, <4>1
      <4> QED BY <3>5, <4>2
    <3> QED BY <1>13, <3>2, <3>3, <3>4, <3>5
  <2> HIDE DEF k, i
  <2>5. OperandEdges(k)' = {i}
    BY <2>2, <2>3, <2>4
  <2> QED BY <2>5, FS_Singleton DEF k
<1>32. ASSUME NEW k \in 1..Len(nodes'), nodes'[k].consumer # None
       PROVE  /\ \E x \in Visited' : \E j \in ShownOperands(x)' : IsNodeOfOperand(nodes[k], x, j)'
              /\ Cardinality(OperandEdges(k)') = 1
  <2>1. CASE k \in 1..count
    <3>1. nodes'[k] = nodes[k] /\ nodes[k].consumer # None
      BY <1>23, <1>32, <2>1
    <3>2. PICK x \in Visited : \E j \in ShownOperands(x) : IsNodeOfOperand(nodes[k], x, j)
      BY <1>24, <2>1, <3>1
    <3>3. \E j \in ShownOperands(x)' : IsNodeOfOperand(nodes[k], x, j)'
      BY <1>27, <3>1, <3>2
    <3>4. Cardinality(OperandEdges(k)') = 1
      BY <1>24, <1>30, <2>1, <3>1
    <3> QED BY <1>10, <3>3, <3>4
  <2>2. CASE ~ phi /\ \E j \in 1..r : k = count + j /\ IsNodeOfOperand(nodes'[k], p, ops[j])
    <3>1. PICK j \in 1..r : k = count + j /\ IsNodeOfOperand(nodes'[k], p, ops[j])
      BY <2>2
    <3>2. ops[j] \in ShownOperands(p)
      BY <1>23, <1>26, <2>2
    <3>3. Cardinality(OperandEdges(k)') = 1
      BY <1>31, <2>2, <3>1
    <3>4. IsNodeOfOperand(nodes[k], p, ops[j])' /\ ops[j] \in ShownOperands(p)'
      BY <1>27, <3>1, <3>2
    <3> QED BY <1>10, <3>3, <3>4
  <2> QED BY <1>23, <2>1, <2>2
<1>33. ASSUME NEW x \in Visited', NEW j \in ShownOperands(x)'
       PROVE  Cardinality(NodesOfOperand(x, j)') = 1
  <2>1. \A k : k \in NodesOfOperand(x, j)'
                 <=> k \in 1..Len(nodes') /\ IsNodeOfOperand(nodes'[k], x, j)
    BY <1>27 DEF NodesOfOperand
  <2>2. j \in ShownOperands(x)
    BY <1>27, <1>33
  <2>3. CASE x \in Visited
    <3>1. ids[x] # ids[p]
      BY <1>10, <1>12, <2>3
    <3>2. ASSUME NEW k \in 1..Len(nodes'), IsNodeOfOperand(nodes'[k], x, j)
          PROVE  k \in 1..count
      <4>1. nodes'[k].consumer = ids[x]
        BY <1>28, <3>2
      <4>2. ASSUME NEW i \in 1..r, IsNodeOfOperand(nodes'[k], p, ops[i]) PROVE FALSE
        BY <1>28, <3>1, <4>1, <4>2
      <4> QED BY <1>23, <4>2
    <3>3. \A k : k \in NodesOfOperand(x, j)
                   <=> k \in 1..count /\ IsNodeOfOperand(nodes[k], x, j)
      BY <1>3 DEF NodesOfOperand
    <3>4. \A k : k \in NodesOfOperand(x, j)' <=> k \in NodesOfOperand(x, j)
      BY <1>23, <2>1, <3>2, <3>3
    <3>5. NodesOfOperand(x, j)' = NodesOfOperand(x, j)
      BY <3>4 DEF NodesOfOperand
    <3> QED BY <1>24, <2>2, <2>3, <3>5
  <2>4. CASE x = p
    <3>1. ~ phi
      BY <1>7, <2>2, <2>4 DEF ShownOperands
    <3>2. Count(ops, j) = 1 /\ j \in Nat /\ r = Len(ops)
      BY <1>23, <1>26, <2>2, <2>4, <3>1
    <3>3. IsFiniteSet(Places(ops, j))
      BY <1>9, <3>2, CountType
    <3>4. PICK i : Places(ops, j) = {i}
      BY <3>2, <3>3, FS_Singleton DEF Count
    <3>5. i \in 1..r /\ ops[i] = j /\ \A h \in 1..r : ops[h] = j => h = i
      BY <3>2, <3>4 DEF Places
    <3>6. count + i \in NodesOfOperand(x, j)'
      BY <1>23, <2>1, <2>4, <3>1, <3>5
    <3>7. ASSUME NEW k \in 1..Len(nodes'), IsNodeOfOperand(nodes'[k], p, j) PROVE k = count + i
      <4>1. k \notin 1..count
        BY <1>23, <1>29, <3>7
      <4>2. PICK h \in 1..r : k = count + h /\ IsNodeOfOperand(nodes'[k], p, ops[h])
        BY <1>23, <4>1
      <4>3. ops[h] \in Nat
        BY <1>26, <3>1, <3>2
      <4>4. ops[h] - 1 = j - 1
        BY <3>7, <4>2 DEF IsNodeOfOperand
      <4>5. ops[h] = j
        BY <3>2, <4>3, <4>4
      <4> QED BY <3>5, <4>2, <4>5
    <3> DEFINE l == count + i
    <3> HIDE DEF l
    <3>8. NodesOfOperand(x, j)' = {l}
      BY <2>1, <2>4, <3>6, <3>7 DEF l
    <3> QED BY <3>8, FS_Singleton
  <2> QED BY <1>10, <2>3, <2>4
<1>34. OperandsKnown'
  <2>1. ASSUME NEW q \in DOMAIN instructionNodeIds'
        PROVE  nodes'[instructionNodeIds'[q] + 1].consumer = None
    <3>1. q \in Pointers(module) /\ instructionNodeIds'[q] = ids[q]
      BY <1>6, <1>10, <1>12
    <3> QED BY <1>23, <1>24, <1>25, <3>1
  <2> QED BY <1>32, <1>33, <2>1 DEF OperandsKnown
<1> QED BY <1>10, <1>17, <1>18, <1>19, <1>20, <1>22, <1>34 DEF Complete

\* Every step of the build keeps it.
LEMMA NextComplete ==
  ASSUME IInv, Complete, [BuilderNext]_builderVars
  PROVE  Complete'
<1>1. CASE RegisterFunctionsAndBasicBlocks
  BY <1>1, BlocksStepComplete
<1>2. CASE RegisterInstructionNodes
  BY <1>2, NodesStepComplete
<1>3. CASE RegisterInstructionSequenceEdges
  BY <1>3, SequenceStepComplete
<1>4. CASE RegisterControlFlowEdges
  BY <1>4, ControlFlowStepComplete
<1>5. CASE RegisterDataFlowAndCallEdges
  BY <1>5, DataFlowStepComplete
<1>6. CASE PopulateBuildInfo
  BY <1>6, InfoStepComplete
<1>7. CASE EndOfPhase
  BY <1>7, EndOfPhaseComplete
<1>8. CASE UNCHANGED builderVars
  <2>1. /\ UNCHANGED <<module, phase, cursor, nodes, edges, instructionNodeIds, infoVars>>
    BY <1>8 DEF builderVars, graphVars, idVars
  <2>2. Joined' = Joined /\ Visited' = Visited /\ Looked' = Looked
    BY <2>1 DEF Joined, Visited, Looked
  <2>3. /\ Continues(edges, edges') /\ Len(edges') \in Nat /\ Len(edges) \in Nat
        /\ \A k \in 1..Len(edges') : k \in 1..Len(edges)
    BY <2>1, Known DEF Continues
  <2>4. ControlFlowKnown' /\ CallsKnown' /\ UsersKnown' /\ OperandsKnown'
    BY <2>1, <2>2, <2>3, ControlFlowKept, CallsKept, UsersKept, OperandsKept DEF Complete
  <2>5. LookupKnown'
    <3>1. \A kind : LookedOfKind(kind)' = LookedOfKind(kind)
      BY <2>1, <2>2 DEF LookedOfKind
    <3> QED BY <2>1, <3>1 DEF Complete, LookupKnown, infoVars
  <2>6. NodeIdsDistinct' /\ Progress'
    BY <2>1 DEF Complete, NodeIdsDistinct, Progress
  <2> QED BY <2>4, <2>5, <2>6 DEF Complete
<1> QED BY <1>1, <1>2, <1>3, <1>4, <1>5, <1>6, <1>7, <1>8 DEF BuilderNext

\* Between any two rounds of the build of any module, the edges and operand nodes
\* of what has been visited so far are there, each as often as it should be, and
\* the lookup maps know the edges looked at so far.
THEOREM CompletenessHolds == BuilderSpec => [](IInv /\ Complete)
BY InitInvariant, InitComplete, NextStep, NextComplete, PTL DEF BuilderSpec

(***************************************************************************)
(* What the graph is when it is built.                                     *)
(***************************************************************************)
\* The passes are over: every block is joined, every instruction visited and
\* every edge looked at.
LEMMA WhenBuilt ==
  ASSUME IInv, phase = "built"
  PROVE  /\ Joined = Blocks(module) /\ Visited = Pointers(module) /\ Looked = 1..Len(edges)
         /\ DOMAIN instructionNodeIds = Pointers(module)
         /\ Seen = Blocks(module)
BY AfterNodes DEF Joined, Visited, Looked

\* Two instructions have two nodes.
LEMMA OneNodeEach ==
  ASSUME IInv, Complete, phase = "built", NEW p \in Pointers(module), NEW q \in Pointers(module),
         instructionNodeIds[p] = instructionNodeIds[q]
  PROVE  p = q
BY WhenBuilt DEF Complete, NodeIdsDistinct

LEMMA CallEdgesAreComplete == IInv /\ Complete => CallEdgesComplete
<1> SUFFICES ASSUME IInv, Complete, phase = "built", NEW p \in Pointers(module)
             PROVE  LET own == {k \in DOMAIN edges : edges[k].kind = "call"
                                   /\ edges[k].source_node = instructionNodeIds[p]}
                        callee == Instr(module, p).callee
                    IN IF IsDirectCall(module, Instr(module, p))
                       THEN \E k \in own :
                              /\ own = {k}
                              /\ edges[k].target_node = FirstNode(EntryBlock(module, callee))
                              /\ callEdgeIds[<<instructionNodeIds[p], callee - 1>>] = k - 1
                       ELSE own = {}
  BY DEF CallEdgesComplete
<1>1. {k \in DOMAIN edges : edges[k].kind = "call"
                            /\ edges[k].source_node = instructionNodeIds[p]} = CallEdgesFrom(p)
  BY Known DEF CallEdgesFrom
<1>2. CASE IsDirectCall(module, Instr(module, p))
  <2>1. PICK k \in 1..Len(edges) :
          /\ CallEdgesFrom(p) = {k}
          /\ edges[k].target_node = FirstNode(EntryBlock(module, Instr(module, p).callee))
          /\ edges[k].target_function = Instr(module, p).callee - 1
    BY <1>2, WhenBuilt DEF Complete, CallsKnown
  <2>2. /\ edges[k].kind = "call" /\ edges[k].source_node = instructionNodeIds[p]
        /\ k \in LookedOfKind("call")
    BY <2>1, WhenBuilt DEF CallEdgesFrom, LookedOfKind
  <2>3. PICK j \in LookedOfKind("call") :
          /\ callEdgeIds[CallEdgeKey(edges[k])] = j - 1
          /\ CallEdgeKey(edges[j]) = CallEdgeKey(edges[k])
    BY <2>2 DEF Complete, LookupKnown
  <2>4. j \in CallEdgesFrom(p)
    <3>1. j \in 1..Len(edges) /\ edges[j].kind = "call"
      BY WhenBuilt DEF LookedOfKind
    <3> QED BY <2>2, <2>3, <3>1 DEF CallEdgeKey, CallEdgesFrom
  <2>5. j = k
    BY <2>1, <2>4
  <2>6. callEdgeIds[<<instructionNodeIds[p], Instr(module, p).callee - 1>>] = k - 1
    BY <2>1, <2>2, <2>3, <2>5 DEF CallEdgeKey
  <2> QED BY <1>1, <1>2, <2>1, <2>6
<1>3. CASE ~ IsDirectCall(module, Instr(module, p))
  <2>1. ASSUME NEW k \in CallEdgesFrom(p) PROVE FALSE
    <3>1. k \in 1..Len(edges) /\ edges[k].kind = "call"
          /\ edges[k].source_node = instructionNodeIds[p]
      BY <2>1 DEF CallEdgesFrom
    <3>2. PICK q \in Visited : /\ IsDirectCall(module, Instr(module, q))
                               /\ edges[k].source_node = instructionNodeIds[q]
      BY <3>1 DEF Complete, CallsKnown
    <3>3. q = p
      BY <3>1, <3>2, WhenBuilt, OneNodeEach
    <3> QED BY <1>3, <3>2, <3>3
  <2> QED BY <1>1, <1>3, <2>1
<1> QED BY <1>2, <1>3

\* Every direct call of a function with a body has one call edge in the built
\* graph, to that function's first instruction, and its key finds it; no other
\* instruction has one (registerCallEdge, CallEdgeKey).
THEOREM CallsComplete == BuilderSpec => []CallEdgesComplete
BY CompletenessHolds, CallEdgesAreComplete, PTL

\* Edges are told apart by their ids, so there are as many as there are indices.
LEMMA EdgesAsIndices ==
  ASSUME IInv, NEW K \in SUBSET (1..Len(edges)), NEW S,
         \A e : e \in S <=> \E k \in K : e = edges[k]
  PROVE  Cardinality(S) = Cardinality(K)
<1> DEFINE f == [k \in K |-> edges[k]]
<1>1. f \in Bijection(K, S)
  <2>1. f \in [K -> S]
    OBVIOUS
  <2>2. \A i, j \in K : f[i] = f[j] => i = j
    <3>1. \A k \in K : edges[k].id = k - 1 /\ k \in Int
      BY DEF IInv, EdgesKnown
    <3> QED BY <3>1
  <2>3. \A e \in S : \E k \in K : f[k] = e
    OBVIOUS
  <2> HIDE DEF f
  <2> QED BY <2>1, <2>2, <2>3 DEF Bijection, Injection, IsInjective, Surjection
<1>2. IsFiniteSet(K)
  <2>1. IsFiniteSet(1..Len(edges))
    BY Known, FS_Interval
  <2> QED BY <2>1, FS_Subset
<1> QED BY <1>1, <1>2, FS_Bijection DEF ExistsBijection

LEMMA DataFlowIsComplete == IInv /\ Complete => DataFlowComplete
<1> SUFFICES ASSUME IInv, Complete, phase = "built", NEW p \in Pointers(module)
             PROVE  LET me == instructionNodeIds[p]
                        instr == Instr(module, p)
                        mine == {k \in DOMAIN nodes : nodes[k].consumer = me}
                    IN /\ \A q \in Pointers(module) :
                            Cardinality({e \in EdgesOf("data_flow", me, instructionNodeIds[q]) :
                                           e.target_basic_block = None})
                              = Cardinality({k \in DOMAIN Instr(module, q).operands :
                                               IsUse(module, p, <<q, k>>)})
                       /\ \A j \in DOMAIN instr.operands :
                            LET operand == instr.operands[j]
                                own == {k \in mine : nodes[k].operand_index = j - 1
                                                     /\ nodes[k].label = operand}
                            IN IF instr.op = "phi" \/ operand[1] \in {"instruction", "block"}
                               THEN own = {}
                               ELSE \/ Cardinality(own) = 1
                                    \/ IsDirectCall(module, instr) /\ operand = <<"function", instr.callee>>
                       /\ \A k \in mine : Cardinality(EdgesOf("data_flow", k - 1, me)) = 1
  BY DEF DataFlowComplete
<1> DEFINE me == instructionNodeIds[p]
           instr == Instr(module, p)
           mine == {k \in DOMAIN nodes : nodes[k].consumer = me}
           own(j) == {k \in mine : nodes[k].operand_index = j - 1 /\ nodes[k].label = instr.operands[j]}
<1>1. ASSUME NEW q \in Pointers(module)
      PROVE  Cardinality({e \in EdgesOf("data_flow", me, instructionNodeIds[q]) :
                            e.target_basic_block = None})
               = Cardinality(OperandsUsing(module, p, q))
  <2> DEFINE S == {e \in EdgesOf("data_flow", me, instructionNodeIds[q]) :
                     e.target_basic_block = None}
             K == EdgesToUser(p, q)
  <2>1. K \in SUBSET (1..Len(edges))
    BY DEF EdgesToUser
  <2>2. \A e : e \in S <=> \E k \in K : e = edges[k]
    BY Known DEF EdgesOf, EdgesToUser
  <2>3. Cardinality(K) = Cardinality(OperandsUsing(module, p, q))
    BY WhenBuilt DEF Complete, UsersKnown
  <2> HIDE DEF S, K
  <2>4. Cardinality(S) = Cardinality(K)
    BY <2>1, <2>2, EdgesAsIndices
  <2> QED BY <2>3, <2>4 DEF S, K
<1>2. me # None
  BY AfterNodes, Known, NoneAssumption DEF IdsIn
<1>3. ASSUME NEW k \in mine
      PROVE  /\ k \in 1..Len(nodes)
             /\ \E j \in ShownOperands(p) : IsNodeOfOperand(nodes[k], p, j)
             /\ Cardinality(EdgesOf("data_flow", k - 1, me)) = 1
  <2>1. k \in 1..Len(nodes) /\ nodes[k].consumer = me
    BY Known
  <2>2. /\ \E x \in Visited : \E j \in ShownOperands(x) : IsNodeOfOperand(nodes[k], x, j)
        /\ Cardinality(OperandEdges(k)) = 1
    BY <1>2, <2>1 DEF Complete, OperandsKnown
  <2>3. PICK x \in Pointers(module) : \E j \in ShownOperands(x) : IsNodeOfOperand(nodes[k], x, j)
    BY <2>2, WhenBuilt
  <2>4. instructionNodeIds[x] = me
    BY <2>1, <2>3 DEF IsNodeOfOperand
  <2>5. x = p
    BY <2>4, OneNodeEach
  <2>6. Cardinality(EdgesOf("data_flow", k - 1, me)) = Cardinality(OperandEdges(k))
    <3> DEFINE S == EdgesOf("data_flow", k - 1, me)
               K == OperandEdges(k)
    <3>1. K \in SUBSET (1..Len(edges))
      BY DEF OperandEdges
    <3>2. \A e : e \in S <=> \E i \in K : e = edges[i]
      BY <2>1, Known DEF EdgesOf, OperandEdges
    <3> HIDE DEF S, K
    <3>3. Cardinality(S) = Cardinality(K)
      BY <3>1, <3>2, EdgesAsIndices
    <3> QED BY <3>3 DEF S, K
  <2> QED BY <2>1, <2>2, <2>3, <2>5, <2>6
<1>4. ASSUME NEW j \in DOMAIN instr.operands,
             instr.op = "phi" \/ instr.operands[j][1] \in {"instruction", "block"}
      PROVE  own(j) = {}
  <2>1. ASSUME NEW k \in own(j) PROVE FALSE
    <3>1. k \in mine /\ nodes[k].operand_index = j - 1
      OBVIOUS
    <3>2. PICK i \in ShownOperands(p) : IsNodeOfOperand(nodes[k], p, i)
      BY <1>3, <3>1
    <3>3. instr.operands \in Seq(Operands(module))
      BY Known, InstrType DEF Instructions
    <3>4. i \in DOMAIN instr.operands
      BY <3>2 DEF ShownOperands
    <3>5. i - 1 = j - 1 /\ i \in Nat /\ j \in Nat
      BY <3>1, <3>2, <3>3, <3>4 DEF IsNodeOfOperand
    <3>6. i = j
      BY <3>5
    <3> QED BY <1>4, <3>2, <3>6 DEF ShownOperands
  <2> QED BY <2>1
<1>5. ASSUME NEW j \in DOMAIN instr.operands,
             ~ (instr.op = "phi" \/ instr.operands[j][1] \in {"instruction", "block"})
      PROVE  Cardinality(own(j)) = 1
  <2>1. j \in ShownOperands(p)
    BY <1>5 DEF ShownOperands
  <2>2. Cardinality(NodesOfOperand(p, j)) = 1
    BY <2>1, WhenBuilt DEF Complete, OperandsKnown
  <2>3. own(j) = NodesOfOperand(p, j)
    BY Known DEF NodesOfOperand, IsNodeOfOperand
  <2> QED BY <2>2, <2>3
<1> QED
  <2> HIDE DEF own
  <2>1. \A j \in DOMAIN instr.operands :
          IF instr.op = "phi" \/ instr.operands[j][1] \in {"instruction", "block"}
          THEN own(j) = {} ELSE Cardinality(own(j)) = 1
    BY <1>4, <1>5
  <2>2. \A k \in mine : Cardinality(EdgesOf("data_flow", k - 1, me)) = 1
    BY <1>3
  <2> QED BY <1>1, <2>1, <2>2 DEF own, OperandsUsing

\* Every use of a value by an instruction shows up exactly once in the built
\* graph, as an edge from the instruction that computes it or as an operand node
\* with the operand's index (registerInstrUsersDataFlowEdges, addOperandNode).
THEOREM UsesComplete == BuilderSpec => []DataFlowComplete
BY CompletenessHolds, DataFlowIsComplete, PTL

\* The control-flow edges between two nodes are those between their blocks.
LEMMA EdgesBetweenNodes ==
  ASSUME IInv, Complete, phase = "built", NEW s \in Blocks(module), NEW b \in Blocks(module)
  PROVE  \A e : e \in EdgesOf("control_flow", instructionNodeIds[Terminator(module, s)],
                              FirstNode(b))
                  <=> \E k \in EdgesBetweenBlocks(s, b) : e = edges[k]
<1> DEFINE source == instructionNodeIds[Terminator(module, s)]
           target == FirstNode(b)
<1>1. ASSUME NEW k \in 1..Len(edges), edges[k].kind = "control_flow",
             edges[k].source_node = source, edges[k].target_node = target
      PROVE  IsEdgeBetweenBlocks(edges[k], s, b)
  <2>1. PICK c \in Blocks(module) : \E t \in Before(module, c) : IsEdgeBetweenBlocks(edges[k], t, c)
    BY <1>1, WhenBuilt DEF Complete, ControlFlowKnown
  <2>2. PICK t \in Before(module, c) : IsEdgeBetweenBlocks(edges[k], t, c)
    BY <2>1
  <2>3. t \in Blocks(module)
    BY DEF Before
  <2>4. /\ Terminator(module, s) \in Pointers(module) /\ Terminator(module, t) \in Pointers(module)
        /\ <<b, 1>> \in Pointers(module) /\ <<c, 1>> \in Pointers(module)
    BY <2>3, Known, BodyType
  <2>5. Terminator(module, t) = Terminator(module, s) /\ <<c, 1>> = <<b, 1>>
    BY <1>1, <2>2, <2>4, OneNodeEach DEF IsEdgeBetweenBlocks, FirstNode
  <2>6. t = s /\ c = b
    BY <2>5 DEF Terminator
  <2> QED BY <2>2, <2>6
<1>2. \A k \in EdgesBetweenBlocks(s, b) :
        /\ k \in 1..Len(edges) /\ edges[k].kind = "control_flow"
        /\ edges[k].source_node = source /\ edges[k].target_node = target
  BY DEF EdgesBetweenBlocks, IsEdgeBetweenBlocks
<1>3. ASSUME NEW e, e \in EdgesOf("control_flow", source, target)
      PROVE  \E k \in EdgesBetweenBlocks(s, b) : e = edges[k]
  <2>1. PICK k \in 1..Len(edges) : e = edges[k]
    BY <1>3, Known DEF EdgesOf
  <2>2. /\ edges[k].kind = "control_flow"
        /\ edges[k].source_node = source /\ edges[k].target_node = target
    BY <1>3, <2>1 DEF EdgesOf
  <2>3. k \in EdgesBetweenBlocks(s, b)
    BY <1>1, <2>2 DEF EdgesBetweenBlocks
  <2> QED BY <2>1, <2>3
<1>4. ASSUME NEW k \in EdgesBetweenBlocks(s, b)
      PROVE  edges[k] \in EdgesOf("control_flow", source, target)
  BY <1>2, Known DEF EdgesOf
<1> QED BY <1>3, <1>4

\* A module has finitely many control-flow edges.
LEMMA CfgEdgesFinite ==
  ASSUME NEW m, WellFormed(m)
  PROVE  IsFiniteSet(CfgEdges(m)) /\ \A e \in CfgEdges(m) : /\ e[1] \in Blocks(m)
                                                           /\ EdgeTarget(m, e) \in Blocks(m)
                                                           /\ e[2] \in 1..Len(Successors(m, e[1]))
                                                           /\ e = <<e[1], e[2]>>
<1> DEFINE from(b) == {b} \X (1..Len(Successors(m, b)))
<1>1. IsFiniteSet(Blocks(m))
  BY BodyType, FS_Interval DEF Blocks
<1>2. ASSUME NEW b \in Blocks(m) PROVE IsFiniteSet(from(b))
  <2>1. Len(Successors(m, b)) \in Nat
    BY SuccessorsType
  <2>2. IsFiniteSet(1..Len(Successors(m, b)))
    BY <2>1, FS_Interval
  <2>3. IsFiniteSet({b})
    BY FS_Singleton
  <2> QED BY <2>2, <2>3, FS_Product
<1>3. ASSUME NEW e \in CfgEdges(m)
      PROVE  /\ e[1] \in Blocks(m) /\ e[2] \in 1..Len(Successors(m, e[1])) /\ e = <<e[1], e[2]>>
             /\ EdgeTarget(m, e) \in Blocks(m)
  <2>1. e[1] \in Blocks(m) /\ e[2] \in 1..Len(Successors(m, e[1])) /\ e = <<e[1], e[2]>>
    BY DEF CfgEdges
  <2>2. EdgeTarget(m, e) \in Blocks(m)
    BY <2>1, SuccessorsType DEF EdgeTarget
  <2> QED BY <2>1, <2>2
<1> HIDE DEF from
<1>4. IsFiniteSet({from(b) : b \in Blocks(m)})
  <2> DEFINE f == [b \in Blocks(m) |-> from(b)]
  <2>1. f \in Surjection(Blocks(m), {from(b) : b \in Blocks(m)})
    BY DEF Surjection
  <2> QED BY <1>1, <2>1, FS_Surjection
<1>5. IsFiniteSet(UNION {from(b) : b \in Blocks(m)})
  BY <1>2, <1>4, FS_UNION
<1> QED BY <1>3, <1>5 DEF CfgEdges, from

LEMMA ControlFlowIsComplete == IInv /\ Complete => ControlFlowComplete
<1> SUFFICES ASSUME IInv, Complete, phase = "built"
             PROVE  /\ \A s, b \in Blocks(module) :
                         Cardinality(EdgesOf("control_flow",
                                             instructionNodeIds[Terminator(module, s)], FirstNode(b)))
                           = Cardinality(EdgesFromTo(module, s, b))
                    /\ Cardinality({k \in DOMAIN edges : edges[k].kind = "control_flow"})
                         = Cardinality(CfgEdges(module))
  BY DEF ControlFlowComplete, EdgesFromTo
<1>1. ASSUME NEW s \in Blocks(module), NEW b \in Blocks(module)
      PROVE  /\ Cardinality(EdgesOf("control_flow",
                                    instructionNodeIds[Terminator(module, s)], FirstNode(b)))
                  = Cardinality(EdgesFromTo(module, s, b))
             /\ Cardinality(EdgesBetweenBlocks(s, b)) = Cardinality(EdgesFromTo(module, s, b))
  <2> DEFINE S == EdgesOf("control_flow", instructionNodeIds[Terminator(module, s)], FirstNode(b))
             K == EdgesBetweenBlocks(s, b)
  <2>1. K \in SUBSET (1..Len(edges))
    BY DEF EdgesBetweenBlocks
  <2>2. \A e : e \in S <=> \E k \in K : e = edges[k]
    BY EdgesBetweenNodes
  <2>3. Cardinality(K) = Cardinality(EdgesFromTo(module, s, b))
    BY WhenBuilt DEF Complete, ControlFlowKnown
  <2> HIDE DEF S, K
  <2>4. Cardinality(S) = Cardinality(K)
    BY <2>1, <2>2, EdgesAsIndices
  <2> QED BY <2>3, <2>4 DEF S, K
<1> DEFINE A == {k \in 1..Len(edges) : edges[k].kind = "control_flow"}
           B == CfgEdges(module)
           n == Len(module.body)
           Into(b) == {k \in A : edges[k].target_basic_block + 1 = b}
<1>2. n \in Nat /\ Blocks(module) = 1..n /\ WellFormed(module)
  BY Known DEF Blocks
<1>3. IsFiniteSet(A)
  <2>1. IsFiniteSet(1..Len(edges))
    BY Known, FS_Interval
  <2> QED BY <2>1, FS_Subset
<1>4. IsFiniteSet(B) /\ \A e \in B : e[1] \in 1..n /\ EdgeTarget(module, e) \in 1..n
  BY <1>2, CfgEdgesFinite
<1>5. ASSUME NEW k \in A
      PROVE  /\ edges[k].target_basic_block + 1 \in 1..n /\ edges[k].source_basic_block + 1 \in 1..n
             /\ IsEdgeBetweenBlocks(edges[k], edges[k].source_basic_block + 1,
                                    edges[k].target_basic_block + 1)
  <2>1. PICK c \in Blocks(module) : \E t \in Before(module, c) : IsEdgeBetweenBlocks(edges[k], t, c)
    BY WhenBuilt DEF Complete, ControlFlowKnown
  <2>2. PICK t \in Before(module, c) : IsEdgeBetweenBlocks(edges[k], t, c)
    BY <2>1
  <2>3. t \in 1..n /\ c \in 1..n
    BY <1>2 DEF Before
  <2>4. edges[k].target_basic_block + 1 = c /\ edges[k].source_basic_block + 1 = t
    BY <1>2, <2>2, <2>3 DEF IsEdgeBetweenBlocks
  <2> QED BY <2>2, <2>3, <2>4
<1>6. ASSUME NEW b \in 1..n PROVE Cardinality(Into(b)) = Cardinality(EdgesInto(module, b))
  <2>0. PICK K, E : K = Into(b) /\ E = EdgesInto(module, b)
    OBVIOUS
  <2> DEFINE f == [k \in K |-> edges[k].source_basic_block + 1]
             g == [e \in E |-> e[1]]
  <2>1. f \in [K -> 1..n]
    BY <1>5, <2>0
  <2>2. g \in [E -> 1..n]
    BY <1>4, <2>0 DEF EdgesInto
  <2>3. IsFiniteSet(K) /\ IsFiniteSet(E)
    BY <1>3, <1>4, <2>0, FS_Subset DEF EdgesInto
  <2>4. ASSUME NEW s \in 1..n
        PROVE  Cardinality(Piece(K, f, s)) = Cardinality(Piece(E, g, s))
    <3>1. Piece(K, f, s) = EdgesBetweenBlocks(s, b)
      <4>1. \A k \in EdgesBetweenBlocks(s, b) : k \in K /\ f[k] = s
        BY <2>0 DEF EdgesBetweenBlocks, IsEdgeBetweenBlocks
      <4>2. \A k \in K : f[k] = s => k \in EdgesBetweenBlocks(s, b)
        BY <1>5, <2>0 DEF EdgesBetweenBlocks
      <4> HIDE DEF f
      <4>3. EdgesBetweenBlocks(s, b) \subseteq K
        BY <4>1
      <4> QED BY <4>1, <4>2, <4>3 DEF Piece
    <3>2. Piece(E, g, s) = EdgesFromTo(module, s, b)
      BY <2>0 DEF EdgesFromTo, Piece
    <3>3. s \in Blocks(module) /\ b \in Blocks(module)
      BY <1>2
    <3>4. Cardinality(EdgesBetweenBlocks(s, b)) = Cardinality(EdgesFromTo(module, s, b))
      BY <1>1, <3>3
    <3> QED BY <3>1, <3>2, <3>4
  <2> HIDE DEF f, g, n
  <2>6. n \in Nat
    BY <1>2
  <2>5. Cardinality(K) = Cardinality(E)
    BY <2>1, <2>2, <2>3, <2>4, <2>6, SamePieces
  <2> QED BY <2>0, <2>5
<1>7. Cardinality(A) = Cardinality(B)
  <2> DEFINE f == [k \in A |-> edges[k].target_basic_block + 1]
             g == [e \in B |-> EdgeTarget(module, e)]
  <2>1. f \in [A -> 1..n]
    BY <1>5
  <2>2. g \in [B -> 1..n]
    BY <1>4
  <2>3. ASSUME NEW b \in 1..n
        PROVE  Cardinality(Piece(A, f, b)) = Cardinality(Piece(B, g, b))
    <3>1. Piece(A, f, b) = Into(b)
      BY DEF Piece
    <3>2. Piece(B, g, b) = EdgesInto(module, b)
      BY DEF EdgesInto, Piece
    <3> QED BY <1>6, <3>1, <3>2
  <2> HIDE DEF f, g, A, B, n
  <2>4. n \in Nat /\ IsFiniteSet(A) /\ IsFiniteSet(B)
    BY <1>2, <1>3, <1>4
  <2> QED BY <2>1, <2>2, <2>3, <2>4, SamePieces
<1> QED BY <1>1, <1>7, Known

\* The built graph has, between any two blocks, as many control-flow edges as the
\* first has successors that are the second, phi or no phi, and no others
\* (registerControlFlowEdgesWithPhi, registerControlFlowEdgesWithoutPhi).
THEOREM ControlFlowIsWhole == BuilderSpec => []ControlFlowComplete
BY CompletenessHolds, ControlFlowIsComplete, PTL

\* The lookup map after the build.
LEMMA LookupIsFirst == IInv /\ Complete => LookupFindsFirstSuccessor
<1> SUFFICES ASSUME IInv, Complete, phase = "built"
             PROVE  LET firsts == {e \in CfgEdges(module) :
                                     \A j \in 1..(e[2] - 1) :
                                       Successors(module, e[1])[j] # EdgeTarget(module, e)}
                        keyOf(e) == <<e[1] - 1, EdgeTarget(module, e) - 1, e[2] - 1>>
                    IN /\ DOMAIN cfgEdgeIds = {keyOf(e) : e \in firsts}
                       /\ \A e \in firsts :
                            LET found == edges[cfgEdgeIds[keyOf(e)] + 1] IN
                              \A other \in EdgesOf("control_flow",
                                                   instructionNodeIds[Terminator(module, e[1])],
                                                   FirstNode(EdgeTarget(module, e))) :
                                found.kind = "control_flow" /\ found.id <= other.id
  BY DEF LookupFindsFirstSuccessor
<1> DEFINE firsts == {e \in CfgEdges(module) :
                        \A j \in 1..(e[2] - 1) :
                          Successors(module, e[1])[j] # EdgeTarget(module, e)}
           keyOf(e) == <<e[1] - 1, EdgeTarget(module, e) - 1, e[2] - 1>>
           Cf == LookedOfKind("control_flow")
<1>1. WellFormed(module) /\ Blocks(module) \subseteq Nat
  BY Known DEF Blocks
\* A first edge between two blocks is the one FirstSlot names.
<1>2. ASSUME NEW e \in firsts
      PROVE  LET s == e[1]
                 b == EdgeTarget(module, e)
             IN /\ s \in Blocks(module) /\ b \in Blocks(module) /\ s \in Before(module, b)
                /\ e[2] - 1 = FirstSlot(module, s, b)
                /\ EdgesBetweenBlocks(s, b) # {}
  <2> DEFINE s == e[1]
             b == EdgeTarget(module, e)
             succ == Successors(module, s)
  <2>1. s \in Blocks(module) /\ b \in Blocks(module) /\ e[2] \in 1..Len(succ)
    BY <1>1, CfgEdgesFinite
  <2>2. succ[e[2]] = b /\ \A j \in 1..(e[2] - 1) : succ[j] # b
    BY DEF EdgeTarget
  <2>3. s \in Before(module, b)
    BY <2>1, <2>2 DEF Before
  <2>4. PICK first : first = FirstSlot(module, s, b) + 1
    OBVIOUS
  <2>5. /\ first \in Nat /\ first \in 1..Len(succ) /\ succ[first] = b
        /\ \A j \in 1..(first - 1) : succ[j] # b
    <3> HIDE DEF s, b
    <3>1. /\ first \in Nat /\ first \in SlotsTo(module, s, b)
          /\ \A j \in 1..(first - 1) : succ[j] # b
      BY <1>1, <2>1, <2>3, <2>4, FirstSlotIsFirst
    <3> QED BY <3>1 DEF SlotsTo
  <2>6. first = e[2]
    <3> HIDE DEF b, succ
    <3>1. Len(succ) \in Nat
      BY <1>1, <2>1, SuccessorsType DEF succ
    <3>2. ~ (first < e[2]) /\ ~ (e[2] < first)
      BY <2>1, <2>2, <2>5, <3>1
    <3> QED BY <2>1, <2>5, <3>1, <3>2
  <2>7. e[2] - 1 = FirstSlot(module, s, b)
    <3> HIDE DEF s, b
    <3>1. FirstSlot(module, s, b) \in Int
      BY <2>3, <1>1, <2>1, FirstSlotIsFirst
    <3> QED BY <2>4, <2>6, <3>1
  <2>8. EdgesBetweenBlocks(s, b) # {}
    <3> HIDE DEF s, b
    <3>1. Cardinality(EdgesFromTo(module, s, b)) # 0
      BY <1>1, <2>1, <2>3, BeforeAsSlots
    <3>2. Cardinality(EdgesBetweenBlocks(s, b)) # 0
      BY <2>1, <3>1, WhenBuilt DEF Complete, ControlFlowKnown
    <3> QED BY <3>2, FS_EmptySet
  <2> QED BY <2>1, <2>3, <2>7, <2>8
<1>3. ASSUME NEW e \in firsts, NEW k \in EdgesBetweenBlocks(e[1], EdgeTarget(module, e))
      PROVE  k \in Cf /\ CfgEdgeKey(edges[k]) = keyOf(e)
  <2>1. k \in 1..Len(edges) /\ IsEdgeBetweenBlocks(edges[k], e[1], EdgeTarget(module, e))
    BY DEF EdgesBetweenBlocks
  <2>2. e[2] - 1 = FirstSlot(module, e[1], EdgeTarget(module, e))
    BY <1>2
  <2> QED BY <2>1, <2>2, WhenBuilt DEF IsEdgeBetweenBlocks, LookedOfKind, CfgEdgeKey
<1>4. ASSUME NEW k \in Cf PROVE \E e \in firsts : CfgEdgeKey(edges[k]) = keyOf(e)
  <2>1. k \in 1..Len(edges) /\ edges[k].kind = "control_flow"
    BY WhenBuilt DEF LookedOfKind
  <2>2. PICK b \in Blocks(module) : \E s \in Before(module, b) : IsEdgeBetweenBlocks(edges[k], s, b)
    BY <2>1, WhenBuilt DEF Complete, ControlFlowKnown
  <2>3. PICK s \in Before(module, b) : IsEdgeBetweenBlocks(edges[k], s, b)
    BY <2>2
  <2>4. s \in Blocks(module)
    BY DEF Before
  <2>5. PICK first : first = FirstSlot(module, s, b) + 1
    OBVIOUS
  <2>6. /\ first \in Nat /\ first \in SlotsTo(module, s, b)
        /\ \A j \in 1..(first - 1) : Successors(module, s)[j] # b
    BY <1>1, <2>5, FirstSlotIsFirst
  <2>7. FirstSlot(module, s, b) \in Int
    BY <1>1, FirstSlotIsFirst
  <2>8. PICK e : e = <<s, first>>
    OBVIOUS
  <2>9. e \in CfgEdges(module) /\ EdgeTarget(module, e) = b
    BY <2>4, <2>6, <2>8 DEF CfgEdges, EdgeTarget, SlotsTo
  <2>10. e[1] = s /\ e[2] = first
    BY <2>8
  <2>11. e \in firsts
    BY <2>6, <2>9, <2>10
  <2>12. CfgEdgeKey(edges[k]) = keyOf(e)
    BY <2>3, <2>5, <2>6, <2>7, <2>9, <2>10 DEF IsEdgeBetweenBlocks, CfgEdgeKey
  <2> QED BY <2>11, <2>12
<1> HIDE DEF firsts, keyOf
<1>5. DOMAIN cfgEdgeIds = {keyOf(e) : e \in firsts}
  <2>1. DOMAIN cfgEdgeIds = {CfgEdgeKey(edges[k]) : k \in Cf}
    BY DEF Complete, LookupKnown
  <2>2. \A e \in firsts : \E k \in Cf : CfgEdgeKey(edges[k]) = keyOf(e)
    BY <1>2, <1>3
  <2> QED BY <1>4, <2>1, <2>2
<1>6. ASSUME NEW e \in firsts,
             NEW other \in EdgesOf("control_flow", instructionNodeIds[Terminator(module, e[1])],
                                   FirstNode(EdgeTarget(module, e)))
      PROVE  LET found == edges[cfgEdgeIds[keyOf(e)] + 1] IN
               found.kind = "control_flow" /\ found.id <= other.id
  <2>1. e[1] \in Blocks(module) /\ EdgeTarget(module, e) \in Blocks(module)
    BY <1>2
  <2>2. PICK k \in EdgesBetweenBlocks(e[1], EdgeTarget(module, e)) : other = edges[k]
    BY <2>1, EdgesBetweenNodes
  <2>3. k \in Cf /\ CfgEdgeKey(edges[k]) = keyOf(e)
    BY <1>3
  <2>4. PICK j \in Cf : cfgEdgeIds[keyOf(e)] = j - 1 /\ j <= k
    BY <2>3 DEF Complete, LookupKnown
  <2>5. /\ j \in 1..Len(edges) /\ k \in 1..Len(edges) /\ edges[j].kind = "control_flow"
        /\ (j - 1) + 1 = j
    BY <2>3, WhenBuilt DEF LookedOfKind
  <2>6. edges[j].id = j - 1 /\ edges[k].id = k - 1
    BY <2>5 DEF IInv, EdgesKnown
  <2> QED BY <2>2, <2>4, <2>5, <2>6
<1> QED BY <1>5, <1>6 DEF firsts, keyOf

\* Of the successors of a terminator that are one block the lookup map holds the
\* first and only the first, and leads to the first of their edges, so that the
\* log of an edge can name no other (findSuccessorIndex, populateBuildInfo).
THEOREM LookupIsUnambiguous == BuilderSpec => []LookupFindsFirstSuccessor
BY CompletenessHolds, LookupIsFirst, PTL

==============================================================================
