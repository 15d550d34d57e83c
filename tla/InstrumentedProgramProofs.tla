---------------------- MODULE InstrumentedProgramProofs ----------------------
(***************************************************************************)
(* Theorems about InstrumentedProgram, for every set of modules that can   *)
(* be run: the program stays within its changed code, whose logs name      *)
(* entities of the graph, and the log of a program that has exited is one  *)
(* that the merge takes.                                                   *)
(***************************************************************************)
EXTENDS InstrumentedProgram, InjectPassProofs

(***************************************************************************)
(* What the run takes from the injection.                                  *)
(***************************************************************************)
Counted == {k \in 1..Len(edges) : edges[k].kind \in {"control_flow", "call"}}

IdsOf(event) ==
  IF event = "func_enter" THEN 0..(module.functions - 1)
  ELSE IF event = "bb_enter" THEN 0..(Len(module.body) - 1)
  ELSE {k - 1 : k \in Counted}

KnownLogs == {x \in LogItems : x.id \in IdsOf(x.event)}
KnownItems == OriginalItems(module) \cup KnownLogs \cup {Goto}

\* What the graph says of the elements that the ids in the maps name: an edge
\* between blocks leads from the one to the other, the nodes of two instructions
\* are two, and only what has no body has no entry.
NamesTell ==
  /\ \A e \in CfgEdges(module) : CfgKey(e[1], e[2]) \in DOMAIN cfgEdgeIds =>
       LET x == edges[cfgEdgeIds[CfgKey(e[1], e[2])] + 1] IN
         /\ x.kind = "control_flow" /\ x.source_basic_block = e[1] - 1
         /\ x.target_basic_block = EdgeTarget(module, e) - 1
  /\ \A p, q \in Pointers(module) : instructionNodeIds[p] = instructionNodeIds[q] => p = q
  /\ \A f \in Functions(module) :
       functions[f].entry_basic_block = None <=> IsDeclaration(module, f)

\* The graph has the elements that the ids in the maps name.
InGraph ==
  /\ NamesTell
  /\ Len(functions) = module.functions /\ Len(basicBlocks) = Len(module.body)
  /\ IsVector(functions) /\ IsVector(edges)
  /\ \A x \in DOMAIN cfgEdgeIds : cfgEdgeIds[x] + 1 \in Counted /\ cfgEdgeIds[x] \in Nat
  /\ \A x \in DOMAIN callEdgeIds : callEdgeIds[x] + 1 \in Counted /\ callEdgeIds[x] \in Nat

\* A function that is entered logs that before anything else.
LogsFirst(v, f) == v # <<>> /\ v[1] = Log("func_enter", f - 1)
StartsWithLog ==
  \A f \in Functions(module) : ~ IsDeclaration(module, f) =>
    LogsFirst(code[EntryBlock(module, f)], f)

CodeInv ==
  /\ phase \in Early => code = [b \in Blocks(module) |-> BodyOf(module, b)]
  /\ phase \notin Early => \A c \in DOMAIN code : code[c] \in Seq(KnownItems)
  /\ phase \notin DOMAIN NextPhase => InGraph
  /\ phase \in {"entry_logged"} \cup CallsLogged => StartsWithLog

LEMMA PhaseSets ==
  /\ DOMAIN NextPhase = {"blocks", "nodes", "sequence", "control_flow", "data_flow", "info"}
  /\ Early = DOMAIN NextPhase \cup {"built"}
  /\ CallsLogged = {"calls_logged", "splitting", "injected"}
BY DEF NextPhase, Early, CallsLogged

LEMMA CodeBegins == InjectInit => CodeInv
<1> SUFFICES ASSUME InjectInit PROVE CodeInv
  OBVIOUS
<1>1. phase = "blocks" /\ code = [b \in Blocks(module) |-> BodyOf(module, b)]
  BY DEF InjectInit, Init, BodyOf
<1> QED BY <1>1, PhaseSets DEF CodeInv

\* What is looked up is in the graph.
IsBuilt == phase = "built" /\ IInv /\ Complete

LEMMA BuiltNamesTell ==
  ASSUME IInv, Complete, phase = "built"
  PROVE  NamesTell
<1>1. module \in Modules /\ WellFormed(module)
  BY Known DEF IInv, Control
<1>2. \A b \in Blocks(module) : basicBlockIds[b] = b - 1
  BY AfterNodes
<1>3. ASSUME NEW e \in CfgEdges(module), CfgKey(e[1], e[2]) \in DOMAIN cfgEdgeIds
      PROVE  LET x == edges[cfgEdgeIds[CfgKey(e[1], e[2])] + 1] IN
               /\ x.kind = "control_flow" /\ x.source_basic_block = e[1] - 1
               /\ x.target_basic_block = EdgeTarget(module, e) - 1
  <2>1. PICK key : key = CfgKey(e[1], e[2])
    OBVIOUS
  <2>2. key = <<e[1] - 1, EdgeTarget(module, e) - 1, e[2] - 1>>
    <3>1. e[1] \in Blocks(module) /\ EdgeTarget(module, e) \in Blocks(module)
      BY <1>1, EdgeParts
    <3> QED BY <1>2, <2>1, <3>1 DEF CfgKey, EdgeTarget
  <2>3. PICK k \in LookedOfKind("control_flow") : key = CfgEdgeKey(edges[k])
    BY <1>3, <2>1 DEF Complete, LookupKnown
  <2>4. PICK j \in LookedOfKind("control_flow") :
          cfgEdgeIds[key] = j - 1 /\ CfgEdgeKey(edges[j]) = key
    BY <2>3 DEF Complete, LookupKnown
  <2>5. j \in Int /\ edges[j].kind = "control_flow"
    BY WhenBuilt, Known DEF LookedOfKind
  <2>6. cfgEdgeIds[key] + 1 = j
    BY <2>4, <2>5
  <2>7. /\ edges[j].source_basic_block = e[1] - 1
        /\ edges[j].target_basic_block = EdgeTarget(module, e) - 1
    BY <2>2, <2>4 DEF CfgEdgeKey
  <2> QED BY <2>1, <2>5, <2>6, <2>7
<1>4. \A p, q \in Pointers(module) : instructionNodeIds[p] = instructionNodeIds[q] => p = q
  <2>1. DOMAIN instructionNodeIds = Pointers(module)
    BY AfterNodes
  <2> QED BY <2>1 DEF Complete, NodeIdsDistinct
<1>5. ASSUME NEW f \in Functions(module)
      PROVE  functions[f].entry_basic_block = None <=> IsDeclaration(module, f)
  <2>1. f \in 1..Len(functions)
    BY Known DEF IInv, FunctionsKnown, Functions
  <2>2. functions[f].entry_basic_block
          = IF IsDeclaration(module, f) THEN None ELSE EntryBlock(module, f) - 1
    BY <2>1 DEF IInv, FunctionsKnown
  <2>3. ~ IsDeclaration(module, f) => EntryBlock(module, f) - 1 \in Nat
    <3>1. ASSUME ~ IsDeclaration(module, f) PROVE EntryBlock(module, f) \in BlocksOf(module, f)
      BY <1>1, <3>1, BodyType, EntryBlockIsFirst
    <3> QED BY <3>1 DEF BlocksOf, Blocks
  <2> QED BY <2>2, <2>3, NoneAssumption
<1> QED BY <1>3, <1>4, <1>5 DEF NamesTell

LEMMA BuiltInGraph == IsBuilt => InGraph
<1> SUFFICES ASSUME IInv, Complete, phase = "built" PROVE InGraph
  BY DEF IsBuilt
<1>1. /\ Len(functions) = module.functions /\ Len(module.body) \in Nat
      /\ IsVector(functions) /\ IsVector(basicBlocks) /\ IsVector(edges)
  BY Known DEF IInv, FunctionsKnown, BlocksKnown, EdgesKnown
<1>2. Len(basicBlocks) = Len(module.body)
  <2>1. Len(basicBlocks) \in Nat /\ Len(basicBlocks) <= Len(module.body)
    BY <1>1, VectorDomain DEF IInv, BlocksKnown
  <2>2. \A b \in Blocks(module) : b <= Len(basicBlocks)
    BY DEF IInv, BlocksKnown
  <2>3. Len(module.body) > 0 => Len(module.body) \in Blocks(module)
    BY <1>1 DEF Blocks
  <2> QED BY <1>1, <2>1, <2>2, <2>3
<1>3. LookupKnown
  BY DEF Complete
<1>4. Looked = 1..Len(edges)
  BY DEF Looked
<1>5. Len(edges) \in Nat
  BY <1>1, VectorDomain
<1>6. ASSUME NEW x \in DOMAIN cfgEdgeIds
      PROVE  cfgEdgeIds[x] + 1 \in Counted /\ cfgEdgeIds[x] \in Nat
  <2>1. PICK k \in LookedOfKind("control_flow") : x = CfgEdgeKey(edges[k])
    BY <1>3 DEF LookupKnown
  <2>2. PICK j \in LookedOfKind("control_flow") : cfgEdgeIds[x] = j - 1
    BY <1>3, <2>1 DEF LookupKnown
  <2>3. j \in 1..Len(edges) /\ edges[j].kind = "control_flow"
    BY <1>4, <2>2 DEF LookedOfKind
  <2>4. j \in Counted
    BY <2>3 DEF Counted
  <2> QED BY <1>5, <2>2, <2>3, <2>4
<1>7. ASSUME NEW x \in DOMAIN callEdgeIds
      PROVE  callEdgeIds[x] + 1 \in Counted /\ callEdgeIds[x] \in Nat
  <2>1. PICK k \in LookedOfKind("call") : x = CallEdgeKey(edges[k])
    BY <1>3 DEF LookupKnown
  <2>2. PICK j \in LookedOfKind("call") : callEdgeIds[x] = j - 1
    BY <1>3, <2>1 DEF LookupKnown
  <2>3. j \in 1..Len(edges) /\ edges[j].kind = "call"
    BY <1>4, <2>2 DEF LookedOfKind
  <2>4. j \in Counted
    BY <2>3 DEF Counted
  <2> QED BY <1>5, <2>2, <2>3, <2>4
<1>8. NamesTell
  BY BuiltNamesTell
<1> QED BY <1>1, <1>2, <1>6, <1>7, <1>8 DEF InGraph

LEMMA BuiltInGraphNext == IsBuilt' => InGraph'
BY BuiltInGraph, PTL

\* The injection leaves the graph alone.
LEMMA GraphStays ==
  ASSUME UNCHANGED <<module, cursor, graphVars, idVars, infoVars>>
  PROVE  /\ module' = module /\ Counted' = Counted /\ (InGraph => InGraph')
         /\ KnownLogs' = KnownLogs /\ KnownItems' = KnownItems
         /\ functionIds' = functionIds /\ basicBlockIds' = basicBlockIds
         /\ callEdgeIds' = callEdgeIds /\ cfgEdgeIds' = cfgEdgeIds
         /\ instructionNodeIds' = instructionNodeIds
<1>1. /\ module' = module /\ edges' = edges /\ functions' = functions
      /\ basicBlocks' = basicBlocks /\ functionIds' = functionIds
      /\ basicBlockIds' = basicBlockIds /\ instructionNodeIds' = instructionNodeIds
      /\ callEdgeIds' = callEdgeIds /\ cfgEdgeIds' = cfgEdgeIds
  BY DEF graphVars, idVars, infoVars
<1>2. Counted' = Counted
  BY <1>1 DEF Counted
<1>3. \A event : IdsOf(event)' = IdsOf(event)
  BY <1>1, <1>2 DEF IdsOf
<1>4. KnownLogs' = KnownLogs
  BY <1>3 DEF KnownLogs
<1>5. NamesTell => NamesTell'
  <2>1. \A b, k : CfgKey(b, k)' = CfgKey(b, k)
    BY <1>1 DEF CfgKey
  <2> QED BY <1>1, <2>1 DEF NamesTell
<1> QED BY <1>1, <1>2, <1>4, <1>5 DEF InGraph, KnownItems

\* Logs of the graph's elements are known.
LEMMA LogsAreKnown ==
  ASSUME WellFormed(module)
  PROVE  /\ \A f \in Functions(module) : Log("func_enter", f - 1) \in KnownLogs
         /\ \A b \in Blocks(module) : Log("bb_enter", b - 1) \in KnownLogs
         /\ \A id \in Int : id + 1 \in Counted =>
              Log("call_edge", id) \in KnownLogs /\ Log("cfg_edge", id) \in KnownLogs
<1>1. module.functions \in Nat /\ Len(module.body) \in Nat
  BY BodyType, EdgeParts DEF WellFormed
<1>2. \A event \in {"func_enter", "bb_enter", "call_edge", "cfg_edge"} : \A id \in Int :
        id \in IdsOf(event) => Log(event, id) \in KnownLogs
  BY DEF Log, KnownLogs, LogItems
<1>3. \A f \in Functions(module) : f - 1 \in Int /\ f - 1 \in IdsOf("func_enter")
  BY <1>1 DEF IdsOf, Functions
<1>4. \A b \in Blocks(module) : b - 1 \in Int /\ b - 1 \in IdsOf("bb_enter")
  BY <1>1 DEF IdsOf, Blocks
<1>5. ASSUME NEW id \in Int, id + 1 \in Counted
      PROVE  id \in IdsOf("call_edge") /\ id \in IdsOf("cfg_edge")
  <2>1. id = (id + 1) - 1
    OBVIOUS
  <2> QED BY <1>5, <2>1 DEF IdsOf
<1> QED BY <1>2, <1>3, <1>4, <1>5

LEMMA BuildKeepsCode == InjectInv /\ CodeInv /\ Build => CodeInv'
<1> SUFFICES ASSUME InjectInv, CodeInv, Build PROVE CodeInv'
  OBVIOUS
<1>1. InjectInv' /\ BuilderNext /\ code' = code
  BY BuildKeeps DEF Build, injectVars
<1>2. phase \in DOMAIN NextPhase /\ phase' \in Early /\ module' = module
  <2>1. phase \in DOMAIN NextPhase
    BY <1>1, PhaseSets
       DEF BuilderNext, RegisterFunctionsAndBasicBlocks, RegisterInstructionNodes,
           RegisterInstructionSequenceEdges, RegisterControlFlowEdges,
           RegisterDataFlowAndCallEdges, PopulateBuildInfo, EndOfPhase, Round
  <2>2. phase' = phase \/ phase' = NextPhase[phase]
    BY <1>1
       DEF BuilderNext, RegisterFunctionsAndBasicBlocks, RegisterInstructionNodes,
           RegisterInstructionSequenceEdges, RegisterControlFlowEdges,
           RegisterDataFlowAndCallEdges, PopulateBuildInfo, EndOfPhase, Round
  <2>3. module' = module
    BY <1>1
       DEF BuilderNext, RegisterFunctionsAndBasicBlocks, RegisterInstructionNodes,
           RegisterInstructionSequenceEdges, RegisterControlFlowEdges,
           RegisterDataFlowAndCallEdges, PopulateBuildInfo, EndOfPhase
  <2>4. \A ph \in DOMAIN NextPhase : NextPhase[ph] \in Early
    BY PhaseSets DEF NextPhase
  <2> QED BY <2>1, <2>2, <2>3, <2>4, PhaseSets
<1>3. code' = [b \in Blocks(module) |-> BodyOf(module, b)]
  BY <1>1, <1>2, PhaseSets DEF CodeInv
<1>4. phase' \notin DOMAIN NextPhase => InGraph'
  <2> SUFFICES ASSUME phase' \notin DOMAIN NextPhase PROVE InGraph'
    OBVIOUS
  <2>1. phase' = "built" /\ IInv' /\ Complete'
    BY <1>1, <1>2, PhaseSets DEF InjectInv, Stages
  <2> QED BY <2>1, BuiltInGraphNext DEF IsBuilt
<1>5. DOMAIN NextPhase = (DOMAIN NextPhase)' /\ Early' = Early /\ CallsLogged' = CallsLogged
  BY DEF NextPhase, Early, CallsLogged
<1> QED BY <1>2, <1>3, <1>4, <1>5, PhaseSets DEF CodeInv


------------------------------------------------------------------------------
(***************************************************************************)
(* The steps of the injection.                                             *)
(***************************************************************************)
LEMMA PartOfInterval ==
  ASSUME NEW n \in Nat, NEW K, K \subseteq 1..n
  PROVE  Cardinality(K) \in 0..n
<1>1. IsFiniteSet(1..n) /\ Cardinality(1..n) = IF 1 > n THEN 0 ELSE n - 1 + 1
  BY FS_Interval
<1>2. (IF 1 > n THEN 0 ELSE n - 1 + 1) = n
  OBVIOUS
<1>3. Cardinality(1..n) = n
  BY <1>1, <1>2
<1>4. IsFiniteSet(K) /\ Cardinality(K) <= n /\ Cardinality(K) \in Nat
  BY <1>1, <1>3, FS_Subset, FS_CardinalityType
<1> QED BY <1>4

LEMMA InsertionPointWithin ==
  ASSUME NEW S, NEW v \in Seq(S)
  PROVE  EntryInsertionPoint(v) \in 0..Len(v)
<1> DEFINE K == {k \in DOMAIN v : OpOf(v[k]) \in {"phi", "landingpad"}}
<1>1. K \subseteq 1..Len(v) /\ Len(v) \in Nat
  OBVIOUS
<1> HIDE DEF K
<1>2. Cardinality(K) \in 0..Len(v)
  BY <1>1, PartOfInterval
<1> QED BY <1>2 DEF K, EntryInsertionPoint

LEMMA BodyItems ==
  ASSUME WellFormed(module), NEW b \in Blocks(module)
  PROVE  /\ BodyOf(module, b) \in Seq(OriginalItems(module)) /\ BodyOf(module, b) # <<>>
         /\ Len(BodyOf(module, b)) = Len(module.body[b]) /\ Len(module.body[b]) \in Nat \ {0}
         /\ \A k \in 1..Len(module.body[b]) : /\ BodyOf(module, b)[k] = Original(b, k)
                                              /\ <<b, k>> \in Pointers(module)
<1>1. PICK n, v : n = Len(module.body[b]) /\ v = BodyOf(module, b)
  OBVIOUS
<1>2. n \in Nat \ {0} /\ DOMAIN module.body[b] = 1..n
  <2>1. PICK w : w = module.body[b]
    OBVIOUS
  <2>2. w \in Seq(Instructions(module)) /\ w # <<>>
    BY <2>1, BodyType DEF WellFormed
  <2> QED BY <1>1, <2>1, <2>2
<1>3. v = [k \in 1..n |-> Original(b, k)]
  BY <1>1, <1>2 DEF BodyOf
<1>4. \A k \in 1..n : <<b, k>> \in Pointers(module)
  BY <1>1 DEF Pointers
<1>5. \A k \in 1..n : Original(b, k) \in OriginalItems(module)
  <2> SUFFICES ASSUME NEW k \in 1..n PROVE Original(b, k) \in OriginalItems(module)
    OBVIOUS
  <2>1. PICK p \in Pointers(module) : p = <<b, k>>
    BY <1>4
  <2> QED BY <2>1 DEF OriginalItems
<1>6. v \in Seq(OriginalItems(module)) /\ Len(v) = n /\ v # <<>>
  BY <1>2, <1>3, <1>5
<1> QED BY <1>1, <1>2, <1>3, <1>4, <1>6

\* The first thing in the block of an entry is the log of the function.
LEMMA EntryKeepsCode == InjectInv /\ CodeInv /\ InjectEntryLogs => CodeInv'
<1> SUFFICES ASSUME InjectInv, CodeInv, InjectEntryLogs PROVE CodeInv'
  OBVIOUS
<1>1. /\ phase = "built" /\ phase' = "entry_logged"
      /\ UNCHANGED <<module, cursor, graphVars, idVars, infoVars>>
  BY DEF InjectEntryLogs, InjectStage
<1>2. /\ module' = module /\ KnownItems' = KnownItems /\ (InGraph => InGraph')
  BY <1>1, GraphStays
<1>3. Stages /\ IInv /\ Complete /\ module \in Modules /\ WellFormed(module) /\ Executable(module)
  BY <1>1, Phases, BuilderAssumption, RunAssumption DEF InjectInv, Stages
<1>4. Ready /\ InGraph /\ code = [b \in Blocks(module) |-> BodyOf(module, b)]
  BY <1>1, <1>3, ReadyWhenBuilt, PhaseSets DEF CodeInv
<1>5. PICK S : S = KnownItems
  OBVIOUS
<1>6. OriginalItems(module) \subseteq S /\ KnownLogs \subseteq S
  BY <1>5 DEF KnownItems
<1>7. ASSUME NEW b \in Blocks(module)
      PROVE  /\ code'[b] \in Seq(S)
             /\ IsEntryBlock(module, b) => LogsFirst(code'[b], module.function_of[b])
  <2>1. PICK v, at, f, e :
          /\ v = code[b] /\ at = EntryInsertionPoint(v)
          /\ f = (IF IsEntryBlock(module, b)
                  THEN <<Log("func_enter", functionIds[module.function_of[b]])>> ELSE <<>>)
          /\ e = <<Log("bb_enter", basicBlockIds[b])>>
    OBVIOUS
  <2>2. code'[b] = Join(Join(Join(SubSeq(v, 1, at), f), e), SubSeq(v, at + 1, Len(v)))
    <3>1. b \in DOMAIN code
      BY <1>4
    <3> QED BY <2>1, <3>1 DEF InjectEntryLogs, Join
  <2>3. v = BodyOf(module, b) /\ v \in Seq(OriginalItems(module))
    BY <1>3, <1>4, <2>1, BodyItems
  <2>4. v \in Seq(S)
    BY <1>6, <2>3
  <2>5. module.function_of[b] \in Functions(module)
    BY <1>3, BodyType
  <2>6. PICK l, k : l = Log("func_enter", module.function_of[b] - 1) /\ k = Log("bb_enter", b - 1)
    OBVIOUS
  <2>7. /\ l \in S /\ k \in S /\ e = <<k>>
        /\ f = IF IsEntryBlock(module, b) THEN <<l>> ELSE <<>>
    <3>1. functionIds[module.function_of[b]] = module.function_of[b] - 1 /\ basicBlockIds[b] = b - 1
      BY <1>4, <2>5 DEF Ready
    <3>2. l \in KnownLogs /\ k \in KnownLogs
      BY <1>3, <2>5, <2>6, LogsAreKnown
    <3> QED BY <1>6, <2>1, <2>6, <3>1, <3>2
  <2>8. f \in Seq(S) /\ e \in Seq(S)
    BY <2>7
  <2>9. at \in 0..Len(v) /\ Len(v) \in Nat
    BY <2>1, <2>4, InsertionPointWithin
  <2>10. PICK x, y : x = SubSeq(v, 1, at) /\ y = SubSeq(v, at + 1, Len(v))
    OBVIOUS
  <2>11. x \in Seq(S) /\ y \in Seq(S) /\ Len(x) = at
    BY <2>4, <2>9, <2>10, JoinCut
  <2>12. code'[b] \in Seq(S)
    <3>1. \A u, w \in Seq(S) : Join(u, w) \in Seq(S)
      BY JoinType
    <3>2. Join(x, f) \in Seq(S)
      BY <2>8, <2>11, <3>1
    <3>3. Join(Join(x, f), e) \in Seq(S)
      BY <2>8, <3>1, <3>2
    <3> QED BY <2>2, <2>10, <2>11, <3>1, <3>3
  <2>13. ASSUME IsEntryBlock(module, b) PROVE LogsFirst(code'[b], module.function_of[b])
    <3>1. {j \in DOMAIN v : OpOf(v[j]) \in {"phi", "landingpad"}} = {}
      <4>1. DOMAIN v = 1..Len(module.body[b])
        BY <1>3, <2>3, BodyItems
      <4>2. ASSUME NEW j \in 1..Len(module.body[b]) PROVE OpOf(v[j]) \notin {"phi", "landingpad"}
        <5>1. v[j] = Original(b, j)
          BY <1>3, <2>3, BodyItems
        <5>2. OpOf(v[j]) = module.body[b][j].op
          BY <5>1, OriginalFields DEF OpOf, Instr
        <5> QED BY <1>3, <2>13, <5>2 DEF Executable
      <4> QED BY <4>1, <4>2
    <3>2. at = 0
      BY <2>1, <3>1, FS_EmptySet DEF EntryInsertionPoint
    <3>3. x = <<>>
      BY <2>11, <3>2
    <3>4. PICK fe : fe = Join(f, e)
      OBVIOUS
    <3>5. fe \in Seq(S) /\ Len(fe) = 2 /\ fe[1] = l
      BY <2>7, <2>13, <3>4 DEF Join
    <3>6. code'[b] = Join(fe, y)
      <4>1. Join(x, f) = f
        BY <2>8, <3>3, JoinEmpty
      <4> QED BY <2>2, <2>10, <3>4, <4>1
    <3>7. IsJoin(S, fe, y, code'[b])
      BY <2>11, <3>5, <3>6 DEF IsJoin
    <3>8. 1 \in 1..Len(code'[b]) /\ code'[b][1] = fe[1]
      <4>1. 1 \in 1..Len(fe)
        BY <3>5
      <4> QED BY <3>7, <4>1, JoinParts
    <3>9. code'[b] # <<>>
      BY <2>12, <3>8
    <3> QED BY <2>6, <3>5, <3>8, <3>9 DEF LogsFirst
  <2> QED BY <2>12, <2>13
<1>8. DOMAIN code' = Blocks(module)
  BY <1>4 DEF InjectEntryLogs
<1>9. \A c \in DOMAIN code' : code'[c] \in Seq(KnownItems')
  BY <1>2, <1>5, <1>7, <1>8
<1>10. StartsWithLog'
  <2> SUFFICES ASSUME NEW f \in Functions(module), ~ IsDeclaration(module, f)
               PROVE  LogsFirst(code'[EntryBlock(module, f)], f)
    BY <1>2 DEF StartsWithLog
  <2>1. PICK b \in Blocks(module) : /\ b = EntryBlock(module, f) /\ IsEntryBlock(module, b)
                                    /\ module.function_of[b] = f
    <3>1. Len(module.body) \in Nat
      BY <1>3, EdgeParts
    <3>2. PICK b : b = EntryBlock(module, f)
      OBVIOUS
    <3>3. b \in BlocksOf(module, f) /\ \A c \in BlocksOf(module, f) : b <= c
      BY <3>1, <3>2, EntryBlockIsFirst
    <3>4. b \in Blocks(module) /\ module.function_of[b] = f
      BY <3>3 DEF BlocksOf
    <3>5. IsEntryBlock(module, b)
      BY <3>3, <3>4 DEF IsEntryBlock
    <3> QED BY <3>2, <3>4, <3>5
  <2> QED BY <1>7, <2>1
<1>11. phase' \notin Early' /\ phase' \notin (DOMAIN NextPhase)'
  BY <1>1, PhaseSets DEF Early, NextPhase
<1> QED BY <1>2, <1>4, <1>9, <1>10, <1>11 DEF CodeInv


LEMMA AbortKeepsCode == InjectInv /\ CodeInv /\ AbortInjection => CodeInv'
<1> SUFFICES ASSUME CodeInv, AbortInjection PROVE CodeInv'
  OBVIOUS
<1>1. /\ phase = "entry_logged" /\ phase' = "aborted" /\ code' = code
      /\ UNCHANGED <<module, cursor, graphVars, idVars, infoVars>>
  BY DEF AbortInjection, InjectStage, injectVars
<1>2. /\ module' = module /\ KnownItems' = KnownItems /\ (InGraph => InGraph')
  BY <1>1, GraphStays
<1>3. /\ phase \notin Early /\ phase \notin DOMAIN NextPhase
      /\ phase' \notin Early' /\ phase' \notin (DOMAIN NextPhase)'
      /\ phase' \notin {"entry_logged"} \cup CallsLogged'
  BY <1>1, PhaseSets DEF Early, NextPhase, CallsLogged
<1> QED BY <1>1, <1>2, <1>3 DEF CodeInv

\* Whatever starts with the log of a function goes on doing so.
LEMMA StageKeepsCode ==
  ASSUME CodeInv, phase \in CallsLogged, phase' \in CallsLogged, code' = code,
         UNCHANGED <<module, cursor, graphVars, idVars, infoVars>>
  PROVE  CodeInv'
<1>1. /\ module' = module /\ KnownItems' = KnownItems /\ (InGraph => InGraph')
  BY GraphStays
<1>2. /\ phase \notin Early /\ phase \notin DOMAIN NextPhase
      /\ phase' \notin Early' /\ phase' \notin (DOMAIN NextPhase)'
  BY PhaseSets DEF Early, NextPhase
<1>3. StartsWithLog => StartsWithLog'
  BY <1>1 DEF StartsWithLog
<1> QED BY <1>1, <1>2, <1>3 DEF CodeInv

LEMMA CollectKeepsCode == InjectInv /\ CodeInv /\ CollectOriginalCfgEdges => CodeInv'
<1> SUFFICES ASSUME CodeInv, CollectOriginalCfgEdges PROVE CodeInv'
  OBVIOUS
<1>1. /\ phase = "calls_logged" /\ phase' = "splitting" /\ code' = code
      /\ UNCHANGED <<module, cursor, graphVars, idVars, infoVars>>
  BY DEF CollectOriginalCfgEdges, InjectStage
<1> QED BY <1>1, PhaseSets, StageKeepsCode

LEMMA EndKeepsCode == InjectInv /\ CodeInv /\ EndOfInjection => CodeInv'
<1> SUFFICES ASSUME CodeInv, EndOfInjection PROVE CodeInv'
  OBVIOUS
<1>1. /\ phase = "splitting" /\ phase' = "injected" /\ code' = code
      /\ UNCHANGED <<module, cursor, graphVars, idVars, infoVars>>
  BY DEF EndOfInjection, InjectStage, injectVars
<1> QED BY <1>1, PhaseSets, StageKeepsCode

\* A sequence that is not empty is its first element and the rest.
LEMMA FirstApart ==
  ASSUME NEW S, NEW v \in Seq(S), v # <<>>
  PROVE  \E w \in Seq(S) : v = Join(<<v[1]>>, w)
<1>1. IsPlaceIn(v, 1) /\ Len(v) >= 1
  BY DEF IsPlaceIn
<1>2. PICK a, c \in Seq(S) : IsCut(v, 1, a, c)
  BY <1>1, CutAt
<1>3. Len(a) = 1 /\ a[1] = v[1] /\ v = Join(a, c)
  BY <1>2 DEF IsCut
<1>4. a = <<v[1]>>
  BY <1>3
<1> QED BY <1>3, <1>4

LEMMA FrontLast ==
  ASSUME NEW S, NEW v \in Seq(S), v # <<>>
  PROVE  /\ Front(v) \in Seq(S) /\ Last(v) \in S /\ Len(Front(v)) = Len(v) - 1
         /\ Len(v) \in Nat /\ Len(v) >= 1 /\ Last(v) = v[Len(v)]
         /\ \A j \in 1..(Len(v) - 1) : Front(v)[j] = v[j]
<1>1. Len(v) \in Nat /\ Len(v) >= 1 /\ Last(v) = v[Len(v)] /\ Last(v) \in S
  BY DEF Last
<1>2. PICK n : n = Len(v) - 1
  OBVIOUS
<1>3. n \in 0..Len(v)
  BY <1>1, <1>2
<1>4. /\ SubSeq(v, 1, n) \in Seq(S) /\ Len(SubSeq(v, 1, n)) = n
      /\ \A i \in 1..n : SubSeq(v, 1, n)[i] = v[i]
  BY <1>3, JoinCut
<1>5. Front(v) = SubSeq(v, 1, n)
  BY <1>2 DEF Front
<1> QED BY <1>1, <1>2, <1>4, <1>5

LEMMA FirstOfJoin ==
  ASSUME NEW S, NEW x \in S, NEW w \in Seq(S), NEW v, v = Join(<<x>>, w)
  PROVE  v \in Seq(S) /\ v # <<>> /\ v[1] = x
BY DEF Join

LEMMA CallKeepsCode == InjectInv /\ CodeInv /\ InjectCallEdgeLogs => CodeInv'
<1> SUFFICES ASSUME InjectInv, CodeInv, InjectCallEdgeLogs PROVE CodeInv'
  OBVIOUS
<1>1. /\ phase = "entry_logged" /\ phase' = "calls_logged"
      /\ UNCHANGED <<module, cursor, graphVars, idVars, infoVars>>
      /\ code' = [b \in DOMAIN code |-> Cat([k \in DOMAIN code[b] |-> LogThenCall(code[b][k])])]
  BY DEF InjectCallEdgeLogs, InjectStage
<1>2. /\ module' = module /\ KnownItems' = KnownItems /\ (InGraph => InGraph')
  BY <1>1, GraphStays
<1>3. /\ phase \notin Early /\ phase \notin DOMAIN NextPhase
      /\ phase' \notin Early' /\ phase' \notin (DOMAIN NextPhase)'
  BY <1>1, PhaseSets DEF Early, NextPhase
<1>4. /\ InGraph /\ StartsWithLog /\ \A c \in DOMAIN code : code[c] \in Seq(KnownItems)
      /\ WellFormed(module)
  BY <1>1, <1>3, BuilderAssumption DEF CodeInv, InjectInv, Stages
<1>5. PICK S, g : S = KnownItems /\ g = [x \in S |-> LogThenCall(x)]
  OBVIOUS
<1>6. ASSUME NEW x \in S PROVE g[x] \in Seq(S)
  <2>1. CASE CallsDefinedFunction(x) /\ KeyOfCall(x) \in DOMAIN callEdgeIds
    <3>1. PICK id : id = callEdgeIds[KeyOfCall(x)]
      OBVIOUS
    <3>2. id + 1 \in Counted /\ id \in Int
      BY <1>4, <2>1, <3>1 DEF InGraph
    <3>3. Log("call_edge", id) \in S
      BY <1>4, <1>5, <3>2, LogsAreKnown DEF KnownItems
    <3>4. g[x] = <<Log("call_edge", id), x>>
      BY <1>5, <2>1, <3>1 DEF LogThenCall
    <3> QED BY <3>3, <3>4
  <2>2. CASE ~ (CallsDefinedFunction(x) /\ KeyOfCall(x) \in DOMAIN callEdgeIds)
    <3>1. g[x] = <<x>>
      BY <1>5, <2>2 DEF LogThenCall
    <3> QED BY <3>1
  <2> QED BY <2>1, <2>2
<1>7. IsRule(g, S, S)
  BY <1>5, <1>6 DEF IsRule
<1>8. ASSUME NEW c \in DOMAIN code PROVE code'[c] = Spread(code[c], g) /\ code[c] \in Seq(S)
  <2>1. PICK v : v = code[c]
    OBVIOUS
  <2>2. v \in Seq(S)
    BY <1>4, <1>5, <2>1
  <2>3. [k \in DOMAIN v |-> LogThenCall(v[k])] = [k \in DOMAIN v |-> g[v[k]]]
    <3>1. \A k \in DOMAIN v : v[k] \in S
      BY <2>2
    <3> QED BY <1>5, <3>1
  <2> QED BY <1>1, <2>1, <2>2, <2>3 DEF Spread, Cat
<1>9. \A c \in DOMAIN code' : code'[c] \in Seq(KnownItems')
  <2>1. \A c \in DOMAIN code : code'[c] \in Seq(S)
    BY <1>7, <1>8, SpreadType
  <2>2. DOMAIN code' = DOMAIN code
    BY <1>1
  <2> QED BY <1>2, <1>5, <2>1, <2>2
<1>10. StartsWithLog'
  <2> SUFFICES ASSUME NEW f \in Functions(module), ~ IsDeclaration(module, f)
               PROVE  LogsFirst(code'[EntryBlock(module, f)], f)
    BY <1>2 DEF StartsWithLog
  <2>1. PICK b, v, x : b = EntryBlock(module, f) /\ v = code[b] /\ x = Log("func_enter", f - 1)
    OBVIOUS
  <2>2. v # <<>> /\ v[1] = x
    BY <1>4, <2>1 DEF StartsWithLog, LogsFirst
  <2>3. b \in DOMAIN code
    <3>1. Len(module.body) \in Nat
      BY <1>4, EdgeParts
    <3>2. b \in Blocks(module)
      BY <2>1, <3>1, EntryBlockIsFirst DEF BlocksOf
    <3> QED BY <3>2, NowSplit, Numbers
  <2>4. v \in Seq(S) /\ code'[b] = Spread(v, g)
    BY <1>8, <2>1, <2>3
  <2>5. PICK w \in Seq(S) : v = Join(<<x>>, w)
    BY <2>2, <2>4, FirstApart
  <2>6. x \in S
    BY <2>2, <2>4
  <2>7. Spread(v, g) = Join(Spread(<<x>>, g), Spread(w, g))
    <3>1. <<x>> \in Seq(S)
      BY <2>6
    <3>2. \A u, z \in Seq(S) : Spread(Join(u, z), g) = Join(Spread(u, g), Spread(z, g))
      BY <1>7, SpreadOfJoin
    <3> QED BY <2>5, <3>1, <3>2
  <2>8. g[x] = <<x>>
    <3>1. ~ IsOriginal(x) /\ ~ HasNoNode(x)
      <4>1. ~ IsOriginal(x)
        BY <2>1, LogFields DEF IsOriginal
      <4>2. 1 \in DOMAIN v
        BY <2>2, <2>4
      <4>3. HasNoNode(x) => InjectionThrows
        BY <2>1, <2>2, <2>3, <4>2 DEF InjectionThrows
      <4> QED BY <4>1, <4>3 DEF InjectCallEdgeLogs
    <3>2. ~ CallsDefinedFunction(x)
      BY <3>1 DEF HasNoNode, NodeIdOf
    <3> QED BY <1>5, <2>6, <3>2 DEF LogThenCall
  <2>9. Spread(<<x>>, g) = <<x>> /\ Spread(w, g) \in Seq(S)
    BY <1>7, <2>6, <2>8, SpreadOne, SpreadType
  <2>10. code'[b] = Join(<<x>>, Spread(w, g))
    BY <2>4, <2>7, <2>9
  <2> QED BY <2>1, <2>6, <2>9, <2>10, FirstOfJoin DEF LogsFirst
<1> QED BY <1>2, <1>3, <1>4, <1>9, <1>10 DEF CodeInv


\* The split of an edge in code v: w is the log of the edge or what goes with it.
LEMMA SplitKeepsCode == InjectInv /\ CodeInv /\ InjectControlFlowEdgeLog => CodeInv'
<1> SUFFICES ASSUME InjectInv, CodeInv, InjectControlFlowEdgeLog PROVE CodeInv'
  OBVIOUS
<1>1. /\ phase = "splitting" /\ splits # <<>> /\ UNCHANGED builderVars
      /\ phase' = phase /\ UNCHANGED <<module, cursor, graphVars, idVars, infoVars>>
  BY DEF InjectControlFlowEdgeLog, builderVars
<1>2. /\ module' = module /\ KnownItems' = KnownItems /\ (InGraph => InGraph')
  BY <1>1, GraphStays
<1>3. /\ phase \notin Early /\ phase \notin DOMAIN NextPhase /\ phase \in CallsLogged
      /\ phase' \notin Early' /\ phase' \notin (DOMAIN NextPhase)'
  BY <1>1, PhaseSets DEF Early, NextPhase
<1>4. /\ InGraph /\ StartsWithLog /\ \A c \in DOMAIN code : code[c] \in Seq(KnownItems)
      /\ WellFormed(module) /\ InjectTypeOK
  BY <1>1, <1>3, NowSplit, TypesHold DEF CodeInv
<1>5. /\ IsVector(code) /\ IsVector(succs) /\ Len(code) = Len(succs)
      /\ \A b \in Blocks(module) : b \in DOMAIN code
      /\ splits \in Seq(LoggedEdges)
  <2>1. PICK heads, mids, done, new :
          /\ IsSplit(module, CfgLogOf, heads, mids, done, new, code, succs)
          /\ Described(heads, mids, done, new)
    BY NowSplit
  <2>2. \A b \in Blocks(module) : b \in DOMAIN code
    BY <2>1, Numbers
  <2>3. phase \in Splitting
    BY <1>1 DEF Splitting
  <2>4. SplitsIn(phase, done, splits, LoggedEdges)
    BY <2>1 DEF Described
  <2>5. splits \in Seq(LoggedEdges)
    BY <2>3, <2>4 DEF SplitsIn
  <2> QED BY <2>1, <2>2, <2>5 DEF IsSplit, Changed
<1>6. PICK S, e, s, k, t, log :
        /\ S = KnownItems /\ e = Head(splits) /\ s = e[1] /\ k = e[2]
        /\ t = Successors(module, s)[k] /\ log = Log("cfg_edge", cfgEdgeIds[CfgKey(s, k)])
  OBVIOUS
<1>7. e \in CfgEdges(module) /\ IsLogged(e)
  <2>1. e \in LoggedEdges
    BY <1>1, <1>5, <1>6
  <2> QED BY <2>1 DEF LoggedEdges
<1>8. log \in S /\ Goto \in S
  <2>1. CfgKey(s, k) \in DOMAIN cfgEdgeIds
    BY <1>6, <1>7 DEF IsLogged
  <2>2. PICK id : id = cfgEdgeIds[CfgKey(s, k)]
    OBVIOUS
  <2>3. id + 1 \in Counted /\ id \in Int
    BY <1>4, <2>1, <2>2 DEF InGraph
  <2> QED BY <1>4, <1>6, <2>2, <2>3, LogsAreKnown DEF KnownItems
<1>9. /\ s \in Blocks(module) /\ t \in Blocks(module) /\ ~ IsEntryBlock(module, t)
      /\ s \in DOMAIN code /\ t \in DOMAIN code
  <2>1. s \in Blocks(module) /\ k \in 1..Len(Successors(module, s)) /\ t \in Blocks(module)
    BY <1>4, <1>6, <1>7, EdgeParts
  <2>2. ~ IsEntryBlock(module, t)
    BY <1>4, <1>6, <2>1 DEF WellFormed
  <2> QED BY <1>5, <2>1, <2>2
<1> DEFINE Good(x, y, i) ==
             /\ code' = Append([code EXCEPT ![i] = x], y) /\ i \in DOMAIN code
             /\ x \in Seq(S) /\ y \in Seq(S)
             /\ \A f \in Functions(module) : ~ IsDeclaration(module, f) =>
                  (i = EntryBlock(module, f) => LogsFirst(x, f))
<1>10. ASSUME NEW x, NEW y, NEW i, Good(x, y, i) PROVE CodeInv'
  <2>1. IsGrown(code, i, x, y, code')
    <3>1. DOMAIN code = 1..Len(code)
      BY <1>5, VectorDomain
    <3> QED BY <1>5, <1>10, <3>1 DEF IsGrown
  <2>2. /\ IsVector(code') /\ Len(code') = Len(code) + 1 /\ Len(code) \in Nat
        /\ code'[i] = x /\ code'[Len(code) + 1] = y
        /\ \A c \in 1..Len(code) : c # i => code'[c] = code[c]
    BY <2>1, Growing
  <2>3. DOMAIN code' = 1..(Len(code) + 1) /\ DOMAIN code = 1..Len(code)
    BY <1>5, <2>2, VectorDomain
  <2>4. ASSUME NEW c \in DOMAIN code' PROVE code'[c] \in Seq(KnownItems')
    <3>1. c \in 1..Len(code) \/ c = Len(code) + 1
      BY <2>2, <2>3
    <3> QED BY <1>2, <1>4, <1>6, <1>10, <2>2, <2>3, <3>1
  <2>5. StartsWithLog'
    <3> SUFFICES ASSUME NEW f \in Functions(module), ~ IsDeclaration(module, f)
                 PROVE  LogsFirst(code'[EntryBlock(module, f)], f)
      BY <1>2 DEF StartsWithLog
    <3>1. PICK b : b = EntryBlock(module, f)
      OBVIOUS
    <3>2. b \in 1..Len(code)
      <4>1. Len(module.body) \in Nat
        BY <1>4, EdgeParts
      <4>2. b \in Blocks(module)
        BY <3>1, <4>1, EntryBlockIsFirst DEF BlocksOf
      <4> QED BY <1>5, <2>3, <4>2
    <3>3. LogsFirst(code[b], f)
      BY <1>4, <3>1 DEF StartsWithLog
    <3> QED BY <1>10, <2>2, <3>1, <3>2, <3>3
  <2> QED BY <1>2, <1>3, <1>4, <2>4, <2>5 DEF CodeInv
<1>11. CASE SplitsAfterSource(s, t)
  <2>1. PICK v, x, y : v = code[s] /\ x = Append(Front(v), Goto) /\ y = <<log, Last(v)>>
    OBVIOUS
  <2>2. code' = Append([code EXCEPT ![s] = x], y)
    BY <1>6, <1>11, <2>1 DEF InjectControlFlowEdgeLog, SplitAfterSource
  <2>3. v \in Seq(S) /\ v # <<>> /\ \A j \in 1..Len(v) : EndsBlock(v[j]) <=> j = Len(v)
    <3>1. v \in Seq(S)
      BY <1>4, <1>6, <1>9, <2>1
    <3>2. v # <<>> /\ \A j \in DOMAIN v : EndsBlock(v[j]) <=> j = Len(v)
      BY <1>4, <1>9, <2>1, Zenon DEF InjectTypeOK
    <3>3. DOMAIN v = 1..Len(v)
      BY <3>1
    <3> QED BY <3>1, <3>2, <3>3, Zenon
  <2>4. Front(v) \in Seq(S) /\ Last(v) \in S /\ Len(Front(v)) = Len(v) - 1
        /\ \A j \in 1..(Len(v) - 1) : Front(v)[j] = v[j]
    BY <2>3, FrontLast
  <2>5. x \in Seq(S) /\ y \in Seq(S)
    BY <1>8, <2>1, <2>4
  <2>6. ASSUME NEW f \in Functions(module), ~ IsDeclaration(module, f),
               s = EntryBlock(module, f)
        PROVE  LogsFirst(x, f)
    <3>1. v[1] = Log("func_enter", f - 1)
      BY <1>4, <2>1, <2>6 DEF StartsWithLog, LogsFirst
    <3>2. ~ EndsBlock(v[1])
      <4>1. v[1].kind = "log"
        BY <3>1, LogFields
      <4>2. v[1] # Goto /\ ~ IsOriginal(v[1])
        BY <4>1 DEF Goto, IsOriginal
      <4> QED BY <4>2 DEF EndsBlock, OpOf, Terminators
    <3>3. Len(v) >= 2
      BY <2>3, <3>2
    <3>4. x[1] = v[1] /\ x # <<>>
      BY <1>8, <2>1, <2>4, <3>3
    <3> QED BY <3>1, <3>4 DEF LogsFirst
  <2>7. Good(x, y, s)
    BY <1>9, <2>2, <2>5, <2>6
  <2> QED BY <1>10, <2>7
<1>12. CASE ~ SplitsAfterSource(s, t)
  <2>1. PICK v, phis : /\ v = code[t]
                       /\ phis = IF Cardinality(EdgesTo(t)) = 1
                                 THEN Cardinality({j \in DOMAIN code[t] : OpOf(code[t][j]) = "phi"})
                                 ELSE 0
    OBVIOUS
  <2>2. PICK x, y : x = SubSeq(v, phis + 1, Len(v)) /\ y = SubSeq(v, 1, phis) \o <<log, Goto>>
    OBVIOUS
  <2>3. code' = Append([code EXCEPT ![t] = x], y)
    BY <1>6, <1>12, <2>1, <2>2 DEF InjectControlFlowEdgeLog, SplitBeforeTarget
  <2>4. v \in Seq(S)
    BY <1>4, <1>6, <1>9, <2>1
  <2>5. phis \in 0..Len(v)
    <3>1. {j \in DOMAIN v : OpOf(v[j]) = "phi"} \subseteq 1..Len(v) /\ Len(v) \in Nat
      BY <2>4
    <3>2. PICK K : K = {j \in DOMAIN v : OpOf(v[j]) = "phi"}
      OBVIOUS
    <3>3. Cardinality(K) \in 0..Len(v)
      BY <3>1, <3>2, PartOfInterval
    <3> QED BY <2>1, <3>1, <3>2, <3>3
  <2>6. SubSeq(v, 1, phis) \in Seq(S) /\ x \in Seq(S)
    BY <2>2, <2>4, <2>5, JoinCut
  <2>7. y \in Seq(S)
    <3>1. <<log, Goto>> \in Seq(S)
      BY <1>8
    <3> QED BY <2>2, <2>6, <3>1, JoinType DEF Join
  <2>8. \A f \in Functions(module) : ~ IsDeclaration(module, f) => t # EntryBlock(module, f)
    <3> SUFFICES ASSUME NEW f \in Functions(module), ~ IsDeclaration(module, f),
                        t = EntryBlock(module, f)
                 PROVE  FALSE
      OBVIOUS
    <3>1. Len(module.body) \in Nat
      BY <1>4, EdgeParts
    <3>2. t \in BlocksOf(module, f) /\ \A c \in BlocksOf(module, f) : t <= c
      BY <3>1, EntryBlockIsFirst
    <3>3. IsEntryBlock(module, t)
      BY <3>2 DEF BlocksOf, IsEntryBlock
    <3> QED BY <1>9, <3>3
  <2>9. Good(x, y, t)
    BY <1>9, <2>3, <2>6, <2>7, <2>8
  <2> QED BY <1>10, <2>9
<1> QED BY <1>11, <1>12

\* The code that runs: blocks of known items that start with their function's log.
LEMMA CodeInvHolds == InjectSpec => [](InjectInv /\ CodeInv)
<1>1. InjectInit => InjectInv /\ CodeInv
  BY InjectBegins, CodeBegins
<1>2. CodeInv /\ UNCHANGED <<builderVars, injectVars>> => CodeInv'
  <2> SUFFICES ASSUME CodeInv, UNCHANGED <<builderVars, injectVars>> PROVE CodeInv'
    OBVIOUS
  <2>1. /\ phase' = phase /\ code' = code
        /\ UNCHANGED <<module, cursor, graphVars, idVars, infoVars>>
    BY DEF builderVars, injectVars
  <2>2. /\ module' = module /\ KnownItems' = KnownItems /\ (InGraph => InGraph')
    BY <2>1, GraphStays
  <2>3. Early' = Early /\ CallsLogged' = CallsLogged /\ (DOMAIN NextPhase)' = DOMAIN NextPhase
    BY DEF Early, CallsLogged, NextPhase
  <2>4. StartsWithLog => StartsWithLog'
    BY <2>1, <2>2 DEF StartsWithLog
  <2> QED BY <2>1, <2>2, <2>3, <2>4 DEF CodeInv
<1>3. InjectInv /\ CodeInv /\ [InjectNext]_<<builderVars, injectVars>> => CodeInv'
  BY <1>2, BuildKeepsCode, EntryKeepsCode, AbortKeepsCode, CallKeepsCode, CollectKeepsCode,
     SplitKeepsCode, EndKeepsCode DEF InjectNext
<1> QED BY <1>1, <1>3, InjectInvHolds, PTL DEF InjectSpec


------------------------------------------------------------------------------
(***************************************************************************)
(* Places in the changed code.                                             *)
(***************************************************************************)
CodePlaces == UNION {{c} \X (1..Len(code[c])) : c \in DOMAIN code}

\* A block that ends with a terminator of the module leads to as many blocks as
\* that has successors, one that ends with a goto to one.
EndsLinked ==
  \A c \in DOMAIN code :
    /\ DOMAIN succs[c] = 1..Len(succs[c]) /\ Len(succs[c]) \in Nat
    /\ \/ Last(code[c]) = Goto /\ Len(succs[c]) = 1
       \/ \E b \in Blocks(module) : /\ Last(code[c]) = LastOf(module, b)
                                    /\ Len(succs[c]) = Len(Successors(module, b))

LEMMA EndsAreLinked ==
  ASSUME InjectInv
  PROVE  EndsLinked
<1>1. PICK heads, mids, done, new :
        /\ IsSplit(module, CfgLogOf, heads, mids, done, new, code, succs)
        /\ Described(heads, mids, done, new)
  BY NowSplit
<1>2. PICK m, cd, sc, L : m = module /\ cd = code /\ sc = succs /\ L = CfgLogOf
  OBVIOUS
<1>3. IsSplit(m, L, heads, mids, done, new, cd, sc)
  BY <1>1, <1>2
<1>4. /\ WellFormed(m) /\ done \subseteq CfgEdges(m)
      /\ \A b \in Blocks(m) : sc[b] = SuccsNow(m, done, new, b)
      /\ \A e \in done : sc[new[e]] = <<EdgeTarget(m, e)>>
  BY <1>3 DEF IsSplit, Changed
<1>5. \A c \in DOMAIN cd : c \in Blocks(m) \/ \E e \in done : c = new[e]
  BY <1>3, Numbers
<1>6. ASSUME NEW b \in Blocks(m)
      PROVE  /\ Last(cd[b]) = EndOf(m, done, b)
             /\ Len(sc[b]) = Len(Successors(m, b)) /\ Len(sc[b]) \in Nat
             /\ DOMAIN sc[b] = 1..Len(sc[b])
  <2>1. IsEndedBy(Items(m), FrontOf(m, heads, mids, done, b), EndOf(m, done, b), cd[b])
    BY <1>3, BlockEnds
  <2>2. Last(cd[b]) = EndOf(m, done, b)
    BY <2>1, Ending
  <2>3. PICK n \in Nat : n = Len(Successors(m, b))
    BY <1>4, EdgeParts
  <2>4. DOMAIN sc[b] = 1..n /\ sc[b] = [k \in 1..n |-> sc[b][k]]
    BY <1>4, <2>3 DEF SuccsNow
  <2>5. Len(sc[b]) = n
    BY <2>4, VectorIntro
  <2> QED BY <2>2, <2>3, <2>4, <2>5
<1>7. ASSUME NEW e \in done
      PROVE  /\ Last(cd[new[e]]) = EndBetween(m, e)
             /\ Len(sc[new[e]]) = 1 /\ DOMAIN sc[new[e]] = 1..1
             /\ e[1] \in Blocks(m)
  <2>1. IsEndedBy(Items(m), FrontBetween(m, L, heads, e), EndBetween(m, e), cd[new[e]])
    BY <1>3, BlockEnds
  <2>2. Last(cd[new[e]]) = EndBetween(m, e)
    BY <2>1, Ending
  <2>3. e[1] \in Blocks(m)
    BY <1>4, EdgeParts
  <2>4. PICK w, x : w = sc[new[e]] /\ x = EdgeTarget(m, e)
    OBVIOUS
  <2>5. w = <<x>>
    BY <1>4, <2>4
  <2>6. Len(w) = 1 /\ DOMAIN w = 1..1
    BY <2>5
  <2> QED BY <2>2, <2>3, <2>4, <2>6
<1>8. ASSUME NEW c \in DOMAIN cd
      PROVE  /\ DOMAIN sc[c] = 1..Len(sc[c]) /\ Len(sc[c]) \in Nat
             /\ \/ Last(cd[c]) = Goto /\ Len(sc[c]) = 1
                \/ \E b \in Blocks(m) : /\ Last(cd[c]) = LastOf(m, b)
                                        /\ Len(sc[c]) = Len(Successors(m, b))
  <2>1. CASE c \in Blocks(m)
    <3>1. CASE Shifted(m, done, c)
      <4>1. Len(Successors(m, c)) = 1
        BY <3>1 DEF Shifted, Follows
      <4> QED BY <1>6, <2>1, <3>1, <4>1 DEF EndOf
    <3>2. CASE ~ Shifted(m, done, c)
      BY <1>6, <2>1, <3>2 DEF EndOf
    <3> QED BY <3>1, <3>2
  <2>2. CASE \E e \in done : c = new[e]
    <3>1. PICK e \in done : c = new[e]
      BY <2>2
    <3>2. CASE Follows(m, e)
      <4>1. Len(Successors(m, e[1])) = 1
        BY <3>2 DEF Follows
      <4> QED BY <1>7, <3>1, <3>2, <4>1 DEF EndBetween
    <3>3. CASE ~ Follows(m, e)
      BY <1>7, <3>1, <3>3 DEF EndBetween
    <3> QED BY <3>2, <3>3
  <2> QED BY <1>5, <2>1, <2>2
<1> QED BY <1>2, <1>8 DEF EndsLinked

\* The code of a program that runs.
Runnable ==
  /\ WellFormed(module) /\ Executable(module) /\ InjectTypeOK /\ EndsLinked /\ InGraph
  /\ \A c \in DOMAIN code : code[c] \in Seq(KnownItems)
  /\ StartsWithLog
  /\ \A b \in Blocks(module) : b \in DOMAIN code

LEMMA InjectedRuns ==
  ASSUME InjectInv, CodeInv, phase = "injected"
  PROVE  Runnable
<1>1. phase \notin Early /\ phase \notin DOMAIN NextPhase /\ phase \in CallsLogged
  BY PhaseSets
<1>2. WellFormed(module) /\ module \in Modules
  BY NowSplit DEF Stages
<1>3. \A b \in Blocks(module) : b \in DOMAIN code
  BY NowSplit, Numbers
<1> QED BY <1>1, <1>2, <1>3, RunAssumption, TypesHold, EndsAreLinked DEF CodeInv, Runnable

\* What is at a place, and where a program can go from it.
LEMMA PlaceFacts ==
  ASSUME Runnable, NEW p \in CodePlaces
  PROVE  /\ p[1] \in DOMAIN code /\ p[2] \in DOMAIN code[p[1]] /\ ItemAt(p) \in KnownItems
         /\ ItemAt(p) # Goto /\ OpAt(p) \notin Terminators => NextItem(p) \in CodePlaces
         /\ ItemAt(p) = Goto => <<succs[p[1]][1], 1>> \in CodePlaces
<1>1. p[1] \in DOMAIN code /\ p[2] \in 1..Len(code[p[1]]) /\ p = <<p[1], p[2]>>
  BY DEF CodePlaces
<1>2. PICK c, v, k : c = p[1] /\ v = code[c] /\ k = p[2]
  OBVIOUS
<1>3. v \in Seq(KnownItems) /\ v # <<>>
  BY <1>1, <1>2 DEF Runnable, InjectTypeOK
<1>4. Len(v) \in Nat /\ DOMAIN v = 1..Len(v) /\ k \in 1..Len(v)
  BY <1>1, <1>2, <1>3
<1>5. EndsBlock(v[k]) <=> k = Len(v)
  <2>1. \A j \in DOMAIN code[c] : EndsBlock(code[c][j]) <=> j = Len(code[c])
    BY <1>1, <1>2, Zenon DEF Runnable, InjectTypeOK
  <2> QED BY <1>2, <1>4, <2>1, Zenon
<1>6. ItemAt(p) = v[k] /\ OpAt(p) = OpOf(v[k]) /\ NextItem(p) = <<c, k + 1>>
  BY <1>2 DEF ItemAt, OpAt, NextItem
<1>7. ASSUME NEW d \in DOMAIN code PROVE <<d, 1>> \in CodePlaces
  <2>1. code[d] # <<>> /\ code[d] \in Seq(KnownItems)
    BY DEF Runnable, InjectTypeOK
  <2>2. 1 \in 1..Len(code[d])
    BY <2>1
  <2> QED BY <2>2 DEF CodePlaces
<1>8. ASSUME v[k] # Goto, OpOf(v[k]) \notin Terminators PROVE <<c, k + 1>> \in CodePlaces
  <2>1. k # Len(v)
    BY <1>5, <1>8 DEF EndsBlock
  <2>2. PICK n : n = Len(v)
    OBVIOUS
  <2>3. n \in Nat /\ k \in 1..n /\ k # n
    BY <1>4, <2>1, <2>2
  <2>4. k + 1 \in 1..n
    BY <2>3
  <2> QED BY <1>1, <1>2, <2>2, <2>4 DEF CodePlaces
<1>9. ASSUME v[k] = Goto PROVE <<succs[c][1], 1>> \in CodePlaces
  <2>1. k = Len(v)
    BY <1>5, <1>9 DEF EndsBlock
  <2>2. Last(v) = Goto
    BY <1>9, <2>1 DEF Last
  <2>3. \A b \in Blocks(module) : LastOf(module, b) # Goto
    BY OriginalFields, LogTypes DEF LastOf
  <2>4. Len(succs[c]) = 1 /\ DOMAIN succs[c] = 1..Len(succs[c])
    BY <1>1, <1>2, <2>2, <2>3 DEF Runnable, EndsLinked
  <2>5. succs[c][1] \in DOMAIN code
    BY <1>1, <1>2, <2>4 DEF Runnable, InjectTypeOK
  <2> QED BY <1>7, <2>5
<1> QED BY <1>1, <1>2, <1>3, <1>4, <1>6, <1>8, <1>9

LEMMA FirstPlaces ==
  ASSUME Runnable
  PROVE  /\ \A d \in DOMAIN code : <<d, 1>> \in CodePlaces
         /\ \A f \in Functions(module) : ~ IsDeclaration(module, f) =>
              /\ EntryBlock(module, f) \in Blocks(module)
              /\ Start(f) \in Seq(CodePlaces) /\ Len(Start(f)) = 1
              /\ ItemAt(Start(f)[1]) = Log("func_enter", f - 1)
<1>1. ASSUME NEW d \in DOMAIN code PROVE <<d, 1>> \in CodePlaces
  <2>1. code[d] # <<>> /\ code[d] \in Seq(KnownItems)
    BY DEF Runnable, InjectTypeOK
  <2>2. 1 \in 1..Len(code[d])
    BY <2>1
  <2> QED BY <2>2 DEF CodePlaces
<1>2. ASSUME NEW f \in Functions(module), ~ IsDeclaration(module, f)
      PROVE  /\ EntryBlock(module, f) \in Blocks(module)
             /\ Start(f) \in Seq(CodePlaces) /\ Len(Start(f)) = 1
             /\ ItemAt(Start(f)[1]) = Log("func_enter", f - 1)
  <2>1. PICK b : b = EntryBlock(module, f)
    OBVIOUS
  <2>2. b \in Blocks(module)
    <3>1. Len(module.body) \in Nat
      BY EdgeParts DEF Runnable
    <3> QED BY <1>2, <2>1, <3>1, EntryBlockIsFirst DEF BlocksOf
  <2>3. <<b, 1>> \in CodePlaces
    BY <1>1, <2>2 DEF Runnable
  <2>4. code[b][1] = Log("func_enter", f - 1)
    BY <1>2, <2>1 DEF Runnable, StartsWithLog, LogsFirst
  <2> QED BY <2>1, <2>2, <2>3, <2>4 DEF Start, ItemAt
<1> QED BY <1>1, <1>2

\* A terminator leads to blocks of the code, and in the module to blocks as well.
LEMMA TerminatorFacts ==
  ASSUME Runnable, NEW p \in CodePlaces, OpAt(p) \in Terminators
  PROVE  LET b == ItemAt(p).at[1] IN
           /\ b \in Blocks(module) /\ ItemAt(p) = LastOf(module, b)
           /\ DOMAIN succs[p[1]] = 1..Len(Successors(module, b))
           /\ \A k \in DOMAIN succs[p[1]] :
                /\ <<succs[p[1]][k], 1>> \in CodePlaces
                /\ <<b, k>> \in CfgEdges(module) /\ EdgeTarget(module, <<b, k>>) \in Blocks(module)
           /\ OpAt(p) = "invoke" => {1, 2} \subseteq DOMAIN succs[p[1]]
<1>1. p[1] \in DOMAIN code /\ p[2] \in 1..Len(code[p[1]]) /\ p = <<p[1], p[2]>>
  BY DEF CodePlaces
<1>2. PICK c, v, k : c = p[1] /\ v = code[c] /\ k = p[2]
  OBVIOUS
<1>3. v \in Seq(KnownItems) /\ v # <<>>
  BY <1>1, <1>2 DEF Runnable, InjectTypeOK
<1>4. Len(v) \in Nat /\ DOMAIN v = 1..Len(v) /\ k \in 1..Len(v)
  BY <1>1, <1>2, <1>3
<1>5. EndsBlock(v[k]) <=> k = Len(v)
  <2>1. \A j \in DOMAIN code[c] : EndsBlock(code[c][j]) <=> j = Len(code[c])
    BY <1>1, <1>2, Zenon DEF Runnable, InjectTypeOK
  <2> QED BY <1>2, <1>4, <2>1, Zenon
<1>6. ItemAt(p) = v[k] /\ OpAt(p) = OpOf(v[k])
  BY <1>2 DEF ItemAt, OpAt
<1>7. Last(v) = v[k]
  BY <1>5, <1>6 DEF EndsBlock, Last
<1>8. v[k] # Goto
  BY <1>6, LogTypes DEF OpOf, Terminators
<1>9. PICK b \in Blocks(module) : /\ v[k] = LastOf(module, b)
                                  /\ Len(succs[c]) = Len(Successors(module, b))
                                  /\ DOMAIN succs[c] = 1..Len(succs[c])
  BY <1>1, <1>2, <1>7, <1>8 DEF Runnable, EndsLinked
<1>10. v[k].at = <<b, Len(module.body[b])>> /\ IsOriginal(v[k])
  BY <1>9, OriginalFields DEF LastOf
<1>11. ASSUME NEW j \in 1..Len(Successors(module, b))
       PROVE  /\ <<succs[c][j], 1>> \in CodePlaces
              /\ <<b, j>> \in CfgEdges(module) /\ EdgeTarget(module, <<b, j>>) \in Blocks(module)
  <2>1. succs[c][j] \in DOMAIN code
    BY <1>1, <1>2, <1>9 DEF Runnable, InjectTypeOK
  <2>2. <<b, j>> \in CfgEdges(module) /\ EdgeTarget(module, <<b, j>>) \in Blocks(module)
    BY EdgeParts DEF Runnable
  <2> QED BY <2>1, <2>2, FirstPlaces
<1>12. OpAt(p) = "invoke" => Len(Successors(module, b)) = 2
  <2>1. OpAt(p) = Instr(module, Terminator(module, b)).op
    BY <1>6, <1>10 DEF OpOf, Terminator
  <2> QED BY <2>1 DEF Runnable, Executable
<1>13. ItemAt(p).at[1] = b
  BY <1>6, <1>10
<1>14. {1, 2} \subseteq 1..2
  OBVIOUS
<1>15. /\ ItemAt(p) = LastOf(module, b) /\ DOMAIN succs[p[1]] = 1..Len(Successors(module, b))
       /\ \A j \in DOMAIN succs[p[1]] :
            /\ <<succs[p[1]][j], 1>> \in CodePlaces
            /\ <<b, j>> \in CfgEdges(module) /\ EdgeTarget(module, <<b, j>>) \in Blocks(module)
       /\ OpAt(p) = "invoke" => {1, 2} \subseteq DOMAIN succs[p[1]]
  BY <1>2, <1>6, <1>9, <1>11, <1>12, <1>14
<1> HIDE DEF CodePlaces
<1> QED BY <1>13, <1>15


------------------------------------------------------------------------------
(***************************************************************************)
(* Stacks: every frame is at a place of P, the ones below the top at one   *)
(* of C.                                                                   *)
(***************************************************************************)
StackOK(P, C, s) == s \in Seq(P) /\ \A n \in 1..(Len(s) - 1) : s[n] \in C

ThreadsOK(P, C, most, ts) ==
  /\ ts \in Seq(Seq(P)) /\ Len(ts) \in 1..most /\ ts[1] # <<>>
  /\ \A t \in 1..Len(ts) : StackOK(P, C, ts[t])

\* The frames from n on give way to one at p.
LEMMA Replaced ==
  ASSUME NEW P, NEW C, NEW s, StackOK(P, C, s), NEW n \in 1..Len(s), NEW p \in P
  PROVE  /\ StackOK(P, C, Append(SubSeq(s, 1, n - 1), p))
         /\ Append(SubSeq(s, 1, n - 1), p) # <<>>
<1>1. s \in Seq(P) /\ Len(s) \in Nat /\ n - 1 \in 0..Len(s) /\ \A k \in 1..(Len(s) - 1) : s[k] \in C
  BY DEF StackOK
<1>2. PICK u : u = SubSeq(s, 1, n - 1)
  OBVIOUS
<1>3. u \in Seq(P) /\ Len(u) = n - 1 /\ \A k \in 1..(n - 1) : u[k] = s[k]
  BY <1>1, <1>2, JoinCut
<1>4. PICK v : v = Append(u, p)
  OBVIOUS
<1>5. v \in Seq(P) /\ Len(v) = n /\ v # <<>> /\ \A k \in 1..(n - 1) : v[k] = u[k]
  BY <1>3, <1>4
<1>6. \A k \in 1..(n - 1) : v[k] \in C
  BY <1>1, <1>3, <1>5
<1> QED BY <1>2, <1>4, <1>5, <1>6 DEF StackOK

LEMMA MovedOn ==
  ASSUME NEW P, NEW C, NEW s, StackOK(P, C, s), s # <<>>, NEW p \in P
  PROVE  StackOK(P, C, Append(Front(s), p)) /\ Append(Front(s), p) # <<>>
<1>1. Len(s) \in 1..Len(s)
  BY DEF StackOK
<1>2. Front(s) = SubSeq(s, 1, Len(s) - 1)
  BY DEF Front
<1> QED BY <1>1, <1>2, Replaced

LEMMA Called ==
  ASSUME NEW P, NEW C, NEW s, StackOK(P, C, s), s # <<>>, Last(s) \in C,
         NEW u \in Seq(P), Len(u) = 1
  PROVE  StackOK(P, C, s \o u) /\ s \o u # <<>>
<1>1. s \in Seq(P) /\ Len(s) \in Nat /\ s[Len(s)] \in C /\ \A k \in 1..(Len(s) - 1) : s[k] \in C
  BY DEF StackOK, Last
<1>2. PICK v : v = s \o u
  OBVIOUS
<1>3. v \in Seq(P) /\ Len(v) = Len(s) + 1 /\ v # <<>> /\ \A k \in 1..Len(s) : v[k] = s[k]
  <2>1. IsJoin(P, s, u, v)
    BY <1>1, <1>2 DEF IsJoin, Join
  <2>2. v \in Seq(P)
    BY <1>1, <1>2
  <2> QED BY <1>1, <2>1, <2>2, JoinParts
<1>4. \A k \in 1..Len(s) : s[k] \in C
  BY <1>1
<1> QED BY <1>1, <1>2, <1>3, <1>4 DEF StackOK

LEMMA Popped ==
  ASSUME NEW P, NEW C, NEW s, StackOK(P, C, s), s # <<>>
  PROVE  StackOK(P, C, Front(s)) /\ (Front(s) # <<>> => Last(Front(s)) \in C)
<1>1. s \in Seq(P) /\ Len(s) \in Nat /\ \A k \in 1..(Len(s) - 1) : s[k] \in C
  BY DEF StackOK
<1>2. PICK u : u = Front(s)
  OBVIOUS
<1>3. u \in Seq(P) /\ Len(u) = Len(s) - 1 /\ \A k \in 1..(Len(s) - 1) : u[k] = s[k]
  BY <1>1, <1>2, FrontLast
<1>4. \A k \in 1..Len(u) : u[k] \in C
  BY <1>1, <1>3
<1>5. u # <<>> => Last(u) \in C
  BY <1>3, <1>4 DEF Last
<1> QED BY <1>2, <1>3, <1>4, <1>5 DEF StackOK

LEMMA OneThreadChanges ==
  ASSUME NEW P, NEW C, NEW most \in Nat, NEW ts, ThreadsOK(P, C, most, ts), NEW t \in DOMAIN ts,
         NEW s, StackOK(P, C, s), t = 1 => s # <<>>
  PROVE  ThreadsOK(P, C, most, [ts EXCEPT ![t] = s])
<1>1. ts \in Seq(Seq(P)) /\ s \in Seq(P)
  BY DEF ThreadsOK, StackOK
<1>2. PICK us : us = [ts EXCEPT ![t] = s]
  OBVIOUS
<1>3. /\ us \in Seq(Seq(P)) /\ Len(us) = Len(ts)
      /\ \A k \in 1..Len(ts) : us[k] = IF k = t THEN s ELSE ts[k]
  BY <1>1, <1>2
<1>4. us[1] # <<>> /\ Len(us) \in 1..most
  BY <1>3 DEF ThreadsOK
<1>5. \A k \in 1..Len(us) : StackOK(P, C, us[k])
  BY <1>3 DEF ThreadsOK
<1> QED BY <1>2, <1>3, <1>4, <1>5 DEF ThreadsOK

LEMMA OneThreadMore ==
  ASSUME NEW P, NEW C, NEW most \in Nat, NEW ts, ThreadsOK(P, C, most, ts), Len(ts) < most,
         NEW s, StackOK(P, C, s)
  PROVE  ThreadsOK(P, C, most, Append(ts, s))
<1>1. ts \in Seq(Seq(P)) /\ s \in Seq(P) /\ Len(ts) \in Nat /\ Len(ts) >= 1
  BY DEF ThreadsOK, StackOK
<1>2. PICK us : us = Append(ts, s)
  OBVIOUS
<1>3. /\ us \in Seq(Seq(P)) /\ Len(us) = Len(ts) + 1 /\ us[Len(ts) + 1] = s
      /\ \A k \in 1..Len(ts) : us[k] = ts[k]
  BY <1>1, <1>2
<1>4. us[1] # <<>> /\ Len(us) \in 1..most
  BY <1>1, <1>3 DEF ThreadsOK
<1>5. \A k \in 1..Len(us) : k \in 1..Len(ts) \/ k = Len(ts) + 1
  BY <1>1, <1>3
<1>6. \A k \in 1..Len(us) : StackOK(P, C, us[k])
  BY <1>3, <1>5 DEF ThreadsOK
<1> QED BY <1>2, <1>3, <1>4, <1>6 DEF ThreadsOK


------------------------------------------------------------------------------
(***************************************************************************)
(* The lines of the log.  The logs write the good ones; what _exit leaves  *)
(* of one still has an id of the graph's range.                            *)
(***************************************************************************)
GoodLines == {TextLine} \cup {[event |-> x.event, id |-> x.id] : x \in KnownLogs}

Range0(event) ==
  IF event = "func_enter" THEN 0..(module.functions - 1)
  ELSE IF event = "bb_enter" THEN 0..(Len(module.body) - 1)
  ELSE 0..(Len(edges) - 1)

AnyLines == {x \in Line : IsEvent(x) => x.id \in Range0(x.event)}

LEMMA EventMaps ==
  /\ Events = {"func_enter", "bb_enter", "cfg_edge", "call_edge"}
  /\ MapOfEvent["func_enter"] = "function" /\ MapOfEvent["bb_enter"] = "basic_block"
  /\ MapOfEvent["cfg_edge"] = "edge" /\ MapOfEvent["call_edge"] = "edge"
BY DEF Events, MapOfEvent

LEMMA LinesAreKnown ==
  ASSUME InGraph, WellFormed(module)
  PROVE  /\ GoodLines \subseteq AnyLines /\ TextLine \in GoodLines /\ ~ IsEvent(TextLine)
         /\ \A x \in KnownLogs : /\ [event |-> x.event, id |-> x.id] \in GoodLines
                                 /\ IsEvent([event |-> x.event, id |-> x.id])
         /\ \A x \in GoodLines : IsEvent(x) => x.id \in IdsOf(x.event)
<1>1. Len(edges) \in Nat /\ module.functions \in Nat /\ Len(module.body) \in Nat
  BY VectorDomain, BodyType DEF InGraph
<1>2. TextLine \in AnyLines /\ ~ IsEvent(TextLine)
  BY EventMaps DEF TextLine, AnyLines, Line, IsEvent, BadLines
<1>3. ASSUME NEW x \in KnownLogs, NEW y, y = [event |-> x.event, id |-> x.id]
      PROVE  y \in AnyLines /\ IsEvent(y) /\ y.id \in IdsOf(y.event)
  <2>1. y.event = x.event /\ y.id = x.id /\ x.event \in Events /\ x.id \in IdsOf(x.event)
    BY <1>3, EventMaps DEF KnownLogs, LogItems
  <2>2. Counted \subseteq 1..Len(edges)
    BY DEF Counted
  <2>3. x.id \in Range0(x.event) /\ x.id \in Nat
    <3>1. CASE x.event = "func_enter"
      BY <1>1, <2>1, <3>1 DEF IdsOf, Range0
    <3>2. CASE x.event = "bb_enter"
      BY <1>1, <2>1, <3>2 DEF IdsOf, Range0
    <3>3. CASE x.event \notin {"func_enter", "bb_enter"}
      <4>1. PICK k \in Counted : x.id = k - 1
        BY <2>1, <3>3 DEF IdsOf
      <4>2. x.id \in 0..(Len(edges) - 1)
        BY <1>1, <2>2, <4>1
      <4> QED BY <3>3, <4>2 DEF Range0
    <3> QED BY <3>1, <3>2, <3>3
  <2> QED BY <1>3, <2>1, <2>3 DEF AnyLines, Line, IsEvent
<1> HIDE DEF AnyLines, KnownLogs
<1> QED BY <1>2, <1>3 DEF GoodLines

\* The merge has an entity for every line, and may count those of the good ones.
LEMMA LinesHaveEntities ==
  ASSUME InGraph, WellFormed(module)
  PROVE  /\ \A x \in AnyLines : IsEvent(x) => KeyOf(x) \in Entities(BuiltGraph)
         /\ \A x \in GoodLines : /\ x.event \notin BadLines
                                 /\ IsEvent(x) => CountableKey(BuiltGraph, KeyOf(x))
<1>1. IsVector(edges) /\ Len(edges) \in Nat /\ DOMAIN edges = 1..Len(edges)
  BY VectorDomain DEF InGraph
<1>2. PICK g, es : g = BuiltGraph /\ es = [k \in 1..Len(edges) |-> edges[k].kind]
  OBVIOUS
<1>3. /\ g.functions = module.functions /\ g.basic_blocks = Len(module.body) /\ g.edges = es
  BY <1>1, <1>2 DEF BuiltGraph, ProfiledPart, ModuleGraph, GraphOf, Each, InGraph
<1>4. Len(es) = Len(edges) /\ \A k \in 1..Len(edges) : es[k] = edges[k].kind
  <2>1. \A k \in 1..Len(edges) : es[k] = edges[k].kind
    BY <1>2
  <2>2. es = [k \in 1..Len(edges) |-> es[k]]
    BY <1>2
  <2> QED BY <1>1, <2>1, <2>2, VectorIntro
<1>5. Entities(g) = ({"function"} \X (0..(module.functions - 1)))
                      \cup ({"basic_block"} \X (0..(Len(module.body) - 1)))
                      \cup ({"edge"} \X (0..(Len(edges) - 1)))
  BY <1>3, <1>4 DEF Entities
<1>6. ASSUME NEW x \in AnyLines, IsEvent(x) PROVE KeyOf(x) \in Entities(g)
  <2>1. x.event \in Events /\ x.id \in Range0(x.event) /\ KeyOf(x) = <<MapOfEvent[x.event], x.id>>
    BY <1>6 DEF AnyLines, IsEvent, KeyOf
  <2>2. CASE x.event = "func_enter"
    BY <1>5, <2>1, <2>2, EventMaps DEF Range0
  <2>3. CASE x.event = "bb_enter"
    BY <1>5, <2>1, <2>3, EventMaps DEF Range0
  <2>4. CASE x.event \in {"cfg_edge", "call_edge"}
    BY <1>5, <2>1, <2>4, EventMaps DEF Range0
  <2> QED BY <2>1, <2>2, <2>3, <2>4, EventMaps
<1>7. ASSUME NEW x \in GoodLines
      PROVE  x.event \notin BadLines /\ (IsEvent(x) => CountableKey(g, KeyOf(x)))
  <2>1. x.event \in Events \cup {"text"}
    BY <1>7, LinesAreKnown, EventMaps DEF GoodLines, TextLine, KnownLogs, LogItems
  <2>2. x.event \notin BadLines
    BY <2>1, EventMaps DEF BadLines
  <2>3. ASSUME IsEvent(x) PROVE CountableKey(g, KeyOf(x))
    <3>1. KeyOf(x) \in Entities(g) /\ x.id \in IdsOf(x.event) /\ x.event \in Events
      BY <1>6, <2>3, LinesAreKnown DEF IsEvent
    <3>2. KeyOf(x)[1] = MapOfEvent[x.event] /\ KeyOf(x)[2] = x.id
      BY DEF KeyOf
    <3>3. ASSUME MapOfEvent[x.event] = "edge" PROVE IsProfiledEdge(g, x.id)
      <4>1. x.event \notin {"func_enter", "bb_enter"}
        BY <3>3, EventMaps
      <4>2. PICK k \in Counted : x.id = k - 1
        BY <3>1, <4>1 DEF IdsOf
      <4>3. k \in 1..Len(edges) /\ edges[k].kind \in {"control_flow", "call"} /\ x.id + 1 = k
        BY <1>1, <4>2 DEF Counted
      <4> QED BY <1>3, <1>4, <4>3 DEF IsProfiledEdge
    <3> QED BY <3>1, <3>2, <3>3 DEF CountableKey
  <2> QED BY <2>2, <2>3
<1> QED BY <1>2, <1>6, <1>7


------------------------------------------------------------------------------
(***************************************************************************)
(* The invariant of a run, and the steps of the injection before it.       *)
(***************************************************************************)
CallPlaces == {p \in CodePlaces : OpAt(p) \in {"call", "invoke"}}

NotStarted ==
  /\ threads = <<Start(1)>> /\ lineOpen = FALSE /\ stdout = <<>>
  /\ status \in {"running", "crashed"}

HasEvent == \E k \in 1..Len(stdout) : IsEvent(stdout[k])

\* Once main has logged its entry the log has an event.
Logging ==
  /\ ThreadsOK(CodePlaces, CallPlaces, MaxThreads, threads)
  /\ stdout \in Seq(AnyLines)
  /\ status # "quit" => stdout \in Seq(GoodLines) /\ (NotStarted \/ HasEvent)

EntriesOK == entered \in [Blocks(module) -> Nat] /\ SumOf(entered) <= MaxEntries

RunInv ==
  /\ status \in {"running", "exited", "quit", "crashed"} /\ lineOpen \in BOOLEAN
  /\ EntriesOK
  /\ IF phase = "injected" THEN Logging ELSE NotStarted

LEMMA SumIsTotal == \A f : SumOf(f) = Total(f)
BY Zenon DEF SumOf, Total

\* One more entry of a block is counted.
LEMMA OneEntryMore ==
  ASSUME WellFormed(module), NEW f \in [Blocks(module) -> Nat], NEW b \in Blocks(module)
  PROVE  /\ [f EXCEPT ![b] = @ + 1] \in [Blocks(module) -> Nat]
         /\ SumOf([f EXCEPT ![b] = @ + 1]) = SumOf(f) + 1 /\ SumOf(f) \in Nat
<1>1. IsFiniteSet(Blocks(module))
  BY BodyType, FS_Interval DEF Blocks
<1>2. PICK S, d, n : S = Blocks(module) /\ d = [f EXCEPT ![b] = @ + 1] /\ n = 1
  OBVIOUS
<1>3. f \in [S -> Nat] /\ b \in S /\ IsFiniteSet(S) /\ n \in Nat
  BY <1>1, <1>2
<1>4. d \in [S -> Nat] /\ d[b] = f[b] + n /\ \A x \in S : x # b => d[x] = f[x]
  BY <1>2, <1>3
<1>5. Total(f) \in Nat /\ Total(d) = Total(f) + n
  BY <1>3, <1>4, SumGrows
<1> QED BY <1>2, <1>4, <1>5, SumIsTotal

LEMMA RunBegins == RunInit => RunInv
<1> SUFFICES ASSUME RunInit PROVE RunInv
  OBVIOUS
<1>1. phase = "blocks" /\ NotStarted
  BY DEF RunInit, InjectInit, Init, NotStarted
<1>2. module \in Modules /\ WellFormed(module) /\ Executable(module)
  BY BuilderAssumption, RunAssumption DEF RunInit, InjectInit, Init
<1>3. Len(module.body) \in Nat
  BY <1>2, BodyType
<1>4. EntryBlock(module, 1) \in Blocks(module)
  BY <1>2, <1>3, EntryBlockIsFirst DEF Executable, BlocksOf
<1>5. PICK S, e, z : S = Blocks(module) /\ e = EntryBlock(module, 1) /\ z = [b \in S |-> 0]
  OBVIOUS
<1>6. z \in [S -> Nat] /\ IsFiniteSet(S) /\ \A b \in S : z[b] = 0
  BY <1>3, <1>5, FS_Interval DEF Blocks
<1>7. SumOf(z) = 0
  BY <1>6, SumOfNothing, SumIsTotal
<1>8. entered = [z EXCEPT ![e] = @ + 1]
  BY <1>4, <1>5 DEF RunInit
<1>9. entered \in [S -> Nat] /\ SumOf(entered) = 1
  BY <1>2, <1>4, <1>5, <1>6, <1>7, <1>8, OneEntryMore
<1>10. MaxEntries >= 1
  BY <1>3, <1>4, RunAssumption DEF MaxEntries, Blocks
<1>11. status = "running" /\ lineOpen = FALSE
  BY DEF RunInit
<1> QED BY <1>1, <1>5, <1>9, <1>10, <1>11 DEF RunInv, EntriesOK

\* The program starts at the first place of main.
IsInjected == InjectInv /\ CodeInv /\ phase = "injected"

LEMMA ReadyToRun == IsInjected /\ NotStarted => Logging
<1> SUFFICES ASSUME IsInjected, NotStarted PROVE Logging
  OBVIOUS
<1>1. Runnable
  BY InjectedRuns DEF IsInjected
<1>2. 1 \in Functions(module) /\ ~ IsDeclaration(module, 1)
  BY <1>1 DEF Runnable, Executable
<1>3. PICK s, P : s = Start(1) /\ P = CodePlaces
  OBVIOUS
<1>4. s \in Seq(P) /\ Len(s) = 1
  BY <1>1, <1>2, <1>3, FirstPlaces
<1>5. StackOK(P, CallPlaces, s) /\ s # <<>>
  BY <1>4 DEF StackOK
<1>6. threads = <<s>>
  BY <1>3 DEF NotStarted
<1>7. threads \in Seq(Seq(P)) /\ Len(threads) = 1 /\ threads[1] = s
  BY <1>4, <1>6
<1>8. ThreadsOK(P, CallPlaces, MaxThreads, threads)
  <2>1. 1 \in 1..MaxThreads /\ 1..1 = {1}
    BY RunAssumption
  <2>2. \A t \in 1..Len(threads) : t = 1
    BY <1>7, <2>1
  <2> QED BY <1>5, <1>7, <2>1, <2>2 DEF ThreadsOK
<1>9. stdout \in Seq(AnyLines) /\ stdout \in Seq(GoodLines)
  BY DEF NotStarted
<1> QED BY <1>3, <1>8, <1>9 DEF Logging

LEMMA ReadyToRunNext == IsInjected' /\ NotStarted' => Logging'
BY ReadyToRun, PTL

LEMMA ModuleStays == InjectNext => module' = module /\ phase # "injected"
<1>1. ASSUME Build PROVE module' = module /\ phase # "injected"
  <2>1. phase \in DOMAIN NextPhase
    BY <1>1, PhaseSets
       DEF Build, BuilderNext, RegisterFunctionsAndBasicBlocks, RegisterInstructionNodes,
           RegisterInstructionSequenceEdges, RegisterControlFlowEdges,
           RegisterDataFlowAndCallEdges, PopulateBuildInfo, EndOfPhase, Round
  <2>2. module' = module
    BY <1>1
       DEF Build, BuilderNext, RegisterFunctionsAndBasicBlocks, RegisterInstructionNodes,
           RegisterInstructionSequenceEdges, RegisterControlFlowEdges,
           RegisterDataFlowAndCallEdges, PopulateBuildInfo, EndOfPhase
  <2> QED BY <2>1, <2>2, PhaseSets
<1>2. ASSUME NEW from \in {"built", "entry_logged", "calls_logged", "splitting"}, NEW to,
             InjectStage(from, to)
      PROVE  module' = module /\ phase # "injected"
  BY <1>2 DEF InjectStage
<1>3. ASSUME InjectControlFlowEdgeLog PROVE module' = module /\ phase # "injected"
  BY <1>3 DEF InjectControlFlowEdgeLog, builderVars
<1> QED BY <1>1, <1>2, <1>3
        DEF InjectNext, InjectEntryLogs, AbortInjection, InjectCallEdgeLogs,
            CollectOriginalCfgEdges, EndOfInjection

LEMMA CompileKeeps == RunInv /\ Compile /\ (InjectInv /\ CodeInv)' => RunInv'
<1> SUFFICES ASSUME RunInv, Compile, (InjectInv /\ CodeInv)' PROVE RunInv'
  OBVIOUS
<1>1. /\ module' = module /\ phase # "injected" /\ threads' = threads /\ status' = status
      /\ entered' = entered /\ stdout' = stdout /\ lineOpen' = lineOpen
  BY ModuleStays DEF Compile, runVars
<1>2. NotStarted' /\ EntriesOK'
  BY <1>1 DEF RunInv, NotStarted, Start, EntriesOK, MaxEntries
<1>3. phase' = "injected" => Logging'
  BY <1>2, ReadyToRunNext DEF IsInjected
<1> QED BY <1>1, <1>2, <1>3 DEF RunInv


------------------------------------------------------------------------------
(***************************************************************************)
(* The steps of the program.                                               *)
(***************************************************************************)
LEMMA CodeStays ==
  ASSUME UNCHANGED buildVars
  PROVE  /\ module' = module /\ phase' = phase /\ MaxEntries' = MaxEntries
         /\ CodePlaces' = CodePlaces /\ CallPlaces' = CallPlaces
         /\ GoodLines' = GoodLines /\ AnyLines' = AnyLines
<1>1. /\ module' = module /\ phase' = phase /\ code' = code /\ edges' = edges
      /\ UNCHANGED <<module, cursor, graphVars, idVars, infoVars>>
  BY DEF buildVars, builderVars, injectVars, graphVars
<1>2. KnownLogs' = KnownLogs
  BY <1>1, GraphStays
<1>3. CodePlaces' = CodePlaces
  BY <1>1 DEF CodePlaces
<1>4. \A p : OpAt(p)' = OpAt(p)
  BY <1>1 DEF OpAt, ItemAt, OpOf
<1>5. CallPlaces' = CallPlaces
  BY <1>3, <1>4 DEF CallPlaces
<1>6. \A event : Range0(event)' = Range0(event)
  BY <1>1 DEF Range0
<1>7. AnyLines' = AnyLines
  BY <1>6 DEF AnyLines
<1> QED BY <1>1, <1>2, <1>3, <1>5, <1>7 DEF GoodLines, MaxEntries

\* A thread that runs is at an item; before the first line is written that is the
\* log of main.
LEMMA ThreadItem ==
  ASSUME Runnable, Logging, NEW t \in Live
  PROVE  /\ t \in DOMAIN threads /\ threads[t] # <<>>
         /\ StackOK(CodePlaces, CallPlaces, threads[t])
         /\ At(t) \in CodePlaces /\ Item(t) = ItemAt(At(t)) /\ Item(t) \in KnownItems
         /\ NotStarted => t = 1 /\ Item(t) = Log("func_enter", 0)
<1>1. t \in DOMAIN threads /\ threads[t] # <<>>
  BY DEF Live
<1>2. PICK P, C, ts : P = CodePlaces /\ C = CallPlaces /\ ts = threads
  OBVIOUS
<1>3. ThreadsOK(P, C, MaxThreads, ts)
  BY <1>2 DEF Logging
<1>4. StackOK(P, C, ts[t]) /\ ts[t] \in Seq(P)
  <2>1. t \in 1..Len(ts)
    BY <1>1, <1>2, <1>3 DEF ThreadsOK
  <2>2. StackOK(P, C, ts[t])
    BY <1>3, <2>1 DEF ThreadsOK
  <2> QED BY <2>2 DEF StackOK
<1>5. Last(ts[t]) \in P
  BY <1>1, <1>2, <1>4 DEF Last
<1>6. At(t) \in CodePlaces
  BY <1>2, <1>5 DEF At
<1>7. Item(t) \in KnownItems
  BY <1>6, PlaceFacts DEF Item
<1>8. ASSUME NotStarted PROVE t = 1 /\ Item(t) = Log("func_enter", 0)
  <2>1. PICK s : s = Start(1)
    OBVIOUS
  <2>2. threads = <<s>>
    BY <1>8, <2>1 DEF NotStarted
  <2>3. t = 1 /\ threads[t] = s
    BY <1>1, <2>2
  <2>4. /\ s \in Seq(CodePlaces) /\ Len(s) = 1 /\ ItemAt(s[1]) = Log("func_enter", 0)
    BY <2>1, FirstPlaces DEF Runnable, Executable
  <2>5. At(t) = s[1]
    BY <2>3, <2>4 DEF At, Last
  <2> QED BY <2>3, <2>4, <2>5 DEF Item
<1> QED BY <1>1, <1>2, <1>4, <1>6, <1>7, <1>8 DEF Item

\* Of an instruction of the module at a place.
LEMMA OriginalPlace ==
  ASSUME Runnable, NEW p \in CodePlaces, IsOriginal(ItemAt(p))
  PROVE  /\ ItemAt(p).at \in Pointers(module) /\ OpAt(p) = Instr(module, ItemAt(p).at).op
         /\ IsCall(Instr(module, ItemAt(p).at)) => p \in CallPlaces
<1>1. ItemAt(p) \in KnownItems
  BY PlaceFacts
<1>2. ItemAt(p) \in OriginalItems(module)
  BY <1>1, LogTypes DEF KnownItems, KnownLogs
<1>3. PICK q \in Pointers(module) : ItemAt(p) = Original(q[1], q[2])
  BY <1>2 DEF OriginalItems
<1>4. q = <<q[1], q[2]>>
  BY DEF Pointers
<1>5. ItemAt(p).at = q
  BY <1>3, <1>4, OriginalFields
<1>6. OpAt(p) = Instr(module, ItemAt(p).at).op
  BY DEF OpAt, OpOf
<1> QED BY <1>5, <1>6 DEF IsCall, CallPlaces

ThreadsKept == ThreadsOK(CodePlaces, CallPlaces, MaxThreads, threads')
EntriesKept == entered' \in [Blocks(module) -> Nat] /\ SumOf(entered') <= MaxEntries

LEMMA StackSet ==
  ASSUME Logging, NEW t \in DOMAIN threads, NEW s, StackOK(CodePlaces, CallPlaces, s),
         t = 1 => s # <<>>, SetStack(t, s)
  PROVE  ThreadsKept
<1>1. PICK P, C, ts : P = CodePlaces /\ C = CallPlaces /\ ts = threads
  OBVIOUS
<1>2. ThreadsOK(P, C, MaxThreads, ts) /\ StackOK(P, C, s) /\ t \in DOMAIN ts /\ MaxThreads \in Nat
  BY <1>1, RunAssumption DEF Logging
<1>3. ThreadsOK(P, C, MaxThreads, [ts EXCEPT ![t] = s])
  BY <1>2, OneThreadChanges
<1> QED BY <1>1, <1>3 DEF SetStack, ThreadsKept

LEMMA EntryCounted ==
  ASSUME Runnable, EntriesOK, WithinBound, NEW b \in Blocks(module), entered' = Entered(b)
  PROVE  EntriesKept
<1>1. PICK f : f = entered
  OBVIOUS
<1>2. /\ [f EXCEPT ![b] = @ + 1] \in [Blocks(module) -> Nat]
      /\ SumOf([f EXCEPT ![b] = @ + 1]) = SumOf(f) + 1 /\ SumOf(f) \in Nat
  BY <1>1, OneEntryMore DEF Runnable, EntriesOK
<1>3. SumOf(f) < MaxEntries /\ MaxEntries \in Nat
  BY <1>1, RunAssumption, BodyType DEF WithinBound, MaxEntries, Runnable
<1>4. SumOf(f) + 1 <= MaxEntries
  BY <1>2, <1>3
<1>5. entered' = [f EXCEPT ![b] = @ + 1]
  BY <1>1 DEF Entered
<1> QED BY <1>2, <1>4, <1>5 DEF EntriesKept

LEMMA FollowKeeps ==
  ASSUME Runnable, Logging, EntriesOK, NEW t \in DOMAIN threads, NEW below, NEW place \in CodePlaces,
         OpAt(place) \in Terminators, NEW k \in DOMAIN succs[place[1]],
         \A p \in CodePlaces : StackOK(CodePlaces, CallPlaces, Append(below, p))
                               /\ Append(below, p) # <<>>,
         Follow(t, below, place, k)
  PROVE  ThreadsKept /\ EntriesKept /\ status' = status
<1>1. PICK b, p : b = ItemAt(place).at[1] /\ p = <<succs[place[1]][k], 1>>
  OBVIOUS
<1>2. p \in CodePlaces /\ EdgeTarget(module, <<b, k>>) \in Blocks(module)
  BY <1>1, TerminatorFacts
<1>3. /\ WithinBound /\ SetStack(t, Append(below, p)) /\ status' = status
      /\ entered' = Entered(EdgeTarget(module, <<b, k>>))
  BY <1>1 DEF Follow
<1>4. ThreadsKept
  BY <1>2, <1>3, StackSet
<1> QED BY <1>2, <1>3, <1>4, EntryCounted

LEMMA ResumeKeeps ==
  ASSUME Runnable, Logging, EntriesOK, NEW t \in DOMAIN threads, NEW s, s # <<>>,
         StackOK(CodePlaces, CallPlaces, s), Last(s) \in CallPlaces, Resume(t, s)
  PROVE  ThreadsKept /\ EntriesKept /\ status' = status
<1>1. PICK place : place = Last(s)
  OBVIOUS
<1>2. place \in CodePlaces /\ OpAt(place) \in {"call", "invoke"}
  BY <1>1 DEF CallPlaces
<1>3. PICK P, C, f : P = CodePlaces /\ C = CallPlaces /\ f = Front(s)
  OBVIOUS
<1>4. \A p \in P : StackOK(P, C, Append(f, p)) /\ Append(f, p) # <<>>
  BY <1>3, MovedOn
<1>5. CASE OpAt(place) = "invoke"
  <2>1. OpAt(place) \in Terminators
    BY <1>5 DEF Terminators
  <2>2. 1 \in DOMAIN succs[place[1]]
    BY <1>2, <1>5, <2>1, TerminatorFacts
  <2>3. Follow(t, f, place, 1)
    BY <1>1, <1>3, <1>5 DEF Resume
  <2> QED BY <1>2, <1>3, <1>4, <2>1, <2>2, <2>3, FollowKeeps
<1>6. CASE OpAt(place) = "call"
  <2>1. OpAt(place) \notin Terminators /\ ItemAt(place) # Goto
    BY <1>6, LogTypes DEF Terminators, OpAt, OpOf
  <2>2. NextItem(place) \in P
    BY <1>2, <1>3, <2>1, PlaceFacts
  <2>3. /\ SetStack(t, Append(f, NextItem(place))) /\ status' = status /\ entered' = entered
    BY <1>1, <1>3, <1>6 DEF Resume
  <2>4. ThreadsKept
    BY <1>3, <1>4, <2>2, <2>3, StackSet
  <2> QED BY <2>3, <2>4 DEF EntriesKept, EntriesOK
<1> QED BY <1>2, <1>5, <1>6


\* What a step keeps of the log: only a log of main may be its first line.
LogKept ==
  /\ status' \in {"running", "exited", "quit", "crashed"} /\ lineOpen' \in BOOLEAN
  /\ stdout' \in Seq(AnyLines)
  /\ status' # "quit" => stdout' \in Seq(GoodLines) /\ (NotStarted' \/ HasEvent')

StepOK == ThreadsKept /\ EntriesKept /\ LogKept

LEMMA AllStay ==
  ASSUME Logging, EntriesOK, threads' = threads, entered' = entered
  PROVE  ThreadsKept /\ EntriesKept
BY DEF Logging, EntriesOK, ThreadsKept, EntriesKept

\* Nothing is written by an instruction: the log has begun.
LEMMA QuietKeeps ==
  ASSUME RunInv, phase = "injected", status = "running", ~ NotStarted, Quiet,
         status' \in {"running", "exited", "crashed"}
  PROVE  LogKept
<1>1. Logging /\ HasEvent /\ stdout' = stdout /\ lineOpen' = lineOpen /\ lineOpen \in BOOLEAN
  BY DEF RunInv, Logging, Quiet
<1>2. HasEvent'
  BY <1>1 DEF HasEvent
<1> QED BY <1>1, <1>2 DEF LogKept, Logging

\* One more good line.
LEMMA LineKeeps ==
  ASSUME Runnable, RunInv, phase = "injected", status = "running", NEW x \in GoodLines,
         HasEvent \/ IsEvent(x), stdout' = Append(stdout, x), lineOpen' = FALSE,
         status' \in {"running", "exited", "crashed"}
  PROVE  LogKept
<1>1. PICK v, w : v = stdout /\ w = Append(v, x)
  OBVIOUS
<1>2. GoodLines \subseteq AnyLines
  BY LinesAreKnown DEF Runnable
<1>3. v \in Seq(GoodLines) /\ v \in Seq(AnyLines) /\ x \in AnyLines
  BY <1>1, <1>2 DEF RunInv, Logging
<1>4. /\ w \in Seq(GoodLines) /\ w \in Seq(AnyLines) /\ Len(w) = Len(v) + 1 /\ Len(v) \in Nat
      /\ w[Len(v) + 1] = x /\ \A k \in 1..Len(v) : w[k] = v[k]
  BY <1>1, <1>3
<1>5. \E k \in 1..Len(w) : IsEvent(w[k])
  <2>1. CASE IsEvent(x)
    <3>1. Len(v) + 1 \in 1..Len(w)
      BY <1>4
    <3> QED BY <1>4, <2>1, <3>1
  <2>2. CASE HasEvent
    <3>1. PICK k \in 1..Len(v) : IsEvent(v[k])
      BY <1>1, <2>2 DEF HasEvent
    <3>2. k \in 1..Len(w) /\ w[k] = v[k]
      BY <1>4
    <3> QED BY <3>1, <3>2
  <2> QED BY <2>1, <2>2
<1>6. stdout' = w
  BY <1>1
<1>7. HasEvent'
  BY <1>5, <1>6 DEF HasEvent
<1> QED BY <1>4, <1>6, <1>7 DEF LogKept

LEMMA MoveKeeps ==
  ASSUME Runnable, Logging, EntriesOK, NEW t \in Live, NEW p \in CodePlaces, MoveTo(t, p)
  PROVE  ThreadsKept /\ EntriesKept /\ status' = status
<1>1. PICK P, C, s : P = CodePlaces /\ C = CallPlaces /\ s = threads[t]
  OBVIOUS
<1>2. StackOK(P, C, s) /\ s # <<>> /\ t \in DOMAIN threads
  BY <1>1, ThreadItem
<1>3. StackOK(P, C, Append(Front(s), p)) /\ Append(Front(s), p) # <<>>
  BY <1>1, <1>2, MovedOn
<1>4. SetStack(t, Append(Front(s), p)) /\ status' = status /\ entered' = entered
  BY <1>1 DEF MoveTo
<1>5. ThreadsKept
  BY <1>1, <1>2, <1>3, <1>4, StackSet
<1> QED BY <1>4, <1>5 DEF EntriesKept, EntriesOK

Running == Runnable /\ RunInv /\ phase = "injected" /\ status = "running"

LEMMA WriteLogKeeps ==
  ASSUME Running, NEW t \in Live, WriteLog(t)
  PROVE  StepOK
<1>1. Runnable /\ Logging /\ EntriesOK
  BY DEF Running, RunInv
<1>2. At(t) \in CodePlaces /\ Item(t) = ItemAt(At(t)) /\ Item(t) \in KnownItems /\ Item(t).kind = "log"
  BY <1>1, ThreadItem DEF WriteLog
<1>3. Item(t) \in KnownLogs
  BY <1>2, OriginalTypes, LogTypes DEF KnownItems
<1>4. NextItem(At(t)) \in CodePlaces
  <2>1. Item(t) # Goto /\ OpAt(At(t)) = "none"
    BY <1>2, <1>3, LogTypes DEF OpAt, OpOf, KnownLogs
  <2> QED BY <1>1, <1>2, <2>1, PlaceFacts DEF Terminators
<1>5. ThreadsKept /\ EntriesKept /\ status' = status
  BY <1>1, <1>4, MoveKeeps DEF WriteLog
<1>6. LogKept
  <2>1. PICK x, y : /\ x = [event |-> Item(t).event, id |-> Item(t).id]
                    /\ y = (IF lineOpen THEN TextLine ELSE x)
    OBVIOUS
  <2>2. x \in GoodLines /\ IsEvent(x) /\ TextLine \in GoodLines
    BY <1>1, <1>3, <2>1, LinesAreKnown DEF Runnable
  <2>3. HasEvent \/ IsEvent(y)
    BY <2>1, <2>2 DEF Running, RunInv, Logging, NotStarted
  <2>4. stdout' = Append(stdout, y) /\ lineOpen' = FALSE
    BY <2>1 DEF WriteLog
  <2>5. y \in GoodLines
    BY <2>1, <2>2
  <2> QED BY <1>5, <2>3, <2>4, <2>5, LineKeeps DEF Running
<1> QED BY <1>5, <1>6 DEF StepOK


\* Only main's log is the first thing to be done.
LEMMA HasBegun ==
  ASSUME Running, NEW t \in Live, Item(t).kind # "log"
  PROVE  ~ NotStarted
<1>1. NotStarted => Item(t) = Log("func_enter", 0)
  BY ThreadItem DEF Running, RunInv
<1> QED BY <1>1, LogFields

LEMMA OriginalNotLog ==
  ASSUME NEW t, IsOriginal(Item(t)) \/ OpOf(Item(t)) # "none"
  PROVE  IsOriginal(Item(t)) /\ Item(t).kind # "log"
BY DEF OpOf, IsOriginal

LEMMA FollowGotoKeeps ==
  ASSUME Running, NEW t \in Live, FollowGoto(t)
  PROVE  StepOK
<1>1. Runnable /\ Logging /\ EntriesOK
  BY DEF Running, RunInv
<1>2. At(t) \in CodePlaces /\ Item(t) = ItemAt(At(t)) /\ Item(t) \in KnownItems /\ Item(t).kind = "goto"
  BY <1>1, ThreadItem DEF FollowGoto
<1>3. Item(t) = Goto
  BY <1>2, OriginalTypes, LogTypes DEF KnownItems, KnownLogs, IsOriginal
<1>4. <<succs[At(t)[1]][1], 1>> \in CodePlaces
  BY <1>1, <1>2, <1>3, PlaceFacts
<1>5. ThreadsKept /\ EntriesKept /\ status' = status
  BY <1>1, <1>4, MoveKeeps DEF FollowGoto
<1>6. LogKept
  BY <1>2, <1>5, HasBegun, QuietKeeps DEF FollowGoto, Running
<1> QED BY <1>5, <1>6 DEF StepOK

LEMMA StraightKeeps ==
  ASSUME Running, NEW t \in Live, Straight(t)
  PROVE  StepOK
<1>1. Runnable /\ Logging /\ EntriesOK
  BY DEF Running, RunInv
<1>2. At(t) \in CodePlaces /\ Item(t) = ItemAt(At(t))
  BY <1>1, ThreadItem
<1>3. IsOriginal(Item(t)) /\ Item(t).kind # "log"
  BY OriginalNotLog DEF Straight
<1>4. NextItem(At(t)) \in CodePlaces
  <2>1. Item(t) # Goto
    BY <1>3, LogTypes
  <2>2. OpAt(At(t)) \notin Terminators
    BY <1>2 DEF Straight, OpAt, Terminators
  <2> QED BY <1>1, <1>2, <2>1, <2>2, PlaceFacts
<1>5. ThreadsKept /\ EntriesKept /\ status' = status
  BY <1>1, <1>4, MoveKeeps DEF Straight
<1>6. LogKept
  BY <1>3, <1>5, HasBegun, QuietKeeps DEF Straight, Running
<1> QED BY <1>5, <1>6 DEF StepOK

LEMMA BranchKeeps ==
  ASSUME Running, NEW t \in Live, Branch(t)
  PROVE  StepOK
<1>1. Runnable /\ Logging /\ EntriesOK
  BY DEF Running, RunInv
<1>2. PICK P, C, s : P = CodePlaces /\ C = CallPlaces /\ s = threads[t]
  OBVIOUS
<1>3. /\ At(t) \in CodePlaces /\ Item(t) = ItemAt(At(t))
      /\ StackOK(P, C, s) /\ s # <<>> /\ t \in DOMAIN threads
  BY <1>1, <1>2, ThreadItem
<1>4. IsOriginal(Item(t)) /\ Item(t).kind # "log"
  BY OriginalNotLog DEF Branch
<1>5. OpAt(At(t)) \in Terminators
  BY <1>3 DEF Branch, OpAt, Terminators
<1>6. \A p \in P : StackOK(P, C, Append(Front(s), p)) /\ Append(Front(s), p) # <<>>
  BY <1>3, MovedOn
<1>7. PICK k \in DOMAIN succs[At(t)[1]] : Follow(t, Front(s), At(t), k)
  BY <1>2 DEF Branch
<1>8. ThreadsKept /\ EntriesKept /\ status' = status
  BY <1>1, <1>2, <1>3, <1>5, <1>6, <1>7, FollowKeeps
<1>9. LogKept
  BY <1>4, <1>8, HasBegun, QuietKeeps DEF Branch, Running
<1> QED BY <1>8, <1>9 DEF StepOK

\* A thread enters a function.
LEMMA EnterKeeps ==
  ASSUME Running, NEW t \in Live, IsOriginal(Item(t)), IsCall(Here(t)), WithinBound,
         NEW f \in Functions(module), ~ IsDeclaration(module, f),
         \/ SetStack(t, threads[t] \o Start(f))
         \/ Len(threads) < MaxThreads /\ threads' = Append(threads, Start(f)),
         entered' = Entered(EntryBlock(module, f)), status' = status, Quiet
  PROVE  StepOK
<1>1. Runnable /\ Logging /\ EntriesOK
  BY DEF Running, RunInv
<1>2. PICK P, C, s, u : P = CodePlaces /\ C = CallPlaces /\ s = threads[t] /\ u = Start(f)
  OBVIOUS
<1>3. /\ At(t) \in CodePlaces /\ Item(t) = ItemAt(At(t))
      /\ StackOK(P, C, s) /\ s # <<>> /\ t \in DOMAIN threads
  BY <1>1, <1>2, ThreadItem
<1>4. Last(s) \in C
  BY <1>1, <1>2, <1>3, OriginalPlace DEF Here, At
<1>5. u \in Seq(P) /\ Len(u) = 1 /\ EntryBlock(module, f) \in Blocks(module)
  BY <1>1, <1>2, FirstPlaces
<1>6. ThreadsKept
  <2>1. CASE SetStack(t, s \o u)
    <3>1. StackOK(P, C, s \o u) /\ s \o u # <<>>
      BY <1>3, <1>4, <1>5, Called
    <3> QED BY <1>1, <1>2, <1>3, <2>1, <3>1, StackSet
  <2>2. CASE Len(threads) < MaxThreads /\ threads' = Append(threads, u)
    <3>1. StackOK(P, C, u)
      BY <1>5 DEF StackOK
    <3>2. PICK ts : ts = threads
      OBVIOUS
    <3>3. ThreadsOK(P, C, MaxThreads, ts) /\ Len(ts) < MaxThreads /\ MaxThreads \in Nat
      BY <1>1, <1>2, <2>2, <3>2, RunAssumption DEF Logging
    <3>4. ThreadsOK(P, C, MaxThreads, Append(ts, u))
      BY <3>1, <3>3, OneThreadMore
    <3> QED BY <1>2, <2>2, <3>2, <3>4 DEF ThreadsKept
  <2> QED BY <1>2, <2>1, <2>2
<1>7. EntriesKept
  BY <1>1, <1>5, EntryCounted
<1>8. LogKept
  BY OriginalNotLog, HasBegun, QuietKeeps DEF Running
<1> QED BY <1>6, <1>7, <1>8 DEF StepOK

LEMMA CallFunctionKeeps ==
  ASSUME Running, NEW t \in Live, CallFunction(t)
  PROVE  StepOK
<1>1. PICK f \in Callees(module, Here(t)) :
        /\ SetStack(t, threads[t] \o Start(f)) /\ entered' = Entered(EntryBlock(module, f))
  BY DEF CallFunction
<1>2. f \in Functions(module) /\ ~ IsDeclaration(module, f)
  BY DEF Callees
<1>3. IsOriginal(Item(t)) /\ IsCall(Here(t)) /\ WithinBound /\ status' = status /\ Quiet
  BY DEF CallFunction
<1> QED BY <1>1, <1>2, <1>3, EnterKeeps

LEMMA CallBackKeeps ==
  ASSUME Running, NEW t \in Live, CallBack(t)
  PROVE  StepOK
<1>1. PICK f \in Handed(module, Here(t)) :
        /\ \/ SetStack(t, threads[t] \o Start(f))
           \/ Len(threads) < MaxThreads /\ threads' = Append(threads, Start(f))
        /\ entered' = Entered(EntryBlock(module, f))
  BY DEF CallBack
<1>2. f \in Functions(module) /\ ~ IsDeclaration(module, f) /\ IsCall(Here(t))
  BY DEF Handed, IsExternalCall
<1>3. IsOriginal(Item(t)) /\ WithinBound /\ status' = status /\ Quiet
  BY DEF CallBack
<1> QED BY <1>1, <1>2, <1>3, EnterKeeps


LEMMA TextKeeps ==
  ASSUME Running, ~ NotStarted, NEW text \in Texts, WriteText(text),
         status' \in {"running", "exited", "crashed"}
  PROVE  LogKept
<1>1. text \in {"none", "line", "open"} /\ Runnable /\ Logging /\ HasEvent
  BY RunAssumption DEF Running, RunInv, Logging
<1>2. CASE text = "none"
  <2>1. Quiet
    BY <1>2 DEF WriteText
  <2> QED BY <2>1, QuietKeeps DEF Running
<1>3. CASE text = "line"
  <2>1. stdout' = Append(stdout, TextLine) /\ lineOpen' = FALSE
    BY <1>3 DEF WriteText
  <2>2. TextLine \in GoodLines
    BY <1>1, LinesAreKnown DEF Runnable
  <2> QED BY <1>1, <2>1, <2>2, LineKeeps DEF Running
<1>4. CASE text = "open"
  <2>1. lineOpen' = TRUE /\ stdout' = stdout
    BY <1>4 DEF WriteText
  <2>2. HasEvent'
    BY <1>1, <2>1 DEF HasEvent
  <2> QED BY <1>1, <2>1, <2>2 DEF LogKept, Logging, Running
<1> QED BY <1>1, <1>2, <1>3, <1>4

\* Unwinding ends at the highest frame that is at an invoke.
LEMMA UnwindKeeps ==
  ASSUME Running, NEW t \in Live, NEW K,
         K = {n \in DOMAIN threads[t] : OpAt(threads[t][n]) = "invoke"}, K # {},
         Follow(t, SubSeq(threads[t], 1, Max(K) - 1), threads[t][Max(K)], 2)
  PROVE  ThreadsKept /\ EntriesKept /\ status' = status
<1>1. Runnable /\ Logging /\ EntriesOK
  BY DEF Running, RunInv
<1>2. PICK P, C, s : P = CodePlaces /\ C = CallPlaces /\ s = threads[t]
  OBVIOUS
<1>3. StackOK(P, C, s) /\ t \in DOMAIN threads
  BY <1>1, <1>2, ThreadItem
<1>4. s \in Seq(P) /\ Len(s) \in Nat /\ DOMAIN s = 1..Len(s)
  BY <1>3 DEF StackOK
<1>5. K \subseteq 1..Len(s)
  BY <1>2, <1>4
<1>6. PICK n : n = Max(K)
  OBVIOUS
<1>7. n \in K
  BY <1>4, <1>5, <1>6, Greatest
<1>8. n \in 1..Len(s) /\ s[n] \in P /\ OpAt(s[n]) = "invoke"
  BY <1>2, <1>4, <1>5, <1>7
<1>9. \A p \in P : /\ StackOK(P, C, Append(SubSeq(s, 1, n - 1), p))
                   /\ Append(SubSeq(s, 1, n - 1), p) # <<>>
  BY <1>3, <1>8, Replaced
<1>10. OpAt(s[n]) \in Terminators
  BY <1>8 DEF Terminators
<1>11. 2 \in DOMAIN succs[s[n][1]]
  BY <1>1, <1>2, <1>8, <1>10, TerminatorFacts
<1>12. Follow(t, SubSeq(s, 1, n - 1), s[n], 2)
  BY <1>2, <1>6
<1> QED BY <1>1, <1>2, <1>3, <1>8, <1>9, <1>10, <1>11, <1>12, FollowKeeps

LEMMA CallExternalKeeps ==
  ASSUME Running, NEW t \in Live, CallExternal(t)
  PROVE  StepOK
<1>1. Runnable /\ Logging /\ EntriesOK /\ status = "running"
  BY DEF Running, RunInv
<1>2. PICK P, C, s : P = CodePlaces /\ C = CallPlaces /\ s = threads[t]
  OBVIOUS
<1>3. /\ At(t) \in CodePlaces /\ Item(t) = ItemAt(At(t))
      /\ StackOK(P, C, s) /\ s # <<>> /\ t \in DOMAIN threads
  BY <1>1, <1>2, ThreadItem
<1>4. IsOriginal(Item(t)) /\ Last(s) \in C
  BY <1>1, <1>2, <1>3, OriginalPlace DEF Here, At, CallExternal
<1>5. ThreadsKept /\ EntriesKept /\ status' \in {"running", "exited", "crashed"}
  <2>1. CASE Resume(t, s)
    BY <1>1, <1>2, <1>3, <1>4, <2>1, ResumeKeeps
  <2>2. CASE Stop("exited")
    BY <1>1, <2>2, AllStay DEF Stop
  <2>3. CASE Stop("crashed")
    BY <1>1, <2>3, AllStay DEF Stop
  <2>4. PICK K : K = {n \in DOMAIN threads[t] : OpAt(threads[t][n]) = "invoke"}
    OBVIOUS
  <2>5. CASE K # {} /\ Follow(t, SubSeq(threads[t], 1, Max(K) - 1), threads[t][Max(K)], 2)
    BY <1>1, <2>4, <2>5, UnwindKeeps
  <2>6. \/ Resume(t, s) \/ Stop("exited") \/ Stop("crashed")
        \/ K # {} /\ Follow(t, SubSeq(threads[t], 1, Max(K) - 1), threads[t][Max(K)], 2)
    BY <1>2, <2>4 DEF CallExternal
  <2> QED BY <2>1, <2>2, <2>3, <2>5, <2>6
<1>6. PICK text \in Texts : WriteText(text)
  BY DEF CallExternal
<1>7. LogKept
  BY <1>4, <1>5, <1>6, OriginalNotLog, HasBegun, TextKeeps
<1> QED BY <1>5, <1>7 DEF StepOK

\* What is left of a line names no more than the line did.
LEMMA CutLineKeeps ==
  ASSUME Runnable, NEW x \in AnyLines, NEW y \in CutLine(x)
  PROVE  y \in AnyLines
<1>1. TextLine \in AnyLines
  BY LinesAreKnown DEF Runnable
<1>2. CASE ~ IsEvent(x)
  BY <1>1, <1>2 DEF CutLine
<1>3. CASE IsEvent(x)
  <2>1. ASSUME NEW bad \in BadLines PROVE [event |-> bad, id |-> 0] \in AnyLines
    BY EventMaps DEF AnyLines, Line, IsEvent, BadLines
  <2>2. ASSUME NEW d \in {1, 10, 100, 1000, 10000, 100000, 1000000} PROVE [x EXCEPT !.id = @ \div d] \in AnyLines
    <3>1. PICK e, i, j : e = x.event /\ i = x.id /\ j = i \div d
      OBVIOUS
    <3>2. x = [event |-> e, id |-> i] /\ e \in Events /\ i \in Nat /\ i \in Range0(e)
      BY <1>3, <3>1 DEF AnyLines, Line, IsEvent
    <3>3. j \in 0..i
      BY <3>1, <3>2
    <3>4. j \in Nat /\ j \in Range0(e)
      <4>1. module.functions \in Nat /\ Len(module.body) \in Nat /\ Len(edges) \in Nat
        BY BodyType, VectorDomain DEF Runnable, InGraph
      <4>2. PICK n \in Nat : n = IF e = "func_enter" THEN module.functions
                                 ELSE IF e = "bb_enter" THEN Len(module.body) ELSE Len(edges)
        BY <4>1
      <4>3. Range0(e) = 0..(n - 1)
        BY <4>2 DEF Range0
      <4> QED BY <3>2, <3>3, <4>2, <4>3
    <3>5. [x EXCEPT !.id = @ \div d] = [event |-> e, id |-> j]
      BY <3>1, <3>2
    <3>6. [event |-> e, id |-> j] \in AnyLines
      BY <3>2, <3>4 DEF AnyLines, Line, IsEvent
    <3> QED BY <3>5, <3>6
  <2>3. CASE y \in {TextLine}
    BY <1>1, <2>3
  <2>4. CASE y \in {[event |-> bad, id |-> 0] : bad \in BadLines}
    BY <2>1, <2>4
  <2>5. CASE y \in {[x EXCEPT !.id = @ \div d] :
                      d \in {p \in {1, 10, 100, 1000, 10000, 100000, 1000000} : p = 1 \/ p <= x.id}}
    BY <2>2, <2>5
  <2> QED BY <1>3, <2>3, <2>4, <2>5 DEF CutLine
<1> QED BY <1>2, <1>3

LEMMA QuitKeeps ==
  ASSUME Running, NEW t \in Live, Quit(t)
  PROVE  StepOK
<1>1. Runnable /\ Logging /\ EntriesOK /\ lineOpen \in BOOLEAN
  BY DEF Running, RunInv
<1>2. PICK S, v : S = AnyLines /\ v = stdout
  OBVIOUS
<1>3. v \in Seq(S) /\ Len(v) \in Nat
  BY <1>1, <1>2 DEF Logging
<1>4. PICK low : low = Max({0, Len(v) - MaxLost})
  OBVIOUS
<1>5. low \in Nat
  <2>1. PICK K : K = {0, Len(v) - MaxLost}
    OBVIOUS
  <2>2. Len(v) - MaxLost \in Int
    BY <1>3, RunAssumption
  <2>3. \E x \in K : \A y \in K : x >= y
    BY <2>1, <2>2
  <2>4. Max(K) \in K /\ \A y \in K : Max(K) >= y
    BY <2>3, Zenon DEF Max
  <2>5. low \in Int /\ low >= 0
    BY <1>4, <2>1, <2>2, <2>4
  <2> QED BY <2>5
<1>6. PICK n \in low..Len(v) :
        \/ stdout' = SubSeq(v, 1, n)
        \/ n < Len(v) /\ \E part \in CutLine(v[n + 1]) : stdout' = Append(SubSeq(v, 1, n), part)
  BY <1>2, <1>4 DEF Quit
<1>7. n \in 0..Len(v)
  BY <1>3, <1>5
<1>8. SubSeq(v, 1, n) \in Seq(S)
  BY <1>3, <1>7, JoinCut
<1>9. stdout' \in Seq(S)
  <2>1. CASE stdout' = SubSeq(v, 1, n)
    BY <1>8, <2>1
  <2>2. CASE n < Len(v) /\ \E part \in CutLine(v[n + 1]) : stdout' = Append(SubSeq(v, 1, n), part)
    <3>1. PICK part \in CutLine(v[n + 1]) : stdout' = Append(SubSeq(v, 1, n), part)
      BY <2>2
    <3>2. v[n + 1] \in S
      BY <1>3, <1>7, <2>2
    <3>3. part \in S
      BY <1>1, <1>2, <3>2, CutLineKeeps
    <3> QED BY <1>8, <3>1, <3>3
  <2> QED BY <1>6, <2>1, <2>2
<1>10. status' = "quit" /\ threads' = threads /\ entered' = entered /\ lineOpen' = lineOpen
  BY DEF Quit, Stop
<1>11. ThreadsKept /\ EntriesKept
  BY <1>1, <1>10, AllStay
<1> QED BY <1>1, <1>2, <1>9, <1>10, <1>11 DEF LogKept, StepOK

LEMMA ReturnKeeps ==
  ASSUME Running, NEW t \in Live, Return(t)
  PROVE  StepOK
<1>1. Runnable /\ Logging /\ EntriesOK /\ status = "running"
  BY DEF Running, RunInv
<1>2. PICK P, C, s, below : /\ P = CodePlaces /\ C = CallPlaces /\ s = threads[t]
                            /\ below = Front(s)
  OBVIOUS
<1>3. StackOK(P, C, s) /\ s # <<>> /\ t \in DOMAIN threads
  BY <1>1, <1>2, ThreadItem
<1>4. StackOK(P, C, below) /\ (below # <<>> => Last(below) \in C)
  BY <1>2, <1>3, Popped
<1>5. Item(t).kind # "log" /\ Quiet
  BY OriginalNotLog DEF Return
<1>6. \/ Stop("exited")
      \/ /\ SetStack(t, below) /\ (t = 1 => below # <<>>)
         /\ UNCHANGED <<status, entered, taken, called>>
      \/ below # <<>> /\ Resume(t, below)
  BY <1>2 DEF Return
<1>7. ThreadsKept /\ EntriesKept /\ status' \in {"running", "exited", "crashed"}
  <2>1. CASE Stop("exited")
    BY <1>1, <2>1, AllStay DEF Stop
  <2>2. CASE /\ SetStack(t, below) /\ (t = 1 => below # <<>>)
             /\ UNCHANGED <<status, entered, taken, called>>
    <3>1. ThreadsKept
      BY <1>1, <1>2, <1>3, <1>4, <2>2, StackSet
    <3> QED BY <1>1, <2>2, <3>1 DEF EntriesKept, EntriesOK
  <2>3. CASE below # <<>> /\ Resume(t, below)
    BY <1>1, <1>2, <1>3, <1>4, <2>3, ResumeKeeps
  <2> QED BY <1>6, <2>1, <2>2, <2>3
<1>8. LogKept
  BY <1>5, <1>7, HasBegun, QuietKeeps DEF Running
<1> QED BY <1>7, <1>8 DEF StepOK

LEMMA CrashKeeps ==
  ASSUME Running, Crash, module' = module
  PROVE  StepOK
<1>1. Logging /\ EntriesOK /\ lineOpen \in BOOLEAN
  BY DEF Running, RunInv
<1>2. /\ status' = "crashed" /\ threads' = threads /\ entered' = entered
      /\ stdout' = stdout /\ lineOpen' = lineOpen
  BY DEF Crash, Stop, Quiet
<1>3. ThreadsKept /\ EntriesKept
  BY <1>1, <1>2, AllStay
<1>4. stdout \in Seq(AnyLines) /\ stdout \in Seq(GoodLines) /\ (NotStarted \/ HasEvent)
  BY <1>1 DEF Logging, Running
<1>5. HasEvent => HasEvent'
  BY <1>2 DEF HasEvent
<1>6. NotStarted => NotStarted'
  BY <1>2 DEF NotStarted, Start
<1> QED BY <1>1, <1>2, <1>3, <1>4, <1>5, <1>6 DEF LogKept, StepOK


\* A step of the program.
\* Whatever the step is, the parts of the state stay right.
LEMMA RunsOn ==
  ASSUME Running, Run
  PROVE  StepOK
<1>1. module' = module
  BY CodeStays DEF Run
<1>2. CASE Crash
  BY <1>1, <1>2, CrashKeeps
<1>3. ASSUME NEW t \in Live,
             \/ WriteLog(t) \/ FollowGoto(t) \/ Straight(t) \/ Branch(t) \/ CallFunction(t)
             \/ CallBack(t) \/ CallExternal(t) \/ Quit(t) \/ Return(t)
      PROVE  StepOK
  BY <1>1, <1>3, WriteLogKeeps, FollowGotoKeeps, StraightKeeps, BranchKeeps, CallFunctionKeeps,
     CallBackKeeps, CallExternalKeeps, QuitKeeps, ReturnKeeps DEF Run
<1> QED BY <1>2, <1>3 DEF Run

LEMMA RunKeeps == InjectInv /\ CodeInv /\ RunInv /\ Run => RunInv'
<1> SUFFICES ASSUME InjectInv, CodeInv, RunInv, Run PROVE RunInv'
  OBVIOUS
<1>1. phase = "injected" /\ status = "running" /\ UNCHANGED buildVars
  BY DEF Run
<1>2. Running
  BY <1>1, InjectedRuns DEF Running
<1>3. /\ module' = module /\ phase' = phase /\ MaxEntries' = MaxEntries
      /\ CodePlaces' = CodePlaces /\ CallPlaces' = CallPlaces
      /\ GoodLines' = GoodLines /\ AnyLines' = AnyLines
  BY <1>1, CodeStays
<1>4. StepOK
  BY <1>1, <1>2, RunsOn DEF Run
<1>5. EntriesOK'
  BY <1>3, <1>4 DEF StepOK, EntriesKept, EntriesOK
<1>6. Logging'
  BY <1>3, <1>4 DEF StepOK, ThreadsKept, LogKept, Logging
<1> QED BY <1>1, <1>3, <1>4, <1>5, <1>6 DEF StepOK, LogKept, RunInv

LEMMA RunInvHolds == RunSpec => [](InjectInv /\ CodeInv /\ RunInv)
<1>1. RunInit => InjectInit
  BY DEF RunInit
<1>2. [RunNext]_<<buildVars, runVars>> => [InjectNext]_<<builderVars, injectVars>>
  BY DEF RunNext, Compile, Run, buildVars
<1>3. RunSpec => InjectSpec
  BY <1>1, <1>2, PTL DEF RunSpec, InjectSpec
<1>4. RunInv /\ UNCHANGED <<buildVars, runVars>> => RunInv'
  <2> SUFFICES ASSUME RunInv, UNCHANGED <<buildVars, runVars>> PROVE RunInv'
    OBVIOUS
  <2>1. /\ module' = module /\ phase' = phase /\ MaxEntries' = MaxEntries
        /\ CodePlaces' = CodePlaces /\ CallPlaces' = CallPlaces
        /\ GoodLines' = GoodLines /\ AnyLines' = AnyLines
    BY CodeStays
  <2>2. /\ threads' = threads /\ status' = status /\ entered' = entered
        /\ stdout' = stdout /\ lineOpen' = lineOpen
    BY DEF runVars
  <2>3. NotStarted => NotStarted'
    BY <2>1, <2>2 DEF NotStarted, Start
  <2>4. HasEvent => HasEvent'
    BY <2>2 DEF HasEvent
  <2>5. Logging => Logging'
    BY <2>1, <2>2, <2>3, <2>4 DEF Logging
  <2> QED BY <2>1, <2>2, <2>3, <2>5 DEF RunInv, EntriesOK
<1>5. InjectInv /\ CodeInv /\ RunInv /\ [RunNext]_<<buildVars, runVars>>
        /\ (InjectInv /\ CodeInv)' => RunInv'
  BY <1>4, CompileKeeps, RunKeeps DEF RunNext
<1> QED BY <1>3, <1>5, RunBegins, CodeInvHolds, PTL DEF RunSpec

------------------------------------------------------------------------------
(***************************************************************************)
(* What runs ahead of a place in the changed code: the rest of a block of  *)
(* the module, once logs and gotos are left out.                           *)
(***************************************************************************)
\* What is left of a sequence from a place on.
RestOf(v, k) == SubSeq(v, k, Len(v))

\* What is before and behind a place makes the sequence.
LEMMA RestBehind ==
  ASSUME NEW S, NEW v \in Seq(S), NEW k \in 1..Len(v)
  PROVE  \E a \in Seq(S) : v = Join(a, RestOf(v, k))
<1>1. Len(v) \in Nat /\ k \in Nat /\ k - 1 \in 0..Len(v)
  OBVIOUS
<1>2. v = SubSeq(v, 1, k - 1) \o SubSeq(v, (k - 1) + 1, Len(v)) /\ SubSeq(v, 1, k - 1) \in Seq(S)
  BY <1>1, JoinCut
<1>3. (k - 1) + 1 = k
  BY <1>1
<1> QED BY <1>2, <1>3 DEF Join, RestOf

\* The item at a place, and what is left behind it.
LEMMA RestApart ==
  ASSUME NEW S, NEW v \in Seq(S), NEW k \in 1..Len(v)
  PROVE  /\ RestOf(v, k) \in Seq(S) /\ Last(RestOf(v, k)) = Last(v) /\ v[k] \in S
         /\ k < Len(v) => RestOf(v, k) = Join(<<v[k]>>, RestOf(v, k + 1))
         /\ k = Len(v) => RestOf(v, k) = <<v[k]>>
         /\ RestOf(v, 1) = v
<1>1. Len(v) \in Nat /\ k \in Nat /\ k - 1 \in 0..Len(v)
  OBVIOUS
<1>2. PICK r : r = RestOf(v, k)
  OBVIOUS
<1>3. r \in Seq(S) /\ Len(r) = Len(v) - k + 1 /\ \A i \in 1..(Len(v) - k + 1) : r[i] = v[k + i - 1]
  BY <1>1, <1>2 DEF RestOf
<1>4. Last(r) = Last(v)
  <2>1. Last(r) = r[Len(r)] /\ Last(v) = v[Len(v)]
    BY DEF Last
  <2> QED BY <1>1, <1>3, <2>1
<1>6. ASSUME k < Len(v) PROVE r = Join(<<v[k]>>, RestOf(v, k + 1))
  <2>1. PICK u : u = RestOf(v, k + 1)
    OBVIOUS
  <2>2. u \in Seq(S) /\ Len(u) = Len(v) - k /\ \A i \in 1..(Len(v) - k) : u[i] = v[k + i]
    BY <1>1, <1>6, <2>1 DEF RestOf
  <2>3. PICK one : one = <<v[k]>>
    OBVIOUS
  <2>4. one \in Seq(S) /\ Len(one) = 1 /\ one[1] = v[k]
    BY <2>3
  <2>5. PICK z : z = one \o u
    OBVIOUS
  <2>6. /\ z \in Seq(S) /\ Len(z) = Len(r)
        /\ \A i \in 1..Len(r) : z[i] = r[i]
    <3>0. IsJoin(S, one, u, z)
      BY <2>2, <2>4, <2>5 DEF IsJoin, Join
    <3>1. /\ Len(z) = Len(one) + Len(u)
          /\ \A i \in 1..Len(one) : z[i] = one[i]
          /\ \A i \in 1..Len(u) : z[Len(one) + i] = u[i]
      BY <3>0, JoinParts
    <3>2. z \in Seq(S) /\ Len(z) = Len(r)
      BY <1>1, <1>3, <2>2, <2>4, <2>5, <3>1
    <3>3. ASSUME NEW i \in 1..Len(r) PROVE z[i] = r[i]
      <4>1. CASE i = 1
        BY <1>1, <1>3, <2>4, <3>1, <4>1
      <4>2. CASE i # 1
        <5>1. i - 1 \in 1..(Len(v) - k) /\ i \in Nat
          BY <1>1, <1>3, <4>2
        <5>2. z[1 + (i - 1)] = u[i - 1]
          BY <2>2, <2>4, <3>1, <5>1
        <5>3. u[i - 1] = v[k + (i - 1)]
          BY <2>2, <5>1
        <5>4. r[i] = v[k + i - 1]
          BY <1>3
        <5>5. 1 + (i - 1) = i /\ k + (i - 1) = k + i - 1
          BY <1>1, <5>1
        <5> QED BY <5>2, <5>3, <5>4, <5>5
      <4> QED BY <4>1, <4>2
    <3> QED BY <3>2, <3>3
  <2>7. z = r
    BY <1>3, <2>6, SeqEqual
  <2> QED BY <2>1, <2>3, <2>5, <2>7 DEF Join
<1>7. k = Len(v) => r = <<v[k]>>
  BY <1>1, <1>3
<1>8. RestOf(v, 1) = v
  BY DEF RestOf
<1>9. v[k] \in S
  OBVIOUS
<1> QED BY <1>2, <1>3, <1>4, <1>6, <1>7, <1>8, <1>9

\* A walk goes through a block, and on through a goto at its end.
LEMMA WalkUnfolds ==
  ASSUME NEW m, NEW L, NEW heads, NEW mids, NEW done, NEW new, NEW cd, NEW sc,
         IsSplit(m, L, heads, mids, done, new, cd, sc), NEW w, w = WalkOf(cd, sc)
  PROVE  \A c \in DOMAIN cd :
           /\ Last(cd[c]) = Goto => w[c] = Join(Front(cd[c]), w[sc[c][1]])
           /\ Last(cd[c]) # Goto => w[c] = cd[c]
<1>1. IsWalk(cd, sc, w)
  <2>1. \E x : IsWalk(cd, sc, x)
    BY WalkThere
  <2> QED BY <2>1 DEF WalkOf
<1>2. w = Further(cd, sc, w)
  BY <1>1 DEF IsWalk
<1>3. \A x : \A c \in DOMAIN cd :
        /\ Last(cd[c]) = Goto => Further(cd, sc, x)[c] = Join(Front(cd[c]), x[sc[c][1]])
        /\ Last(cd[c]) # Goto => Further(cd, sc, x)[c] = cd[c]
  BY DEF Further
<1>4. PICK u : u = Further(cd, sc, w)
  OBVIOUS
<1>5. \A c \in DOMAIN cd :
        /\ Last(cd[c]) = Goto => u[c] = Join(Front(cd[c]), w[sc[c][1]])
        /\ Last(cd[c]) # Goto => u[c] = cd[c]
  BY <1>3, <1>4
<1>6. u = w
  BY <1>2, <1>4, Zenon
<1> QED BY <1>5, <1>6

\* What runs from somewhere in the code is the rest of a block of the module.
IsTail(m, b, v) == /\ v \in Seq(OriginalItems(m)) /\ v # <<>>
                   /\ \E a \in Seq(OriginalItems(m)) : BodyOf(m, b) = Join(a, v)

Leads(m, cd, sc, w) ==
  \A c \in DOMAIN cd :
    /\ cd[c] \in Seq(Items(m)) /\ cd[c] # <<>> /\ w[c] \in Seq(Items(m))
    /\ \A k \in 1..Len(cd[c]) : EndsIn(m, cd[c][k]) <=> k = Len(cd[c])
    /\ \E b \in Blocks(m) : IsTail(m, b, KeptIn(w[c], OriginalItems(m)))
    /\ Last(cd[c]) = Goto => sc[c][1] \in DOMAIN cd /\ w[c] = Join(Front(cd[c]), w[sc[c][1]])
    /\ Last(cd[c]) # Goto => w[c] = cd[c]

\* Of a block that is laid out, the last part or all.
LEMMA LaidTail ==
  ASSUME NEW m, WellFormed(m), NEW b \in Blocks(m), NEW head, NEW mid,
         IsLaid(m, b, head, mid), NEW st \in {head, <<>>}
  PROVE  IsTail(m, b, Laid(m, b, st, KeptIn(mid, OriginalItems(m))))
<1>1. PICK O, k, l, r : /\ O = OriginalItems(m) /\ k = KeptIn(mid, O) /\ l = LastOf(m, b)
                        /\ r = Join(k, <<l>>)
  OBVIOUS
<1>2. /\ head \in Seq(Phis(m, b)) /\ mid \in Seq(Middles(m, b)) /\ Join(head, r) = BodyOf(m, b)
  BY <1>1 DEF IsLaid, Laid
<1>3. Phis(m, b) \subseteq O /\ l \in O
  BY <1>1, BlockItems
<1>4. head \in Seq(O) /\ <<>> \in Seq(O) /\ <<l>> \in Seq(O)
  BY <1>2, <1>3, ShortSequences
<1>5. k \in Seq(O)
  <2>1. PICK S : S = Middles(m, b)
    OBVIOUS
  <2>2. mid \in Seq(S)
    BY <1>2, <2>1
  <2>3. k \in Seq(S)
    BY <1>1, <2>2, KeptJoined
  <2>4. \A y : Holds(k, y) => y \in O
    BY <1>1, <2>2, KeptHolds
  <2>5. \A i \in 1..Len(k) : k[i] \in O
    BY <2>4 DEF Holds
  <2> QED BY <2>3, <2>5
<1>6. r \in Seq(O) /\ Holds(r, l)
  <2>1. r \in Seq(O)
    BY <1>1, <1>4, <1>5, JoinType
  <2>2. Holds(<<l>>, l)
    BY DEF Holds
  <2>3. Holds(r, l) <=> Holds(k, l) \/ Holds(<<l>>, l)
    BY <1>1, <1>4, <1>5, HoldsOfJoin
  <2> QED BY <2>1, <2>2, <2>3
<1>7. PICK v : v = Join(st, r)
  OBVIOUS
<1>8. v \in Seq(O) /\ Holds(v, l)
  <2>1. st \in Seq(O)
    BY <1>4
  <2>2. Holds(v, l) <=> Holds(st, l) \/ Holds(r, l)
    BY <1>6, <1>7, <2>1, HoldsOfJoin
  <2> QED BY <1>6, <1>7, <2>1, <2>2, JoinType
<1>9. v # <<>>
  BY <1>8 DEF Holds
<1>10. \E a \in Seq(O) : BodyOf(m, b) = Join(a, v)
  <2>1. CASE st = head
    <3>1. v \in Seq(O) /\ BodyOf(m, b) = v
      BY <1>2, <1>7, <1>8, <2>1
    <3>2. Join(<<>>, v) = v
      BY <3>1, JoinEmpty
    <3> QED BY <1>4, <3>1, <3>2
  <2>2. CASE st = <<>>
    <3>1. v = r
      BY <1>6, <1>7, <2>2, JoinEmpty
    <3> QED BY <1>2, <1>4, <3>1
  <2> QED BY <2>1, <2>2
<1> QED BY <1>1, <1>7, <1>8, <1>9, <1>10 DEF IsTail, Laid

LEMMA LastTail ==
  ASSUME NEW m, WellFormed(m), NEW b \in Blocks(m)
  PROVE  IsTail(m, b, <<LastOf(m, b)>>) /\ IsTail(m, b, BodyOf(m, b))
<1>1. PICK O, l : O = OriginalItems(m) /\ l = LastOf(m, b)
  OBVIOUS
<1>2. PICK head, mid : /\ IsLaid(m, b, head, mid) /\ mid \in Seq(Inner(m, b))
                       /\ BodyOf(m, b) = Laid(m, b, head, mid)
  BY BodyIsLaid
<1>3. Phis(m, b) \subseteq O /\ Inner(m, b) \subseteq O /\ l \in O
  BY <1>1, BlockItems
<1>4. head \in Seq(O) /\ mid \in Seq(O) /\ <<l>> \in Seq(O) /\ <<>> \in Seq(O)
  BY <1>2, <1>3, ShortSequences DEF IsLaid
<1>5. BodyOf(m, b) = Join(Join(head, mid), <<l>>) /\ Join(head, mid) \in Seq(O)
  <2>1. BodyOf(m, b) = Join(head, Join(mid, <<l>>))
    BY <1>1, <1>2 DEF Laid
  <2>2. PICK one : one = <<l>>
    OBVIOUS
  <2>4. Join(head, Join(mid, one)) = Join(Join(head, mid), one)
    <3>1. one \in Seq(O) /\ head \in Seq(O) /\ mid \in Seq(O)
      BY <1>4, <2>2
    <3>2. Join(Join(head, mid), one) = Join(head, Join(mid, one))
      BY <3>1, JoinAssociative
    <3> QED BY <3>2
  <2>3. Join(head, mid) \in Seq(O)
    BY <1>4, JoinType
  <2> QED BY <2>1, <2>2, <2>3, <2>4
<1>6. BodyOf(m, b) \in Seq(O) /\ BodyOf(m, b) # <<>>
  <2>1. IsEndedBy(O, Join(head, mid), l, BodyOf(m, b))
    BY <1>3, <1>5 DEF IsEndedBy
  <2> QED BY <2>1, Ending
<1>7. BodyOf(m, b) = Join(<<>>, BodyOf(m, b))
  BY <1>6, JoinEmpty
<1>8. <<l>> # <<>>
  OBVIOUS
<1> QED BY <1>1, <1>4, <1>5, <1>6, <1>7, <1>8 DEF IsTail

LEMMA CodeLeads ==
  ASSUME NEW m, NEW L, NEW heads, NEW mids, NEW done, NEW new, NEW cd, NEW sc,
         IsSplit(m, L, heads, mids, done, new, cd, sc), NEW w, w = WalkOf(cd, sc)
  PROVE  Leads(m, cd, sc, w)
<1>1. /\ WellFormed(m) /\ Placed(m, heads, mids) /\ done \subseteq CfgEdges(m)
      /\ \A b \in Blocks(m) : sc[b] = SuccsNow(m, done, new, b)
      /\ \A e \in done : /\ sc[new[e]] = <<EdgeTarget(m, e)>> /\ IsMarked(m, L, e)
                         /\ cd[new[e]] = Between(m, L, heads, e)
  BY DEF IsSplit, Changed
<1>2. /\ \A c \in DOMAIN cd : c \in Blocks(m) \/ \E e \in done : c = new[e]
      /\ \A e \in done : new[e] \in DOMAIN cd
  BY Numbers
<1>3. \A c \in DOMAIN cd :
        /\ Last(cd[c]) = Goto => w[c] = Join(Front(cd[c]), w[sc[c][1]])
        /\ Last(cd[c]) # Goto => w[c] = cd[c]
  BY WalkUnfolds
<1>4. /\ \A e \in CfgEdges(m) : EdgeTarget(m, e) \in Blocks(m) /\ e[1] \in Blocks(m)
      /\ \A b \in Blocks(m) : LastOf(m, b) # Goto
  <2>1. \A e \in CfgEdges(m) : EdgeTarget(m, e) \in Blocks(m) /\ e[1] \in Blocks(m)
    BY <1>1, EdgeParts
  <2>2. ASSUME NEW b \in Blocks(m) PROVE LastOf(m, b) # Goto
    BY <1>1, BlockItems, OriginalTypes
  <2> QED BY <2>1, <2>2
<1>5. ASSUME NEW c \in DOMAIN cd
      PROVE  /\ cd[c] \in Seq(Items(m)) /\ cd[c] # <<>>
             /\ \A k \in 1..Len(cd[c]) : EndsIn(m, cd[c][k]) <=> k = Len(cd[c])
             /\ \A k \in DOMAIN sc[c] : sc[c][k] \in DOMAIN cd
  BY BlocksFormed
<1>6. ASSUME NEW c \in Blocks(m)
      PROVE  /\ w[c] \in Seq(Items(m)) /\ IsTail(m, c, KeptIn(w[c], OriginalItems(m)))
             /\ Last(cd[c]) = Goto => 1 \in DOMAIN sc[c]
  <2>1. PICK v : v = w[c]
    OBVIOUS
  <2>2. v = Join(FrontOf(m, heads, mids, done, c), EndsOf(m, L, done, c))
    BY <2>1, WalkParts
  <2>3. /\ v \in Seq(Items(m))
        /\ KeptIn(v, OriginalItems(m))
             = Laid(m, c, StartOf(m, heads, done, c), KeptIn(mids[c], OriginalItems(m)))
    <3>1. /\ v \in Seq(Items(m))
          /\ KeptIn(v, OriginalItems(m))
               = Laid(m, c, StartOf(m, heads, done, c), KeptIn(mids[c], OriginalItems(m)))
          /\ KeptIn(v, EntryItems) = KeptIn(mids[c], EntryItems)
          /\ KeptIn(v, CfgItems) = IF Shifted(m, done, c) THEN <<L[<<c, 1>>]>> ELSE <<>>
      BY <2>2, ThroughKept
    <3> QED BY <3>1
  <2>4. PICK st : st = StartOf(m, heads, done, c)
    OBVIOUS
  <2>5. st \in {heads[c], <<>>}
    BY <2>4 DEF StartOf
  <2>6. IsTail(m, c, Laid(m, c, st, KeptIn(mids[c], OriginalItems(m))))
    BY <1>1, <2>5, LaidTail DEF Placed
  <2>7. ASSUME Last(cd[c]) = Goto PROVE 1 \in DOMAIN sc[c]
    <3>1. IsEndedBy(Items(m), FrontOf(m, heads, mids, done, c), EndOf(m, done, c), cd[c])
      BY BlockEnds
    <3>2. EndOf(m, done, c) = Goto
      BY <2>7, <3>1, Ending
    <3>3. Shifted(m, done, c)
      BY <1>4, <3>2 DEF EndOf
    <3>4. Len(Successors(m, c)) = 1
      BY <3>3 DEF Shifted, Follows
    <3>5. DOMAIN sc[c] = 1..Len(Successors(m, c))
      BY <1>1 DEF SuccsNow
    <3> QED BY <3>4, <3>5
  <2> QED BY <2>1, <2>3, <2>4, <2>6, <2>7
<1>7. ASSUME NEW e \in done
      PROVE  LET c == new[e] IN
               /\ w[c] \in Seq(Items(m))
               /\ \E b \in Blocks(m) : IsTail(m, b, KeptIn(w[c], OriginalItems(m)))
               /\ 1 \in DOMAIN sc[c]
  <2>1. PICK c, t, s : c = new[e] /\ t = EdgeTarget(m, e) /\ s = e[1]
    OBVIOUS
  <2>2. t \in Blocks(m) /\ s \in Blocks(m) /\ c \in DOMAIN cd
    BY <1>1, <1>2, <1>4, <2>1
  <2>3. 1 \in DOMAIN sc[c]
    <3>1. sc[c] = <<t>>
      BY <1>1, <2>1
    <3> QED BY <3>1
  <2>4. CASE Follows(m, e)
    <3>1. PICK l, x : l = LastOf(m, s) /\ x = L[e]
      OBVIOUS
    <3>2. l # Goto /\ l \in OriginalItems(m) /\ l \in Items(m)
      BY <1>1, <1>4, <2>2, <3>1, BlockItems DEF Items
    <3>3. x \in CfgItems /\ x \in Items(m) /\ x \notin OriginalItems(m)
      <4>1. x \in CfgItems
        BY <1>1, <3>1 DEF IsMarked
      <4> QED BY <4>1, LogTypes, OriginalTypes DEF Items
    <3>4. cd[c] = <<x, l>>
      BY <1>1, <2>1, <2>4, <3>1 DEF Between
    <3>5. w[c] = cd[c]
      <4>1. Last(cd[c]) = l
        BY <3>4 DEF Last
      <4> QED BY <1>3, <2>2, <3>2, <4>1
    <3>6. KeptIn(<<x, l>>, OriginalItems(m)) = Join(<<>>, <<l>>)
      <4>1. PICK S, T : S = Items(m) /\ T = OriginalItems(m)
        OBVIOUS
      <4>2. KeptIn(<<x, l>>, T)
              = Join(IF x \in T THEN <<x>> ELSE <<>>, IF l \in T THEN <<l>> ELSE <<>>)
        <5>1. x \in S /\ l \in S
          BY <3>2, <3>3, <4>1
        <5> QED BY <5>1, KeptOfPair
      <4> QED BY <3>2, <3>3, <4>1, <4>2
    <3>7. Join(<<>>, <<l>>) = <<l>>
      BY <3>2, ShortSequences, JoinEmpty
    <3>8. w[c] \in Seq(Items(m))
      BY <1>5, <2>2, <3>5
    <3>9. IsTail(m, s, KeptIn(w[c], OriginalItems(m)))
      BY <1>1, <2>2, <3>1, <3>4, <3>5, <3>6, <3>7, LastTail
    <3> QED BY <2>1, <2>2, <2>3, <3>8, <3>9
  <2>5. CASE ~ Follows(m, e)
    <3>1. e \in CfgEdges(m) /\ Detours(m, done, e)
      BY <1>1, <2>5 DEF Detours
    <3>2. ArrivalIn(m, cd, sc, e) = c
      BY <2>1, <3>1, Arrivals
    <3>3. w[c] \in Seq(Items(m)) /\ KeptIn(w[c], OriginalItems(m)) = BodyOf(m, t)
      <4>1. PICK v : v = w[ArrivalIn(m, cd, sc, e)]
        OBVIOUS
      <4>2. v \in Seq(Items(m)) /\ KeptIn(v, OriginalItems(m)) = BodyOf(m, EdgeTarget(m, e))
        BY <3>1, <4>1, RunsInto
      <4> QED BY <2>1, <3>2, <4>1, <4>2
    <3>4. IsTail(m, t, KeptIn(w[c], OriginalItems(m)))
      BY <1>1, <2>2, <3>3, LastTail
    <3> QED BY <2>1, <2>2, <2>3, <3>3, <3>4
  <2> QED BY <2>4, <2>5
<1>8. ASSUME NEW c \in DOMAIN cd
      PROVE  /\ w[c] \in Seq(Items(m))
             /\ \E b \in Blocks(m) : IsTail(m, b, KeptIn(w[c], OriginalItems(m)))
             /\ Last(cd[c]) = Goto => 1 \in DOMAIN sc[c]
  <2>1. CASE c \in Blocks(m)
    BY <1>6, <2>1
  <2>2. CASE \E e \in done : c = new[e]
    BY <1>7, <2>2
  <2> QED BY <1>2, <2>1, <2>2
<1> QED BY <1>3, <1>5, <1>8 DEF Leads

\* The items that run from a place on, and the original ones among them.
OnFrom(cd, sc, w, c, k) ==
  IF Last(RestOf(cd[c], k)) = Goto THEN Join(RestOf(cd[c], k), w[sc[c][1]]) ELSE RestOf(cd[c], k)
Ahead(m, cd, sc, w, c, k) == KeptIn(OnFrom(cd, sc, w, c, k), OriginalItems(m))

\* A goto has what its target leads to ahead.
LEMMA AheadParts ==
  ASSUME NEW m, NEW cd, NEW sc, NEW w, Leads(m, cd, sc, w), NEW c \in DOMAIN cd,
         NEW k \in 1..Len(cd[c])
  PROVE  /\ OnFrom(cd, sc, w, c, k) \in Seq(Items(m))
         /\ Ahead(m, cd, sc, w, c, k)
              = IF Last(cd[c]) = Goto
                THEN Join(KeptIn(RestOf(cd[c], k), OriginalItems(m)),
                          KeptIn(w[sc[c][1]], OriginalItems(m)))
                ELSE KeptIn(RestOf(cd[c], k), OriginalItems(m))
<1>1. PICK v, r, O, S : v = cd[c] /\ r = RestOf(v, k) /\ O = OriginalItems(m) /\ S = Items(m)
  OBVIOUS
<1>2. /\ v \in Seq(S) /\ (Last(v) = Goto => sc[c][1] \in DOMAIN cd)
      /\ \A d \in DOMAIN cd : w[d] \in Seq(S)
  BY <1>1 DEF Leads
<1>3. r \in Seq(S) /\ Last(r) = Last(v)
  BY <1>1, <1>2, RestApart
<1>4. CASE Last(v) = Goto
  <2>1. PICK u : u = w[sc[c][1]]
    OBVIOUS
  <2>2. u \in Seq(S) /\ OnFrom(cd, sc, w, c, k) = Join(r, u)
    BY <1>1, <1>2, <1>3, <1>4, <2>1 DEF OnFrom
  <2>3. KeptIn(Join(r, u), O) = Join(KeptIn(r, O), KeptIn(u, O))
    BY <1>3, <2>2, KeptOfJoin
  <2>4. Join(r, u) \in Seq(S)
    BY <1>3, <2>2, JoinType
  <2> QED BY <1>1, <1>4, <2>1, <2>2, <2>3, <2>4 DEF Ahead
<1>5. CASE Last(v) # Goto
  BY <1>1, <1>3, <1>5 DEF OnFrom, Ahead
<1> QED BY <1>4, <1>5

\* What the code between places contributes: nothing if it is not original.
LEMMA AheadOf ==
  ASSUME NEW m, WellFormed(m), NEW cd, NEW sc, NEW w, Leads(m, cd, sc, w), NEW c \in DOMAIN cd,
         NEW k \in 1..Len(cd[c]), NEW x, x = cd[c][k], NEW A, A = Ahead(m, cd, sc, w, c, k)
  PROVE  /\ k < Len(cd[c]) =>
              A = Join(IF x \in OriginalItems(m) THEN <<x>> ELSE <<>>, Ahead(m, cd, sc, w, c, k + 1))
         /\ x = Goto => A = KeptIn(w[sc[c][1]], OriginalItems(m))
         /\ k = Len(cd[c]) /\ x # Goto => x \in OriginalItems(m) /\ A = <<x>>
         /\ x = Goto \/ OpIn(m, x) \in Terminators <=> k = Len(cd[c])
<1>1. PICK v, r, O, S : v = cd[c] /\ r = RestOf(v, k) /\ O = OriginalItems(m) /\ S = Items(m)
  OBVIOUS
<1>2. PICK u : u = KeptIn(w[sc[c][1]], O)
  OBVIOUS
<1>3. /\ v \in Seq(S) /\ (Last(v) = Goto => sc[c][1] \in DOMAIN cd)
      /\ \A d \in DOMAIN cd : w[d] \in Seq(S)
      /\ \A j \in 1..Len(v) : EndsIn(m, v[j]) <=> j = Len(v)
  BY <1>1 DEF Leads
<1>4. x = v[k] /\ x \in S /\ k \in 1..Len(v) /\ Len(v) \in Nat
  BY <1>1, <1>3
<1>5. /\ r \in Seq(S) /\ Last(r) = Last(v)
      /\ k < Len(v) => r = Join(<<x>>, RestOf(v, k + 1))
      /\ k = Len(v) => r = <<x>>
  BY <1>1, <1>3, <1>4, RestApart
<1>6. A = IF Last(v) = Goto THEN Join(KeptIn(r, O), u) ELSE KeptIn(r, O)
  BY <1>1, <1>2, AheadParts
<1>7. PICK one : one = IF x \in O THEN <<x>> ELSE <<>>
  OBVIOUS
<1>8. one = KeptIn(<<x>>, O) /\ one \in Seq(S)
  <2>1. one = KeptIn(<<x>>, O)
    BY <1>4, <1>7, KeptOne
  <2> QED BY <1>4, <1>7, <2>1, ShortSequences
<1>9. EndsIn(m, x) <=> k = Len(v)
  BY <1>3, <1>4
<1>10. u \in Seq(S) \/ Last(v) # Goto
  BY <1>2, <1>3, KeptJoined
<1>11. ASSUME k < Len(v) PROVE A = Join(one, Ahead(m, cd, sc, w, c, k + 1))
  <2>1. k + 1 \in 1..Len(v)
    BY <1>4, <1>11
  <2>2. PICK q, kq, B : q = RestOf(v, k + 1) /\ kq = KeptIn(q, O) /\ B = Ahead(m, cd, sc, w, c, k + 1)
    OBVIOUS
  <2>3. q \in Seq(S)
    BY <1>3, <2>1, <2>2, RestApart
  <2>4. kq \in Seq(S)
    BY <2>2, <2>3, KeptJoined
  <2>5. B = IF Last(v) = Goto THEN Join(kq, u) ELSE kq
    BY <1>1, <1>2, <2>1, <2>2, AheadParts
  <2>6. KeptIn(r, O) = Join(one, kq)
    <3>1. PICK o : o = <<x>>
      OBVIOUS
    <3>2. o \in Seq(S)
      BY <1>4, <3>1
    <3>3. KeptIn(Join(o, q), O) = Join(KeptIn(o, O), KeptIn(q, O))
      BY <2>3, <3>2, KeptOfJoin
    <3> QED BY <1>5, <1>8, <1>11, <2>2, <3>1, <3>3
  <2>7. CASE Last(v) = Goto
    <3>1. Join(Join(one, kq), u) = Join(one, Join(kq, u))
      BY <1>8, <1>10, <2>4, <2>7, JoinAssociative
    <3> QED BY <1>6, <2>2, <2>5, <2>6, <2>7, <3>1
  <2>8. CASE Last(v) # Goto
    BY <1>6, <2>2, <2>5, <2>6, <2>8
  <2> QED BY <2>7, <2>8
<1>12. ASSUME x = Goto PROVE A = u
  <2>1. k = Len(v)
    BY <1>9, <1>12 DEF EndsIn
  <2>2. Last(v) = Goto
    BY <1>4, <1>12, <2>1 DEF Last
  <2>3. x \notin O
    BY <1>1, <1>12, OriginalTypes
  <2>4. KeptIn(r, O) = <<>>
    BY <1>5, <1>7, <1>8, <2>1, <2>3
  <2> QED BY <1>6, <1>10, <2>2, <2>4, JoinEmpty
<1>13. ASSUME k = Len(v), x # Goto PROVE x \in O /\ A = <<x>>
  <2>1. OpIn(m, x) \in Terminators
    BY <1>9, <1>13 DEF EndsIn
  <2>2. IsOriginal(x)
    BY <2>1 DEF OpIn, Terminators
  <2>3. x \in O
    BY <1>1, <1>4, <2>2, OriginalTypes
  <2>4. Last(v) = x
    BY <1>4, <1>13 DEF Last
  <2> QED BY <1>5, <1>6, <1>7, <1>8, <1>13, <2>3, <2>4
<1>14. x = Goto \/ OpIn(m, x) \in Terminators <=> k = Len(cd[c])
  BY <1>1, <1>9 DEF EndsIn
<1> QED BY <1>1, <1>2, <1>7, <1>11, <1>12, <1>13, <1>14

LEMMA KeptType ==
  ASSUME NEW S, NEW T, NEW v \in Seq(S)
  PROVE  KeptIn(v, T) \in Seq(T)
<1>1. PICK k : k = KeptIn(v, T)
  OBVIOUS
<1>2. k \in Seq(S) /\ \A y : Holds(k, y) => y \in T
  BY <1>1, KeptJoined, KeptHolds
<1>3. \A i \in 1..Len(k) : k[i] \in T
  BY <1>2 DEF Holds
<1>4. k \in Seq(T)
  BY <1>2, <1>3
<1> QED BY <1>1, <1>4

LEMMA TailOfTail ==
  ASSUME NEW m, NEW b, NEW v, IsTail(m, b, v), NEW a \in Seq(OriginalItems(m)),
         NEW u \in Seq(OriginalItems(m)), u # <<>>, v = Join(a, u)
  PROVE  IsTail(m, b, u)
<1>1. PICK O : O = OriginalItems(m)
  OBVIOUS
<1>2. PICK z \in Seq(O) : BodyOf(m, b) = Join(z, v)
  BY <1>1 DEF IsTail
<1>3. /\ Join(z, Join(a, u)) = Join(Join(z, a), u)
      /\ Join(z, a) \in Seq(O)
  <2>1. Join(Join(z, a), u) = Join(z, Join(a, u))
    BY <1>1, JoinAssociative
  <2>2. Join(z, a) \in Seq(O)
    BY <1>1, JoinType
  <2> QED BY <2>1, <2>2
<1> QED BY <1>1, <1>2, <1>3 DEF IsTail

\* From everywhere, the rest of a block of the module is ahead.
LEMMA AheadTails ==
  ASSUME NEW m, WellFormed(m), NEW cd, NEW sc, NEW w, Leads(m, cd, sc, w), NEW c \in DOMAIN cd
  PROVE  /\ Ahead(m, cd, sc, w, c, 1) = KeptIn(w[c], OriginalItems(m))
         /\ \A k \in 1..Len(cd[c]) : \E b \in Blocks(m) : IsTail(m, b, Ahead(m, cd, sc, w, c, k))
<1>1. PICK v, O, S, u, K, kv : /\ v = cd[c] /\ O = OriginalItems(m) /\ S = Items(m)
                               /\ u = KeptIn(w[sc[c][1]], O) /\ K = KeptIn(w[c], O)
                               /\ kv = KeptIn(v, O)
  OBVIOUS
<1>2. /\ v \in Seq(S) /\ v # <<>>
      /\ Last(v) = Goto => sc[c][1] \in DOMAIN cd /\ w[c] = Join(Front(v), w[sc[c][1]])
      /\ Last(v) # Goto => w[c] = v
      /\ \A d \in DOMAIN cd : /\ w[d] \in Seq(S)
                              /\ \E b \in Blocks(m) : IsTail(m, b, KeptIn(w[d], O))
      /\ \A j \in 1..Len(v) : EndsIn(m, v[j]) <=> j = Len(v)
  BY <1>1 DEF Leads
<1>3. Len(v) \in Nat /\ Len(v) >= 1 /\ Last(v) = v[Len(v)] /\ Last(v) \in S /\ Front(v) \in Seq(S)
  BY <1>2, FrontLast
<1>4. Last(v) = Goto => u \in Seq(O) /\ u # <<>>
  BY <1>1, <1>2 DEF IsTail
<1>5. kv \in Seq(O) /\ kv \in Seq(S)
  BY <1>1, <1>2, KeptType, KeptJoined
<1>6. K = IF Last(v) = Goto THEN Join(kv, u) ELSE kv
  <2>1. CASE Last(v) = Goto
    <3>1. PICK f, g, s : f = Front(v) /\ g = <<Goto>> /\ s = w[sc[c][1]]
      OBVIOUS
    <3>2. f \in Seq(S) /\ g \in Seq(S) /\ s \in Seq(S) /\ w[c] = Join(f, s) /\ Goto \in S
      BY <1>2, <1>3, <2>1, <3>1
    <3>3. v = Join(f, g)
      <4>1. PICK n : n = Len(v)
        OBVIOUS
      <4>2. n \in 1..Len(v) /\ v[n] = Goto
        <5>1. n \in Nat /\ n >= 1
          BY <1>3, <4>1
        <5>2. n \in 1..Len(v)
          BY <4>1, <5>1
        <5>3. v[n] = Goto
          BY <1>3, <2>1, <4>1
        <5> QED BY <5>2, <5>3
      <4>3. /\ \E a \in Seq(S) : v = Join(a, RestOf(v, n))
            /\ n = Len(v) => RestOf(v, n) = <<v[n]>>
        <5>1. v \in Seq(S)
          BY <1>2
        <5>2. \E a \in Seq(S) : v = Join(a, RestOf(v, n))
          BY <4>2, <5>1, RestBehind
        <5>3. n = Len(v) => RestOf(v, n) = <<v[n]>>
          BY <4>2, <5>1, RestApart
        <5> QED BY <5>2, <5>3
      <4>4. PICK a \in Seq(S) : v = Join(a, g)
        BY <3>1, <4>1, <4>2, <4>3
      <4>5. IsEndedBy(S, a, Goto, v)
        BY <3>1, <3>2, <4>4 DEF IsEndedBy
      <4> QED BY <3>1, <4>4, <4>5, Ending
    <3>4. KeptIn(g, O) = <<>>
      <4>1. Goto \notin O
        BY <1>1, OriginalTypes
      <4> QED BY <3>1, <3>2, <4>1, KeptOne
    <3>5. /\ KeptIn(Join(f, g), O) = Join(KeptIn(f, O), KeptIn(g, O))
          /\ KeptIn(Join(f, s), O) = Join(KeptIn(f, O), KeptIn(s, O))
      BY <3>2, KeptOfJoin
    <3>6. KeptIn(f, O) \in Seq(O)
      BY <3>2, KeptType
    <3>7. kv = KeptIn(f, O)
      BY <1>1, <3>3, <3>4, <3>5, <3>6, JoinEmpty
    <3> QED BY <1>1, <2>1, <3>1, <3>2, <3>5, <3>7
  <2>2. CASE Last(v) # Goto
    BY <1>1, <1>2, <2>2
  <2> QED BY <2>1, <2>2
<1>7. ASSUME NEW k \in 1..Len(v)
      PROVE  Ahead(m, cd, sc, w, c, k)
               = IF Last(v) = Goto THEN Join(KeptIn(RestOf(v, k), O), u) ELSE KeptIn(RestOf(v, k), O)
  BY <1>1, AheadParts
<1>8. Ahead(m, cd, sc, w, c, 1) = K
  <2>1. 1 \in 1..Len(v)
    BY <1>3
  <2>2. RestOf(v, 1) = v
    BY <1>2, <2>1, RestApart
  <2> QED BY <1>1, <1>6, <1>7, <2>1, <2>2
<1>9. ASSUME NEW k \in 1..Len(v)
      PROVE  \E b \in Blocks(m) : IsTail(m, b, Ahead(m, cd, sc, w, c, k))
  <2>1. PICK r, kr, A : r = RestOf(v, k) /\ kr = KeptIn(r, O) /\ A = Ahead(m, cd, sc, w, c, k)
    OBVIOUS
  <2>2. r \in Seq(S) /\ Last(r) = Last(v) /\ \E a \in Seq(S) : v = Join(a, r)
    <3>1. RestOf(v, k) \in Seq(S) /\ Last(RestOf(v, k)) = Last(v)
      BY <1>2, RestApart
    <3>2. \E a \in Seq(S) : v = Join(a, RestOf(v, k))
      <4>1. v \in Seq(S)
        BY <1>2
      <4> QED BY <4>1, RestBehind
    <3> QED BY <2>1, <3>1, <3>2
  <2>3. PICK a \in Seq(S) : v = Join(a, r)
    BY <2>2
  <2>4. PICK ka : ka = KeptIn(a, O)
    OBVIOUS
  <2>5. kv = Join(ka, kr) /\ ka \in Seq(O) /\ kr \in Seq(O)
    <3>1. KeptIn(Join(a, r), O) = Join(KeptIn(a, O), KeptIn(r, O))
      BY <2>2, KeptOfJoin
    <3>2. ka \in Seq(O) /\ kr \in Seq(O)
      BY <2>1, <2>2, <2>4, KeptType
    <3> QED BY <1>1, <2>1, <2>3, <2>4, <3>1, <3>2
  <2>6. A = IF Last(v) = Goto THEN Join(kr, u) ELSE kr
    BY <1>7, <2>1
  <2>7. A \in Seq(O) /\ A # <<>> /\ K = Join(ka, A)
    <3>1. CASE Last(v) = Goto
      <4>1. A = Join(kr, u) /\ u \in Seq(O) /\ u # <<>>
        BY <1>4, <2>6, <3>1
      <4>2. A \in Seq(O)
        BY <2>5, <4>1, JoinType
      <4>3. A # <<>>
        <5>1. Holds(u, u[1])
          BY <4>1 DEF Holds
        <5>2. Holds(A, u[1])
          BY <2>5, <4>1, <5>1, HoldsOfJoin
        <5> QED BY <4>2, <5>2 DEF Holds
      <4>4. Join(Join(ka, kr), u) = Join(ka, Join(kr, u))
        BY <2>5, <4>1, JoinAssociative
      <4> QED BY <1>6, <2>5, <3>1, <4>1, <4>2, <4>3, <4>4
    <3>2. CASE Last(v) # Goto
      <4>1. A = kr /\ K = kv
        BY <1>6, <2>6, <3>2
      <4>2. Last(v) \in O
        <5>1. EndsIn(m, Last(v))
          BY <1>2, <1>3
        <5>2. IsOriginal(Last(v))
          BY <3>2, <5>1 DEF EndsIn, OpIn, Terminators
        <5> QED BY <1>1, <1>3, <5>2, OriginalTypes
      <4>3. Holds(r, Last(v))
        <5>1. r # <<>>
          <6>1. Len(r) = Len(v) - k + 1
            BY <1>2, <1>3, <2>1 DEF RestOf
          <6>2. Len(r) >= 1
            BY <1>3, <6>1
          <6> QED BY <6>2
        <5>2. Len(r) \in Nat /\ Len(r) >= 1 /\ Last(r) = r[Len(r)]
          BY <2>2, <5>1, FrontLast
        <5>3. Len(r) \in 1..Len(r)
          BY <5>2
        <5> QED BY <2>2, <5>2, <5>3 DEF Holds
      <4>4. Holds(kr, Last(v))
        BY <2>1, <2>2, <4>2, <4>3, KeptHolds
      <4>5. kr # <<>>
        BY <2>5, <4>4 DEF Holds
      <4> QED BY <2>5, <4>1, <4>5
    <3> QED BY <3>1, <3>2
  <2>8. PICK b \in Blocks(m) : IsTail(m, b, K)
    BY <1>1, <1>2
  <2>9. IsTail(m, b, A)
    BY <1>1, <2>5, <2>7, <2>8, TailOfTail
  <2> QED BY <2>1, <2>9
<1> QED BY <1>1, <1>8, <1>9

NextsOf(m, cd, sc, w) == [p \in (DOMAIN cd) \X Nat |-> Ahead(m, cd, sc, w, p[1], p[2])[1].at]

\* The first original item ahead, as seen from each kind of item.
LEMMA FirstAhead ==
  ASSUME NEW m, WellFormed(m), NEW cd, NEW sc, NEW w, Leads(m, cd, sc, w), NEW c \in DOMAIN cd,
         NEW k \in 1..Len(cd[c]), NEW x, x = cd[c][k], NEW N,
         N = NextsOf(m, cd, sc, w)
  PROVE  /\ x \in OriginalItems(m) => N[<<c, k>>] = x.at
         /\ x \notin OriginalItems(m) /\ x # Goto => N[<<c, k>>] = N[<<c, k + 1>>]
         /\ x = Goto => N[<<c, k>>] = N[<<sc[c][1], 1>>]
         /\ x \in OriginalItems(m) /\ OpIn(m, x) \notin Terminators =>
              N[<<c, k + 1>>] = <<x.at[1], x.at[2] + 1>>
<1>1. PICK v, O, A, B : /\ v = cd[c] /\ O = OriginalItems(m) /\ A = Ahead(m, cd, sc, w, c, k)
                        /\ B = Ahead(m, cd, sc, w, c, k + 1)
  OBVIOUS
<1>2. Len(v) \in Nat /\ k \in Nat /\ k \in 1..Len(v) /\ x \in Items(m)
  <2>1. v \in Seq(Items(m))
    BY <1>1 DEF Leads
  <2> QED BY <1>1, <2>1
<1>3. N[<<c, k>>] = A[1].at /\ N[<<c, k + 1>>] = B[1].at
  <2>1. <<c, k>> \in (DOMAIN cd) \X Nat /\ <<c, k + 1>> \in (DOMAIN cd) \X Nat
    BY <1>2
  <2>2. /\ N[<<c, k>>] = Ahead(m, cd, sc, w, <<c, k>>[1], <<c, k>>[2])[1].at
        /\ N[<<c, k + 1>>] = Ahead(m, cd, sc, w, <<c, k + 1>>[1], <<c, k + 1>>[2])[1].at
    BY <2>1 DEF NextsOf
  <2> QED BY <1>1, <2>2
<1>4. /\ k < Len(v) => A = Join(IF x \in O THEN <<x>> ELSE <<>>, B)
      /\ x = Goto => A = KeptIn(w[sc[c][1]], O)
      /\ k = Len(v) /\ x # Goto => x \in O /\ A = <<x>>
      /\ x = Goto \/ OpIn(m, x) \in Terminators <=> k = Len(v)
  BY <1>1, AheadOf
<1>5. \E b \in Blocks(m) : IsTail(m, b, A)
  BY <1>1, <1>2, AheadTails
<1>6. k < Len(v) => \E b \in Blocks(m) : IsTail(m, b, B)
  <2> SUFFICES ASSUME k < Len(v) PROVE \E b \in Blocks(m) : IsTail(m, b, B)
    OBVIOUS
  <2>1. k + 1 \in 1..Len(cd[c])
    BY <1>1, <1>2
  <2> QED BY <1>1, <2>1, AheadTails
<1>7. k < Len(v) => B \in Seq(O) /\ B # <<>>
  BY <1>1, <1>6 DEF IsTail
<1>8. ASSUME x \in O PROVE A[1] = x
  <2>1. CASE k < Len(v)
    <3>1. A = Join(<<x>>, B) /\ B \in Seq(O)
      BY <1>4, <1>7, <1>8, <2>1
    <3> QED BY <1>8, <3>1, FirstOfJoin
  <2>2. CASE k = Len(v)
    <3>1. x # Goto
      BY <1>1, <1>8, OriginalTypes
    <3>2. A = <<x>>
      BY <1>4, <2>2, <3>1
    <3> QED BY <3>2
  <2> QED BY <1>2, <2>1, <2>2
<1>9. ASSUME x \notin O, x # Goto PROVE A = B
  <2>1. k < Len(v)
    BY <1>2, <1>4, <1>9
  <2>2. A = Join(<<>>, B) /\ B \in Seq(O)
    BY <1>4, <1>7, <1>9, <2>1
  <2> QED BY <2>2, JoinEmpty
<1>10. ASSUME x = Goto PROVE N[<<c, k>>] = N[<<sc[c][1], 1>>]
  <2>1. k = Len(v) /\ A = KeptIn(w[sc[c][1]], O)
    BY <1>4, <1>10
  <2>2. PICK d : d = sc[c][1]
    OBVIOUS
  <2>3. d \in DOMAIN cd
    <3>1. Last(v) = Goto
      BY <1>1, <1>10, <2>1 DEF Last
    <3> QED BY <1>1, <2>2, <3>1 DEF Leads
  <2>4. Ahead(m, cd, sc, w, d, 1) = KeptIn(w[d], O)
    BY <1>1, <2>3, AheadTails
  <2>5. N[<<d, 1>>] = Ahead(m, cd, sc, w, d, 1)[1].at
    <3>1. <<d, 1>> \in (DOMAIN cd) \X Nat
      BY <2>3
    <3>2. N[<<d, 1>>] = Ahead(m, cd, sc, w, <<d, 1>>[1], <<d, 1>>[2])[1].at
      BY <3>1 DEF NextsOf
    <3> QED BY <3>2
  <2> QED BY <1>3, <2>1, <2>2, <2>4, <2>5
<1>11. ASSUME x \in O, OpIn(m, x) \notin Terminators
       PROVE  B[1].at = <<x.at[1], x.at[2] + 1>>
  <2>1. x # Goto
    BY <1>1, <1>11, OriginalTypes
  <2>2. k < Len(v)
    BY <1>2, <1>4, <1>11, <2>1
  <2>3. PICK one : one = <<x>>
    OBVIOUS
  <2>4. A = Join(one, B) /\ B \in Seq(O) /\ B # <<>> /\ one \in Seq(O) /\ Len(one) = 1
    BY <1>4, <1>7, <1>11, <2>2, <2>3
  <2>5. PICK b \in Blocks(m) : IsTail(m, b, A)
    BY <1>5
  <2>6. PICK a \in Seq(O) : BodyOf(m, b) = Join(a, A) /\ A \in Seq(O)
    BY <1>1, <2>5 DEF IsTail
  <2>7. PICK n, z : n = Len(a) /\ z = BodyOf(m, b)
    OBVIOUS
  <2>8. /\ A[1] = one[1] /\ A[2] = B[1] /\ 1 \in 1..Len(A) /\ 2 \in 1..Len(A)
    <3>1. IsJoin(O, one, B, A)
      BY <2>4 DEF IsJoin
    <3>2. /\ \A i \in 1..Len(one) : i \in 1..Len(A) /\ A[i] = one[i]
          /\ \A i \in 1..Len(B) : Len(one) + i \in 1..Len(A) /\ A[Len(one) + i] = B[i]
      BY <3>1, JoinParts
    <3>3. 1 \in 1..Len(one) /\ 1 \in 1..Len(B) /\ Len(one) + 1 = 2
      BY <2>4
    <3> QED BY <3>2, <3>3
  <2>9. /\ n + 1 \in 1..Len(z) /\ z[n + 1] = A[1] /\ n + 2 \in 1..Len(z) /\ z[n + 2] = A[2] /\ n \in Nat
    <3>1. IsJoin(O, a, A, z)
      BY <2>6, <2>7 DEF IsJoin
    <3>2. Len(a) \in Nat /\ \A i \in 1..Len(A) : Len(a) + i \in 1..Len(z) /\ z[Len(a) + i] = A[i]
      BY <3>1, JoinParts
    <3> QED BY <2>7, <2>8, <3>2
  <2>10. \A i \in 1..Len(z) : z[i] = Original(b, i)
    <3>1. Len(z) \in Nat /\ DOMAIN z = 1..Len(z)
      <4>1. z \in Seq(O)
        BY <2>6, <2>7, JoinType
      <4> QED BY <4>1
    <3>2. \A i \in DOMAIN z : z[i] = Original(b, i)
      BY <2>7 DEF BodyOf
    <3> QED BY <3>1, <3>2
  <2>11. one[1] = x
    BY <2>3
  <2>12. x = Original(b, n + 1) /\ B[1] = Original(b, n + 2)
    BY <2>8, <2>9, <2>10, <2>11
  <2>13. x.at = <<b, n + 1>> /\ B[1].at = <<b, n + 2>>
    BY <2>12, OriginalFields
  <2>14. x.at[1] = b /\ x.at[2] = n + 1 /\ (n + 1) + 1 = n + 2
    BY <2>9, <2>13
  <2> QED BY <2>13, <2>14
<1> QED BY <1>1, <1>3, <1>8, <1>9, <1>10, <1>11

\* What runs a whole body starts with its first instruction.
LEMMA BodyAhead ==
  ASSUME NEW m, WellFormed(m), NEW cd, NEW sc, NEW w, Leads(m, cd, sc, w), NEW c \in DOMAIN cd,
         NEW b \in Blocks(m), KeptIn(w[c], OriginalItems(m)) = BodyOf(m, b)
  PROVE  NextsOf(m, cd, sc, w)[<<c, 1>>] = <<b, 1>>
<1>1. PICK v : v = BodyOf(m, b)
  OBVIOUS
<1>2. NextsOf(m, cd, sc, w)[<<c, 1>>] = v[1].at
  <2>1. Ahead(m, cd, sc, w, c, 1) = v
    BY <1>1, AheadTails
  <2>2. <<c, 1>> \in (DOMAIN cd) \X Nat
    OBVIOUS
  <2>3. NextsOf(m, cd, sc, w)[<<c, 1>>] = Ahead(m, cd, sc, w, <<c, 1>>[1], <<c, 1>>[2])[1].at
    BY <2>2 DEF NextsOf
  <2> QED BY <2>1, <2>3
<1>3. v[1] = Original(b, 1)
  <2>1. v # <<>> /\ v \in Seq(OriginalItems(m))
    BY <1>1, LastTail DEF IsTail
  <2>2. 1 \in DOMAIN v
    BY <2>1
  <2> QED BY <1>1, <2>2 DEF BodyOf
<1> QED BY <1>2, <1>3, OriginalFields

\* A terminator of the module is in one place of the code.
LEMMA OneHome ==
  ASSUME NEW m, NEW L, NEW heads, NEW mids, NEW done, NEW new, NEW cd, NEW sc,
         IsSplit(m, L, heads, mids, done, new, cd, sc), NEW b \in Blocks(m),
         NEW c \in DOMAIN cd, Last(cd[c]) = LastOf(m, b)
  PROVE  c = HomeIn(m, cd, b)
<1>1. /\ \A d \in Blocks(m) : Last(cd[d]) = EndOf(m, done, d)
      /\ \A e \in done : Last(cd[new[e]]) = EndBetween(m, e)
  <2>1. /\ \A d \in Blocks(m) :
             IsEndedBy(Items(m), FrontOf(m, heads, mids, done, d), EndOf(m, done, d), cd[d])
        /\ \A e \in done :
             IsEndedBy(Items(m), FrontBetween(m, L, heads, e), EndBetween(m, e), cd[new[e]])
    BY BlockEnds
  <2>2. ASSUME NEW d \in Blocks(m) PROVE Last(cd[d]) = EndOf(m, done, d)
    BY <2>1, Ending
  <2>3. ASSUME NEW e \in done PROVE Last(cd[new[e]]) = EndBetween(m, e)
    BY <2>1, Ending
  <2> QED BY <2>2, <2>3
<1>2. WellFormed(m) /\ done \subseteq CfgEdges(m)
  BY DEF IsSplit, Changed
<1>3. /\ \A d \in Blocks(m) : LastOf(m, d) # Goto
      /\ \A d, f \in Blocks(m) : LastOf(m, d) = LastOf(m, f) => d = f
  <2>1. ASSUME NEW d \in Blocks(m) PROVE LastOf(m, d) # Goto /\ LastOf(m, d).at[1] = d
    BY <1>2, BlockItems, OriginalTypes
  <2> QED BY <2>1
<1>4. /\ ~ Shifted(m, done, b) => HomeIn(m, cd, b) = b
      /\ Shifted(m, done, b) => /\ <<b, 1>> \in done /\ Follows(m, <<b, 1>>)
                                /\ HomeIn(m, cd, b) = new[<<b, 1>>]
  BY Homes
<1>5. CASE c \in Blocks(m)
  <2>1. EndOf(m, done, c) = LastOf(m, b)
    BY <1>1, <1>5
  <2>2. ~ Shifted(m, done, c) /\ LastOf(m, c) = LastOf(m, b)
    BY <1>3, <2>1 DEF EndOf
  <2>3. c = b
    BY <1>3, <1>5, <2>2
  <2> QED BY <1>4, <2>2, <2>3
<1>6. CASE \E e \in done : c = new[e]
  <2>1. PICK e \in done : c = new[e]
    BY <1>6
  <2>2. EndBetween(m, e) = LastOf(m, b)
    BY <1>1, <2>1
  <2>3. Follows(m, e) /\ LastOf(m, e[1]) = LastOf(m, b)
    BY <1>3, <2>2 DEF EndBetween
  <2>4. e \in CfgEdges(m)
    BY <1>2
  <2>5. e[1] \in Blocks(m) /\ e = <<e[1], e[2]>> /\ e[2] = 1
    <3>1. e[1] \in Blocks(m) /\ e = <<e[1], e[2]>>
      BY <1>2, <2>4, EdgeParts
    <3>2. e[2] = 1
      BY <1>2, <2>3, <2>4, SplitOnce
    <3> QED BY <3>1, <3>2
  <2>6. e[1] = b
    BY <1>3, <2>3, <2>5
  <2>7. e = <<b, 1>> /\ Shifted(m, done, b)
    BY <2>3, <2>5, <2>6 DEF Shifted
  <2> QED BY <1>4, <2>1, <2>7
<1> QED BY <1>5, <1>6, Numbers

\* What the original program does next, from each kind of place.
LEMMA NextsAre ==
  ASSUME NEW m, NEW L, NEW heads, NEW mids, NEW done, NEW new, NEW cd, NEW sc,
         IsSplit(m, L, heads, mids, done, new, cd, sc), NEW w, w = WalkOf(cd, sc),
         NEW N, N = NextsOf(m, cd, sc, w)
  PROVE  /\ \A c \in DOMAIN cd : \A b \in Blocks(m) : Last(cd[c]) = LastOf(m, b) =>
              \A j \in 1..Len(Successors(m, b)) : N[<<sc[c][j], 1>>] = <<Successors(m, b)[j], 1>>
         /\ \A b \in Blocks(m) : Phis(m, b) = {} => N[<<b, 1>>] = <<b, 1>>
<1>1. WellFormed(m) /\ Placed(m, heads, mids) /\ done \subseteq CfgEdges(m)
  BY DEF IsSplit, Changed
<1>2. Leads(m, cd, sc, w)
  BY CodeLeads
<1>3. ASSUME NEW c \in DOMAIN cd, NEW b \in Blocks(m), Last(cd[c]) = LastOf(m, b),
             NEW j \in 1..Len(Successors(m, b))
      PROVE  N[<<sc[c][j], 1>>] = <<Successors(m, b)[j], 1>>
  <2>1. PICK e, t, d : e = <<b, j>> /\ t = Successors(m, b)[j] /\ d = sc[c][j]
    OBVIOUS
  <2>2. e \in CfgEdges(m) /\ EdgeTarget(m, e) = t /\ t \in Blocks(m) /\ e[1] = b /\ e[2] = j
    BY <1>1, <2>1, EdgeParts
  <2>3. ArrivalIn(m, cd, sc, e) = d
    <3>1. c = HomeIn(m, cd, b)
      BY <1>3, OneHome
    <3> QED BY <2>1, <2>2, <3>1 DEF ArrivalIn
  <2>4. d \in DOMAIN cd
    <3>1. d = IF Detours(m, done, e) THEN new[e] ELSE EdgeTarget(m, e)
      BY <2>2, <2>3, Arrivals
    <3>2. (\A f \in Blocks(m) : f \in DOMAIN cd) /\ \A f \in done : new[f] \in DOMAIN cd
      BY Numbers
    <3> QED BY <2>2, <3>1, <3>2 DEF Detours
  <2>5. KeptIn(w[d], OriginalItems(m)) = BodyOf(m, t)
    <3>1. PICK v : v = w[ArrivalIn(m, cd, sc, e)]
      OBVIOUS
    <3>2. v \in Seq(Items(m)) /\ KeptIn(v, OriginalItems(m)) = BodyOf(m, EdgeTarget(m, e))
      BY <2>2, <3>1, RunsInto
    <3> QED BY <2>2, <2>3, <3>1, <3>2
  <2> QED BY <1>1, <1>2, <2>1, <2>2, <2>4, <2>5, BodyAhead
<1>4. ASSUME NEW b \in Blocks(m), Phis(m, b) = {} PROVE N[<<b, 1>>] = <<b, 1>>
  <2>1. PICK v, head, mid : v = w[b] /\ head = heads[b] /\ mid = KeptIn(mids[b], OriginalItems(m))
    OBVIOUS
  <2>2. head \in Seq(Phis(m, b)) /\ Laid(m, b, head, mid) = BodyOf(m, b)
    BY <1>1, <2>1 DEF Placed, IsLaid
  <2>3. head = <<>>
    BY <1>4, <2>2
  <2>4. v = Join(FrontOf(m, heads, mids, done, b), EndsOf(m, L, done, b))
    BY <2>1, WalkParts
  <2>5. /\ v \in Seq(Items(m))
        /\ KeptIn(v, OriginalItems(m))
             = Laid(m, b, StartOf(m, heads, done, b), KeptIn(mids[b], OriginalItems(m)))
        /\ KeptIn(v, EntryItems) = KeptIn(mids[b], EntryItems)
        /\ KeptIn(v, CfgItems) = IF Shifted(m, done, b) THEN <<L[<<b, 1>>]>> ELSE <<>>
    BY <2>4, ThroughKept
  <2>6. StartOf(m, heads, done, b) = head
    BY <2>1, <2>3 DEF StartOf
  <2>7. KeptIn(w[b], OriginalItems(m)) = BodyOf(m, b)
    BY <2>1, <2>2, <2>5, <2>6
  <2>8. b \in DOMAIN cd
    BY Numbers
  <2> QED BY <1>1, <1>2, <2>7, <2>8, BodyAhead
<1> QED BY <1>3, <1>4

------------------------------------------------------------------------------
(***************************************************************************)
(* The program seen through its original instructions.                     *)
(***************************************************************************)
\* N gives for every place the next instruction of the original program.
Guides(N) ==
  /\ \A p \in CodePlaces :
       /\ NextOriginal(p) = N[p]
       /\ IsOriginal(ItemAt(p)) => N[p] = ItemAt(p).at
       /\ ItemAt(p).kind = "log" => N[p] = N[NextItem(p)]
       /\ ItemAt(p) = Goto => N[p] = N[<<succs[p[1]][1], 1>>]
       /\ IsOriginal(ItemAt(p)) /\ OpAt(p) \notin Terminators =>
            N[NextItem(p)] = <<ItemAt(p).at[1], ItemAt(p).at[2] + 1>>
       /\ \A b \in Blocks(module) : ItemAt(p) = LastOf(module, b) =>
            \A j \in 1..Len(Successors(module, b)) :
              N[<<succs[p[1]][j], 1>>] = <<Successors(module, b)[j], 1>>
  /\ \A f \in Functions(module) : ~ IsDeclaration(module, f) =>
       LET e == EntryBlock(module, f) IN N[<<e, 1>>] = <<e, 1>> /\ <<e, 1>> \in CodePlaces

\* What the nexts N say of place <<c, k>>, where item x is.
GuideRight(m, cd, sc, w, N, c, k, x) ==
  /\ Ahead(m, cd, sc, w, c, k)[1].at = N[<<c, k>>]
  /\ IsOriginal(x) => N[<<c, k>>] = x.at
  /\ x.kind = "log" => N[<<c, k>>] = N[<<c, k + 1>>]
  /\ x = Goto => N[<<c, k>>] = N[<<sc[c][1], 1>>]
  /\ IsOriginal(x) /\ OpIn(m, x) \notin Terminators =>
       N[<<c, k + 1>>] = <<x.at[1], x.at[2] + 1>>
  /\ \A b \in Blocks(m) : x = LastOf(m, b) =>
       \A j \in 1..Len(Successors(m, b)) : N[<<sc[c][j], 1>>] = <<Successors(m, b)[j], 1>>

\* The facts about one place.
LEMMA GuideAt ==
  ASSUME NEW m, NEW L, NEW heads, NEW mids, NEW done, NEW new, NEW cd, NEW sc,
         IsSplit(m, L, heads, mids, done, new, cd, sc), NEW w, w = WalkOf(cd, sc),
         NEW N, N = NextsOf(m, cd, sc, w), NEW c \in DOMAIN cd, NEW k \in 1..Len(cd[c]),
         NEW x, x = cd[c][k]
  PROVE  GuideRight(m, cd, sc, w, N, c, k, x)
<1>1. WellFormed(m) /\ Leads(m, cd, sc, w)
  <2>1. WellFormed(m)
    BY DEF IsSplit, Changed
  <2> QED BY <2>1, CodeLeads
<1>2. /\ cd[c] \in Seq(Items(m)) /\ cd[c] # <<>>
      /\ \A i \in 1..Len(cd[c]) : EndsIn(m, cd[c][i]) <=> i = Len(cd[c])
  BY <1>1 DEF Leads
<1>3. x \in Items(m)
  BY <1>2
<1>4. (IsOriginal(x) <=> x \in OriginalItems(m)) /\ (x.kind = "log" => x \notin OriginalItems(m) /\ x # Goto)
  BY <1>3, OriginalTypes, LogTypes DEF Items, IsOriginal
<1>5. /\ x \in OriginalItems(m) => N[<<c, k>>] = x.at
      /\ x \notin OriginalItems(m) /\ x # Goto => N[<<c, k>>] = N[<<c, k + 1>>]
      /\ x = Goto => N[<<c, k>>] = N[<<sc[c][1], 1>>]
      /\ x \in OriginalItems(m) /\ OpIn(m, x) \notin Terminators =>
           N[<<c, k + 1>>] = <<x.at[1], x.at[2] + 1>>
  BY <1>1, FirstAhead
<1>6. Ahead(m, cd, sc, w, c, k)[1].at = N[<<c, k>>]
  <2>1. <<c, k>> \in (DOMAIN cd) \X Nat
    BY <1>2
  <2>2. N[<<c, k>>] = Ahead(m, cd, sc, w, <<c, k>>[1], <<c, k>>[2])[1].at
    BY <2>1 DEF NextsOf
  <2> QED BY <2>2
<1>7. ASSUME NEW b \in Blocks(m), x = LastOf(m, b)
      PROVE  \A j \in 1..Len(Successors(m, b)) : N[<<sc[c][j], 1>>] = <<Successors(m, b)[j], 1>>
  <2>1. EndsIn(m, x)
    BY <1>1, <1>7, BlockItems DEF EndsIn
  <2>2. k = Len(cd[c])
    BY <1>2, <2>1
  <2>3. Last(cd[c]) = LastOf(m, b)
    BY <1>7, <2>2 DEF Last
  <2> QED BY <2>3, NextsAre
<1> QED BY <1>4, <1>5, <1>6, <1>7 DEF GuideRight

\* The next original instruction is the first of those ahead.
LEMMA NextIsAhead ==
  ASSUME NEW m, NEW w, w = WalkOf(code, succs), Leads(m, code, succs, w), NEW c \in DOMAIN code,
         NEW k \in 1..Len(code[c])
  PROVE  NextOriginal(<<c, k>>) = Ahead(m, code, succs, w, c, k)[1].at
<1>1. PICK cd, sc, v : cd = code /\ sc = succs /\ v = OnFrom(cd, sc, w, c, k)
  OBVIOUS
<1>2. v \in Seq(Items(m)) /\ Ahead(m, cd, sc, w, c, k) = KeptIn(v, OriginalItems(m))
  BY <1>1, AheadParts DEF Ahead
<1>3. Originals(v) = KeptIn(v, OriginalItems(m))
  BY <1>2, KeptItems
<1>4. \A b : Through(b) = w[b]
  BY ThroughIsWalk
<1>5. NextOriginal(<<c, k>>) = Originals(v)[1].at
  <2>1. v = IF Last(SubSeq(code[c], k, Len(code[c]))) = Goto
            THEN SubSeq(code[c], k, Len(code[c])) \o Through(succs[c][1])
            ELSE SubSeq(code[c], k, Len(code[c]))
    BY <1>1, <1>4 DEF OnFrom, RestOf, Join
  <2> QED BY <2>1 DEF NextOriginal
<1> QED BY <1>1, <1>2, <1>3, <1>5

\* There is a guide once the code has been split.
LEMMA GuideThere ==
  ASSUME InjectInv, Executable(module)
  PROVE  \E N : Guides(N)
<1>1. WellFormed(module)
  BY NowSplit
<1>2. PICK heads, mids, done, new :
        IsSplit(module, CfgLogOf, heads, mids, done, new, code, succs)
  BY NowSplit
<1>3. PICK m, cd, sc, L, w, N : /\ m = module /\ cd = code /\ sc = succs /\ L = CfgLogOf
                                /\ w = WalkOf(cd, sc) /\ N = NextsOf(m, cd, sc, w)
  OBVIOUS
<1>4. IsSplit(m, L, heads, mids, done, new, cd, sc) /\ WellFormed(m)
  BY <1>1, <1>2, <1>3
<1>5. Leads(m, cd, sc, w)
  BY <1>3, <1>4, CodeLeads
<1>6. ASSUME NEW p \in CodePlaces
      PROVE  /\ NextOriginal(p) = N[p]
             /\ IsOriginal(ItemAt(p)) => N[p] = ItemAt(p).at
             /\ ItemAt(p).kind = "log" => N[p] = N[NextItem(p)]
             /\ ItemAt(p) = Goto => N[p] = N[<<succs[p[1]][1], 1>>]
             /\ IsOriginal(ItemAt(p)) /\ OpAt(p) \notin Terminators =>
                  N[NextItem(p)] = <<ItemAt(p).at[1], ItemAt(p).at[2] + 1>>
             /\ \A b \in Blocks(module) : ItemAt(p) = LastOf(module, b) =>
                  \A j \in 1..Len(Successors(module, b)) :
                    N[<<succs[p[1]][j], 1>>] = <<Successors(module, b)[j], 1>>
  <2>1. PICK c, k, x : c = p[1] /\ k = p[2] /\ x = cd[c][k]
    OBVIOUS
  <2>2. c \in DOMAIN cd /\ k \in 1..Len(cd[c]) /\ p = <<c, k>> /\ x = cd[c][k]
    BY <1>3, <2>1 DEF CodePlaces
  <2>8. w = WalkOf(cd, sc) /\ N = NextsOf(m, cd, sc, w)
    BY <1>3
  <2>3. /\ Ahead(m, cd, sc, w, c, k)[1].at = N[<<c, k>>]
        /\ IsOriginal(x) => N[<<c, k>>] = x.at
        /\ x.kind = "log" => N[<<c, k>>] = N[<<c, k + 1>>]
        /\ x = Goto => N[<<c, k>>] = N[<<sc[c][1], 1>>]
        /\ IsOriginal(x) /\ OpIn(m, x) \notin Terminators =>
             N[<<c, k + 1>>] = <<x.at[1], x.at[2] + 1>>
        /\ \A b \in Blocks(m) : x = LastOf(m, b) =>
             \A j \in 1..Len(Successors(m, b)) : N[<<sc[c][j], 1>>] = <<Successors(m, b)[j], 1>>
    <3>1. GuideRight(m, cd, sc, w, N, c, k, x)
      BY <1>4, <2>2, <2>8, GuideAt
    <3> QED BY <3>1 DEF GuideRight
  <2>4. NextOriginal(<<c, k>>) = Ahead(m, cd, sc, w, c, k)[1].at
    BY <1>3, <1>5, <2>2, NextIsAhead
  <2>5. ItemAt(p) = x /\ OpAt(p) = OpIn(m, x) /\ NextItem(p) = <<c, k + 1>>
    BY <1>3, <2>1 DEF ItemAt, OpAt, OpOf, OpIn, NextItem
  <2>6. NextOriginal(p) = N[p]
    BY <2>2, <2>3, <2>4
  <2>7. N[p] = N[<<c, k>>]
    BY <2>2
  <2> QED BY <1>3, <2>1, <2>3, <2>5, <2>6, <2>7
<1>7. ASSUME NEW f \in Functions(module), ~ IsDeclaration(module, f)
      PROVE  LET e == EntryBlock(module, f) IN N[<<e, 1>>] = <<e, 1>> /\ <<e, 1>> \in CodePlaces
  <2>1. PICK e : e = EntryBlock(module, f)
    OBVIOUS
  <2>2. e \in Blocks(m) /\ IsEntryBlock(m, e)
    <3>1. Len(module.body) \in Nat
      BY <1>1, BodyType
    <3>2. e \in BlocksOf(m, f) /\ \A d \in BlocksOf(m, f) : e <= d
      BY <1>3, <1>7, <2>1, <3>1, EntryBlockIsFirst
    <3>3. e \in Blocks(m) /\ m.function_of[e] = f
      BY <3>2 DEF BlocksOf
    <3> QED BY <3>2, <3>3 DEF IsEntryBlock
  <2>3. Phis(m, e) = {}
    BY <1>3, <2>2 DEF Executable, Phis
  <2>4. N[<<e, 1>>] = <<e, 1>>
    BY <1>3, <1>4, <2>2, <2>3, NextsAre
  <2>5. e \in DOMAIN cd
    BY <1>4, <2>2, Numbers
  <2>6. 1 \in 1..Len(cd[e])
    <3>1. cd[e] \in Seq(Items(m)) /\ cd[e] # <<>>
      BY <1>5, <2>5 DEF Leads
    <3> QED BY <3>1
  <2>7. <<e, 1>> \in CodePlaces
    BY <1>3, <2>5, <2>6 DEF CodePlaces
  <2> QED BY <2>1, <2>4, <2>7
<1> QED BY <1>6, <1>7 DEF Guides

\* What runs from a place stays what it is while the code does.
LEMMA AllWalk == \A b : Through(b) = WalkOf(code, succs)[b]
BY ThroughIsWalk

LEMMA AllWalkNext == \A b : Through(b)' = WalkOf(code', succs')[b]
<1>1. (\A b : Through(b) = WalkOf(code, succs)[b])'
  BY AllWalk, PTL
<1> QED BY <1>1

\* What is ahead stays while the code does.
LEMMA NextStays ==
  ASSUME UNCHANGED <<code, succs>>
  PROVE  \A p : NextOriginal(p)' = NextOriginal(p)
<1>1. \A b : Through(b)' = Through(b)
  BY AllWalk, AllWalkNext
<1> QED BY <1>1 DEF NextOriginal

LEMMA GuideStays ==
  ASSUME NEW N, Guides(N), UNCHANGED <<module, code, succs>>
  PROVE  Guides(N)'
<1>1. CodePlaces' = CodePlaces /\ \A p : /\ ItemAt(p)' = ItemAt(p) /\ OpAt(p)' = OpAt(p)
                                        /\ NextOriginal(p)' = NextOriginal(p)
  BY NextStays DEF CodePlaces, ItemAt, OpAt, OpOf
<1> QED BY <1>1 DEF Guides

\* A stack seen through N, and the stacks of all threads.
On(N, s) == [n \in DOMAIN s |-> N[s[n]]]
Targets(N, P) == {N[p] : p \in P}
SeenBy(N, ts) == [t \in DOMAIN ts |-> On(N, ts[t])]

\* What a stack becomes, frame by frame.
LEMMA OnType ==
  ASSUME NEW P, NEW N, NEW s \in Seq(P)
  PROVE  /\ On(N, s) \in Seq(Targets(N, P)) /\ Len(On(N, s)) = Len(s)
         /\ DOMAIN On(N, s) = 1..Len(s) /\ \A n \in 1..Len(s) : On(N, s)[n] = N[s[n]]
         /\ On(N, s) = <<>> <=> s = <<>>
<1>1. PICK R, k, v : R = Targets(N, P) /\ k = Len(s) /\ v = [n \in 1..k |-> N[s[n]]]
  OBVIOUS
<1>2. k \in Nat /\ DOMAIN s = 1..k /\ \A n \in 1..k : s[n] \in P
  BY <1>1
<1>3. \A n \in 1..k : N[s[n]] \in R
  BY <1>1, <1>2 DEF Targets
<1>4. v \in Seq(R) /\ Len(v) = k /\ DOMAIN v = 1..k /\ \A n \in 1..k : v[n] = N[s[n]]
  BY <1>1, <1>2, <1>3
<1>5. On(N, s) = v
  BY <1>1, <1>2 DEF On
<1>6. v = <<>> <=> s = <<>>
  BY <1>1, <1>4
<1> QED BY <1>1, <1>4, <1>5, <1>6

LEMMA OnElement ==
  ASSUME NEW P, NEW N, NEW s \in Seq(P), NEW n \in 1..Len(s)
  PROVE  On(N, s)[n] = N[s[n]]
BY DEF On

LEMMA OnEmpty ==
  ASSUME NEW P, NEW N, NEW s \in Seq(P)
  PROVE  On(N, s) = <<>> <=> s = <<>>
<1>1. PICK v, R : v = On(N, s) /\ R = Targets(N, P)
  OBVIOUS
<1>2. v \in Seq(R) /\ Len(v) = Len(s) /\ \A n \in 1..Len(s) : v[n] = N[s[n]]
  BY <1>1, OnType
<1>3. v = <<>> <=> s = <<>>
  BY <1>2
<1> QED BY <1>1, <1>3

LEMMA OnLast ==
  ASSUME NEW P, NEW N, NEW s \in Seq(P), s # <<>>
  PROVE  Last(On(N, s)) = N[Last(s)] /\ Front(On(N, s)) = On(N, Front(s))
<1>1. PICK R, k, v : R = Targets(N, P) /\ k = Len(s) /\ v = On(N, s)
  OBVIOUS
<1>2. k \in Nat /\ k >= 1
  BY <1>1
<1>3. v \in Seq(R) /\ Len(v) = k /\ \A n \in 1..k : v[n] = N[s[n]]
  BY <1>1, OnType
<1>4. Last(v) = N[Last(s)]
  BY <1>1, <1>2, <1>3 DEF Last
<1>5. PICK f, g : f = Front(s) /\ g = Front(v)
  OBVIOUS
<1>6. f \in Seq(P) /\ Len(f) = k - 1 /\ \A n \in 1..(k - 1) : f[n] = s[n]
  BY <1>1, <1>5, FrontLast
<1>7. g \in Seq(R) /\ Len(g) = k - 1 /\ \A n \in 1..(k - 1) : g[n] = v[n]
  <2>1. v # <<>>
    BY <1>2, <1>3
  <2> QED BY <1>3, <1>5, <2>1, FrontLast
<1>8. PICK h : h = On(N, f)
  OBVIOUS
<1>9. h \in Seq(R) /\ Len(h) = k - 1 /\ \A n \in 1..(k - 1) : h[n] = N[f[n]]
  <2>1. f \in Seq(P)
    BY <1>6
  <2>2. On(N, f) \in Seq(Targets(N, P)) /\ Len(On(N, f)) = Len(f)
    BY <2>1, OnType
  <2>3. ASSUME NEW n \in 1..Len(f) PROVE On(N, f)[n] = N[f[n]]
    BY <2>1, OnElement
  <2> QED BY <1>1, <1>6, <1>8, <2>2, <2>3, Zenon
<1>10. \A n \in 1..Len(g) : g[n] = h[n]
  BY <1>2, <1>3, <1>6, <1>7, <1>9
<1>11. g = h
  BY <1>7, <1>9, <1>10, SeqEqual
<1> QED BY <1>1, <1>4, <1>5, <1>8, <1>11

LEMMA OnAppend ==
  ASSUME NEW P, NEW N, NEW s \in Seq(P), NEW p \in P
  PROVE  On(N, Append(s, p)) = Append(On(N, s), N[p])
<1>1. PICK R, k, v, u, r : /\ R = Targets(N, P) /\ k = Len(s) /\ v = On(N, s)
                           /\ u = Append(s, p) /\ r = N[p]
  OBVIOUS
<1>2. k \in Nat /\ u \in Seq(P) /\ Len(u) = k + 1 /\ u[k + 1] = p /\ \A n \in 1..k : u[n] = s[n]
  BY <1>1
<1>3. v \in Seq(R) /\ Len(v) = k /\ \A n \in 1..k : v[n] = N[s[n]]
  BY <1>1, OnType
<1>4. PICK g, h : g = Append(v, r) /\ h = On(N, u)
  OBVIOUS
<1>5. r \in R
  BY <1>1 DEF Targets
<1>6. g \in Seq(R) /\ Len(g) = k + 1 /\ g[k + 1] = r /\ \A n \in 1..k : g[n] = v[n]
  BY <1>3, <1>4, <1>5
<1>7. h \in Seq(R) /\ Len(h) = k + 1 /\ \A n \in 1..(k + 1) : h[n] = N[u[n]]
  <2>1. R = Targets(N, P)
    BY <1>1
  <2> QED BY <2>1, <1>2, <1>4, OnType
<1>8. \A n \in 1..(k + 1) : n \in 1..k \/ n = k + 1
  BY <1>2
<1>9. \A n \in 1..Len(g) : g[n] = h[n]
  BY <1>1, <1>2, <1>3, <1>6, <1>7, <1>8
<1>10. g = h
  BY <1>6, <1>7, <1>9, SeqEqual
<1> QED BY <1>1, <1>4, <1>10

LEMMA OnCut ==
  ASSUME NEW P, NEW N, NEW s \in Seq(P), NEW n \in 1..Len(s)
  PROVE  On(N, SubSeq(s, 1, n - 1)) = SubSeq(On(N, s), 1, n - 1)
<1>1. PICK R, k, v, u : /\ R = Targets(N, P) /\ k = Len(s) /\ v = On(N, s)
                        /\ u = SubSeq(s, 1, n - 1)
  OBVIOUS
<1>2. k \in Nat /\ n \in Nat /\ n - 1 \in Nat /\ n - 1 \in 0..k /\ n - 1 <= k
  BY <1>1
<1>3. u \in Seq(P) /\ Len(u) = n - 1 /\ \A i \in 1..(n - 1) : u[i] = s[i]
  BY <1>1, <1>2, JoinCut
<1>4. v \in Seq(R) /\ Len(v) = k /\ \A i \in 1..k : v[i] = N[s[i]]
  BY <1>1, OnType
<1>5. PICK g, h : g = SubSeq(v, 1, n - 1) /\ h = On(N, u)
  OBVIOUS
<1>6. g \in Seq(R) /\ Len(g) = n - 1 /\ \A i \in 1..(n - 1) : g[i] = v[i]
  BY <1>2, <1>4, <1>5, JoinCut
<1>7. h \in Seq(R) /\ Len(h) = n - 1 /\ \A i \in 1..(n - 1) : h[i] = N[u[i]]
  <2>1. R = Targets(N, P)
    BY <1>1
  <2> QED BY <2>1, <1>3, <1>5, OnType
<1>8. \A i \in 1..(n - 1) : i \in 1..k
  BY <1>2
<1>9. \A i \in 1..Len(g) : g[i] = h[i]
  <2>1. ASSUME NEW i \in 1..(n - 1) PROVE g[i] = h[i]
    <3>1. g[i] = v[i] /\ h[i] = N[u[i]] /\ u[i] = s[i]
      BY <1>3, <1>6, <1>7
    <3>2. v[i] = N[s[i]]
      BY <1>4, <1>8
    <3> QED BY <3>1, <3>2
  <2> QED BY <1>6, <2>1
<1>10. g = h
  BY <1>6, <1>7, <1>9, SeqEqual
<1> QED BY <1>1, <1>5, <1>10

\* Of the threads.
LEMMA SeenType ==
  ASSUME NEW P, NEW N, NEW ts \in Seq(Seq(P))
  PROVE  /\ SeenBy(N, ts) \in Seq(Seq(Targets(N, P))) /\ Len(SeenBy(N, ts)) = Len(ts)
         /\ DOMAIN SeenBy(N, ts) = DOMAIN ts
         /\ \A t \in DOMAIN ts : SeenBy(N, ts)[t] = On(N, ts[t])
<1>1. PICK R, k, v : R = Targets(N, P) /\ k = Len(ts) /\ v = [t \in 1..k |-> On(N, ts[t])]
  OBVIOUS
<1>2. k \in Nat /\ DOMAIN ts = 1..k /\ \A t \in 1..k : ts[t] \in Seq(P)
  BY <1>1
<1>3. \A t \in 1..k : On(N, ts[t]) \in Seq(R)
  BY <1>1, <1>2, OnType
<1>4. v \in Seq(Seq(R)) /\ Len(v) = k /\ DOMAIN v = 1..k /\ \A t \in 1..k : v[t] = On(N, ts[t])
  BY <1>1, <1>2, <1>3
<1>5. SeenBy(N, ts) = v
  BY <1>1, <1>2 DEF SeenBy
<1> QED BY <1>1, <1>2, <1>4, <1>5

\* A stack that is replaced is replaced as seen.
LEMMA SeenSet ==
  ASSUME NEW N, NEW ts, NEW t \in DOMAIN ts, NEW s
  PROVE  SeenBy(N, With(ts, t, s)) = With(SeenBy(N, ts), t, On(N, s))
<1>1. PICK us : us = [ts EXCEPT ![t] = s]
  OBVIOUS
<1>2. DOMAIN us = DOMAIN ts /\ \A k \in DOMAIN ts : us[k] = IF k = t THEN s ELSE ts[k]
  BY <1>1
<1>3. SeenBy(N, us) = [k \in DOMAIN ts |-> IF k = t THEN On(N, s) ELSE On(N, ts[k])]
  BY <1>2 DEF SeenBy
<1>4. [SeenBy(N, ts) EXCEPT ![t] = On(N, s)]
        = [k \in DOMAIN ts |-> IF k = t THEN On(N, s) ELSE On(N, ts[k])]
  BY DEF SeenBy
<1> QED BY <1>1, <1>3, <1>4 DEF With

\* A thread more is a thread more as seen.
LEMMA SeenMore ==
  ASSUME NEW P, NEW N, NEW ts \in Seq(Seq(P)), NEW s \in Seq(P)
  PROVE  SeenBy(N, Append(ts, s)) = Append(SeenBy(N, ts), On(N, s))
<1>1. PICK R, k, v, us, r : /\ R = Seq(Targets(N, P)) /\ k = Len(ts) /\ v = SeenBy(N, ts)
                            /\ us = Append(ts, s) /\ r = On(N, s)
  OBVIOUS
<1>2. /\ k \in Nat /\ us \in Seq(Seq(P)) /\ Len(us) = k + 1 /\ us[k + 1] = s
      /\ DOMAIN us = 1..(k + 1) /\ DOMAIN ts = 1..k /\ \A t \in 1..k : us[t] = ts[t]
  BY <1>1
<1>3. v \in Seq(R) /\ Len(v) = k /\ \A t \in 1..k : v[t] = On(N, ts[t])
  BY <1>1, <1>2, SeenType
<1>4. PICK g, h : g = Append(v, r) /\ h = SeenBy(N, us)
  OBVIOUS
<1>5. r \in R
  BY <1>1, OnType
<1>6. g \in Seq(R) /\ Len(g) = k + 1 /\ g[k + 1] = r /\ \A t \in 1..k : g[t] = v[t]
  BY <1>3, <1>4, <1>5
<1>7. h \in Seq(R) /\ Len(h) = k + 1 /\ \A t \in 1..(k + 1) : h[t] = On(N, us[t])
  <2>1. R = Seq(Targets(N, P))
    BY <1>1
  <2> QED BY <2>1, <1>2, <1>4, SeenType
<1>8. \A t \in 1..(k + 1) : t \in 1..k \/ t = k + 1
  BY <1>2
<1>9. \A t \in 1..(k + 1) : g[t] = h[t]
  <2>1. ASSUME NEW t \in 1..k PROVE g[t] = h[t]
    <3>1. t \in 1..(k + 1) /\ us[t] = ts[t]
      BY <1>2
    <3> QED BY <1>3, <1>6, <1>7, <3>1
  <2>2. g[k + 1] = h[k + 1]
    <3>1. k + 1 \in 1..(k + 1) /\ us[k + 1] = s
      BY <1>2
    <3> QED BY <1>1, <1>6, <1>7, <3>1
  <2> QED BY <1>8, <2>1, <2>2
<1>10. g = h
  BY <1>6, <1>7, <1>9, SeqEqual
<1> QED BY <1>1, <1>4, <1>10

\* The threads as the guide shows them.
LEMMA ThreadsSeen ==
  \A N : Guides(N) /\ threads \in Seq(Seq(CodePlaces)) => OriginalThreads = SeenBy(N, threads)
<1> SUFFICES ASSUME NEW N, Guides(N), threads \in Seq(Seq(CodePlaces))
             PROVE  OriginalThreads = SeenBy(N, threads)
  OBVIOUS
<1>1. ASSUME NEW t \in DOMAIN threads, NEW n \in DOMAIN threads[t]
      PROVE  NextOriginal(threads[t][n]) = N[threads[t][n]]
  <2>1. threads[t] \in Seq(CodePlaces)
    OBVIOUS
  <2>2. threads[t][n] \in CodePlaces
    BY <2>1
  <2> QED BY <2>2 DEF Guides
<1>2. ASSUME NEW t \in DOMAIN threads
      PROVE  [n \in DOMAIN threads[t] |-> NextOriginal(threads[t][n])] = On(N, threads[t])
  BY <1>1 DEF On
<1> QED BY <1>2 DEF OriginalThreads, SeenBy

LEMMA ThreadsSeenNext ==
  \A N : Guides(N)' /\ threads' \in Seq(Seq(CodePlaces')) => OriginalThreads' = SeenBy(N, threads')
<1>1. (\A N : Guides(N) /\ threads \in Seq(Seq(CodePlaces)) => OriginalThreads = SeenBy(N, threads))'
  BY ThreadsSeen, PTL
<1> QED BY <1>1

\* A step of the program as N shows it.
Watching(N) == Running /\ Guides(N) /\ UNCHANGED buildVars /\ ThreadsKept

LEMMA Watched ==
  ASSUME NEW N, Watching(N)
  PROVE  /\ threads \in Seq(Seq(CodePlaces)) /\ threads' \in Seq(Seq(CodePlaces))
         /\ OriginalThreads = SeenBy(N, threads) /\ OriginalThreads' = SeenBy(N, threads')
         /\ DOMAIN OriginalThreads = DOMAIN threads /\ module' = module
<1>1. UNCHANGED <<module, code, succs>> /\ Guides(N) /\ CodePlaces' = CodePlaces
  BY CodeStays DEF Watching, buildVars, builderVars, injectVars
<1>2. threads \in Seq(Seq(CodePlaces)) /\ threads' \in Seq(Seq(CodePlaces))
  BY DEF Watching, Running, RunInv, Logging, ThreadsKept, ThreadsOK
<1>3. OriginalThreads = SeenBy(N, threads)
  BY <1>1, <1>2, ThreadsSeen
<1>4. OriginalThreads' = SeenBy(N, threads')
  BY <1>1, <1>2, GuideStays, ThreadsSeenNext
<1>5. DOMAIN OriginalThreads = DOMAIN threads
  BY DEF OriginalThreads
<1> QED BY <1>1, <1>2, <1>3, <1>4, <1>5

\* The step of one thread is one of that thread as seen.
LEMMA StackSeen ==
  ASSUME NEW N, Watching(N), NEW t \in DOMAIN threads, NEW s, SetStack(t, s)
  PROVE  Uninstrumented!SetStack(t, On(N, s))
<1>1. PICK ts : ts = threads
  OBVIOUS
<1>2. threads' = With(ts, t, s)
  BY <1>1 DEF SetStack, With
<1>3. SeenBy(N, With(ts, t, s)) = With(SeenBy(N, ts), t, On(N, s))
  BY <1>1, SeenSet
<1> QED BY <1>1, <1>2, <1>3, Watched DEF Uninstrumented!SetStack, With

\* The top frame as seen.
LEMMA TopSeen ==
  ASSUME NEW N, Watching(N), NEW t \in Live
  PROVE  /\ t \in DOMAIN threads /\ t \in DOMAIN OriginalThreads
         /\ threads[t] \in Seq(CodePlaces) /\ threads[t] # <<>>
         /\ OriginalThreads[t] = On(N, threads[t]) /\ OriginalThreads[t] # <<>>
         /\ At(t) = Last(threads[t]) /\ At(t) \in CodePlaces /\ Item(t) = ItemAt(At(t))
         /\ Last(OriginalThreads[t]) = N[At(t)] /\ Front(OriginalThreads[t]) = On(N, Front(threads[t]))
         /\ Front(threads[t]) \in Seq(CodePlaces)
         /\ IsOriginal(Item(t)) => N[At(t)] = Item(t).at
<1>1. /\ t \in DOMAIN threads /\ threads[t] # <<>> /\ At(t) \in CodePlaces /\ Item(t) = ItemAt(At(t))
      /\ StackOK(CodePlaces, CallPlaces, threads[t])
  BY ThreadItem DEF Watching, Running, RunInv
<1>2. PICK P, s, ts : P = CodePlaces /\ s = threads[t] /\ ts = threads
  OBVIOUS
<1>3. s \in Seq(P) /\ s # <<>> /\ At(t) = Last(s)
  BY <1>1, <1>2 DEF StackOK, At
<1>4. Front(s) \in Seq(P)
  BY <1>3, FrontLast
<1>5. Last(On(N, s)) = N[Last(s)] /\ Front(On(N, s)) = On(N, Front(s)) /\ On(N, s) # <<>>
  <2>1. Last(On(N, s)) = N[Last(s)] /\ Front(On(N, s)) = On(N, Front(s))
    BY <1>3, OnLast
  <2>2. On(N, s) = <<>> <=> s = <<>>
    BY <1>3, OnEmpty
  <2> QED BY <1>3, <2>1, <2>2
<1>6. OriginalThreads[t] = On(N, s) /\ t \in DOMAIN OriginalThreads
  <2>1. ts \in Seq(Seq(P)) /\ OriginalThreads = SeenBy(N, ts) /\ DOMAIN OriginalThreads = DOMAIN ts
    BY <1>2, Watched
  <2>2. \A u \in DOMAIN ts : SeenBy(N, ts)[u] = On(N, ts[u])
    BY DEF SeenBy
  <2> QED BY <1>1, <1>2, <2>1, <2>2
<1>7. IsOriginal(Item(t)) => N[At(t)] = Item(t).at
  BY <1>1 DEF Watching, Guides
<1> QED BY <1>1, <1>2, <1>3, <1>4, <1>5, <1>6, <1>7

\* The two modules read a module in the same words.
LEMMA SameSequences ==
  /\ \A s : Uninstrumented!Last(s) = Last(s)
  /\ \A s : Uninstrumented!Front(s) = Front(s)
  /\ \A s : Uninstrumented!Max(s) = Max(s)
BY DEF Uninstrumented!Last, Last, Uninstrumented!Front, Front, Uninstrumented!Max, Max

LEMMA SameInstructions ==
  /\ \A m, p : Uninstrumented!Instr(m, p) = Instr(m, p)
  /\ \A m, b : Uninstrumented!Successors(m, b) = Successors(m, b)
  /\ \A m : /\ Uninstrumented!Blocks(m) = Blocks(m) /\ Uninstrumented!CfgEdges(m) = CfgEdges(m)
            /\ Uninstrumented!Pointers(m) = Pointers(m)
<1>1. \A m, p : Uninstrumented!Instr(m, p) = Instr(m, p)
  BY DEF Uninstrumented!Instr, Instr
<1>2. \A m, b : Uninstrumented!Successors(m, b) = Successors(m, b)
  BY <1>1 DEF Uninstrumented!Successors, Successors, Uninstrumented!Terminator, Terminator
<1>3. \A m : Uninstrumented!Blocks(m) = Blocks(m)
  BY DEF Uninstrumented!Blocks, Blocks
<1>4. \A m : Uninstrumented!CfgEdges(m) = CfgEdges(m) /\ Uninstrumented!Pointers(m) = Pointers(m)
  BY <1>2, <1>3 DEF Uninstrumented!CfgEdges, CfgEdges, Uninstrumented!Pointers, Pointers
<1> QED BY <1>1, <1>2, <1>3, <1>4

LEMMA SameCalls ==
  /\ \A i : Uninstrumented!IsCall(i) <=> IsCall(i)
  /\ \A m, i : /\ Uninstrumented!IsDirectCall(m, i) <=> IsDirectCall(m, i)
               /\ Uninstrumented!IsExternalCall(m, i) <=> IsExternalCall(m, i)
               /\ Uninstrumented!Callees(m, i) = Callees(m, i)
               /\ Uninstrumented!Handed(m, i) = Handed(m, i)
  /\ \A m, f : Uninstrumented!EntryBlock(m, f) = EntryBlock(m, f)
<1>1. \A i : Uninstrumented!IsCall(i) <=> IsCall(i)
  BY DEF Uninstrumented!IsCall, IsCall
<1>2. \A m, f : /\ Uninstrumented!BlocksOf(m, f) = BlocksOf(m, f)
                /\ Uninstrumented!IsDeclaration(m, f) <=> IsDeclaration(m, f)
                /\ Uninstrumented!Functions(m) = Functions(m)
  BY SameInstructions
     DEF Uninstrumented!BlocksOf, BlocksOf, Uninstrumented!IsDeclaration, IsDeclaration,
         Uninstrumented!Functions, Functions
<1>3. \A m, i : /\ Uninstrumented!IsDirectCall(m, i) <=> IsDirectCall(m, i)
                /\ Uninstrumented!IsExternalCall(m, i) <=> IsExternalCall(m, i)
  BY <1>1, <1>2 DEF Uninstrumented!IsDirectCall, IsDirectCall, Uninstrumented!IsExternalCall, IsExternalCall
<1>4. \A m, i : /\ Uninstrumented!Callees(m, i) = Callees(m, i)
                /\ Uninstrumented!Handed(m, i) = Handed(m, i)
  BY <1>2, <1>3 DEF Uninstrumented!Callees, Callees, Uninstrumented!Handed, Handed
<1>5. \A m, f : Uninstrumented!EntryBlock(m, f) = EntryBlock(m, f)
  BY <1>2 DEF Uninstrumented!EntryBlock, EntryBlock, Uninstrumented!IsEntryBlock, IsEntryBlock
<1> QED BY <1>1, <1>3, <1>4, <1>5

\* A frame that leaves by a successor of a terminator.
LEMMA FollowSeen ==
  ASSUME NEW N, Watching(N), NEW t \in DOMAIN threads, NEW below \in Seq(CodePlaces),
         NEW place \in CodePlaces, OpAt(place) \in Terminators, NEW k \in DOMAIN succs[place[1]],
         Follow(t, below, place, k)
  PROVE  /\ Uninstrumented!Follow(t, On(N, below), ItemAt(place).at[1], k)
         /\ k \in 1..Len(Successors(module, ItemAt(place).at[1]))
<1>1. PICK b, p, P : b = ItemAt(place).at[1] /\ p = <<succs[place[1]][k], 1>> /\ P = CodePlaces
  OBVIOUS
<1>2. /\ b \in Blocks(module) /\ ItemAt(place) = LastOf(module, b)
      /\ DOMAIN succs[place[1]] = 1..Len(Successors(module, b)) /\ p \in P
  BY <1>1, TerminatorFacts DEF Watching, Running
<1>3. PICK c : c = Successors(module, b)[k]
  OBVIOUS
<1>4. N[p] = <<c, 1>>
  <2>1. \A q \in CodePlaces : \A d \in Blocks(module) : ItemAt(q) = LastOf(module, d) =>
          \A j \in 1..Len(Successors(module, d)) :
            N[<<succs[q[1]][j], 1>>] = <<Successors(module, d)[j], 1>>
    BY Zenon DEF Watching, Guides
  <2>2. k \in 1..Len(Successors(module, b))
    BY <1>2
  <2> QED BY <1>1, <1>2, <1>3, <2>1, <2>2
<1>5. /\ SetStack(t, Append(below, p)) /\ entered' = Entered(EdgeTarget(module, <<b, k>>))
      /\ taken' = [taken EXCEPT ![<<b, k>>] = @ + 1] /\ UNCHANGED <<status, called>>
  BY <1>1 DEF Follow
<1>6. EdgeTarget(module, <<b, k>>) = c
  BY <1>3 DEF EdgeTarget
<1>7. On(N, Append(below, p)) = Append(On(N, below), <<c, 1>>)
  <2>1. below \in Seq(P) /\ p \in P
    BY <1>1, <1>2
  <2>2. On(N, Append(below, p)) = Append(On(N, below), N[p])
    BY <2>1, OnAppend
  <2> QED BY <1>4, <2>2
<1>8. Uninstrumented!SetStack(t, Append(On(N, below), <<c, 1>>))
  BY <1>5, <1>7, StackSeen
<1>9. entered' = Uninstrumented!Entered(c)
  BY <1>5, <1>6 DEF Entered, Uninstrumented!Entered
<1>10. Uninstrumented!Follow(t, On(N, below), b, k)
  BY <1>3, <1>5, <1>8, <1>9, SameInstructions DEF Uninstrumented!Follow
<1> QED BY <1>1, <1>2, <1>10

\* A frame that goes on after its instruction.
LEMMA StepSeen ==
  ASSUME NEW N, Watching(N), NEW t \in DOMAIN threads, NEW below \in Seq(CodePlaces),
         NEW place \in CodePlaces, IsOriginal(ItemAt(place)), OpAt(place) \notin Terminators,
         SetStack(t, Append(below, NextItem(place)))
  PROVE  Uninstrumented!SetStack(t, Append(On(N, below), <<N[place][1], N[place][2] + 1>>))
<1>1. PICK p, P, x : p = NextItem(place) /\ P = CodePlaces /\ x = ItemAt(place).at
  OBVIOUS
<1>2. p \in P
  <2>1. ItemAt(place) # Goto
    BY LogTypes DEF IsOriginal
  <2> QED BY <1>1, <2>1, PlaceFacts DEF Watching, Running
<1>3. N[place] = x /\ N[p] = <<x[1], x[2] + 1>>
  BY <1>1 DEF Watching, Guides
<1>4. On(N, Append(below, p)) = Append(On(N, below), N[p])
  <2>1. below \in Seq(P)
    BY <1>1
  <2> QED BY <1>2, <2>1, OnAppend
<1>5. SetStack(t, Append(below, p))
  BY <1>1
<1>6. Uninstrumented!SetStack(t, On(N, Append(below, p)))
  BY <1>5, StackSeen
<1> QED BY <1>3, <1>4, <1>6

\* An original item shows itself.
LEMMA CallSeen ==
  ASSUME NEW N, Watching(N), NEW place \in CodePlaces, IsOriginal(ItemAt(place))
  PROVE  /\ N[place] = ItemAt(place).at /\ Instr(module, N[place]).op = OpAt(place)
         /\ IsCall(Instr(module, N[place])) => place \in CallPlaces
BY OriginalPlace DEF Watching, Guides, Running

\* The steps of the changed code, each as the step of the program it is seen as.
LEMMA ResumeSeen ==
  ASSUME NEW N, Watching(N), NEW t \in DOMAIN threads, NEW s \in Seq(CodePlaces), s # <<>>,
         Last(s) \in CallPlaces, Resume(t, s)
  PROVE  Uninstrumented!Resume(t, On(N, s))
<1>1. PICK place, P, f, u : /\ place = Last(s) /\ P = CodePlaces /\ f = Front(s)
                            /\ u = On(N, s)
  OBVIOUS
<1>2. place \in P /\ OpAt(place) \in {"call", "invoke"} /\ IsOriginal(ItemAt(place))
  BY <1>1 DEF CallPlaces, OpAt, OpOf
<1>3. s \in Seq(P) /\ f \in Seq(P)
  BY <1>1, FrontLast
<1>4. Last(u) = N[place] /\ Front(u) = On(N, f)
  <2>1. Last(On(N, s)) = N[Last(s)] /\ Front(On(N, s)) = On(N, Front(s))
    BY <1>3, OnLast
  <2> QED BY <1>1, <2>1
<1>5. N[place] = ItemAt(place).at /\ Instr(module, N[place]).op = OpAt(place)
  BY <1>1, <1>2, CallSeen
<1>6. CASE OpAt(place) = "invoke"
  <2>1. OpAt(place) \in Terminators
    BY <1>6 DEF Terminators
  <2>2. 1 \in DOMAIN succs[place[1]]
    BY <1>1, <1>2, <1>6, <2>1, TerminatorFacts DEF Watching, Running
  <2>3. Follow(t, f, place, 1)
    BY <1>1, <1>6 DEF Resume
  <2>4. Uninstrumented!Follow(t, On(N, f), ItemAt(place).at[1], 1)
    BY <1>1, <1>2, <1>3, <2>1, <2>2, <2>3, FollowSeen
  <2>5. Uninstrumented!Follow(t, Front(u), Last(u)[1], 1)
    BY <1>4, <1>5, <2>4
  <2>6. Instr(module, Last(u)).op = "invoke"
    BY <1>4, <1>5, <1>6
  <2> QED BY <1>1, <2>5, <2>6, SameInstructions, SameSequences DEF Uninstrumented!Resume
<1>7. CASE OpAt(place) = "call"
  <2>1. OpAt(place) \notin Terminators
    BY <1>7 DEF Terminators
  <2>2. SetStack(t, Append(f, NextItem(place))) /\ UNCHANGED <<status, entered, taken, called>>
    BY <1>1, <1>7 DEF Resume
  <2>3. Uninstrumented!SetStack(t, Append(On(N, f), <<N[place][1], N[place][2] + 1>>))
    BY <1>1, <1>2, <1>3, <2>1, <2>2, StepSeen
  <2>4. Uninstrumented!SetStack(t, Append(Front(u), <<Last(u)[1], Last(u)[2] + 1>>))
    BY <1>4, <2>3
  <2>5. Instr(module, Last(u)).op # "invoke"
    BY <1>4, <1>5, <1>7
  <2> QED BY <1>1, <2>2, <2>4, <2>5, SameInstructions, SameSequences DEF Uninstrumented!Resume
<1> QED BY <1>2, <1>6, <1>7

LEMMA StaysSeen ==
  ASSUME NEW N, Watching(N), NEW t \in Live, NEW p \in CodePlaces, MoveTo(t, p), N[p] = N[At(t)]
  PROVE  UNCHANGED Uninstrumented!programVars
<1>1. PICK P, s, f, ts, u : /\ P = CodePlaces /\ s = threads[t] /\ f = Front(s)
                            /\ ts = threads /\ u = On(N, s)
  OBVIOUS
<1>2. /\ t \in DOMAIN ts /\ s \in Seq(P) /\ s # <<>> /\ f \in Seq(P) /\ u # <<>>
      /\ Last(u) = N[At(t)] /\ Front(u) = On(N, f) /\ OriginalThreads[t] = u
  BY <1>1, TopSeen
<1>3. On(N, Append(f, p)) = Append(On(N, f), N[p])
  <2>1. f \in Seq(P) /\ p \in P
    BY <1>1, <1>2
  <2> QED BY <2>1, OnAppend
<1>4. Append(Front(u), Last(u)) = u
  <2>1. PICK R : R = Targets(N, P)
    OBVIOUS
  <2>2. u \in Seq(R)
    BY <1>1, <1>2, <2>1, OnType
  <2>3. PICK k, g, x, h : k = Len(u) /\ g = Front(u) /\ x = Last(u) /\ h = Append(g, x)
    OBVIOUS
  <2>4. /\ k \in Nat /\ k >= 1 /\ x = u[k] /\ x \in R /\ g \in Seq(R) /\ Len(g) = k - 1
        /\ \A n \in 1..(k - 1) : g[n] = u[n]
    BY <1>2, <2>2, <2>3, FrontLast
  <2>5. h \in Seq(R) /\ Len(h) = k /\ h[k] = x /\ \A n \in 1..(k - 1) : h[n] = g[n]
    BY <2>3, <2>4
  <2>6. \A n \in 1..k : n = k \/ n \in 1..(k - 1)
    BY <2>4
  <2>7. \A n \in 1..Len(h) : h[n] = u[n]
    BY <2>4, <2>5, <2>6
  <2>8. h = u
    BY <2>2, <2>3, <2>5, <2>7, SeqEqual
  <2> QED BY <2>3, <2>8
<1>5. SetStack(t, Append(f, p)) /\ UNCHANGED <<status, entered, taken, called>>
  BY <1>1 DEF MoveTo
<1>6. Uninstrumented!SetStack(t, On(N, Append(f, p)))
  BY <1>1, <1>2, <1>5, StackSeen
<1>7. On(N, Append(f, p)) = u
  BY <1>2, <1>3, <1>4
<1>8. OriginalThreads' = [OriginalThreads EXCEPT ![t] = u]
  BY <1>6, <1>7 DEF Uninstrumented!SetStack
<1>9. OriginalThreads' = OriginalThreads
  <2>1. OriginalThreads = [v \in DOMAIN threads |-> OriginalThreads[v]]
    BY DEF OriginalThreads
  <2> QED BY <1>2, <1>8, <2>1
<1> QED BY <1>5, <1>9, Watched DEF Uninstrumented!programVars

\* A log and a goto cannot be seen.
LEMMA WriteLogSeen ==
  ASSUME NEW N, Watching(N), NEW t \in Live, WriteLog(t)
  PROVE  UNCHANGED Uninstrumented!programVars
<1>1. At(t) \in CodePlaces /\ Item(t) = ItemAt(At(t)) /\ Item(t).kind = "log"
  BY TopSeen DEF WriteLog
<1>2. NextItem(At(t)) \in CodePlaces
  <2>1. Item(t) # Goto /\ OpAt(At(t)) \notin Terminators
    BY <1>1, LogTypes DEF OpAt, OpOf, IsOriginal, Terminators
  <2> QED BY <1>1, <2>1, PlaceFacts DEF Watching, Running
<1>3. N[NextItem(At(t))] = N[At(t)]
  BY <1>1 DEF Watching, Guides
<1> QED BY <1>2, <1>3, StaysSeen DEF WriteLog

LEMMA FollowGotoSeen ==
  ASSUME NEW N, Watching(N), NEW t \in Live, FollowGoto(t)
  PROVE  UNCHANGED Uninstrumented!programVars
<1>1. At(t) \in CodePlaces /\ Item(t) = ItemAt(At(t)) /\ Item(t).kind = "goto"
  BY TopSeen DEF FollowGoto
<1>2. Item(t) = Goto
  <2>1. Item(t) \in KnownItems
    BY <1>1, PlaceFacts DEF Watching, Running
  <2> QED BY <1>1, <2>1, OriginalTypes, LogTypes DEF KnownItems, KnownLogs, IsOriginal
<1>3. PICK p : p = <<succs[At(t)[1]][1], 1>>
  OBVIOUS
<1>4. p \in CodePlaces /\ N[p] = N[At(t)]
  BY <1>1, <1>2, <1>3, PlaceFacts DEF Watching, Running, Guides
<1> QED BY <1>3, <1>4, StaysSeen DEF FollowGoto

\* A thread at an instruction.
LEMMA AtOriginal ==
  ASSUME NEW N, Watching(N), NEW t \in Live, IsOriginal(Item(t))
  PROVE  /\ Uninstrumented!Here(t) = Here(t) /\ Uninstrumented!At(t) = Item(t).at
         /\ OpOf(Item(t)) = Here(t).op /\ Last(OriginalThreads[t]) = Item(t).at
         /\ OpOf(Item(t)) = OpAt(At(t))
         /\ IsCall(Here(t)) => At(t) \in CallPlaces
<1>1. At(t) \in CodePlaces /\ Item(t) = ItemAt(At(t)) /\ Last(OriginalThreads[t]) = Item(t).at
  BY TopSeen
<1>2. Uninstrumented!At(t) = Item(t).at /\ Uninstrumented!Here(t) = Here(t)
  BY <1>1, SameSequences, SameInstructions DEF Uninstrumented!At, Uninstrumented!Here, Here
<1>3. OpOf(Item(t)) = Here(t).op
  BY DEF OpOf, Here
<1> QED BY <1>1, <1>2, <1>3, CallSeen, TopSeen DEF Here, OpAt

LEMMA StraightSeen ==
  ASSUME NEW N, Watching(N), NEW t \in Live, Straight(t)
  PROVE  Uninstrumented!Straight(t)
<1>1. IsOriginal(Item(t)) /\ OpOf(Item(t)) \notin Terminators
  BY DEF Straight, OpOf, Terminators
<1>2. /\ Uninstrumented!Here(t) = Here(t) /\ Uninstrumented!At(t) = Item(t).at
      /\ OpOf(Item(t)) = Here(t).op /\ OpOf(Item(t)) = OpAt(At(t))
  BY <1>1, AtOriginal
<1>3. PICK f, p : f = Front(threads[t]) /\ p = At(t)
  OBVIOUS
<1>4. /\ t \in DOMAIN threads /\ f \in Seq(CodePlaces) /\ p \in CodePlaces /\ Item(t) = ItemAt(p)
      /\ Front(OriginalThreads[t]) = On(N, f) /\ N[p] = Item(t).at
  BY <1>1, <1>3, TopSeen
<1>5. SetStack(t, Append(f, NextItem(p))) /\ UNCHANGED <<status, entered, taken, called>>
  BY <1>3 DEF Straight, MoveTo
<1>6. Uninstrumented!SetStack(t, Append(On(N, f), <<N[p][1], N[p][2] + 1>>))
  BY <1>1, <1>2, <1>3, <1>4, <1>5, StepSeen
<1>7. Here(t).op \in {"phi", "landingpad", "other"}
  BY <1>2 DEF Straight
<1> QED BY <1>2, <1>4, <1>5, <1>6, <1>7, SameSequences DEF Uninstrumented!Straight

LEMMA BranchSeen ==
  ASSUME NEW N, Watching(N), NEW t \in Live, Branch(t)
  PROVE  Uninstrumented!Branch(t)
<1>1. IsOriginal(Item(t)) /\ OpOf(Item(t)) \in Terminators
  BY DEF Branch, OpOf, Terminators
<1>2. /\ Uninstrumented!Here(t) = Here(t) /\ Uninstrumented!At(t) = Item(t).at
      /\ OpOf(Item(t)) = Here(t).op /\ OpOf(Item(t)) = OpAt(At(t))
  BY <1>1, AtOriginal
<1>3. PICK f, p : f = Front(threads[t]) /\ p = At(t)
  OBVIOUS
<1>4. /\ t \in DOMAIN threads /\ f \in Seq(CodePlaces) /\ p \in CodePlaces /\ Item(t) = ItemAt(p)
      /\ Front(OriginalThreads[t]) = On(N, f)
  BY <1>3, TopSeen
<1>5. PICK k \in DOMAIN succs[p[1]] : Follow(t, f, p, k)
  BY <1>3 DEF Branch
<1>6. /\ Uninstrumented!Follow(t, On(N, f), ItemAt(p).at[1], k)
      /\ k \in 1..Len(Successors(module, ItemAt(p).at[1]))
  BY <1>1, <1>2, <1>3, <1>4, <1>5, FollowSeen
<1>7. Here(t).op \in {"br", "switch"}
  BY <1>2 DEF Branch
<1>8. k \in DOMAIN Successors(module, Item(t).at[1])
  <2>1. PICK b, v : b = Item(t).at[1] /\ v = Successors(module, b)
    OBVIOUS
  <2>2. b \in Blocks(module) /\ WellFormed(module)
    BY <1>1, <1>2, <1>3, <1>4, <2>1, TerminatorFacts DEF Watching, Running, Runnable
  <2>3. v \in Seq(Blocks(module))
    BY <2>1, <2>2, EdgeParts
  <2> QED BY <1>4, <1>6, <2>1, <2>3
<1> QED BY <1>2, <1>4, <1>6, <1>7, <1>8, SameSequences, SameInstructions DEF Uninstrumented!Branch

\* A function is entered, by a call or in a thread of its own.
LEMMA EnterSeen ==
  ASSUME NEW N, Watching(N), NEW t \in Live, NEW f \in Functions(module), ~ IsDeclaration(module, f)
  PROVE  /\ SetStack(t, threads[t] \o Start(f)) =>
              Uninstrumented!SetStack(t, OriginalThreads[t] \o Uninstrumented!Start(f))
         /\ threads' = Append(threads, Start(f)) =>
              OriginalThreads' = Append(OriginalThreads, Uninstrumented!Start(f))
<1>1. PICK P, s, ts, e, p, u : /\ P = CodePlaces /\ s = threads[t] /\ ts = threads
                               /\ e = EntryBlock(module, f) /\ p = <<e, 1>> /\ u = <<p>>
  OBVIOUS
<1>2. p \in P /\ N[p] = p
  BY <1>1 DEF Watching, Guides
<1>3. /\ t \in DOMAIN ts /\ s \in Seq(P) /\ OriginalThreads[t] = On(N, s)
      /\ ts \in Seq(Seq(P)) /\ OriginalThreads = SeenBy(N, ts)
  BY <1>1, TopSeen, Watched
<1>4. Start(f) = u /\ Uninstrumented!Start(f) = u
  BY <1>1, SameCalls DEF Start, Uninstrumented!Start
<1>5. u \in Seq(P) /\ On(N, u) = u
  <2>1. u \in Seq(P) /\ DOMAIN u = {1} /\ u[1] = p /\ u = [n \in {1} |-> p]
    BY <1>1, <1>2
  <2>2. [n \in DOMAIN u |-> N[u[n]]] = [n \in {1} |-> p]
    BY <1>2, <2>1
  <2> QED BY <2>1, <2>2 DEF On
<1>6. ASSUME SetStack(t, s \o u)
      PROVE  Uninstrumented!SetStack(t, On(N, s) \o u)
  <2>1. s \o u = Append(s, p)
    BY <1>1, <1>2, <1>3
  <2>2. On(N, Append(s, p)) = Append(On(N, s), N[p])
    BY <1>2, <1>3, OnAppend
  <2>3. Append(On(N, s), p) = On(N, s) \o u
    <3>1. PICK R, v : R = Targets(N, P) /\ v = On(N, s)
      OBVIOUS
    <3>2. v \in Seq(R)
      BY <1>3, <3>1, OnType
    <3>3. Append(v, p) = v \o <<p>>
      BY <3>2
    <3> QED BY <1>1, <3>1, <3>3
  <2>4. t \in DOMAIN threads
    BY <1>1, <1>3
  <2>5. Uninstrumented!SetStack(t, On(N, s \o u))
    BY <1>6, <2>4, StackSeen
  <2> QED BY <1>2, <2>1, <2>2, <2>3, <2>5
<1>7. ASSUME threads' = Append(ts, u)
      PROVE  OriginalThreads' = Append(OriginalThreads, u)
  <2>1. SeenBy(N, Append(ts, u)) = Append(SeenBy(N, ts), On(N, u))
    BY <1>3, <1>5, SeenMore
  <2> QED BY <1>3, <1>5, <1>7, <2>1, Watched
<1> QED BY <1>1, <1>3, <1>4, <1>6, <1>7

LEMMA CallFunctionSeen ==
  ASSUME NEW N, Watching(N), NEW t \in Live, CallFunction(t)
  PROVE  Uninstrumented!CallFunction(t)
<1>1. IsOriginal(Item(t)) /\ IsCall(Here(t)) /\ UNCHANGED <<status, taken>>
  BY DEF CallFunction
<1>2. Uninstrumented!Here(t) = Here(t) /\ Uninstrumented!At(t) = Item(t).at
  BY <1>1, AtOriginal
<1>3. PICK f \in Callees(module, Here(t)) :
        /\ SetStack(t, threads[t] \o Start(f)) /\ entered' = Entered(EntryBlock(module, f))
        /\ called' = [called EXCEPT ![Item(t).at] = @ + 1]
  BY DEF CallFunction
<1>4. f \in Functions(module) /\ ~ IsDeclaration(module, f)
  BY DEF Callees
<1>5. Uninstrumented!SetStack(t, OriginalThreads[t] \o Uninstrumented!Start(f))
  BY <1>3, <1>4, EnterSeen
<1>6. entered' = Uninstrumented!Entered(Uninstrumented!EntryBlock(module, f))
  BY <1>3, SameCalls DEF Entered, Uninstrumented!Entered
<1> QED BY <1>1, <1>2, <1>3, <1>5, <1>6, SameCalls DEF Uninstrumented!CallFunction

LEMMA CallBackSeen ==
  ASSUME NEW N, Watching(N), NEW t \in Live, CallBack(t)
  PROVE  Uninstrumented!CallBack(t)
<1>1. IsOriginal(Item(t)) /\ UNCHANGED <<status, taken, called>>
  BY DEF CallBack
<1>2. Uninstrumented!Here(t) = Here(t)
  BY <1>1, AtOriginal
<1>3. PICK f \in Handed(module, Here(t)) :
        /\ \/ SetStack(t, threads[t] \o Start(f))
           \/ Len(threads) < MaxThreads /\ threads' = Append(threads, Start(f))
        /\ entered' = Entered(EntryBlock(module, f))
  BY DEF CallBack
<1>4. f \in Functions(module) /\ ~ IsDeclaration(module, f)
  BY DEF Handed
<1>5. \/ Uninstrumented!SetStack(t, OriginalThreads[t] \o Uninstrumented!Start(f))
      \/ OriginalThreads' = Append(OriginalThreads, Uninstrumented!Start(f))
  BY <1>3, <1>4, EnterSeen
<1>6. entered' = Uninstrumented!Entered(Uninstrumented!EntryBlock(module, f))
  BY <1>3, SameCalls DEF Entered, Uninstrumented!Entered
<1> QED BY <1>1, <1>2, <1>3, <1>5, <1>6, SameCalls DEF Uninstrumented!CallBack

LEMMA StopSeen ==
  ASSUME NEW N, Watching(N), NEW how, Stop(how)
  PROVE  Uninstrumented!Stop(how)
<1>1. threads' = threads /\ status' = how /\ UNCHANGED <<entered, taken, called>>
  BY DEF Stop
<1>2. OriginalThreads' = OriginalThreads
  BY <1>1, Watched
<1> QED BY <1>1, <1>2 DEF Uninstrumented!Stop

\* The frames below frame n, seen through N.
CutAlike(N, s, n) == On(N, SubSeq(s, 1, n - 1)) = SubSeq(On(N, s), 1, n - 1)

LEMMA SeenCut == \A P, N : \A s \in Seq(P) : \A n \in 1..Len(s) : CutAlike(N, s, n)
  BY OnCut DEF CutAlike

\* The handlers of the program are those of the changed code.
LEMMA UnwindSeen ==
  ASSUME NEW N, Watching(N), NEW t \in Live, NEW K,
         K = {n \in DOMAIN threads[t] : OpAt(threads[t][n]) = "invoke"},
         IsOriginal(Item(t)), IsCall(Here(t))
  PROVE  /\ K = {n \in DOMAIN OriginalThreads[t] :
                   Uninstrumented!Instr(module, OriginalThreads[t][n]).op = "invoke"}
         /\ K # {} /\ Follow(t, SubSeq(threads[t], 1, Max(K) - 1), threads[t][Max(K)], 2) =>
              Uninstrumented!Follow(t, SubSeq(OriginalThreads[t], 1, Max(K) - 1),
                                    OriginalThreads[t][Max(K)][1], 2)
<1>1. PICK P, s, u : P = CodePlaces /\ s = threads[t] /\ u = On(N, s)
  OBVIOUS
<1>2. t \in DOMAIN threads /\ s \in Seq(P) /\ s # <<>> /\ OriginalThreads[t] = u
  BY <1>1, TopSeen
<1>3. /\ Len(s) \in Nat /\ DOMAIN s = 1..Len(s) /\ DOMAIN u = 1..Len(s)
      /\ \A n \in 1..Len(s) : u[n] = N[s[n]] /\ s[n] \in P
  <2>1. DOMAIN s = 1..Len(s) /\ Len(s) \in Nat /\ \A n \in 1..Len(s) : s[n] \in P
    BY <1>2
  <2>2. u = [n \in DOMAIN s |-> N[s[n]]]
    BY <1>1 DEF On
  <2> QED BY <2>1, <2>2
<1>4. ASSUME NEW n \in 1..Len(s) PROVE s[n] \in CallPlaces
  <2>1. CASE n = Len(s)
    <3>1. At(t) \in CallPlaces /\ At(t) = Last(s)
      BY <1>1, AtOriginal DEF At
    <3> QED BY <2>1, <3>1 DEF Last
  <2>2. CASE n # Len(s)
    <3>1. StackOK(CodePlaces, CallPlaces, s)
      BY <1>1, ThreadItem DEF Watching, Running, RunInv
    <3>2. n \in 1..(Len(s) - 1)
      <4>1. PICK k : k = Len(s)
        OBVIOUS
      <4>2. k \in Nat /\ n \in 1..k /\ n # k
        BY <1>3, <2>2, <4>1
      <4>3. n \in 1..(k - 1)
        BY <4>2
      <4> QED BY <4>1, <4>3
    <3> QED BY <3>1, <3>2 DEF StackOK
  <2> QED BY <2>1, <2>2
<1>5. ASSUME NEW n \in 1..Len(s)
      PROVE  Instr(module, u[n]).op = OpAt(s[n]) /\ u[n] = ItemAt(s[n]).at
  <2>1. s[n] \in CodePlaces /\ IsOriginal(ItemAt(s[n]))
    BY <1>4 DEF CallPlaces, OpAt, OpOf
  <2> QED BY <1>3, <2>1, CallSeen
<1>6. K = {n \in DOMAIN u : Uninstrumented!Instr(module, u[n]).op = "invoke"}
  BY <1>1, <1>3, <1>5, SameInstructions
<1>7. ASSUME K # {}, Follow(t, SubSeq(s, 1, Max(K) - 1), s[Max(K)], 2)
      PROVE  Uninstrumented!Follow(t, SubSeq(u, 1, Max(K) - 1), u[Max(K)][1], 2)
  <2>1. PICK n : n = Max(K)
    OBVIOUS
  <2>2. K \subseteq 1..Len(s)
    BY <1>1, <1>3
  <2>3. n \in K
    BY <1>3, <1>7, <2>1, <2>2, Greatest
  <2>4. n \in 1..Len(s) /\ s[n] \in P /\ OpAt(s[n]) = "invoke" /\ n \in Nat
    BY <1>1, <1>3, <2>2, <2>3
  <2>5. OpAt(s[n]) \in Terminators
    BY <2>4 DEF Terminators
  <2>6. 2 \in DOMAIN succs[s[n][1]]
    BY <1>1, <2>4, <2>5, TerminatorFacts DEF Watching, Running
  <2>7. PICK below : below = SubSeq(s, 1, n - 1)
    OBVIOUS
  <2>8. below \in Seq(P)
    <3>1. n - 1 \in 0..Len(s)
      BY <1>3, <2>4
    <3> QED BY <1>2, <2>7, <3>1, JoinCut
  <2>9. On(N, below) = SubSeq(u, 1, n - 1)
    <3>1. s \in Seq(P) /\ n \in 1..Len(s)
      BY <1>2, <2>4
    <3>2. CutAlike(N, s, n)
      BY <3>1, SeenCut
    <3> QED BY <1>1, <2>7, <3>2 DEF CutAlike
  <2>10. Follow(t, below, s[n], 2)
    BY <1>7, <2>1, <2>7
  <2>11. Uninstrumented!Follow(t, On(N, below), ItemAt(s[n]).at[1], 2)
    BY <1>1, <1>2, <2>4, <2>5, <2>6, <2>8, <2>10, FollowSeen
  <2> QED BY <1>5, <2>1, <2>4, <2>9, <2>11
<1> QED BY <1>1, <1>2, <1>6, <1>7

LEMMA CallExternalSeen ==
  ASSUME NEW N, Watching(N), NEW t \in Live, CallExternal(t)
  PROVE  Uninstrumented!CallExternal(t)
<1>1. IsOriginal(Item(t)) /\ IsCall(Here(t)) /\ ~ IsDirectCall(module, Here(t))
  BY DEF CallExternal
<1>2. Uninstrumented!Here(t) = Here(t) /\ At(t) \in CallPlaces
  BY <1>1, AtOriginal
<1>3. PICK s, u, K, L :
        /\ s = threads[t] /\ u = OriginalThreads[t]
        /\ K = {n \in DOMAIN threads[t] : OpAt(threads[t][n]) = "invoke"}
        /\ L = {n \in DOMAIN OriginalThreads[t] :
                  Uninstrumented!Instr(module, OriginalThreads[t][n]).op = "invoke"}
  OBVIOUS
<1>4. /\ t \in DOMAIN threads /\ s \in Seq(CodePlaces) /\ s # <<>> /\ u = On(N, s)
      /\ Last(s) \in CallPlaces
  BY <1>2, <1>3, TopSeen
<1>5. /\ K = L
      /\ K # {} /\ Follow(t, SubSeq(s, 1, Max(K) - 1), s[Max(K)], 2) =>
           Uninstrumented!Follow(t, SubSeq(u, 1, Max(K) - 1), u[Max(K)][1], 2)
  BY <1>1, <1>3, UnwindSeen
<1>6. \/ Resume(t, s)
      \/ Stop("exited")
      \/ K = {} /\ Stop("crashed")
      \/ K # {} /\ Follow(t, SubSeq(s, 1, Max(K) - 1), s[Max(K)], 2)
  BY <1>3 DEF CallExternal
<1>7. \/ Uninstrumented!Resume(t, u)
      \/ \E how \in {"exited", "quit"} : Uninstrumented!Stop(how)
      \/ IF L = {} THEN Uninstrumented!Stop("crashed")
         ELSE Uninstrumented!Follow(t, SubSeq(u, 1, Uninstrumented!Max(L) - 1),
                                    u[Uninstrumented!Max(L)][1], 2)
  <2>1. ASSUME Resume(t, s) PROVE Uninstrumented!Resume(t, u)
    BY <1>4, <2>1, ResumeSeen
  <2>2. ASSUME NEW how, Stop(how) PROVE Uninstrumented!Stop(how)
    BY <2>2, StopSeen
  <2> QED BY <1>5, <1>6, <2>1, <2>2, SameSequences
<1> QED BY <1>1, <1>2, <1>3, <1>7, SameCalls DEF Uninstrumented!CallExternal

LEMMA QuitSeen ==
  ASSUME NEW N, Watching(N), NEW t \in Live, Quit(t)
  PROVE  Uninstrumented!CallExternal(t)
<1>1. IsOriginal(Item(t)) /\ IsCall(Here(t)) /\ ~ IsDirectCall(module, Here(t)) /\ Stop("quit")
  BY DEF Quit
<1>2. Uninstrumented!Here(t) = Here(t)
  BY <1>1, AtOriginal
<1>3. Uninstrumented!Stop("quit")
  BY <1>1, StopSeen
<1> QED BY <1>1, <1>2, <1>3, SameCalls DEF Uninstrumented!CallExternal

LEMMA ReturnSeen ==
  ASSUME NEW N, Watching(N), NEW t \in Live, Return(t)
  PROVE  Uninstrumented!Return(t)
<1>1. IsOriginal(Item(t)) /\ OpOf(Item(t)) = "ret"
  BY DEF Return, OpOf
<1>2. Uninstrumented!Here(t) = Here(t) /\ Here(t).op = "ret"
  BY <1>1, AtOriginal
<1>3. PICK P, s, below, u, place : /\ P = CodePlaces /\ s = threads[t] /\ below = Front(s)
                                   /\ u = Front(OriginalThreads[t]) /\ place = Last(below)
  OBVIOUS
<1>4. t \in DOMAIN threads /\ s \in Seq(P) /\ s # <<>> /\ below \in Seq(P) /\ u = On(N, below)
  BY <1>3, TopSeen
<1>5. u = <<>> <=> below = <<>>
  BY <1>4, OnEmpty
<1>6. below # <<>> => /\ place \in CallPlaces /\ place \in CodePlaces
                      /\ Instr(module, Last(u)) = Instr(module, ItemAt(place).at)
  <2> SUFFICES ASSUME below # <<>>
               PROVE  /\ place \in CallPlaces /\ place \in CodePlaces
                      /\ Instr(module, Last(u)) = Instr(module, ItemAt(place).at)
    OBVIOUS
  <2>1. StackOK(CodePlaces, CallPlaces, s)
    BY <1>3, ThreadItem DEF Watching, Running, RunInv
  <2>2. place \in CallPlaces
    BY <1>3, <1>4, <2>1, Popped
  <2>3. place \in CodePlaces /\ IsOriginal(ItemAt(place))
    BY <2>2 DEF CallPlaces, OpAt, OpOf
  <2>4. N[place] = ItemAt(place).at
    BY <2>3, CallSeen
  <2>5. Last(u) = N[place]
    BY <1>3, <1>4, OnLast
  <2> QED BY <2>2, <2>3, <2>4, <2>5
<1>7. CASE below = <<>> /\ t = 1
  <2>1. Stop("exited")
    BY <1>3, <1>7 DEF Return
  <2>2. Uninstrumented!Stop("exited")
    BY <2>1, StopSeen
  <2> QED BY <1>2, <1>3, <1>5, <1>7, <2>2, SameSequences DEF Uninstrumented!Return
<1>8. CASE below = <<>> /\ t # 1
  <2>1. SetStack(t, <<>>) /\ UNCHANGED <<status, entered, taken, called>>
    BY <1>3, <1>8 DEF Return
  <2>2. Uninstrumented!SetStack(t, <<>>)
    <3>1. On(N, <<>>) = <<>>
      BY <1>4, <1>5, <1>8
    <3>2. Uninstrumented!SetStack(t, On(N, <<>>))
      BY <1>4, <2>1, StackSeen
    <3> QED BY <3>1, <3>2
  <2> QED BY <1>2, <1>3, <1>5, <1>8, <2>1, <2>2, SameSequences DEF Uninstrumented!Return
<1>9. CASE below # <<>> /\ IsExternalCall(module, Instr(module, ItemAt(place).at))
  <2>1. SetStack(t, below) /\ UNCHANGED <<status, entered, taken, called>>
    BY <1>3, <1>9 DEF Return
  <2>2. Uninstrumented!SetStack(t, u)
    BY <1>4, <2>1, StackSeen
  <2>3. Uninstrumented!IsExternalCall(module, Uninstrumented!Instr(module, Last(u)))
    BY <1>6, <1>9, SameCalls, SameInstructions
  <2> QED BY <1>2, <1>3, <1>5, <1>9, <2>1, <2>2, <2>3, SameSequences DEF Uninstrumented!Return
<1>10. CASE below # <<>> /\ ~ IsExternalCall(module, Instr(module, ItemAt(place).at))
  <2>1. Resume(t, below)
    BY <1>3, <1>10 DEF Return
  <2>2. Uninstrumented!Resume(t, u)
    BY <1>3, <1>4, <1>6, <1>10, <2>1, ResumeSeen
  <2>3. ~ Uninstrumented!IsExternalCall(module, Uninstrumented!Instr(module, Last(u)))
    BY <1>6, <1>10, SameCalls, SameInstructions
  <2> QED BY <1>2, <1>3, <1>5, <1>10, <2>2, <2>3, SameSequences DEF Uninstrumented!Return
<1> QED BY <1>7, <1>8, <1>9, <1>10

\* Every step of the run is one of the program, or none.
LEMMA RunSeen ==
  ASSUME InjectInv, CodeInv, RunInv, Run
  PROVE  Uninstrumented!Next \/ UNCHANGED Uninstrumented!programVars
<1>1. phase = "injected" /\ status = "running" /\ UNCHANGED buildVars
  BY DEF Run
<1>2. Running
  BY <1>1, InjectedRuns DEF Running
<1>3. PICK N : Guides(N)
  BY <1>2, GuideThere DEF Running, Runnable
<1>4. StepOK
  BY <1>1, <1>2, RunsOn DEF Run
<1>5. Watching(N) /\ module' = module
  BY <1>1, <1>2, <1>3, <1>4, CodeStays DEF Watching, StepOK
<1>6. CASE Crash
  <2>1. Uninstrumented!Crash
    BY <1>5, <1>6, StopSeen DEF Crash, Uninstrumented!Crash
  <2> QED BY <1>1, <1>5, <2>1 DEF Uninstrumented!Next
<1>7. ASSUME NEW t \in Live,
             \/ WriteLog(t) \/ FollowGoto(t) \/ Straight(t) \/ Branch(t) \/ CallFunction(t)
             \/ CallBack(t) \/ CallExternal(t) \/ Quit(t) \/ Return(t)
      PROVE  Uninstrumented!Next \/ UNCHANGED Uninstrumented!programVars
  <2>1. t \in {u \in DOMAIN OriginalThreads : OriginalThreads[u] # <<>>}
    BY <1>5, TopSeen
  <2>2. CASE WriteLog(t) \/ FollowGoto(t)
    BY <1>5, <2>2, WriteLogSeen, FollowGotoSeen
  <2>3. CASE \/ Straight(t) \/ Branch(t) \/ CallFunction(t) \/ CallBack(t) \/ CallExternal(t)
             \/ Quit(t) \/ Return(t)
    <3>1. \/ Uninstrumented!Straight(t) \/ Uninstrumented!Branch(t)
          \/ Uninstrumented!CallFunction(t) \/ Uninstrumented!CallBack(t)
          \/ Uninstrumented!CallExternal(t) \/ Uninstrumented!Return(t)
      BY <1>5, <2>3, StraightSeen, BranchSeen, CallFunctionSeen, CallBackSeen, CallExternalSeen,
         QuitSeen, ReturnSeen
    <3> QED BY <1>1, <1>5, <2>1, <3>1 DEF Uninstrumented!Next
  <2> QED BY <1>7, <2>2, <2>3
<1> QED BY <1>1, <1>6, <1>7 DEF Run

\* Until it runs, the program is before the first instruction of main, whatever
\* has been inserted there.
AtStart == OriginalThreads = <<<<<<EntryBlock(module, 1), 1>>>>>>

LEMMA StartSeen ==
  ASSUME InjectInv, module \in Modules, threads = <<Start(1)>>
  PROVE  AtStart
<1>1. Executable(module)
  BY RunAssumption
<1>2. PICK N : Guides(N)
  BY <1>1, GuideThere
<1>3. PICK P, e, p, u, ts : /\ P = CodePlaces /\ e = EntryBlock(module, 1) /\ p = <<e, 1>>
                            /\ u = <<p>> /\ ts = <<u>>
  OBVIOUS
<1>4. p \in P /\ N[p] = p
  BY <1>1, <1>2, <1>3 DEF Guides, Executable
<1>5. u \in Seq(P) /\ ts \in Seq(Seq(P)) /\ threads = ts
  BY <1>3, <1>4 DEF Start
<1>6. OriginalThreads = SeenBy(N, ts)
  BY <1>2, <1>3, <1>5, ThreadsSeen
<1>7. On(N, u) = u
  <2>1. DOMAIN u = {1} /\ u[1] = p /\ u = [n \in {1} |-> p]
    BY <1>3
  <2>2. [n \in DOMAIN u |-> N[u[n]]] = [n \in {1} |-> p]
    BY <1>4, <2>1
  <2> QED BY <2>1, <2>2 DEF On
<1>8. SeenBy(N, ts) = ts
  <2>1. DOMAIN ts = {1} /\ ts[1] = u /\ ts = [t \in {1} |-> u]
    BY <1>3
  <2>2. [t \in DOMAIN ts |-> On(N, ts[t])] = [t \in {1} |-> u]
    BY <1>7, <2>1
  <2> QED BY <2>1, <2>2 DEF SeenBy
<1> QED BY <1>3, <1>6, <1>8 DEF AtStart

\* The premises at both ends of a step of the injection.
StillToRun == InjectInv /\ module \in Modules /\ threads = <<Start(1)>>

LEMMA StartSeenNext == StillToRun' => AtStart'
<1>1. StillToRun => AtStart
  BY StartSeen DEF StillToRun
<1> QED BY <1>1, PTL

LEMMA CompileSeen ==
  InjectInv /\ InjectInv' /\ RunInv /\ Compile => UNCHANGED Uninstrumented!programVars
<1> SUFFICES ASSUME InjectInv, InjectInv', RunInv, Compile
             PROVE  UNCHANGED Uninstrumented!programVars
  OBVIOUS
<1>1. /\ module' = module /\ phase # "injected" /\ threads' = threads
      /\ UNCHANGED <<status, entered, taken, called>>
  BY ModuleStays DEF Compile, runVars
<1>2. threads = <<Start(1)>> /\ module \in Modules
  BY <1>1, NowSplit DEF RunInv, NotStarted, Stages
<1>3. AtStart
  BY <1>2, StartSeen
<1>4. AtStart'
  BY <1>1, <1>2, StartSeenNext DEF StillToRun, Start
<1>5. OriginalThreads' = OriginalThreads
  BY <1>1, <1>3, <1>4 DEF AtStart
<1> QED BY <1>1, <1>5 DEF Uninstrumented!programVars

LEMMA RunInitSeen == InjectInv /\ RunInit => Uninstrumented!Init
<1> SUFFICES ASSUME InjectInv, RunInit PROVE Uninstrumented!Init
  OBVIOUS
<1>1. module \in Modules /\ threads = <<Start(1)>>
  BY DEF RunInit, InjectInit, Init
<1>2. AtStart
  BY <1>1, StartSeen
<1>3. OriginalThreads = <<Uninstrumented!Start(1)>>
  BY <1>2, SameCalls DEF AtStart, Uninstrumented!Start
<1>4. /\ status = "running"
      /\ entered = [b \in Blocks(module) |-> IF b = EntryBlock(module, 1) THEN 1 ELSE 0]
      /\ taken = [e \in CfgEdges(module) |-> 0]
      /\ called = [p \in Pointers(module) |-> 0]
  BY DEF RunInit
<1> QED BY <1>1, <1>3, <1>4, SameCalls, SameInstructions DEF Uninstrumented!Init

\* The step of the instrumented program, seen as a step of the program.
LEMMA StepIsSeen ==
  /\ InjectInv /\ CodeInv /\ RunInv /\ InjectInv'
  /\ [RunNext]_<<buildVars, runVars>>
  => [Uninstrumented!Next]_Uninstrumented!programVars
<1> SUFFICES ASSUME InjectInv, CodeInv, RunInv, InjectInv', [RunNext]_<<buildVars, runVars>>
             PROVE  Uninstrumented!Next \/ UNCHANGED Uninstrumented!programVars
  OBVIOUS
<1>1. CASE Compile
  BY <1>1, CompileSeen
<1>2. CASE Run
  BY <1>2, RunSeen
<1>3. CASE UNCHANGED <<buildVars, runVars>>
  <2>1. UNCHANGED <<code, succs>> /\ module' = module
    BY <1>3 DEF buildVars, builderVars, injectVars, graphVars
  <2>2. UNCHANGED <<threads, status, entered, taken, called>>
    BY <1>3 DEF runVars
  <2>3. OriginalThreads' = OriginalThreads
    BY <2>1, <2>2, NextStays DEF OriginalThreads
  <2> QED BY <2>1, <2>2, <2>3 DEF Uninstrumented!programVars
<1> QED BY <1>1, <1>2, <1>3 DEF RunNext

------------------------------------------------------------------------------
(***************************************************************************)
(* The theorems.                                                           *)
(***************************************************************************)

\* Before the first step of the program its one frame is at the first item of
\* main, which every form of the code has.
LEMMA MainHasItems ==
  ASSUME InjectInv, CodeInv
  PROVE  LET place == Start(1)[1] IN
           place[1] \in DOMAIN code /\ place[2] \in DOMAIN code[place[1]]
<1>1. WellFormed(module) /\ module \in Modules /\ InjectTypeOK
  BY NowSplit, TypesHold DEF Stages
<1>2. Len(module.body) \in Nat
  BY <1>1, BodyType
<1>3. PICK b : b = EntryBlock(module, 1)
  OBVIOUS
<1>4. b \in Blocks(module)
  BY <1>1, <1>2, <1>3, RunAssumption, EntryBlockIsFirst DEF Executable, BlocksOf
<1>5. b \in DOMAIN code
  BY <1>4, NowSplit, Numbers
<1>6. code[b] # <<>>
  BY <1>1, <1>5 DEF InjectTypeOK
<1>7. \E S : code[b] \in Seq(S)
  <2>1. CASE phase \in Early
    BY <1>1, <1>4, <2>1, BodyItems DEF CodeInv
  <2>2. CASE phase \notin Early
    BY <1>5, <2>2 DEF CodeInv
  <2> QED BY <2>1, <2>2
<1>8. 1 \in DOMAIN code[b]
  <2>1. PICK v : v = code[b]
    OBVIOUS
  <2>2. PICK S : v \in Seq(S)
    BY <1>7, <2>1
  <2> QED BY <1>6, <2>1, <2>2
<1> QED BY <1>3, <1>5, <1>8 DEF Start

LEMMA RunIsTyped == InjectInv /\ CodeInv /\ RunInv => RunTypeOK
<1> SUFFICES ASSUME InjectInv, CodeInv, RunInv PROVE RunTypeOK
  OBVIOUS
<1>1. CASE phase # "injected"
  <2>1. threads = <<Start(1)>> /\ stdout = <<>>
    BY <1>1 DEF RunInv, NotStarted
  <2>2. PICK p : Start(1) = <<p>> /\ p = Start(1)[1]
    BY DEF Start
  <2>3. threads = <<<<p>>>>
    BY <2>1, <2>2
  <2>4. p[1] \in DOMAIN code /\ p[2] \in DOMAIN code[p[1]]
    BY <2>2, MainHasItems
  <2>5. Len(threads) \in 1..MaxThreads /\ threads[1] # <<>>
    BY <2>3, RunAssumption
  <2>6. \A t \in DOMAIN threads : \A n \in DOMAIN threads[t] :
          threads[t][n] = p /\ ~ (n < Len(threads[t]))
    BY <2>3
  <2>7. DOMAIN stdout = {}
    BY <2>1
  <2> QED BY <2>4, <2>5, <2>6, <2>7 DEF RunTypeOK, RunInv, EntriesOK
<1>2. CASE phase = "injected"
  <2>1. Runnable /\ Logging
    BY <1>2, InjectedRuns DEF RunInv
  <2>2. PICK P, C, ts : P = CodePlaces /\ C = CallPlaces /\ ts = threads
    OBVIOUS
  <2>3. ThreadsOK(P, C, MaxThreads, ts)
    BY <2>1, <2>2 DEF Logging
  <2>4. ASSUME NEW t \in DOMAIN ts, NEW n \in DOMAIN ts[t]
        PROVE  ts[t][n] \in P /\ (n < Len(ts[t]) => ts[t][n] \in C)
    <3>1. t \in 1..Len(ts)
      BY <2>3 DEF ThreadsOK
    <3>2. PICK s : s = ts[t]
      OBVIOUS
    <3>3. StackOK(P, C, s)
      BY <2>3, <3>1, <3>2 DEF ThreadsOK
    <3>4. s[n] \in P /\ (n < Len(s) => s[n] \in C)
      BY <3>2, <3>3 DEF StackOK
    <3> QED BY <3>2, <3>4
  <2>5. \A t \in DOMAIN threads : \A n \in DOMAIN threads[t] :
          LET place == threads[t][n] IN
            /\ place[1] \in DOMAIN code /\ place[2] \in DOMAIN code[place[1]]
            /\ n < Len(threads[t]) => OpAt(place) \in {"call", "invoke"}
    <3>1. \A p \in P : p[1] \in DOMAIN code /\ p[2] \in DOMAIN code[p[1]]
      BY <2>1, <2>2, PlaceFacts
    <3>2. \A p \in C : OpAt(p) \in {"call", "invoke"}
      BY <2>2 DEF CallPlaces
    <3> QED BY <2>2, <2>4, <3>1, <3>2
  <2>6. Len(threads) \in 1..MaxThreads /\ threads[1] # <<>>
    BY <2>2, <2>3 DEF ThreadsOK
  <2>7. \A k \in DOMAIN stdout : stdout[k] \in Line
          /\ (IsEvent(stdout[k]) => KeyOf(stdout[k]) \in Entities(BuiltGraph))
    <3>1. PICK S, v : S = AnyLines /\ v = stdout
      OBVIOUS
    <3>2. \A k \in DOMAIN v : v[k] \in S
      BY <2>1, <3>1 DEF Logging
    <3>3. \A x \in S : x \in Line /\ (IsEvent(x) => KeyOf(x) \in Entities(BuiltGraph))
      <4>1. S \subseteq Line
        BY <3>1 DEF AnyLines
      <4> QED BY <2>1, <3>1, <4>1, LinesHaveEntities DEF Runnable
    <3> QED BY <3>1, <3>2, <3>3
  <2> QED BY <2>5, <2>6, <2>7 DEF RunTypeOK, RunInv, EntriesOK
<1> QED BY <1>1, <1>2

LEMMA RunLogIsTaken == InjectInv /\ CodeInv /\ RunInv => LogBelongsToGraph
<1> SUFFICES ASSUME InjectInv, CodeInv, RunInv, status = "exited"
             PROVE  Acceptable(BuiltGraph, stdout)
  BY DEF LogBelongsToGraph
<1>1. phase = "injected" /\ ~ NotStarted
  BY DEF RunInv, NotStarted
<1>2. Runnable /\ HasEvent /\ stdout \in Seq(GoodLines)
  BY <1>1, InjectedRuns DEF RunInv, Logging
<1>3. PICK S, v : S = GoodLines /\ v = stdout
  OBVIOUS
<1>4. \A k \in 1..Len(v) : v[k] \in S
  BY <1>2, <1>3
<1>5. \A x \in S : /\ x.event \notin BadLines
                   /\ IsEvent(x) => CountableKey(BuiltGraph, KeyOf(x))
  BY <1>2, <1>3, LinesHaveEntities DEF Runnable
<1> QED BY <1>2, <1>3, <1>4, <1>5 DEF Acceptable, HasEvent

\* Whatever the program does, its frames stay at items of the changed code, those
\* below the top at calls, and all it writes, cut off by _exit or not, names
\* entities of the graph (injectLogging, printf).
THEOREM RunTypesHold == RunSpec => []RunTypeOK
<1> QED BY RunInvHolds, RunIsTyped, PTL

\* The merge never refuses the log of a program that has exited: it has an event,
\* no bad line, and only ids that may be counted (LoggingEmitter,
\* applyRuntimeProfile).
THEOREM LogsBelong == RunSpec => []LogBelongsToGraph
<1> QED BY RunInvHolds, RunLogIsTaken, PTL

\* The instrumented program runs like the program: seen through the next
\* original instruction of every frame, each of its behaviours is one of the
\* program as it was before the pass, whatever was inserted in the code and
\* whichever edges were split (injectLogging changes no decision, call or
\* return).
THEOREM RunImplementsProgram == RunSpec => RunsLikeTheProgram
<1>1. InjectInit => InjectInv
  BY InjectBegins
<1>2. RunInit => Uninstrumented!Init
  BY <1>1, RunInitSeen DEF RunInit
<1> QED
  BY <1>2, StepIsSeen, RunInvHolds, PTL DEF RunSpec, RunsLikeTheProgram, Uninstrumented!Spec

==============================================================================
