----------------------------- MODULE DotRenderer -----------------------------
(***************************************************************************)
(* renderDotGraph: the picture of a graph.  Functions are clusters, in     *)
(* them their blocks are clusters, in them their instructions and operands *)
(* are nodes; an edge connects two nodes by the names they are drawn with. *)
(* A text is the pair <<what is named, its count>>, without a count when   *)
(* there is none; of an item's style only what depends on the graph is     *)
(* kept: its class and the fill color of a block, as <<red, green, blue>>. *)
(***************************************************************************)
EXTENDS IrGraph, FiniteSetsExt

CONSTANT Log1p      \* thousandths of the natural logarithm of 1 + n

ASSUME Log1pAssumption ==
  /\ \A n \in DOMAIN Log1p : n \in Nat /\ Log1p[n] \in Nat
  /\ 0 \in DOMAIN Log1p /\ Log1p[0] = 0
  /\ \A n, k \in DOMAIN Log1p : n < k => Log1p[n] < Log1p[k]

EdgeStyle(kind) ==
  CASE kind = "control_flow"         -> <<"orange", "solid">>
    [] kind = "instruction_sequence" -> <<"red", "solid">>
    [] kind = "data_flow"            -> <<"blue", "solid">>
    [] kind = "call"                 -> <<"orange", "dashed">>

NodeRenderId(node) == <<"node", node>>
FunctionClusterId(function) == <<"cluster_func", function>>
BasicBlockClusterId(function, block) == <<"cluster_func_bb", function, block>>

FunctionLabel(f) ==
  IF f.execution_count = None THEN <<f.name>> ELSE <<f.name, f.execution_count>>
BasicBlockLabel(b) ==
  IF b.execution_count = None THEN <<b.label>> ELSE <<b.label, b.execution_count>>

HasCount(b) == b.execution_count # None

MaxBlockCount(g) ==
  Max({0} \cup {g.basic_blocks[k].execution_count :
                  k \in {j \in DOMAIN g.basic_blocks : HasCount(g.basic_blocks[j])}})

NoCountColor == <<164, 164, 164>>
ColdColor == <<86, 199, 195>>
HotColor == <<244, 162, 97>>

\* Mutated form: the integer quotient, as if neither operand were a double.
TruncatedLerp(from, to, numerator, denominator) ==
  from + (to - from) * (IF denominator > 0 THEN numerator \div denominator ELSE 0)

\* from + (to - from) * ratio, rounded half away from 0 (it is not negative), as
\* a byte; numerator / denominator is the ratio, which is 0 without any count.
Lerp(from, to, numerator, denominator) ==
  IF denominator = 0 THEN from
  ELSE ((2 * (from * denominator + (to - from) * numerator) + denominator)
          \div (2 * denominator)) % 256

BlockFillColor(b, maxCount) ==
  IF ~ HasCount(b) THEN NoCountColor
  ELSE [c \in 1..3 |-> Lerp(ColdColor[c], HotColor[c],
                            Log1p[b.execution_count], Log1p[maxCount])]

\* Mutated form: the branch of call edges is forgotten.
EdgeLabelWithoutCalls(e) ==
  IF e.kind = "control_flow" /\ e.execution_count # None
  THEN <<e.execution_count>>
  ELSE IF e.label \notin {None, NoText} THEN e.label ELSE None

\* The count of an edge that may have one is its label, before any other.
EdgeLabel(e) ==
  IF e.kind \in {"control_flow", "call"} /\ e.execution_count # None
  THEN <<e.execution_count>>
  ELSE IF e.label \notin {None, NoText} THEN e.label ELSE None

------------------------------------------------------------------------------
BlocksOfFunction(g, f) == SelectSeq(g.basic_blocks, LAMBDA b : b.function = f.id)
NodesOfBlock(g, b) == SelectSeq(g.nodes, LAMBDA n : n.basic_block = b.id)

DotNode(n) == [name |-> NodeRenderId(n.id), style |-> n.kind, label |-> n.label]

BlockCluster(g, b) ==
  [name |-> BasicBlockClusterId(b.function, b.id),
   label |-> BasicBlockLabel(b),
   fill |-> BlockFillColor(b, MaxBlockCount(g)),
   nodes |-> Each(NodesOfBlock(g, b), DotNode)]

FunctionCluster(g, f) ==
  [name |-> FunctionClusterId(f.id),
   label |-> FunctionLabel(f),
   blocks |-> Each(BlocksOfFunction(g, f), LAMBDA b : BlockCluster(g, b))]

DotEdge(e) ==
  [from |-> NodeRenderId(e.source_node), to |-> NodeRenderId(e.target_node),
   style |-> EdgeStyle(e.kind), label |-> EdgeLabel(e)]

RenderDotGraph(g) ==
  [name |-> g.module_name,
   clusters |-> Each(g.functions, LAMBDA f : FunctionCluster(g, f)),
   nodes |-> Each(SelectSeq(g.nodes, LAMBDA n : n.basic_block = None), DotNode),
   edges |-> Each(g.edges, DotEdge)]

==============================================================================
