------------------------------- MODULE IrGraph -------------------------------
(***************************************************************************)
(* ir_graph::Graph, the data that the plugin, the merge and the renderer   *)
(* share: four vectors of elements.  The fields have the names of the      *)
(* source, without the _id of those that hold an id.  A text (a name, a    *)
(* label) is represented by a pair of what it is the text of.              *)
(***************************************************************************)
EXTENDS Integers, SequencesExt, TLC

CONSTANT None       \* std::nullopt

ASSUME NoneAssumption == None \notin Nat

NoText == <<>>      \* the empty string

\* The members of the classes with their initializers.
NewFunction ==
  [id |-> 0, name |-> NoText, entry_node |-> None, entry_basic_block |-> None,
   execution_count |-> None]

NewBasicBlock ==
  [id |-> 0, function |-> 0, label |-> NoText, entry_node |-> None, execution_count |-> None]

NewNode ==
  [id |-> 0, kind |-> "instruction", function |-> None, basic_block |-> None,
   label |-> NoText, opcode_name |-> None, consumer |-> None, operand_index |-> None]

NewEdge ==
  [id |-> 0, kind |-> "data_flow", source_node |-> 0, target_node |-> 0, label |-> None,
   source_function |-> None, target_function |-> None, source_basic_block |-> None,
   target_basic_block |-> None, successor_index |-> None, execution_count |-> None]

\* A new element and a chain of setters: what is not set keeps its initializer.
Setting(new, fields) ==
  [field \in DOMAIN new |-> IF field \in DOMAIN fields THEN fields[field] ELSE new[field]]

Function(fields) == Setting(NewFunction, fields)
BasicBlock(fields) == Setting(NewBasicBlock, fields)
Node(fields) == Setting(NewNode, fields)
Edge(fields) == Setting(NewEdge, fields)

GraphOf(name, functions, basic_blocks, nodes, edges) ==
  [module_name |-> name, functions |-> functions, basic_blocks |-> basic_blocks,
   nodes |-> nodes, edges |-> edges]

\* addFunction, addBasicBlock, addNode and addEdge put a new element at the end.
Add(vector, new) == vector \o new

\* function(id), basicBlock(id), node(id) and edge(id): an id is an index from 0.
Element(vector, id) == vector[id + 1]

Each(seq, Op(_)) == [k \in DOMAIN seq |-> Op(seq[k])]

==============================================================================
