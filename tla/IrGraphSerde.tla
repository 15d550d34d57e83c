----------------------------- MODULE IrGraphSerde -----------------------------
(***************************************************************************)
(* The JSON form of a graph: to_json and from_json of its elements.  A     *)
(* JSON object is a function from its keys to values.  A missing key, a    *)
(* key with null and a key with 0 are three different things.              *)
(***************************************************************************)
EXTENDS IrGraph

CONSTANT Null       \* the JSON null

ASSUME NullAssumption == Null \notin Int

SetOptional(value) == IF value = None THEN Null ELSE value

\* Mutated form: a value that is not there is read as the default of its type.
OptionalOrZero(json, key) ==
  IF key \in DOMAIN json /\ json[key] # Null THEN json[key] ELSE 0

OptionalValue(json, key) ==
  IF key \in DOMAIN json /\ json[key] # Null THEN json[key] ELSE None

\* json::value of the library.
JsonValue(json, key, default) == IF key \in DOMAIN json THEN json[key] ELSE default

\* A kind that is none of the table's is read as its first.
NodeKindFromJson(kind) == IF kind \in {"instruction", "operand"} THEN kind ELSE "instruction"
EdgeKindFromJson(kind) ==
  IF kind \in {"control_flow", "instruction_sequence", "data_flow", "call"}
  THEN kind ELSE "control_flow"

\* The object with these fields of an element, and what a new one reads from it.
Object(element, required, optional) ==
  [key \in required \cup optional |->
     IF key \in required THEN element[key] ELSE SetOptional(element[key])]
Fields(json, new, required, optional) ==
  [key \in required \cup optional |->
     IF key \in required THEN JsonValue(json, key, new[key]) ELSE OptionalValue(json, key)]

FunctionToJson(f) ==
  Object(f, {"id", "name"}, {"entry_node", "entry_basic_block", "execution_count"})
FunctionFromJson(json) ==
  Function(Fields(json, NewFunction, {"id", "name"},
                  {"entry_node", "entry_basic_block", "execution_count"}))

BasicBlockToJson(b) ==
  Object(b, {"id", "function", "label"}, {"entry_node", "execution_count"})
BasicBlockFromJson(json) ==
  BasicBlock(Fields(json, NewBasicBlock, {"id", "function", "label"},
                    {"entry_node", "execution_count"}))

NodeToJson(n) ==
  Object(n, {"id", "kind", "label"},
         {"function", "basic_block", "opcode_name", "consumer", "operand_index"})
NodeFromJson(json) ==
  LET read == Fields(json, NewNode, {"id", "kind", "label"},
                     {"function", "basic_block", "opcode_name", "consumer", "operand_index"})
  IN Node([read EXCEPT !.kind = NodeKindFromJson(@)])

EdgeToJson(e) ==
  Object(e, {"id", "kind", "source_node", "target_node"},
         {"label", "source_function", "target_function", "source_basic_block",
          "target_basic_block", "successor_index", "execution_count"})
EdgeFromJson(json) ==
  LET read == Fields(json, NewEdge, {"id", "kind", "source_node", "target_node"},
                     {"label", "source_function", "target_function", "source_basic_block",
                      "target_basic_block", "successor_index", "execution_count"})
  IN Edge([read EXCEPT !.kind = EdgeKindFromJson(@)])

Serialize(g) ==
  GraphOf(g.module_name, Each(g.functions, FunctionToJson),
        Each(g.basic_blocks, BasicBlockToJson), Each(g.nodes, NodeToJson),
        Each(g.edges, EdgeToJson))

Deserialize(json) ==
  GraphOf(JsonValue(json, "module_name", NoText),
        Add(<<>>, Each(JsonValue(json, "functions", <<>>), FunctionFromJson)),
        Add(<<>>, Each(JsonValue(json, "basic_blocks", <<>>), BasicBlockFromJson)),
        Add(<<>>, Each(JsonValue(json, "nodes", <<>>), NodeFromJson)),
        Add(<<>>, Each(JsonValue(json, "edges", <<>>), EdgeFromJson)))

==============================================================================
