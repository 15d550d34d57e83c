------------------------------ MODULE LlvmModule ------------------------------
(***************************************************************************)
(* What the plugin reads of an llvm::Module.  A function is a number, its  *)
(* basic blocks are numbered through the whole module in module order, and *)
(* the pointer to an instruction is the pair <<block, position>>.  All     *)
(* count from 1, unlike the ids of the ir_graph, which count from 0.       *)
(*                                                                         *)
(* A module is a record:                                                   *)
(*   functions    how many functions it has, declarations included         *)
(*   function_of  for every block the function it belongs to               *)
(*   body         for every block its sequence of instructions             *)
(*   printf       the function with that name, or 0                        *)
(* and an instruction is a record:                                         *)
(*   op           what it is, in the classes the plugin distinguishes      *)
(*   operands     pairs <<kind, value>>: an "instruction" with its         *)
(*                pointer, a "block", a "function", an "argument" of the   *)
(*                function around it or any other "value"                  *)
(*   callee       the function a call or invoke names directly, or 0       *)
(*   succ         the successor blocks of a terminator                     *)
(*   incoming     the incoming blocks of a phi                             *)
(***************************************************************************)
EXTENDS Integers, FiniteSets, SequencesExt

Only(condition, x) == IF condition THEN <<x>> ELSE <<>>

Functions(m) == 1..m.functions
Blocks(m) == 1..Len(m.body)
BlocksOf(m, f) == {b \in Blocks(m) : m.function_of[b] = f}
IsDeclaration(m, f) == BlocksOf(m, f) = {}
IsEntryBlock(m, b) == \A c \in BlocksOf(m, m.function_of[b]) : b <= c
EntryBlock(m, f) == CHOOSE b \in BlocksOf(m, f) : IsEntryBlock(m, b)

Pointers(m) == UNION {{b} \X (1..Len(m.body[b])) : b \in Blocks(m)}
Instr(m, p) == m.body[p[1]][p[2]]
Terminator(m, b) == <<b, Len(m.body[b])>>
Successors(m, b) == Instr(m, Terminator(m, b)).succ

\* Module order, as the nested for loops over functions, blocks and
\* instructions visit it.
Layout(m) == FlattenSeq([b \in Blocks(m) |-> [k \in DOMAIN m.body[b] |-> <<b, k>>]])

\* An edge of the control-flow graph: a block and an index of its successors.
CfgEdges(m) == UNION {{b} \X (1..Len(Successors(m, b))) : b \in Blocks(m)}
EdgeTarget(m, e) == Successors(m, e[1])[e[2]]
EdgesInto(m, b) == {e \in CfgEdges(m) : EdgeTarget(m, e) = b}

\* llvm::predecessors: a block is listed once for every edge from it.
Predecessors(m, b) ==
  FlattenSeq([s \in Blocks(m) |->
    FlattenSeq([k \in DOMAIN Successors(m, s) |-> Only(Successors(m, s)[k] = b, s)])])

HasPhi(m, b) == m.body[b][1].op = "phi"

\* Operand k of instruction q, as <<q, k>>, is a use of what p computes.
IsUse(m, p, u) ==
  LET operand == Instr(m, u[1]).operands[u[2]] IN
    operand[1] = "instruction" /\ operand[2] = p

\* All uses of p: an instruction is listed once for every operand that is one.
UsesBy(m, p, q) ==
  FlattenSeq([k \in DOMAIN Instr(m, q).operands |-> Only(IsUse(m, p, <<q, k>>), <<q, k>>)])
UseList(m, p) == FlattenSeq([i \in DOMAIN Layout(m) |-> UsesBy(m, p, Layout(m)[i])])

IsCall(instr) == instr.op \in {"call", "invoke"}

\* A call that names a function of this module with a body.
IsDirectCall(m, instr) ==
  IsCall(instr) /\ instr.callee # 0 /\ ~ IsDeclaration(m, instr.callee)

\* A call of a function that is defined elsewhere, and the functions of this
\* module that it hands to it.
IsExternalCall(m, instr) ==
  IsCall(instr) /\ instr.callee # 0 /\ IsDeclaration(m, instr.callee)

Handed(m, instr) ==
  {f \in Functions(m) : /\ IsExternalCall(m, instr) /\ ~ IsDeclaration(m, f)
                        /\ \E k \in DOMAIN instr.operands : instr.operands[k] = <<"function", f>>}

\* Whom a call may reach: the function it names, or any through a pointer.
Callees(m, instr) ==
  {f \in Functions(m) : ~ IsDeclaration(m, f) /\ instr.callee \in {0, f}}

\* The module has a printf of its own.
DefinesPrintf(m) == m.printf # 0 /\ ~ IsDeclaration(m, m.printf)

(***************************************************************************)
(* What the LLVM verifier guarantees of a module, as far as it matters.    *)
(***************************************************************************)
Terminators == {"br", "switch", "invoke", "ret"}

Operands(m) ==
  ({"instruction"} \X Pointers(m)) \cup ({"block"} \X Blocks(m))
    \cup ({"function"} \X Functions(m)) \cup ({"argument", "value"} \X Nat)

Instructions(m) ==
  [op : Terminators \cup {"phi", "landingpad", "call", "other"}, operands : Seq(Operands(m)),
   callee : {0} \cup Functions(m), succ : Seq(Blocks(m)), incoming : Seq(Blocks(m))]

WellFormed(m) ==
  /\ m.functions \in Nat /\ m.printf \in {0} \cup Functions(m)
  /\ m.function_of \in Seq(Functions(m)) /\ m.body \in Seq(Seq(Instructions(m)))
  /\ Len(m.function_of) = Len(m.body)
  /\ \A b \in Blocks(m) :
       /\ \A c \in Blocks(m) : c < b => m.function_of[c] <= m.function_of[b]
       /\ m.body[b] # <<>>
       /\ \A k \in 1..Len(m.body[b]) :
            /\ m.body[b][k].op \in Terminators <=> k = Len(m.body[b])
            /\ m.body[b][k].op = "phi" =>
                 /\ k > 1 => m.body[b][k - 1].op = "phi"
                 /\ Len(m.body[b][k].operands) = Len(m.body[b][k].incoming)
                 /\ \A c \in Blocks(m) :
                      Cardinality({j \in DOMAIN m.body[b][k].incoming :
                                     m.body[b][k].incoming[j] = c})
                        = Cardinality({e \in EdgesInto(m, b) : e[1] = c})
            /\ m.body[b][k].op = "landingpad" => k = 1 \/ m.body[b][k - 1].op = "phi"
       /\ \A k \in 1..Len(Successors(m, b)) :
            LET c == Successors(m, b)[k] IN
              /\ c \in Blocks(m) /\ m.function_of[c] = m.function_of[b]
              /\ ~ IsEntryBlock(m, c)

==============================================================================
