------------------------------ MODULE MCModules ------------------------------
(***************************************************************************)
(* Modules for TLC: every control-flow graph of one function of three      *)
(* blocks over the terminators below, each block with or without a phi;    *)
(* and a module of calls.                                                  *)
(***************************************************************************)
EXTENDS LlvmModule

Instruction(op, operands) ==
  [op |-> op, operands |-> operands, callee |-> 0, succ |-> <<>>, incoming |-> <<>>]
Value == <<"value", 0>>
Result(b, k) == <<"instruction", <<b, k>>>>

Ret == Instruction("ret", <<>>)
Other(operands) == Instruction("other", operands)
Br(targets, condition) ==
  [Instruction("br", condition \o [k \in DOMAIN targets |-> <<"block", targets[k]>>])
     EXCEPT !.succ = targets]
Switch(value, targets) == [Br(targets, value) EXCEPT !.op = "switch"]
Call(f, arguments) ==
  [Instruction("call", arguments \o <<IF f = 0 THEN Value ELSE <<"function", f>>>>)
     EXCEPT !.callee = f]
Invoke(f, normal, unwind) ==
  [Instruction("invoke", << <<"block", normal>>, <<"block", unwind>>, <<"function", f>> >>)
     EXCEPT !.callee = f, !.succ = <<normal, unwind>>]
PhiOf(values, incoming) == [Instruction("phi", values) EXCEPT !.incoming = incoming]
Phi(incoming) == PhiOf([k \in DOMAIN incoming |-> Value], incoming)

------------------------------------------------------------------------------
\* One function; block b ends in ends[b] and begins with a phi if b is in phis
\* and has a predecessor.  The incoming blocks of a phi are in the reverse order
\* of the predecessors: the two orders are independent.
Terminators3(b) ==
  {Ret} \cup {Br(<<t>>, <<>>) : t \in {2, 3}}
        \cup {Br(<<t, u>>, <<Value>>) : t, u \in {2, 3}}
        \cup (IF b = 1 THEN {Switch(<<Value>>, <<t, 3, u>>) : t, u \in {2, 3}} ELSE {})

CfgModule(ends, phis) ==
  LET bare == [functions |-> 1, printf |-> 0, function_of |-> <<1, 1, 1>>,
               body |-> [b \in 1..3 |-> <<ends[b]>>]]
      preds(b) == Predecessors(bare, b)
  IN [bare EXCEPT !.body =
        [b \in 1..3 |-> IF b \in phis /\ preds(b) # <<>>
                        THEN <<Phi(Reverse(preds(b))), ends[b]>> ELSE <<ends[b]>>]]

CfgModules(phisets) ==
  {CfgModule(<<e1, e2, e3>>, phis) :
     e1 \in Terminators3(1), e2 \in Terminators3(2), e3 \in Terminators3(3), phis \in phisets}

MCCfgModules == CfgModules(SUBSET {2, 3})

\* main calls a function that may call itself, an external one, one through a
\* pointer, and invokes one that may throw; values flow between them.
MCCallModules ==
  { [functions |-> 4, printf |-> 0, function_of |-> <<1, 1, 1, 2, 2, 2, 4>>, body |->
      << <<Call(2, <<Value>>), Call(0, <<Result(1, 1), Result(1, 1)>>), Invoke(4, 2, 3)>>,
         <<PhiOf(<<Result(1, 1)>>, <<1>>), Other(<<Result(2, 1), Value>>), Ret>>,
         <<Instruction("landingpad", <<>>), Ret>>,
         <<Br(<<5, 6>>, <<Value>>)>>,
         <<Call(2, <<>>), Call(4, <<>>), Call(4, <<>>), Br(<<6>>, <<>>)>>,
         <<PhiOf(<<Result(5, 1), Value>>, <<5, 4>>), Ret>>,
         <<Call(3, <<>>), Ret>> >>] }

\* A module with a printf that calls a function, and one that only has it.
MCPrintfModules ==
  { [functions |-> 3, printf |-> 2, function_of |-> <<1, 2, 3>>, body |->
      << <<Call(2, <<Value>>), Ret>>, <<Call(3, <<>>), Ret>>, <<Ret>> >>],
    [functions |-> 2, printf |-> 2, function_of |-> <<1, 2>>, body |->
      << <<Ret>>, <<Ret>> >>] }

MCModules == MCCfgModules \cup MCCallModules \cup MCPrintfModules

(***************************************************************************)
(* Modules to run: a loop with critical edges and phis, one whose edges    *)
(* are split at either end, one without any data flow, and the calls.      *)
(***************************************************************************)
MCLoopModules ==
  { CfgModule(<<Br(<<2, 3>>, <<Value>>), Br(<<2, 3>>, <<Value>>), Ret>>, {2, 3}),
    CfgModule(<<Br(<<2>>, <<>>), Switch(<<Value>>, <<3, 2>>), Br(<<2>>, <<>>)>>, {2, 3}),
    CfgModule(<<Br(<<2>>, <<>>), Br(<<3>>, <<>>), Ret>>, {}) }

MCDuplicateModules ==
  { CfgModule(<<Switch(<<Value>>, <<2, 3, 2>>), Ret, Br(<<2, 2>>, <<Value>>)>>, {2, 3}) }

\* main calls, lets an external function write, and branches.
MCTextModules ==
  { [functions |-> 3, printf |-> 3, function_of |-> <<1, 1, 2>>, body |->
      << <<Call(2, <<>>), Call(3, <<Value>>), Br(<<2>>, <<>>)>>, <<Call(3, <<>>), Ret>>,
         <<Ret>> >>] }

\* So many blocks that an id has two digits; the last calls an external function.
MCManyBlocksModules ==
  { [functions |-> 2, printf |-> 0, function_of |-> [b \in 1..11 |-> 1], body |->
      [b \in 1..11 |-> CASE b = 1  -> <<Br(<<11>>, <<>>)>>
                         [] b = 11 -> <<Call(2, <<>>), Ret>>
                         [] OTHER  -> <<Ret>>]] }

\* main hands a function to an external one, which calls it or starts a thread
\* with it, and goes on.
MCThreadModules ==
  { [functions |-> 3, printf |-> 0, function_of |-> <<1, 2, 2>>, body |->
      << <<Call(3, << <<"function", 2>> >>), Ret>>, <<Br(<<3>>, <<>>)>>, <<Ret>> >>] }

MCRunModules ==
  CfgModules({{2, 3}}) \cup MCCallModules \cup MCLoopModules \cup MCDuplicateModules
    \cup MCTextModules \cup MCManyBlocksModules \cup MCThreadModules
==============================================================================
