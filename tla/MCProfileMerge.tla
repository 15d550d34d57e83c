---------------------------- MODULE MCProfileMerge ----------------------------
(***************************************************************************)
(* Bounds for TLC: two graphs (a declaration next to a defined function,   *)
(* an uncounted edge next to counted ones; a graph of one function), and   *)
(* every log of at most MaxLines lines over the events below.              *)
(***************************************************************************)
EXTENDS ProfileMerge, SequencesExt

CONSTANT MaxLines

MCGraphs ==
  { [functions |-> 2, declarations |-> {1}, basic_blocks |-> 1,
     edges |-> <<"instruction_sequence", "control_flow", "call">>],
    [functions |-> 1, declarations |-> {}, basic_blocks |-> 1, edges |-> <<"data_flow">>] }

MCLines ==
  { [event |-> "text", id |-> 0], [event |-> "malformed", id |-> 0],
    [event |-> "func_enter", id |-> 0], [event |-> "bb_enter", id |-> 0],
    [event |-> "bb_enter", id |-> 1], [event |-> "cfg_edge", id |-> 0],
    [event |-> "cfg_edge", id |-> 1], [event |-> "call_edge", id |-> 2] }

MCLogs == BoundedSeq(MCLines, MaxLines)

MCPriorCounts == {NoCount, 7}
==============================================================================
