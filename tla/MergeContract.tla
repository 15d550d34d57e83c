---------------------------- MODULE MergeContract ----------------------------
(***************************************************************************)
(* What ir_graph_merge_with_profile promises, as one atomic step: it exits *)
(* 0 only for an acceptable log, having written the merged graph, or exits *)
(* 1 having written nothing.  With WriteFaults the file it writes may be   *)
(* cut short (the tool does not look at the stream after writing).         *)
(***************************************************************************)
CONSTANTS Acceptable(_, _),  \* whether a log belongs to a graph
          Merged(_, _),      \* the counts a graph gets from a log
          NoOutput,     \* no output file was written
          Truncated,    \* the output file is an incomplete JSON text
          WriteFaults   \* whether the disk may fill up while it is written

VARIABLES graph, log, output, status

contractVars == <<graph, log, output, status>>

Init ==
  /\ output = NoOutput
  /\ status = "running"

Succeed ==
  /\ status = "running"
  /\ Acceptable(graph, log)
  /\ output' \in {Merged(graph, log)} \cup (IF WriteFaults THEN {Truncated} ELSE {})
  /\ status' = "ok"
  /\ UNCHANGED <<graph, log>>

Fail ==
  /\ status = "running"
  /\ status' = "error"
  /\ UNCHANGED <<graph, log, output>>

Next == Succeed \/ Fail

Spec == Init /\ [][Next]_contractVars

==============================================================================
