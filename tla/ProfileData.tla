----------------------------- MODULE ProfileData -----------------------------
(***************************************************************************)
(* The data that the instrumented program, the profile merge tool and the  *)
(* graph JSON have in common: the entities of an ir_graph that carry an    *)
(* execution_count, and the lines of a runtime log.                        *)
(*                                                                         *)
(* An entity is a pair <<map, id>>: "function", "basic_block" or "edge"    *)
(* with its integer id, which is also its index in the graph's vector of   *)
(* that kind.  Of a graph only what the merge reads is kept: how many      *)
(* functions and basic blocks there are, which functions have no entry     *)
(* block (declarations), and the kind of every edge.                       *)
(***************************************************************************)
EXTENDS Integers, FiniteSets, Sequences

CONSTANT NoCount        \* std::nullopt as an execution_count

ASSUME NoCountAssumption == NoCount \notin Nat

Maps == {"function", "basic_block", "edge"}

Key == Maps \X Nat      \* what a line of a log can refer to

EdgeKind == {"control_flow", "instruction_sequence", "data_flow", "call"}

Graph ==
  [functions : Nat, declarations : SUBSET Nat, basic_blocks : Nat, edges : Seq(EdgeKind)]

\* Vector indices run from 0: an id names an entity iff it is below the size.
Entities(g) ==
  ({"function"}    \X (0..(g.functions - 1)))
  \cup ({"basic_block"} \X (0..(g.basic_blocks - 1)))
  \cup ({"edge"} \X (0..(Len(g.edges) - 1)))

IsProfiledEdge(g, id) == g.edges[id + 1] \in {"control_flow", "call"}

\* What initializeProfileFields leaves: 0 for whatever can be executed, no
\* count for a declaration or for an edge that is no transfer of control.
InitialCounts(g) ==
  [x \in Entities(g) |->
     IF \/ x[1] = "function" /\ x[2] \in g.declarations
        \/ x[1] = "edge" /\ ~ IsProfiledEdge(g, x[2])
     THEN NoCount ELSE 0]

(***************************************************************************)
(* A line of the log is an event with the id of its counted field ("fid",  *)
(* "bbid" or "eid"), or one of three lines without an id: "text" does not  *)
(* start with the log prefix, "unknown" does but names no event,           *)
(* "malformed" names an event whose counted field is missing or is not a   *)
(* 64-bit unsigned number.                                                 *)
(***************************************************************************)
MapOfEvent ==
  [func_enter |-> "function", bb_enter |-> "basic_block",
   cfg_edge |-> "edge", call_edge |-> "edge"]

Events == DOMAIN MapOfEvent
BadLines == {"unknown", "malformed"}
Line == [event : Events \cup BadLines \cup {"text"}, id : Nat]

IsEvent(line) == line.event \in Events
KeyOf(line) == <<MapOfEvent[line.event], line.id>>

\* How many of the first n lines of the log are events of key x.
Hits(log, n, x) == Cardinality({k \in 1..n : IsEvent(log[k]) /\ KeyOf(log[k]) = x})

(***************************************************************************)
(* The merge, stated at once: every entity gets the number of its events.  *)
(* A log is acceptable for a graph when it has an event, no bad line, and  *)
(* refers only to entities of the graph that can be counted.               *)
(***************************************************************************)
Merged(g, log) ==
  [x \in Entities(g) |->
     IF Hits(log, Len(log), x) > 0 THEN Hits(log, Len(log), x) ELSE InitialCounts(g)[x]]

CountableKey(g, x) ==
  x \in Entities(g) /\ (x[1] = "edge" => IsProfiledEdge(g, x[2]))

Acceptable(g, log) ==
  /\ \E k \in 1..Len(log) : IsEvent(log[k])
  /\ \A k \in 1..Len(log) :
       /\ log[k].event \notin BadLines
       /\ IsEvent(log[k]) => CountableKey(g, KeyOf(log[k]))

==============================================================================
