----------------------------- MODULE ProfileMerge -----------------------------
(***************************************************************************)
(* One run of ir_graph_merge_with_profile: it loads a graph JSON and a     *)
(* runtime log, counts the events line by line, checks and applies the     *)
(* three count maps to the graph, and writes the result.  Every throw ends *)
(* in main's handler, which returns 1.                                     *)
(***************************************************************************)
EXTENDS ProfileData

CONSTANTS
  Graphs,         \* the graphs an input JSON may hold
  Logs,           \* the runtime logs
  PriorCounts,    \* the counts an input JSON may already hold
  InputFaults,    \* whether a file may be missing, unreadable or no JSON
  WriteFaults,    \* whether the disk may fill up while the output is written
  NoOutput, Truncated

ASSUME InputAssumption ==
  /\ Graphs \subseteq Graph
  /\ Logs \subseteq Seq(Line)
  /\ PriorCounts \subseteq Nat \cup {NoCount}
  /\ InputFaults \in BOOLEAN /\ WriteFaults \in BOOLEAN

VARIABLES
  graph,    \* the graph of the input JSON, its counts apart
  log,      \* the lines of the runtime log
  pc,       \* where main is: a step of the run, or the way it ended
  pos,      \* lines parsed so far
  profile,  \* RuntimeProfile: the three maps, as one from keys to counts
  counts,   \* the execution_count fields of the graph in memory
  pending,  \* entries of the maps the apply loops have not reached
  output    \* what the output file holds

vars == <<graph, log, pc, pos, profile, counts, pending, output>>

Steps == {"load", "parse", "initialize", "function", "basic_block", "edge", "write"}
Ended == {"ok", "error"}

\* The apply loops run in this order; within one the order of the entries is
\* that of an unordered_map: any.
NextStage == [function |-> "basic_block", basic_block |-> "edge", edge |-> "write"]

Init ==
  /\ graph \in Graphs
  /\ log \in Logs
  /\ \E prior \in PriorCounts : counts = [x \in Entities(graph) |-> prior]
  /\ pc = "load"
  /\ pos = 0
  /\ profile = [x \in {} |-> 0]
  /\ pending = {}
  /\ output = NoOutput

Throw == pc' = "error" /\ UNCHANGED <<pos, profile, counts, pending, output>>

LoadInputs ==
  /\ pc = "load"
  /\ pc' = "parse"
  /\ UNCHANGED <<pos, profile, counts, pending, output>>

\* The input JSON or the log cannot be opened or read, or the output cannot.
FileFailure ==
  /\ InputFaults
  /\ pc \in {"load", "write"}
  /\ Throw

\* Mutated form: a second event of a key overwrites the first.
CountEventLosingRepeats(x) ==
  profile' = [y \in DOMAIN profile \cup {x} |-> IF y = x THEN 1 ELSE profile[y]]

\* Mutated form: a new key is only inserted.
CountEventFromZero(x) ==
  profile' = [y \in DOMAIN profile \cup {x} |->
                IF y \in DOMAIN profile THEN profile[y] + (IF y = x THEN 1 ELSE 0) ELSE 0]

\* ++map[key]: a key that is not there yet starts from 0.
CountEvent(x) ==
  profile' = [y \in DOMAIN profile \cup {x} |->
                IF y # x THEN profile[y]
                ELSE IF x \in DOMAIN profile THEN profile[x] + 1 ELSE 1]

\* Mutated form: whatever does not parse is an error, text included.
RejectsText(line) == ~ IsEvent(line)

\* A prefixed line of no known event, or of one without a usable counted field.
Rejects(line) == line.event \in BadLines

ParseLine ==
  /\ pc = "parse" /\ pos < Len(log)
  /\ LET line == log[pos + 1] IN
       \/ Rejects(line) /\ Throw
       \/ /\ ~ Rejects(line)
          /\ IF IsEvent(line) THEN CountEvent(KeyOf(line)) ELSE UNCHANGED profile
          /\ pos' = pos + 1
          /\ UNCHANGED <<pc, counts, pending, output>>

\* A log without a single event is an error (RuntimeProfile::empty).
FinishParse ==
  /\ pc = "parse" /\ pos = Len(log)
  /\ \/ DOMAIN profile = {} /\ Throw
     \/ /\ DOMAIN profile # {}
        /\ pc' = "initialize"
        /\ UNCHANGED <<pos, profile, counts, pending, output>>

\* Mutated form: fields that a previous merge filled in keep their counts.
InitialFieldsKeepingOld == counts

InitialFields == InitialCounts(graph)

InitializeProfileFields ==
  /\ pc = "initialize"
  /\ counts' = InitialFields
  /\ pc' = "function"
  /\ pending' = DOMAIN profile
  /\ UNCHANGED <<pos, profile, output>>

\* Mutated form: the id is only checked against the size of the vector.
MayApplyAnyEdge(x) == x \in Entities(graph)

\* The guards of the three loops: the id is in range, and an edge is of a
\* kind that is counted.
MayApply(x) == CountableKey(graph, x)

ApplyRuntimeProfile(x) ==
  /\ pc \in Maps
  /\ x \in pending /\ x[1] = pc
  /\ \/ ~ MayApply(x) /\ Throw
     \/ /\ MayApply(x)
        /\ counts' = [counts EXCEPT ![x] = profile[x]]
        /\ pending' = pending \ {x}
        /\ UNCHANGED <<pc, pos, profile, output>>

\* Mutated form: a loop may end after its first entry.
MapDoneEarly ==
  \/ \E x \in DOMAIN profile \ pending : x[1] = pc
  \/ \A x \in pending : x[1] # pc

MapDone == \A x \in pending : x[1] # pc

EndOfMap ==
  /\ pc \in Maps
  /\ MapDone
  /\ pc' = NextStage[pc]
  /\ UNCHANGED <<pos, profile, counts, pending, output>>

\* main returns 0 without a look at the state of the stream it wrote to.
WriteOutput ==
  /\ pc = "write"
  /\ output' \in {counts} \cup (IF WriteFaults THEN {Truncated} ELSE {})
  /\ pc' = "ok"
  /\ UNCHANGED <<pos, profile, counts, pending>>

Next ==
  /\ \/ LoadInputs
     \/ FileFailure
     \/ ParseLine
     \/ FinishParse
     \/ InitializeProfileFields
     \/ \E x \in pending : ApplyRuntimeProfile(x)
     \/ EndOfMap
     \/ WriteOutput
  /\ UNCHANGED <<graph, log>>

Spec == Init /\ [][Next]_vars

\* The tool is a sequential process that never waits: it takes its next step.
FairSpec == Spec /\ WF_vars(Next)

------------------------------------------------------------------------------
\* Types of the tool's state; counts are counts of entities of its graph.
TypeOK ==
  /\ graph \in Graphs /\ log \in Logs
  /\ pc \in Steps \cup Ended
  /\ pos \in 0..Len(log)
  /\ DOMAIN profile \subseteq Key
  /\ \A x \in DOMAIN profile : profile[x] \in Nat \ {0}
  /\ counts \in [Entities(graph) -> Nat \cup {NoCount}]
  /\ pending \subseteq DOMAIN profile

\* How the state mirrors the part of the log and of the maps behind it: the
\* inductive invariant from which the properties below follow.
ParsedPrefix ==
  /\ DOMAIN profile = {KeyOf(log[k]) : k \in {j \in 1..pos : IsEvent(log[j])}}
  /\ \A x \in DOMAIN profile : profile[x] = Hits(log, pos, x)
  /\ \A k \in 1..pos : log[k].event \notin BadLines

AppliedPart ==
  LET applied == DOMAIN profile \ pending IN
    /\ \A x \in applied : CountableKey(graph, x)
    /\ counts = [x \in Entities(graph) |->
                    IF x \in applied THEN profile[x] ELSE InitialCounts(graph)[x]]

PassedStages ==
  /\ pc \in {"initialize", "write", "ok"} \cup Maps => pos = Len(log) /\ DOMAIN profile # {}
  /\ pc \in {"write", "ok"} \cup Maps => AppliedPart
  /\ pc \in {"basic_block", "edge", "write", "ok"} => \A x \in pending : x[1] # "function"
  /\ pc \in {"edge", "write", "ok"} => \A x \in pending : x[1] # "basic_block"
  /\ pc \in {"write", "ok"} => \A x \in pending : x[1] # "edge"
  /\ IF pc = "ok" THEN output \in {counts, Truncated} ELSE output = NoOutput

\* Every state of a run has counted exactly the lines it has read, has applied
\* exactly the entries it has taken, and passed every check it has left behind
\* (parseRuntimeProfile and the three apply loops).
InductiveInvariant == TypeOK /\ ParsedPrefix /\ PassedStages

\* A file the tool wrote holds, for every entity, exactly the number of its
\* events in the log, whatever the input JSON held and in whatever order the
\* maps were walked; or it is cut short (ir_graph_profile.cpp, parse + apply).
OutputIsMerge ==
  output \notin {NoOutput, Truncated} => output = Merged(graph, log)

\* A log that does not belong to the graph (an unknown id, an edge that is
\* not counted), that has a bad line or no event at all never leads to an
\* output file, and neither does a run that exits 1: all checks come first.
NoOutputUnlessAcceptable ==
  (output # NoOutput \/ pc = "ok") => pc = "ok" /\ Acceptable(graph, log)

\* Once its files are loaded, the tool gets an acceptable log as far as the
\* output: no loop waits, no check refuses it, whatever text is between its events.
AcceptableLogIsApplied ==
  (pc = "parse" /\ Acceptable(graph, log)) ~> pc = "write"

\* The whole run is one atomic merge or one failure that wrote nothing.
Contract == INSTANCE MergeContract
              WITH status <- IF pc \in Ended THEN pc ELSE "running"
ImplementsContract == Contract!Spec

==============================================================================
