----------------------------- MODULE CdfggDriver -----------------------------
(***************************************************************************)
(* cdfgg.py at work: main takes the steps of the plan of one optimization  *)
(* level after another; any of them may raise, and so may the clean-up     *)
(* that follows.  Files are what a step leaves for the next: a content     *)
(* says whether this run wrote it, whether it is complete, and which       *)
(* module the ids in it are those of.                                      *)
(***************************************************************************)
EXTENDS DriverOptions, FiniteSets

CONSTANTS
  ArgSets,      \* the command lines
  Leftovers,    \* sets of kinds of files an earlier run may have left
  DumpFaults,   \* compilations in which the plugin may fail to open one of its dumps
  ToolFaults,   \* tools that may exit 0 having written a part of their output
  CopyFaults,   \* whether a copy may break off half way
  RemovedFirst  \* sets of the files that a removal may come to before it breaks off

ASSUME DriverAssumption ==
  /\ ArgSets \subseteq Options
  /\ DumpFaults \subseteq Variants /\ ToolFaults \subseteq {"merge", "dot"}
  /\ CopyFaults \in BOOLEAN

VARIABLES args,
          level,      \* index of the current optimization level
          todo,       \* the rest of the plan of this level
          files,      \* the files that exist -> their content
          preserved,  \* RunArtifacts.preserved_paths
          status

vars == <<args, level, todo, files, preserved, status>>

Content(fresh, whole, ids) == [fresh |-> fresh, whole |-> whole, ids |-> ids]
Old == Content(FALSE, TRUE, "unknown")
Broken == Content(TRUE, FALSE, "unknown")

Levels == NormalizeOptLevels(args.levels)
Level == Levels[level]
InTmp(path, l) == path[1] \in TmpPlaces /\ path[2] = l
TmpFiles == {p \in DOMAIN files : InTmp(p, Level)}

Restricted(S) == [p \in S |-> files[p]]
Without(S) == Restricted(DOMAIN files \ S)
With(new) ==
  [p \in DOMAIN new \cup DOMAIN files |-> IF p \in DOMAIN new THEN new[p] ELSE files[p]]

\* What the steps of the plans can ever write.
Written(a) ==
  UNION {UNION {Plan(a, l)[k].to : k \in DOMAIN Plan(a, l)} :
           l \in ToSet(NormalizeOptLevels(a.levels))}

Init ==
  /\ args \in ArgSets
  /\ level = 1
  /\ todo = IF Rejected(args) THEN <<>> ELSE Plan(args, Level)
  /\ \E left \in Leftovers :
       files = [p \in {q \in Written(args) : q[1] \in left} |-> Old]
  /\ preserved = {}
  /\ status = IF Rejected(args) THEN "rejected" ELSE "running"

NextStep == Head(todo)
Ready == \A p \in NextStep.from : p \in DOMAIN files
Takes(ops) == status = "running" /\ todo # <<>> /\ NextStep.op \in ops
Done == todo' = Tail(todo) /\ UNCHANGED <<args, level, status>>

------------------------------------------------------------------------------
(***************************************************************************)
(* The ids of a graph are those of the module it was built from.  The      *)
(* plugin dumps at the start of the pipeline and after the optimizer, and  *)
(* injects logs after the dump at the one or the other (pass_api.cpp).     *)
(***************************************************************************)
\* Mutated form: the before variant is compiled like the after variant.
AlwaysInjectsAfter(variant) == [base |-> "none", before |-> "after", after |-> "after"][variant]

InjectionStage(variant) == variant

ModuleAt(variant, stage) ==
  IF stage = "before" THEN "front"
  ELSE IF InjectionStage(variant) = "before" THEN "optimized with logs" ELSE "optimized"

LogIds(variant) ==
  IF InjectionStage(variant) \in {"before", "after"}
  THEN ModuleAt(variant, InjectionStage(variant)) ELSE "none"

Compiled(variant, path) ==
  Content(TRUE, TRUE, IF path[3] = "bin" THEN LogIds(variant) ELSE ModuleAt(variant, path[4]))

ValidateConfig == Takes({"validate"}) /\ Done /\ UNCHANGED <<files, preserved>>

\* Mutated form: a tmp directory that is there is taken as it is.
KeptOnReset == {}

RemovedOnReset == TmpFiles

ResetTmpDir ==
  /\ Takes({"reset_tmp"})
  /\ files' = Without(RemovedOnReset)
  /\ Done /\ UNCHANGED preserved

\* DumpPass that cannot open a file reports it and lets the compilation go on: no
\* dump of the stage, or an empty JSON if it was the second file.
Undumped(stage, opened) ==
  LET own(what) == {p \in NextStep.to : p[3] = what /\ p[4] = stage}
      lost == own("ll") \cup (IF opened = 0 THEN own("static_json") ELSE {})
  IN [p \in NextStep.to \ lost |->
        IF p \in own("static_json") THEN Broken ELSE Compiled(NextStep.op, p)]

Clang ==
  /\ Takes(Variants)
  /\ \/ files' = With([p \in NextStep.to |-> Compiled(NextStep.op, p)])
     \/ /\ NextStep.op \in DumpFaults
        /\ \E stage \in {"before", "after"}, opened \in 0..1 :
             files' = With(Undumped(stage, opened))
  /\ Done /\ UNCHANGED preserved

\* What a tool writes from its inputs: the log has the ids of the binary, a
\* graph those of the JSON; a merge of a log with another graph is no profile.
ToolOutput(inputs) ==
  LET read == {files[p] : p \in inputs}
      ids == {c.ids : c \in read}
  IN Content(\A c \in read : c.fresh, \A c \in read : c.whole,
             IF Cardinality(ids) = 1 THEN (CHOOSE i \in ids : TRUE) ELSE "mismatch")

\* Mutated form: the JSON reader returns what it has read when the text ends.
ReadsAnything == TRUE

\* A graph or picture that is cut short does not parse; the beginning of a log does.
Readable == \A p \in NextStep.from : p[3] # "log" => files[p].whole

\* Mutated form: the log of a program that has failed is taken for a whole one.
ExitCodeIgnored == ToolFaults \cup {"run"}

\* merge and dot do not look at the stream after writing; what the program returns is
\* looked at.
MayPassPartial == ToolFaults

RunTool ==
  /\ Takes({"run", "merge", "dot", "svg"})
  /\ Ready /\ Readable
  /\ \E output \in {ToolOutput(NextStep.from)}
                   \cup (IF NextStep.op \in MayPassPartial THEN {Broken} ELSE {}) :
       files' = With([p \in NextStep.to |-> output])
  /\ Done /\ UNCHANGED preserved

\* Mutated form: nothing is remembered for the clean-up.
ForgetsCopy(destination) == preserved

RememberCopy(destination) == preserved \cup {destination}

CopyArtifact ==
  /\ Takes({"copy"})
  /\ Ready
  /\ LET destination == CHOOSE p \in NextStep.to : TRUE IN
       /\ files' = With([p \in NextStep.to |-> ToolOutput(NextStep.from)])
       /\ preserved' = RememberCopy(destination)
  /\ Done

MaybeDeleteFinalBinary ==
  /\ Takes({"delete_bin"})
  /\ files' = Without({Out(Level, "bin", "")})
  /\ Done /\ UNCHANGED preserved

MaybeCleanupTmp ==
  /\ Takes({"cleanup_tmp"})
  /\ files' = Without(TmpFiles)
  /\ Done /\ UNCHANGED preserved

\* Mutated form: one RunArtifacts for all levels.
SharedArtifacts == preserved

NewRunArtifacts == {}

FinishLevel ==
  /\ status = "running" /\ todo = <<>>
  /\ preserved' = NewRunArtifacts
  /\ IF level < Len(Levels)
     THEN level' = level + 1 /\ todo' = Plan(args, Levels[level + 1]) /\ UNCHANGED status
     ELSE status' = "ok" /\ UNCHANGED <<level, todo>>
  /\ UNCHANGED <<args, files>>

------------------------------------------------------------------------------
\* What a step that raises may have written: the outputs of a tool, which are
\* in tmp, or a part of a copy.
Residue ==
  IF NextStep.op = "copy" THEN (IF CopyFaults THEN {{}, NextStep.to} ELSE {{}})
  ELSE {{}, NextStep.to}

\* rmtree and the unlinking of several files, in any order, up to where it raises.
PartlyRemoved(S) == \E first \in RemovedFirst : files' = Without(S \cap first)

\* A step is left half way.  The binary may be gone and its directory not.
Midway ==
  \/ \E residue \in Residue : files' = With([p \in residue |-> Broken])
  \/ NextStep.op \in {"reset_tmp", "cleanup_tmp"} /\ PartlyRemoved(TmpFiles)
  \/ NextStep.op = "delete_bin" /\ files' = Without({Out(Level, "bin", "")})

\* A step raises: an input is missing, a command fails, the disk is full.  With
\* --debug cleanup_failed_run returns at once.
Raise ==
  /\ status = "running" /\ todo # <<>>
  /\ Midway
  /\ status' = IF args.debug THEN "error" ELSE "failing"
  /\ UNCHANGED <<args, level, todo, preserved>>

\* Ctrl-C is no Exception and SIGKILL is not caught: nothing is cleaned up.
Interrupt ==
  /\ status = "running" /\ todo # <<>>
  /\ Midway
  /\ status' = "interrupted"
  /\ UNCHANGED <<args, level, todo, preserved>>

\* cleanup_failed_run: tmp goes first, ...
RemoveFailedTmp ==
  /\ status = "failing"
  /\ files' = Without(TmpFiles)
  /\ status' = "unlinking"
  /\ UNCHANGED <<args, level, todo, preserved>>

\* Mutated form: whatever has the name of an output goes, copied or not.
CleanedByName == Written(args)

Cleaned == preserved

\* ... then the copies (binary_paths are in tmp), and main returns 1.
UnlinkCopies ==
  /\ status = "unlinking"
  /\ files' = Without(Cleaned)
  /\ status' = "error"
  /\ UNCHANGED <<args, level, todo, preserved>>

\* It is called in the except clause: what it raises leaves main, and so does Ctrl-C.
\* A tmp that could not be removed by the step that failed may fail it here again.
CleanupBreaksOff ==
  /\ \/ status = "failing" /\ PartlyRemoved(TmpFiles)
     \/ status = "unlinking" /\ PartlyRemoved(Cleaned)
  /\ status' = "broken off"
  /\ UNCHANGED <<args, level, todo, preserved>>

Next ==
  \/ ValidateConfig
  \/ ResetTmpDir
  \/ Clang
  \/ RunTool
  \/ CopyArtifact
  \/ MaybeDeleteFinalBinary
  \/ MaybeCleanupTmp
  \/ FinishLevel
  \/ Raise
  \/ Interrupt
  \/ RemoveFailedTmp
  \/ UnlinkCopies
  \/ CleanupBreaksOff

Spec == Init /\ [][Next]_vars

------------------------------------------------------------------------------
(***************************************************************************)
(* Properties                                                              *)
(***************************************************************************)
\* Types of the state: paths of this run, no graph merged with a foreign log, and
\* only outputs remembered for the clean-up.
DriverTypeOK ==
  LET Path(p) == p[1] \in TmpPlaces \cup {"out", "-o"} /\ p[2] \in ToSet(Levels) \cup {""} IN
    /\ args \in ArgSets
    /\ level \in DOMAIN Levels
    /\ \A k \in DOMAIN todo : \A p \in todo[k].from \cup todo[k].to : Path(p)
    /\ \A p \in DOMAIN files :
         /\ Path(p)
         /\ files[p] \in [fresh : BOOLEAN, whole : BOOLEAN,
                          ids : {"unknown", "none", "front", "optimized",
                                 "optimized with logs"}]
    /\ \A p \in preserved : Path(p) /\ p[1] \notin TmpPlaces
    /\ status \in {"rejected", "running", "ok", "interrupted",
                   "failing", "unlinking", "error", "broken off"}

\* What the options ask for at level l.
Requested(a, l) ==
  LET static == ToSet(StaticStages(a))
      dynamic == ToSet(DynamicStages(a))
      out(what, stages) == {Out(l, what, s) : s \in stages}
      svgFrom(graph, what, stages) ==
        IF graph /\ ~ a.no_svg THEN out(what, stages) ELSE {}
  IN UNION { IF a.delete_bins THEN {} ELSE {Out(l, "bin", "")},
             IF EmitLl(a) THEN out("ll", static \cup dynamic) ELSE {},
             IF EmitJson(a)
             THEN out("static_json", static) \cup out("dynamic_json", dynamic) ELSE {},
             IF EmitDot(a)
             THEN out("static_dot", static) \cup out("dynamic_dot", dynamic) ELSE {},
             IF EmitProfile(a) THEN out("log", dynamic) ELSE {},
             svgFrom(EmitStaticGraph(a), "static_svg", static),
             IF a.o THEN {OutputOption} ELSE svgFrom(EmitDynamicGraph(a), "dynamic_svg", dynamic) }

\* The binary is the one without logs; everything else tells of the module of
\* its stage as compiled without them.
IdsOf(p) ==
  IF p[3] = "bin" THEN "none" ELSE IF p[4] = "before" THEN "front" ELSE "optimized"

IsFinished(k) == k < level \/ (k = level /\ status = "ok")

\* Once a level is finished, its requested artifacts are there, written by this
\* run, and stay there whatever happens to the next level (main).
FinishedLevelsDelivered ==
  \A k \in DOMAIN Levels :
    IsFinished(k) =>
      \A p \in Requested(args, Levels[k]) : p \in DOMAIN files /\ files[p].fresh

\* Whole and with these ids, or a JSON or DOT cut short.
Genuine(content, what, ids) ==
  \/ content = Content(TRUE, TRUE, ids)
  \/ content = Broken /\ what \in {"static_json", "dynamic_json", "static_dot", "dynamic_dot"}

\* What has been copied out was made by this run from start to end, nothing of it
\* from files an earlier run has left in tmp, and its counts were merged into the
\* graph their log belongs to (reset_tmp_dir, exec_clang, merge_dynamic_profile);
\* but a JSON or DOT may be a part of one that nobody has read.
CopiedOutputsAreGenuine ==
  \A p \in preserved \cap DOMAIN files : Genuine(files[p], p[3], IdsOf(p))

\* The steps of Work, whatever was asked for.
Each == {"before", "after"}
Drawn == {<<"static_json", "static_dot", "static_svg">>,
          <<"dynamic_json", "dynamic_dot", "dynamic_svg">>}
Delivered == {"ll", "log", "static_json", "static_dot", "static_svg",
              "dynamic_json", "dynamic_dot", "dynamic_svg"}

Compilations(l) == {Step(v, {}, Dumps(l, v) \cup {Binary(l, v)}) : v \in Variants}
StageSteps(l, s) ==
  {Step("run", {Binary(l, s)}, {Tmp(l, "log", s)}),
   Step("merge", {Tmp(l, "static_json", s), Tmp(l, "log", s)}, {Tmp(l, "dynamic_json", s)})}
    \cup {Step("dot", {Tmp(l, d[1], s)}, {Tmp(l, d[2], s)}) : d \in Drawn}
    \cup {Step("svg", {Tmp(l, d[2], s)}, {Tmp(l, d[3], s)}) : d \in Drawn}
    \cup {Step("copy", {Tmp(l, what, s)}, {Out(l, what, s)}) : what \in Delivered}
LevelSteps(a, l) ==
  {Step("cleanup_tmp", {}, {})}
    \cup (IF a.delete_bins THEN {Step("delete_bin", {}, {})}
          ELSE {Step("copy", {Tmp(l, "bin", "")}, {Out(l, "bin", "")})})
    \cup (IF a.o THEN {Step("copy", {Tmp(l, "dynamic_svg", "after")}, {OutputOption})} ELSE {})
WorkSteps(a, l) ==
  Compilations(l) \cup StageSteps(l, "before") \cup StageSteps(l, "after") \cup LevelSteps(a, l)

TmpIds(p) ==
  IF p[1] = "tmp" THEN IdsOf(p)
  ELSE Compiled(IF p[1] = CompileRoot("before") THEN "before" ELSE "after", p).ids

\* The plan stands before its reset of tmp.
Preparations(n) == IF n = 2 THEN Preparation ELSE Tail(Preparation)

Preparing ==
  \E n \in 1..2 :
    LET rest == SubSeq(todo, n + 1, Len(todo)) IN
      /\ rest \in Seq(WorkSteps(args, Level))
      /\ todo = Preparations(n) \o rest

TmpIsGenuine ==
  \A p \in DOMAIN files : InTmp(p, Level) => Genuine(files[p], p[3], TmpIds(p))

\* While a level is worked on, either its tmp is still to be emptied and nothing
\* has been copied, or all that is in it is of this run and has the ids that its
\* place calls for, and the rest of the plan never empties it again before its end
\* (main, reset_tmp_dir): why stale files are never delivered.
DriverInvariant ==
  /\ \A p \in preserved : p[1] \notin TmpPlaces
  /\ status = "running" =>
       /\ CopiedOutputsAreGenuine
       /\ \/ preserved = {} /\ Preparing
          \/ todo \in Seq(WorkSteps(args, Level)) /\ TmpIsGenuine

\* What an SVG that the options ask for is drawn from.
DrawnFrom(a) ==
  IF a.no_svg THEN {}
  ELSE (IF EmitStaticGraph(a) THEN {"static_json", "static_dot"} ELSE {})
         \cup (IF EmitDynamicGraph(a) THEN {"dynamic_json", "dynamic_dot"} ELSE {})

\* A graph that is drawn is read by every tool behind the one that wrote it: when a
\* level has ended well, all that was delivered of a graph with an SVG is whole, its
\* JSON and DOT too, although dumps and tools may exit 0 after half a file.
DrawnGraphsAreWhole ==
  \A k \in DOMAIN Levels :
    IsFinished(k) =>
      \A p \in DOMAIN files :
        files[p].fresh /\ p[1] = "out" /\ p[2] = Levels[k] /\ p[3] \in DrawnFrom(args)
        => files[p].whole

\* After an error without --debug, if the clean-up comes to its end, nothing this
\* level has written is left, in tmp or among the outputs.  If it breaks off too, what
\* is left is in tmp or known as a copy, and the copies are all there as long as
\* something is in tmp (cleanup_failed_run).  A successful level leaves no tmp without
\* --keep-tmp (maybe_cleanup_tmp).
NothingLeftBehind ==
  LET ofLevel(p) == files[p].fresh /\ (p[2] = Level \/ p = OutputOption) IN
    /\ status = "error" /\ ~ args.debug =>
         \A p \in DOMAIN files : ~ InTmp(p, Level) /\ ~ ofLevel(p)
    /\ status = "broken off" =>
         /\ \A p \in DOMAIN files : ofLevel(p) => InTmp(p, Level) \/ p \in preserved
         /\ TmpFiles = {} \/ preserved \subseteq DOMAIN files
    /\ ~ args.keep_tmp =>
         \A k \in DOMAIN Levels :
           IsFinished(k) => \A p \in DOMAIN files : ~ InTmp(p, Levels[k])

\* A file of an earlier run is not removed by a failing one that had not come to
\* replace it, nor by a step that works (cleanup_failed_run knows only the paths of
\* copy_artifact); --delete-bins is for the binary.  What an earlier run was told to
\* keep in tmp goes with the level that would use the directory, for whatever
\* reason that fails, and that of the other levels stays.
OldArtifactsSurvive ==
  [][\A p \in DOMAIN files \ DOMAIN files' :
       \/ files[p].fresh
       \/ InTmp(p, Level)
       \/ (args.delete_bins /\ p = Out(Level, "bin", ""))]_vars

\* README.md, --full: all main artifacts are saved for before and after.
FullSavesEveryGraph ==
  status = "ok" /\ args.full /\ ~ args.no_svg =>
    \A k \in DOMAIN Levels, stage \in {"before", "after"} :
      Out(Levels[k], "dynamic_svg", stage) \in DOMAIN files

\* README.md, --emit-ll: before_opt.ll and after_opt.ll are saved; so they are where
\* no stages are asked for and the defaults hold.
EmitLlSavesBothStages ==
  status = "ok" /\ args.ll /\ args.static_stage = "after" /\ args.dynamic_stage = "after" =>
    \A k \in DOMAIN Levels, stage \in {"before", "after"} :
      Out(Levels[k], "ll", stage) \in DOMAIN files

\* --debug is what keeps partially emitted artifacts after an error (help text
\* of --debug): without it there are none.
NoPartialArtifacts ==
  status = "error" /\ ~ args.debug => \A p \in DOMAIN files : files[p].whole

==============================================================================
