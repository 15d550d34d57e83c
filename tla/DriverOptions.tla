---------------------------- MODULE DriverOptions ----------------------------
(***************************************************************************)
(* From the command line of cdfgg to what it will do: build_behavior,      *)
(* build_configs and the steps main takes for one configuration.           *)
(*                                                                         *)
(* Of an option that takes a path only whether it is given is kept; levels *)
(* are the -O options in their order.                                      *)
(***************************************************************************)
EXTENDS Integers, SequencesExt

Stages == {"before", "after", "both"}

Options ==
  [levels : Seq({"O0", "O1", "O2", "O3", "Og", "Os", "Oz", "Ofast"}),
   o : BOOLEAN, full : BOOLEAN, static_graph : BOOLEAN, dynamic_graph : BOOLEAN,
   json : BOOLEAN, dot : BOOLEAN, ll : BOOLEAN, profile : BOOLEAN, no_svg : BOOLEAN,
   static_stage : Stages, dynamic_stage : Stages,
   keep_tmp : BOOLEAN, delete_bins : BOOLEAN, debug : BOOLEAN]

\* Every level where it is first named.
NormalizeOptLevels(levels) ==
  IF levels = <<>> THEN <<"O2">>
  ELSE LET seen(k) == \E j \in 1..(k - 1) : levels[j] = levels[k]
       IN FlattenSeq([k \in DOMAIN levels |-> IF seen(k) THEN <<>> ELSE <<levels[k]>>])

ExpandStage(stage) == IF stage = "both" THEN <<"before", "after">> ELSE <<stage>>

EmitProfile(args) == args.profile \/ args.full
EmitDynamicGraph(args) == args.dynamic_graph \/ args.o \/ args.full
EmitJson(args) == args.json \/ args.full
EmitDot(args) == args.dot \/ args.full
EmitLl(args) == args.ll \/ args.full
EmitFiles(args) == EmitJson(args) \/ EmitDot(args) \/ EmitLl(args)
NeedsDynamicPipeline(args) == EmitDynamicGraph(args) \/ EmitProfile(args)

\* Files alone are taken to be those of a static graph.
EmitStaticGraph(args) ==
  \/ args.static_graph \/ args.full
  \/ ~ NeedsDynamicPipeline(args) /\ EmitFiles(args)

StaticStages(args) ==
  IF args.full THEN <<"before", "after">>
  ELSE IF EmitStaticGraph(args) THEN ExpandStage(args.static_stage) ELSE <<>>

DynamicStages(args) ==
  IF args.full THEN <<"before", "after">>
  ELSE IF NeedsDynamicPipeline(args) THEN ExpandStage(args.dynamic_stage) ELSE <<>>

RenderSvg(args) == ~ args.no_svg

\* The ValueErrors of build_behavior.
Rejected(args) ==
  \/ args.o /\ Len(NormalizeOptLevels(args.levels)) > 1
  \/ args.o /\ "after" \notin ToSet(DynamicStages(args))
  \/ args.o /\ args.no_svg
  \/ ~ (EmitStaticGraph(args) \/ NeedsDynamicPipeline(args) \/ EmitFiles(args))
  \/ /\ EmitDynamicGraph(args) \/ EmitStaticGraph(args)
     /\ args.no_svg /\ ~ EmitFiles(args) /\ ~ EmitProfile(args)

------------------------------------------------------------------------------
(***************************************************************************)
(* Files are named <<place, level, what, stage>>.  "tmp" is the directory  *)
(* of the base compilation, "compile_before" and "compile_after" those of  *)
(* the instrumented ones inside it, "out" the output directories.          *)
(***************************************************************************)
Variants == {"base", "before", "after"}
CompileRoot(variant) ==
  [base |-> "tmp", before |-> "compile_before", after |-> "compile_after"][variant]
TmpPlaces == {CompileRoot(v) : v \in Variants}

File(place, level, what, stage) == <<place, level, what, stage>>
Tmp(level, what, stage) == File("tmp", level, what, stage)
Out(level, what, stage) == File("out", level, what, stage)
OutputOption == File("-o", "", "dynamic_svg", "after")

Step(op, from, to) == [op |-> op, from |-> from, to |-> to]
Copy(from, to) == <<Step("copy", {from}, {to})>>
CopyOut(level, what, stage) == Copy(Tmp(level, what, stage), Out(level, what, stage))

ForEach(stages, StepsOf(_)) == FlattenSeq([k \in DOMAIN stages |-> StepsOf(stages[k])])
When(condition, steps) == IF condition THEN steps ELSE <<>>

Dumps(level, variant) ==
  {File(CompileRoot(variant), level, what, stage) :
     what \in {"static_json", "ll"}, stage \in {"before", "after"}}
Binary(level, variant) == File(CompileRoot(variant), level, "bin", "")

ExecClang(level, variant) ==
  <<Step(variant, {}, Dumps(level, variant) \cup {Binary(level, variant)})>>

RunInstrumentedProgram(level, stage) ==
  <<Step("run", {Binary(level, stage)}, {Tmp(level, "log", stage)})>>

MergeDynamicProfile(level, stage) ==
  <<Step("merge", {Tmp(level, "static_json", stage), Tmp(level, "log", stage)},
         {Tmp(level, "dynamic_json", stage)})>>

\* sorted(set(static + dynamic)): "after" sorts before "before".
LlStages(args) ==
  LET wanted == ToSet(StaticStages(args)) \cup ToSet(DynamicStages(args))
  IN When("after" \in wanted, <<"after">>) \o When("before" \in wanted, <<"before">>)

\* Where the rendered dynamic SVG of a stage goes.
DynamicSvgDestinations(args, level, stage) ==
  IF ~ args.o THEN <<Out(level, "dynamic_svg", stage)>>
  ELSE IF stage = "after" THEN <<OutputOption>> ELSE <<>>

EmitStaticOutputs(args, level) ==
  LET svg == EmitStaticGraph(args) /\ RenderSvg(args)
      emit(s) ==
        <<Step("dot", {Tmp(level, "static_json", s)}, {Tmp(level, "static_dot", s)})>>
          \o When(EmitDot(args), CopyOut(level, "static_dot", s))
          \o When(svg, <<Step("svg", {Tmp(level, "static_dot", s)}, {Tmp(level, "static_svg", s)})>>
                         \o CopyOut(level, "static_svg", s))
  IN When(EmitDot(args) \/ svg, ForEach(StaticStages(args), emit))

EmitDynamicOutputs(args, level) ==
  LET svg == EmitDynamicGraph(args) /\ RenderSvg(args)
      render(s) ==
        <<Step("svg", {Tmp(level, "dynamic_dot", s)}, {Tmp(level, "dynamic_svg", s)})>>
          \o ForEach(DynamicSvgDestinations(args, level, s),
                     LAMBDA d : Copy(Tmp(level, "dynamic_svg", s), d))
      emit(s) ==
        <<Step("dot", {Tmp(level, "dynamic_json", s)}, {Tmp(level, "dynamic_dot", s)})>>
          \o When(EmitDot(args), CopyOut(level, "dynamic_dot", s))
          \o When(svg, render(s))
  IN When(EmitDot(args) \/ svg, ForEach(DynamicStages(args), emit))

\* The steps of main's loop body for one optimization level, in their order.
Preparation == <<Step("validate", {}, {}), Step("reset_tmp", {}, {})>>

Work(args, level) ==
  LET profiled(s) == ExecClang(level, s) \o RunInstrumentedProgram(level, s)
                       \o MergeDynamicProfile(level, s)
  IN ExecClang(level, "base")
       \o When(NeedsDynamicPipeline(args), ForEach(DynamicStages(args), profiled))
       \o When(~ args.delete_bins, CopyOut(level, "bin", ""))
       \o When(EmitLl(args), ForEach(LlStages(args), LAMBDA s : CopyOut(level, "ll", s)))
       \o When(EmitJson(args),
               ForEach(StaticStages(args), LAMBDA s : CopyOut(level, "static_json", s))
                 \o ForEach(DynamicStages(args), LAMBDA s : CopyOut(level, "dynamic_json", s)))
       \o When(EmitProfile(args), ForEach(DynamicStages(args), LAMBDA s : CopyOut(level, "log", s)))
       \o EmitStaticOutputs(args, level)
       \o EmitDynamicOutputs(args, level)
       \o When(args.delete_bins, <<Step("delete_bin", {}, {})>>)
       \o When(~ args.keep_tmp, <<Step("cleanup_tmp", {}, {})>>)

Plan(args, level) == Preparation \o Work(args, level)

==============================================================================
