-------------------------- MODULE CdfggDriverProofs --------------------------
(***************************************************************************)
(* Theorems about CdfggDriver, for every set of command lines, with any    *)
(* number of levels, all leftovers of earlier runs and all faults.         *)
(***************************************************************************)
EXTENDS CdfggDriver, SequenceFacts

(***************************************************************************)
(* The plan: stages are at most two, so that FlattenSeq is two recursions  *)
(* deep at most.                                                           *)
(***************************************************************************)
LEMMA FlattenOne ==
  ASSUME NEW ss, Len(ss) = 1
  PROVE  FlattenSeq(ss) = ss[1]
<1> DEFINE Eq(g) == g = [i \in 1..1 |-> IF i = 1 THEN ss[i] ELSE g[i - 1] \o ss[i]]
<1>1. Eq([i \in 1..1 |-> ss[i]])
  OBVIOUS
<1>2. Eq(CHOOSE g : Eq(g))
  BY <1>1
<1> QED BY <1>2 DEF FlattenSeq

LEMMA FlattenTwo ==
  ASSUME NEW ss, Len(ss) = 2
  PROVE  FlattenSeq(ss) = ss[1] \o ss[2]
<1> DEFINE Eq(g) == g = [i \in 1..2 |-> IF i = 1 THEN ss[i] ELSE g[i - 1] \o ss[i]]
           f == CHOOSE g : Eq(g)
<1>1. Eq([i \in 1..2 |-> IF i = 1 THEN ss[1] ELSE ss[1] \o ss[2]])
  OBVIOUS
<1>2. FlattenSeq(ss) = f[2]
  BY DEF FlattenSeq
<1>3. f = [i \in 1..2 |-> IF i = 1 THEN ss[i] ELSE f[i - 1] \o ss[i]]
  BY <1>1
<1> HIDE DEF f
<1>4. f[1] = ss[1]
  BY <1>3
<1>5. f[2] = f[1] \o ss[2]
  BY <1>3
<1> QED BY <1>2, <1>4, <1>5

\* ForEach over at most two stages.
LEMMA ForEachType ==
  ASSUME NEW S, NEW stages \in Seq(Each), Len(stages) <= 2, NEW ss,
         ss = [k \in DOMAIN stages |-> ss[k]], \A k \in DOMAIN stages : ss[k] \in Seq(S)
  PROVE  FlattenSeq(ss) \in Seq(S)
<1>1. DOMAIN stages = 1..Len(stages) /\ Len(stages) \in Nat
  OBVIOUS
<1>2. ss \in Seq(Seq(S)) /\ Len(ss) <= 2
  BY <1>1
<1> QED BY <1>2, FlattenType

\* The stages of a command line are at most the two.
LEMMA StagesType ==
  ASSUME NEW a \in Options
  PROVE  /\ StaticStages(a) \in Seq(Each) /\ Len(StaticStages(a)) <= 2
         /\ DynamicStages(a) \in Seq(Each) /\ Len(DynamicStages(a)) <= 2
         /\ LlStages(a) \in Seq(Each) /\ Len(LlStages(a)) <= 2
<1> DEFINE Short == {<<>>, <<"before">>, <<"after">>, <<"before", "after">>, <<"after", "before">>}
<1>1. a.static_stage \in Stages /\ a.dynamic_stage \in Stages
  BY DEF Options
<1>2. \A s \in Stages : ExpandStage(s) \in Short
  BY DEF Stages, ExpandStage
<1>3. StaticStages(a) \in Short
  BY <1>1, <1>2 DEF StaticStages
<1>4. DynamicStages(a) \in Short
  BY <1>1, <1>2 DEF DynamicStages
<1>5. LlStages(a) \in Seq(Each) /\ Len(LlStages(a)) <= 2
  <2> DEFINE wanted == ToSet(StaticStages(a)) \cup ToSet(DynamicStages(a))
             first == When("after" \in wanted, <<"after">>)
             second == When("before" \in wanted, <<"before">>)
  <2>1. LlStages(a) = first \o second
    BY DEF LlStages
  <2> HIDE DEF wanted, first, second
  <2>2. /\ <<>> \in Seq(Each) /\ Len(<<>>) = 0
        /\ \A x \in Each : <<x>> \in Seq(Each) /\ Len(<<x>>) = 1
    OBVIOUS
  <2>3. "before" \in Each /\ "after" \in Each
    BY DEF Each
  <2>4. /\ first \in Seq(Each) /\ Len(first) \in 0..1
        /\ second \in Seq(Each) /\ Len(second) \in 0..1
    BY <2>2, <2>3 DEF first, second, When
  <2> QED BY <2>1, <2>4, ConcatProperties
<1>6. \A s \in Short : s \in Seq(Each) /\ Len(s) <= 2
  <2>1. <<>> \in Seq(Each) /\ Len(<<>>) <= 2
    OBVIOUS
  <2>2. \A x \in Each : <<x>> \in Seq(Each) /\ Len(<<x>>) <= 2
    OBVIOUS
  <2>3. \A x, y \in Each : <<x, y>> \in Seq(Each) /\ Len(<<x, y>>) <= 2
    OBVIOUS
  <2> QED BY <2>1, <2>2, <2>3 DEF Each
<1> QED BY <1>3, <1>4, <1>5, <1>6

LEMMA WhenType ==
  ASSUME NEW S, NEW c, c \in BOOLEAN, NEW s, c => s \in Seq(S)
  PROVE  When(c, s) \in Seq(S)
BY DEF When

\* What the helpers of the plan emit are steps of WorkSteps.
LEMMA EmittedType ==
  ASSUME NEW a, NEW l, NEW W, W = WorkSteps(a, l)
  PROVE  /\ \A v \in Variants : ExecClang(l, v) \in Seq(W)
         /\ \A s \in Each :
              /\ RunInstrumentedProgram(l, s) \in Seq(W)
              /\ MergeDynamicProfile(l, s) \in Seq(W)
              /\ \A what \in Delivered : CopyOut(l, what, s) \in Seq(W)
              /\ \A d \in Drawn :
                   /\ <<Step("dot", {Tmp(l, d[1], s)}, {Tmp(l, d[2], s)})>> \in Seq(W)
                   /\ <<Step("svg", {Tmp(l, d[2], s)}, {Tmp(l, d[3], s)})>> \in Seq(W)
         /\ ~ a.delete_bins => CopyOut(l, "bin", "") \in Seq(W)
         /\ a.o => Copy(Tmp(l, "dynamic_svg", "after"), OutputOption) \in Seq(W)
         /\ <<Step("cleanup_tmp", {}, {})>> \in Seq(W)
         /\ a.delete_bins => <<Step("delete_bin", {}, {})>> \in Seq(W)
<1>0. \A x \in W : <<x>> \in Seq(W)
  OBVIOUS
<1>1. ASSUME NEW v \in Variants PROVE ExecClang(l, v) \in Seq(W)
  <2>1. Step(v, {}, Dumps(l, v) \cup {Binary(l, v)}) \in Compilations(l)
    BY DEF Compilations
  <2> QED BY <1>0, <2>1 DEF ExecClang, WorkSteps
<1>2. ASSUME NEW s \in Each
      PROVE  /\ RunInstrumentedProgram(l, s) \in Seq(W)
             /\ MergeDynamicProfile(l, s) \in Seq(W)
             /\ \A what \in Delivered : CopyOut(l, what, s) \in Seq(W)
             /\ \A d \in Drawn :
                  /\ <<Step("dot", {Tmp(l, d[1], s)}, {Tmp(l, d[2], s)})>> \in Seq(W)
                  /\ <<Step("svg", {Tmp(l, d[2], s)}, {Tmp(l, d[3], s)})>> \in Seq(W)
  <2>0. \A x \in StageSteps(l, s) : <<x>> \in Seq(W)
    BY <1>0 DEF WorkSteps, Each
  <2>1. Step("run", {Binary(l, s)}, {Tmp(l, "log", s)}) \in StageSteps(l, s)
    BY DEF StageSteps
  <2>2. Step("merge", {Tmp(l, "static_json", s), Tmp(l, "log", s)},
             {Tmp(l, "dynamic_json", s)}) \in StageSteps(l, s)
    BY DEF StageSteps
  <2>3. ASSUME NEW what \in Delivered PROVE CopyOut(l, what, s) \in Seq(W)
    <3>1. Step("copy", {Tmp(l, what, s)}, {Out(l, what, s)}) \in StageSteps(l, s)
      BY DEF StageSteps
    <3> QED BY <2>0, <3>1 DEF CopyOut, Copy
  <2>4. ASSUME NEW d \in Drawn
        PROVE  /\ <<Step("dot", {Tmp(l, d[1], s)}, {Tmp(l, d[2], s)})>> \in Seq(W)
               /\ <<Step("svg", {Tmp(l, d[2], s)}, {Tmp(l, d[3], s)})>> \in Seq(W)
    <3>1. Step("dot", {Tmp(l, d[1], s)}, {Tmp(l, d[2], s)}) \in StageSteps(l, s)
      BY DEF StageSteps
    <3>2. Step("svg", {Tmp(l, d[2], s)}, {Tmp(l, d[3], s)}) \in StageSteps(l, s)
      BY DEF StageSteps
    <3> QED BY <2>0, <3>1, <3>2
  <2> QED BY <2>0, <2>1, <2>2, <2>3, <2>4 DEF RunInstrumentedProgram, MergeDynamicProfile
<1>3. \A x \in LevelSteps(a, l) : <<x>> \in Seq(W)
  <2>1. LevelSteps(a, l) \subseteq W
    BY DEF WorkSteps
  <2> QED BY <1>0, <2>1
<1>4. /\ ~ a.delete_bins =>
           Step("copy", {Tmp(l, "bin", "")}, {Out(l, "bin", "")}) \in LevelSteps(a, l)
      /\ a.o => Step("copy", {Tmp(l, "dynamic_svg", "after")}, {OutputOption}) \in LevelSteps(a, l)
      /\ Step("cleanup_tmp", {}, {}) \in LevelSteps(a, l)
      /\ a.delete_bins => Step("delete_bin", {}, {}) \in LevelSteps(a, l)
  BY DEF LevelSteps
<1>5. /\ ~ a.delete_bins => CopyOut(l, "bin", "") \in Seq(W)
      /\ a.o => Copy(Tmp(l, "dynamic_svg", "after"), OutputOption) \in Seq(W)
  BY <1>3, <1>4 DEF CopyOut, Copy
<1>6. /\ <<Step("cleanup_tmp", {}, {})>> \in Seq(W)
      /\ a.delete_bins => <<Step("delete_bin", {}, {})>> \in Seq(W)
  BY <1>3, <1>4
<1> QED BY <1>1, <1>2, <1>5, <1>6

\* The parts of the work of a level, one behind the other.
ProfileSteps(a, l) ==
  When(NeedsDynamicPipeline(a),
       ForEach(DynamicStages(a), LAMBDA s : ExecClang(l, s) \o RunInstrumentedProgram(l, s)
                                              \o MergeDynamicProfile(l, s)))
BinCopies(a, l) == When(~ a.delete_bins, CopyOut(l, "bin", ""))
LlCopies(a, l) == When(EmitLl(a), ForEach(LlStages(a), LAMBDA s : CopyOut(l, "ll", s)))
JsonCopies(a, l) ==
  When(EmitJson(a),
       ForEach(StaticStages(a), LAMBDA s : CopyOut(l, "static_json", s))
         \o ForEach(DynamicStages(a), LAMBDA s : CopyOut(l, "dynamic_json", s)))
LogCopies(a, l) == When(EmitProfile(a), ForEach(DynamicStages(a), LAMBDA s : CopyOut(l, "log", s)))
Deletion(a) == When(a.delete_bins, <<Step("delete_bin", {}, {})>>)
Clearing(a) == When(~ a.keep_tmp, <<Step("cleanup_tmp", {}, {})>>)

LEMMA WorkParts ==
  ASSUME NEW a, NEW l
  PROVE  Work(a, l) = ExecClang(l, "base") \o ProfileSteps(a, l) \o BinCopies(a, l)
                        \o LlCopies(a, l) \o JsonCopies(a, l) \o LogCopies(a, l)
                        \o EmitStaticOutputs(a, l) \o EmitDynamicOutputs(a, l)
                        \o Deletion(a) \o Clearing(a)
BY DEF Work, ProfileSteps, BinCopies, LlCopies, JsonCopies, LogCopies, Deletion, Clearing

\* Each of them consists of steps of WorkSteps.
LEMMA PartsType ==
  ASSUME NEW a \in Options, NEW l, NEW W, W = WorkSteps(a, l)
  PROVE  /\ ExecClang(l, "base") \in Seq(W) /\ ProfileSteps(a, l) \in Seq(W)
         /\ BinCopies(a, l) \in Seq(W) /\ LlCopies(a, l) \in Seq(W)
         /\ JsonCopies(a, l) \in Seq(W) /\ LogCopies(a, l) \in Seq(W)
         /\ EmitStaticOutputs(a, l) \in Seq(W) /\ EmitDynamicOutputs(a, l) \in Seq(W)
         /\ Deletion(a) \in Seq(W) /\ Clearing(a) \in Seq(W)
<1> DEFINE static == StaticStages(a)
           dynamic == DynamicStages(a)
<1>1. /\ static \in Seq(Each) /\ Len(static) <= 2
      /\ dynamic \in Seq(Each) /\ Len(dynamic) <= 2
      /\ LlStages(a) \in Seq(Each) /\ Len(LlStages(a)) <= 2
  BY StagesType
<1>0. /\ \A v \in Variants : ExecClang(l, v) \in Seq(W)
      /\ \A s \in Each :
           /\ RunInstrumentedProgram(l, s) \in Seq(W)
           /\ MergeDynamicProfile(l, s) \in Seq(W)
           /\ \A what \in Delivered : CopyOut(l, what, s) \in Seq(W)
  BY EmittedType
<1>2. ASSUME NEW what \in Delivered, NEW stages \in Seq(Each), Len(stages) <= 2
      PROVE  ForEach(stages, LAMBDA s : CopyOut(l, what, s)) \in Seq(W)
  <2> DEFINE ss == [k \in DOMAIN stages |-> CopyOut(l, what, stages[k])]
  <2>1. \A k \in DOMAIN stages : ss[k] \in Seq(W)
    BY <1>0
  <2>2. ss = [k \in DOMAIN stages |-> ss[k]]
    OBVIOUS
  <2> HIDE DEF ss
  <2>3. FlattenSeq(ss) \in Seq(W)
    BY <1>2, <2>1, <2>2, ForEachType
  <2> QED BY <2>3 DEF ForEach, ss
<1>3. ForEach(dynamic, LAMBDA s : ExecClang(l, s) \o RunInstrumentedProgram(l, s)
                                      \o MergeDynamicProfile(l, s)) \in Seq(W)
  <2> DEFINE ss == [k \in DOMAIN dynamic |->
                      ExecClang(l, dynamic[k]) \o RunInstrumentedProgram(l, dynamic[k])
                        \o MergeDynamicProfile(l, dynamic[k])]
  <2>1. Each \subseteq Variants
    BY DEF Each, Variants
  <2>2. \A k \in DOMAIN dynamic : ss[k] \in Seq(W)
    <3> TAKE k \in DOMAIN dynamic
    <3>1. dynamic[k] \in Each
      BY <1>1
    <3>2. /\ ExecClang(l, dynamic[k]) \in Seq(W)
          /\ RunInstrumentedProgram(l, dynamic[k]) \in Seq(W)
          /\ MergeDynamicProfile(l, dynamic[k]) \in Seq(W)
      BY <1>0, <2>1, <3>1
    <3> QED BY <3>2
  <2>3. ss = [k \in DOMAIN dynamic |-> ss[k]]
    OBVIOUS
  <2> HIDE DEF ss
  <2>4. FlattenSeq(ss) \in Seq(W)
    BY <1>1, <2>2, <2>3, ForEachType
  <2> QED BY <2>4 DEF ForEach, ss
<1>4. EmitStaticOutputs(a, l) \in Seq(W)
  <2> DEFINE svg == EmitStaticGraph(a) /\ RenderSvg(a)
             emit(s) ==
               <<Step("dot", {Tmp(l, "static_json", s)}, {Tmp(l, "static_dot", s)})>>
                 \o When(EmitDot(a), CopyOut(l, "static_dot", s))
                 \o When(svg, <<Step("svg", {Tmp(l, "static_dot", s)}, {Tmp(l, "static_svg", s)})>>
                                \o CopyOut(l, "static_svg", s))
             ss == [k \in DOMAIN static |-> emit(static[k])]
  <2>1. ASSUME NEW s \in Each PROVE emit(s) \in Seq(W)
    <3>1. /\ <<Step("dot", {Tmp(l, "static_json", s)}, {Tmp(l, "static_dot", s)})>> \in Seq(W)
          /\ <<Step("svg", {Tmp(l, "static_dot", s)}, {Tmp(l, "static_svg", s)})>> \in Seq(W)
      <4> DEFINE d == <<"static_json", "static_dot", "static_svg">>
      <4>1. d \in Drawn /\ d[1] = "static_json" /\ d[2] = "static_dot" /\ d[3] = "static_svg"
        BY DEF Drawn
      <4> HIDE DEF d
      <4> QED BY <4>1, EmittedType
    <3>2. CopyOut(l, "static_dot", s) \in Seq(W) /\ CopyOut(l, "static_svg", s) \in Seq(W)
      BY <1>0 DEF Delivered
    <3> QED BY <3>1, <3>2 DEF When
  <2>2. \A k \in DOMAIN static : ss[k] \in Seq(W)
    <3> HIDE DEF emit
    <3> QED BY <1>1, <2>1
  <2>3. ss = [k \in DOMAIN static |-> ss[k]]
    OBVIOUS
  <2>4. FlattenSeq(ss) \in Seq(W)
    <3> HIDE DEF ss
    <3> QED BY <1>1, <2>2, <2>3, ForEachType
  <2> QED BY <2>4 DEF EmitStaticOutputs, ForEach, When
<1>5. EmitDynamicOutputs(a, l) \in Seq(W)
  <2> DEFINE svg == EmitDynamicGraph(a) /\ RenderSvg(a)
             delivery(s) ==
               ForEach(DynamicSvgDestinations(a, l, s), LAMBDA d : Copy(Tmp(l, "dynamic_svg", s), d))
             emit(s) ==
               <<Step("dot", {Tmp(l, "dynamic_json", s)}, {Tmp(l, "dynamic_dot", s)})>>
                 \o When(EmitDot(a), CopyOut(l, "dynamic_dot", s))
                 \o When(svg, <<Step("svg", {Tmp(l, "dynamic_dot", s)}, {Tmp(l, "dynamic_svg", s)})>>
                                \o delivery(s))
             ss == [k \in DOMAIN dynamic |-> emit(dynamic[k])]
  <2>1. ASSUME NEW s \in Each PROVE delivery(s) \in Seq(W)
    <3>1. /\ CopyOut(l, "dynamic_svg", s) \in Seq(W)
          /\ a.o => Copy(Tmp(l, "dynamic_svg", "after"), OutputOption) \in Seq(W)
      BY EmittedType DEF Delivered
    <3>2. ASSUME NEW d, DynamicSvgDestinations(a, l, s) = <<d>>,
                 Copy(Tmp(l, "dynamic_svg", s), d) \in Seq(W)
          PROVE  delivery(s) \in Seq(W)
      <4> DEFINE copies == [k \in DOMAIN <<d>> |-> Copy(Tmp(l, "dynamic_svg", s), <<d>>[k])]
      <4>1. Len(copies) = 1 /\ copies[1] = Copy(Tmp(l, "dynamic_svg", s), d)
        OBVIOUS
      <4>2. FlattenSeq(copies) \in Seq(W)
        <5> HIDE DEF copies
        <5> QED BY <3>2, <4>1, FlattenOne
      <4> QED BY <3>2, <4>2 DEF ForEach
    <3>3. CASE DynamicSvgDestinations(a, l, s) = <<>>
      BY <3>3 DEF ForEach, FlattenSeq
    <3> QED BY <3>1, <3>2, <3>3 DEF DynamicSvgDestinations, CopyOut
  <2>2. ASSUME NEW s \in Each PROVE emit(s) \in Seq(W)
    <3>1. /\ <<Step("dot", {Tmp(l, "dynamic_json", s)}, {Tmp(l, "dynamic_dot", s)})>> \in Seq(W)
          /\ <<Step("svg", {Tmp(l, "dynamic_dot", s)}, {Tmp(l, "dynamic_svg", s)})>> \in Seq(W)
      <4> DEFINE d == <<"dynamic_json", "dynamic_dot", "dynamic_svg">>
      <4>1. d \in Drawn /\ d[1] = "dynamic_json" /\ d[2] = "dynamic_dot" /\ d[3] = "dynamic_svg"
        BY DEF Drawn
      <4> HIDE DEF d
      <4> QED BY <4>1, EmittedType
    <3>2. CopyOut(l, "dynamic_dot", s) \in Seq(W)
      BY <1>0 DEF Delivered
    <3> HIDE DEF delivery
    <3> QED BY <2>1, <3>1, <3>2 DEF When
  <2>3. \A k \in DOMAIN dynamic : ss[k] \in Seq(W)
    <3> HIDE DEF emit
    <3> QED BY <1>1, <2>2
  <2>4. ss = [k \in DOMAIN dynamic |-> ss[k]]
    OBVIOUS
  <2>5. FlattenSeq(ss) \in Seq(W)
    <3> HIDE DEF ss
    <3> QED BY <1>1, <2>3, <2>4, ForEachType
  <2> QED BY <2>5 DEF EmitDynamicOutputs, ForEach, When
<1>6. ExecClang(l, "base") \in Seq(W) /\ ProfileSteps(a, l) \in Seq(W)
  <2>1. "base" \in Variants
    BY DEF Variants
  <2>2. ExecClang(l, "base") \in Seq(W)
    BY <1>0, <2>1
  <2>3. NeedsDynamicPipeline(a) \in BOOLEAN
    BY DEF NeedsDynamicPipeline
  <2>4. ProfileSteps(a, l) \in Seq(W)
    BY <1>3, <2>3, WhenType DEF ProfileSteps
  <2> QED BY <2>2, <2>4
<1>7. BinCopies(a, l) \in Seq(W) /\ Deletion(a) \in Seq(W) /\ Clearing(a) \in Seq(W)
  <2>1. /\ ~ a.delete_bins => CopyOut(l, "bin", "") \in Seq(W)
        /\ <<Step("cleanup_tmp", {}, {})>> \in Seq(W)
        /\ a.delete_bins => <<Step("delete_bin", {}, {})>> \in Seq(W)
    BY EmittedType
  <2>2. a.delete_bins \in BOOLEAN /\ a.keep_tmp \in BOOLEAN
    BY DEF Options
  <2>3. (~ a.delete_bins) \in BOOLEAN /\ (~ a.keep_tmp) \in BOOLEAN
    OBVIOUS
  <2>4. BinCopies(a, l) \in Seq(W)
    BY <2>1, <2>3, WhenType DEF BinCopies
  <2>5. Deletion(a) \in Seq(W)
    BY <2>1, <2>2, WhenType DEF Deletion
  <2>6. Clearing(a) \in Seq(W)
    BY <2>1, <2>3, WhenType DEF Clearing
  <2> QED BY <2>4, <2>5, <2>6
<1>8. LlCopies(a, l) \in Seq(W) /\ LogCopies(a, l) \in Seq(W)
  <2>1. /\ ForEach(LlStages(a), LAMBDA s : CopyOut(l, "ll", s)) \in Seq(W)
        /\ ForEach(dynamic, LAMBDA s : CopyOut(l, "log", s)) \in Seq(W)
    BY <1>1, <1>2 DEF Delivered
  <2>2. LlCopies(a, l) \in Seq(W)
    BY <2>1 DEF LlCopies, When
  <2>3. LogCopies(a, l) \in Seq(W)
    BY <2>1 DEF LogCopies, When
  <2> QED BY <2>2, <2>3
<1>9. JsonCopies(a, l) \in Seq(W)
  <2>1. /\ ForEach(static, LAMBDA s : CopyOut(l, "static_json", s)) \in Seq(W)
        /\ ForEach(dynamic, LAMBDA s : CopyOut(l, "dynamic_json", s)) \in Seq(W)
    BY <1>1, <1>2 DEF Delivered
  <2> QED BY <2>1 DEF JsonCopies, When
<1> QED BY <1>4, <1>5, <1>6, <1>7, <1>8, <1>9

\* The work of a level consists of such steps.
LEMMA WorkType ==
  ASSUME NEW a \in Options, NEW l, NEW W, W = WorkSteps(a, l)
  PROVE  Work(a, l) \in Seq(W)
<1>1. /\ ExecClang(l, "base") \in Seq(W) /\ ProfileSteps(a, l) \in Seq(W)
      /\ BinCopies(a, l) \in Seq(W) /\ LlCopies(a, l) \in Seq(W)
      /\ JsonCopies(a, l) \in Seq(W) /\ LogCopies(a, l) \in Seq(W)
      /\ EmitStaticOutputs(a, l) \in Seq(W) /\ EmitDynamicOutputs(a, l) \in Seq(W)
      /\ Deletion(a) \in Seq(W) /\ Clearing(a) \in Seq(W)
  BY PartsType
<1> QED BY <1>1, WorkParts, ConcatProperties

(***************************************************************************)
(* What a step of the work reads and writes.                               *)
(***************************************************************************)
LEMMA PlacesOfTmp ==
  TmpPlaces = {"tmp", "compile_before", "compile_after"}
BY DEF TmpPlaces, Variants, CompileRoot

\* What a copy of the work copies.
IsDelivery(step, l) ==
  \E from, to :
    /\ step.from = {from} /\ step.to = {to}
    /\ from[1] = "tmp" /\ from[2] = l /\ to[1] \notin TmpPlaces
    /\ to[3] = from[3] /\ to[4] = from[4]

StepShape(step, a, l) ==
  /\ step.op \notin {"validate", "reset_tmp"}
  /\ step.op \in Variants => step.to = Dumps(l, step.op) \cup {Binary(l, step.op)}
  /\ step.op = "run" =>
       \E s \in Each : step.from = {Binary(l, s)} /\ step.to = {Tmp(l, "log", s)}
  /\ step.op = "merge" =>
       \E s \in Each : /\ step.from = {Tmp(l, "static_json", s), Tmp(l, "log", s)}
                       /\ step.to = {Tmp(l, "dynamic_json", s)}
  /\ step.op = "dot" =>
       \E s \in Each, d \in Drawn :
         step.from = {Tmp(l, d[1], s)} /\ step.to = {Tmp(l, d[2], s)}
  /\ step.op = "svg" =>
       \E s \in Each, d \in Drawn :
         step.from = {Tmp(l, d[2], s)} /\ step.to = {Tmp(l, d[3], s)}
  /\ step.op = "copy" => IsDelivery(step, l)
  /\ step.op = "delete_bin" => a.delete_bins
  /\ step.op # "copy" => \A p \in step.to : InTmp(p, l)

LEMMA DeliveryIntro ==
  ASSUME NEW l, NEW step, NEW from, NEW to, step = Step("copy", {from}, {to}),
         from[1] = "tmp", from[2] = l, to[1] \notin TmpPlaces,
         to[3] = from[3], to[4] = from[4]
  PROVE  step.op = "copy" /\ IsDelivery(step, l)
<1>1. step.op = "copy" /\ step.from = {from} /\ step.to = {to}
  BY DEF Step
<1> QED BY <1>1 DEF IsDelivery

\* Every step of the work has this shape.
LEMMA WorkShape ==
  ASSUME NEW a, NEW l, NEW step \in WorkSteps(a, l)
  PROVE  StepShape(step, a, l)
<1>1. CASE step \in Compilations(l)
  <2>1. PICK v \in Variants : step = Step(v, {}, Dumps(l, v) \cup {Binary(l, v)})
    BY <1>1 DEF Compilations
  <2>2. step.op = v /\ step.to = Dumps(l, v) \cup {Binary(l, v)}
    BY <2>1 DEF Step
  <2>3. v \notin {"validate", "reset_tmp", "run", "merge", "dot", "svg", "copy", "delete_bin"}
    BY DEF Variants
  <2>4. \A p \in Dumps(l, v) \cup {Binary(l, v)} : InTmp(p, l)
    <3>1. CompileRoot(v) \in TmpPlaces
      BY DEF TmpPlaces
    <3>2. \A what, stage : InTmp(File(CompileRoot(v), l, what, stage), l)
      BY <3>1 DEF File, InTmp
    <3>3. ASSUME NEW p \in Dumps(l, v) PROVE InTmp(p, l)
      <4>1. PICK what \in {"static_json", "ll"}, stage \in {"before", "after"} :
              p = File(CompileRoot(v), l, what, stage)
        BY <3>3 DEF Dumps
      <4> QED BY <3>2, <4>1
    <3> QED BY <3>2, <3>3 DEF Binary
  <2> QED BY <2>2, <2>3, <2>4 DEF StepShape
<1>2. ASSUME NEW s \in Each, step \in StageSteps(l, s) PROVE StepShape(step, a, l)
  <2>1. CASE step = Step("run", {Binary(l, s)}, {Tmp(l, "log", s)})
    BY <2>1, PlacesOfTmp DEF StepShape, Step, Variants, InTmp, Tmp, File
  <2>2. CASE step = Step("merge", {Tmp(l, "static_json", s), Tmp(l, "log", s)},
                         {Tmp(l, "dynamic_json", s)})
    BY <2>2, PlacesOfTmp DEF StepShape, Step, Variants, InTmp, Tmp, File
  <2>3. ASSUME NEW d \in Drawn, step = Step("dot", {Tmp(l, d[1], s)}, {Tmp(l, d[2], s)})
        PROVE  StepShape(step, a, l)
    <3>1. InTmp(Tmp(l, d[2], s), l)
      BY PlacesOfTmp DEF InTmp, Tmp, File
    <3> QED BY <2>3, <3>1 DEF StepShape, Step, Variants
  <2>4. ASSUME NEW d \in Drawn, step = Step("svg", {Tmp(l, d[2], s)}, {Tmp(l, d[3], s)})
        PROVE  StepShape(step, a, l)
    <3>1. InTmp(Tmp(l, d[3], s), l)
      BY PlacesOfTmp DEF InTmp, Tmp, File
    <3> QED BY <2>4, <3>1 DEF StepShape, Step, Variants
  <2>5. ASSUME NEW what \in Delivered,
               step = Step("copy", {Tmp(l, what, s)}, {Out(l, what, s)})
        PROVE  StepShape(step, a, l)
    <3> DEFINE from == Tmp(l, what, s)
               to == Out(l, what, s)
    <3>1. from[1] = "tmp" /\ from[2] = l /\ from[3] = what /\ from[4] = s
      BY DEF Tmp, File
    <3>2. to[1] = "out" /\ to[3] = what /\ to[4] = s
      BY DEF Out, File
    <3>3. to[1] \notin TmpPlaces
      BY <3>2, PlacesOfTmp
    <3>4. step = Step("copy", {from}, {to})
      BY <2>5
    <3> HIDE DEF from, to
    <3>5. step.op = "copy" /\ IsDelivery(step, l)
      BY <3>1, <3>2, <3>3, <3>4, DeliveryIntro
    <3> QED BY <3>5 DEF StepShape, Variants
  <2> QED BY <1>2, <2>1, <2>2, <2>3, <2>4, <2>5 DEF StageSteps
<1>3. CASE step \in LevelSteps(a, l)
  <2>1. CASE ~ a.delete_bins /\ step = Step("copy", {Tmp(l, "bin", "")}, {Out(l, "bin", "")})
    <3> DEFINE from == Tmp(l, "bin", "")
               to == Out(l, "bin", "")
    <3>1. from[1] = "tmp" /\ from[2] = l /\ from[3] = "bin" /\ from[4] = ""
      BY DEF Tmp, File
    <3>2. to[1] = "out" /\ to[3] = "bin" /\ to[4] = ""
      BY DEF Out, File
    <3>3. to[1] \notin TmpPlaces
      BY <3>2, PlacesOfTmp
    <3>4. step = Step("copy", {from}, {to})
      BY <2>1
    <3> HIDE DEF from, to
    <3>5. step.op = "copy" /\ IsDelivery(step, l)
      BY <3>1, <3>2, <3>3, <3>4, DeliveryIntro
    <3> QED BY <3>5 DEF StepShape, Variants
  <2>2. CASE a.o /\ step = Step("copy", {Tmp(l, "dynamic_svg", "after")}, {OutputOption})
    <3> DEFINE from == Tmp(l, "dynamic_svg", "after")
               to == OutputOption
    <3>1. from[1] = "tmp" /\ from[2] = l /\ from[3] = "dynamic_svg" /\ from[4] = "after"
      BY DEF Tmp, File
    <3>2. to[1] = "-o" /\ to[3] = "dynamic_svg" /\ to[4] = "after"
      BY DEF OutputOption, File
    <3>3. to[1] \notin TmpPlaces
      BY <3>2, PlacesOfTmp
    <3>4. step = Step("copy", {from}, {to})
      BY <2>2
    <3> HIDE DEF from, to
    <3>5. step.op = "copy" /\ IsDelivery(step, l)
      BY <3>1, <3>2, <3>3, <3>4, DeliveryIntro
    <3> QED BY <3>5 DEF StepShape, Variants
  <2>3. CASE step = Step("cleanup_tmp", {}, {})
    BY <2>3 DEF StepShape, Step, Variants
  <2>4. CASE a.delete_bins /\ step = Step("delete_bin", {}, {})
    BY <2>4 DEF StepShape, Step, Variants
  <2> QED BY <1>3, <2>1, <2>2, <2>3, <2>4 DEF LevelSteps
<1> QED BY <1>1, <1>2, <1>3 DEF WorkSteps, Each

(***************************************************************************)
(* What the tools make of genuine files.                                   *)
(***************************************************************************)
LEMMA CompiledIsGenuine ==
  ASSUME NEW l, NEW v \in Variants, NEW p \in Dumps(l, v) \cup {Binary(l, v)}
  PROVE  Compiled(v, p) = Content(TRUE, TRUE, TmpIds(p))
<1>1. p[1] = CompileRoot(v)
  <2>1. \A what, stage : File(CompileRoot(v), l, what, stage)[1] = CompileRoot(v)
    BY DEF File
  <2>2. ASSUME NEW q \in Dumps(l, v) PROVE q[1] = CompileRoot(v)
    <3>1. PICK what \in {"static_json", "ll"}, stage \in {"before", "after"} :
            q = File(CompileRoot(v), l, what, stage)
      BY <2>2 DEF Dumps
    <3> QED BY <2>1, <3>1
  <2> QED BY <2>1, <2>2 DEF Binary
<1>2. CASE v = "base"
  BY <1>1, <1>2 DEF CompileRoot, Compiled, Content, TmpIds, IdsOf, LogIds, ModuleAt, InjectionStage
<1>3. CASE v = "before"
  BY <1>1, <1>3 DEF CompileRoot, Compiled, Content, TmpIds
<1>4. CASE v = "after"
  BY <1>1, <1>4 DEF CompileRoot, Compiled, Content, TmpIds
<1> QED BY <1>2, <1>3, <1>4 DEF Variants

\* A binary that logs and the files of its stage have the same ids.
LEMMA IdsOfStage ==
  ASSUME NEW l, NEW s \in Each
  PROVE  /\ Binary(l, s)[3] = "bin" /\ InTmp(Binary(l, s), l)
         /\ TmpIds(Binary(l, s)) = TmpIds(Tmp(l, "log", s))
         /\ \A what : what # "bin" => TmpIds(Tmp(l, what, s)) = TmpIds(Tmp(l, "log", s))
<1>1. \A what : LET p == Tmp(l, what, s) IN p[1] = "tmp" /\ p[3] = what /\ p[4] = s
  BY DEF Tmp, File
<1>2. \A what : what # "bin" => TmpIds(Tmp(l, what, s)) = IF s = "before" THEN "front" ELSE "optimized"
  BY <1>1 DEF TmpIds, IdsOf
<1>3. LET p == Binary(l, s) IN p[1] = CompileRoot(s) /\ p[2] = l /\ p[3] = "bin"
  BY DEF Binary, File
<1>4. TmpIds(Binary(l, s)) = IF s = "before" THEN "front" ELSE "optimized"
  <2>1. CASE s = "before"
    BY <1>3, <2>1 DEF TmpIds, CompileRoot, Compiled, Content, LogIds, ModuleAt, InjectionStage
  <2>2. CASE s = "after"
    BY <1>3, <2>2 DEF TmpIds, CompileRoot, Compiled, Content, LogIds, ModuleAt, InjectionStage
  <2> QED BY <2>1, <2>2 DEF Each
<1>5. CompileRoot(s) \in TmpPlaces
  BY DEF TmpPlaces, Each, Variants
<1> QED BY <1>2, <1>3, <1>4, <1>5 DEF InTmp

\* From files of one kind a tool makes one of that kind.
LEMMA OutputOfAlike ==
  ASSUME NEW inputs, inputs # {}, NEW whole \in BOOLEAN, NEW ids,
         \A p \in inputs : files[p] = Content(TRUE, whole, ids)
  PROVE  ToolOutput(inputs) = Content(TRUE, whole, ids)
<1> DEFINE read == {files[p] : p \in inputs}
           found == {c.ids : c \in read}
<1>1. read = {Content(TRUE, whole, ids)}
  OBVIOUS
<1>2. found = {ids}
  BY <1>1 DEF Content
<1>3. Cardinality(found) = 1 /\ (CHOOSE i \in found : TRUE) = ids
  BY <1>2, FS_Singleton
<1>4. \A c \in read : c.fresh /\ c.whole = whole
  BY <1>1 DEF Content
<1>5. (\A c \in read : c.whole) = whole
  <2>1. CASE whole
    BY <1>4, <2>1
  <2>2. CASE ~ whole
    BY <1>1, <1>4, <2>2
  <2> QED BY <2>1, <2>2
<1>6. ToolOutput(inputs) =
        Content(\A c \in read : c.fresh, \A c \in read : c.whole,
                IF Cardinality(found) = 1 THEN (CHOOSE i \in found : TRUE) ELSE "mismatch")
  BY DEF ToolOutput
<1> HIDE DEF read, found
<1> QED BY <1>3, <1>4, <1>5, <1>6

\* The plan before and after one of its first steps.
LEMMA AfterOne ==
  ASSUME NEW W, NEW rest \in Seq(W), NEW x, NEW t, t = <<x>> \o rest
  PROVE  /\ t # <<>> /\ Head(t) = x /\ Tail(t) = rest
         /\ SubSeq(t, 2, Len(t)) = rest
OBVIOUS

LEMMA AfterTwo ==
  ASSUME NEW W, NEW rest \in Seq(W), NEW x, NEW y, NEW t, t = <<x, y>> \o rest
  PROVE  /\ t # <<>> /\ Head(t) = x /\ Tail(t) = <<y>> \o rest
         /\ SubSeq(t, 3, Len(t)) = rest
OBVIOUS

LEMMA PreparingIntro ==
  ASSUME NEW W, NEW n \in 1..2, NEW rest \in Seq(W), NEW t, t = Preparations(n) \o rest
  PROVE  \E m \in 1..2 :
           LET r == SubSeq(t, m + 1, Len(t)) IN
             r \in Seq(W) /\ t = Preparations(m) \o r
<1>1. PICK x, y : Preparation = <<x, y>>
  BY DEF Preparation
<1>2. Tail(Preparation) = <<y>>
  BY <1>1
<1>3. SubSeq(t, n + 1, Len(t)) = rest
  <2>1. CASE n = 1
    <3>1. n # 2
      BY <2>1
    <3>2. t = <<y>> \o rest
      BY <1>2, <3>1, Zenon DEF Preparations
    <3>3. SubSeq(t, 2, Len(t)) = rest
      BY <3>2, AfterOne
    <3>4. n + 1 = 2
      BY <2>1
    <3> QED BY <3>3, <3>4, Zenon
  <2>2. CASE n = 2
    <3>1. t = <<x, y>> \o rest
      BY <1>1, <2>2, Zenon DEF Preparations
    <3>2. SubSeq(t, 3, Len(t)) = rest
      BY <3>1, AfterTwo
    <3>3. n + 1 = 3
      BY <2>2
    <3> QED BY <3>2, <3>3, Zenon
  <2>3. n = 1 \/ n = 2
    OBVIOUS
  <2> QED BY <2>1, <2>2, <2>3
<1> QED BY <1>3, Zenon

(***************************************************************************)
(* The invariant: the plan of the level and what is in its tmp.            *)
(***************************************************************************)
IInv == args \in ArgSets /\ DriverInvariant

Working == status = "running" /\ todo \in Seq(WorkSteps(args, Level)) /\ TmpIsGenuine

\* The next step, when the tmp is still to be emptied.
LEMMA NextOfPreparing ==
  ASSUME Preparing
  PROVE  /\ todo # <<>> /\ NextStep.op \in {"validate", "reset_tmp"} /\ NextStep.to = {}
         /\ NextStep.op = "reset_tmp" => Tail(todo) \in Seq(WorkSteps(args, Level))
         /\ NextStep.op = "validate" =>
              \E rest \in Seq(WorkSteps(args, Level)) : Tail(todo) = Tail(Preparation) \o rest
<1>1. PICK n \in 1..2 :
        LET rest == SubSeq(todo, n + 1, Len(todo)) IN
          /\ rest \in Seq(WorkSteps(args, Level))
          /\ todo = Preparations(n) \o rest
  BY DEF Preparing
<1> DEFINE rest == SubSeq(todo, n + 1, Len(todo))
<1>2. rest \in Seq(WorkSteps(args, Level)) /\ todo = Preparations(n) \o rest
  BY <1>1
<1> HIDE DEF rest
<1>3. NextStep = Head(todo)
  BY DEF NextStep
<1>4. PICK x, y : Preparation = <<x, y>>
  BY DEF Preparation
<1>5. Tail(Preparation) = <<y>>
  BY <1>4
<1>6. x.op = "validate" /\ y.op = "reset_tmp" /\ x.to = {} /\ y.to = {}
  <2>1. /\ Preparation[1].op = "validate" /\ Preparation[2].op = "reset_tmp"
        /\ Preparation[1].to = {} /\ Preparation[2].to = {}
    BY DEF Preparation, Step
  <2> QED BY <1>4, <2>1
<1>7. CASE n = 1
  <2>1. n # 2
    BY <1>7
  <2>2. todo = <<y>> \o rest
    BY <1>2, <1>5, <2>1, Zenon DEF Preparations
  <2>3. todo # <<>> /\ Head(todo) = y /\ Tail(todo) = rest
    BY <1>2, <2>2, AfterOne
  <2>4. y.op # "validate"
    BY <1>6
  <2> QED BY <1>2, <1>3, <1>6, <2>3, <2>4, Zenon
<1>8. CASE n = 2
  <2>1. todo = <<x, y>> \o rest
    BY <1>2, <1>4, <1>8, Zenon DEF Preparations
  <2>2. todo # <<>> /\ Head(todo) = x /\ Tail(todo) = <<y>> \o rest
    BY <1>2, <2>1, AfterTwo
  <2>3. x.op # "reset_tmp"
    BY <1>6
  <2> QED BY <1>2, <1>3, <1>5, <1>6, <2>2, <2>3, Zenon
<1>9. n = 1 \/ n = 2
  OBVIOUS
<1> QED BY <1>7, <1>8, <1>9

\* The next step of the work.
LEMMA NextOfWorking ==
  ASSUME todo \in Seq(WorkSteps(args, Level)), todo # <<>>
  PROVE  StepShape(NextStep, args, Level) /\ Tail(todo) \in Seq(WorkSteps(args, Level))
<1>1. NextStep \in WorkSteps(args, Level) /\ Tail(todo) \in Seq(WorkSteps(args, Level))
  BY HeadTailProperties DEF NextStep
<1> QED BY <1>1, WorkShape

\* What has to be shown of a step of the work.
LEMMA WorkGoesOn ==
  ASSUME IInv, Working, todo # <<>>, Done,
         \A p \in preserved' : p[1] \notin TmpPlaces,
         \A p \in preserved' \cap DOMAIN files' : Genuine(files'[p], p[3], IdsOf(p)),
         \A p \in DOMAIN files' : InTmp(p, Level) => Genuine(files'[p], p[3], TmpIds(p))
  PROVE  IInv'
<1>1. args' = args /\ Level' = Level
  BY DEF Done, Level, Levels
<1>2. todo' \in Seq(WorkSteps(args', Level'))
  BY <1>1, NextOfWorking DEF Working, Done
<1>3. TmpIsGenuine'
  BY <1>1 DEF TmpIsGenuine
<1>4. CopiedOutputsAreGenuine'
  BY DEF CopiedOutputsAreGenuine
<1> QED BY <1>1, <1>2, <1>3, <1>4 DEF IInv, DriverInvariant

\* A step that writes genuine files to tmp.
LEMMA WorkWrites ==
  ASSUME IInv, Working, todo # <<>>, Done, UNCHANGED preserved,
         NEW new, files' = With(new), DOMAIN new \subseteq NextStep.to, NextStep.op # "copy",
         \A p \in DOMAIN new : Genuine(new[p], p[3], TmpIds(p))
  PROVE  IInv'
<1>1. DOMAIN files' = DOMAIN new \cup DOMAIN files
  BY DEF With
<1>2. \A p \in DOMAIN files' : files'[p] = IF p \in DOMAIN new THEN new[p] ELSE files[p]
  BY DEF With
<1>3. \A p \in DOMAIN new : p[1] \in TmpPlaces
  BY NextOfWorking DEF Working, StepShape, InTmp
<1>4. \A p \in preserved : p[1] \notin TmpPlaces
  BY DEF IInv, DriverInvariant
<1>5. \A p \in preserved' \cap DOMAIN files' : Genuine(files'[p], p[3], IdsOf(p))
  BY <1>1, <1>2, <1>3, <1>4 DEF IInv, DriverInvariant, Working, CopiedOutputsAreGenuine
<1>6. \A p \in DOMAIN files' : InTmp(p, Level) => Genuine(files'[p], p[3], TmpIds(p))
  BY <1>1, <1>2 DEF Working, TmpIsGenuine
<1> QED BY <1>4, <1>5, <1>6, WorkGoesOn

\* A step that only removes files.
LEMMA WorkRemoves ==
  ASSUME IInv, Working, todo # <<>>, Done, UNCHANGED preserved,
         NEW S, files' = Without(S)
  PROVE  IInv'
<1>1. DOMAIN files' \subseteq DOMAIN files /\ \A p \in DOMAIN files' : files'[p] = files[p]
  BY DEF Without, Restricted
<1>2. \A p \in preserved' \cap DOMAIN files' : Genuine(files'[p], p[3], IdsOf(p))
  BY <1>1 DEF IInv, DriverInvariant, Working, CopiedOutputsAreGenuine
<1>3. \A p \in DOMAIN files' : InTmp(p, Level) => Genuine(files'[p], p[3], TmpIds(p))
  BY <1>1 DEF Working, TmpIsGenuine
<1>4. \A p \in preserved' : p[1] \notin TmpPlaces
  BY DEF IInv, DriverInvariant
<1> QED BY <1>2, <1>3, <1>4, WorkGoesOn

\* A level begins with its whole plan ahead.
LEMMA LevelBegins ==
  ASSUME NEW a \in Options, NEW l
  PROVE  \E m \in 1..2 :
           LET r == SubSeq(Plan(a, l), m + 1, Len(Plan(a, l))) IN
             r \in Seq(WorkSteps(a, l)) /\ Plan(a, l) = Preparations(m) \o r
<1>1. Work(a, l) \in Seq(WorkSteps(a, l))
  BY WorkType
<1>2. 2 \in 1..2 /\ Plan(a, l) = Preparations(2) \o Work(a, l)
  BY DEF Plan, Preparations
<1> QED BY <1>1, <1>2, PreparingIntro

LEMMA InitInvariant ==
  Init => IInv
<1> SUFFICES ASSUME Init PROVE IInv
  OBVIOUS
<1>1. args \in ArgSets /\ args \in Options /\ preserved = {}
  BY DriverAssumption DEF Init
<1>2. CASE status = "running"
  <2>1. todo = Plan(args, Level)
    BY <1>2 DEF Init
  <2>2. Preparing
    BY <1>1, <2>1, LevelBegins DEF Preparing
  <2> QED BY <1>1, <2>2 DEF IInv, DriverInvariant, CopiedOutputsAreGenuine
<1>3. CASE status # "running"
  BY <1>1, <1>3 DEF IInv, DriverInvariant
<1> QED BY <1>2, <1>3

(***************************************************************************)
(* One lemma per action.                                                   *)
(***************************************************************************)
LEMMA RunningCases ==
  ASSUME IInv, status = "running"
  PROVE  (preserved = {} /\ Preparing) \/ Working
BY DEF IInv, DriverInvariant, Working

LEMMA ValidateStep ==
  ASSUME IInv, ValidateConfig
  PROVE  IInv'
<1>1. /\ status = "running" /\ todo # <<>> /\ NextStep.op = "validate" /\ Done
      /\ UNCHANGED <<files, preserved>>
  BY DEF ValidateConfig, Takes
<1>2. ~ Working
  BY <1>1, NextOfWorking DEF Working, StepShape
<1>3. preserved = {} /\ Preparing
  BY <1>1, <1>2, RunningCases
<1>4. PICK rest \in Seq(WorkSteps(args, Level)) : todo' = Tail(Preparation) \o rest
  BY <1>1, <1>3, NextOfPreparing DEF Done
<1>5. args' = args /\ Level' = Level
  BY <1>1 DEF Done, Level, Levels
<1>6. 1 \in 1..2 /\ todo' = Preparations(1) \o rest
  BY <1>4 DEF Preparations
<1>7. \E m \in 1..2 :
        LET r == SubSeq(todo', m + 1, Len(todo')) IN
          r \in Seq(WorkSteps(args, Level)) /\ todo' = Preparations(m) \o r
  BY <1>6, PreparingIntro
<1>8. Preparing'
  BY <1>5, <1>7 DEF Preparing
<1> QED BY <1>1, <1>3, <1>5, <1>8 DEF IInv, DriverInvariant, CopiedOutputsAreGenuine

LEMMA ResetStep ==
  ASSUME IInv, ResetTmpDir
  PROVE  IInv'
<1>1. /\ status = "running" /\ todo # <<>> /\ NextStep.op = "reset_tmp" /\ Done
      /\ files' = Without(RemovedOnReset) /\ preserved' = preserved
  BY DEF ResetTmpDir, Takes
<1>2. ~ Working
  BY <1>1, NextOfWorking DEF Working, StepShape
<1>3. preserved = {} /\ Preparing
  BY <1>1, <1>2, RunningCases
<1>4. todo' \in Seq(WorkSteps(args, Level))
  BY <1>1, <1>3, NextOfPreparing DEF Done
<1>5. args' = args /\ Level' = Level
  BY <1>1 DEF Done, Level, Levels
<1>6. \A p \in DOMAIN files' : ~ InTmp(p, Level)
  BY <1>1 DEF Without, Restricted, RemovedOnReset, TmpFiles
<1>7. TmpIsGenuine'
  BY <1>5, <1>6 DEF TmpIsGenuine
<1> QED BY <1>1, <1>3, <1>4, <1>5, <1>7 DEF IInv, DriverInvariant, CopiedOutputsAreGenuine

\* What a compilation or a tool writes is genuine.
WritesGenuine ==
  \E new : /\ files' = With(new) /\ DOMAIN new \subseteq NextStep.to
           /\ \A p \in DOMAIN new : Genuine(new[p], p[3], TmpIds(p))

LEMMA ClangWrites ==
  ASSUME IInv, Clang
  PROVE  /\ Working /\ todo # <<>> /\ NextStep.op \in Variants /\ Done
         /\ preserved' = preserved /\ WritesGenuine
<1> DEFINE v == NextStep.op
<1>1. /\ status = "running" /\ todo # <<>> /\ v \in Variants /\ Done
      /\ preserved' = preserved
  BY DEF Clang, Takes
<1>2. v \notin {"validate", "reset_tmp", "copy"}
  BY <1>1 DEF Variants
<1>3. Working
  BY <1>1, <1>2, RunningCases, NextOfPreparing
<1>4. NextStep.to = Dumps(Level, v) \cup {Binary(Level, v)}
  BY <1>1, <1>3, NextOfWorking DEF Working, StepShape
<1>5. \A p \in NextStep.to : Compiled(v, p) = Content(TRUE, TRUE, TmpIds(p))
  BY <1>1, <1>4, CompiledIsGenuine
<1>6. ASSUME files' = With([p \in NextStep.to |-> Compiled(v, p)]) PROVE WritesGenuine
  <2> DEFINE new == [p \in NextStep.to |-> Compiled(v, p)]
  <2>1. \A p \in DOMAIN new : Genuine(new[p], p[3], TmpIds(p))
    BY <1>5 DEF Genuine
  <2>2. DOMAIN new \subseteq NextStep.to /\ files' = With(new)
    BY <1>6
  <2> HIDE DEF new
  <2> QED BY <2>1, <2>2 DEF WritesGenuine
<1>7. ASSUME NEW stage \in {"before", "after"}, NEW opened \in 0..1,
             files' = With(Undumped(stage, opened))
      PROVE  WritesGenuine
  <2> DEFINE new == Undumped(stage, opened)
  <2>1. DOMAIN new \subseteq NextStep.to
    BY DEF Undumped
  <2>2. ASSUME NEW p \in DOMAIN new PROVE Genuine(new[p], p[3], TmpIds(p))
    <3>1. new[p] = Compiled(v, p) \/ (new[p] = Broken /\ p[3] = "static_json")
      BY DEF Undumped
    <3> QED BY <1>5, <2>1, <3>1 DEF Genuine
  <2>3. files' = With(new)
    BY <1>7
  <2> HIDE DEF new
  <2> QED BY <2>1, <2>2, <2>3 DEF WritesGenuine
<1>8. WritesGenuine
  BY <1>6, <1>7 DEF Clang
<1> QED BY <1>1, <1>3, <1>8

LEMMA ClangStep ==
  ASSUME IInv, Clang
  PROVE  IInv'
<1>1. /\ Working /\ todo # <<>> /\ NextStep.op \in Variants /\ Done
      /\ preserved' = preserved /\ WritesGenuine
  BY ClangWrites
<1>2. NextStep.op # "copy"
  BY <1>1 DEF Variants
<1> QED BY <1>1, <1>2, WorkWrites DEF WritesGenuine

\* A tool reads whole files of one kind, and what it may cut short is a JSON or DOT.
LEMMA RunToolWrites ==
  ASSUME IInv, RunTool
  PROVE  /\ Working /\ todo # <<>> /\ NextStep.op \in {"run", "merge", "dot", "svg"} /\ Done
         /\ preserved' = preserved /\ WritesGenuine
<1> DEFINE op == NextStep.op
           l == Level
<1>1. /\ status = "running" /\ todo # <<>> /\ op \in {"run", "merge", "dot", "svg"} /\ Done
      /\ Ready /\ Readable /\ preserved' = preserved
  BY DEF RunTool, Takes
<1>2. op \notin {"validate", "reset_tmp", "copy"}
  BY <1>1
<1>3. Working
  BY <1>1, <1>2, RunningCases, NextOfPreparing
<1>4. StepShape(NextStep, args, l)
  BY <1>1, <1>3, NextOfWorking DEF Working
<1>5. \A p \in NextStep.from : InTmp(p, l) => files[p] = Content(TRUE, TRUE, TmpIds(p))
  <2> SUFFICES ASSUME NEW p \in NextStep.from, InTmp(p, l)
               PROVE  files[p] = Content(TRUE, TRUE, TmpIds(p))
    OBVIOUS
  <2>1. Genuine(files[p], p[3], TmpIds(p))
    BY <1>1, <1>3 DEF Ready, Working, TmpIsGenuine
  <2>2. p[3] # "log" => files[p].whole
    BY <1>1 DEF Readable
  <2>3. p[3] = "log" \/ files[p] # Broken
    BY <2>2 DEF Broken, Content
  <2> QED BY <2>1, <2>3 DEF Genuine
<1>6. \E ids :
        /\ NextStep.from # {}
        /\ \A p \in NextStep.from : files[p] = Content(TRUE, TRUE, ids)
        /\ \A p \in NextStep.to : TmpIds(p) = ids
  <2>0. \A s \in Each : \A what : InTmp(Tmp(l, what, s), l)
    BY PlacesOfTmp DEF InTmp, Tmp, File
  <2>1. CASE op = "run"
    <3>1. PICK s \in Each : NextStep.from = {Binary(l, s)} /\ NextStep.to = {Tmp(l, "log", s)}
      BY <1>4, <2>1 DEF StepShape
    <3>2. InTmp(Binary(l, s), l) /\ TmpIds(Binary(l, s)) = TmpIds(Tmp(l, "log", s))
      BY IdsOfStage
    <3> QED BY <1>5, <3>1, <3>2
  <2>2. CASE op = "merge"
    <3>1. PICK s \in Each : /\ NextStep.from = {Tmp(l, "static_json", s), Tmp(l, "log", s)}
                            /\ NextStep.to = {Tmp(l, "dynamic_json", s)}
      BY <1>4, <2>2 DEF StepShape
    <3>2. /\ TmpIds(Tmp(l, "static_json", s)) = TmpIds(Tmp(l, "log", s))
          /\ TmpIds(Tmp(l, "dynamic_json", s)) = TmpIds(Tmp(l, "log", s))
      BY IdsOfStage
    <3> QED BY <1>5, <2>0, <3>1, <3>2
  <2>3. ASSUME NEW s \in Each, NEW from \in Delivered, NEW to \in Delivered,
               NextStep.from = {Tmp(l, from, s)}, NextStep.to = {Tmp(l, to, s)}
        PROVE  \E ids :
                 /\ NextStep.from # {}
                 /\ \A p \in NextStep.from : files[p] = Content(TRUE, TRUE, ids)
                 /\ \A p \in NextStep.to : TmpIds(p) = ids
    <3>1. from # "bin" /\ to # "bin"
      BY DEF Delivered
    <3>2. TmpIds(Tmp(l, from, s)) = TmpIds(Tmp(l, to, s))
      BY <3>1, IdsOfStage
    <3> QED BY <1>5, <2>0, <2>3, <3>2
  <2>4. \A d \in Drawn : d[1] \in Delivered /\ d[2] \in Delivered /\ d[3] \in Delivered
    BY DEF Drawn, Delivered
  <2>5. CASE op = "dot"
    <3>1. PICK s \in Each, d \in Drawn :
            NextStep.from = {Tmp(l, d[1], s)} /\ NextStep.to = {Tmp(l, d[2], s)}
      BY <1>4, <2>5 DEF StepShape
    <3> QED BY <2>3, <2>4, <3>1
  <2>6. CASE op = "svg"
    <3>1. PICK s \in Each, d \in Drawn :
            NextStep.from = {Tmp(l, d[2], s)} /\ NextStep.to = {Tmp(l, d[3], s)}
      BY <1>4, <2>6 DEF StepShape
    <3> QED BY <2>3, <2>4, <3>1
  <2> QED BY <1>1, <2>1, <2>2, <2>5, <2>6
<1>7. op \in MayPassPartial => \A p \in NextStep.to : p[3] \in {"dynamic_json", "static_dot", "dynamic_dot"}
  <2>1. op \in MayPassPartial => op \in {"merge", "dot"}
    BY DriverAssumption DEF MayPassPartial
  <2>2. \A s, what : Tmp(l, what, s)[3] = what
    BY DEF Tmp, File
  <2>3. \A d \in Drawn : d[2] \in {"static_dot", "dynamic_dot"}
    BY DEF Drawn
  <2>4. CASE op = "merge"
    BY <1>4, <2>2, <2>4 DEF StepShape
  <2>5. CASE op = "dot"
    BY <1>4, <2>2, <2>3, <2>5 DEF StepShape
  <2> QED BY <2>1, <2>4, <2>5
<1>8. PICK output \in {ToolOutput(NextStep.from)} \cup (IF op \in MayPassPartial THEN {Broken} ELSE {}) :
        files' = With([p \in NextStep.to |-> output])
  BY DEF RunTool
<1> DEFINE new == [p \in NextStep.to |-> output]
<1>9. ASSUME NEW p \in NextStep.to PROVE Genuine(output, p[3], TmpIds(p))
  <2>1. CASE output = ToolOutput(NextStep.from)
    <3>1. output = Content(TRUE, TRUE, TmpIds(p))
      BY <1>6, <2>1, OutputOfAlike
    <3> QED BY <3>1 DEF Genuine
  <2>2. CASE op \in MayPassPartial /\ output = Broken
    BY <1>7, <2>2 DEF Genuine
  <2> QED BY <1>8, <2>1, <2>2
<1>10. /\ files' = With(new) /\ DOMAIN new \subseteq NextStep.to
       /\ \A p \in DOMAIN new : Genuine(new[p], p[3], TmpIds(p))
  BY <1>8, <1>9
<1> HIDE DEF new
<1>11. WritesGenuine
  BY <1>10 DEF WritesGenuine
<1> QED BY <1>1, <1>3, <1>11

LEMMA RunToolStep ==
  ASSUME IInv, RunTool
  PROVE  IInv'
<1>1. /\ Working /\ todo # <<>> /\ NextStep.op \in {"run", "merge", "dot", "svg"} /\ Done
      /\ preserved' = preserved /\ WritesGenuine
  BY RunToolWrites
<1>2. NextStep.op # "copy"
  BY <1>1
<1> QED BY <1>1, <1>2, WorkWrites DEF WritesGenuine

\* A copy is genuine and remembered.
WritesCopy ==
  \E to : /\ NextStep.to = {to} /\ to[1] \notin TmpPlaces
          /\ preserved' = preserved \cup {to}
          /\ DOMAIN files' = {to} \cup DOMAIN files
          /\ \A p \in DOMAIN files : p # to => files'[p] = files[p]
          /\ Genuine(files'[to], to[3], IdsOf(to))

LEMMA CopyWrites ==
  ASSUME IInv, CopyArtifact
  PROVE  Working /\ todo # <<>> /\ NextStep.op = "copy" /\ Done /\ WritesCopy
<1>1. /\ status = "running" /\ todo # <<>> /\ NextStep.op = "copy" /\ Done /\ Ready
  BY DEF CopyArtifact, Takes
<1>2. Working
  BY <1>1, RunningCases, NextOfPreparing
<1>3. PICK from, to :
        /\ NextStep.from = {from} /\ NextStep.to = {to}
        /\ from[1] = "tmp" /\ from[2] = Level /\ to[1] \notin TmpPlaces
        /\ to[3] = from[3] /\ to[4] = from[4]
  BY <1>1, <1>2, NextOfWorking DEF Working, StepShape, IsDelivery
<1>4. /\ files' = With([p \in {to} |-> ToolOutput({from})])
      /\ preserved' = preserved \cup {to}
  BY <1>3 DEF CopyArtifact, RememberCopy
<1>5. Genuine(files[from], from[3], TmpIds(from))
  <2>1. from \in DOMAIN files /\ InTmp(from, Level)
    BY <1>1, <1>3, PlacesOfTmp DEF Ready, InTmp
  <2> QED BY <1>2, <2>1 DEF Working, TmpIsGenuine
<1>6. TmpIds(from) = IdsOf(to)
  BY <1>3 DEF TmpIds, IdsOf
<1>7. Genuine(ToolOutput({from}), to[3], IdsOf(to))
  <2>1. ASSUME NEW whole \in BOOLEAN, NEW ids, files[from] = Content(TRUE, whole, ids)
        PROVE  ToolOutput({from}) = files[from]
    <3> DEFINE inputs == {from}
    <3>1. inputs # {} /\ \A p \in inputs : files[p] = Content(TRUE, whole, ids)
      BY <2>1
    <3> HIDE DEF inputs
    <3>2. ToolOutput(inputs) = Content(TRUE, whole, ids)
      BY <3>1, OutputOfAlike
    <3> QED BY <2>1, <3>2 DEF inputs
  <2>2. ToolOutput({from}) = files[from]
    <3>1. \/ files[from] = Content(TRUE, TRUE, TmpIds(from))
          \/ files[from] = Content(TRUE, FALSE, "unknown")
      BY <1>5 DEF Genuine, Broken
    <3>2. CASE files[from] = Content(TRUE, TRUE, TmpIds(from))
      BY <2>1, <3>2
    <3>3. CASE files[from] = Content(TRUE, FALSE, "unknown")
      BY <2>1, <3>3
    <3> QED BY <3>1, <3>2, <3>3
  <2> QED BY <1>3, <1>5, <1>6, <2>2
<1>8. /\ DOMAIN files' = {to} \cup DOMAIN files
      /\ files'[to] = ToolOutput({from})
      /\ \A p \in DOMAIN files : p # to => files'[p] = files[p]
  BY <1>4 DEF With
<1> QED BY <1>1, <1>2, <1>3, <1>4, <1>7, <1>8 DEF WritesCopy

LEMMA CopyStep ==
  ASSUME IInv, CopyArtifact
  PROVE  IInv'
<1>1. Working /\ todo # <<>> /\ Done /\ WritesCopy
  BY CopyWrites
<1>2. PICK to : /\ NextStep.to = {to} /\ to[1] \notin TmpPlaces
                /\ preserved' = preserved \cup {to}
                /\ DOMAIN files' = {to} \cup DOMAIN files
                /\ \A p \in DOMAIN files : p # to => files'[p] = files[p]
                /\ Genuine(files'[to], to[3], IdsOf(to))
  BY <1>1 DEF WritesCopy
<1>3. \A p \in preserved' : p[1] \notin TmpPlaces
  BY <1>2 DEF IInv, DriverInvariant
<1>4. \A p \in preserved' \cap DOMAIN files' : Genuine(files'[p], p[3], IdsOf(p))
  BY <1>1, <1>2 DEF IInv, DriverInvariant, Working, CopiedOutputsAreGenuine
<1>5. \A p \in DOMAIN files' : InTmp(p, Level) => Genuine(files'[p], p[3], TmpIds(p))
  BY <1>1, <1>2 DEF Working, TmpIsGenuine, InTmp
<1> QED BY <1>1, <1>3, <1>4, <1>5, WorkGoesOn

LEMMA RemovingStep ==
  ASSUME IInv, MaybeDeleteFinalBinary \/ MaybeCleanupTmp
  PROVE  IInv'
<1>1. /\ status = "running" /\ todo # <<>> /\ NextStep.op \in {"delete_bin", "cleanup_tmp"}
      /\ Done /\ preserved' = preserved /\ \E S : files' = Without(S)
  BY DEF MaybeDeleteFinalBinary, MaybeCleanupTmp, Takes
<1>2. Working
  BY <1>1, RunningCases, NextOfPreparing
<1> QED BY <1>1, <1>2, WorkRemoves

LEMMA FinishStep ==
  ASSUME IInv, FinishLevel
  PROVE  IInv'
<1>1. /\ status = "running" /\ todo = <<>> /\ preserved' = {} /\ args' = args
      /\ args \in ArgSets
  BY DEF FinishLevel, NewRunArtifacts, IInv
<1>2. CASE level < Len(Levels)
  <2>1. level' = level + 1 /\ todo' = Plan(args, Levels[level + 1])
    BY <1>2 DEF FinishLevel
  <2>2. Level' = Levels[level + 1]
    BY <1>1, <2>1 DEF Level, Levels
  <2>3. args \in Options
    BY <1>1, DriverAssumption
  <2>4. Preparing'
    BY <1>1, <2>1, <2>2, <2>3, LevelBegins DEF Preparing
  <2> QED BY <1>1, <2>4 DEF IInv, DriverInvariant, CopiedOutputsAreGenuine
<1>3. CASE ~ (level < Len(Levels))
  BY <1>1, <1>3 DEF FinishLevel, IInv, DriverInvariant
<1> QED BY <1>2, <1>3

\* A step that ends the run before its plan does, or one of the clean-up behind it.
EndingStep == Raise \/ Interrupt \/ RemoveFailedTmp \/ UnlinkCopies \/ CleanupBreaksOff

LEMMA EndsRun ==
  ASSUME EndingStep
  PROVE  /\ status \in {"running", "failing", "unlinking"}
         /\ status' \in {"failing", "unlinking", "error", "interrupted", "broken off"}
         /\ args' = args /\ level' = level /\ todo' = todo /\ preserved' = preserved
<1>1. CASE Raise \/ Interrupt
  BY <1>1 DEF Raise, Interrupt
<1>2. CASE RemoveFailedTmp \/ UnlinkCopies \/ CleanupBreaksOff
  BY <1>2 DEF RemoveFailedTmp, UnlinkCopies, CleanupBreaksOff
<1> QED BY <1>1, <1>2 DEF EndingStep

LEMMA StoppingStep ==
  ASSUME IInv, EndingStep
  PROVE  IInv'
<1>1. args' = args /\ preserved' = preserved /\ status' # "running"
  BY EndsRun
<1> QED BY <1>1 DEF IInv, DriverInvariant

\* Such a step leaves files as they are, but for what a step that raises may have written.
LEMMA EndingWrites ==
  ASSUME EndingStep
  PROVE  \/ \A p \in DOMAIN files' : p \in DOMAIN files /\ files'[p] = files[p]
         \/ /\ Raise \/ Interrupt
            /\ \E residue \in Residue : files' = With([p \in residue |-> Broken])
<1>1. ASSUME NEW S, files' = Without(S)
      PROVE  \A p \in DOMAIN files' : p \in DOMAIN files /\ files'[p] = files[p]
  BY <1>1 DEF Without, Restricted
<1>2. ASSUME Midway
      PROVE  \/ \E S : files' = Without(S)
             \/ \E residue \in Residue : files' = With([p \in residue |-> Broken])
  BY <1>2 DEF Midway, PartlyRemoved
<1>3. CASE Raise \/ Interrupt
  <2>1. Midway
    BY <1>3 DEF Raise, Interrupt
  <2> QED BY <1>1, <1>2, <1>3, <2>1
<1>4. CASE RemoveFailedTmp \/ UnlinkCopies \/ CleanupBreaksOff
  <2>1. \E S : files' = Without(S)
    BY <1>4 DEF RemoveFailedTmp, UnlinkCopies, CleanupBreaksOff, PartlyRemoved
  <2> QED BY <1>1, <2>1
<1> QED BY <1>3, <1>4 DEF EndingStep

LEMMA StutteringStep ==
  ASSUME IInv, UNCHANGED vars
  PROVE  IInv'
BY DEF vars, IInv, DriverInvariant, CopiedOutputsAreGenuine, Preparing, TmpIsGenuine, Level, Levels

LEMMA StepInvariant ==
  IInv /\ [Next]_vars => IInv'
BY ValidateStep, ResetStep, ClangStep, RunToolStep, CopyStep, RemovingStep, FinishStep,
   StoppingStep, StutteringStep DEF Next, EndingStep

(***************************************************************************)
(* The theorems.                                                           *)
(***************************************************************************)
\* Every behaviour of the driver keeps the invariant.
THEOREM InvariantHolds ==
  Spec => []DriverInvariant
<1>1. IInv => DriverInvariant
  BY DEF IInv
<1> QED BY <1>1, InitInvariant, StepInvariant, PTL DEF Spec

\* If copies are whole or not made, what has been copied out is genuine in every state,
\* those after an error or an interrupt included: a compilation or a tool that fails
\* writes into tmp only.
THEOREM CopiesAreGenuine ==
  ASSUME ~ CopyFaults
  PROVE  Spec => []CopiedOutputsAreGenuine
<1> DEFINE Inv == IInv /\ CopiedOutputsAreGenuine
<1>1. Init => Inv
  BY InitInvariant DEF Init, CopiedOutputsAreGenuine
<1>2. ASSUME Inv, EndingStep PROVE CopiedOutputsAreGenuine'
  <2>0. preserved' = preserved
    BY <1>2, EndsRun
  <2>1. CASE \A p \in DOMAIN files' : p \in DOMAIN files /\ files'[p] = files[p]
    BY <1>2, <2>0, <2>1 DEF CopiedOutputsAreGenuine
  <2>2. ASSUME Raise \/ Interrupt, NEW residue \in Residue,
               files' = With([p \in residue |-> Broken])
        PROVE  CopiedOutputsAreGenuine'
    <3>0. status = "running" /\ todo # <<>>
      BY <2>2 DEF Raise, Interrupt
    <3>1. \A p \in preserved : p \notin residue
      <4>1. CASE NextStep.op = "copy"
        BY <4>1 DEF Residue
      <4>2. CASE Working /\ NextStep.op # "copy"
        <5>1. \A p \in residue : p[1] \in TmpPlaces
          BY <3>0, <4>2, NextOfWorking DEF Working, StepShape, InTmp, Residue
        <5> QED BY <1>2, <5>1 DEF IInv, DriverInvariant
      <4>3. CASE preserved = {}
        BY <4>3
      <4> QED BY <1>2, <3>0, <4>1, <4>2, <4>3, RunningCases
    <3>2. \A p \in DOMAIN files' \cap preserved : p \in DOMAIN files /\ files'[p] = files[p]
      BY <2>2, <3>1 DEF With
    <3> QED BY <1>2, <2>0, <3>2 DEF CopiedOutputsAreGenuine
  <2> QED BY <1>2, <2>1, <2>2, EndingWrites
<1>3. ASSUME Inv, [Next]_vars PROVE Inv'
  <2>1. IInv'
    BY <1>3, StepInvariant
  <2>2. CASE EndingStep
    BY <1>2, <1>3, <2>1, <2>2
  <2>3. CASE UNCHANGED vars
    BY <1>3, <2>1, <2>3 DEF vars, CopiedOutputsAreGenuine
  <2>4. CASE FinishLevel
    BY <2>1, <2>4 DEF FinishLevel, NewRunArtifacts, CopiedOutputsAreGenuine
  <2>5. CASE ValidateConfig \/ ResetTmpDir \/ Clang \/ RunTool \/ CopyArtifact
               \/ MaybeDeleteFinalBinary \/ MaybeCleanupTmp
    <3>1. status' = "running"
      BY <2>5 DEF ValidateConfig, ResetTmpDir, Clang, RunTool, CopyArtifact,
                  MaybeDeleteFinalBinary, MaybeCleanupTmp, Takes, Done
    <3> QED BY <2>1, <3>1 DEF IInv, DriverInvariant
  <2> QED BY <1>3, <2>2, <2>3, <2>4, <2>5 DEF Next, EndingStep
<1> QED BY <1>1, <1>3, PTL DEF Spec

------------------------------------------------------------------------------
(***************************************************************************)
(* What a run of the driver leaves behind and what it delivers, for every  *)
(* set of command lines, all leftovers of earlier runs and all faults of   *)
(* the plugin and the tools; where a copy that breaks off half way would   *)
(* spoil it, the theorem says so.                                          *)
(***************************************************************************)

(***************************************************************************)
(* The invariant.                                                          *)
(***************************************************************************)
\* The paths of the level at work, and what is in their files.
Mine(p) == p[2] = Level \/ p = OutputOption

Contents ==
  [fresh : BOOLEAN, whole : BOOLEAN,
   ids : {"unknown", "none", "front", "optimized", "optimized with logs"}]

PathOf(a, p) ==
  p[1] \in TmpPlaces \cup {"out", "-o"} /\ p[2] \in ToSet(NormalizeOptLevels(a.levels)) \cup {""}

\* A rejected command line is not worked on, and a level is one of the command line.
LevelIsGiven ==
  /\ level \in DOMAIN Levels
  /\ status \in {"rejected", "running", "ok", "interrupted",
                 "failing", "unlinking", "error", "broken off"}
  /\ status # "rejected" => ~ Rejected(args)

FilesAreTyped ==
  /\ \A p \in DOMAIN files : PathOf(args, p) /\ files[p] \in Contents
  /\ \A p \in preserved : PathOf(args, p) /\ p[1] \notin TmpPlaces

TodoIsTyped ==
  \A k \in DOMAIN todo : \A p \in todo[k].from \cup todo[k].to : PathOf(args, p)

\* What is remembered is of the level at work, and what has been written is of it
\* or of one before.
FilesAreOfLevels ==
  /\ \A p \in preserved : Mine(p) /\ (p = OutputOption => args.o)
  /\ \A p \in DOMAIN files :
       files[p].fresh => (p = OutputOption /\ args.o) \/ \E k \in 1..level : p[2] = Levels[k]

\* While a level is worked on, what it has copied out is remembered.
CopiesAreRemembered ==
  status = "running" =>
    \A p \in DOMAIN files : files[p].fresh /\ Mine(p) => InTmp(p, Level) \/ p \in preserved

\* What is remembered has been made by this run, and is all there until it is unlinked:
\* the binary, if it is to be deleted, is never copied.
CopiesAreThere ==
  /\ \A p \in preserved \cap DOMAIN files : files[p].fresh
  /\ args.delete_bins => \A p \in preserved : p[3] # "bin"
  /\ status \in {"running", "failing", "unlinking"} => preserved \subseteq DOMAIN files

\* Without --keep-tmp the last step of a level removes its tmp.
Cleared(k) == \A p \in DOMAIN files : ~ InTmp(p, Levels[k])
TmpIsCleared ==
  ~ args.keep_tmp =>
    /\ \A k \in 1..(level - 1) : Cleared(k)
    /\ status = "ok" => Cleared(level)
    /\ status = "running" =>
         IF todo = <<>> THEN Cleared(level) ELSE todo[Len(todo)].op = "cleanup_tmp"

\* What is requested of the level at work is there or is still to be copied.
Brings(t, p) == \E k \in 1..Len(t) : t[k].op = "copy" /\ p \in t[k].to
IsThere(p) == p \in DOMAIN files /\ files[p].fresh
RequestedIsComing ==
  status = "running" => \A p \in Requested(args, Level) : IsThere(p) \/ Brings(todo, p)

OutcomeInv ==
  /\ IInv /\ LevelIsGiven /\ FilesAreTyped /\ TodoIsTyped
  /\ FilesAreOfLevels /\ CopiesAreRemembered /\ CopiesAreThere /\ TmpIsCleared
  /\ RequestedIsComing /\ FinishedLevelsDelivered

(***************************************************************************)
(* The levels.                                                             *)
(***************************************************************************)
LEMMA FirstsAsSpread ==
  ASSUME NEW S, NEW levels \in Seq(S), levels # <<>>
  PROVE  \E g, v :
           /\ IsRule(g, DOMAIN levels, S) /\ v \in Seq(DOMAIN levels) /\ Distinct(v)
           /\ Len(v) = Len(levels) /\ \A k \in DOMAIN levels : v[k] = k
           /\ \A k \in DOMAIN levels :
                g[k] = IF \E j \in 1..(k - 1) : levels[j] = levels[k] THEN <<>> ELSE <<levels[k]>>
           /\ NormalizeOptLevels(levels) = Spread(v, g)
<1> DEFINE D == DOMAIN levels
           G == [k \in D |-> IF \E j \in 1..(k - 1) : levels[j] = levels[k]
                             THEN <<>> ELSE <<levels[k]>>]
           V == [k \in D |-> k]
<1>1. D = 1..Len(levels) /\ Len(levels) \in Nat /\ \A k \in D : levels[k] \in S
  OBVIOUS
<1>2. PICK g : g = G
  OBVIOUS
<1>3. PICK v : v = V
  OBVIOUS
<1>4. g \in [D -> Seq(S)]
  <2>1. \A k \in D : <<levels[k]>> \in Seq(S) /\ <<>> \in Seq(S)
    BY <1>1
  <2> QED BY <1>2, <2>1
<1>5. v \in Seq(D) /\ Len(v) = Len(levels) /\ DOMAIN v = D /\ \A k \in D : v[k] = k
  BY <1>1, <1>3
<1>6. Distinct(v)
  BY <1>1, <1>5 DEF Distinct
<1>7. [k \in DOMAIN v |-> g[v[k]]] = g
  BY <1>2, <1>3
<1>8. NormalizeOptLevels(levels) = FlattenSeq(g)
  BY <1>2 DEF NormalizeOptLevels
<1>9. NormalizeOptLevels(levels) = Spread(v, g)
  BY <1>7, <1>8 DEF Spread
<1>10. \A k \in D : g[k] = IF \E j \in 1..(k - 1) : levels[j] = levels[k]
                           THEN <<>> ELSE <<levels[k]>>
  BY <1>2
<1> QED BY <1>4, <1>5, <1>6, <1>9, <1>10 DEF IsRule

\* However often a level is named, it is worked on once.
LEMMA LevelsAreDistinct ==
  ASSUME NEW a \in Options, NEW L, L = NormalizeOptLevels(a.levels)
  PROVE  /\ L \in Seq(ToSet(L)) /\ Len(L) \in Nat /\ Len(L) >= 1 /\ Distinct(L)
         /\ \A k \in 1..Len(L) : L[k] # ""
<1> DEFINE S == {"O0", "O1", "O2", "O3", "Og", "Os", "Oz", "Ofast"}
<1>1. a.levels \in Seq(S)
  BY DEF Options
<1>2. ASSUME NEW x, L = <<x>>, x \in S
      PROVE  L \in Seq(S) /\ Len(L) \in Nat /\ Len(L) >= 1 /\ Distinct(L)
  BY <1>2 DEF Distinct
<1>3. CASE a.levels = <<>>
  <2>1. L = <<"O2">>
    BY <1>3 DEF NormalizeOptLevels
  <2>2. L \in Seq(S) /\ Len(L) \in Nat /\ Len(L) >= 1 /\ Distinct(L)
    BY <1>2, <2>1
  <2>3. L \in Seq(ToSet(L))
    BY <2>2, VectorOf DEF IsVector
  <2>4. \A k \in 1..Len(L) : L[k] \in S
    BY <2>2
  <2>5. \A x \in S : x # ""
    OBVIOUS
  <2> HIDE DEF S
  <2> QED BY <2>2, <2>3, <2>4, <2>5
<1>4. CASE a.levels # <<>>
  <2>1. PICK levels \in Seq(S) : levels = a.levels
    BY <1>1
  <2> HIDE DEF S
  <2>2. PICK g, v :
           /\ IsRule(g, DOMAIN levels, S) /\ v \in Seq(DOMAIN levels) /\ Distinct(v)
           /\ Len(v) = Len(levels) /\ \A k \in DOMAIN levels : v[k] = k
           /\ \A k \in DOMAIN levels :
                g[k] = IF \E j \in 1..(k - 1) : levels[j] = levels[k] THEN <<>> ELSE <<levels[k]>>
           /\ NormalizeOptLevels(levels) = Spread(v, g)
    <3>1. levels # <<>>
      BY <1>4, <2>1
    <3> QED BY <3>1, FirstsAsSpread
  <2>3. PICK D : D = DOMAIN levels
    OBVIOUS
  <2>4. D = 1..Len(levels) /\ Len(levels) \in Nat /\ Len(levels) >= 1
    BY <1>4, <2>1, <2>3
  <2>5. ASSUME NEW k \in D
        PROVE  /\ \A y : Holds(g[k], y) => y = levels[k] /\ ~ \E j \in 1..(k - 1) : levels[j] = levels[k]
               /\ Distinct(g[k])
    <3>1. CASE \E j \in 1..(k - 1) : levels[j] = levels[k]
      <4>1. g[k] = <<>>
        BY <2>2, <2>3, <3>1
      <4> QED BY <4>1 DEF Holds, Distinct
    <3>2. CASE ~ \E j \in 1..(k - 1) : levels[j] = levels[k]
      <4>1. g[k] = <<levels[k]>>
        BY <2>2, <2>3, <3>2
      <4> QED BY <3>2, <4>1 DEF Holds, Distinct
    <3> QED BY <3>1, <3>2
  <2>6. \A x, z \in D : x # z => \A y : ~ (Holds(g[x], y) /\ Holds(g[z], y))
    <3> SUFFICES ASSUME NEW x \in D, NEW z \in D, x # z, NEW y, Holds(g[x], y), Holds(g[z], y)
                 PROVE  FALSE
      OBVIOUS
    <3>1. levels[x] = levels[z]
      BY <2>5
    <3>2. /\ ~ \E j \in 1..(x - 1) : levels[j] = levels[x]
          /\ ~ \E j \in 1..(z - 1) : levels[j] = levels[z]
      BY <2>5
    <3>3. x < z \/ z < x
      BY <2>4
    <3> QED BY <2>4, <3>1, <3>2, <3>3
  <2>7. IsRule(g, D, S) /\ v \in Seq(D)
    BY <2>2, <2>3
  <2>8. Distinct(Spread(v, g))
    <3>1. Distinct(v) /\ \A x \in D : Distinct(g[x])
      BY <2>2, <2>5
    <3> QED BY <3>1, <2>6, <2>7, SpreadDistinct
  <2>9. Spread(v, g) \in Seq(S)
    BY <2>7, SpreadJoined
  <2>10. Holds(Spread(v, g), levels[1])
    <3>1. \A y : Holds(Spread(v, g), y) <=> \E k \in 1..Len(v) : Holds(g[v[k]], y)
      BY <2>7, SpreadHolds
    <3>2. 1 \in D /\ 1 \in 1..Len(v) /\ v[1] = 1
      BY <2>2, <2>3, <2>4
    <3>5. 1 - 1 = 0 /\ 1..0 = {}
      OBVIOUS
    <3>6. ~ \E j \in 1..(1 - 1) : levels[j] = levels[1]
      BY <3>5
    <3>3. g[1] = <<levels[1]>>
      <4>1. g[1] = IF \E j \in 1..(1 - 1) : levels[j] = levels[1] THEN <<>> ELSE <<levels[1]>>
        BY <2>2, <2>3, <3>2, Zenon
      <4> QED BY <3>6, <4>1, Zenon
    <3>4. Holds(g[v[1]], levels[1])
      BY <3>2, <3>3 DEF Holds
    <3> QED BY <3>1, <3>2, <3>4
  <2>11. L = Spread(v, g)
    BY <2>1, <2>2
  <2>12. L \in Seq(S) /\ Distinct(L) /\ Holds(L, levels[1])
    BY <2>8, <2>9, <2>10, <2>11
  <2>13. Len(L) \in Nat /\ Len(L) >= 1
    BY <2>12 DEF Holds
  <2>14. L \in Seq(ToSet(L))
    BY <2>12, VectorOf DEF IsVector
  <2>15. \A k \in 1..Len(L) : L[k] \in S
    BY <2>12
  <2> QED BY <2>12, <2>13, <2>14, <2>15 DEF S
<1> QED BY <1>3, <1>4

(***************************************************************************)
(* The paths of the steps.                                                 *)
(***************************************************************************)
PathIn(p, l) == p[1] \in TmpPlaces \cup {"out", "-o"} /\ p[2] \in {l, ""}
PathsIn(step, l) == \A p \in step.from \cup step.to : PathIn(p, l)

\* A copy goes to the output directories of the level, or to -o if that is given; with
\* --delete-bins it is none of the binary.
IsDestination(to, a, l) == (to[1] = "out" /\ to[2] = l) \/ (to = OutputOption /\ a.o)
CopiesOut(step, a, l) ==
  step.op = "copy" =>
    \E to : step.to = {to} /\ IsDestination(to, a, l) /\ (a.delete_bins => to[3] # "bin")

LEMMA PathsOfLevel ==
  ASSUME NEW l
  PROVE  /\ \A what, s : /\ PathIn(Tmp(l, what, s), l) /\ PathIn(Out(l, what, s), l)
                         /\ Out(l, what, s)[1] = "out" /\ Out(l, what, s)[2] = l
         /\ PathIn(OutputOption, l)
         /\ \A v \in Variants : \A p \in Dumps(l, v) \cup {Binary(l, v)} : PathIn(p, l)
<1>1. \A place \in TmpPlaces \cup {"out", "-o"} : \A what, s : PathIn(File(place, l, what, s), l)
  BY DEF PathIn, File
<1>2. \A v \in Variants : CompileRoot(v) \in TmpPlaces
  BY DEF TmpPlaces
<1>3. "tmp" \in TmpPlaces
  BY PlacesOfTmp
<1>4. \A v \in Variants : \A p \in Dumps(l, v) \cup {Binary(l, v)} : PathIn(p, l)
  <2> SUFFICES ASSUME NEW v \in Variants, NEW p \in Dumps(l, v) \cup {Binary(l, v)}
               PROVE  PathIn(p, l)
    OBVIOUS
  <2>1. \A what, s : PathIn(File(CompileRoot(v), l, what, s), l)
    BY <1>1, <1>2
  <2>2. CASE p = Binary(l, v)
    BY <2>1, <2>2 DEF Binary
  <2>3. CASE p \in Dumps(l, v)
    <3>1. PICK what \in {"static_json", "ll"}, stage \in {"before", "after"} :
            p = File(CompileRoot(v), l, what, stage)
      BY <2>3 DEF Dumps
    <3> QED BY <2>1, <3>1
  <2> QED BY <2>2, <2>3
<1>5. PathIn(OutputOption, l)
  BY DEF PathIn, OutputOption, File
<1>6. \A what, s : /\ PathIn(Tmp(l, what, s), l) /\ PathIn(Out(l, what, s), l)
                   /\ Out(l, what, s)[1] = "out" /\ Out(l, what, s)[2] = l
  BY <1>1, <1>3 DEF Tmp, Out, File
<1> QED BY <1>4, <1>5, <1>6

LEMMA WorkPaths ==
  ASSUME NEW a, NEW l, NEW step \in WorkSteps(a, l)
  PROVE  PathsIn(step, l) /\ CopiesOut(step, a, l)
<1>0. /\ \A what, s : /\ PathIn(Tmp(l, what, s), l) /\ PathIn(Out(l, what, s), l)
                      /\ Out(l, what, s)[1] = "out" /\ Out(l, what, s)[2] = l
      /\ PathIn(OutputOption, l)
      /\ \A v \in Variants : \A p \in Dumps(l, v) \cup {Binary(l, v)} : PathIn(p, l)
  BY PathsOfLevel
<1>1. ASSUME NEW op, NEW from, NEW to, step = Step(op, from, to)
      PROVE  step.op = op /\ step.from = from /\ step.to = to
  BY <1>1 DEF Step
<1>2. ASSUME NEW op, NEW from, NEW to, step = Step(op, from, to), op # "copy",
             \A p \in from \cup to : PathIn(p, l)
      PROVE  PathsIn(step, l) /\ CopiesOut(step, a, l)
  BY <1>1, <1>2 DEF PathsIn, CopiesOut
<1>3. ASSUME NEW from, NEW to, step = Step("copy", {from}, {to}),
             PathIn(from, l), PathIn(to, l), IsDestination(to, a, l),
             a.delete_bins => to[3] # "bin"
      PROVE  PathsIn(step, l) /\ CopiesOut(step, a, l)
  BY <1>1, <1>3 DEF PathsIn, CopiesOut
<1>4. \A v \in Variants : Binary(l, v) \in Dumps(l, v) \cup {Binary(l, v)}
  OBVIOUS
<1>5. CASE step \in Compilations(l)
  <2>1. PICK v \in Variants : step = Step(v, {}, Dumps(l, v) \cup {Binary(l, v)})
    BY <1>5 DEF Compilations
  <2>2. v # "copy"
    BY DEF Variants
  <2>3. \A p \in {} \cup (Dumps(l, v) \cup {Binary(l, v)}) : PathIn(p, l)
    BY <1>0
  <2> QED BY <1>2, <2>1, <2>2, <2>3
<1>6. ASSUME NEW s \in Each, step \in StageSteps(l, s)
      PROVE  PathsIn(step, l) /\ CopiesOut(step, a, l)
  <2>0. PathIn(Binary(l, s), l) /\ \A what : PathIn(Tmp(l, what, s), l)
    BY <1>0, <1>4 DEF Each, Variants
  <2>1. CASE step = Step("run", {Binary(l, s)}, {Tmp(l, "log", s)})
    BY <1>2, <2>0, <2>1
  <2>2. CASE step = Step("merge", {Tmp(l, "static_json", s), Tmp(l, "log", s)},
                         {Tmp(l, "dynamic_json", s)})
    BY <1>2, <2>0, <2>2
  <2>3. ASSUME NEW op, NEW from, NEW to, op # "copy",
               step = Step(op, {Tmp(l, from, s)}, {Tmp(l, to, s)})
        PROVE  PathsIn(step, l) /\ CopiesOut(step, a, l)
    BY <1>2, <2>0, <2>3
  <2>4. ASSUME NEW what \in Delivered, step = Step("copy", {Tmp(l, what, s)}, {Out(l, what, s)})
        PROVE  PathsIn(step, l) /\ CopiesOut(step, a, l)
    <3>1. IsDestination(Out(l, what, s), a, l)
      BY <1>0 DEF IsDestination
    <3>2. Out(l, what, s)[3] # "bin"
      BY DEF Out, File, Delivered
    <3> QED BY <1>0, <1>3, <2>0, <2>4, <3>1, <3>2
  <2> QED BY <1>6, <2>1, <2>2, <2>3, <2>4 DEF StageSteps
<1>7. CASE step \in LevelSteps(a, l)
  <2>1. CASE ~ a.delete_bins /\ step = Step("copy", {Tmp(l, "bin", "")}, {Out(l, "bin", "")})
    <3>1. IsDestination(Out(l, "bin", ""), a, l)
      BY <1>0 DEF IsDestination
    <3> QED BY <1>0, <1>3, <2>1, <3>1
  <2>2. CASE a.o /\ step = Step("copy", {Tmp(l, "dynamic_svg", "after")}, {OutputOption})
    <3>1. IsDestination(OutputOption, a, l)
      BY <2>2 DEF IsDestination
    <3>2. OutputOption[3] # "bin"
      BY DEF OutputOption, File
    <3> QED BY <1>0, <1>3, <2>2, <3>1, <3>2
  <2>3. CASE step \in {Step("cleanup_tmp", {}, {}), Step("delete_bin", {}, {})}
    <3>1. \A p \in {} \cup {} : PathIn(p, l)
      OBVIOUS
    <3> QED BY <1>2, <2>3, <3>1
  <2> QED BY <1>7, <2>1, <2>2, <2>3 DEF LevelSteps
<1> QED BY <1>5, <1>6, <1>7 DEF WorkSteps, Each

\* What a file of no stage has for it.
NoStage == ""

(***************************************************************************)
(* What a step does to the files.                                          *)
(***************************************************************************)
IsNew(c) == c \in Contents /\ c.fresh

Advances == status = "running" /\ todo # <<>> /\ Done

\* It only removes some: those in tmp, or the binary.
Drops ==
  /\ preserved' = preserved /\ DOMAIN files' \subseteq DOMAIN files
  /\ \A p \in DOMAIN files' : files'[p] = files[p]
  /\ \A p \in DOMAIN files \ DOMAIN files' :
       InTmp(p, Level) \/ (args.delete_bins /\ p = Out(Level, "bin", ""))
  /\ NextStep.op = "cleanup_tmp" => \A p \in DOMAIN files' : ~ InTmp(p, Level)
  /\ NextStep.op # "copy"

\* It writes to tmp.
Writes ==
  /\ preserved' = preserved /\ DOMAIN files \subseteq DOMAIN files'
  /\ \A p \in DOMAIN files' :
       \/ p \in DOMAIN files /\ files'[p] = files[p]
       \/ InTmp(p, Level) /\ PathIn(p, Level) /\ IsNew(files'[p])
  /\ NextStep.op \notin {"copy", "cleanup_tmp"}

\* It copies a file out.
Copies ==
  /\ NextStep.op = "copy"
  /\ \E to : /\ NextStep.to = {to} /\ IsDestination(to, args, Level)
             /\ args.delete_bins => to[3] # "bin"
             /\ preserved' = preserved \cup {to} /\ DOMAIN files' = DOMAIN files \cup {to}
             /\ \A p \in DOMAIN files : p # to => files'[p] = files[p]
             /\ IsNew(files'[to])

\* It ends the run or cleans up behind that: what it writes is in tmp or a part of a
\* copy, and what goes is in tmp, or the binary, or has been remembered.
Stops ==
  /\ status \in {"running", "failing", "unlinking"}
  /\ status' \in {"failing", "unlinking", "error", "interrupted", "broken off"}
  /\ args' = args /\ level' = level /\ todo' = todo /\ preserved' = preserved
  /\ \A p \in DOMAIN files' :
       \/ p \in DOMAIN files /\ files'[p] = files[p]
       \/ /\ status = "running" /\ PathIn(p, Level) /\ IsNew(files'[p])
          /\ InTmp(p, Level) \/ (CopyFaults /\ IsDestination(p, args, Level))
  /\ \A p \in DOMAIN files \ DOMAIN files' :
       \/ InTmp(p, Level)
       \/ status = "running" /\ args.delete_bins /\ p = Out(Level, "bin", "")
       \/ status = "unlinking" /\ p \in preserved

\* The clean-up goes its way, to its end or to where it breaks off.
CleansUp ==
  /\ status = "running" =>
       status' \in {"failing", "interrupted"} \/ (args.debug /\ status' = "error")
  /\ status = "failing" =>
       \/ status' = "unlinking" /\ \A p \in DOMAIN files' : ~ InTmp(p, Level)
       \/ status' = "broken off"
  /\ status = "unlinking" =>
       \/ status' = "error" /\ \A p \in DOMAIN files' : p \notin preserved
       \/ status' = "broken off"

LEMMA GenuineIsNew ==
  ASSUME NEW c, NEW p
  PROVE  /\ Genuine(c, p[3], TmpIds(p)) => IsNew(c)
         /\ Genuine(c, p[3], IdsOf(p)) => IsNew(c)
<1>1. \A ids \in {"none", "front", "optimized", "optimized with logs"} :
        IsNew(Content(TRUE, TRUE, ids))
  BY DEF IsNew, Contents, Content
<1>2. IsNew(Broken)
  BY DEF IsNew, Contents, Content, Broken
<1>3. IdsOf(p) \in {"none", "front", "optimized"}
  BY DEF IdsOf
<1>4. TmpIds(p) \in {"none", "front", "optimized", "optimized with logs"}
  <2>1. ASSUME NEW v \in Variants
        PROVE  Compiled(v, p).ids \in {"none", "front", "optimized", "optimized with logs"}
    BY <2>1 DEF Compiled, Content, LogIds, ModuleAt, InjectionStage
  <2>2. CASE p[1] = "tmp"
    BY <1>3, <2>2 DEF TmpIds
  <2>3. CASE p[1] # "tmp"
    BY <2>1, <2>3 DEF TmpIds, Variants
  <2> QED BY <2>2, <2>3
<1> QED BY <1>1, <1>2, <1>3, <1>4 DEF Genuine

LEMMA NextIsOfWork ==
  ASSUME Working, todo # <<>>
  PROVE  /\ NextStep \in WorkSteps(args, Level) /\ StepShape(NextStep, args, Level)
         /\ PathsIn(NextStep, Level) /\ CopiesOut(NextStep, args, Level)
<1>1. NextStep \in WorkSteps(args, Level)
  BY HeadTailProperties DEF NextStep, Working
<1> QED BY <1>1, WorkShape, WorkPaths

LEMMA DropEffects ==
  ASSUME IInv, ValidateConfig \/ ResetTmpDir \/ MaybeDeleteFinalBinary \/ MaybeCleanupTmp
  PROVE  Advances /\ Drops
<1>1. CASE ValidateConfig
  <2>1. /\ Advances /\ NextStep.op = "validate" /\ files' = files /\ preserved' = preserved
    BY <1>1 DEF ValidateConfig, Takes, Advances
  <2> QED BY <2>1 DEF Drops
<1>2. CASE ResetTmpDir
  <2>1. /\ Advances /\ NextStep.op = "reset_tmp" /\ files' = Without(RemovedOnReset)
        /\ preserved' = preserved
    BY <1>2 DEF ResetTmpDir, Takes, Advances
  <2> QED BY <2>1 DEF Drops, Without, Restricted, RemovedOnReset, TmpFiles
<1>3. CASE MaybeDeleteFinalBinary
  <2>1. /\ Advances /\ NextStep.op = "delete_bin" /\ files' = Without({Out(Level, "bin", "")})
        /\ preserved' = preserved
    BY <1>3 DEF MaybeDeleteFinalBinary, Takes, Advances
  <2>2. Working
    BY <1>3, <2>1, RunningCases, NextOfPreparing DEF Advances
  <2>3. args.delete_bins
    BY <2>1, <2>2, NextIsOfWork DEF Advances, StepShape
  <2> QED BY <2>1, <2>3 DEF Drops, Without, Restricted
<1>4. CASE MaybeCleanupTmp
  <2>1. /\ Advances /\ NextStep.op = "cleanup_tmp" /\ preserved' = preserved
        /\ files' = Without(TmpFiles)
    BY <1>4 DEF MaybeCleanupTmp, Takes, Advances
  <2> QED BY <2>1 DEF Drops, Without, Restricted, TmpFiles
<1> QED BY <1>1, <1>2, <1>3, <1>4

LEMMA WriteEffects ==
  ASSUME IInv, Clang \/ RunTool
  PROVE  Advances /\ Writes
<1>1. /\ Working /\ todo # <<>> /\ NextStep.op \in Variants \cup {"run", "merge", "dot", "svg"}
      /\ Done /\ preserved' = preserved /\ WritesGenuine
  BY ClangWrites, RunToolWrites
<1>2. NextStep.op \notin {"copy", "cleanup_tmp"}
  BY <1>1 DEF Variants
<1>3. PICK new : /\ files' = With(new) /\ DOMAIN new \subseteq NextStep.to
                 /\ \A p \in DOMAIN new : Genuine(new[p], p[3], TmpIds(p))
  BY <1>1 DEF WritesGenuine
<1>4. \A p \in DOMAIN new : InTmp(p, Level) /\ PathIn(p, Level) /\ IsNew(new[p])
  BY <1>1, <1>2, <1>3, NextIsOfWork, GenuineIsNew DEF StepShape, PathsIn
<1>5. /\ DOMAIN files' = DOMAIN new \cup DOMAIN files
      /\ \A p \in DOMAIN files' : files'[p] = IF p \in DOMAIN new THEN new[p] ELSE files[p]
  BY <1>3 DEF With
<1>6. Writes
  BY <1>1, <1>2, <1>4, <1>5 DEF Writes
<1> QED BY <1>1, <1>6 DEF Advances, Working

LEMMA CopyEffects ==
  ASSUME IInv, CopyArtifact
  PROVE  Advances /\ Copies
<1>1. Working /\ todo # <<>> /\ NextStep.op = "copy" /\ Done /\ WritesCopy
  BY CopyWrites
<1>2. PICK to : /\ NextStep.to = {to} /\ to[1] \notin TmpPlaces
                /\ preserved' = preserved \cup {to}
                /\ DOMAIN files' = {to} \cup DOMAIN files
                /\ \A p \in DOMAIN files : p # to => files'[p] = files[p]
                /\ Genuine(files'[to], to[3], IdsOf(to))
  BY <1>1 DEF WritesCopy
<1>3. IsDestination(to, args, Level) /\ (args.delete_bins => to[3] # "bin")
  BY <1>1, <1>2, NextIsOfWork DEF CopiesOut
<1>4. IsNew(files'[to])
  BY <1>2, GenuineIsNew
<1> QED BY <1>1, <1>2, <1>3, <1>4 DEF Copies, Advances, Working

\* What is left over by a step that raises or is interrupted.
LEMMA ResidueOfStep ==
  ASSUME IInv, status = "running", todo # <<>>, NEW residue \in Residue, NEW p \in residue
  PROVE  /\ PathIn(p, Level)
         /\ InTmp(p, Level) \/ (CopyFaults /\ IsDestination(p, args, Level))
<1>1. p \in NextStep.to /\ (NextStep.op = "copy" => CopyFaults)
  BY DEF Residue
<1>2. Working
  BY <1>1, RunningCases, NextOfPreparing
<1>3. /\ StepShape(NextStep, args, Level) /\ PathsIn(NextStep, Level)
      /\ CopiesOut(NextStep, args, Level)
  BY <1>2, NextIsOfWork
<1>4. PathIn(p, Level)
  BY <1>1, <1>3 DEF PathsIn
<1>5. CASE NextStep.op = "copy"
  BY <1>1, <1>3, <1>4, <1>5 DEF CopiesOut
<1>6. CASE NextStep.op # "copy"
  BY <1>1, <1>3, <1>4, <1>6 DEF StepShape
<1> QED BY <1>5, <1>6

LEMMA StopEffects ==
  ASSUME IInv, EndingStep
  PROVE  Stops
<1>1. /\ status \in {"running", "failing", "unlinking"}
      /\ status' \in {"failing", "unlinking", "error", "interrupted", "broken off"}
      /\ args' = args /\ level' = level /\ todo' = todo /\ preserved' = preserved
  BY EndsRun
<1>2. ASSUME status = "running", todo # <<>>, NEW residue \in Residue,
             files' = With([p \in residue |-> Broken])
      PROVE  Stops
  <2>1. /\ DOMAIN files' = residue \cup DOMAIN files
        /\ \A p \in DOMAIN files' : files'[p] = IF p \in residue THEN Broken ELSE files[p]
    BY <1>2 DEF With
  <2>2. IsNew(Broken)
    BY DEF IsNew, Contents, Broken, Content
  <2>3. \A p \in residue : /\ PathIn(p, Level)
                           /\ InTmp(p, Level) \/ (CopyFaults /\ IsDestination(p, args, Level))
    BY <1>2, ResidueOfStep
  <2> QED BY <1>1, <1>2, <2>1, <2>2, <2>3 DEF Stops
<1>3. ASSUME NEW S, files' = Without(S),
             \A p \in S :
               \/ InTmp(p, Level)
               \/ status = "running" /\ args.delete_bins /\ p = Out(Level, "bin", "")
               \/ status = "unlinking" /\ p \in preserved
      PROVE  Stops
  <2>1. /\ DOMAIN files' = DOMAIN files \ S
        /\ \A p \in DOMAIN files' : files'[p] = files[p]
    BY <1>3 DEF Without, Restricted
  <2> QED BY <1>1, <1>3, <2>1 DEF Stops
<1>4. ASSUME PartlyRemoved(TmpFiles) PROVE Stops
  <2>1. PICK first \in RemovedFirst : files' = Without(TmpFiles \cap first)
    BY <1>4 DEF PartlyRemoved
  <2>2. \A p \in TmpFiles \cap first : InTmp(p, Level)
    BY DEF TmpFiles
  <2> QED BY <1>3, <2>1, <2>2
<1>5. CASE Raise \/ Interrupt
  <2>1. status = "running" /\ todo # <<>> /\ Midway
    BY <1>5 DEF Raise, Interrupt
  <2>2. CASE NextStep.op = "delete_bin" /\ files' = Without({Out(Level, "bin", "")})
    <3>1. Working
      BY <2>1, <2>2, RunningCases, NextOfPreparing
    <3>2. args.delete_bins
      BY <2>1, <2>2, <3>1, NextIsOfWork DEF StepShape
    <3>3. PICK S : S = {Out(Level, "bin", "")}
      OBVIOUS
    <3>4. files' = Without(S)
      BY <2>2, <3>3, Zenon
    <3>5. \A p \in S : p = Out(Level, "bin", "")
      BY <3>3, Zenon
    <3>6. \A p \in S :
            \/ InTmp(p, Level)
            \/ status = "running" /\ args.delete_bins /\ p = Out(Level, "bin", "")
            \/ status = "unlinking" /\ p \in preserved
      BY <2>1, <3>2, <3>5, Zenon
    <3> QED BY <1>3, <3>4, <3>6, Zenon
  <2> QED BY <1>2, <1>4, <2>1, <2>2 DEF Midway
<1>6. CASE RemoveFailedTmp
  <2>1. files' = Without(TmpFiles) /\ \A p \in TmpFiles : InTmp(p, Level)
    BY <1>6 DEF RemoveFailedTmp, TmpFiles
  <2> QED BY <1>3, <2>1
<1>7. CASE UnlinkCopies
  <2>1. files' = Without(preserved) /\ status = "unlinking"
    BY <1>7 DEF UnlinkCopies, Cleaned
  <2> QED BY <1>3, <2>1
<1>8. CASE CleanupBreaksOff
  <2>1. CASE status = "unlinking" /\ PartlyRemoved(Cleaned)
    <3>1. PICK first \in RemovedFirst : files' = Without(preserved \cap first)
      BY <2>1 DEF PartlyRemoved, Cleaned
    <3> QED BY <1>3, <2>1, <3>1
  <2> QED BY <1>4, <1>8, <2>1 DEF CleanupBreaksOff
<1> QED BY <1>5, <1>6, <1>7, <1>8 DEF EndingStep

LEMMA CleanupEffects ==
  ASSUME EndingStep
  PROVE  CleansUp
<1>1. CASE Raise \/ Interrupt
  BY <1>1 DEF Raise, Interrupt, CleansUp
<1>2. CASE RemoveFailedTmp
  BY <1>2 DEF RemoveFailedTmp, CleansUp, Without, Restricted, TmpFiles
<1>3. CASE UnlinkCopies
  BY <1>3 DEF UnlinkCopies, CleansUp, Without, Restricted, Cleaned
<1>4. CASE CleanupBreaksOff
  BY <1>4 DEF CleanupBreaksOff, CleansUp
<1> QED BY <1>1, <1>2, <1>3, <1>4 DEF EndingStep

\* Every step is one of these, or begins the next level, or stutters.
LEMMA Effects ==
  ASSUME IInv, [Next]_vars
  PROVE  \/ Advances /\ (Drops \/ Writes \/ Copies)
         \/ Stops /\ CleansUp
         \/ FinishLevel
         \/ UNCHANGED vars
BY DropEffects, WriteEffects, CopyEffects, StopEffects, CleanupEffects DEF Next, EndingStep

(***************************************************************************)
(* The levels and the files, step by step.                                 *)
(***************************************************************************)
LEMMA LevelsOfRun ==
  ASSUME IInv
  PROVE  /\ args \in Options /\ Levels \in Seq(ToSet(Levels)) /\ Len(Levels) \in Nat
         /\ Len(Levels) >= 1 /\ Distinct(Levels) /\ DOMAIN Levels = 1..Len(Levels)
         /\ \A k \in 1..Len(Levels) : Levels[k] # "" /\ Levels[k] \in ToSet(Levels)
<1>1. args \in Options
  BY DriverAssumption DEF IInv
<1>2. /\ Levels \in Seq(ToSet(Levels)) /\ Len(Levels) \in Nat /\ Len(Levels) >= 1
      /\ Distinct(Levels) /\ \A k \in 1..Len(Levels) : Levels[k] # ""
  BY <1>1, LevelsAreDistinct DEF Levels
<1>3. DOMAIN Levels = 1..Len(Levels)
  <2>1. PICK S : Levels \in Seq(S)
    BY <1>2
  <2> QED BY <2>1
<1>4. \A k \in 1..Len(Levels) : Levels[k] \in ToSet(Levels)
  BY <1>3 DEF ToSet
<1> QED BY <1>1, <1>2, <1>3, <1>4

LEMMA InitLevel ==
  Init => LevelIsGiven
<1> SUFFICES ASSUME Init PROVE LevelIsGiven
  OBVIOUS
<1>1. level = 1 /\ status = IF Rejected(args) THEN "rejected" ELSE "running"
  BY DEF Init
<1>2. Len(Levels) \in Nat /\ Len(Levels) >= 1 /\ DOMAIN Levels = 1..Len(Levels)
  BY InitInvariant, LevelsOfRun
<1> QED BY <1>1, <1>2 DEF LevelIsGiven

LEMMA SameLevel ==
  ASSUME args' = args, level' = level
  PROVE  Levels' = Levels /\ Level' = Level
BY DEF Level, Levels

LEMMA StepLevel ==
  ASSUME IInv, LevelIsGiven, [Next]_vars
  PROVE  LevelIsGiven'
<1>1. CASE Advances
  <2>1. args' = args /\ level' = level /\ status' = status
    BY <1>1 DEF Advances, Done
  <2> QED BY <2>1, SameLevel DEF LevelIsGiven
<1>2. CASE Stops
  <2>1. /\ args' = args /\ level' = level /\ status \in {"running", "failing", "unlinking"}
        /\ status' \in {"failing", "unlinking", "error", "interrupted", "broken off"}
    BY <1>2 DEF Stops
  <2> QED BY <2>1, SameLevel DEF LevelIsGiven
<1>3. CASE FinishLevel
  <2>1. args' = args /\ status = "running"
    BY <1>3 DEF FinishLevel
  <2>2. Levels' = Levels /\ DOMAIN Levels = 1..Len(Levels) /\ Len(Levels) \in Nat
    BY <2>1, LevelsOfRun DEF Levels
  <2>3. CASE level < Len(Levels)
    <3>1. level' = level + 1 /\ status' = status
      BY <1>3, <2>3 DEF FinishLevel
    <3> QED BY <2>1, <2>2, <2>3, <3>1 DEF LevelIsGiven
  <2>4. CASE ~ (level < Len(Levels))
    <3>1. level' = level /\ status' = "ok"
      BY <1>3, <2>4 DEF FinishLevel
    <3> QED BY <2>1, <2>2, <3>1 DEF LevelIsGiven
  <2> QED BY <2>3, <2>4
<1>4. CASE UNCHANGED vars
  BY <1>4 DEF vars, LevelIsGiven, Levels
<1> QED BY <1>1, <1>2, <1>3, <1>4, Effects

\* What the plan writes is of the levels of the command line.
LEMMA WrittenPaths ==
  ASSUME NEW a \in Options, NEW p \in Written(a)
  PROVE  PathOf(a, p)
<1>1. PICK l \in ToSet(NormalizeOptLevels(a.levels)) :
        \E k \in DOMAIN Plan(a, l) : p \in Plan(a, l)[k].to
  BY DEF Written
<1>2. PICK k \in DOMAIN Plan(a, l) : p \in Plan(a, l)[k].to
  BY <1>1
<1>3. PICK work \in Seq(WorkSteps(a, l)) : work = Work(a, l)
  BY WorkType
<1>4. PICK plan : plan = Plan(a, l)
  OBVIOUS
<1>5. plan = Preparation \o work
  BY <1>3, <1>4 DEF Plan
<1>6. PICK x, y : Preparation = <<x, y>> /\ x.to = {} /\ y.to = {}
  <2>1. PICK x, y : Preparation = <<x, y>>
    BY DEF Preparation
  <2>2. Preparation[1].to = {} /\ Preparation[2].to = {}
    BY DEF Preparation, Step
  <2> QED BY <2>1, <2>2
<1>7. /\ DOMAIN plan = 1..(2 + Len(work)) /\ plan[1] = x /\ plan[2] = y /\ Len(work) \in Nat
      /\ \A j \in 3..(2 + Len(work)) : plan[j] = work[j - 2]
  BY <1>5, <1>6
<1>8. k \in 1..(2 + Len(work)) /\ p \in plan[k].to
  BY <1>2, <1>4, <1>7
<1>9. k # 1 /\ k # 2
  BY <1>6, <1>7, <1>8
<1>10. plan[k] = work[k - 2] /\ k - 2 \in 1..Len(work)
  BY <1>7, <1>8, <1>9
<1>11. plan[k] \in WorkSteps(a, l)
  BY <1>10
<1>12. PathIn(p, l)
  BY <1>8, <1>11, WorkPaths DEF PathsIn
<1> QED BY <1>1, <1>12 DEF PathIn, PathOf

LEMMA InitFiles ==
  Init => FilesAreTyped
<1> SUFFICES ASSUME Init PROVE FilesAreTyped
  OBVIOUS
<1>1. args \in Options /\ preserved = {}
  BY DriverAssumption DEF Init
<1>2. PICK left \in Leftovers : files = [p \in {q \in Written(args) : q[1] \in left} |-> Old]
  BY DEF Init
<1>3. Old \in Contents
  BY DEF Old, Content, Contents
<1> QED BY <1>1, <1>2, <1>3, WrittenPaths DEF FilesAreTyped

LEMMA PathsOfRun ==
  ASSUME IInv, LevelIsGiven
  PROVE  /\ \A p : PathIn(p, Level) => PathOf(args, p)
         /\ \A p : IsDestination(p, args, Level) => PathIn(p, Level) /\ p[1] \notin TmpPlaces
<1>1. Level \in ToSet(Levels)
  BY LevelsOfRun DEF LevelIsGiven, Level
<1>2. \A p : PathIn(p, Level) => PathOf(args, p)
  BY <1>1 DEF PathIn, PathOf, Levels
<1>3. OutputOption[1] = "-o" /\ OutputOption[2] = ""
  BY DEF OutputOption, File
<1>4. \A p : IsDestination(p, args, Level) => PathIn(p, Level) /\ p[1] \notin TmpPlaces
  BY <1>3, PlacesOfTmp DEF IsDestination, PathIn
<1> QED BY <1>2, <1>4

LEMMA StepFiles ==
  ASSUME IInv, LevelIsGiven, FilesAreTyped, [Next]_vars
  PROVE  FilesAreTyped'
<1>0. /\ \A p : PathIn(p, Level) => PathOf(args, p)
      /\ \A p : IsDestination(p, args, Level) => PathIn(p, Level) /\ p[1] \notin TmpPlaces
  BY PathsOfRun
<1>1. ASSUME args' = args,
             \A p \in DOMAIN files' :
               \/ p \in DOMAIN files /\ files'[p] = files[p]
               \/ PathIn(p, Level) /\ IsNew(files'[p]),
             \A p \in preserved' : p \in preserved \/ IsDestination(p, args, Level)
      PROVE  FilesAreTyped'
  <2>1. \A p : PathOf(args', p) <=> PathOf(args, p)
    BY <1>1
  <2>2. \A p \in DOMAIN files' : PathOf(args', p) /\ files'[p] \in Contents
    BY <1>0, <1>1, <2>1 DEF FilesAreTyped, IsNew
  <2>3. \A p \in preserved' : PathOf(args', p) /\ p[1] \notin TmpPlaces
    BY <1>0, <1>1, <2>1 DEF FilesAreTyped
  <2> QED BY <2>2, <2>3 DEF FilesAreTyped
<1>2. CASE Advances /\ Drops
  BY <1>1, <1>2 DEF Advances, Done, Drops
<1>3. CASE Advances /\ Writes
  BY <1>1, <1>3 DEF Advances, Done, Writes
<1>4. CASE Advances /\ Copies
  BY <1>0, <1>1, <1>4 DEF Advances, Done, Copies
<1>5. CASE Stops
  BY <1>1, <1>5 DEF Stops
<1>6. CASE FinishLevel
  BY <1>1, <1>6 DEF FinishLevel, NewRunArtifacts
<1>7. CASE UNCHANGED vars
  BY <1>1, <1>7 DEF vars
<1> QED BY <1>2, <1>3, <1>4, <1>5, <1>6, <1>7, Effects

\* The steps ahead are of the level at work.
LEMMA TodoOfRun ==
  ASSUME IInv, LevelIsGiven, status = "running"
  PROVE  TodoIsTyped
<1>0. \A p : PathIn(p, Level) => PathOf(args, p)
  BY PathsOfRun
<1>1. CASE Working
  <2>1. \A k \in DOMAIN todo : todo[k] \in WorkSteps(args, Level)
    BY <1>1 DEF Working
  <2> QED BY <1>0, <2>1, WorkPaths DEF TodoIsTyped, PathsIn
<1>2. CASE Preparing
  <2>1. PICK n \in 1..2 :
          LET rest == SubSeq(todo, n + 1, Len(todo)) IN
            /\ rest \in Seq(WorkSteps(args, Level))
            /\ todo = Preparations(n) \o rest
    BY <1>2 DEF Preparing
  <2>2. PICK rest \in Seq(WorkSteps(args, Level)) : todo = Preparations(n) \o rest
    BY <2>1
  <2>3. PICK x, y : Preparation = <<x, y>> /\ x.to = {} /\ y.to = {} /\ x.from = {} /\ y.from = {}
    <3>1. PICK x, y : Preparation = <<x, y>>
      BY DEF Preparation
    <3>2. /\ Preparation[1].to = {} /\ Preparation[2].to = {}
          /\ Preparation[1].from = {} /\ Preparation[2].from = {}
      BY DEF Preparation, Step
    <3> QED BY <3>1, <3>2
  <2>4. ASSUME NEW k \in DOMAIN todo
        PROVE  todo[k] \in WorkSteps(args, Level) \/ todo[k] = x \/ todo[k] = y
    <3>1. CASE n = 2
      <4>1. todo = <<x, y>> \o rest
        BY <2>2, <2>3, <3>1, Zenon DEF Preparations
      <4> QED BY <4>1
    <3>2. CASE n # 2
      <4>1. Tail(Preparation) = <<y>>
        BY <2>3
      <4>2. todo = <<y>> \o rest
        BY <2>2, <3>2, <4>1, Zenon DEF Preparations
      <4> QED BY <4>2
    <3> QED BY <3>1, <3>2
  <2> QED BY <1>0, <2>3, <2>4, WorkPaths DEF TodoIsTyped, PathsIn
<1> QED BY <1>1, <1>2, RunningCases

LEMMA InitTodo ==
  Init => TodoIsTyped
<1> SUFFICES ASSUME Init PROVE TodoIsTyped
  OBVIOUS
<1>1. CASE Rejected(args)
  BY <1>1 DEF Init, TodoIsTyped
<1>2. CASE ~ Rejected(args)
  <2>1. status = "running"
    BY <1>2 DEF Init
  <2> QED BY <2>1, InitInvariant, InitLevel, TodoOfRun
<1> QED BY <1>1, <1>2

LEMMA TodoNext ==
  (IInv /\ LevelIsGiven /\ status = "running" => TodoIsTyped)'
<1>1. IInv /\ LevelIsGiven /\ status = "running" => TodoIsTyped
  BY TodoOfRun
<1> QED BY <1>1, PTL

LEMMA StepTodo ==
  ASSUME IInv, IInv', LevelIsGiven, LevelIsGiven', TodoIsTyped, [Next]_vars
  PROVE  TodoIsTyped'
<1>1. CASE status' = "running"
  BY <1>1, TodoNext
<1>2. CASE status' # "running"
  <2>1. todo' = todo /\ args' = args
    <3>1. CASE Advances
      BY <1>2, <3>1 DEF Advances, Done
    <3>2. CASE Stops
      BY <3>2 DEF Stops
    <3>3. CASE FinishLevel
      BY <1>2, <3>3 DEF FinishLevel
    <3>4. CASE UNCHANGED vars
      BY <3>4 DEF vars
    <3> QED BY <3>1, <3>2, <3>3, <3>4, Effects
  <2> QED BY <2>1 DEF TodoIsTyped, PathOf
<1> QED BY <1>1, <1>2

\* What a level has written bears its name, or goes to -o.
LEMMA InitOfLevels ==
  Init => FilesAreOfLevels /\ CopiesAreRemembered
<1> SUFFICES ASSUME Init PROVE FilesAreOfLevels /\ CopiesAreRemembered
  OBVIOUS
<1>1. preserved = {}
  BY DEF Init
<1>2. PICK left \in Leftovers : files = [p \in {q \in Written(args) : q[1] \in left} |-> Old]
  BY DEF Init
<1>3. Old.fresh = FALSE
  BY DEF Old, Content
<1> QED BY <1>1, <1>2, <1>3 DEF FilesAreOfLevels, CopiesAreRemembered

LEMMA StepOfLevels ==
  ASSUME IInv, LevelIsGiven, FilesAreOfLevels, [Next]_vars
  PROVE  FilesAreOfLevels'
<1>0. level \in 1..Len(Levels) /\ Len(Levels) \in Nat /\ Level = Levels[level]
  BY LevelsOfRun DEF LevelIsGiven, Level
<1>1. ASSUME args' = args, level' = level,
             \A p \in DOMAIN files' :
               \/ p \in DOMAIN files /\ files'[p] = files[p]
               \/ InTmp(p, Level) \/ IsDestination(p, args, Level),
             \A p \in preserved' : p \in preserved \/ IsDestination(p, args, Level)
      PROVE  FilesAreOfLevels'
  <2>1. Levels' = Levels /\ Level' = Level
    BY <1>1, SameLevel
  <2>2. OutputOption[1] = "-o"
    BY DEF OutputOption, File
  <2>3. ASSUME NEW p \in preserved' PROVE Mine(p)' /\ (p = OutputOption => args'.o)
    <3>1. CASE p \in preserved
      BY <1>1, <2>1, <3>1 DEF FilesAreOfLevels, Mine
    <3>2. CASE IsDestination(p, args, Level)
      BY <1>1, <2>1, <2>2, <3>2 DEF IsDestination, Mine
    <3> QED BY <1>1, <3>1, <3>2
  <2>4. ASSUME NEW p \in DOMAIN files', files'[p].fresh
        PROVE  (p = OutputOption /\ args'.o) \/ \E k \in 1..level' : p[2] = Levels'[k]
    <3>1. CASE p \in DOMAIN files /\ files'[p] = files[p]
      BY <1>1, <2>1, <2>4, <3>1 DEF FilesAreOfLevels
    <3>2. CASE InTmp(p, Level) \/ IsDestination(p, args, Level)
      <4>1. p[2] = Levels[level] \/ (p = OutputOption /\ args.o)
        BY <1>0, <3>2 DEF InTmp, IsDestination
      <4>2. level \in 1..level
        BY <1>0
      <4> QED BY <1>1, <2>1, <4>1, <4>2
    <3> QED BY <1>1, <3>1, <3>2
  <2> QED BY <2>3, <2>4 DEF FilesAreOfLevels
<1>2. CASE Advances /\ Drops
  BY <1>1, <1>2 DEF Advances, Done, Drops
<1>3. CASE Advances /\ Writes
  BY <1>1, <1>3 DEF Advances, Done, Writes
<1>4. CASE Advances /\ Copies
  BY <1>1, <1>4 DEF Advances, Done, Copies
<1>5. CASE Stops
  BY <1>1, <1>5 DEF Stops
<1>6. CASE FinishLevel
  <2>1. args' = args /\ files' = files /\ preserved' = {} /\ level' \in {level, level + 1}
    BY <1>6 DEF FinishLevel, NewRunArtifacts
  <2>2. Levels' = Levels
    BY <2>1 DEF Levels
  <2>3. 1..level \subseteq 1..level'
    BY <1>0, <2>1
  <2> QED BY <2>1, <2>2, <2>3 DEF FilesAreOfLevels
<1>7. CASE UNCHANGED vars
  <2>1. args' = args /\ level' = level /\ files' = files /\ preserved' = preserved
    BY <1>7 DEF vars
  <2> QED BY <1>1, <2>1
<1> QED BY <1>2, <1>3, <1>4, <1>5, <1>6, <1>7, Effects

\* When a level begins nothing of it has been written: no other has its name, and -o
\* is given with one level only.
LEMMA NothingOfNextLevel ==
  ASSUME IInv, LevelIsGiven, FilesAreOfLevels, status # "rejected", level < Len(Levels),
         NEW p \in DOMAIN files, files[p].fresh
  PROVE  p[2] # Levels[level + 1] /\ p # OutputOption
<1>1. /\ level \in 1..Len(Levels) /\ Len(Levels) \in Nat /\ Distinct(Levels)
      /\ \A k \in 1..Len(Levels) : Levels[k] # ""
  BY LevelsOfRun DEF LevelIsGiven
<1>7. PICK n, m : n = Len(Levels) /\ m = level
  OBVIOUS
<1>9. n \in Nat /\ m \in 1..n
  BY <1>1, <1>7, Zenon
<1>8. m < n
  BY <1>7, Zenon
<1>2. ~ args.o
  <2> SUFFICES ASSUME args.o PROVE FALSE
    OBVIOUS
  <2>1. n = Len(NormalizeOptLevels(args.levels))
    BY <1>7, Zenon DEF Levels
  <2>2. n > 1
    BY <1>8, <1>9
  <2>3. Rejected(args)
    BY <2>1, <2>2, Zenon DEF Rejected
  <2> QED BY <2>3 DEF LevelIsGiven
<1>3. PICK k \in 1..level : p[2] = Levels[k]
  BY <1>2 DEF FilesAreOfLevels
<1>4. k \in 1..Len(Levels) /\ level + 1 \in 1..Len(Levels) /\ k # level + 1
  <2>1. k \in 1..m
    BY <1>3, <1>7
  <2>2. k \in 1..n /\ m + 1 \in 1..n /\ k # m + 1
    BY <2>1, <1>8, <1>9
  <2> QED BY <1>7, <2>2
<1>5. Levels[k] # Levels[level + 1]
  BY <1>1, <1>4 DEF Distinct
<1>6. OutputOption[2] = ""
  BY DEF OutputOption, File
<1> QED BY <1>1, <1>3, <1>4, <1>5, <1>6

LEMMA StepRemembered ==
  ASSUME IInv, LevelIsGiven, FilesAreOfLevels, CopiesAreRemembered, [Next]_vars
  PROVE  CopiesAreRemembered'
<1>1. CASE Advances /\ (Drops \/ Writes \/ Copies)
  <2>1. args' = args /\ level' = level /\ status = "running"
    BY <1>1 DEF Advances, Done
  <2>2. Level' = Level
    BY <2>1, SameLevel
  <2> SUFFICES ASSUME NEW p \in DOMAIN files', files'[p].fresh, Mine(p)'
               PROVE  InTmp(p, Level) \/ p \in preserved'
    BY <2>2 DEF CopiesAreRemembered
  <2>3. Mine(p)
    BY <2>2 DEF Mine
  <2>4. CASE Drops
    BY <2>1, <2>3, <2>4 DEF Drops, CopiesAreRemembered
  <2>5. CASE Writes
    BY <2>1, <2>3, <2>5 DEF Writes, CopiesAreRemembered
  <2>6. CASE Copies
    <3>1. PICK to : /\ preserved' = preserved \cup {to} /\ DOMAIN files' = DOMAIN files \cup {to}
                    /\ \A q \in DOMAIN files : q # to => files'[q] = files[q]
      BY <2>6 DEF Copies
    <3> QED BY <2>1, <2>3, <3>1 DEF CopiesAreRemembered
  <2> QED BY <1>1, <2>4, <2>5, <2>6
<1>2. CASE Stops
  BY <1>2 DEF Stops, CopiesAreRemembered
<1>3. CASE FinishLevel
  <2>1. args' = args /\ files' = files /\ status = "running"
    BY <1>3 DEF FinishLevel
  <2>2. CASE level < Len(Levels)
    <3>1. Level' = Levels[level + 1]
      BY <1>3, <2>1, <2>2 DEF FinishLevel, Level, Levels
    <3>2. \A p \in DOMAIN files : files[p].fresh => p[2] # Levels[level + 1] /\ p # OutputOption
      BY <2>1, <2>2, NothingOfNextLevel
    <3> QED BY <2>1, <3>1, <3>2 DEF CopiesAreRemembered, Mine
  <2>3. CASE ~ (level < Len(Levels))
    BY <1>3, <2>3 DEF FinishLevel, CopiesAreRemembered
  <2> QED BY <2>2, <2>3
<1>4. CASE UNCHANGED vars
  BY <1>4 DEF vars, CopiesAreRemembered, Mine, Level, Levels
<1> QED BY <1>1, <1>2, <1>3, <1>4, Effects

\* What has been copied out is there until the clean-up comes to unlink it.
LEMMA InitThere ==
  Init => CopiesAreThere
BY DEF Init, CopiesAreThere

LEMMA StepThere ==
  ASSUME IInv, CopiesAreThere, [Next]_vars
  PROVE  CopiesAreThere'
<1>0. \A p \in preserved : p[1] \notin TmpPlaces
  BY DEF IInv, DriverInvariant
<1>1. \A p \in preserved : ~ InTmp(p, Level) /\ ~ (args.delete_bins /\ p = Out(Level, "bin", NoStage))
  <2>1. Out(Level, "bin", NoStage)[3] = "bin"
    BY DEF Out, File
  <2> QED BY <1>0, <2>1 DEF CopiesAreThere, InTmp
<1>2. CASE Advances /\ Drops
  <2>1. \A p \in DOMAIN files \ DOMAIN files' :
          InTmp(p, Level) \/ (args.delete_bins /\ p = Out(Level, "bin", NoStage))
    BY <1>2, Zenon DEF Drops, NoStage
  <2>2. \A p \in DOMAIN files' : p \in DOMAIN files /\ files'[p] = files[p]
    BY <1>2 DEF Drops
  <2>3. args' = args /\ status = "running" /\ preserved' = preserved
    BY <1>2 DEF Advances, Done, Drops
  <2> QED BY <1>1, <2>1, <2>2, <2>3 DEF CopiesAreThere
<1>3. CASE Advances /\ Writes
  BY <1>3 DEF Advances, Done, Writes, IsNew, CopiesAreThere
<1>4. CASE Advances /\ Copies
  <2>1. PICK to : /\ args.delete_bins => to[3] # "bin"
                  /\ preserved' = preserved \cup {to} /\ DOMAIN files' = DOMAIN files \cup {to}
                  /\ \A p \in DOMAIN files : p # to => files'[p] = files[p]
                  /\ IsNew(files'[to])
    BY <1>4 DEF Copies
  <2>2. args' = args /\ status = "running"
    BY <1>4 DEF Advances, Done
  <2> QED BY <2>1, <2>2 DEF CopiesAreThere, IsNew
<1>5. CASE Stops /\ CleansUp
  <2>1. /\ args' = args /\ preserved' = preserved
        /\ \A p \in DOMAIN files' :
             (p \in DOMAIN files /\ files'[p] = files[p]) \/ files'[p].fresh
    BY <1>5 DEF Stops, IsNew
  <2>2. ASSUME status' \in {"failing", "unlinking"} PROVE preserved \subseteq DOMAIN files'
    <3>1. status \in {"running", "failing"}
      BY <1>5, <2>2 DEF Stops, CleansUp
    <3>2. \A p \in DOMAIN files \ DOMAIN files' :
            InTmp(p, Level) \/ (args.delete_bins /\ p = Out(Level, "bin", NoStage))
      <4>1. status # "unlinking"
        BY <3>1
      <4> QED BY <1>5, <4>1, Zenon DEF Stops, NoStage
    <3> QED BY <1>1, <3>1, <3>2 DEF CopiesAreThere
  <2>3. status' # "running"
    BY <1>5 DEF Stops
  <2> QED BY <2>1, <2>2, <2>3 DEF CopiesAreThere
<1>6. CASE FinishLevel
  BY <1>6 DEF FinishLevel, NewRunArtifacts, CopiesAreThere
<1>7. CASE UNCHANGED vars
  BY <1>7 DEF vars, CopiesAreThere
<1> QED BY <1>2, <1>3, <1>4, <1>5, <1>6, <1>7, Effects

(***************************************************************************)
(* The end of a level.                                                     *)
(***************************************************************************)
\* Without --keep-tmp a plan ends with the removal of tmp.
LEMMA PlanEnds ==
  ASSUME NEW a \in Options, ~ a.keep_tmp, NEW l, NEW t, t = Plan(a, l)
  PROVE  t # <<>> /\ t[Len(t)].op = "cleanup_tmp"
<1>1. PICK W : W = WorkSteps(a, l)
  OBVIOUS
<1>2. /\ ExecClang(l, "base") \in Seq(W) /\ ProfileSteps(a, l) \in Seq(W)
      /\ BinCopies(a, l) \in Seq(W) /\ LlCopies(a, l) \in Seq(W)
      /\ JsonCopies(a, l) \in Seq(W) /\ LogCopies(a, l) \in Seq(W)
      /\ EmitStaticOutputs(a, l) \in Seq(W) /\ EmitDynamicOutputs(a, l) \in Seq(W)
      /\ Deletion(a) \in Seq(W)
  BY <1>1, PartsType
<1>3. PICK most \in Seq(W) :
        most = ExecClang(l, "base") \o ProfileSteps(a, l) \o BinCopies(a, l)
                 \o LlCopies(a, l) \o JsonCopies(a, l) \o LogCopies(a, l)
                 \o EmitStaticOutputs(a, l) \o EmitDynamicOutputs(a, l) \o Deletion(a)
  BY <1>2, ConcatProperties
<1>4. PICK last : last = Step("cleanup_tmp", {}, {})
  OBVIOUS
<1>5. last.op = "cleanup_tmp"
  BY <1>4 DEF Step
<1>6. Clearing(a) = <<last>>
  BY <1>4 DEF Clearing, When
<1>7. Work(a, l) = most \o Clearing(a)
  BY <1>3, WorkParts, Zenon
<1>8. PICK x, y : Preparation = <<x, y>>
  BY DEF Preparation
<1>9. t = <<x, y>> \o (most \o <<last>>)
  BY <1>6, <1>7, <1>8 DEF Plan
<1>10. Len(t) = Len(most) + 3 /\ t[Len(t)] = last /\ Len(most) \in Nat
  BY <1>9
<1>11. t # <<>>
  BY <1>9, <1>10
<1> QED BY <1>5, <1>10, <1>11

LEMMA InitCleared ==
  Init => TmpIsCleared
<1> SUFFICES ASSUME Init, ~ args.keep_tmp PROVE TmpIsCleared
  BY DEF TmpIsCleared
<1>1. level = 1 /\ status # "ok" /\ args \in Options
  BY DriverAssumption DEF Init
<1>2. 1..(level - 1) = {}
  BY <1>1
<1>3. status = "running" => todo = Plan(args, Level)
  BY DEF Init
<1>4. ASSUME status = "running" PROVE todo # <<>> /\ todo[Len(todo)].op = "cleanup_tmp"
  BY <1>1, <1>3, <1>4, PlanEnds
<1> QED BY <1>1, <1>2, <1>4 DEF TmpIsCleared

\* The last step but no other is the next one when the plan has no other.
LEMMA LastOfTail ==
  ASSUME NEW t, NEW W, t \in Seq(W), t # <<>>
  PROVE  /\ Tail(t) = <<>> => Head(t) = t[Len(t)]
         /\ Tail(t) # <<>> => Tail(t)[Len(Tail(t))] = t[Len(t)]
<1>1. PICK n \in Nat : n = Len(t) /\ n >= 1
  BY EmptySeq
<1>2. PICK u \in Seq(W) : u = Tail(t)
  <2>1. Tail(t) \in Seq(W)
    BY HeadTailProperties
  <2> QED BY <2>1, Zenon
<1>3. Len(u) = n - 1 /\ Head(t) = t[1] /\ \A k \in 1..(n - 1) : u[k] = t[k + 1]
  BY <1>1, <1>2
<1>4. CASE u = <<>>
  <2>0. Len(u) = 0
    BY <1>4, EmptySeq
  <2>1. n = 1
    BY <1>3, <2>0
  <2> QED BY <1>1, <1>2, <1>3, <1>4, <2>1
<1>5. CASE u # <<>>
  <2>1. Len(u) # 0
    BY <1>5, EmptySeq
  <2>2. n - 1 \in 1..(n - 1)
    BY <1>3, <2>1
  <2>3. u[n - 1] = t[n]
    BY <1>3, <2>2
  <2>4. u[Len(u)] = t[Len(t)]
    BY <1>1, <1>3, <2>3
  <2> QED BY <1>2, <1>5, <2>4, Zenon
<1> QED BY <1>4, <1>5

\* The plan is a sequence while the level is worked on.
LEMMA TodoIsSequence ==
  ASSUME IInv, status = "running"
  PROVE  \E W : todo \in Seq(W)
<1>1. CASE Working
  BY <1>1 DEF Working
<1>2. CASE Preparing
  <2>1. PICK n \in 1..2 :
          LET rest == SubSeq(todo, n + 1, Len(todo)) IN
            /\ rest \in Seq(WorkSteps(args, Level))
            /\ todo = Preparations(n) \o rest
    BY <1>2 DEF Preparing
  <2>0. PICK V : V = WorkSteps(args, Level)
    OBVIOUS
  <2>2. PICK rest \in Seq(V) : todo = Preparations(n) \o rest
    BY <2>0, <2>1
  <2>3. PICK x, y : Preparation = <<x, y>>
    BY DEF Preparation
  <2>4. PICK W : W = V \cup {x, y}
    OBVIOUS
  <2>5. rest \in Seq(W) /\ <<x, y>> \in Seq(W) /\ <<y>> \in Seq(W)
    BY <2>4
  <2>6. Preparations(n) = <<x, y>> \/ Preparations(n) = <<y>>
    BY <2>3 DEF Preparations
  <2>7. todo \in Seq(W)
    BY <2>2, <2>5, <2>6, ConcatProperties
  <2> QED BY <2>7
<1> QED BY <1>1, <1>2, RunningCases

LEMMA StepCleared ==
  ASSUME IInv, LevelIsGiven, TmpIsCleared, [Next]_vars
  PROVE  TmpIsCleared'
<1>1. PICK n : n = Len(Levels)
  OBVIOUS
<1>2. /\ n \in Nat /\ level \in 1..n /\ Distinct(Levels) /\ args \in Options
      /\ \A k \in 1..n : Levels[k] # ""
  BY <1>1, LevelsOfRun DEF LevelIsGiven
<1>9. n \in Nat /\ level \in 1..n
  BY <1>2, Zenon
<1>3. ASSUME NEW k \in 1..(level - 1) PROVE Levels[k] # Level
  <2>1. k \in 1..n /\ k # level
    BY <1>3, <1>9
  <2> QED BY <1>1, <1>2, <2>1 DEF Distinct, Level
<1>4. ASSUME ~ args.keep_tmp,
             \A p \in DOMAIN files' :
               p \in DOMAIN files \/ InTmp(p, Level) \/ IsDestination(p, args, Level),
             Levels' = Levels
      PROVE  \A k \in 1..(level - 1) : Cleared(k)'
  <2> SUFFICES ASSUME NEW k \in 1..(level - 1), NEW p \in DOMAIN files', InTmp(p, Levels[k])
               PROVE  FALSE
    BY <1>4 DEF Cleared
  <2>1. p \notin DOMAIN files
    BY <1>4 DEF TmpIsCleared, Cleared
  <2>2. p[2] # Level
    BY <1>3 DEF InTmp
  <2>3. p[1] # "out" /\ p[1] # "-o"
    BY PlacesOfTmp DEF InTmp
  <2>4. OutputOption[1] = "-o"
    BY DEF OutputOption, File
  <2> QED BY <1>4, <2>1, <2>2, <2>3, <2>4 DEF InTmp, IsDestination
<1>5. CASE Advances /\ (Drops \/ Writes \/ Copies)
  <2>1. args' = args /\ level' = level /\ status' = status /\ status = "running" /\ todo # <<>>
        /\ todo' = Tail(todo)
    BY <1>5 DEF Advances, Done
  <2>2. Levels' = Levels /\ Level' = Level
    BY <2>1, SameLevel
  <2> SUFFICES ASSUME ~ args.keep_tmp PROVE TmpIsCleared'
    BY <2>1 DEF TmpIsCleared
  <2>3. \A p \in DOMAIN files' :
          p \in DOMAIN files \/ InTmp(p, Level) \/ IsDestination(p, args, Level)
    <3>1. CASE Drops
      BY <3>1 DEF Drops
    <3>2. CASE Writes
      BY <3>2 DEF Writes
    <3>3. CASE Copies
      BY <3>3 DEF Copies
    <3> QED BY <1>5, <3>1, <3>2, <3>3
  <2>4. todo[Len(todo)].op = "cleanup_tmp"
    BY <2>1 DEF TmpIsCleared
  <2>5. PICK W : todo \in Seq(W)
    BY <2>1, TodoIsSequence
  <2>6. CASE todo' = <<>>
    <3>1. NextStep.op = "cleanup_tmp"
      BY <2>1, <2>4, <2>5, <2>6, LastOfTail DEF NextStep
    <3>2. \A p \in DOMAIN files' : ~ InTmp(p, Level)
      BY <1>5, <3>1 DEF Drops, Writes, Copies
    <3>3. Cleared(level)'
      BY <2>1, <2>2, <3>2 DEF Cleared, Level
    <3> QED BY <1>4, <2>1, <2>2, <2>3, <2>6, <3>3 DEF TmpIsCleared
  <2>7. CASE todo' # <<>>
    <3>1. todo'[Len(todo')].op = "cleanup_tmp"
      BY <2>1, <2>4, <2>5, <2>7, LastOfTail
    <3> QED BY <1>4, <2>1, <2>2, <2>3, <2>7, <3>1 DEF TmpIsCleared
  <2> QED BY <2>6, <2>7
<1>6. CASE Stops
  <2>1. args' = args /\ level' = level /\ status' # "ok" /\ status' # "running"
    BY <1>6 DEF Stops
  <2>2. Levels' = Levels
    BY <2>1, SameLevel
  <2>3. \A p \in DOMAIN files' :
          p \in DOMAIN files \/ InTmp(p, Level) \/ IsDestination(p, args, Level)
    BY <1>6 DEF Stops
  <2> QED BY <1>4, <2>1, <2>2, <2>3 DEF TmpIsCleared
<1>7. CASE FinishLevel
  <2>1. args' = args /\ files' = files /\ status = "running" /\ todo = <<>>
    BY <1>7 DEF FinishLevel
  <2>2. Levels' = Levels
    BY <2>1 DEF Levels
  <2> SUFFICES ASSUME ~ args.keep_tmp PROVE TmpIsCleared'
    BY <2>1 DEF TmpIsCleared
  <2>3. \A k \in 1..level : Cleared(k)'
    <3>1. Cleared(level) /\ \A k \in 1..(level - 1) : Cleared(k)
      BY <2>1 DEF TmpIsCleared
    <3>2. \A k \in 1..level : k = level \/ k \in 1..(level - 1)
      BY <1>9
    <3>3. \A k : Cleared(k) <=> Cleared(k)'
      BY <2>1, <2>2 DEF Cleared
    <3> QED BY <3>1, <3>2, <3>3
  <2>4. CASE level < Len(Levels)
    <3>1. level' = level + 1 /\ todo' = Plan(args, Levels[level + 1]) /\ status' = "running"
      BY <1>7, <2>1, <2>4 DEF FinishLevel
    <3>2. todo' # <<>> /\ todo'[Len(todo')].op = "cleanup_tmp"
      BY <1>2, <3>1, PlanEnds
    <3>3. level' - 1 = level
      BY <1>9, <3>1
    <3> QED BY <2>1, <2>3, <3>1, <3>2, <3>3 DEF TmpIsCleared
  <2>5. CASE ~ (level < Len(Levels))
    <3>1. level' = level /\ status' = "ok"
      BY <1>7, <2>5 DEF FinishLevel
    <3>2. level \in 1..level /\ \A k \in 1..(level - 1) : k \in 1..level
      BY <1>9
    <3> QED BY <2>1, <2>3, <3>1, <3>2 DEF TmpIsCleared
  <2> QED BY <2>4, <2>5
<1>8. CASE UNCHANGED vars
  <2>1. args' = args /\ level' = level /\ todo' = todo /\ status' = status /\ files' = files
    BY <1>8 DEF vars
  <2>2. Levels' = Levels
    BY <2>1, SameLevel
  <2>3. \A k : Cleared(k) <=> Cleared(k)'
    BY <2>1, <2>2 DEF Cleared
  <2> QED BY <2>1, <2>3 DEF TmpIsCleared
<1> QED BY <1>5, <1>6, <1>7, <1>8, Effects

(***************************************************************************)
(* What the options ask for is copied by the plan.                         *)
(***************************************************************************)
LEMMA BringsOfJoin ==
  ASSUME NEW W, NEW p
  PROVE  \A v, w \in Seq(W) : /\ Join(v, w) \in Seq(W)
                              /\ Brings(v, p) \/ Brings(w, p) => Brings(Join(v, w), p)
<1> SUFFICES ASSUME NEW v \in Seq(W), NEW w \in Seq(W), Brings(v, p) \/ Brings(w, p)
             PROVE  Brings(Join(v, w), p)
  BY JoinType
<1>1. PICK x : (Holds(v, x) \/ Holds(w, x)) /\ x.op = "copy" /\ p \in x.to
  BY DEF Brings, Holds
<1>2. Holds(Join(v, w), x)
  BY <1>1, HoldsOfJoin
<1> QED BY <1>1, <1>2 DEF Brings, Holds

LEMMA BringsOfFlatten ==
  ASSUME NEW W, NEW ss \in Seq(Seq(W)), NEW p, NEW j \in 1..Len(ss), Brings(ss[j], p)
  PROVE  Brings(FlattenSeq(ss), p)
<1>1. PICK R : R = Seq(W)
  OBVIOUS
<1>2. PICK g : g = [s \in R |-> s]
  OBVIOUS
<1>3. IsRule(g, R, W)
  BY <1>1, <1>2 DEF IsRule
<1>4. ss \in Seq(R) /\ DOMAIN ss = 1..Len(ss) /\ \A k \in 1..Len(ss) : ss[k] \in R
  BY <1>1
<1>5. [k \in DOMAIN ss |-> g[ss[k]]] = ss
  <2>1. \A k \in DOMAIN ss : g[ss[k]] = ss[k]
    BY <1>2, <1>4
  <2>2. ss = [k \in DOMAIN ss |-> ss[k]]
    BY <1>1
  <2> QED BY <2>1, <2>2
<1>6. Spread(ss, g) = FlattenSeq(ss)
  BY <1>5 DEF Spread
<1>7. PICK x : Holds(ss[j], x) /\ x.op = "copy" /\ p \in x.to
  BY DEF Brings, Holds
<1>8. g[ss[j]] = ss[j]
  BY <1>2, <1>4
<1>9. Holds(Spread(ss, g), x)
  <2>1. \A y : Holds(Spread(ss, g), y) <=> \E k \in 1..Len(ss) : Holds(g[ss[k]], y)
    BY <1>3, <1>4, SpreadHolds
  <2>2. \E k \in 1..Len(ss) : Holds(g[ss[k]], x)
    BY <1>7, <1>8
  <2> QED BY <2>1, <2>2
<1> QED BY <1>6, <1>7, <1>9 DEF Brings, Holds

\* What a copy for each stage brings.
LEMMA CopyBrings ==
  ASSUME NEW from, NEW to
  PROVE  Brings(Copy(from, to), to)
<1>1. PICK x : x = Step("copy", {from}, {to})
  OBVIOUS
<1>2. x.op = "copy" /\ to \in x.to
  BY <1>1 DEF Step
<1>3. PICK t : t = Copy(from, to)
  OBVIOUS
<1>4. t = <<x>>
  BY <1>1, <1>3 DEF Copy
<1>5. Len(t) = 1 /\ t[1] = x
  BY <1>4
<1> QED BY <1>2, <1>3, <1>5 DEF Brings

LEMMA EachBrings ==
  ASSUME NEW a, NEW l, NEW what \in Delivered, NEW stages \in Seq(Each), NEW s \in ToSet(stages),
         NEW W, W = WorkSteps(a, l)
  PROVE  LET t == ForEach(stages, LAMBDA r : CopyOut(l, what, r)) IN
           t \in Seq(W) /\ Brings(t, Out(l, what, s))
<1> DEFINE ss == [k \in DOMAIN stages |-> CopyOut(l, what, stages[k])]
<1>1. DOMAIN stages = 1..Len(stages) /\ Len(stages) \in Nat /\ \A k \in 1..Len(stages) : stages[k] \in Each
  OBVIOUS
<1>2. \A k \in 1..Len(stages) : ss[k] \in Seq(W)
  BY <1>1, EmittedType
<1>3. ss \in Seq(Seq(W)) /\ Len(ss) = Len(stages)
  BY <1>1, <1>2
<1>4. PICK j \in 1..Len(stages) : s = stages[j]
  BY <1>1 DEF ToSet
<1>5. ss[j] = CopyOut(l, what, s)
  BY <1>1, <1>4
<1>6. Brings(ss[j], Out(l, what, s))
  BY <1>5, CopyBrings DEF CopyOut
<1>7. ForEach(stages, LAMBDA r : CopyOut(l, what, r)) = FlattenSeq(ss)
  BY DEF ForEach
<1> HIDE DEF ss
<1>8. FlattenSeq(ss) \in Seq(W)
  BY <1>3, FlattenType
<1>9. j \in 1..Len(ss)
  BY <1>3, <1>4
<1>10. Brings(FlattenSeq(ss), Out(l, what, s))
  BY <1>3, <1>6, <1>9, BringsOfFlatten
<1> QED BY <1>7, <1>8, <1>10

\* What is emitted for one stage of a static graph, and of a dynamic one.
StaticEmission(a, l, s) ==
  <<Step("dot", {Tmp(l, "static_json", s)}, {Tmp(l, "static_dot", s)})>>
    \o When(EmitDot(a), CopyOut(l, "static_dot", s))
    \o When(EmitStaticGraph(a) /\ RenderSvg(a),
            <<Step("svg", {Tmp(l, "static_dot", s)}, {Tmp(l, "static_svg", s)})>>
              \o CopyOut(l, "static_svg", s))
DynamicDelivery(a, l, s) ==
  ForEach(DynamicSvgDestinations(a, l, s), LAMBDA d : Copy(Tmp(l, "dynamic_svg", s), d))
DynamicEmission(a, l, s) ==
  <<Step("dot", {Tmp(l, "dynamic_json", s)}, {Tmp(l, "dynamic_dot", s)})>>
    \o When(EmitDot(a), CopyOut(l, "dynamic_dot", s))
    \o When(EmitDynamicGraph(a) /\ RenderSvg(a),
            <<Step("svg", {Tmp(l, "dynamic_dot", s)}, {Tmp(l, "dynamic_svg", s)})>>
              \o DynamicDelivery(a, l, s))

\* A part of an emission that is made on a condition, behind two others.
IsEmission(t, x, c, dot, d, y, svg) == t = x \o When(c, dot) \o When(d, y \o svg)

LEMMA EmissionBrings ==
  ASSUME NEW W, NEW x \in Seq(W), NEW dot \in Seq(W), NEW y \in Seq(W), NEW svg \in Seq(W),
         NEW c \in BOOLEAN, NEW d \in BOOLEAN, NEW t,
         IsEmission(t, x, c, dot, d, y, svg)
  PROVE  /\ t \in Seq(W)
         /\ \A p : (c /\ Brings(dot, p)) \/ (d /\ Brings(svg, p)) => Brings(t, p)
<1>1. PICK u \in Seq(W) : u = When(c, dot)
  <2>1. When(c, dot) \in Seq(W)
    BY WhenType
  <2> QED BY <2>1, Zenon
<1>2. PICK v \in Seq(W) : v = When(d, Join(y, svg))
  <2>1. Join(y, svg) \in Seq(W)
    BY JoinType
  <2>2. PICK z \in Seq(W) : z = Join(y, svg)
    BY <2>1, Zenon
  <2>3. When(d, z) \in Seq(W)
    BY WhenType
  <2> QED BY <2>2, <2>3, Zenon
<1>3. t = Join(Join(x, u), v)
  BY <1>1, <1>2, Zenon DEF Join, IsEmission
<1>4. t \in Seq(W)
  BY <1>3, JoinType
<1>5. ASSUME NEW p, (c /\ Brings(dot, p)) \/ (d /\ Brings(svg, p)) PROVE Brings(t, p)
  <2>0. \A f, g \in Seq(W) : /\ Join(f, g) \in Seq(W)
                             /\ Brings(f, p) \/ Brings(g, p) => Brings(Join(f, g), p)
    BY BringsOfJoin
  <2>1. CASE c /\ Brings(dot, p)
    <3>1. Brings(u, p)
      BY <1>1, <2>1 DEF When
    <3> QED BY <1>3, <2>0, <3>1
  <2>2. CASE d /\ Brings(svg, p)
    <3>1. v = Join(y, svg)
      BY <1>2, <2>2 DEF When
    <3> QED BY <1>3, <2>0, <2>2, <3>1
  <2> QED BY <1>5, <2>1, <2>2
<1> QED BY <1>4, <1>5

LEMMA StaticEmissionBrings ==
  ASSUME NEW a \in Options, NEW l, NEW s \in Each, NEW W, W = WorkSteps(a, l)
  PROVE  /\ StaticEmission(a, l, s) \in Seq(W)
         /\ EmitDot(a) => Brings(StaticEmission(a, l, s), Out(l, "static_dot", s))
         /\ EmitStaticGraph(a) /\ RenderSvg(a) =>
              Brings(StaticEmission(a, l, s), Out(l, "static_svg", s))
<1>1. \A d \in Drawn :
        /\ <<Step("dot", {Tmp(l, d[1], s)}, {Tmp(l, d[2], s)})>> \in Seq(W)
        /\ <<Step("svg", {Tmp(l, d[2], s)}, {Tmp(l, d[3], s)})>> \in Seq(W)
  BY EmittedType
<1>2. /\ <<Step("dot", {Tmp(l, "static_json", s)}, {Tmp(l, "static_dot", s)})>> \in Seq(W)
      /\ <<Step("svg", {Tmp(l, "static_dot", s)}, {Tmp(l, "static_svg", s)})>> \in Seq(W)
  <2> DEFINE d == <<"static_json", "static_dot", "static_svg">>
  <2>1. d \in Drawn /\ d[1] = "static_json" /\ d[2] = "static_dot" /\ d[3] = "static_svg"
    BY DEF Drawn
  <2> HIDE DEF d
  <2> QED BY <1>1, <2>1
<1>3. CopyOut(l, "static_dot", s) \in Seq(W) /\ CopyOut(l, "static_svg", s) \in Seq(W)
  BY EmittedType DEF Delivered
<1>4. EmitDot(a) \in BOOLEAN /\ (EmitStaticGraph(a) /\ RenderSvg(a)) \in BOOLEAN
  BY DEF EmitDot, EmitStaticGraph, RenderSvg, EmitFiles, EmitJson, EmitLl
<1>5. PICK x \in Seq(W), y \in Seq(W) :
        /\ x = <<Step("dot", {Tmp(l, "static_json", s)}, {Tmp(l, "static_dot", s)})>>
        /\ y = <<Step("svg", {Tmp(l, "static_dot", s)}, {Tmp(l, "static_svg", s)})>>
  BY <1>2, Zenon
<1>6. PICK c \in BOOLEAN, d \in BOOLEAN : c = EmitDot(a) /\ d = (EmitStaticGraph(a) /\ RenderSvg(a))
  BY <1>4, Zenon
<1>7. PICK dot \in Seq(W), svg \in Seq(W) :
        dot = CopyOut(l, "static_dot", s) /\ svg = CopyOut(l, "static_svg", s)
  BY <1>3, Zenon
<1>8. PICK t : t = StaticEmission(a, l, s)
  OBVIOUS
<1>9. IsEmission(t, x, c, dot, d, y, svg)
  BY <1>5, <1>6, <1>7, <1>8, Zenon DEF StaticEmission, IsEmission
<1>10. Brings(dot, Out(l, "static_dot", s)) /\ Brings(svg, Out(l, "static_svg", s))
  BY <1>7, CopyBrings DEF CopyOut
<1>11. /\ t \in Seq(W)
       /\ \A p : (c /\ Brings(dot, p)) \/ (d /\ Brings(svg, p)) => Brings(t, p)
  BY <1>9, EmissionBrings
<1> QED BY <1>6, <1>8, <1>10, <1>11, Zenon

LEMMA StaticOutputsBring ==
  ASSUME NEW a \in Options, NEW l, NEW s \in ToSet(StaticStages(a))
  PROVE  /\ EmitDot(a) => Brings(EmitStaticOutputs(a, l), Out(l, "static_dot", s))
         /\ EmitStaticGraph(a) /\ RenderSvg(a) =>
              Brings(EmitStaticOutputs(a, l), Out(l, "static_svg", s))
<1>1. PICK stages \in Seq(Each) : stages = StaticStages(a)
  BY StagesType
<1>2. PICK W : W = WorkSteps(a, l)
  OBVIOUS
<1> DEFINE ss == [k \in DOMAIN stages |-> StaticEmission(a, l, stages[k])]
<1>3. DOMAIN stages = 1..Len(stages) /\ Len(stages) \in Nat /\ \A k \in 1..Len(stages) : stages[k] \in Each
  OBVIOUS
<1>4. PICK j \in 1..Len(stages) : s = stages[j]
  BY <1>1, <1>3 DEF ToSet
<1>5. /\ \A k \in 1..Len(stages) : StaticEmission(a, l, stages[k]) \in Seq(W)
      /\ EmitDot(a) => Brings(StaticEmission(a, l, s), Out(l, "static_dot", s))
      /\ EmitStaticGraph(a) /\ RenderSvg(a) =>
           Brings(StaticEmission(a, l, s), Out(l, "static_svg", s))
  BY <1>2, <1>3, <1>4, StaticEmissionBrings
<1>6. ss \in Seq(Seq(W)) /\ Len(ss) = Len(stages) /\ ss[j] = StaticEmission(a, l, s)
  BY <1>3, <1>4, <1>5
<1>7. EmitDot(a) \/ (EmitStaticGraph(a) /\ RenderSvg(a)) =>
        EmitStaticOutputs(a, l) = FlattenSeq(ss)
  BY <1>1 DEF EmitStaticOutputs, ForEach, When, StaticEmission
<1> HIDE DEF ss
<1>8. j \in 1..Len(ss)
  BY <1>4, <1>6
<1>9. \A p : Brings(ss[j], p) => Brings(FlattenSeq(ss), p)
  BY <1>6, <1>8, BringsOfFlatten
<1> QED BY <1>5, <1>6, <1>7, <1>9, Zenon

\* The rendered dynamic SVG goes to the output directory, or to -o if it is that of
\* the optimized module.
DynamicSvgGoesTo(a, l, s) == IF a.o THEN OutputOption ELSE Out(l, "dynamic_svg", s)

LEMMA DynamicDeliveryBrings ==
  ASSUME NEW a \in Options, NEW l, NEW s \in Each, NEW W, W = WorkSteps(a, l)
  PROVE  /\ DynamicDelivery(a, l, s) \in Seq(W)
         /\ (a.o => s = "after") => Brings(DynamicDelivery(a, l, s), DynamicSvgGoesTo(a, l, s))
<1>1. /\ CopyOut(l, "dynamic_svg", s) \in Seq(W)
      /\ a.o => Copy(Tmp(l, "dynamic_svg", "after"), OutputOption) \in Seq(W)
  BY EmittedType DEF Delivered
<1>2. ASSUME NEW d, DynamicSvgDestinations(a, l, s) = <<d>>
      PROVE  DynamicDelivery(a, l, s) = Copy(Tmp(l, "dynamic_svg", s), d)
  <2> DEFINE copies == [k \in DOMAIN <<d>> |-> Copy(Tmp(l, "dynamic_svg", s), <<d>>[k])]
  <2>1. Len(copies) = 1 /\ copies[1] = Copy(Tmp(l, "dynamic_svg", s), d)
    OBVIOUS
  <2>2. FlattenSeq(copies) = Copy(Tmp(l, "dynamic_svg", s), d)
    <3> HIDE DEF copies
    <3> QED BY <2>1, FlattenOne
  <2> QED BY <1>2, <2>2 DEF DynamicDelivery, ForEach
<1>3. CASE ~ a.o
  <2>1. DynamicDelivery(a, l, s) = Copy(Tmp(l, "dynamic_svg", s), Out(l, "dynamic_svg", s))
    BY <1>2, <1>3 DEF DynamicSvgDestinations
  <2> QED BY <1>1, <1>3, <2>1, CopyBrings DEF CopyOut, DynamicSvgGoesTo
<1>4. CASE a.o /\ s = "after"
  <2>1. DynamicDelivery(a, l, s) = Copy(Tmp(l, "dynamic_svg", "after"), OutputOption)
    BY <1>2, <1>4 DEF DynamicSvgDestinations
  <2> QED BY <1>1, <1>4, <2>1, CopyBrings DEF DynamicSvgGoesTo
<1>5. CASE a.o /\ s # "after"
  <2>1. DynamicDelivery(a, l, s) = <<>>
    BY <1>5 DEF DynamicDelivery, ForEach, FlattenSeq, DynamicSvgDestinations
  <2> QED BY <1>5, <2>1
<1> QED BY <1>3, <1>4, <1>5

LEMMA DynamicEmissionBrings ==
  ASSUME NEW a \in Options, NEW l, NEW s \in Each, NEW W, W = WorkSteps(a, l)
  PROVE  /\ DynamicEmission(a, l, s) \in Seq(W)
         /\ EmitDot(a) => Brings(DynamicEmission(a, l, s), Out(l, "dynamic_dot", s))
         /\ EmitDynamicGraph(a) /\ RenderSvg(a) /\ (a.o => s = "after") =>
              Brings(DynamicEmission(a, l, s), DynamicSvgGoesTo(a, l, s))
<1>1. \A d \in Drawn :
        /\ <<Step("dot", {Tmp(l, d[1], s)}, {Tmp(l, d[2], s)})>> \in Seq(W)
        /\ <<Step("svg", {Tmp(l, d[2], s)}, {Tmp(l, d[3], s)})>> \in Seq(W)
  BY EmittedType
<1>2. /\ <<Step("dot", {Tmp(l, "dynamic_json", s)}, {Tmp(l, "dynamic_dot", s)})>> \in Seq(W)
      /\ <<Step("svg", {Tmp(l, "dynamic_dot", s)}, {Tmp(l, "dynamic_svg", s)})>> \in Seq(W)
  <2> DEFINE d == <<"dynamic_json", "dynamic_dot", "dynamic_svg">>
  <2>1. d \in Drawn /\ d[1] = "dynamic_json" /\ d[2] = "dynamic_dot" /\ d[3] = "dynamic_svg"
    BY DEF Drawn
  <2> HIDE DEF d
  <2> QED BY <1>1, <2>1
<1>3. CopyOut(l, "dynamic_dot", s) \in Seq(W) /\ DynamicDelivery(a, l, s) \in Seq(W)
  BY EmittedType, DynamicDeliveryBrings DEF Delivered
<1>4. EmitDot(a) \in BOOLEAN /\ (EmitDynamicGraph(a) /\ RenderSvg(a)) \in BOOLEAN
  BY DEF EmitDot, EmitDynamicGraph, RenderSvg
<1>5. PICK x \in Seq(W), y \in Seq(W) :
        /\ x = <<Step("dot", {Tmp(l, "dynamic_json", s)}, {Tmp(l, "dynamic_dot", s)})>>
        /\ y = <<Step("svg", {Tmp(l, "dynamic_dot", s)}, {Tmp(l, "dynamic_svg", s)})>>
  BY <1>2, Zenon
<1>6. PICK c \in BOOLEAN, d \in BOOLEAN : c = EmitDot(a) /\ d = (EmitDynamicGraph(a) /\ RenderSvg(a))
  BY <1>4, Zenon
<1>7. PICK dot \in Seq(W), svg \in Seq(W) :
        dot = CopyOut(l, "dynamic_dot", s) /\ svg = DynamicDelivery(a, l, s)
  BY <1>3, Zenon
<1>8. PICK t : t = DynamicEmission(a, l, s)
  OBVIOUS
<1>9. IsEmission(t, x, c, dot, d, y, svg)
  BY <1>5, <1>6, <1>7, <1>8, Zenon DEF DynamicEmission, IsEmission
<1>10. /\ Brings(dot, Out(l, "dynamic_dot", s))
       /\ (a.o => s = "after") => Brings(svg, DynamicSvgGoesTo(a, l, s))
  BY <1>7, CopyBrings, DynamicDeliveryBrings DEF CopyOut
<1>11. /\ t \in Seq(W)
       /\ \A p : (c /\ Brings(dot, p)) \/ (d /\ Brings(svg, p)) => Brings(t, p)
  BY <1>9, EmissionBrings
<1> QED BY <1>6, <1>8, <1>10, <1>11, Zenon

LEMMA DynamicOutputsBring ==
  ASSUME NEW a \in Options, NEW l, NEW s \in ToSet(DynamicStages(a))
  PROVE  /\ EmitDot(a) => Brings(EmitDynamicOutputs(a, l), Out(l, "dynamic_dot", s))
         /\ EmitDynamicGraph(a) /\ RenderSvg(a) /\ (a.o => s = "after") =>
              Brings(EmitDynamicOutputs(a, l), DynamicSvgGoesTo(a, l, s))
<1>1. PICK stages \in Seq(Each) : stages = DynamicStages(a)
  BY StagesType
<1>2. PICK W : W = WorkSteps(a, l)
  OBVIOUS
<1> DEFINE ss == [k \in DOMAIN stages |-> DynamicEmission(a, l, stages[k])]
<1>3. DOMAIN stages = 1..Len(stages) /\ Len(stages) \in Nat /\ \A k \in 1..Len(stages) : stages[k] \in Each
  OBVIOUS
<1>4. PICK j \in 1..Len(stages) : s = stages[j]
  BY <1>1, <1>3 DEF ToSet
<1>5. /\ \A k \in 1..Len(stages) : DynamicEmission(a, l, stages[k]) \in Seq(W)
      /\ EmitDot(a) => Brings(DynamicEmission(a, l, s), Out(l, "dynamic_dot", s))
      /\ EmitDynamicGraph(a) /\ RenderSvg(a) /\ (a.o => s = "after") =>
           Brings(DynamicEmission(a, l, s), DynamicSvgGoesTo(a, l, s))
  BY <1>2, <1>3, <1>4, DynamicEmissionBrings
<1>6. ss \in Seq(Seq(W)) /\ Len(ss) = Len(stages) /\ ss[j] = DynamicEmission(a, l, s)
  BY <1>3, <1>4, <1>5
<1>7. EmitDot(a) \/ (EmitDynamicGraph(a) /\ RenderSvg(a)) =>
        EmitDynamicOutputs(a, l) = FlattenSeq(ss)
  BY <1>1 DEF EmitDynamicOutputs, ForEach, When, DynamicEmission, DynamicDelivery
<1> HIDE DEF ss
<1>8. j \in 1..Len(ss)
  BY <1>4, <1>6
<1>9. \A p : Brings(ss[j], p) => Brings(FlattenSeq(ss), p)
  BY <1>6, <1>8, BringsOfFlatten
<1> QED BY <1>5, <1>6, <1>7, <1>9, Zenon

\* What one of the parts brings the work does.
LEMMA WorkBrings ==
  ASSUME NEW a \in Options, NEW l, NEW p,
         \/ Brings(BinCopies(a, l), p) \/ Brings(LlCopies(a, l), p)
         \/ Brings(JsonCopies(a, l), p) \/ Brings(LogCopies(a, l), p)
         \/ Brings(EmitStaticOutputs(a, l), p) \/ Brings(EmitDynamicOutputs(a, l), p)
  PROVE  Brings(Plan(a, l), p)
<1>1. PICK W : W = WorkSteps(a, l)
  OBVIOUS
<1>2. /\ ExecClang(l, "base") \in Seq(W) /\ ProfileSteps(a, l) \in Seq(W)
      /\ BinCopies(a, l) \in Seq(W) /\ LlCopies(a, l) \in Seq(W)
      /\ JsonCopies(a, l) \in Seq(W) /\ LogCopies(a, l) \in Seq(W)
      /\ EmitStaticOutputs(a, l) \in Seq(W) /\ EmitDynamicOutputs(a, l) \in Seq(W)
      /\ Deletion(a) \in Seq(W) /\ Clearing(a) \in Seq(W)
  BY <1>1, PartsType
<1>3. Work(a, l) =
        Join(Join(Join(Join(Join(Join(Join(Join(Join(
          ExecClang(l, "base"), ProfileSteps(a, l)), BinCopies(a, l)), LlCopies(a, l)),
          JsonCopies(a, l)), LogCopies(a, l)), EmitStaticOutputs(a, l)),
          EmitDynamicOutputs(a, l)), Deletion(a)), Clearing(a))
  BY WorkParts, Zenon DEF Join
<1>4. \A v, w \in Seq(W) : /\ Join(v, w) \in Seq(W)
                           /\ Brings(v, p) \/ Brings(w, p) => Brings(Join(v, w), p)
  BY BringsOfJoin
<1>5. Work(a, l) \in Seq(W) /\ Brings(Work(a, l), p)
  <2> DEFINE v0 == ExecClang(l, "base")
             v1 == Join(v0, ProfileSteps(a, l))
             v2 == Join(v1, BinCopies(a, l))
             v3 == Join(v2, LlCopies(a, l))
             v4 == Join(v3, JsonCopies(a, l))
             v5 == Join(v4, LogCopies(a, l))
             v6 == Join(v5, EmitStaticOutputs(a, l))
             v7 == Join(v6, EmitDynamicOutputs(a, l))
             v8 == Join(v7, Deletion(a))
             v9 == Join(v8, Clearing(a))
  <2>1. v1 \in Seq(W) /\ (Brings(v0, p) \/ Brings(ProfileSteps(a, l), p) => Brings(v1, p))
    BY <1>2, <1>4
  <2>2. v2 \in Seq(W) /\ (Brings(v1, p) \/ Brings(BinCopies(a, l), p) => Brings(v2, p))
    <3>1. v1 \in Seq(W)
      BY <2>1
    <3> HIDE DEF v1
    <3> QED BY <1>2, <1>4, <3>1
  <2>3. v3 \in Seq(W) /\ (Brings(v2, p) \/ Brings(LlCopies(a, l), p) => Brings(v3, p))
    <3>1. v2 \in Seq(W)
      BY <2>2
    <3> HIDE DEF v2
    <3> QED BY <1>2, <1>4, <3>1
  <2>4. v4 \in Seq(W) /\ (Brings(v3, p) \/ Brings(JsonCopies(a, l), p) => Brings(v4, p))
    <3>1. v3 \in Seq(W)
      BY <2>3
    <3> HIDE DEF v3
    <3> QED BY <1>2, <1>4, <3>1
  <2>5. v5 \in Seq(W) /\ (Brings(v4, p) \/ Brings(LogCopies(a, l), p) => Brings(v5, p))
    <3>1. v4 \in Seq(W)
      BY <2>4
    <3> HIDE DEF v4
    <3> QED BY <1>2, <1>4, <3>1
  <2>6. v6 \in Seq(W) /\ (Brings(v5, p) \/ Brings(EmitStaticOutputs(a, l), p) => Brings(v6, p))
    <3>1. v5 \in Seq(W)
      BY <2>5
    <3> HIDE DEF v5
    <3> QED BY <1>2, <1>4, <3>1
  <2>7. v7 \in Seq(W) /\ (Brings(v6, p) \/ Brings(EmitDynamicOutputs(a, l), p) => Brings(v7, p))
    <3>1. v6 \in Seq(W)
      BY <2>6
    <3> HIDE DEF v6
    <3> QED BY <1>2, <1>4, <3>1
  <2>8. v8 \in Seq(W) /\ (Brings(v7, p) \/ Brings(Deletion(a), p) => Brings(v8, p))
    <3>1. v7 \in Seq(W)
      BY <2>7
    <3> HIDE DEF v7
    <3> QED BY <1>2, <1>4, <3>1
  <2>9. v9 \in Seq(W) /\ (Brings(v8, p) \/ Brings(Clearing(a), p) => Brings(v9, p))
    <3>1. v8 \in Seq(W)
      BY <2>8
    <3> HIDE DEF v8
    <3> QED BY <1>2, <1>4, <3>1
  <2>10. Work(a, l) = v9
    BY <1>3
  <2> HIDE DEF v0, v1, v2, v3, v4, v5, v6, v7, v8, v9
  <2> QED BY <2>1, <2>2, <2>3, <2>4, <2>5, <2>6, <2>7, <2>8, <2>9, <2>10
<1>6. PICK work \in Seq(W) : work = Work(a, l)
  BY <1>5, Zenon
<1>7. PICK x, y : Preparation = <<x, y>>
  BY DEF Preparation
<1>8. PICK plan : plan = Plan(a, l)
  OBVIOUS
<1>9. plan = <<x, y>> \o work
  BY <1>6, <1>7, <1>8 DEF Plan
<1>10. /\ Len(plan) = Len(work) + 2 /\ Len(work) \in Nat
       /\ \A k \in 1..Len(work) : k + 2 \in 1..Len(plan) /\ plan[k + 2] = work[k]
  BY <1>9
<1>11. Brings(work, p)
  BY <1>5, <1>6
<1>12. Brings(plan, p)
  BY <1>10, <1>11 DEF Brings
<1> QED BY <1>8, <1>12

Static(a) == ToSet(StaticStages(a))
Dynamic(a) == ToSet(DynamicStages(a))

IsRequested(p, a, l) ==
  \/ ~ a.delete_bins /\ p = Out(l, "bin", "")
  \/ EmitLl(a) /\ \E s \in Static(a) \cup Dynamic(a) : p = Out(l, "ll", s)
  \/ EmitJson(a) /\ \E s \in Static(a) : p = Out(l, "static_json", s)
  \/ EmitJson(a) /\ \E s \in Dynamic(a) : p = Out(l, "dynamic_json", s)
  \/ EmitDot(a) /\ \E s \in Static(a) : p = Out(l, "static_dot", s)
  \/ EmitDot(a) /\ \E s \in Dynamic(a) : p = Out(l, "dynamic_dot", s)
  \/ EmitProfile(a) /\ \E s \in Dynamic(a) : p = Out(l, "log", s)
  \/ EmitStaticGraph(a) /\ RenderSvg(a) /\ \E s \in Static(a) : p = Out(l, "static_svg", s)
  \/ a.o /\ p = OutputOption
  \/ ~ a.o /\ EmitDynamicGraph(a) /\ RenderSvg(a)
       /\ \E s \in Dynamic(a) : p = Out(l, "dynamic_svg", s)

LEMMA RequestedCases ==
  ASSUME NEW a, NEW l, NEW p \in Requested(a, l)
  PROVE  IsRequested(p, a, l)
<1> DEFINE
      out(what, stages) == {Out(l, what, s) : s \in stages}
      A1 == IF a.delete_bins THEN {} ELSE {Out(l, "bin", "")}
      A2 == IF EmitLl(a) THEN out("ll", Static(a) \cup Dynamic(a)) ELSE {}
      A3 == IF EmitJson(a)
            THEN out("static_json", Static(a)) \cup out("dynamic_json", Dynamic(a)) ELSE {}
      A4 == IF EmitDot(a)
            THEN out("static_dot", Static(a)) \cup out("dynamic_dot", Dynamic(a)) ELSE {}
      A5 == IF EmitProfile(a) THEN out("log", Dynamic(a)) ELSE {}
      A6 == IF EmitStaticGraph(a) /\ ~ a.no_svg THEN out("static_svg", Static(a)) ELSE {}
      A7 == IF a.o THEN {OutputOption}
            ELSE IF EmitDynamicGraph(a) /\ ~ a.no_svg THEN out("dynamic_svg", Dynamic(a)) ELSE {}
<1>1. Requested(a, l) = UNION {A1, A2, A3, A4, A5, A6, A7}
  BY Zenon DEF Requested, Static, Dynamic
<1>2. /\ p \in A1 => IsRequested(p, a, l)
      /\ p \in A2 => IsRequested(p, a, l)
      /\ p \in A3 => IsRequested(p, a, l)
  BY DEF IsRequested
<1>3. /\ p \in A4 => IsRequested(p, a, l)
      /\ p \in A5 => IsRequested(p, a, l)
  BY DEF IsRequested
<1>4. /\ p \in A6 => IsRequested(p, a, l)
      /\ p \in A7 => IsRequested(p, a, l)
  BY DEF IsRequested, RenderSvg
<1> HIDE DEF A1, A2, A3, A4, A5, A6, A7
<1>5. \E A \in {A1, A2, A3, A4, A5, A6, A7} : p \in A
  BY <1>1
<1> QED BY <1>2, <1>3, <1>4, <1>5

LEMMA LlStagesAll ==
  ASSUME NEW a, NEW s \in (Static(a) \cup Dynamic(a)) \cap Each
  PROVE  s \in ToSet(LlStages(a))
<1> DEFINE first == When("after" \in Static(a) \cup Dynamic(a), <<"after">>)
           second == When("before" \in Static(a) \cup Dynamic(a), <<"before">>)
<1>1. LlStages(a) = first \o second
  BY DEF LlStages, Static, Dynamic
<1>2. /\ first = <<>> \/ first = <<"after">>
      /\ second = <<>> \/ second = <<"before">>
  BY DEF When
<1>3. CASE s = "after"
  <2>1. first = <<"after">>
    BY <1>3 DEF When
  <2> HIDE DEF first, second
  <2>2. LlStages(a)[1] = "after" /\ 1 \in DOMAIN LlStages(a)
    BY <1>1, <1>2, <2>1
  <2> QED BY <1>3, <2>2 DEF ToSet
<1>4. CASE s = "before"
  <2>1. second = <<"before">>
    BY <1>4 DEF When
  <2> HIDE DEF first, second
  <2>2. \E k \in DOMAIN LlStages(a) : LlStages(a)[k] = "before"
    <3>1. CASE first = <<>>
      <4>1. LlStages(a)[1] = "before" /\ 1 \in DOMAIN LlStages(a)
        BY <1>1, <2>1, <3>1
      <4> QED BY <4>1
    <3>2. CASE first = <<"after">>
      <4>1. LlStages(a)[2] = "before" /\ 2 \in DOMAIN LlStages(a)
        BY <1>1, <2>1, <3>2
      <4> QED BY <4>1
    <3> QED BY <1>2, <3>1, <3>2
  <2> QED BY <1>4, <2>2 DEF ToSet
<1> QED BY <1>3, <1>4 DEF Each

LEMMA StagesAreEach ==
  ASSUME NEW a \in Options
  PROVE  Static(a) \subseteq Each /\ Dynamic(a) \subseteq Each
<1>1. StaticStages(a) \in Seq(Each) /\ DynamicStages(a) \in Seq(Each)
  BY StagesType
<1>2. ASSUME NEW v \in Seq(Each) PROVE ToSet(v) \subseteq Each
  BY DEF ToSet
<1> QED BY <1>1, <1>2 DEF Static, Dynamic

\* The copies for each stage are among the parts of the work.
LEMMA CopiesBring ==
  ASSUME NEW a \in Options, NEW l
  PROVE  /\ EmitLl(a) => \A s \in Static(a) \cup Dynamic(a) : Brings(LlCopies(a, l), Out(l, "ll", s))
         /\ EmitJson(a) => \A s \in Static(a) : Brings(JsonCopies(a, l), Out(l, "static_json", s))
         /\ EmitJson(a) => \A s \in Dynamic(a) : Brings(JsonCopies(a, l), Out(l, "dynamic_json", s))
         /\ EmitProfile(a) => \A s \in Dynamic(a) : Brings(LogCopies(a, l), Out(l, "log", s))
         /\ ~ a.delete_bins => Brings(BinCopies(a, l), Out(l, "bin", ""))
<1>1. PICK W : W = WorkSteps(a, l)
  OBVIOUS
<1>2. StaticStages(a) \in Seq(Each) /\ DynamicStages(a) \in Seq(Each) /\ LlStages(a) \in Seq(Each)
  BY StagesType
<1>3. \A s \in Each : \A what \in Delivered : CopyOut(l, what, s) \in Seq(W)
  BY <1>1, EmittedType
<1>4. EmitLl(a) => \A s \in Static(a) \cup Dynamic(a) : Brings(LlCopies(a, l), Out(l, "ll", s))
  <2> SUFFICES ASSUME EmitLl(a), NEW s \in Static(a) \cup Dynamic(a)
               PROVE  Brings(LlCopies(a, l), Out(l, "ll", s))
    OBVIOUS
  <2>1. s \in ToSet(LlStages(a))
    BY StagesAreEach, LlStagesAll
  <2>2. "ll" \in Delivered
    BY DEF Delivered
  <2>3. LlCopies(a, l) = ForEach(LlStages(a), LAMBDA r : CopyOut(l, "ll", r))
    BY DEF LlCopies, When
  <2>4. Brings(ForEach(LlStages(a), LAMBDA r : CopyOut(l, "ll", r)), Out(l, "ll", s))
    BY <1>1, <1>2, <2>1, <2>2, EachBrings
  <2> QED BY <2>3, <2>4
<1>5. EmitProfile(a) => \A s \in Dynamic(a) : Brings(LogCopies(a, l), Out(l, "log", s))
  <2> SUFFICES ASSUME EmitProfile(a), NEW s \in Dynamic(a)
               PROVE  Brings(LogCopies(a, l), Out(l, "log", s))
    OBVIOUS
  <2>2. "log" \in Delivered /\ s \in ToSet(DynamicStages(a))
    BY DEF Delivered, Dynamic
  <2>3. LogCopies(a, l) = ForEach(DynamicStages(a), LAMBDA r : CopyOut(l, "log", r))
    BY DEF LogCopies, When
  <2>4. Brings(ForEach(DynamicStages(a), LAMBDA r : CopyOut(l, "log", r)), Out(l, "log", s))
    BY <1>1, <1>2, <2>2, EachBrings
  <2> QED BY <2>3, <2>4
<1>6. ASSUME EmitJson(a)
      PROVE  /\ \A s \in Static(a) : Brings(JsonCopies(a, l), Out(l, "static_json", s))
             /\ \A s \in Dynamic(a) : Brings(JsonCopies(a, l), Out(l, "dynamic_json", s))
  <2> DEFINE f == ForEach(StaticStages(a), LAMBDA r : CopyOut(l, "static_json", r))
             g == ForEach(DynamicStages(a), LAMBDA r : CopyOut(l, "dynamic_json", r))
  <2>1. f \in Seq(W) /\ g \in Seq(W)
    <3>1. ASSUME NEW what \in Delivered, NEW stages \in Seq(Each)
          PROVE  ForEach(stages, LAMBDA r : CopyOut(l, what, r)) \in Seq(W)
      <4> DEFINE ss == [k \in DOMAIN stages |-> CopyOut(l, what, stages[k])]
      <4>1. ss \in Seq(Seq(W))
        <5>1. \A k \in DOMAIN stages : CopyOut(l, what, stages[k]) \in Seq(W)
          BY <1>3
        <5> QED BY <5>1
      <4> HIDE DEF ss
      <4>2. FlattenSeq(ss) \in Seq(W)
        BY <4>1, FlattenType
      <4> QED BY <4>2 DEF ForEach, ss
    <3>2. "static_json" \in Delivered /\ "dynamic_json" \in Delivered
      BY DEF Delivered
    <3> QED BY <1>2, <3>1, <3>2
  <2>2. JsonCopies(a, l) = Join(f, g)
    BY <1>6 DEF JsonCopies, When, Join
  <2>3. \A s \in Static(a) : Brings(f, Out(l, "static_json", s))
    BY <1>1, <1>2, EachBrings DEF Delivered, Static
  <2>4. \A s \in Dynamic(a) : Brings(g, Out(l, "dynamic_json", s))
    BY <1>1, <1>2, EachBrings DEF Delivered, Dynamic
  <2> HIDE DEF f, g
  <2>5. \A p : Brings(f, p) \/ Brings(g, p) => Brings(Join(f, g), p)
    BY <2>1, BringsOfJoin
  <2> QED BY <2>2, <2>3, <2>4, <2>5
<1>7. ~ a.delete_bins => Brings(BinCopies(a, l), Out(l, "bin", ""))
  <2> SUFFICES ASSUME ~ a.delete_bins PROVE Brings(BinCopies(a, l), Out(l, "bin", ""))
    OBVIOUS
  <2>1. BinCopies(a, l) = Copy(Tmp(l, "bin", ""), Out(l, "bin", ""))
    BY DEF BinCopies, When, CopyOut
  <2>2. Brings(Copy(Tmp(l, "bin", ""), Out(l, "bin", "")), Out(l, "bin", ""))
    BY CopyBrings
  <2> QED BY <2>1, <2>2
<1> QED BY <1>4, <1>5, <1>6, <1>7

\* What is requested is in the output directories of the level, or at -o; the binary
\* is not deleted; and a plan that is not rejected copies it there.
LEMMA RequestedIsBrought ==
  ASSUME NEW a \in Options, NEW l, NEW p \in Requested(a, l)
  PROVE  /\ IsDestination(p, a, l)
         /\ a.delete_bins => p # Out(l, "bin", "")
         /\ ~ Rejected(a) => Brings(Plan(a, l), p)
<1>0. IsRequested(p, a, l)
  BY RequestedCases
<1>1. \A what, s : /\ Out(l, what, s)[1] = "out" /\ Out(l, what, s)[2] = l
                   /\ Out(l, what, s)[3] = what
  BY DEF Out, File
<1>2. \/ a.o /\ p = OutputOption
      \/ \E what, s : p = Out(l, what, s) /\ (what = "bin" => ~ a.delete_bins)
  <2>1. /\ "ll" # "bin" /\ "static_json" # "bin" /\ "dynamic_json" # "bin" /\ "static_dot" # "bin"
        /\ "dynamic_dot" # "bin" /\ "log" # "bin" /\ "static_svg" # "bin" /\ "dynamic_svg" # "bin"
    OBVIOUS
  <2> QED BY <1>0, <2>1, Zenon DEF IsRequested
<1>6. IsDestination(p, a, l)
  BY <1>1, <1>2 DEF IsDestination
<1>3. OutputOption[3] = "dynamic_svg"
  BY DEF OutputOption, File
<1>4. a.delete_bins => p # Out(l, "bin", "")
  <2>1. PICK q : q = Out(l, "bin", "")
    OBVIOUS
  <2>2. q[3] = "bin"
    BY <1>1, <2>1, Zenon
  <2>3. a.delete_bins => p # q
    BY <1>1, <1>2, <1>3, <2>2
  <2> QED BY <2>1, <2>3, Zenon
<1>5. ASSUME ~ Rejected(a) PROVE Brings(Plan(a, l), p)
  <2>1. /\ EmitDot(a) => \A s \in Static(a) : Brings(EmitStaticOutputs(a, l), Out(l, "static_dot", s))
        /\ EmitStaticGraph(a) /\ RenderSvg(a) =>
             \A s \in Static(a) : Brings(EmitStaticOutputs(a, l), Out(l, "static_svg", s))
    BY StaticOutputsBring DEF Static
  <2>2. /\ EmitDot(a) => \A s \in Dynamic(a) : Brings(EmitDynamicOutputs(a, l), Out(l, "dynamic_dot", s))
        /\ ~ a.o /\ EmitDynamicGraph(a) /\ RenderSvg(a) =>
             \A s \in Dynamic(a) : Brings(EmitDynamicOutputs(a, l), Out(l, "dynamic_svg", s))
    BY DynamicOutputsBring DEF Dynamic, DynamicSvgGoesTo
  <2>3. a.o => Brings(EmitDynamicOutputs(a, l), OutputOption)
    <3> SUFFICES ASSUME a.o PROVE Brings(EmitDynamicOutputs(a, l), OutputOption)
      OBVIOUS
    <3>1. EmitDynamicGraph(a)
      BY DEF EmitDynamicGraph
    <3>2. ~ a.no_svg /\ "after" \in ToSet(DynamicStages(a))
      BY <1>5, Zenon DEF Rejected
    <3>3. Brings(EmitDynamicOutputs(a, l), DynamicSvgGoesTo(a, l, "after"))
      BY <3>1, <3>2, DynamicOutputsBring DEF RenderSvg
    <3> QED BY <3>3 DEF DynamicSvgGoesTo
  <2>4. /\ EmitLl(a) => \A s \in Static(a) \cup Dynamic(a) : Brings(LlCopies(a, l), Out(l, "ll", s))
        /\ EmitJson(a) => \A s \in Static(a) : Brings(JsonCopies(a, l), Out(l, "static_json", s))
        /\ EmitJson(a) => \A s \in Dynamic(a) : Brings(JsonCopies(a, l), Out(l, "dynamic_json", s))
        /\ EmitProfile(a) => \A s \in Dynamic(a) : Brings(LogCopies(a, l), Out(l, "log", s))
        /\ ~ a.delete_bins => Brings(BinCopies(a, l), Out(l, "bin", ""))
    BY CopiesBring
  <2>5. \/ Brings(BinCopies(a, l), p) \/ Brings(LlCopies(a, l), p)
        \/ Brings(JsonCopies(a, l), p) \/ Brings(LogCopies(a, l), p)
        \/ Brings(EmitStaticOutputs(a, l), p) \/ Brings(EmitDynamicOutputs(a, l), p)
    BY <1>0, <2>1, <2>2, <2>3, <2>4, Zenon DEF IsRequested
  <2> QED BY <2>5, WorkBrings
<1> QED BY <1>4, <1>5, <1>6

(***************************************************************************)
(* What is requested of the level at work, and of those before it.         *)
(***************************************************************************)
LEMMA TailBrings ==
  ASSUME NEW t, NEW W, t \in Seq(W), t # <<>>, NEW p, Brings(t, p)
  PROVE  (Head(t).op = "copy" /\ p \in Head(t).to) \/ Brings(Tail(t), p)
<1>1. PICK n \in Nat : n = Len(t)
  OBVIOUS
<1>2. PICK k \in 1..n : t[k].op = "copy" /\ p \in t[k].to
  BY <1>1 DEF Brings
<1>3. PICK u : u = Tail(t)
  OBVIOUS
<1>4. Len(u) = n - 1 /\ Head(t) = t[1] /\ \A j \in 1..(n - 1) : u[j] = t[j + 1]
  BY <1>1, <1>3
<1>5. CASE k = 1
  BY <1>2, <1>4, <1>5
<1>6. CASE k # 1
  <2>1. k - 1 \in 1..(n - 1) /\ (k - 1) + 1 = k
    BY <1>1, <1>6
  <2>2. u[k - 1] = t[k]
    BY <1>4, <2>1
  <2>3. Brings(u, p)
    BY <1>2, <1>4, <2>1, <2>2 DEF Brings
  <2> QED BY <1>3, <2>3
<1> QED BY <1>5, <1>6

LEMMA InitComing ==
  Init => RequestedIsComing
<1> SUFFICES ASSUME Init, status = "running", NEW p \in Requested(args, Level)
             PROVE  Brings(todo, p)
  BY DEF RequestedIsComing
<1>1. ~ Rejected(args) /\ todo = Plan(args, Level) /\ args \in Options
  BY DriverAssumption DEF Init
<1> QED BY <1>1, RequestedIsBrought

LEMMA StepComing ==
  ASSUME IInv, LevelIsGiven, RequestedIsComing, [Next]_vars
  PROVE  RequestedIsComing'
<1>0. args \in Options
  BY LevelsOfRun
<1>1. CASE Advances /\ (Drops \/ Writes \/ Copies)
  <2>1. /\ args' = args /\ level' = level /\ status = "running" /\ todo # <<>>
        /\ todo' = Tail(todo)
    BY <1>1 DEF Advances, Done
  <2>2. Level' = Level
    BY <2>1, SameLevel
  <2> SUFFICES ASSUME NEW p \in Requested(args, Level)
               PROVE  IsThere(p)' \/ Brings(Tail(todo), p)
    BY <2>1, <2>2 DEF RequestedIsComing
  <2>3. /\ IsDestination(p, args, Level)
        /\ args.delete_bins => p # Out(Level, "bin", "")
    BY <1>0, RequestedIsBrought
  <2>4. ~ InTmp(p, Level)
    BY <2>3, PathsOfRun DEF InTmp
  <2>5. IsThere(p) \/ Brings(todo, p)
    BY <2>1 DEF RequestedIsComing
  <2>6. CASE IsThere(p)
    <3>1. CASE Drops
      <4>1. p \in DOMAIN files'
        BY <2>3, <2>4, <2>6, <3>1, Zenon DEF Drops, IsThere
      <4>2. files'[p] = files[p]
        BY <3>1, <4>1 DEF Drops
      <4> QED BY <2>6, <4>1, <4>2 DEF IsThere
    <3>2. CASE Writes
      BY <2>6, <3>2 DEF Writes, IsThere, IsNew
    <3>3. CASE Copies
      BY <2>6, <3>3 DEF Copies, IsThere, IsNew
    <3> QED BY <1>1, <3>1, <3>2, <3>3
  <2>7. CASE Brings(todo, p)
    <3>1. PICK W : todo \in Seq(W)
      BY <2>1, TodoIsSequence
    <3>2. (NextStep.op = "copy" /\ p \in NextStep.to) \/ Brings(Tail(todo), p)
      BY <2>1, <2>7, <3>1, TailBrings DEF NextStep
    <3>3. ASSUME NextStep.op = "copy", p \in NextStep.to PROVE IsThere(p)'
      <4>1. Copies
        BY <1>1, <3>3 DEF Drops, Writes
      <4> QED BY <3>3, <4>1 DEF Copies, IsThere, IsNew
    <3> QED BY <3>2, <3>3
  <2> QED BY <2>5, <2>6, <2>7
<1>2. CASE Stops
  BY <1>2 DEF Stops, RequestedIsComing
<1>3. CASE FinishLevel
  <2>1. args' = args /\ status = "running"
    BY <1>3 DEF FinishLevel
  <2>2. CASE level < Len(Levels)
    <3>1. todo' = Plan(args, Level') /\ ~ Rejected(args)
      BY <1>3, <2>1, <2>2 DEF FinishLevel, Level, Levels, LevelIsGiven
    <3>2. PICK l : l = Level'
      OBVIOUS
    <3>3. \A p \in Requested(args, l) : Brings(Plan(args, l), p)
      BY <1>0, <3>1, RequestedIsBrought
    <3> QED BY <2>1, <3>1, <3>2, <3>3 DEF RequestedIsComing
  <2>3. CASE ~ (level < Len(Levels))
    BY <1>3, <2>3 DEF FinishLevel, RequestedIsComing
  <2> QED BY <2>2, <2>3
<1>4. CASE UNCHANGED vars
  <2>1. /\ args' = args /\ level' = level /\ status' = status /\ todo' = todo /\ files' = files
    BY <1>4 DEF vars
  <2>2. Level' = Level
    BY <2>1, SameLevel
  <2> QED BY <2>1, <2>2 DEF RequestedIsComing, IsThere
<1> QED BY <1>1, <1>2, <1>3, <1>4, Effects

\* What was requested of a level before is in its output directories: with -o there
\* is only one level.
LEMMA RequestedBefore ==
  ASSUME IInv, LevelIsGiven, status # "rejected", NEW k \in 1..(level - 1),
         NEW p \in Requested(args, Levels[k])
  PROVE  p[1] = "out" /\ p[2] # Level /\ p # OutputOption
<1>0. args \in Options
  BY LevelsOfRun
<1>1. PICK n, m : n = Len(Levels) /\ m = level
  OBVIOUS
<1>2. n \in Nat /\ m \in 1..n
  BY <1>1, LevelsOfRun, Zenon DEF LevelIsGiven
<1>3. k \in 1..n /\ m \in 1..n /\ k # m /\ n > 1
  <2>1. k \in 1..(m - 1)
    BY <1>1
  <2> QED BY <1>2, <2>1
<1>4. ~ args.o
  <2> SUFFICES ASSUME args.o PROVE FALSE
    OBVIOUS
  <2>1. n = Len(NormalizeOptLevels(args.levels))
    BY <1>1, Zenon DEF Levels
  <2>2. Rejected(args)
    BY <1>3, <2>1, Zenon DEF Rejected
  <2> QED BY <2>2 DEF LevelIsGiven
<1>5. IsDestination(p, args, Levels[k])
  BY <1>0, RequestedIsBrought
<1>6. p[1] = "out" /\ p[2] = Levels[k]
  BY <1>4, <1>5 DEF IsDestination
<1>7. Levels[k] # Level
  BY <1>1, <1>3, LevelsOfRun DEF Distinct, Level
<1>8. OutputOption[1] = "-o"
  BY DEF OutputOption, File
<1> QED BY <1>6, <1>7, <1>8

LEMMA InitFinished ==
  Init => FinishedLevelsDelivered
<1> SUFFICES ASSUME Init, NEW k \in DOMAIN Levels, IsFinished(k) PROVE FALSE
  BY DEF FinishedLevelsDelivered
<1>1. level = 1 /\ status # "ok"
  BY DEF Init
<1>2. k \in 1..Len(Levels)
  BY InitInvariant, LevelsOfRun
<1> QED BY <1>1, <1>2 DEF IsFinished

LEMMA StepFinished ==
  ASSUME IInv, LevelIsGiven, FilesAreOfLevels, RequestedIsComing, FinishedLevelsDelivered,
         [Next]_vars
  PROVE  FinishedLevelsDelivered'
<1>0. level \in 1..Len(Levels) /\ Len(Levels) \in Nat /\ DOMAIN Levels = 1..Len(Levels)
  BY LevelsOfRun DEF LevelIsGiven
<1>1. ASSUME NEW k \in DOMAIN Levels, k < level, NEW p \in Requested(args, Levels[k]),
             status # "rejected"
      PROVE  /\ IsThere(p) /\ p[1] = "out" /\ p[2] # Level /\ p # OutputOption
             /\ ~ InTmp(p, Level) /\ p # Out(Level, "bin", "") /\ p \notin preserved
  <2>1. k \in 1..(level - 1)
    BY <1>0, <1>1
  <2>2. p[1] = "out" /\ p[2] # Level /\ p # OutputOption
    BY <1>1, <2>1, RequestedBefore
  <2>3. IsThere(p)
    BY <1>1 DEF FinishedLevelsDelivered, IsFinished, IsThere
  <2>4. Out(Level, "bin", "")[2] = Level
    BY Zenon, PathsOfLevel
  <2>5. p # Out(Level, "bin", "")
    BY <2>2, <2>4, Zenon
  <2>6. p \notin preserved
    BY <2>2 DEF FilesAreOfLevels, Mine
  <2>7. ~ InTmp(p, Level)
    BY <2>2 DEF InTmp
  <2> QED BY <2>2, <2>3, <2>5, <2>6, <2>7, Zenon
<1>2. ASSUME args' = args, level' = level, status' # "ok",
             \A k \in DOMAIN Levels : k < level => \A p \in Requested(args, Levels[k]) : IsThere(p)'
      PROVE  FinishedLevelsDelivered'
  <2>1. Levels' = Levels
    BY <1>2, SameLevel
  <2> SUFFICES ASSUME NEW k \in DOMAIN Levels, IsFinished(k)', NEW p \in Requested(args, Levels[k])
               PROVE  IsThere(p)'
    BY <1>2, <2>1 DEF FinishedLevelsDelivered, IsThere
  <2> QED BY <1>2 DEF IsFinished
<1>3. CASE Advances /\ (Drops \/ Writes \/ Copies)
  <2>1. args' = args /\ level' = level /\ status = "running" /\ status' # "ok"
    BY <1>3 DEF Advances, Done
  <2>2. ASSUME NEW k \in DOMAIN Levels, k < level, NEW p \in Requested(args, Levels[k])
        PROVE  IsThere(p)'
    <3>0. /\ IsThere(p) /\ p[1] = "out" /\ p[2] # Level /\ p # OutputOption
          /\ ~ InTmp(p, Level) /\ p # Out(Level, "bin", "") /\ p \notin preserved
      BY <1>1, <2>1, <2>2, Zenon
    <3>1. CASE Drops
      <4>1. p \in DOMAIN files'
        BY <3>0, <3>1, Zenon DEF Drops, IsThere
      <4>2. files'[p] = files[p] /\ files[p].fresh
        BY <3>0, <3>1, <4>1, Zenon DEF Drops, IsThere
      <4> QED BY <4>1, <4>2 DEF IsThere
    <3>4. IsThere(p)
      BY <3>0, Zenon
    <3>2. CASE Writes
      BY <3>2, <3>4 DEF Writes, IsThere, IsNew
    <3>3. CASE Copies
      BY <3>3, <3>4 DEF Copies, IsThere, IsNew
    <3> QED BY <1>3, <3>1, <3>2, <3>3
  <2> QED BY <1>2, <2>1, <2>2
<1>4. CASE Stops
  <2>1. args' = args /\ level' = level /\ status # "rejected" /\ status' # "ok"
    BY <1>4 DEF Stops
  <2>2. ASSUME NEW k \in DOMAIN Levels, k < level, NEW p \in Requested(args, Levels[k])
        PROVE  IsThere(p)'
    <3>0. /\ IsThere(p) /\ p[1] = "out" /\ p[2] # Level /\ p # OutputOption
          /\ ~ InTmp(p, Level) /\ p # Out(Level, "bin", "") /\ p \notin preserved
      BY <1>1, <2>1, <2>2, Zenon
    <3>1. p \in DOMAIN files'
      BY <1>4, <3>0, Zenon DEF Stops, IsThere
    <3>2. IsThere(p)
      BY <3>0, Zenon
    <3> QED BY <1>4, <3>1, <3>2 DEF Stops, IsThere, IsNew
  <2> QED BY <1>2, <2>1, <2>2
<1>5. CASE FinishLevel
  <2>1. args' = args /\ files' = files /\ status = "running" /\ todo = <<>>
    BY <1>5 DEF FinishLevel
  <2>2. Levels' = Levels
    BY <2>1 DEF Levels
  <2>3. \A p : IsThere(p) <=> IsThere(p)'
    BY <2>1 DEF IsThere
  <2>4. \A p : ~ Brings(todo, p)
    <3>1. Len(<<>>) = 0 /\ 1..0 = {}
      OBVIOUS
    <3> QED BY <2>1, <3>1 DEF Brings
  <2>5. \A p \in Requested(args, Levels[level]) : IsThere(p)
    BY <2>1, <2>4 DEF RequestedIsComing, Level
  <2>6. \A k \in DOMAIN Levels : k < level => \A p \in Requested(args, Levels[k]) : IsThere(p)
    BY DEF FinishedLevelsDelivered, IsFinished, IsThere
  <2>7. \A k \in DOMAIN Levels : IsFinished(k)' => k < level \/ k = level
    <3>1. (level' = level + 1 /\ status' # "ok") \/ level' = level
      BY <1>5, <2>1 DEF FinishLevel
    <3> QED BY <1>0, <3>1 DEF IsFinished
  <2> QED BY <2>1, <2>2, <2>3, <2>5, <2>6, <2>7 DEF FinishedLevelsDelivered, IsThere
<1>6. CASE UNCHANGED vars
  <2>1. args' = args /\ level' = level /\ status' = status /\ files' = files
    BY <1>6 DEF vars
  <2>2. Levels' = Levels
    BY <2>1, SameLevel
  <2> QED BY <2>1, <2>2 DEF FinishedLevelsDelivered, IsFinished
<1> QED BY <1>3, <1>4, <1>5, <1>6, Effects

(***************************************************************************)
(* The results.                                                            *)
(***************************************************************************)
LEMMA InitOutcome ==
  Init => OutcomeInv
BY InitInvariant, InitLevel, InitFiles, InitTodo, InitOfLevels, InitThere, InitCleared,
   InitComing, InitFinished DEF OutcomeInv

LEMMA StepOutcome ==
  OutcomeInv /\ [Next]_vars => OutcomeInv'
<1> SUFFICES ASSUME OutcomeInv, [Next]_vars PROVE OutcomeInv'
  OBVIOUS
<1>1. /\ IInv /\ LevelIsGiven /\ FilesAreTyped /\ TodoIsTyped
      /\ FilesAreOfLevels /\ CopiesAreRemembered /\ CopiesAreThere /\ TmpIsCleared
      /\ RequestedIsComing /\ FinishedLevelsDelivered
  BY DEF OutcomeInv
<1>2. IInv'
  BY <1>1, StepInvariant
<1>3. LevelIsGiven'
  BY <1>1, StepLevel
<1>4. /\ FilesAreTyped' /\ FilesAreOfLevels' /\ CopiesAreRemembered' /\ CopiesAreThere'
      /\ TmpIsCleared'
  BY <1>1, StepFiles, StepOfLevels, StepRemembered, StepThere, StepCleared
<1>5. TodoIsTyped'
  BY <1>1, <1>2, <1>3, StepTodo
<1>6. RequestedIsComing' /\ FinishedLevelsDelivered'
  BY <1>1, StepComing, StepFinished
<1> QED BY <1>2, <1>3, <1>4, <1>5, <1>6 DEF OutcomeInv

\* What a level asks for is there or still to be copied, what it has copied out is
\* remembered for the clean-up, and its plan ends with the removal of tmp: the
\* invariant that the results below rest on (main, copy_artifact).
THEOREM OutcomeInvariantHolds ==
  Spec => []OutcomeInv
BY InitOutcome, StepOutcome, PTL DEF Spec

\* The driver never touches a path but those of its levels and of -o, merges no graph
\* with a log of another module, and remembers nothing in tmp for the clean-up, for
\* every command line, all leftovers and all faults.
THEOREM DriverTypesHold ==
  Spec => []DriverTypeOK
<1>1. OutcomeInv => DriverTypeOK
  <2> SUFFICES ASSUME OutcomeInv PROVE DriverTypeOK
    OBVIOUS
  <2>1. /\ IInv /\ LevelIsGiven /\ FilesAreTyped /\ TodoIsTyped
    BY DEF OutcomeInv
  <2>2. \A p : PathOf(args, p) <=> /\ p[1] \in TmpPlaces \cup {"out", "-o"}
                                   /\ p[2] \in ToSet(Levels) \cup {""}
    BY Zenon DEF PathOf, Levels
  <2>3. /\ \A p \in DOMAIN files : PathOf(args, p) /\ files[p] \in Contents
        /\ \A p \in preserved : PathOf(args, p) /\ p[1] \notin TmpPlaces
    BY <2>1 DEF FilesAreTyped
  <2>4. \A k \in DOMAIN todo : \A p \in todo[k].from \cup todo[k].to : PathOf(args, p)
    BY <2>1 DEF TodoIsTyped
  <2>5. /\ args \in ArgSets /\ level \in DOMAIN Levels
        /\ status \in {"rejected", "running", "ok", "interrupted",
                       "failing", "unlinking", "error", "broken off"}
    BY <2>1 DEF IInv, LevelIsGiven
  <2> QED BY <2>2, <2>3, <2>4, <2>5, Zenon DEF DriverTypeOK, Contents
<1> QED BY <1>1, OutcomeInvariantHolds, PTL

\* Once a level is finished, all that was requested of it is in place, written by this
\* run: no later level, no clean-up after an error and no interrupt takes it away.
THEOREM RequestedIsDelivered ==
  Spec => []FinishedLevelsDelivered
<1>1. OutcomeInv => FinishedLevelsDelivered
  BY DEF OutcomeInv
<1> QED BY <1>1, OutcomeInvariantHolds, PTL

\* Whatever fails, a file that an earlier run left outside the tmp of the level at work
\* is only removed on demand: what the clean-up unlinks, wherever it breaks off, has
\* been made by this run.
THEOREM EarlierArtifactsSurvive ==
  Spec => OldArtifactsSurvive
<1> DEFINE Survive ==
      \A p \in DOMAIN files \ DOMAIN files' :
        \/ files[p].fresh
        \/ InTmp(p, Level)
        \/ (args.delete_bins /\ p = Out(Level, "bin", ""))
<1>1. ASSUME OutcomeInv, [Next]_vars PROVE Survive \/ UNCHANGED vars
  <2>1. IInv /\ CopiesAreThere
    BY <1>1 DEF OutcomeInv
  <2>2. CASE Drops
    BY <2>2, Zenon DEF Drops
  <2>3. CASE Writes \/ Copies
    <3>1. DOMAIN files \subseteq DOMAIN files'
      BY <2>3 DEF Writes, Copies
    <3> QED BY <3>1
  <2>4. CASE Stops
    <3>1. \A p \in preserved \cap DOMAIN files : files[p].fresh
      BY <2>1 DEF CopiesAreThere
    <3> QED BY <2>4, <3>1, Zenon DEF Stops
  <2>5. CASE FinishLevel
    BY <2>5 DEF FinishLevel
  <2> QED BY <1>1, <2>1, <2>2, <2>3, <2>4, <2>5, Effects
<1>2. OutcomeInv /\ [Next]_vars => [Survive]_vars
  BY <1>1
<1> HIDE DEF Survive
<1>3. Spec => [][Survive]_vars
  BY <1>2, InitOutcome, StepOutcome, PTL DEF Spec
<1> QED BY <1>3 DEF OldArtifactsSurvive, Survive

\* If copies are whole or not made, then after an error without --debug nothing of the
\* level at work is left, in tmp or among the outputs, if the clean-up comes to its end;
\* and if an error of its own ends it, what is left is in tmp or remembered as a copy,
\* and no copy is missing as long as there is something in tmp.  No finished level
\* leaves its tmp, unless --keep-tmp is given (cleanup_failed_run, maybe_cleanup_tmp).
THEOREM NothingIsLeftBehind ==
  ASSUME ~ CopyFaults
  PROVE  Spec => []NothingLeftBehind
<1> DEFINE
      InTheWay == status \in {"failing", "unlinking", "broken off"} =>
                    \A p \in DOMAIN files :
                      files[p].fresh /\ Mine(p) => InTmp(p, Level) \/ p \in preserved
      TmpFirst == status = "unlinking" => \A p \in DOMAIN files : ~ InTmp(p, Level)
      Untouched == status = "broken off" =>
                     (\A p \in DOMAIN files : ~ InTmp(p, Level)) \/ preserved \subseteq DOMAIN files
      CleanAfterError ==
        status = "error" /\ ~ args.debug =>
          \A p \in DOMAIN files : ~ InTmp(p, Level) /\ ~ (files[p].fresh /\ Mine(p))
      Left == InTheWay /\ TmpFirst /\ Untouched /\ CleanAfterError
<1>1. Init => Left
  BY DEF Init
<1>2. ASSUME OutcomeInv, Left, [Next]_vars PROVE Left'
  <2>1. IInv /\ CopiesAreRemembered /\ CopiesAreThere
    BY <1>2 DEF OutcomeInv
  <2>2. CASE Stops /\ CleansUp
    <3>1. /\ args' = args /\ level' = level /\ preserved' = preserved
          /\ status \in {"running", "failing", "unlinking"}
      BY <2>2 DEF Stops
    <3>2. Level' = Level /\ \A p : Mine(p)' <=> Mine(p)
      BY <3>1, SameLevel DEF Mine
    <3>3. \A p \in DOMAIN files' :
            (p \in DOMAIN files /\ files'[p] = files[p]) \/ (status = "running" /\ InTmp(p, Level))
      BY <2>2 DEF Stops
    <3>4. \A p \in DOMAIN files :
            files[p].fresh /\ Mine(p) => InTmp(p, Level) \/ p \in preserved
      BY <1>2, <2>1, <3>1 DEF CopiesAreRemembered
    <3>5. \A p \in DOMAIN files' :
            files'[p].fresh /\ Mine(p) => InTmp(p, Level) \/ p \in preserved
      BY <3>3, <3>4
    <3>6. InTheWay'
      BY <3>1, <3>2, <3>5
    <3>7. status = "unlinking" => \A p \in DOMAIN files' : ~ InTmp(p, Level)
      BY <1>2, <3>3
    <3>8. TmpFirst'
      BY <2>2, <3>1, <3>2 DEF CleansUp
    <3>9. Untouched'
      <4>1. status' = "broken off" => status \in {"failing", "unlinking"}
        BY <2>2, <3>1 DEF CleansUp
      <4>2. status = "failing" => preserved \subseteq DOMAIN files'
        <5>1. \A p \in preserved : ~ InTmp(p, Level)
          BY <2>1 DEF IInv, DriverInvariant, InTmp
        <5>2. status = "failing" => \A p \in DOMAIN files \ DOMAIN files' : InTmp(p, Level)
          <6>1. status = "failing" => status # "running" /\ status # "unlinking"
            OBVIOUS
          <6> QED BY <2>2, <6>1, Zenon DEF Stops
        <5> QED BY <2>1, <5>1, <5>2 DEF CopiesAreThere
      <4> QED BY <3>1, <3>2, <3>7, <4>1, <4>2
    <3>10. CleanAfterError'
      <4>1. status' = "error" /\ ~ args.debug =>
              status = "unlinking" /\ \A p \in DOMAIN files' : p \notin preserved
        BY <2>2, <3>1 DEF CleansUp
      <4> QED BY <3>1, <3>2, <3>5, <3>7, <4>1
    <3> QED BY <3>6, <3>8, <3>9, <3>10
  <2>3. CASE Advances
    BY <2>3 DEF Advances, Done
  <2>4. CASE FinishLevel
    BY <2>4 DEF FinishLevel
  <2>5. CASE UNCHANGED vars
    <3>1. /\ args' = args /\ level' = level /\ status' = status /\ files' = files
          /\ preserved' = preserved
      BY <2>5 DEF vars
    <3>2. Level' = Level /\ \A p : Mine(p)' <=> Mine(p)
      BY <3>1, SameLevel DEF Mine
    <3> QED BY <1>2, <3>1, <3>2
  <2> QED BY <1>2, <2>1, <2>2, <2>3, <2>4, <2>5, Effects
<1>3. ASSUME OutcomeInv, Left PROVE NothingLeftBehind
  <2>1. TmpIsCleared /\ IInv /\ LevelIsGiven
    BY <1>3 DEF OutcomeInv
  <2>2. ASSUME ~ args.keep_tmp, NEW k \in DOMAIN Levels, IsFinished(k)
        PROVE  \A p \in DOMAIN files : ~ InTmp(p, Levels[k])
    <3>1. k \in 1..(level - 1) \/ (k = level /\ status = "ok")
      <4>1. PICK n : n = Len(Levels)
        OBVIOUS
      <4>2. n \in Nat /\ k \in 1..n /\ level \in 1..n
        BY <2>1, <4>1, LevelsOfRun, Zenon DEF LevelIsGiven
      <4>3. k \in Nat /\ k >= 1 /\ level \in Nat
        BY <4>2
      <4> QED BY <2>2, <4>3 DEF IsFinished
    <3>2. Cleared(k)
      BY <2>1, <2>2, <3>1 DEF TmpIsCleared
    <3> QED BY <3>2 DEF Cleared
  <2>3. status = "error" /\ ~ args.debug =>
          \A p \in DOMAIN files :
            ~ InTmp(p, Level) /\ ~ (files[p].fresh /\ (p[2] = Level \/ p = OutputOption))
    BY <1>3 DEF Mine
  <2>4. status = "broken off" =>
          /\ \A p \in DOMAIN files :
               files[p].fresh /\ (p[2] = Level \/ p = OutputOption) =>
                 InTmp(p, Level) \/ p \in preserved
          /\ TmpFiles = {} \/ preserved \subseteq DOMAIN files
    BY <1>3 DEF Mine, TmpFiles
  <2> QED BY <2>2, <2>3, <2>4 DEF NothingLeftBehind
<1> HIDE DEF Left
<1> QED BY <1>1, <1>2, <1>3, InitOutcome, StepOutcome, PTL DEF Spec

------------------------------------------------------------------------------
(***************************************************************************)
(* A graph that is drawn is read, as it is, after it has been copied out.  *)
(***************************************************************************)
\* A step that parses a file, one that copies it, one after which it is another or
\* none.
Parses(step, x) == step.op \in {"dot", "svg"} /\ x \in step.from
Delivers(step, x) == step.op = "copy" /\ x \in step.from
Changes(step, x) == x \in step.to \/ step.op \in {"reset_tmp", "cleanup_tmp"}

\* Behind place i of the plan the file is parsed before it changes.
ParsedBehind(t, i, x) ==
  \E k \in (i + 1)..Len(t) : Parses(t[k], x) /\ \A j \in (i + 1)..(k - 1) : ~ Changes(t[j], x)
Awaited(t, x) == ParsedBehind(t, 0, x)

\* So it is behind each of its copies.
IsChecked(t, x) == \A i \in 1..Len(t) : Delivers(t[i], x) => ParsedBehind(t, i, x)

\* Parts of a plan that never change it, never copy it, or not behind a copy.
Leaves(t, x) == \A k \in 1..Len(t) : ~ Changes(t[k], x)
Keeps(t, x) == \A k \in 1..Len(t) : ~ Delivers(t[k], x)
Settles(t, x) ==
  \A i, j \in 1..Len(t) : Delivers(t[i], x) /\ j > i => ~ Changes(t[j], x)

LEMMA PartsAlone ==
  ASSUME NEW t, NEW x
  PROVE  /\ Keeps(t, x) => IsChecked(t, x) /\ Settles(t, x)
         /\ Leaves(t, x) => Settles(t, x)
BY DEF Keeps, IsChecked, Settles, Leaves

\* The elements of a join.
LEMMA JoinElements ==
  ASSUME NEW W, NEW v \in Seq(W), NEW w \in Seq(W), NEW u, u = Join(v, w)
  PROVE  /\ Len(v) \in Nat /\ Len(w) \in Nat /\ Len(u) = Len(v) + Len(w)
         /\ \A k \in 1..Len(v) : u[k] = v[k]
         /\ \A k \in 1..Len(w) : u[Len(v) + k] = w[k]
         /\ \A k \in 1..Len(u) : k \in 1..Len(v) \/ \E j \in 1..Len(w) : k = Len(v) + j
<1>1. PICK n, m : n = Len(v) /\ m = Len(w)
  OBVIOUS
<1>2. n \in Nat /\ m \in Nat /\ Len(u) = n + m
  BY <1>1 DEF Join
<1>3. \A k \in 1..n : u[k] = v[k]
  BY <1>1 DEF Join
<1>4. \A k \in 1..m : u[n + k] = w[k]
  BY <1>1 DEF Join
<1>5. ASSUME NEW k \in 1..(n + m), k \notin 1..n PROVE \E j \in 1..m : k = n + j
  <2>1. k - n \in 1..m /\ k = n + (k - n)
    BY <1>2, <1>5
  <2> QED BY <2>1
<1> QED BY <1>1, <1>2, <1>3, <1>4, <1>5

LEMMA ParsedInJoin ==
  ASSUME NEW W, NEW x
  PROVE  \A v, w \in Seq(W) :
           /\ \A i \in 0..Len(v) : ParsedBehind(v, i, x) => ParsedBehind(Join(v, w), i, x)
           /\ \A i \in 0..Len(w) :
                ParsedBehind(w, i, x) => ParsedBehind(Join(v, w), Len(v) + i, x)
           /\ \A i \in 0..Len(v) :
                (\A j \in (i + 1)..Len(v) : ~ Changes(v[j], x)) /\ Awaited(w, x)
                  => ParsedBehind(Join(v, w), i, x)
<1> SUFFICES ASSUME NEW v \in Seq(W), NEW w \in Seq(W), NEW u, u = Join(v, w)
             PROVE  /\ \A i \in 0..Len(v) : ParsedBehind(v, i, x) => ParsedBehind(u, i, x)
                    /\ \A i \in 0..Len(w) :
                         ParsedBehind(w, i, x) => ParsedBehind(u, Len(v) + i, x)
                    /\ \A i \in 0..Len(v) :
                         (\A j \in (i + 1)..Len(v) : ~ Changes(v[j], x)) /\ Awaited(w, x)
                           => ParsedBehind(u, i, x)
  OBVIOUS
<1>0. PICK n, m : n = Len(v) /\ m = Len(w)
  OBVIOUS
<1>1. /\ n \in Nat /\ m \in Nat /\ Len(u) = n + m
      /\ \A k \in 1..n : u[k] = v[k]
      /\ \A k \in 1..m : u[n + k] = w[k]
  BY <1>0, JoinElements
<1>2. ASSUME NEW i \in 0..n, ParsedBehind(v, i, x) PROVE ParsedBehind(u, i, x)
  <2>1. PICK k \in (i + 1)..n : Parses(v[k], x) /\ \A j \in (i + 1)..(k - 1) : ~ Changes(v[j], x)
    BY <1>0, <1>2 DEF ParsedBehind
  <2>2. k \in (i + 1)..(n + m) /\ k \in 1..n /\ \A j \in (i + 1)..(k - 1) : j \in 1..n
    BY <1>1, <2>1
  <2>3. Parses(u[k], x) /\ \A j \in (i + 1)..(k - 1) : ~ Changes(u[j], x)
    BY <1>1, <2>1, <2>2
  <2> QED BY <1>1, <2>2, <2>3 DEF ParsedBehind
<1>3. ASSUME NEW i \in 0..n, NEW r \in 0..m, ParsedBehind(w, r, x),
             \A j \in (i + 1)..(n + r) : ~ Changes(u[j], x)
      PROVE  ParsedBehind(u, i, x)
  <2>1. PICK k \in (r + 1)..m : Parses(w[k], x) /\ \A j \in (r + 1)..(k - 1) : ~ Changes(w[j], x)
    BY <1>0, <1>3 DEF ParsedBehind
  <2>2. n + k \in (i + 1)..(n + m) /\ k \in 1..m
    BY <1>1, <2>1
  <2>3. Parses(u[n + k], x)
    BY <1>1, <2>1, <2>2
  <2>4. ASSUME NEW j \in (i + 1)..(n + k - 1) PROVE ~ Changes(u[j], x)
    <3>1. CASE j <= n + r
      <4>1. j \in (i + 1)..(n + r)
        BY <1>1, <3>1
      <4> QED BY <1>3, <4>1
    <3>2. CASE ~ (j <= n + r)
      <4>1. j - n \in (r + 1)..(k - 1) /\ j - n \in 1..m /\ n + (j - n) = j
        BY <1>1, <2>1, <3>2
      <4>2. u[j] = w[j - n]
        BY <1>1, <4>1
      <4> QED BY <2>1, <4>1, <4>2
    <3> QED BY <3>1, <3>2
  <2> QED BY <1>1, <2>2, <2>3, <2>4 DEF ParsedBehind
<1>4. ASSUME NEW r \in 0..m, ParsedBehind(w, r, x) PROVE ParsedBehind(u, n + r, x)
  <2>1. PICK k \in (r + 1)..m : Parses(w[k], x) /\ \A j \in (r + 1)..(k - 1) : ~ Changes(w[j], x)
    BY <1>0, <1>4 DEF ParsedBehind
  <2>2. n + k \in (n + r + 1)..(n + m) /\ k \in 1..m
    BY <1>1, <2>1
  <2>3. Parses(u[n + k], x)
    BY <1>1, <2>1, <2>2
  <2>4. ASSUME NEW j \in (n + r + 1)..(n + k - 1) PROVE ~ Changes(u[j], x)
    <3>1. j - n \in (r + 1)..(k - 1) /\ j - n \in 1..m /\ n + (j - n) = j
      BY <1>1, <2>1
    <3>2. u[j] = w[j - n]
      BY <1>1, <3>1
    <3> QED BY <2>1, <3>1, <3>2
  <2> QED BY <1>1, <2>2, <2>3, <2>4 DEF ParsedBehind
<1>5. ASSUME NEW i \in 0..n, \A j \in (i + 1)..n : ~ Changes(v[j], x), Awaited(w, x)
      PROVE  ParsedBehind(u, i, x)
  <2>1. 0 \in 0..m /\ ParsedBehind(w, 0, x)
    BY <1>1, <1>5 DEF Awaited
  <2>2. \A j \in (i + 1)..(n + 0) : j \in (i + 1)..n /\ j \in 1..n
    BY <1>1
  <2>3. \A j \in (i + 1)..(n + 0) : ~ Changes(u[j], x)
    BY <1>1, <1>5, <2>2
  <2> QED BY <1>3, <2>1, <2>3
<1> QED BY <1>0, <1>2, <1>4, <1>5

\* What holds of the parts of a plan holds of it.
LEMMA OrderOfJoin ==
  ASSUME NEW W, NEW x
  PROVE  \A v, w \in Seq(W) :
           /\ Keeps(v, x) /\ Keeps(w, x) => Keeps(Join(v, w), x)
           /\ Leaves(v, x) /\ Leaves(w, x) => Leaves(Join(v, w), x)
           /\ Settles(v, x) /\ Leaves(w, x) => Settles(Join(v, w), x)
           /\ IsChecked(v, x) /\ IsChecked(w, x) => IsChecked(Join(v, w), x)
           /\ Settles(v, x) /\ Awaited(w, x) /\ IsChecked(w, x) => IsChecked(Join(v, w), x)
           /\ Awaited(v, x) => Awaited(Join(v, w), x)
           /\ Leaves(v, x) /\ Awaited(w, x) => Awaited(Join(v, w), x)
<1> SUFFICES ASSUME NEW v \in Seq(W), NEW w \in Seq(W), NEW u, u = Join(v, w)
             PROVE  /\ Keeps(v, x) /\ Keeps(w, x) => Keeps(u, x)
                    /\ Leaves(v, x) /\ Leaves(w, x) => Leaves(u, x)
                    /\ Settles(v, x) /\ Leaves(w, x) => Settles(u, x)
                    /\ IsChecked(v, x) /\ IsChecked(w, x) => IsChecked(u, x)
                    /\ Settles(v, x) /\ Awaited(w, x) /\ IsChecked(w, x) => IsChecked(u, x)
                    /\ Awaited(v, x) => Awaited(u, x)
                    /\ Leaves(v, x) /\ Awaited(w, x) => Awaited(u, x)
  OBVIOUS
<1>0. PICK n, m : n = Len(v) /\ m = Len(w)
  OBVIOUS
<1>1. /\ n \in Nat /\ m \in Nat /\ Len(u) = n + m
      /\ \A k \in 1..n : u[k] = v[k]
      /\ \A k \in 1..m : u[n + k] = w[k]
      /\ \A k \in 1..Len(u) : k \in 1..n \/ \E j \in 1..m : k = n + j
  BY <1>0, JoinElements
<1>2. /\ \A i \in 0..n : ParsedBehind(v, i, x) => ParsedBehind(u, i, x)
      /\ \A i \in 0..m : ParsedBehind(w, i, x) => ParsedBehind(u, n + i, x)
      /\ \A i \in 0..n : (\A j \in (i + 1)..n : ~ Changes(v[j], x)) /\ Awaited(w, x)
                           => ParsedBehind(u, i, x)
  BY <1>0, ParsedInJoin
<1>3. Keeps(v, x) /\ Keeps(w, x) => Keeps(u, x)
  <2> SUFFICES ASSUME Keeps(v, x), Keeps(w, x), NEW k \in 1..Len(u)
               PROVE  ~ Delivers(u[k], x)
    BY DEF Keeps
  <2>1. CASE k \in 1..n
    BY <1>0, <1>1, <2>1 DEF Keeps
  <2>2. CASE \E j \in 1..m : k = n + j
    BY <1>0, <1>1, <2>2 DEF Keeps
  <2> QED BY <1>1, <2>1, <2>2
<1>4. Leaves(v, x) /\ Leaves(w, x) => Leaves(u, x)
  BY <1>0, <1>1 DEF Leaves
<1>5. ASSUME Settles(v, x), Leaves(w, x) PROVE Settles(u, x)
  <2> SUFFICES ASSUME NEW i \in 1..Len(u), NEW j \in 1..Len(u), Delivers(u[i], x), j > i
               PROVE  ~ Changes(u[j], x)
    BY DEF Settles
  <2>1. CASE j \in 1..n
    <3>1. i \in 1..n
      BY <1>1, <2>1
    <3> QED BY <1>0, <1>1, <1>5, <2>1, <3>1 DEF Settles
  <2>2. ASSUME NEW k \in 1..m, j = n + k PROVE ~ Changes(u[j], x)
    BY <1>0, <1>1, <1>5, <2>2 DEF Leaves
  <2> QED BY <1>1, <2>1, <2>2
<1>6. ASSUME IsChecked(v, x), IsChecked(w, x) PROVE IsChecked(u, x)
  <2> SUFFICES ASSUME NEW i \in 1..Len(u), Delivers(u[i], x) PROVE ParsedBehind(u, i, x)
    BY DEF IsChecked
  <2>1. CASE i \in 1..n
    <3>1. i \in 0..n /\ Delivers(v[i], x)
      BY <1>1, <2>1
    <3> QED BY <1>0, <1>2, <1>6, <2>1, <3>1 DEF IsChecked
  <2>2. ASSUME NEW k \in 1..m, i = n + k PROVE ParsedBehind(u, i, x)
    <3>1. k \in 0..m /\ Delivers(w[k], x)
      BY <1>1, <2>2
    <3> QED BY <1>0, <1>2, <1>6, <2>2, <3>1 DEF IsChecked
  <2> QED BY <1>1, <2>1, <2>2
<1>7. ASSUME Settles(v, x), Awaited(w, x), IsChecked(w, x) PROVE IsChecked(u, x)
  <2> SUFFICES ASSUME NEW i \in 1..Len(u), Delivers(u[i], x) PROVE ParsedBehind(u, i, x)
    BY DEF IsChecked
  <2>1. CASE i \in 1..n
    <3>1. i \in 0..n /\ Delivers(v[i], x) /\ \A j \in (i + 1)..n : j \in 1..n /\ j > i
      BY <1>1, <2>1
    <3>2. \A j \in (i + 1)..n : ~ Changes(v[j], x)
      BY <1>0, <1>7, <2>1, <3>1 DEF Settles
    <3> QED BY <1>2, <1>7, <3>1, <3>2
  <2>2. ASSUME NEW k \in 1..m, i = n + k PROVE ParsedBehind(u, i, x)
    <3>1. k \in 0..m /\ Delivers(w[k], x)
      BY <1>1, <2>2
    <3> QED BY <1>0, <1>2, <1>7, <2>2, <3>1 DEF IsChecked
  <2> QED BY <1>1, <2>1, <2>2
<1>8. 0 \in 0..n
  BY <1>1
<1>9. Awaited(v, x) => Awaited(u, x)
  BY <1>2, <1>8 DEF Awaited
<1>10. ASSUME Leaves(v, x), Awaited(w, x) PROVE Awaited(u, x)
  <2>1. \A j \in (0 + 1)..n : ~ Changes(v[j], x)
    BY <1>0, <1>10 DEF Leaves
  <2>2. ParsedBehind(u, 0, x)
    BY <1>2, <1>8, <1>10, <2>1
  <2> QED BY <2>2 DEF Awaited
<1> QED BY <1>3, <1>4, <1>5, <1>6, <1>7, <1>9, <1>10

\* The files of some kinds, the steps that copy only some files, and those that write
\* only files of some kinds to tmp.
Files(l, kinds) == {Tmp(l, what, s) : what \in kinds, s \in Each \cup {NoStage}}
Copying(W, F) == {step \in W : step.op = "copy" => step.from \subseteq F}
Writing(W, kinds) ==
  {step \in W : /\ step.op \notin {"reset_tmp", "cleanup_tmp"}
                /\ \A p \in step.to : p[1] = "tmp" => p[3] \in kinds}

LEMMA PartsOfKind ==
  ASSUME NEW W, NEW t, NEW x
  PROVE  /\ \A F : t \in Seq(Copying(W, F)) /\ x \notin F => Keeps(t, x)
         /\ \A kinds : t \in Seq(Writing(W, kinds)) /\ x[1] = "tmp" /\ x[3] \notin kinds => Leaves(t, x)
<1>1. ASSUME NEW F, t \in Seq(Copying(W, F)), x \notin F PROVE Keeps(t, x)
  <2>1. \A k \in 1..Len(t) : t[k] \in Copying(W, F)
    BY <1>1
  <2> QED BY <1>1, <2>1 DEF Keeps, Delivers, Copying
<1>2. ASSUME NEW kinds, t \in Seq(Writing(W, kinds)), x[1] = "tmp", x[3] \notin kinds
      PROVE  Leaves(t, x)
  <2>1. \A k \in 1..Len(t) : t[k] \in Writing(W, kinds)
    BY <1>2
  <2> QED BY <1>2, <2>1 DEF Leaves, Changes, Writing
<1> QED BY <1>1, <1>2

LEMMA FileOfTmp ==
  ASSUME NEW l, NEW what, NEW s
  PROVE  /\ Tmp(l, what, s)[1] = "tmp" /\ Tmp(l, what, s)[2] = l
         /\ Tmp(l, what, s)[3] = what /\ Tmp(l, what, s)[4] = s
         /\ Out(l, what, s)[1] = "out" /\ Out(l, what, s)[2] = l
         /\ Out(l, what, s)[3] = what /\ Out(l, what, s)[4] = s
         /\ OutputOption[1] = "-o"
         /\ \A kinds : Tmp(l, what, s) \in Files(l, kinds) => what \in kinds
         /\ \A kinds : what \in kinds /\ s \in Each \cup {NoStage} => Tmp(l, what, s) \in Files(l, kinds)
<1>1. \A w, r : /\ Tmp(l, w, r)[1] = "tmp" /\ Tmp(l, w, r)[2] = l
                /\ Tmp(l, w, r)[3] = w /\ Tmp(l, w, r)[4] = r
                /\ Out(l, w, r)[1] = "out" /\ Out(l, w, r)[2] = l
                /\ Out(l, w, r)[3] = w /\ Out(l, w, r)[4] = r
  BY DEF Tmp, Out, File
<1>2. OutputOption[1] = "-o"
  BY DEF OutputOption, File
<1>3. ASSUME NEW kinds, Tmp(l, what, s) \in Files(l, kinds) PROVE what \in kinds
  <2>1. PICK w \in kinds, r \in Each \cup {NoStage} : Tmp(l, what, s) = Tmp(l, w, r)
    BY <1>3 DEF Files
  <2>2. what = w
    BY <1>1, <2>1
  <2> QED BY <2>2
<1>4. \A kinds : what \in kinds /\ s \in Each \cup {NoStage} => Tmp(l, what, s) \in Files(l, kinds)
  BY DEF Files
<1> QED BY <1>1, <1>2, <1>3, <1>4

\* A sequence for each stage, of which there are at most two.
LEMMA FlattenShort ==
  ASSUME NEW S, NEW ss \in Seq(Seq(S)), Len(ss) <= 2
  PROVE  \/ FlattenSeq(ss) = <<>> /\ Len(ss) = 0
         \/ FlattenSeq(ss) = ss[1] /\ Len(ss) = 1
         \/ FlattenSeq(ss) = Join(ss[1], ss[2]) /\ Len(ss) = 2
<1>1. Len(ss) \in {0, 1, 2}
  <2>1. PICK n \in Nat : n = Len(ss)
    OBVIOUS
  <2> QED BY <2>1
<1>2. CASE Len(ss) = 0
  <2>1. ss = <<>>
    BY <1>2, EmptySeq
  <2> QED BY <1>2, <2>1 DEF FlattenSeq
<1>3. CASE Len(ss) = 1
  BY <1>3, FlattenOne
<1>4. CASE Len(ss) = 2
  BY <1>4, FlattenTwo DEF Join
<1> QED BY <1>1, <1>2, <1>3, <1>4

LEMMA OrderOfStages ==
  ASSUME NEW W, NEW ss \in Seq(Seq(W)), Len(ss) <= 2, NEW x
  PROVE  /\ (\A k \in 1..Len(ss) : IsChecked(ss[k], x)) => IsChecked(FlattenSeq(ss), x)
         /\ (\A k \in 1..Len(ss) : Leaves(ss[k], x)) /\ (\E k \in 1..Len(ss) : Awaited(ss[k], x))
              => Awaited(FlattenSeq(ss), x)
<1>0. \A v, w \in Seq(W) :
        /\ IsChecked(v, x) /\ IsChecked(w, x) => IsChecked(Join(v, w), x)
        /\ Awaited(v, x) => Awaited(Join(v, w), x)
        /\ Leaves(v, x) /\ Awaited(w, x) => Awaited(Join(v, w), x)
  BY OrderOfJoin
<1>1. CASE FlattenSeq(ss) = <<>> /\ Len(ss) = 0
  <2>1. Len(<<>>) = 0 /\ 1..0 = {}
    OBVIOUS
  <2> QED BY <1>1, <2>1 DEF IsChecked
<1>2. CASE FlattenSeq(ss) = ss[1] /\ Len(ss) = 1
  <2>1. 1..1 = {1}
    OBVIOUS
  <2> QED BY <1>2, <2>1
<1>3. CASE FlattenSeq(ss) = Join(ss[1], ss[2]) /\ Len(ss) = 2
  <2>1. 1..2 = {1, 2}
    OBVIOUS
  <2>2. ss[1] \in Seq(W) /\ ss[2] \in Seq(W)
    BY <1>3
  <2> QED BY <1>0, <1>3, <2>1, <2>2
<1> QED BY <1>1, <1>2, <1>3, FlattenShort

\* What is emitted for a stage with an SVG: the JSON is parsed at once, the DOT behind
\* its copy.
IsDrawing(j, d, o, v, x, dot, y) ==
  /\ x = <<Step("dot", {j}, {d})>> /\ dot = <<Step("copy", {d}, {o})>>
  /\ y = <<Step("svg", {d}, {v})>>

LEMMA OrderOfEmission ==
  ASSUME NEW W, NEW j, NEW d, NEW o, NEW v, NEW svg \in Seq(W), NEW c \in BOOLEAN, NEW t,
         NEW x, NEW dot, NEW y,
         IsDrawing(j, d, o, v, x, dot, y), x \in Seq(W), dot \in Seq(W), y \in Seq(W),
         IsEmission(t, x, c, dot, TRUE, y, svg), d # o,
         NEW z, Keeps(svg, z)
  PROVE  /\ Awaited(t, j)
         /\ IsChecked(t, z)
<1>1. /\ Len(x) = 1 /\ x[1] = Step("dot", {j}, {d})
      /\ Len(dot) = 1 /\ dot[1] = Step("copy", {d}, {o})
      /\ Len(y) = 1 /\ y[1] = Step("svg", {d}, {v})
  BY DEF IsDrawing
<1>2. PICK u \in Seq(W) : u = When(c, dot)
  BY WhenType
<1>3. PICK w \in Seq(W) : w = Join(y, svg)
  BY JoinType
<1>4. t = Join(Join(x, u), w)
  BY <1>2, <1>3, Zenon DEF Join, IsEmission, When
<1>5. Join(x, u) \in Seq(W) /\ t = Join(x, Join(u, w)) /\ Join(u, w) \in Seq(W)
  <2>1. \A e, f \in Seq(W) : Join(e, f) \in Seq(W)
    BY JoinType
  <2>3. x \in Seq(W) /\ u \in Seq(W) /\ w \in Seq(W)
    BY <1>2, <1>3
  <2>4. Join(x, u) \in Seq(W) /\ Join(u, w) \in Seq(W)
    BY <2>1, <2>3, Zenon
  <2>5. Join(Join(x, u), w) = Join(x, Join(u, w))
    BY <2>3, JoinAssociative
  <2> QED BY <1>4, <2>4, <2>5
<1>6. \A e, f \in Seq(W) :
        /\ Keeps(e, z) /\ Keeps(f, z) => Keeps(Join(e, f), z)
        /\ IsChecked(e, z) /\ IsChecked(f, z) => IsChecked(Join(e, f), z)
        /\ Settles(e, z) /\ Awaited(f, z) /\ IsChecked(f, z) => IsChecked(Join(e, f), z)
        /\ Awaited(e, z) => Awaited(Join(e, f), z)
        /\ Awaited(e, j) => Awaited(Join(e, f), j)
  BY OrderOfJoin
<1>7. \A e : Len(e) = 1 => \A p : /\ Parses(e[1], p) => Awaited(e, p)
                                  /\ ~ Delivers(e[1], p) => Keeps(e, p)
                                  /\ Settles(e, p)
  <2> SUFFICES ASSUME NEW e, Len(e) = 1, NEW p
               PROVE  /\ Parses(e[1], p) => Awaited(e, p)
                      /\ ~ Delivers(e[1], p) => Keeps(e, p)
                      /\ Settles(e, p)
    OBVIOUS
  <2>1. 1..1 = {1} /\ 1 \in (0 + 1)..1 /\ (0 + 1)..(1 - 1) = {}
    OBVIOUS
  <2>2. Parses(e[1], p) => Awaited(e, p)
    BY <2>1 DEF Awaited, ParsedBehind
  <2>3. ~ Delivers(e[1], p) => Keeps(e, p)
    BY <2>1 DEF Keeps
  <2>4. Settles(e, p)
    BY <2>1 DEF Settles
  <2> QED BY <2>2, <2>3, <2>4
<1>8. /\ Parses(x[1], j) /\ Parses(y[1], d)
      /\ \A p : ~ Delivers(x[1], p) /\ ~ Delivers(y[1], p)
      /\ \A p : Delivers(dot[1], p) => p = d
  BY <1>1 DEF Parses, Delivers, Step
<1>9. Awaited(t, j)
  BY <1>1, <1>5, <1>6, <1>7, <1>8
<1>10. Keeps(x, z) /\ Keeps(y, z) /\ Keeps(w, z)
  BY <1>1, <1>3, <1>6, <1>7, <1>8
<1>11. IsChecked(x, z) /\ IsChecked(w, z)
  BY <1>10, PartsAlone
<1>12. IsChecked(Join(u, w), z)
  <2>1. CASE z = d /\ c
    <3>1. u = dot
      BY <1>2, <2>1 DEF When
    <3>2. Settles(u, z) /\ Awaited(w, z)
      BY <1>1, <1>3, <1>6, <1>7, <1>8, <2>1, <3>1
    <3> QED BY <1>2, <1>6, <1>11, <3>2
  <2>2. CASE z # d \/ ~ c
    <3>1. Keeps(u, z)
      <4>1. CASE c
        BY <1>1, <1>2, <1>7, <1>8, <2>2, <4>1 DEF When
      <4>2. CASE ~ c
        <5>1. u = <<>> /\ 1..0 = {}
          BY <1>2, <4>2 DEF When
        <5> QED BY <5>1 DEF Keeps
      <4> QED BY <4>1, <4>2
    <3> QED BY <1>2, <1>6, <1>11, <3>1, PartsAlone
  <2> QED BY <2>1, <2>2
<1>13. IsChecked(t, z)
  BY <1>5, <1>6, <1>11, <1>12
<1> QED BY <1>9, <1>13

\* The steps for a graph of a kind of Drawn: they write only its DOT and SVG to tmp and
\* copy nothing else.
Emitting(W, l, d) == Copying(W, Files(l, {d[2], d[3]})) \cap Writing(W, {d[2], d[3]})

LEMMA CopyOutOrder ==
  ASSUME NEW a, NEW l, NEW W, W = WorkSteps(a, l), NEW what \in Delivered, NEW s \in Each
  PROVE  /\ \A F : Tmp(l, what, s) \in F => CopyOut(l, what, s) \in Seq(Copying(W, F))
         /\ \A kinds : CopyOut(l, what, s) \in Seq(Writing(W, kinds))
<1>1. PICK step : step = Step("copy", {Tmp(l, what, s)}, {Out(l, what, s)})
  OBVIOUS
<1>2. step.op = "copy" /\ step.from = {Tmp(l, what, s)} /\ step.to = {Out(l, what, s)}
  BY <1>1 DEF Step
<1>3. CopyOut(l, what, s) = <<step>>
  BY <1>1 DEF CopyOut, Copy
<1>4. step \in W
  BY <1>1 DEF WorkSteps, StageSteps, Each
<1>5. Out(l, what, s)[1] = "out"
  BY FileOfTmp
<1>6. \A F : Tmp(l, what, s) \in F => step \in Copying(W, F)
  BY <1>2, <1>4 DEF Copying
<1>7. \A kinds : step \in Writing(W, kinds)
  BY <1>2, <1>4, <1>5 DEF Writing
<1> QED BY <1>3, <1>6, <1>7, ShortSequences

LEMMA EachCopies ==
  ASSUME NEW a, NEW l, NEW W, W = WorkSteps(a, l), NEW what \in Delivered,
         NEW stages \in Seq(Each), NEW ss, ss = [k \in DOMAIN stages |-> ss[k]],
         \A k \in DOMAIN stages : ss[k] = CopyOut(l, what, stages[k]),
         NEW F, \A s \in ToSet(stages) : Tmp(l, what, s) \in F
  PROVE  FlattenSeq(ss) \in Seq(Copying(W, F)) /\ FlattenSeq(ss) \in Seq(Writing(W, {}))
<1> DEFINE t == FlattenSeq(ss)
<1>1. /\ DOMAIN stages = 1..Len(stages) /\ Len(stages) \in Nat
      /\ \A k \in 1..Len(stages) : stages[k] \in Each /\ stages[k] \in ToSet(stages)
  BY DEF ToSet
<1>3. ASSUME NEW S, \A k \in 1..Len(stages) : CopyOut(l, what, stages[k]) \in Seq(S)
      PROVE  t \in Seq(S)
  <2>1. ss \in Seq(Seq(S))
    BY <1>1, <1>3
  <2> QED BY <2>1, FlattenType
<1> HIDE DEF t
<1>4. t \in Seq(Copying(W, F))
  <2>1. \A k \in 1..Len(stages) : CopyOut(l, what, stages[k]) \in Seq(Copying(W, F))
    BY <1>1, CopyOutOrder
  <2> QED BY <1>3, <2>1
<1>5. t \in Seq(Writing(W, {}))
  <2>1. \A k \in 1..Len(stages) : CopyOut(l, what, stages[k]) \in Seq(Writing(W, {}))
    BY <1>1, CopyOutOrder
  <2> QED BY <1>3, <2>1
<1> QED BY <1>4, <1>5 DEF t

LEMMA SequencesOfBoth ==
  ASSUME NEW A, NEW B, NEW t
  PROVE  t \in Seq(A \cap B) <=> t \in Seq(A) /\ t \in Seq(B)
<1>1. t \in Seq(A) /\ t \in Seq(B) => t \in Seq(A \cap B)
  <2> SUFFICES ASSUME t \in Seq(A), t \in Seq(B) PROVE t \in Seq(A \cap B)
    OBVIOUS
  <2>1. \A k \in 1..Len(t) : t[k] \in A /\ t[k] \in B
    OBVIOUS
  <2> QED BY <2>1
<1>2. t \in Seq(A \cap B) => t \in Seq(A) /\ t \in Seq(B)
  <2> SUFFICES ASSUME t \in Seq(A \cap B) PROVE t \in Seq(A) /\ t \in Seq(B)
    OBVIOUS
  <2>1. \A k \in 1..Len(t) : t[k] \in A /\ t[k] \in B
    OBVIOUS
  <2> QED BY <2>1
<1> QED BY <1>1, <1>2

\* The kinds of one graph are three.
LEMMA KindsOfDrawn ==
  ASSUME NEW d \in Drawn
  PROVE  /\ d[1] \in Delivered /\ d[2] \in Delivered /\ d[3] \in Delivered
         /\ d[1] # d[2] /\ d[1] # d[3] /\ d[2] # d[3]
BY DEF Drawn, Delivered

LEMMA EmittingSteps ==
  ASSUME NEW a, NEW l, NEW W, W = WorkSteps(a, l), NEW s \in Each, NEW d \in Drawn,
         NEW S, S = Emitting(W, l, d)
  PROVE  /\ <<Step("dot", {Tmp(l, d[1], s)}, {Tmp(l, d[2], s)})>> \in Seq(S)
         /\ <<Step("svg", {Tmp(l, d[2], s)}, {Tmp(l, d[3], s)})>> \in Seq(S)
         /\ CopyOut(l, d[2], s) \in Seq(S) /\ CopyOut(l, d[3], s) \in Seq(S)
<1>0. \A step \in S : <<step>> \in Seq(S)
  BY ShortSequences
<1>1. \A k \in {2, 3} : /\ Tmp(l, d[k], s) \in Files(l, {d[2], d[3]})
                        /\ Tmp(l, d[k], s)[3] = d[k]
  BY FileOfTmp
<1>2. ASSUME NEW step \in W, step.op \in {"dot", "svg"}, NEW k \in {2, 3}, step.to = {Tmp(l, d[k], s)}
      PROVE  step \in S
  BY <1>1, <1>2 DEF Emitting, Copying, Writing
<1>3. PICK step : step = Step("dot", {Tmp(l, d[1], s)}, {Tmp(l, d[2], s)})
  OBVIOUS
<1>4. step \in S
  <2>1. step.op = "dot" /\ step.to = {Tmp(l, d[2], s)}
    BY <1>3 DEF Step
  <2>2. step \in W
    BY <1>3 DEF WorkSteps, StageSteps, Each
  <2> QED BY <1>2, <2>1, <2>2
<1>5. PICK svg : svg = Step("svg", {Tmp(l, d[2], s)}, {Tmp(l, d[3], s)})
  OBVIOUS
<1>6. svg \in S
  <2>1. svg.op = "svg" /\ svg.to = {Tmp(l, d[3], s)}
    BY <1>5 DEF Step
  <2>2. svg \in W
    BY <1>5 DEF WorkSteps, StageSteps, Each
  <2> QED BY <1>2, <2>1, <2>2
<1>7. ASSUME NEW k \in {2, 3} PROVE CopyOut(l, d[k], s) \in Seq(S)
  <2>1. d[k] \in Delivered
    BY KindsOfDrawn
  <2>2. /\ CopyOut(l, d[k], s) \in Seq(Copying(W, Files(l, {d[2], d[3]})))
        /\ CopyOut(l, d[k], s) \in Seq(Writing(W, {d[2], d[3]}))
    BY <1>1, <2>1, CopyOutOrder
  <2> QED BY <2>2, SequencesOfBoth DEF Emitting
<1> QED BY <1>0, <1>3, <1>4, <1>5, <1>6, <1>7

\* One stage of one graph, with what is made of its SVG.
IsStage(l, s, d, x, dot, y) ==
  /\ x = <<Step("dot", {Tmp(l, d[1], s)}, {Tmp(l, d[2], s)})>>
  /\ dot = CopyOut(l, d[2], s)
  /\ y = <<Step("svg", {Tmp(l, d[2], s)}, {Tmp(l, d[3], s)})>>

LEMMA StageOrder ==
  ASSUME NEW a, NEW l, NEW W, W = WorkSteps(a, l), NEW s \in Each, NEW d \in Drawn,
         NEW S, S = Emitting(W, l, d), NEW svg \in Seq(S),
         \A r \in Each : Keeps(svg, Tmp(l, d[2], r)),
         NEW c \in BOOLEAN, NEW e \in BOOLEAN, NEW t, NEW x, NEW dot, NEW y,
         IsStage(l, s, d, x, dot, y), IsEmission(t, x, c, dot, e, y, svg)
  PROVE  /\ t \in Seq(S)
         /\ e => Awaited(t, Tmp(l, d[1], s)) /\ \A r \in Each : IsChecked(t, Tmp(l, d[2], r))
<1>1. x \in Seq(S) /\ dot \in Seq(S) /\ y \in Seq(S)
  BY EmittingSteps DEF IsStage
<1>2. t \in Seq(S)
  BY <1>1, EmissionBrings
<1>3. ASSUME e, NEW r \in Each
      PROVE  Awaited(t, Tmp(l, d[1], s)) /\ IsChecked(t, Tmp(l, d[2], r))
  <2>1. PICK j, f, o, v : /\ j = Tmp(l, d[1], s) /\ f = Tmp(l, d[2], s)
                          /\ o = Out(l, d[2], s) /\ v = Tmp(l, d[3], s)
    OBVIOUS
  <2>2. f # o
    BY <2>1, FileOfTmp
  <2>3. IsDrawing(j, f, o, v, x, dot, y)
    BY <2>1 DEF CopyOut, Copy, IsStage, IsDrawing
  <2>4. PICK z : z = Tmp(l, d[2], r) /\ Keeps(svg, z)
    BY <1>3
  <2>5. IsEmission(t, x, c, dot, TRUE, y, svg)
    BY <1>3 DEF IsEmission, When
  <2>6. Awaited(t, j) /\ IsChecked(t, z)
    BY <1>1, <2>2, <2>3, <2>4, <2>5, OrderOfEmission
  <2> QED BY <2>1, <2>4, <2>6
<1>4. "after" \in Each
  BY DEF Each
<1> QED BY <1>2, <1>3, <1>4

\* All its stages.
LEMMA StagesOrder ==
  ASSUME NEW W, NEW l, NEW d \in Drawn, NEW S, S = Emitting(W, l, d), NEW e \in BOOLEAN,
         NEW stages \in Seq(Each), Len(stages) <= 2, NEW ss, DOMAIN ss = DOMAIN stages,
         ss = [k \in DOMAIN ss |-> ss[k]],
         \A k \in 1..Len(stages) :
           /\ ss[k] \in Seq(S)
           /\ e => /\ Awaited(ss[k], Tmp(l, d[1], stages[k]))
                   /\ \A r \in Each : IsChecked(ss[k], Tmp(l, d[2], r))
  PROVE  /\ FlattenSeq(ss) \in Seq(S)
         /\ e => /\ \A r \in Each : IsChecked(FlattenSeq(ss), Tmp(l, d[2], r))
                 /\ \A s \in ToSet(stages) : Awaited(FlattenSeq(ss), Tmp(l, d[1], s))
<1>1. DOMAIN stages = 1..Len(stages) /\ Len(stages) \in Nat
  OBVIOUS
<1>2. ss \in Seq(Seq(S)) /\ Len(ss) = Len(stages) /\ Len(ss) <= 2
  BY <1>1
<1>3. FlattenSeq(ss) \in Seq(S)
  BY <1>2, FlattenType
<1>4. ASSUME e, NEW r \in Each PROVE IsChecked(FlattenSeq(ss), Tmp(l, d[2], r))
  <2>1. \A k \in 1..Len(ss) : IsChecked(ss[k], Tmp(l, d[2], r))
    BY <1>2, <1>4
  <2> QED BY <1>2, <2>1, OrderOfStages
<1>5. ASSUME e, NEW s \in ToSet(stages) PROVE Awaited(FlattenSeq(ss), Tmp(l, d[1], s))
  <2>1. PICK j \in 1..Len(stages) : s = stages[j]
    BY <1>1 DEF ToSet
  <2>2. Awaited(ss[j], Tmp(l, d[1], s))
    BY <1>5, <2>1
  <2>3. ASSUME NEW k \in 1..Len(ss) PROVE Leaves(ss[k], Tmp(l, d[1], s))
    <3>1. ss[k] \in Seq(Writing(W, {d[2], d[3]}))
      BY <1>2, <2>3, SequencesOfBoth DEF Emitting
    <3>2. Tmp(l, d[1], s)[1] = "tmp" /\ Tmp(l, d[1], s)[3] \notin {d[2], d[3]}
      BY FileOfTmp, KindsOfDrawn
    <3> QED BY <3>1, <3>2, PartsOfKind
  <2> QED BY <1>2, <2>1, <2>2, <2>3, OrderOfStages
<1> QED BY <1>3, <1>4, <1>5

\* What is emitted of the static graph, and of the dynamic one.
StaticKinds == <<"static_json", "static_dot", "static_svg">>
DynamicKinds == <<"dynamic_json", "dynamic_dot", "dynamic_svg">>

LEMMA KindsAreDrawn ==
  /\ StaticKinds \in Drawn /\ StaticKinds[1] = "static_json"
  /\ StaticKinds[2] = "static_dot" /\ StaticKinds[3] = "static_svg"
  /\ DynamicKinds \in Drawn /\ DynamicKinds[1] = "dynamic_json"
  /\ DynamicKinds[2] = "dynamic_dot" /\ DynamicKinds[3] = "dynamic_svg"
BY DEF StaticKinds, DynamicKinds, Drawn

LEMMA CopyKeeps ==
  ASSUME NEW from, NEW to, NEW x, x # from
  PROVE  Keeps(Copy(from, to), x)
<1>1. PICK step : step = Step("copy", {from}, {to})
  OBVIOUS
<1>2. step.from = {from}
  BY <1>1 DEF Step
<1>3. PICK t : t = Copy(from, to) /\ t = <<step>>
  BY <1>1 DEF Copy
<1>4. Len(t) = 1 /\ t[1] = step /\ 1..1 = {1}
  BY <1>3
<1> QED BY <1>2, <1>3, <1>4 DEF Keeps, Delivers

LEMMA StaticOrder ==
  ASSUME NEW a \in Options, NEW l, NEW W, W = WorkSteps(a, l),
         NEW d, d = StaticKinds, NEW S, S = Emitting(W, l, d), NEW t, t = EmitStaticOutputs(a, l)
  PROVE  /\ t \in Seq(S)
         /\ EmitStaticGraph(a) /\ RenderSvg(a) =>
              /\ \A r \in Each : IsChecked(t, Tmp(l, d[2], r))
              /\ \A s \in ToSet(StaticStages(a)) : Awaited(t, Tmp(l, d[1], s))
<1>0. d \in Drawn /\ d[1] = "static_json" /\ d[2] = "static_dot" /\ d[3] = "static_svg"
  BY KindsAreDrawn
<1>1. PICK stages \in Seq(Each) : stages = StaticStages(a) /\ Len(stages) <= 2
  BY StagesType
<1>2. PICK c \in BOOLEAN, e \in BOOLEAN : c = EmitDot(a) /\ e = (EmitStaticGraph(a) /\ RenderSvg(a))
  BY DEF EmitDot, EmitStaticGraph, RenderSvg, EmitFiles, EmitJson, EmitLl
<1> DEFINE ss == [k \in DOMAIN stages |-> StaticEmission(a, l, stages[k])]
<1>3. DOMAIN stages = 1..Len(stages) /\ \A k \in 1..Len(stages) : stages[k] \in Each
  OBVIOUS
<1>4. ASSUME NEW s \in Each
      PROVE  /\ StaticEmission(a, l, s) \in Seq(S)
             /\ e => /\ Awaited(StaticEmission(a, l, s), Tmp(l, d[1], s))
                     /\ \A r \in Each : IsChecked(StaticEmission(a, l, s), Tmp(l, d[2], r))
  <2>1. PICK x, dot, y, svg :
          /\ x = <<Step("dot", {Tmp(l, "static_json", s)}, {Tmp(l, "static_dot", s)})>>
          /\ dot = CopyOut(l, "static_dot", s)
          /\ y = <<Step("svg", {Tmp(l, "static_dot", s)}, {Tmp(l, "static_svg", s)})>>
          /\ svg = CopyOut(l, "static_svg", s)
    OBVIOUS
  <2>2. IsStage(l, s, d, x, dot, y)
    BY <1>0, <2>1, Zenon DEF IsStage
  <2>3. PICK t1 : t1 = StaticEmission(a, l, s)
    OBVIOUS
  <2>4. IsEmission(t1, x, c, dot, e, y, svg)
    BY <1>2, <2>1, <2>3, Zenon DEF StaticEmission, IsEmission
  <2>5. svg \in Seq(S)
    BY <1>0, <2>1, EmittingSteps
  <2>6. ASSUME NEW r \in Each PROVE Keeps(svg, Tmp(l, d[2], r))
    <3>1. Tmp(l, d[2], r) # Tmp(l, "static_svg", s)
      BY <1>0, FileOfTmp
    <3> QED BY <2>1, <3>1, CopyKeeps DEF CopyOut
  <2>7. /\ t1 \in Seq(S)
        /\ e => /\ Awaited(t1, Tmp(l, d[1], s))
                /\ \A r \in Each : IsChecked(t1, Tmp(l, d[2], r))
    BY <1>0, <2>2, <2>4, <2>5, <2>6, StageOrder
  <2> QED BY <2>3, <2>7
<1>5. /\ FlattenSeq(ss) \in Seq(S)
      /\ e => /\ \A r \in Each : IsChecked(FlattenSeq(ss), Tmp(l, d[2], r))
              /\ \A s \in ToSet(stages) : Awaited(FlattenSeq(ss), Tmp(l, d[1], s))
  <2>1. DOMAIN ss = DOMAIN stages /\ ss = [k \in DOMAIN ss |-> ss[k]]
    OBVIOUS
  <2>2. \A k \in 1..Len(stages) :
          /\ ss[k] \in Seq(S)
          /\ e => /\ Awaited(ss[k], Tmp(l, d[1], stages[k]))
                  /\ \A r \in Each : IsChecked(ss[k], Tmp(l, d[2], r))
    BY <1>3, <1>4
  <2> HIDE DEF ss
  <2> QED BY <1>0, <1>1, <2>1, <2>2, StagesOrder
<1>6. c \/ e => t = FlattenSeq(ss)
  BY <1>1, <1>2 DEF EmitStaticOutputs, ForEach, When, StaticEmission
<1>7. ~ (c \/ e) => t = <<>>
  BY <1>2 DEF EmitStaticOutputs, When
<1> HIDE DEF ss
<1> QED BY <1>1, <1>2, <1>5, <1>6, <1>7, ShortSequences

LEMMA DeliveryOrder ==
  ASSUME NEW a \in Options, NEW l, NEW W, W = WorkSteps(a, l), NEW s \in Each,
         NEW d, d = DynamicKinds, NEW S, S = Emitting(W, l, d), NEW svg, svg = DynamicDelivery(a, l, s)
  PROVE  svg \in Seq(S) /\ \A r \in Each : Keeps(svg, Tmp(l, d[2], r))
<1>0. d \in Drawn /\ d[2] = "dynamic_dot" /\ d[3] = "dynamic_svg"
  BY KindsAreDrawn
<1>1. ASSUME NEW to, svg = Copy(Tmp(l, "dynamic_svg", s), to),
             Step("copy", {Tmp(l, "dynamic_svg", s)}, {to}) \in W, to[1] # "tmp"
      PROVE  svg \in Seq(S) /\ \A r \in Each : Keeps(svg, Tmp(l, d[2], r))
  <2>1. PICK step \in W : step = Step("copy", {Tmp(l, "dynamic_svg", s)}, {to})
    BY <1>1
  <2>2. step.op = "copy" /\ step.from = {Tmp(l, "dynamic_svg", s)} /\ step.to = {to}
    BY <2>1 DEF Step
  <2>3. Tmp(l, "dynamic_svg", s) \in Files(l, {d[2], d[3]})
    BY <1>0, FileOfTmp
  <2>4. step \in S
    BY <1>1, <2>2, <2>3 DEF Emitting, Copying, Writing
  <2>5. svg \in Seq(S)
    BY <1>1, <2>1, <2>4, ShortSequences DEF Copy
  <2>6. ASSUME NEW r \in Each PROVE Keeps(svg, Tmp(l, d[2], r))
    <3>1. Tmp(l, d[2], r) # Tmp(l, "dynamic_svg", s)
      BY <1>0, FileOfTmp
    <3> QED BY <1>1, <3>1, CopyKeeps
  <2> QED BY <2>5, <2>6
<1>2. ASSUME NEW o, DynamicSvgDestinations(a, l, s) = <<o>>
      PROVE  svg = Copy(Tmp(l, "dynamic_svg", s), o)
  <2> DEFINE copies == [k \in DOMAIN <<o>> |-> Copy(Tmp(l, "dynamic_svg", s), <<o>>[k])]
  <2>1. Len(copies) = 1 /\ copies[1] = Copy(Tmp(l, "dynamic_svg", s), o)
    OBVIOUS
  <2>2. FlattenSeq(copies) = Copy(Tmp(l, "dynamic_svg", s), o)
    <3> HIDE DEF copies
    <3> QED BY <2>1, FlattenOne
  <2> QED BY <1>2, <2>2 DEF DynamicDelivery, ForEach
<1>3. CASE ~ a.o
  <2>1. svg = Copy(Tmp(l, "dynamic_svg", s), Out(l, "dynamic_svg", s))
    BY <1>2, <1>3 DEF DynamicSvgDestinations
  <2>2. Step("copy", {Tmp(l, "dynamic_svg", s)}, {Out(l, "dynamic_svg", s)}) \in W
    BY DEF WorkSteps, StageSteps, Each, Delivered
  <2>3. Out(l, "dynamic_svg", s)[1] # "tmp"
    BY FileOfTmp
  <2> QED BY <1>1, <2>1, <2>2, <2>3
<1>4. CASE a.o /\ s = "after"
  <2>1. svg = Copy(Tmp(l, "dynamic_svg", s), OutputOption)
    BY <1>2, <1>4 DEF DynamicSvgDestinations
  <2>2. Step("copy", {Tmp(l, "dynamic_svg", s)}, {OutputOption}) \in W
    BY <1>4 DEF WorkSteps, LevelSteps
  <2>3. OutputOption[1] # "tmp"
    BY FileOfTmp
  <2> QED BY <1>1, <2>1, <2>2, <2>3
<1>5. CASE a.o /\ s # "after"
  <2>1. svg = <<>>
    BY <1>5 DEF DynamicDelivery, ForEach, FlattenSeq, DynamicSvgDestinations
  <2>2. 1..Len(<<>>) = {}
    OBVIOUS
  <2> QED BY <2>1, <2>2, ShortSequences DEF Keeps
<1> QED BY <1>3, <1>4, <1>5

LEMMA DynamicOrder ==
  ASSUME NEW a \in Options, NEW l, NEW W, W = WorkSteps(a, l),
         NEW d, d = DynamicKinds, NEW S, S = Emitting(W, l, d), NEW t, t = EmitDynamicOutputs(a, l)
  PROVE  /\ t \in Seq(S)
         /\ EmitDynamicGraph(a) /\ RenderSvg(a) =>
              /\ \A r \in Each : IsChecked(t, Tmp(l, d[2], r))
              /\ \A s \in ToSet(DynamicStages(a)) : Awaited(t, Tmp(l, d[1], s))
<1>0. d \in Drawn /\ d[1] = "dynamic_json" /\ d[2] = "dynamic_dot" /\ d[3] = "dynamic_svg"
  BY KindsAreDrawn
<1>1. PICK stages \in Seq(Each) : stages = DynamicStages(a) /\ Len(stages) <= 2
  BY StagesType
<1>2. PICK c \in BOOLEAN, e \in BOOLEAN : c = EmitDot(a) /\ e = (EmitDynamicGraph(a) /\ RenderSvg(a))
  BY DEF EmitDot, EmitDynamicGraph, RenderSvg
<1> DEFINE ss == [k \in DOMAIN stages |-> DynamicEmission(a, l, stages[k])]
<1>3. DOMAIN stages = 1..Len(stages) /\ \A k \in 1..Len(stages) : stages[k] \in Each
  OBVIOUS
<1>4. ASSUME NEW s \in Each
      PROVE  /\ DynamicEmission(a, l, s) \in Seq(S)
             /\ e => /\ Awaited(DynamicEmission(a, l, s), Tmp(l, d[1], s))
                     /\ \A r \in Each : IsChecked(DynamicEmission(a, l, s), Tmp(l, d[2], r))
  <2>1. PICK x, dot, y, svg :
          /\ x = <<Step("dot", {Tmp(l, "dynamic_json", s)}, {Tmp(l, "dynamic_dot", s)})>>
          /\ dot = CopyOut(l, "dynamic_dot", s)
          /\ y = <<Step("svg", {Tmp(l, "dynamic_dot", s)}, {Tmp(l, "dynamic_svg", s)})>>
          /\ svg = DynamicDelivery(a, l, s)
    OBVIOUS
  <2>2. IsStage(l, s, d, x, dot, y)
    BY <1>0, <2>1, Zenon DEF IsStage
  <2>3. PICK t1 : t1 = DynamicEmission(a, l, s)
    OBVIOUS
  <2>4. IsEmission(t1, x, c, dot, e, y, svg)
    BY <1>2, <2>1, <2>3, Zenon DEF DynamicEmission, IsEmission
  <2>5. svg \in Seq(S) /\ \A r \in Each : Keeps(svg, Tmp(l, d[2], r))
    BY <2>1, DeliveryOrder
  <2>6. /\ t1 \in Seq(S)
        /\ e => /\ Awaited(t1, Tmp(l, d[1], s))
                /\ \A r \in Each : IsChecked(t1, Tmp(l, d[2], r))
    BY <1>0, <2>2, <2>4, <2>5, StageOrder
  <2> QED BY <2>3, <2>6
<1>5. /\ FlattenSeq(ss) \in Seq(S)
      /\ e => /\ \A r \in Each : IsChecked(FlattenSeq(ss), Tmp(l, d[2], r))
              /\ \A s \in ToSet(stages) : Awaited(FlattenSeq(ss), Tmp(l, d[1], s))
  <2>1. DOMAIN ss = DOMAIN stages /\ ss = [k \in DOMAIN ss |-> ss[k]]
    OBVIOUS
  <2>2. \A k \in 1..Len(stages) :
          /\ ss[k] \in Seq(S)
          /\ e => /\ Awaited(ss[k], Tmp(l, d[1], stages[k]))
                  /\ \A r \in Each : IsChecked(ss[k], Tmp(l, d[2], r))
    BY <1>3, <1>4
  <2> HIDE DEF ss
  <2> QED BY <1>0, <1>1, <2>1, <2>2, StagesOrder
<1>6. c \/ e => t = FlattenSeq(ss)
  BY <1>1, <1>2 DEF EmitDynamicOutputs, ForEach, When, DynamicEmission, DynamicDelivery
<1>7. ~ (c \/ e) => t = <<>>
  BY <1>2 DEF EmitDynamicOutputs, When
<1> HIDE DEF ss
<1> QED BY <1>1, <1>2, <1>5, <1>6, <1>7, ShortSequences

\* The work of a level before the graphs are drawn: the JSONs it copies are those of
\* the stages asked for, and from its first copy of a JSON on it writes nothing to tmp.
JsonsOf(a, l) ==
  {Tmp(l, "static_json", s) : s \in ToSet(StaticStages(a))}
    \cup {Tmp(l, "dynamic_json", s) : s \in ToSet(DynamicStages(a))}

LEMMA ProfilingCopies ==
  ASSUME NEW a \in Options, NEW l, NEW W, W = WorkSteps(a, l), NEW F
  PROVE  /\ ExecClang(l, "base") \in Seq(Copying(W, F))
         /\ ProfileSteps(a, l) \in Seq(Copying(W, F))
<1> DEFINE C == Copying(W, F)
<1>1. PICK dynamic \in Seq(Each) : dynamic = DynamicStages(a) /\ Len(dynamic) <= 2
  BY StagesType
<1>2. ASSUME NEW step \in W, step.op # "copy" PROVE <<step>> \in Seq(C)
  <2>1. step \in C
    BY <1>2 DEF Copying
  <2> HIDE DEF C
  <2> QED BY <2>1, ShortSequences
<1>3. ASSUME NEW v \in Variants PROVE ExecClang(l, v) \in Seq(C)
  <2>1. PICK step : step = Step(v, {}, Dumps(l, v) \cup {Binary(l, v)})
    OBVIOUS
  <2>2. step \in W
    BY <2>1 DEF WorkSteps, Compilations
  <2>3. step.op # "copy"
    BY <2>1 DEF Step, Variants
  <2> QED BY <1>2, <2>1, <2>2, <2>3 DEF ExecClang
<1>4. ASSUME NEW s \in Each
      PROVE  RunInstrumentedProgram(l, s) \in Seq(C) /\ MergeDynamicProfile(l, s) \in Seq(C)
  <2>1. PICK run, merge :
          /\ run = Step("run", {Binary(l, s)}, {Tmp(l, "log", s)})
          /\ merge = Step("merge", {Tmp(l, "static_json", s), Tmp(l, "log", s)},
                          {Tmp(l, "dynamic_json", s)})
    OBVIOUS
  <2>2. run \in W /\ merge \in W
    BY <2>1 DEF WorkSteps, StageSteps, Each
  <2>3. run.op # "copy" /\ merge.op # "copy"
    BY <2>1 DEF Step
  <2>4. <<run>> \in Seq(C) /\ <<merge>> \in Seq(C)
    BY <1>2, <2>2, <2>3
  <2> QED BY <2>1, <2>4 DEF RunInstrumentedProgram, MergeDynamicProfile
<1> HIDE DEF C
<1> DEFINE ss == [k \in DOMAIN dynamic |->
                    ExecClang(l, dynamic[k]) \o RunInstrumentedProgram(l, dynamic[k])
                      \o MergeDynamicProfile(l, dynamic[k])]
<1>5. ASSUME NEW k \in DOMAIN dynamic PROVE ss[k] \in Seq(C)
  <2>1. dynamic[k] \in Each /\ dynamic[k] \in Variants
    BY DEF Each, Variants
  <2> QED BY <1>3, <1>4, <2>1
<1>6. FlattenSeq(ss) \in Seq(C)
  <2>1. ss = [k \in DOMAIN dynamic |-> ss[k]]
    OBVIOUS
  <2> HIDE DEF ss
  <2> QED BY <1>1, <1>5, <2>1, ForEachType
<1>7. ProfileSteps(a, l) \in Seq(C)
  <2>1. NeedsDynamicPipeline(a) \in BOOLEAN
    BY DEF NeedsDynamicPipeline
  <2> QED BY <1>1, <1>6, <2>1, WhenType DEF ProfileSteps, ForEach
<1>8. ExecClang(l, "base") \in Seq(C)
  BY <1>3 DEF Variants
<1> QED BY <1>7, <1>8 DEF C

LEMMA FirstCopies ==
  ASSUME NEW a \in Options, NEW l, NEW W, W = WorkSteps(a, l)
  PROVE  /\ BinCopies(a, l) \in Seq(Copying(W, Files(l, {"bin"})))
         /\ LlCopies(a, l) \in Seq(Copying(W, Files(l, {"ll"})))
         /\ LogCopies(a, l) \in Seq(Copying(W, Files(l, {"log"}))) \cap Seq(Writing(W, {}))
         /\ JsonCopies(a, l) \in Seq(Copying(W, JsonsOf(a, l))) \cap Seq(Writing(W, {}))
<1>1. /\ StaticStages(a) \in Seq(Each) /\ DynamicStages(a) \in Seq(Each)
      /\ LlStages(a) \in Seq(Each)
  BY StagesType
<1>0. {"log", "static_json", "dynamic_json"} \subseteq Delivered
  BY DEF Delivered
<1>2. ASSUME NEW what \in {"ll", "log"}, NEW s \in Each PROVE Tmp(l, what, s) \in Files(l, {what})
  BY FileOfTmp
<1>3. \A stages \in Seq(Each) : \A s \in ToSet(stages) : s \in Each
  BY DEF ToSet
<1>4. BinCopies(a, l) \in Seq(Copying(W, Files(l, {"bin"})))
  <2>1. PICK step : step = Step("copy", {Tmp(l, "bin", NoStage)}, {Out(l, "bin", NoStage)})
    OBVIOUS
  <2>2. ~ a.delete_bins => step \in W
    BY <2>1 DEF WorkSteps, LevelSteps, NoStage
  <2>3. Tmp(l, "bin", NoStage) \in Files(l, {"bin"})
    BY FileOfTmp
  <2>4. step.from = {Tmp(l, "bin", NoStage)}
    BY <2>1 DEF Step
  <2>5. ~ a.delete_bins => step \in Copying(W, Files(l, {"bin"}))
    BY <2>2, <2>3, <2>4 DEF Copying
  <2>6. CopyOut(l, "bin", NoStage) = <<step>>
    BY <2>1 DEF CopyOut, Copy
  <2>7. BinCopies(a, l) = When(~ a.delete_bins, <<step>>)
    BY <2>6 DEF BinCopies, NoStage
  <2>8. (~ a.delete_bins) \in BOOLEAN
    OBVIOUS
  <2> QED BY <2>5, <2>7, <2>8, ShortSequences, WhenType
<1>5. LlCopies(a, l) \in Seq(Copying(W, Files(l, {"ll"})))
  <2>1. PICK t : t = ForEach(LlStages(a), LAMBDA s : CopyOut(l, "ll", s))
    OBVIOUS
  <2>2. t \in Seq(Copying(W, Files(l, {"ll"})))
    <3>1. PICK stages \in Seq(Each) : stages = LlStages(a)
      BY <1>1
    <3>2. PICK ss : /\ ss = [k \in DOMAIN stages |-> CopyOut(l, "ll", stages[k])]
                    /\ t = FlattenSeq(ss)
      BY <2>1, <3>1 DEF ForEach
    <3>3. /\ ss = [k \in DOMAIN stages |-> ss[k]]
          /\ \A k \in DOMAIN stages : ss[k] = CopyOut(l, "ll", stages[k])
      BY <3>2
    <3>4. \A s \in ToSet(stages) : Tmp(l, "ll", s) \in Files(l, {"ll"})
      BY <1>2, <1>3
    <3>5. "ll" \in Delivered
      BY DEF Delivered
    <3> QED BY <3>2, <3>3, <3>4, <3>5, EachCopies
  <2> QED BY <2>1, <2>2, ShortSequences DEF LlCopies, When
<1>6. LogCopies(a, l) \in Seq(Copying(W, Files(l, {"log"}))) \cap Seq(Writing(W, {}))
  <2>1. PICK t : t = ForEach(DynamicStages(a), LAMBDA s : CopyOut(l, "log", s))
    OBVIOUS
  <2>2. t \in Seq(Copying(W, Files(l, {"log"}))) /\ t \in Seq(Writing(W, {}))
    <3>1. PICK stages \in Seq(Each) : stages = DynamicStages(a)
      BY <1>1
    <3>2. PICK ss : /\ ss = [k \in DOMAIN stages |-> CopyOut(l, "log", stages[k])]
                    /\ t = FlattenSeq(ss)
      BY <2>1, <3>1 DEF ForEach
    <3>3. /\ ss = [k \in DOMAIN stages |-> ss[k]]
          /\ \A k \in DOMAIN stages : ss[k] = CopyOut(l, "log", stages[k])
      BY <3>2
    <3>4. \A s \in ToSet(stages) : Tmp(l, "log", s) \in Files(l, {"log"})
      BY <1>2, <1>3
    <3> QED BY <1>0, <3>2, <3>3, <3>4, EachCopies
  <2> QED BY <2>1, <2>2, ShortSequences DEF LogCopies, When
<1>7. JsonCopies(a, l) \in Seq(Copying(W, JsonsOf(a, l))) \cap Seq(Writing(W, {}))
  <2>1. PICK t, u : /\ t = ForEach(StaticStages(a), LAMBDA s : CopyOut(l, "static_json", s))
                    /\ u = ForEach(DynamicStages(a), LAMBDA s : CopyOut(l, "dynamic_json", s))
    OBVIOUS
  <2>2. t \in Seq(Copying(W, JsonsOf(a, l))) /\ t \in Seq(Writing(W, {}))
    <3>1. PICK stages \in Seq(Each) : stages = StaticStages(a)
      BY <1>1
    <3>2. PICK ss : /\ ss = [k \in DOMAIN stages |-> CopyOut(l, "static_json", stages[k])]
                    /\ t = FlattenSeq(ss)
      BY <2>1, <3>1 DEF ForEach
    <3>3. /\ ss = [k \in DOMAIN stages |-> ss[k]]
          /\ \A k \in DOMAIN stages : ss[k] = CopyOut(l, "static_json", stages[k])
      BY <3>2
    <3>4. \A s \in ToSet(stages) : Tmp(l, "static_json", s) \in JsonsOf(a, l)
      BY <3>1 DEF JsonsOf
    <3> QED BY <1>0, <3>2, <3>3, <3>4, EachCopies
  <2>3. u \in Seq(Copying(W, JsonsOf(a, l))) /\ u \in Seq(Writing(W, {}))
    <3>1. PICK stages \in Seq(Each) : stages = DynamicStages(a)
      BY <1>1
    <3>2. PICK ss : /\ ss = [k \in DOMAIN stages |-> CopyOut(l, "dynamic_json", stages[k])]
                    /\ u = FlattenSeq(ss)
      BY <2>1, <3>1 DEF ForEach
    <3>3. /\ ss = [k \in DOMAIN stages |-> ss[k]]
          /\ \A k \in DOMAIN stages : ss[k] = CopyOut(l, "dynamic_json", stages[k])
      BY <3>2
    <3>4. \A s \in ToSet(stages) : Tmp(l, "dynamic_json", s) \in JsonsOf(a, l)
      BY <3>1 DEF JsonsOf
    <3> QED BY <1>0, <3>2, <3>3, <3>4, EachCopies
  <2>4. Join(t, u) \in Seq(Copying(W, JsonsOf(a, l))) /\ Join(t, u) \in Seq(Writing(W, {}))
    BY <2>2, <2>3, JoinType
  <2>5. JsonCopies(a, l) = When(EmitJson(a), Join(t, u))
    BY <2>1 DEF JsonCopies, Join
  <2> QED BY <2>4, <2>5, ShortSequences DEF When
<1> QED BY <1>4, <1>5, <1>6, <1>7

IsFront(M, a, l) ==
  M = Join(Join(Join(Join(Join(ExecClang(l, "base"), ProfileSteps(a, l)), BinCopies(a, l)),
                     LlCopies(a, l)), JsonCopies(a, l)), LogCopies(a, l))

LEMMA FrontOrder ==
  ASSUME NEW a \in Options, NEW l, NEW W, W = WorkSteps(a, l), NEW M, IsFront(M, a, l),
         NEW what, what \notin {"bin", "ll", "log"}, NEW s, NEW x, x = Tmp(l, what, s)
  PROVE  M \in Seq(W) /\ Settles(M, x) /\ (x \notin JsonsOf(a, l) => Keeps(M, x))
<1>1. PICK A, B, C, D, J, L :
        /\ A = ExecClang(l, "base") /\ B = ProfileSteps(a, l) /\ C = BinCopies(a, l)
        /\ D = LlCopies(a, l) /\ J = JsonCopies(a, l) /\ L = LogCopies(a, l)
  OBVIOUS
<1>2. /\ A \in Seq(W) /\ B \in Seq(W) /\ C \in Seq(W)
      /\ D \in Seq(W) /\ J \in Seq(W) /\ L \in Seq(W)
  BY <1>1, PartsType
<1>3. x[1] = "tmp" /\ \A kind : what # kind => x \notin Files(l, {kind})
  BY FileOfTmp
<1>4. Keeps(A, x) /\ Keeps(B, x)
  <2>1. A \in Seq(Copying(W, {})) /\ B \in Seq(Copying(W, {}))
    BY <1>1, ProfilingCopies
  <2> QED BY <2>1, PartsOfKind
<1>5. Keeps(C, x) /\ Keeps(D, x) /\ Keeps(L, x) /\ Leaves(L, x)
  <2>1. /\ C \in Seq(Copying(W, Files(l, {"bin"}))) /\ D \in Seq(Copying(W, Files(l, {"ll"})))
        /\ L \in Seq(Copying(W, Files(l, {"log"}))) /\ L \in Seq(Writing(W, {}))
    BY <1>1, FirstCopies
  <2> QED BY <1>3, <2>1, PartsOfKind
<1>6. Leaves(J, x) /\ (x \notin JsonsOf(a, l) => Keeps(J, x))
  <2>1. J \in Seq(Copying(W, JsonsOf(a, l))) /\ J \in Seq(Writing(W, {}))
    BY <1>1, FirstCopies
  <2> QED BY <1>3, <2>1, PartsOfKind
<1>7. \A v, w \in Seq(W) :
        /\ Join(v, w) \in Seq(W)
        /\ Keeps(v, x) /\ Keeps(w, x) => Keeps(Join(v, w), x)
        /\ Settles(v, x) /\ Leaves(w, x) => Settles(Join(v, w), x)
  BY OrderOfJoin, JoinType
<1>8. PICK AB, ABC, H, HJ : /\ AB = Join(A, B) /\ ABC = Join(AB, C)
                            /\ H = Join(ABC, D) /\ HJ = Join(H, J)
  OBVIOUS
<1>9. H \in Seq(W) /\ Keeps(H, x)
  <2>1. AB \in Seq(W) /\ Keeps(AB, x)
    BY <1>2, <1>4, <1>7, <1>8
  <2>2. ABC \in Seq(W) /\ Keeps(ABC, x)
    BY <1>2, <1>5, <1>7, <1>8, <2>1
  <2> QED BY <1>2, <1>5, <1>7, <1>8, <2>2
<1>10. HJ \in Seq(W) /\ Settles(HJ, x) /\ (x \notin JsonsOf(a, l) => Keeps(HJ, x))
  <2>1. Settles(H, x)
    BY <1>9, PartsAlone
  <2> QED BY <1>2, <1>6, <1>7, <1>8, <1>9, <2>1
<1>11. M = Join(HJ, L)
  BY <1>1, <1>8, Zenon DEF IsFront
<1> QED BY <1>2, <1>5, <1>7, <1>10, <1>11

\* The work as a whole, and with it the plan.
LEMMA WorkIsJoin ==
  ASSUME NEW a \in Options, NEW l
  PROVE  \E M : /\ IsFront(M, a, l)
                /\ Work(a, l) = Join(Join(Join(Join(M, EmitStaticOutputs(a, l)),
                                               EmitDynamicOutputs(a, l)),
                                          Deletion(a)), Clearing(a))
BY WorkParts DEF Join, IsFront

LEMMA LastStepsKeep ==
  ASSUME NEW a \in Options, NEW x
  PROVE  Keeps(Deletion(a), x) /\ Keeps(Clearing(a), x)
<1>1. ASSUME NEW op, op # "copy", NEW c, NEW t, t = When(c, <<Step(op, {}, {})>>)
      PROVE  Keeps(t, x)
  <2>1. CASE t = <<Step(op, {}, {})>>
    <3>1. Len(t) = 1 /\ t[1].op # "copy" /\ 1..1 = {1}
      BY <1>1, <2>1 DEF Step
    <3> QED BY <3>1 DEF Keeps, Delivers
  <2>2. CASE t = <<>>
    <3>1. 1..Len(t) = {}
      BY <2>2
    <3> QED BY <3>1 DEF Keeps
  <2> QED BY <1>1, <2>1, <2>2 DEF When
<1> QED BY <1>1 DEF Deletion, Clearing

\* The parts that draw a graph leave the other one alone, and copy no JSON.
LEMMA DrawingKeeps ==
  ASSUME NEW W, NEW l, NEW d, NEW t, t \in Seq(Emitting(W, l, d)), NEW what, NEW s,
         NEW x, x = Tmp(l, what, s), what \notin {d[2], d[3]}
  PROVE  Keeps(t, x) /\ Leaves(t, x)
<1>1. /\ t \in Seq(Copying(W, Files(l, {d[2], d[3]}))) /\ t \in Seq(Writing(W, {d[2], d[3]}))
  BY SequencesOfBoth DEF Emitting
<1>2. x[1] = "tmp" /\ x[3] \notin {d[2], d[3]} /\ x \notin Files(l, {d[2], d[3]})
  BY FileOfTmp
<1> QED BY <1>1, <1>2, PartsOfKind

LEMMA JsonsAsked ==
  ASSUME NEW a, NEW l, NEW what, NEW s, NEW x, x = Tmp(l, what, s)
  PROVE  /\ what \notin {"static_json", "dynamic_json"} => x \notin JsonsOf(a, l)
         /\ what = "static_json" /\ s \notin ToSet(StaticStages(a)) => x \notin JsonsOf(a, l)
         /\ what = "dynamic_json" /\ s \notin ToSet(DynamicStages(a)) => x \notin JsonsOf(a, l)
<1>1. \A w, r : Tmp(l, w, r)[3] = w /\ Tmp(l, w, r)[4] = r
  BY FileOfTmp
<1>2. x \in JsonsOf(a, l) => \/ what = "static_json" /\ s \in ToSet(StaticStages(a))
                             \/ what = "dynamic_json" /\ s \in ToSet(DynamicStages(a))
  <2> SUFFICES ASSUME x \in JsonsOf(a, l)
               PROVE  \/ what = "static_json" /\ s \in ToSet(StaticStages(a))
                      \/ what = "dynamic_json" /\ s \in ToSet(DynamicStages(a))
    OBVIOUS
  <2>1. CASE \E r \in ToSet(StaticStages(a)) : x = Tmp(l, "static_json", r)
    <3>1. PICK r \in ToSet(StaticStages(a)) : Tmp(l, what, s) = Tmp(l, "static_json", r)
      BY <2>1
    <3>2. what = "static_json" /\ s = r
      BY <1>1, <3>1
    <3> QED BY <3>2
  <2>2. CASE \E r \in ToSet(DynamicStages(a)) : x = Tmp(l, "dynamic_json", r)
    <3>1. PICK r \in ToSet(DynamicStages(a)) : Tmp(l, what, s) = Tmp(l, "dynamic_json", r)
      BY <2>2
    <3>2. what = "dynamic_json" /\ s = r
      BY <1>1, <3>1
    <3> QED BY <3>2
  <2> QED BY <2>1, <2>2 DEF JsonsOf
<1> QED BY <1>2

LEMMA WorkOrder ==
  ASSUME NEW a \in Options, NEW l, NEW what \in DrawnFrom(a), NEW s \in Each,
         NEW x, x = Tmp(l, what, s)
  PROVE  IsChecked(Work(a, l), x)
<1>1. PICK W : W = WorkSteps(a, l)
  OBVIOUS
<1>2. PICK M, S, Y, D, C :
        /\ IsFront(M, a, l) /\ S = EmitStaticOutputs(a, l) /\ Y = EmitDynamicOutputs(a, l)
        /\ D = Deletion(a) /\ C = Clearing(a)
        /\ Work(a, l) = Join(Join(Join(Join(M, S), Y), D), C)
  BY WorkIsJoin
<1>3. S \in Seq(W) /\ Y \in Seq(W) /\ D \in Seq(W) /\ C \in Seq(W)
  BY <1>1, <1>2, PartsType
<1>4. what \in {"static_json", "static_dot", "dynamic_json", "dynamic_dot"} /\ RenderSvg(a)
  BY DEF DrawnFrom, RenderSvg
<1>5. M \in Seq(W) /\ Settles(M, x) /\ (x \notin JsonsOf(a, l) => Keeps(M, x))
  BY <1>1, <1>2, <1>4, FrontOrder
<1>6. \A v, w \in Seq(W) :
        /\ Join(v, w) \in Seq(W)
        /\ Keeps(v, x) /\ Keeps(w, x) => Keeps(Join(v, w), x)
        /\ Settles(v, x) /\ Leaves(w, x) => Settles(Join(v, w), x)
        /\ IsChecked(v, x) /\ IsChecked(w, x) => IsChecked(Join(v, w), x)
        /\ Settles(v, x) /\ Awaited(w, x) /\ IsChecked(w, x) => IsChecked(Join(v, w), x)
  BY OrderOfJoin, JoinType
<1>7. \A t : Keeps(t, x) => IsChecked(t, x)
  BY PartsAlone
<1>8. /\ S \in Seq(Emitting(W, l, StaticKinds))
      /\ EmitStaticGraph(a) =>
           /\ \A r \in Each : IsChecked(S, Tmp(l, "static_dot", r))
           /\ \A r \in ToSet(StaticStages(a)) : Awaited(S, Tmp(l, "static_json", r))
  BY <1>1, <1>2, <1>4, StaticOrder, KindsAreDrawn
<1>9. /\ Y \in Seq(Emitting(W, l, DynamicKinds))
      /\ EmitDynamicGraph(a) =>
           /\ \A r \in Each : IsChecked(Y, Tmp(l, "dynamic_dot", r))
           /\ \A r \in ToSet(DynamicStages(a)) : Awaited(Y, Tmp(l, "dynamic_json", r))
  BY <1>1, <1>2, <1>4, DynamicOrder, KindsAreDrawn
<1>10. what # "static_dot" => Keeps(S, x) /\ Leaves(S, x)
  BY <1>4, <1>8, DrawingKeeps, KindsAreDrawn
<1>11. what # "dynamic_dot" => Keeps(Y, x) /\ Leaves(Y, x)
  BY <1>4, <1>9, DrawingKeeps, KindsAreDrawn
<1>12. PICK N, R : N = Join(M, S) /\ R = Join(N, Y)
  OBVIOUS
<1>13. N \in Seq(W) /\ R \in Seq(W)
  BY <1>3, <1>5, <1>6, <1>12
<1>14. IsChecked(R, x)
  <2>1. CASE what = "static_json"
    <3>1. EmitStaticGraph(a)
      BY <2>1 DEF DrawnFrom
    <3>2. IsChecked(S, x) /\ IsChecked(Y, x)
      BY <1>7, <1>10, <1>11, <2>1
    <3>3. Awaited(S, x) \/ IsChecked(M, x)
      BY <1>5, <1>7, <1>8, <2>1, <3>1, JsonsAsked
    <3>4. IsChecked(N, x)
      BY <1>3, <1>5, <1>6, <1>12, <3>2, <3>3
    <3> QED BY <1>3, <1>6, <1>12, <1>13, <3>2, <3>4
  <2>2. CASE what = "static_dot"
    <3>1. EmitStaticGraph(a)
      BY <2>2 DEF DrawnFrom
    <3>2. IsChecked(M, x) /\ IsChecked(S, x) /\ IsChecked(Y, x)
      BY <1>4, <1>5, <1>7, <1>8, <1>11, <2>2, <3>1, JsonsAsked
    <3> QED BY <1>3, <1>5, <1>6, <1>12, <1>13, <3>2
  <2>3. CASE what = "dynamic_json"
    <3>1. EmitDynamicGraph(a)
      BY <2>3 DEF DrawnFrom
    <3>2. IsChecked(Y, x) /\ Settles(N, x)
      BY <1>3, <1>5, <1>6, <1>7, <1>10, <1>11, <1>12, <2>3
    <3>3. Awaited(Y, x) \/ IsChecked(N, x)
      <4>1. CASE s \in ToSet(DynamicStages(a))
        BY <1>9, <2>3, <3>1, <4>1
      <4>2. CASE s \notin ToSet(DynamicStages(a))
        <5>1. Keeps(M, x)
          BY <1>5, <2>3, <4>2, JsonsAsked
        <5> QED BY <1>3, <1>5, <1>6, <1>7, <1>10, <1>12, <2>3, <5>1
      <4> QED BY <4>1, <4>2
    <3> QED BY <1>3, <1>6, <1>12, <1>13, <3>2, <3>3
  <2>4. CASE what = "dynamic_dot"
    <3>1. EmitDynamicGraph(a)
      BY <2>4 DEF DrawnFrom
    <3>2. IsChecked(M, x) /\ IsChecked(S, x) /\ IsChecked(Y, x)
      BY <1>4, <1>5, <1>7, <1>9, <1>10, <2>4, <3>1, JsonsAsked
    <3> QED BY <1>3, <1>5, <1>6, <1>12, <1>13, <3>2
  <2> QED BY <1>4, <2>1, <2>2, <2>3, <2>4
<1>15. IsChecked(D, x) /\ IsChecked(C, x)
  BY <1>2, <1>7, LastStepsKeep
<1>16. IsChecked(Join(R, D), x) /\ Join(R, D) \in Seq(W)
  BY <1>3, <1>6, <1>13, <1>14, <1>15
<1> QED BY <1>2, <1>3, <1>6, <1>12, <1>15, <1>16

LEMMA PlanOrder ==
  ASSUME NEW a \in Options, NEW l, NEW what \in DrawnFrom(a), NEW s \in Each
  PROVE  IsChecked(Plan(a, l), Tmp(l, what, s))
<1>1. PICK x, w : x = Tmp(l, what, s) /\ w = Work(a, l)
  OBVIOUS
<1>2. IsChecked(w, x)
  BY <1>1, WorkOrder
<1>3. PICK p, q : Preparation = <<p, q>> /\ p.op # "copy" /\ q.op # "copy"
  <2>1. PICK p, q : p = Step("validate", {}, {}) /\ q = Step("reset_tmp", {}, {})
    OBVIOUS
  <2>2. p.op # "copy" /\ q.op # "copy"
    BY <2>1 DEF Step
  <2>3. Preparation = <<p, q>>
    BY <2>1 DEF Preparation
  <2> QED BY <2>2, <2>3
<1>4. PICK t : t = <<p, q>>
  OBVIOUS
<1>5. IsChecked(t, x)
  <2>1. Len(t) = 2 /\ t[1] = p /\ t[2] = q /\ 1..2 = {1, 2}
    BY <1>4
  <2>2. Keeps(t, x)
    BY <1>3, <2>1 DEF Keeps, Delivers
  <2> QED BY <2>2, PartsAlone
<1>6. PICK V : V = WorkSteps(a, l) \cup {p, q}
  OBVIOUS
<1>7. w \in Seq(V) /\ t \in Seq(V)
  <2>1. w \in Seq(WorkSteps(a, l))
    BY <1>1, WorkType
  <2> QED BY <1>4, <1>6, <2>1
<1>8. Plan(a, l) = Join(t, w)
  BY <1>1, <1>3, <1>4 DEF Plan, Join
<1> QED BY <1>1, <1>2, <1>5, <1>7, <1>8, OrderOfJoin

\* What is left of a plan after its first step.
LEMMA OrderOfTail ==
  ASSUME NEW W, NEW t \in Seq(W), t # <<>>, NEW x, NEW h, h = Head(t), NEW r, r = Tail(t)
  PROVE  /\ IsChecked(t, x) => IsChecked(r, x) /\ (Delivers(h, x) => Awaited(r, x))
         /\ Awaited(t, x) => Parses(h, x) \/ (~ Changes(h, x) /\ Awaited(r, x))
<1>1. PICK n : n = Len(r)
  OBVIOUS
<1>2. /\ n \in Nat /\ Len(t) = n + 1 /\ t[1] = h
      /\ \A k \in 1..n : r[k] = t[k + 1]
  BY <1>1
<1>3. ASSUME NEW i \in 0..n, ParsedBehind(t, i + 1, x) PROVE ParsedBehind(r, i, x)
  <2>1. PICK k \in (i + 2)..(n + 1) :
          Parses(t[k], x) /\ \A j \in (i + 2)..(k - 1) : ~ Changes(t[j], x)
    <3>1. (i + 1) + 1 = i + 2
      BY <1>2
    <3> QED BY <1>2, <1>3, <3>1 DEF ParsedBehind
  <2>2. PICK m : m = k - 1
    OBVIOUS
  <2>3. m \in (i + 1)..n /\ m \in 1..n /\ m + 1 = k
    BY <1>2, <2>1, <2>2
  <2>4. Parses(r[m], x)
    BY <1>2, <2>1, <2>3
  <2>5. ASSUME NEW j \in (i + 1)..(m - 1) PROVE ~ Changes(r[j], x)
    <3>1. j \in 1..n /\ j + 1 \in (i + 2)..(k - 1)
      BY <1>2, <2>3, <2>1
    <3>2. r[j] = t[j + 1]
      BY <1>2, <3>1
    <3> QED BY <2>1, <3>1, <3>2
  <2> QED BY <1>1, <2>3, <2>4, <2>5 DEF ParsedBehind
<1>4. ASSUME IsChecked(t, x) PROVE IsChecked(r, x) /\ (Delivers(h, x) => Awaited(r, x))
  <2>1. \A i \in 1..(n + 1) : Delivers(t[i], x) => ParsedBehind(t, i, x)
    BY <1>2, <1>4 DEF IsChecked
  <2>2. ASSUME NEW i \in 1..n, Delivers(r[i], x) PROVE ParsedBehind(r, i, x)
    <3>1. i + 1 \in 1..(n + 1) /\ i \in 0..n /\ Delivers(t[i + 1], x)
      BY <1>2, <2>2
    <3> QED BY <1>3, <2>1, <3>1
  <2>3. ASSUME Delivers(h, x) PROVE Awaited(r, x)
    <3>1. 1 \in 1..(n + 1) /\ 0 \in 0..n /\ 0 + 1 = 1
      BY <1>2
    <3>2. ParsedBehind(t, 1, x)
      BY <1>2, <2>1, <2>3, <3>1
    <3> QED BY <1>3, <3>1, <3>2 DEF Awaited
  <2> QED BY <1>1, <2>2, <2>3 DEF IsChecked
<1>5. ASSUME Awaited(t, x), ~ Parses(h, x) PROVE ~ Changes(h, x) /\ Awaited(r, x)
  <2>1. PICK k \in 1..(n + 1) : Parses(t[k], x) /\ \A j \in 1..(k - 1) : ~ Changes(t[j], x)
    <3>1. 0 + 1 = 1
      OBVIOUS
    <3> QED BY <1>2, <1>5, <3>1 DEF Awaited, ParsedBehind
  <2>2. k # 1
    BY <1>2, <1>5, <2>1
  <2>3. k \in 2..(n + 1) /\ 1 \in 1..(k - 1) /\ \A j \in 2..(k - 1) : j \in 1..(k - 1)
    BY <1>2, <2>1, <2>2
  <2>4. ~ Changes(h, x)
    BY <1>2, <2>1, <2>3
  <2>5. ParsedBehind(t, 1, x)
    <3>1. 1 + 1 = 2
      OBVIOUS
    <3>2. \A j \in 2..(k - 1) : ~ Changes(t[j], x)
      BY <2>1, <2>3
    <3> QED BY <1>2, <2>1, <2>3, <3>1, <3>2 DEF ParsedBehind
  <2>6. 0 \in 0..n /\ 0 + 1 = 1
    BY <1>2
  <2> QED BY <1>3, <2>4, <2>5, <2>6 DEF Awaited
<1> QED BY <1>4, <1>5

(***************************************************************************)
(* What is drawn is whole.                                                 *)
(***************************************************************************)
\* What of a graph with an SVG has gone to the output directory of the level at work,
\* and where it has come from.
IsDrawnOutput(p) == p[1] = "out" /\ p[2] = Level /\ p[3] \in DrawnFrom(args)
SourceOf(p) == Tmp(Level, p[3], p[4])

PlanIsChecked ==
  status = "running" =>
    \A what \in DrawnFrom(args), s \in Each : IsChecked(todo, Tmp(Level, what, s))

\* If it is not whole, neither is its source, which is still to be parsed.
CopiesAreRead ==
  status = "running" =>
    \A p \in DOMAIN files :
      IsDrawnOutput(p) /\ files[p].fresh /\ ~ files[p].whole =>
        /\ SourceOf(p) \in DOMAIN files /\ ~ files[SourceOf(p)].whole
        /\ Awaited(todo, SourceOf(p))

\* A copy to the output directory is one of the file with its kind and stage.
LEMMA CopySource ==
  ASSUME NEW a, NEW l, NEW step \in WorkSteps(a, l), step.op = "copy", NEW p, step.to = {p},
         p[1] = "out", p[3] # "bin"
  PROVE  step.from = {Tmp(l, p[3], p[4])} /\ p[4] \in Each
<1>1. step \notin Compilations(l)
  BY DEF Compilations, Step, Variants
<1>2. ASSUME NEW s \in Each, step \in StageSteps(l, s)
      PROVE  step.from = {Tmp(l, p[3], p[4])} /\ p[4] \in Each
  <2>1. PICK what \in Delivered : step = Step("copy", {Tmp(l, what, s)}, {Out(l, what, s)})
    BY <1>2 DEF StageSteps, Step
  <2>2. step.from = {Tmp(l, what, s)} /\ step.to = {Out(l, what, s)}
    BY <2>1 DEF Step
  <2>3. p = Out(l, what, s)
    BY <2>2
  <2>4. p[3] = what /\ p[4] = s
    BY <2>3, FileOfTmp
  <2> QED BY <2>2, <2>4
<1>3. step \notin LevelSteps(a, l)
  <2> SUFFICES ASSUME step \in LevelSteps(a, l) PROVE FALSE
    OBVIOUS
  <2>1. \/ step = Step("copy", {Tmp(l, "bin", NoStage)}, {Out(l, "bin", NoStage)})
        \/ step = Step("copy", {Tmp(l, "dynamic_svg", "after")}, {OutputOption})
        \/ step = Step("cleanup_tmp", {}, {}) \/ step = Step("delete_bin", {}, {})
    BY Zenon DEF LevelSteps, NoStage
  <2>2. p = Out(l, "bin", NoStage) \/ p = OutputOption
    <3>1. step.to = {Out(l, "bin", NoStage)} \/ step.to = {OutputOption}
      BY <2>1 DEF Step
    <3> QED BY <3>1
  <2> QED BY <2>2, FileOfTmp
<1> QED BY <1>1, <1>2, <1>3 DEF WorkSteps, Each

\* A tool leaves what it does not write, and has read what it parses.
LEMMA ToolsLeave ==
  ASSUME IInv, Clang \/ RunTool, NEW x \in DOMAIN files, x[3] # "log"
  PROVE  /\ ~ Changes(NextStep, x) => x \in DOMAIN files' /\ files'[x] = files[x]
         /\ Parses(NextStep, x) => files[x].whole
<1>1. WritesGenuine
  BY ClangWrites, RunToolWrites
<1>2. PICK new : files' = With(new) /\ DOMAIN new \subseteq NextStep.to
  BY <1>1 DEF WritesGenuine
<1>3. ~ Changes(NextStep, x) => x \in DOMAIN files' /\ files'[x] = files[x]
  BY <1>2 DEF With, Changes
<1>4. CASE Clang
  <2>1. NextStep.op \notin {"dot", "svg"}
    BY <1>4, ClangWrites DEF Variants
  <2> QED BY <1>3, <2>1 DEF Parses
<1>5. CASE RunTool
  <2>1. Readable
    BY <1>5 DEF RunTool
  <2> QED BY <1>3, <2>1 DEF Readable, Parses
<1> QED BY <1>4, <1>5

\* A copy is as whole as its source.
LEMMA CopyIsAlike ==
  ASSUME IInv, CopyArtifact, NEW from, NextStep.from = {from}, NEW to, NextStep.to = {to}
  PROVE  from \in DOMAIN files /\ (files'[to].whole <=> files[from].whole)
<1>1. /\ Ready /\ files' = With([p \in NextStep.to |-> ToolOutput(NextStep.from)])
  BY DEF CopyArtifact
<1>2. from \in DOMAIN files
  BY <1>1 DEF Ready
<1>3. files'[to] = ToolOutput({from})
  BY <1>1 DEF With
<1>4. ToolOutput({from}).whole <=> files[from].whole
  BY DEF ToolOutput, Content
<1> QED BY <1>2, <1>3, <1>4

\* The plan of the level at work, one step on.
LEMMA PlanGoesOn ==
  ASSUME IInv, Advances, NEW x
  PROVE  /\ IsChecked(todo, x) =>
              IsChecked(todo', x) /\ (Delivers(NextStep, x) => Awaited(todo', x))
         /\ Awaited(todo, x) =>
              Parses(NextStep, x) \/ (~ Changes(NextStep, x) /\ Awaited(todo', x))
<1>1. status = "running" /\ todo # <<>> /\ todo' = Tail(todo)
  BY DEF Advances, Done
<1>2. PICK W : todo \in Seq(W)
  BY <1>1, TodoIsSequence
<1>3. PICK t, h, r : t = todo /\ h = Head(t) /\ r = Tail(t)
  OBVIOUS
<1>4. t \in Seq(W) /\ t # <<>>
  BY <1>1, <1>2, <1>3
<1>5. /\ IsChecked(t, x) => IsChecked(r, x) /\ (Delivers(h, x) => Awaited(r, x))
      /\ Awaited(t, x) => Parses(h, x) \/ (~ Changes(h, x) /\ Awaited(r, x))
  BY <1>3, <1>4, OrderOfTail
<1>6. NextStep = h /\ todo' = r
  BY <1>1, <1>3 DEF NextStep
<1> QED BY <1>3, <1>5, <1>6, Zenon

LEMMA InitChecked ==
  Init => PlanIsChecked /\ CopiesAreRead
<1> SUFFICES ASSUME Init, status = "running" PROVE PlanIsChecked /\ CopiesAreRead
  BY DEF PlanIsChecked, CopiesAreRead
<1>1. todo = Plan(args, Level) /\ args \in Options
  BY DriverAssumption DEF Init
<1>2. PlanIsChecked
  BY <1>1, PlanOrder DEF PlanIsChecked
<1>3. \A p \in DOMAIN files : ~ files[p].fresh
  BY DEF Init, Old, Content
<1> QED BY <1>2, <1>3 DEF CopiesAreRead

LEMMA StepChecked ==
  ASSUME IInv, PlanIsChecked, [Next]_vars
  PROVE  PlanIsChecked'
<1>0. args \in Options
  BY LevelsOfRun
<1>1. CASE Advances
  <2>1. args' = args /\ level' = level /\ status = "running"
    BY <1>1 DEF Advances, Done
  <2>2. Level' = Level
    BY <2>1, SameLevel
  <2>3. ASSUME NEW what \in DrawnFrom(args), NEW s \in Each
        PROVE  IsChecked(todo', Tmp(Level, what, s))
    <3>1. IsChecked(todo, Tmp(Level, what, s))
      BY <2>1 DEF PlanIsChecked
    <3> QED BY <1>1, <3>1, PlanGoesOn
  <2> QED BY <2>1, <2>2, <2>3 DEF PlanIsChecked
<1>2. CASE Stops
  BY <1>2 DEF Stops, PlanIsChecked
<1>3. CASE FinishLevel
  <2>1. args' = args
    BY <1>3 DEF FinishLevel
  <2>2. CASE level < Len(Levels)
    <3>1. PICK l : l = Level'
      OBVIOUS
    <3>2. todo' = Plan(args, l)
      BY <1>3, <2>1, <2>2, <3>1 DEF FinishLevel, Level, Levels
    <3>3. \A what \in DrawnFrom(args), s \in Each : IsChecked(Plan(args, l), Tmp(l, what, s))
      BY <1>0, PlanOrder
    <3> QED BY <2>1, <3>1, <3>2, <3>3 DEF PlanIsChecked
  <2>3. CASE ~ (level < Len(Levels))
    BY <1>3, <2>3 DEF FinishLevel, PlanIsChecked
  <2> QED BY <2>2, <2>3
<1>4. CASE UNCHANGED vars
  <2>1. args' = args /\ level' = level /\ status' = status /\ todo' = todo
    BY <1>4 DEF vars
  <2>2. Level' = Level
    BY <2>1, SameLevel
  <2> QED BY <2>1, <2>2 DEF PlanIsChecked
<1> QED BY <1>1, <1>2, <1>3, <1>4, Effects

\* One file that is not whole, over one step of the work.
LEMMA SourceStays ==
  ASSUME IInv, ValidateConfig \/ ResetTmpDir \/ Clang \/ RunTool \/ CopyArtifact
                 \/ MaybeDeleteFinalBinary \/ MaybeCleanupTmp,
         NEW x, x[1] = "tmp", x[3] # "log", x \in DOMAIN files, ~ files[x].whole,
         Awaited(todo, x)
  PROVE  x \in DOMAIN files' /\ ~ files'[x].whole /\ Awaited(todo', x)
<1>1. CASE ValidateConfig \/ ResetTmpDir \/ MaybeDeleteFinalBinary \/ MaybeCleanupTmp
  <2>1. Advances /\ NextStep.op \in {"validate", "reset_tmp", "delete_bin", "cleanup_tmp"}
    BY <1>1, DropEffects DEF ValidateConfig, ResetTmpDir, MaybeDeleteFinalBinary, MaybeCleanupTmp, Takes
  <2>2. ~ Changes(NextStep, x) /\ Awaited(todo', x)
    BY <2>1, PlanGoesOn DEF Parses
  <2>3. ValidateConfig \/ MaybeDeleteFinalBinary
    BY <1>1, <2>2 DEF ResetTmpDir, MaybeCleanupTmp, Takes, Changes
  <2>4. x # Out(Level, "bin", NoStage)
    BY FileOfTmp
  <2>5. x \in DOMAIN files' /\ files'[x] = files[x]
    <3>1. CASE ValidateConfig
      BY <3>1 DEF ValidateConfig
    <3>2. CASE MaybeDeleteFinalBinary
      <4>1. files' = Without({Out(Level, "bin", NoStage)})
        BY <3>2, Zenon DEF MaybeDeleteFinalBinary, NoStage
      <4> QED BY <2>4, <4>1 DEF Without, Restricted
    <3> QED BY <2>3, <3>1, <3>2
  <2> QED BY <2>2, <2>5
<1>2. CASE Clang \/ RunTool
  <2>1. Advances
    BY <1>2, WriteEffects
  <2>2. ~ Parses(NextStep, x)
    BY <1>2, ToolsLeave
  <2>3. ~ Changes(NextStep, x) /\ Awaited(todo', x)
    BY <2>1, <2>2, PlanGoesOn
  <2>4. x \in DOMAIN files' /\ files'[x] = files[x]
    BY <1>2, <2>3, ToolsLeave
  <2> QED BY <2>3, <2>4
<1>3. CASE CopyArtifact
  <2>1. Advances /\ Copies
    BY <1>3, CopyEffects
  <2>2. PICK to : /\ NextStep.to = {to} /\ IsDestination(to, args, Level)
                  /\ \A p \in DOMAIN files : p # to => files'[p] = files[p]
                  /\ DOMAIN files' = DOMAIN files \cup {to}
    BY <2>1 DEF Copies
  <2>3. x # to
    BY <2>2, FileOfTmp DEF IsDestination
  <2>4. ~ Parses(NextStep, x)
    BY <2>1 DEF Copies, Parses
  <2>5. Awaited(todo', x)
    BY <2>1, <2>4, PlanGoesOn
  <2> QED BY <2>2, <2>3, <2>5
<1> QED BY <1>1, <1>2, <1>3

\* A copy that comes to be: its source is still to be parsed, by the order of the plan.
LEMMA NewCopyIsRead ==
  ASSUME IInv, PlanIsChecked, CopyArtifact, NEW p, NextStep.to = {p}, IsDrawnOutput(p),
         ~ files'[p].whole
  PROVE  /\ SourceOf(p) \in DOMAIN files' /\ ~ files'[SourceOf(p)].whole
         /\ Awaited(todo', SourceOf(p))
<1>1. Working /\ todo # <<>> /\ NextStep.op = "copy"
  BY CopyWrites
<1>2. Advances /\ Copies
  BY CopyEffects
<1>3. NextStep \in WorkSteps(args, Level)
  BY <1>1, NextIsOfWork
<1>4. p[1] = "out" /\ p[3] \in DrawnFrom(args) /\ p[3] # "bin"
  BY DEF IsDrawnOutput, DrawnFrom
<1>5. PICK x : x = SourceOf(p)
  OBVIOUS
<1>6. NextStep.from = {x} /\ p[4] \in Each
  BY <1>1, <1>3, <1>4, <1>5, CopySource DEF SourceOf
<1>7. x \in DOMAIN files /\ ~ files[x].whole
  BY <1>6, CopyIsAlike
<1>8. Awaited(todo', x)
  <2>1. IsChecked(todo, x)
    BY <1>1, <1>4, <1>5, <1>6 DEF PlanIsChecked, Working, SourceOf
  <2>2. Delivers(NextStep, x)
    BY <1>1, <1>6 DEF Delivers
  <2> QED BY <1>2, <2>1, <2>2, PlanGoesOn
<1>9. x # p
  BY <1>4, <1>5, FileOfTmp DEF SourceOf
<1>10. x \in DOMAIN files' /\ files'[x] = files[x]
  <2>1. PICK to : /\ NextStep.to = {to} /\ DOMAIN files' = DOMAIN files \cup {to}
                  /\ \A q \in DOMAIN files : q # to => files'[q] = files[q]
    BY <1>2 DEF Copies
  <2>2. to = p
    BY <2>1
  <2> QED BY <1>7, <1>9, <2>1, <2>2
<1> QED BY <1>5, <1>7, <1>8, <1>10

\* An output of any level changes only when it is copied, or in a run that stops.
LEMMA OutputStays ==
  ASSUME Drops \/ Writes \/ Copies, NEW p \in DOMAIN files', p[1] = "out",
         ~ (NextStep.op = "copy" /\ p \in NextStep.to)
  PROVE  p \in DOMAIN files /\ files'[p] = files[p]
<1>1. ~ InTmp(p, Level)
  BY PlacesOfTmp DEF InTmp
<1>2. CASE Drops
  BY <1>2 DEF Drops
<1>3. CASE Writes
  BY <1>1, <1>3 DEF Writes
<1>4. CASE Copies
  BY <1>4 DEF Copies
<1> QED BY <1>2, <1>3, <1>4

LEMMA StepRead ==
  ASSUME IInv, LevelIsGiven, FilesAreOfLevels, PlanIsChecked, CopiesAreRead, [Next]_vars
  PROVE  CopiesAreRead'
<1>1. CASE \/ ValidateConfig \/ ResetTmpDir \/ Clang \/ RunTool \/ CopyArtifact
           \/ MaybeDeleteFinalBinary \/ MaybeCleanupTmp
  <2>1. Advances /\ (Drops \/ Writes \/ Copies)
    BY <1>1, DropEffects, WriteEffects, CopyEffects
  <2>2. args' = args /\ level' = level /\ status = "running"
    BY <2>1 DEF Advances, Done
  <2>3. Level' = Level
    BY <2>2, SameLevel
  <2> SUFFICES ASSUME NEW p \in DOMAIN files', IsDrawnOutput(p), files'[p].fresh,
                      ~ files'[p].whole
               PROVE  /\ SourceOf(p) \in DOMAIN files' /\ ~ files'[SourceOf(p)].whole
                      /\ Awaited(todo', SourceOf(p))
    BY <2>2, <2>3 DEF CopiesAreRead, IsDrawnOutput, SourceOf
  <2>4. CASE NextStep.op = "copy" /\ p \in NextStep.to
    <3>1. Copies
      BY <2>1, <2>4 DEF Drops, Writes
    <3>2. NextStep.to = {p}
      BY <2>4, <3>1 DEF Copies
    <3>3. CopyArtifact
      BY <1>1, <2>4 DEF ValidateConfig, ResetTmpDir, Clang, RunTool, MaybeDeleteFinalBinary,
                        MaybeCleanupTmp, Takes, Variants
    <3> QED BY <3>2, <3>3, NewCopyIsRead
  <2>5. CASE ~ (NextStep.op = "copy" /\ p \in NextStep.to)
    <3>1. p \in DOMAIN files /\ files'[p] = files[p]
      BY <2>1, <2>5, OutputStays DEF IsDrawnOutput
    <3>2. PICK x : x = SourceOf(p)
      OBVIOUS
    <3>3. x \in DOMAIN files /\ ~ files[x].whole /\ Awaited(todo, x) /\ x[1] = "tmp"
      BY <2>2, <3>1, <3>2, FileOfTmp DEF CopiesAreRead, SourceOf
    <3>4. p[3] \in {"static_json", "static_dot", "dynamic_json", "dynamic_dot"}
      BY DEF IsDrawnOutput, DrawnFrom
    <3>5. x[3] # "log"
      BY <3>2, <3>4, FileOfTmp DEF SourceOf
    <3> QED BY <1>1, <3>2, <3>3, <3>5, SourceStays
  <2> QED BY <2>4, <2>5
<1>2. CASE Stops
  BY <1>2 DEF Stops, CopiesAreRead
<1>3. CASE FinishLevel
  <2>1. args' = args /\ files' = files /\ status = "running"
    BY <1>3 DEF FinishLevel
  <2>2. CASE level < Len(Levels)
    <3>1. Level' = Levels[level + 1]
      BY <1>3, <2>1, <2>2 DEF FinishLevel, Level, Levels
    <3>2. \A p \in DOMAIN files : files[p].fresh => p[2] # Level'
      BY <2>1, <2>2, <3>1, NothingOfNextLevel
    <3> QED BY <2>1, <3>2 DEF CopiesAreRead, IsDrawnOutput
  <2>3. CASE ~ (level < Len(Levels))
    BY <1>3, <2>3 DEF FinishLevel, CopiesAreRead
  <2> QED BY <2>2, <2>3
<1>4. CASE UNCHANGED vars
  <2>1. /\ args' = args /\ level' = level /\ status' = status /\ todo' = todo /\ files' = files
    BY <1>4 DEF vars
  <2>2. Level' = Level
    BY <2>1, SameLevel
  <2> QED BY <2>1, <2>2 DEF CopiesAreRead, IsDrawnOutput, SourceOf
<1> QED BY <1>1, <1>2, <1>3, <1>4, StopEffects DEF Next, EndingStep

LEMMA InitDrawn ==
  Init => DrawnGraphsAreWhole
<1> SUFFICES ASSUME Init, NEW k \in DOMAIN Levels, IsFinished(k) PROVE FALSE
  BY DEF DrawnGraphsAreWhole
<1>1. level = 1 /\ status # "ok"
  BY DEF Init
<1>2. k \in 1..Len(Levels)
  BY InitInvariant, LevelsOfRun
<1> QED BY <1>1, <1>2 DEF IsFinished

LEMMA StepDrawn ==
  ASSUME IInv, LevelIsGiven, CopiesAreRead, DrawnGraphsAreWhole, [Next]_vars
  PROVE  DrawnGraphsAreWhole'
<1>0. /\ level \in 1..Len(Levels) /\ Len(Levels) \in Nat /\ DOMAIN Levels = 1..Len(Levels)
      /\ Distinct(Levels)
  BY LevelsOfRun DEF LevelIsGiven
<1>1. ASSUME NEW k \in DOMAIN Levels, k < level PROVE Levels[k] # Level
  BY <1>0, <1>1 DEF Distinct, Level
<1>2. \A k \in DOMAIN Levels : k < level => IsFinished(k)
  BY DEF IsFinished
\* While a level is worked on, and when that ends with it, the files of those before
\* are as they were.
<1>3. ASSUME args' = args, level' = level, status' # "ok",
             \A k \in DOMAIN Levels : k < level =>
               \A p \in DOMAIN files' :
                 p[1] = "out" /\ p[2] = Levels[k] => p \in DOMAIN files /\ files'[p] = files[p]
      PROVE  DrawnGraphsAreWhole'
  <2>1. Levels' = Levels
    BY <1>3, SameLevel
  <2> SUFFICES ASSUME NEW k \in DOMAIN Levels, k < level, NEW p \in DOMAIN files',
                      files'[p].fresh, p[1] = "out", p[2] = Levels[k], p[3] \in DrawnFrom(args)
               PROVE  files'[p].whole
    BY <1>3, <2>1 DEF DrawnGraphsAreWhole, IsFinished
  <2>2. p \in DOMAIN files /\ files'[p] = files[p]
    BY <1>3
  <2> QED BY <1>2, <2>2 DEF DrawnGraphsAreWhole
<1>4. CASE Advances /\ (Drops \/ Writes \/ Copies)
  <2>1. args' = args /\ level' = level /\ status' # "ok"
    BY <1>4 DEF Advances, Done
  <2>2. ASSUME NEW k \in DOMAIN Levels, k < level, NEW p \in DOMAIN files',
               p[1] = "out", p[2] = Levels[k]
        PROVE  p \in DOMAIN files /\ files'[p] = files[p]
    <3>1. p[2] # Level /\ p # OutputOption
      BY <1>1, <2>2, FileOfTmp
    <3>2. ~ (NextStep.op = "copy" /\ p \in NextStep.to)
      BY <1>4, <3>1 DEF Drops, Writes, Copies, IsDestination
    <3> QED BY <1>4, <2>2, <3>2, OutputStays
  <2> QED BY <1>3, <2>1, <2>2
<1>5. CASE Stops
  <2>1. args' = args /\ level' = level /\ status' # "ok"
    BY <1>5 DEF Stops
  <2>2. ASSUME NEW k \in DOMAIN Levels, k < level, NEW p \in DOMAIN files',
               p[1] = "out", p[2] = Levels[k]
        PROVE  p \in DOMAIN files /\ files'[p] = files[p]
    <3>1. p[2] # Level /\ p # OutputOption
      BY <1>1, <2>2, FileOfTmp
    <3>2. ~ InTmp(p, Level) /\ ~ IsDestination(p, args, Level)
      BY <2>2, <3>1 DEF InTmp, IsDestination
    <3> QED BY <1>5, <3>2 DEF Stops
  <2> QED BY <1>3, <2>1, <2>2
<1>6. CASE FinishLevel
  <2>1. args' = args /\ files' = files /\ status = "running" /\ todo = <<>>
    BY <1>6 DEF FinishLevel
  <2>2. Levels' = Levels
    BY <2>1 DEF Levels
  <2>3. \A x : ~ Awaited(todo, x)
    <3>1. Len(<<>>) = 0 /\ (0 + 1)..0 = {}
      OBVIOUS
    <3> QED BY <2>1, <3>1 DEF Awaited, ParsedBehind
  <2>4. \A p \in DOMAIN files :
          files[p].fresh /\ p[1] = "out" /\ p[2] = Levels[level] /\ p[3] \in DrawnFrom(args)
            => files[p].whole
    BY <2>1, <2>3 DEF CopiesAreRead, IsDrawnOutput, Level
  <2>5. \A k \in DOMAIN Levels : IsFinished(k)' => k < level \/ k = level
    <3>1. (level' = level + 1 /\ status' # "ok") \/ level' = level
      BY <1>6, <2>1 DEF FinishLevel
    <3> QED BY <1>0, <3>1 DEF IsFinished
  <2> QED BY <1>2, <2>1, <2>2, <2>4, <2>5 DEF DrawnGraphsAreWhole
<1>7. CASE UNCHANGED vars
  <2>1. args' = args /\ level' = level /\ status' = status /\ files' = files
    BY <1>7 DEF vars
  <2>2. Levels' = Levels
    BY <2>1, SameLevel
  <2> QED BY <2>1, <2>2 DEF DrawnGraphsAreWhole, IsFinished
<1> QED BY <1>4, <1>5, <1>6, <1>7, Effects

\* A JSON or DOT of a graph that is drawn is never delivered in part by a level that
\* ends well, whatever dump or tool has exited 0 after half a file: behind its copy
\* the plan has a step that parses it before it can be another (main, where the JSONs
\* go out before emit_static_outputs and emit_dynamic_outputs).
THEOREM DrawnFilesAreWhole ==
  Spec => []DrawnGraphsAreWhole
<1> DEFINE Inv == OutcomeInv /\ PlanIsChecked /\ CopiesAreRead /\ DrawnGraphsAreWhole
<1>1. Init => Inv
  BY InitOutcome, InitChecked, InitDrawn
<1>2. ASSUME Inv, [Next]_vars PROVE Inv'
  <2>1. IInv /\ LevelIsGiven /\ FilesAreOfLevels
    BY <1>2 DEF OutcomeInv
  <2>2. OutcomeInv' /\ PlanIsChecked'
    BY <1>2, <2>1, StepOutcome, StepChecked
  <2>3. CopiesAreRead' /\ DrawnGraphsAreWhole'
    BY <1>2, <2>1, StepRead, StepDrawn
  <2> QED BY <2>2, <2>3
<1>3. Inv => DrawnGraphsAreWhole
  OBVIOUS
<1> HIDE DEF Inv
<1> QED BY <1>1, <1>2, <1>3, PTL DEF Spec

==============================================================================
