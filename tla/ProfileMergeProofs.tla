-------------------------- MODULE ProfileMergeProofs --------------------------
(***************************************************************************)
(* Theorems about ProfileMerge, for every set of graphs and logs.          *)
(***************************************************************************)
EXTENDS ProfileMerge, FiniteSetTheorems, TLAPS

\* The id of an event line is a key, and its map one of the three.
LEMMA KeyOfType ==
  ASSUME NEW line \in Line, IsEvent(line)
  PROVE  KeyOf(line) \in Key
BY DEF KeyOf, Key, Maps, Line, IsEvent, Events, MapOfEvent

\* One more line adds one to the hits of the key it is an event of.
LEMMA HitsStep ==
  ASSUME NEW lg \in Seq(Line), NEW n \in Nat, NEW x
  PROVE  /\ Hits(lg, n, x) \in Nat
         /\ Hits(lg, n + 1, x) =
              IF IsEvent(lg[n + 1]) /\ KeyOf(lg[n + 1]) = x
              THEN Hits(lg, n, x) + 1 ELSE Hits(lg, n, x)
<1> DEFINE P(k) == IsEvent(lg[k]) /\ KeyOf(lg[k]) = x
           S == {k \in 1..n : P(k)}
           T == {k \in 1..(n + 1) : P(k)}
<1> HIDE DEF P
<1>1. IsFiniteSet(S)
  <2>1. IsFiniteSet(1..n)
    BY FS_Interval
  <2> QED BY <2>1, FS_Subset
<1>2. T = IF P(n + 1) THEN S \cup {n + 1} ELSE S
  OBVIOUS
<1>3. n + 1 \notin S
  OBVIOUS
<1>4. Cardinality(S) \in Nat
  BY <1>1, FS_CardinalityType
<1>5. Cardinality(S \cup {n + 1}) = Cardinality(S) + 1
  BY <1>1, <1>3, FS_AddElement
<1>6. Cardinality(T) = IF P(n + 1) THEN Cardinality(S) + 1 ELSE Cardinality(S)
  BY <1>2, <1>5
<1> QED
  BY <1>4, <1>6 DEF Hits, P

LEMMA InitInvariant == Init => InductiveInvariant
<1> SUFFICES ASSUME Init PROVE InductiveInvariant
  OBVIOUS
<1>1. graph \in Graph /\ log \in Seq(Line)
  BY InputAssumption DEF Init
<1>2. \A x \in Entities(graph) : counts[x] \in Nat \cup {NoCount}
  BY InputAssumption DEF Init
<1>3. TypeOK
  BY <1>1, <1>2 DEF Init, TypeOK, Steps
<1>4. ParsedPrefix
  BY <1>1 DEF Init, ParsedPrefix
<1>5. PassedStages
  BY DEF Init, PassedStages, Maps
<1> QED BY <1>3, <1>4, <1>5 DEF InductiveInvariant

\* What the log and the graph are never changes.
LEMMA InputsType ==
  ASSUME TypeOK
  PROVE  graph \in Graph /\ log \in Seq(Line)
BY InputAssumption DEF TypeOK

\* Every step of the tool keeps the inductive invariant: a line read adds one to
\* the hits of its key, an entry applied moves from pending to the counts.
LEMMA StepInvariant == InductiveInvariant /\ [Next]_vars => InductiveInvariant'
<1> SUFFICES ASSUME InductiveInvariant, [Next]_vars
             PROVE  InductiveInvariant'
  OBVIOUS
<1> USE DEF InductiveInvariant
<1>0. graph \in Graph /\ log \in Seq(Line) /\ Len(log) \in Nat
  BY InputsType
<1>1. CASE LoadInputs /\ UNCHANGED <<graph, log>>
  <2>1. TypeOK'
    BY <1>1 DEF LoadInputs, TypeOK, Steps
  <2>2. ParsedPrefix'
    BY <1>1 DEF LoadInputs, ParsedPrefix
  <2>3. PassedStages'
    BY <1>1 DEF LoadInputs, PassedStages, Maps
  <2> QED BY <2>1, <2>2, <2>3
<1>T. ASSUME Throw, UNCHANGED <<graph, log>>, pc \notin Ended
      PROVE  InductiveInvariant'
  <2>1. TypeOK'
    BY <1>T DEF Throw, TypeOK, Ended
  <2>2. ParsedPrefix'
    BY <1>T DEF Throw, ParsedPrefix
  <2>3. PassedStages'
    BY <1>T DEF Throw, PassedStages, Maps, Ended
  <2> QED BY <2>1, <2>2, <2>3
<1>2. CASE FileFailure /\ UNCHANGED <<graph, log>>
  BY <1>2, <1>T DEF FileFailure, Ended
<1>3. CASE ParseLine /\ UNCHANGED <<graph, log>>
  <2> DEFINE line == log[pos + 1]
  <2>1. pos \in Nat /\ pos < Len(log) /\ pos + 1 \in 1..Len(log) /\ line \in Line
    BY <1>0, <1>3 DEF ParseLine, TypeOK
  <2>2. CASE Rejects(line)
    BY <1>3, <1>T, <2>2 DEF ParseLine, Ended
  <2>3. CASE ~ Rejects(line) /\ ~ IsEvent(line)
    <3>1. profile' = profile /\ pos' = pos + 1 /\ UNCHANGED <<graph, log, pc, counts, pending, output>>
      BY <1>3, <2>3 DEF ParseLine
    <3>2. TypeOK'
      BY <2>1, <3>1 DEF TypeOK
    <3>3. ParsedPrefix'
      <4>1. {KeyOf(log[k]) : k \in {j \in 1..(pos + 1) : IsEvent(log[j])}}
              = {KeyOf(log[k]) : k \in {j \in 1..pos : IsEvent(log[j])}}
        BY <2>1, <2>3
      <4>2. \A x \in DOMAIN profile : Hits(log, pos + 1, x) = Hits(log, pos, x)
        BY <1>0, <2>1, <2>3, HitsStep
      <4>3. \A k \in 1..(pos + 1) : log[k].event \notin BadLines
        BY <2>1, <2>3 DEF ParsedPrefix, Rejects
      <4> QED BY <3>1, <4>1, <4>2, <4>3 DEF ParsedPrefix
    <3>4. PassedStages'
      BY <1>3, <3>1 DEF ParseLine, PassedStages, Maps
    <3> QED BY <3>2, <3>3, <3>4
  <2>4. CASE ~ Rejects(line) /\ IsEvent(line)
    <3> DEFINE key == KeyOf(line)
    <3>1. /\ DOMAIN profile' = DOMAIN profile \cup {key}
          /\ \A y \in DOMAIN profile \ {key} : profile'[y] = profile[y]
          /\ profile'[key] = IF key \in DOMAIN profile THEN profile[key] + 1 ELSE 1
          /\ pos' = pos + 1 /\ UNCHANGED <<graph, log, pc, counts, pending, output>>
      BY <1>3, <2>4 DEF ParseLine, CountEvent
    <3>2. key \in Key
      BY <2>1, <2>4, KeyOfType
    <3>3. TypeOK'
      BY <2>1, <3>1, <3>2 DEF TypeOK
    <3>4. ParsedPrefix'
      <4>1. {KeyOf(log[k]) : k \in {j \in 1..(pos + 1) : IsEvent(log[j])}}
              = {KeyOf(log[k]) : k \in {j \in 1..pos : IsEvent(log[j])}} \cup {key}
        BY <2>1, <2>4
      <4>2. \A y \in DOMAIN profile \ {key} : Hits(log, pos + 1, y) = Hits(log, pos, y)
        BY <1>0, <2>1, HitsStep
      <4>3. Hits(log, pos + 1, key) = Hits(log, pos, key) + 1
        BY <1>0, <2>1, <2>4, HitsStep
      <4>4. key \notin DOMAIN profile => Hits(log, pos, key) = 0
        BY FS_EmptySet DEF ParsedPrefix, Hits
      <4>5. \A k \in 1..(pos + 1) : log[k].event \notin BadLines
        BY <2>1, <2>4 DEF ParsedPrefix, Rejects
      <4>6. \A y \in DOMAIN profile' : profile'[y] = Hits(log, pos + 1, y)
        <5>1. \A y \in DOMAIN profile : profile[y] = Hits(log, pos, y)
          BY DEF ParsedPrefix
        <5>2. profile'[key] = Hits(log, pos + 1, key)
          BY <3>1, <4>3, <4>4, <5>1
        <5> QED BY <3>1, <4>2, <5>1, <5>2
      <4>7. DOMAIN profile' = {KeyOf(log[k]) : k \in {j \in 1..(pos + 1) : IsEvent(log[j])}}
        BY <3>1, <4>1 DEF ParsedPrefix
      <4> QED BY <3>1, <4>5, <4>6, <4>7 DEF ParsedPrefix
    <3>5. PassedStages'
      BY <1>3, <3>1 DEF ParseLine, PassedStages, Maps
    <3> QED BY <3>3, <3>4, <3>5
  <2> QED BY <2>2, <2>3, <2>4
<1>4. CASE FinishParse /\ UNCHANGED <<graph, log>>
  <2>1. CASE DOMAIN profile = {} /\ Throw
    BY <1>4, <1>T, <2>1 DEF FinishParse, Ended
  <2>2. CASE DOMAIN profile # {} /\ pc' = "initialize" /\ UNCHANGED <<pos, profile, counts, pending, output>>
    <3>1. TypeOK'
      BY <1>4, <2>2 DEF TypeOK, Steps
    <3>2. ParsedPrefix'
      BY <1>4, <2>2 DEF ParsedPrefix
    <3>3. PassedStages'
      BY <1>4, <2>2 DEF FinishParse, PassedStages, Maps
    <3> QED BY <3>1, <3>2, <3>3
  <2> QED BY <1>4, <2>1, <2>2 DEF FinishParse
<1>5. CASE InitializeProfileFields /\ UNCHANGED <<graph, log>>
  <2>1. /\ counts' = InitialCounts(graph) /\ pending' = DOMAIN profile /\ pc' = "function"
        /\ UNCHANGED <<graph, log, pos, profile, output>>
    BY <1>5 DEF InitializeProfileFields, InitialFields
  <2>2. InitialCounts(graph) \in [Entities(graph) -> Nat \cup {NoCount}]
    BY DEF InitialCounts
  <2>3. TypeOK'
    BY <2>1, <2>2 DEF TypeOK, Steps
  <2>4. ParsedPrefix'
    BY <2>1 DEF ParsedPrefix
  <2>5. AppliedPart'
    BY <2>1 DEF AppliedPart, InitialCounts
  <2>6. PassedStages'
    BY <1>5, <2>1, <2>5 DEF InitializeProfileFields, PassedStages, Maps
  <2> QED BY <2>3, <2>4, <2>6
<1>6. ASSUME NEW x \in pending, ApplyRuntimeProfile(x), UNCHANGED <<graph, log>>
      PROVE  InductiveInvariant'
  <2>1. CASE ~ MayApply(x)
    BY <1>6, <1>T, <2>1 DEF ApplyRuntimeProfile, Ended, Maps
  <2>2. CASE MayApply(x)
    <3>1. /\ counts' = [counts EXCEPT ![x] = profile[x]] /\ pending' = pending \ {x}
          /\ UNCHANGED <<graph, log, pc, pos, profile, output>> /\ pc \in Maps
      BY <1>6, <2>2 DEF ApplyRuntimeProfile
    <3>2. x \in DOMAIN profile /\ profile[x] \in Nat /\ x \in Entities(graph)
      BY <1>6, <2>2 DEF TypeOK, MayApply, CountableKey
    <3>3. TypeOK'
      BY <3>1, <3>2 DEF TypeOK
    <3>4. ParsedPrefix'
      BY <3>1 DEF ParsedPrefix
    <3>5. AppliedPart'
      <4>1. AppliedPart
        BY <3>1 DEF PassedStages
      <4>2. DOMAIN profile \ pending' = (DOMAIN profile \ pending) \cup {x}
        BY <3>1, <3>2
      <4>3. \A y \in DOMAIN profile \ pending' : CountableKey(graph, y)
        BY <2>2, <4>1, <4>2 DEF AppliedPart, MayApply
      <4>4. counts' = [y \in Entities(graph) |->
                         IF y \in DOMAIN profile \ pending' THEN profile[y]
                         ELSE InitialCounts(graph)[y]]
        BY <3>1, <3>2, <4>1, <4>2 DEF AppliedPart
      <4> QED BY <3>1, <4>3, <4>4 DEF AppliedPart
    <3>6. PassedStages'
      BY <3>1, <3>5 DEF PassedStages, Maps
    <3> QED BY <3>3, <3>4, <3>6
  <2> QED BY <2>1, <2>2
<1>7. CASE EndOfMap /\ UNCHANGED <<graph, log>>
  <2>1. /\ pc \in Maps /\ pc' = NextStage[pc] /\ \A x \in pending : x[1] # pc
        /\ UNCHANGED <<graph, log, pos, profile, counts, pending, output>>
    BY <1>7 DEF EndOfMap, MapDone
  <2>2. TypeOK'
    BY <2>1 DEF TypeOK, Steps, Maps, NextStage
  <2>3. ParsedPrefix'
    BY <2>1 DEF ParsedPrefix
  <2>4. AppliedPart'
    BY <2>1 DEF PassedStages, AppliedPart
  <2>5. PassedStages'
    BY <2>1, <2>4 DEF PassedStages, Maps, NextStage
  <2> QED BY <2>2, <2>3, <2>5
<1>8. CASE WriteOutput /\ UNCHANGED <<graph, log>>
  <2>1. TypeOK'
    BY <1>8 DEF WriteOutput, TypeOK, Ended
  <2>2. ParsedPrefix'
    BY <1>8 DEF WriteOutput, ParsedPrefix
  <2>3. AppliedPart'
    BY <1>8 DEF WriteOutput, PassedStages, AppliedPart
  <2>4. PassedStages'
    BY <1>8, <2>3 DEF WriteOutput, PassedStages, Maps
  <2> QED BY <2>1, <2>2, <2>4
<1>9. CASE UNCHANGED vars
  BY <1>9 DEF vars, TypeOK, ParsedPrefix, PassedStages, AppliedPart
<1> QED
  BY <1>1, <1>2, <1>3, <1>4, <1>5, <1>6, <1>7, <1>8, <1>9 DEF Next

\* In every reachable state the counters mirror what has been read, applied
\* and checked.
THEOREM InvariantHolds == Spec => []InductiveInvariant
BY InitInvariant, StepInvariant, PTL DEF Spec

\* The tool's state keeps its types: the counts stay those of the entities of
\* the graph that was read, and no entry is pending that was not counted.
THEOREM TypeCorrect == Spec => []TypeOK
<1>1. InductiveInvariant => TypeOK
  BY DEF InductiveInvariant
<1> QED BY <1>1, InvariantHolds, PTL

\* When the tool has ended well its counts are the merge of the whole log.
LEMMA OkMeansMerged ==
  ASSUME InductiveInvariant, pc \in {"write", "ok"}
  PROVE  counts = Merged(graph, log) /\ Acceptable(graph, log)
<1> USE DEF InductiveInvariant
<1>1. pending = {} /\ pos = Len(log) /\ DOMAIN profile # {} /\ AppliedPart
  <2>1. \A x \in pending : x \in Key /\ x[1] \notin Maps
    BY DEF PassedStages, TypeOK, Maps, Key
  <2>2. pending = {}
    BY <2>1 DEF Key
  <2> QED BY <2>2 DEF PassedStages
<1>2. \A x \in Entities(graph) :
        (IF x \in DOMAIN profile THEN profile[x] ELSE InitialCounts(graph)[x])
          = Merged(graph, log)[x]
  <2> TAKE x \in Entities(graph)
  <2>1. CASE x \in DOMAIN profile
    BY <1>1, <2>1 DEF ParsedPrefix, TypeOK, Merged
  <2>2. CASE x \notin DOMAIN profile
    <3>1. {k \in 1..pos : IsEvent(log[k]) /\ KeyOf(log[k]) = x} = {}
      BY <2>2 DEF ParsedPrefix
    <3>2. Hits(log, Len(log), x) = 0
      BY <1>1, <3>1, FS_EmptySet DEF Hits
    <3> QED BY <2>2, <3>2 DEF Merged
  <2> QED BY <2>1, <2>2
<1>3. counts = Merged(graph, log)
  BY <1>1, <1>2 DEF AppliedPart, Merged
<1>4. Acceptable(graph, log)
  <2>1. \E k \in 1..Len(log) : IsEvent(log[k])
    BY <1>1 DEF ParsedPrefix
  <2>2. \A k \in 1..Len(log) : log[k].event \notin BadLines
    BY <1>1 DEF ParsedPrefix
  <2>3. \A k \in 1..Len(log) : IsEvent(log[k]) => CountableKey(graph, KeyOf(log[k]))
    BY <1>1 DEF ParsedPrefix, AppliedPart
  <2> QED BY <2>1, <2>2, <2>3 DEF Acceptable
<1> QED BY <1>3, <1>4

\* Whatever the graph, the log and the counts already in the input JSON, an
\* output that is not cut short holds for each entity exactly the number of its
\* events (parseRuntimeProfile, applyRuntimeProfile).
THEOREM OutputCorrect == Spec => []OutputIsMerge
<1>1. InductiveInvariant => OutputIsMerge
  BY OkMeansMerged DEF InductiveInvariant, PassedStages, OutputIsMerge
<1> QED BY <1>1, InvariantHolds, PTL

\* No log that is empty, has a bad line or belongs to another graph gets as far
\* as an output file (the throws of parseRuntimeProfileLine, main and the three
\* apply loops come before the file is opened).
THEOREM OutputOnlyWhenAcceptable == Spec => []NoOutputUnlessAcceptable
<1>1. InductiveInvariant => NoOutputUnlessAcceptable
  BY OkMeansMerged DEF InductiveInvariant, PassedStages, NoOutputUnlessAcceptable
<1> QED BY <1>1, InvariantHolds, PTL

\* The tool implements its contract: the whole run is one atomic merge or one
\* failure without an output.
THEOREM MergeImplementsContract == Spec => ImplementsContract
<1>1. Init => Contract!Init
  BY DEF Init, Contract!Init, Ended
<1>2. InductiveInvariant /\ [Next]_vars => [Contract!Next]_Contract!contractVars
  <2> SUFFICES ASSUME InductiveInvariant, [Next]_vars
               PROVE  Contract!Next \/ UNCHANGED Contract!contractVars
    OBVIOUS
  <2> DEFINE status == IF pc \in Ended THEN pc ELSE "running"
  <2>1. CASE WriteOutput /\ UNCHANGED <<graph, log>>
    <3>1. counts = Merged(graph, log) /\ Acceptable(graph, log)
      BY <2>1, OkMeansMerged DEF WriteOutput
    <3>2. Contract!Succeed
      BY <2>1, <3>1 DEF WriteOutput, Contract!Succeed, Ended
    <3> QED BY <3>2 DEF Contract!Next
  <2>2. CASE Throw /\ UNCHANGED <<graph, log>> /\ pc \notin Ended
    BY <2>2 DEF Throw, Contract!Fail, Contract!Next, Ended
  <2>3. CASE /\ UNCHANGED <<graph, log, output>>
             /\ pc \notin Ended /\ pc' \notin Ended
    BY <2>3 DEF Contract!contractVars
  <2>4. CASE UNCHANGED vars
    BY <2>4 DEF vars, Contract!contractVars
  <2>5. CASE Next
    <3>1. CASE LoadInputs
      BY <2>3, <2>5, <3>1 DEF Next, LoadInputs, Ended
    <3>2. CASE FileFailure
      BY <2>2, <2>5, <3>2 DEF Next, FileFailure, Ended
    <3>3. CASE ParseLine
      BY <2>2, <2>3, <2>5, <3>3 DEF Next, ParseLine, Ended
    <3>4. CASE FinishParse
      BY <2>2, <2>3, <2>5, <3>4 DEF Next, FinishParse, Ended
    <3>5. CASE InitializeProfileFields
      BY <2>3, <2>5, <3>5 DEF Next, InitializeProfileFields, Ended
    <3>6. CASE \E x \in pending : ApplyRuntimeProfile(x)
      BY <2>2, <2>3, <2>5, <3>6 DEF Next, ApplyRuntimeProfile, Ended, Maps
    <3>7. CASE EndOfMap
      BY <2>3, <2>5, <3>7 DEF Next, EndOfMap, Ended, Maps, NextStage
    <3>8. CASE WriteOutput
      BY <2>1, <2>5, <3>8 DEF Next
    <3> QED BY <2>5, <3>1, <3>2, <3>3, <3>4, <3>5, <3>6, <3>7, <3>8 DEF Next
  <2> QED BY <2>4, <2>5
<1> QED
  BY <1>1, <1>2, InvariantHolds, PTL DEF Spec, ImplementsContract, Contract!Spec

==============================================================================
