--------------------------- MODULE InjectPassProofs ---------------------------
(***************************************************************************)
(* Theorems about InjectPass, for every set of well-formed modules: the    *)
(* code it leaves is still a module that does what the original does, and  *)
(* logs every entry, direct call and control-flow edge once.               *)
(***************************************************************************)
EXTENDS InjectPass, IrGraphBuilderProofs

Early == DOMAIN NextPhase \cup {"built"}
CallsLogged == {"calls_logged", "splitting", "injected"}
Splitting == {"splitting", "injected"}

LEMMA Phases == Early = {"blocks", "nodes", "sequence", "control_flow", "data_flow", "info", "built"}
BY DEF Early, NextPhase

(***************************************************************************)
(* What the injection takes from the graph.                                *)
(***************************************************************************)
Ready ==
  /\ module \in Modules
  /\ \A f \in Functions(module) : functionIds[f] = f - 1
  /\ \A b \in Blocks(module) : basicBlockIds[b] = b - 1
  /\ \A e \in CfgEdges(module) : CfgKey(e[1], e[2]) \in DOMAIN cfgEdgeIds =>
       /\ cfgEdgeIds[CfgKey(e[1], e[2])] \in Int
       /\ \A j \in 1..(e[2] - 1) : Successors(module, e[1])[j] # EdgeTarget(module, e)
  /\ \A p \in Pointers(module) : IsDirectCall(module, Instr(module, p)) =>
       /\ CallKey(p) \in DOMAIN callEdgeIds
       /\ callEdgeIds[CallKey(p)] \in Int
       /\ edges[callEdgeIds[CallKey(p)] + 1].kind = "call"
       /\ edges[callEdgeIds[CallKey(p)] + 1].source_node = instructionNodeIds[p]

\* The built graph has it.
LEMMA ReadyWhenBuilt ==
  ASSUME IInv, Complete, phase = "built"
  PROVE  Ready
<1>1. module \in Modules /\ WellFormed(module)
  BY Known DEF IInv, Control
<1>2. /\ \A f \in Functions(module) : functionIds[f] = f - 1
      /\ \A b \in Blocks(module) : basicBlockIds[b] = b - 1
  BY AfterNodes
<1>3. ASSUME NEW e \in CfgEdges(module), CfgKey(e[1], e[2]) \in DOMAIN cfgEdgeIds
      PROVE  /\ cfgEdgeIds[CfgKey(e[1], e[2])] \in Int
             /\ \A j \in 1..(e[2] - 1) : Successors(module, e[1])[j] # EdgeTarget(module, e)
  <2> DEFINE firsts == {c \in CfgEdges(module) :
                          \A j \in 1..(c[2] - 1) :
                            Successors(module, c[1])[j] # EdgeTarget(module, c)}
             keyOf(c) == <<c[1] - 1, EdgeTarget(module, c) - 1, c[2] - 1>>
             key == CfgKey(e[1], e[2])
  <2>1. \A c \in CfgEdges(module) :
          /\ c[1] \in Blocks(module) /\ EdgeTarget(module, c) \in Blocks(module)
          /\ c[2] \in 1..Len(Successors(module, c[1])) /\ c = <<c[1], c[2]>>
    BY <1>1, CfgEdgesFinite
  <2>2. key = keyOf(e)
    BY <1>2, <2>1 DEF CfgKey, EdgeTarget
  <2>3. DOMAIN cfgEdgeIds = {keyOf(c) : c \in firsts}
    BY LookupIsFirst DEF LookupFindsFirstSuccessor
  <2>4. PICK c \in firsts : keyOf(c) = keyOf(e)
    BY <1>3, <2>2, <2>3
  <2>5. c = e
    <3>1. c \in CfgEdges(module) /\ c[1] - 1 = e[1] - 1 /\ c[2] - 1 = e[2] - 1
      BY <2>4
    <3>2. c[1] \in Int /\ e[1] \in Int /\ c[2] \in Int /\ e[2] \in Int
      BY <2>1, <3>1 DEF Blocks
    <3>3. c[1] = e[1] /\ c[2] = e[2]
      BY <3>1, <3>2
    <3> QED BY <2>1, <3>1, <3>3
  <2>6. PICK k \in LookedOfKind("control_flow") : key = CfgEdgeKey(edges[k])
    BY <1>3 DEF Complete, LookupKnown
  <2>7. PICK j \in LookedOfKind("control_flow") : cfgEdgeIds[key] = j - 1
    BY <2>6 DEF Complete, LookupKnown
  <2>8. j - 1 \in Int
    BY WhenBuilt, Known DEF LookedOfKind
  <2> QED BY <2>4, <2>5, <2>7, <2>8
<1>4. ASSUME NEW p \in Pointers(module), IsDirectCall(module, Instr(module, p))
      PROVE  /\ CallKey(p) \in DOMAIN callEdgeIds
             /\ callEdgeIds[CallKey(p)] \in Int
             /\ edges[callEdgeIds[CallKey(p)] + 1].kind = "call"
             /\ edges[callEdgeIds[CallKey(p)] + 1].source_node = instructionNodeIds[p]
  <2>1. PICK k \in 1..Len(edges) :
          /\ CallEdgesFrom(p) = {k}
          /\ edges[k].target_function = Instr(module, p).callee - 1
    BY <1>4, WhenBuilt DEF Complete, CallsKnown
  <2>2. /\ edges[k].kind = "call" /\ edges[k].source_node = instructionNodeIds[p]
        /\ k \in LookedOfKind("call")
    BY <2>1, WhenBuilt DEF CallEdgesFrom, LookedOfKind
  <2>3. Instr(module, p).callee \in Functions(module)
    BY <1>1, <1>4, InstrType DEF Instructions, IsDirectCall
  <2>4. CallKey(p) = CallEdgeKey(edges[k])
    BY <1>2, <2>1, <2>2, <2>3 DEF CallKey, CallEdgeKey
  <2>5. PICK j \in LookedOfKind("call") :
          /\ callEdgeIds[CallKey(p)] = j - 1
          /\ CallEdgeKey(edges[j]) = CallEdgeKey(edges[k])
    BY <2>2, <2>4 DEF Complete, LookupKnown
  <2>6. /\ j \in Int /\ edges[j].kind = "call" /\ edges[j].source_node = instructionNodeIds[p]
        /\ (j - 1) + 1 = j
    BY <2>2, <2>5, WhenBuilt, Known DEF LookedOfKind, CallEdgeKey
  <2>7. CallKey(p) \in DOMAIN callEdgeIds
    BY <2>2, <2>4 DEF Complete, LookupKnown
  <2> QED BY <2>5, <2>6, <2>7
<1> QED BY <1>1, <1>2, <1>3, <1>4 DEF Ready

(***************************************************************************)
(* The items of a block.                                                   *)
(***************************************************************************)
LogItems == [kind : {"log"}, event : {"func_enter", "bb_enter", "call_edge", "cfg_edge"}, id : Int]
EntryItems == {x \in LogItems : x.event \in {"func_enter", "bb_enter"}}
CallItems == {x \in LogItems : x.event = "call_edge"}
CfgItems == {x \in LogItems : x.event = "cfg_edge"}
OriginalItems(m) == {Original(p[1], p[2]) : p \in Pointers(m)}
Items(m) == OriginalItems(m) \cup LogItems \cup {Goto}

BodyOf(m, b) == [k \in DOMAIN m.body[b] |-> Original(b, k)]
LastOf(m, b) == Original(b, Len(m.body[b]))
Phis(m, b) == {Original(b, k) : k \in {j \in 1..Len(m.body[b]) : m.body[b][j].op = "phi"}}
Inner(m, b) == {Original(b, k) : k \in {j \in 1..(Len(m.body[b]) - 1) : m.body[b][j].op # "phi"}}
OpIn(m, x) == IF IsOriginal(x) THEN Instr(m, x.at).op ELSE "none"
Calls(m, x) == IsOriginal(x) /\ IsDirectCall(m, Instr(m, x.at))

LEMMA OriginalFields ==
  ASSUME NEW b, NEW k
  PROVE  IsOriginal(Original(b, k)) /\ Original(b, k).at = <<b, k>>
BY DEF IsOriginal, Original

LEMMA LogFields ==
  ASSUME NEW event, NEW id
  PROVE  LET x == Log(event, id) IN x.kind = "log" /\ x.event = event /\ x.id = id
BY DEF Log

LEMMA LogTypes ==
  /\ \A id \in Int : /\ Log("func_enter", id) \in EntryItems /\ Log("bb_enter", id) \in EntryItems
                     /\ Log("call_edge", id) \in CallItems /\ Log("cfg_edge", id) \in CfgItems
  /\ EntryItems \subseteq LogItems /\ CallItems \subseteq LogItems /\ CfgItems \subseteq LogItems
  /\ \A x \in LogItems : x.kind = "log" /\ ~ IsOriginal(x) /\ x # Goto
  /\ Goto.kind = "goto" /\ ~ IsOriginal(Goto)
BY DEF Log, EntryItems, CallItems, CfgItems, LogItems, IsOriginal, Goto

LEMMA OriginalTypes ==
  ASSUME NEW m
  PROVE  /\ \A x \in OriginalItems(m) :
              /\ IsOriginal(x) /\ x.kind = "instruction" /\ x \notin LogItems /\ x # Goto
              /\ x.at \in Pointers(m) /\ x = Original(x.at[1], x.at[2])
         /\ \A x \in Items(m) : IsOriginal(x) <=> x \in OriginalItems(m)
<1>1. \A x \in LogItems : x.kind = "log" /\ ~ IsOriginal(x)
  BY LogTypes
<1>2. Goto.kind = "goto" /\ ~ IsOriginal(Goto)
  BY LogTypes
<1>3. ASSUME NEW x \in OriginalItems(m)
      PROVE  /\ IsOriginal(x) /\ x.kind = "instruction" /\ x \notin LogItems /\ x # Goto
             /\ x.at \in Pointers(m) /\ x = Original(x.at[1], x.at[2])
  <2>1. PICK p \in Pointers(m) : x = Original(p[1], p[2])
    BY DEF OriginalItems
  <2>2. p = <<p[1], p[2]>>
    BY PointerParts
  <2>3. IsOriginal(x) /\ x.at = p
    BY <2>1, <2>2, OriginalFields
  <2> QED BY <1>1, <1>2, <2>1, <2>3 DEF IsOriginal
<1> QED BY <1>1, <1>2, <1>3 DEF Items

LEMMA BlockItems ==
  ASSUME NEW m, WellFormed(m), NEW b \in Blocks(m)
  PROVE  /\ \A x \in Phis(m, b) :
              /\ x \in OriginalItems(m) /\ IsOriginal(x) /\ OpIn(m, x) = "phi"
              /\ x.at[1] = b /\ ~ Calls(m, x)
         /\ \A x \in Inner(m, b) :
              /\ x \in OriginalItems(m) /\ IsOriginal(x) /\ x.at[1] = b
              /\ OpIn(m, x) \notin {"phi"} \cup Terminators
         /\ LastOf(m, b) \in OriginalItems(m) /\ IsOriginal(LastOf(m, b))
         /\ LastOf(m, b).at = Terminator(m, b) /\ LastOf(m, b).at[1] = b
         /\ OpIn(m, LastOf(m, b)) \in Terminators /\ OpIn(m, LastOf(m, b)) # "phi"
         /\ \A x \in LogItems \cup {Goto} : OpIn(m, x) = "none" /\ ~ Calls(m, x)
<1>1. Len(m.body[b]) \in Nat \ {0}
  BY BodyType
<1>2. \A k \in 1..Len(m.body[b]) : m.body[b][k].op \in Terminators <=> k = Len(m.body[b])
  BY DEF WellFormed
<1>3. ASSUME NEW k \in 1..Len(m.body[b])
      PROVE  /\ Original(b, k) \in OriginalItems(m) /\ IsOriginal(Original(b, k))
             /\ Original(b, k).at = <<b, k>> /\ Original(b, k).at[1] = b
             /\ OpIn(m, Original(b, k)) = m.body[b][k].op
  <2>1. <<b, k>> \in Pointers(m)
    BY PointerParts
  <2>2. IsOriginal(Original(b, k)) /\ Original(b, k).at = <<b, k>>
    BY OriginalFields
  <2> QED BY <2>1, <2>2 DEF OriginalItems, OpIn, Instr
<1>4. \A x \in Phis(m, b) :
        /\ x \in OriginalItems(m) /\ IsOriginal(x) /\ OpIn(m, x) = "phi" /\ x.at[1] = b
  BY <1>3 DEF Phis
<1>5. \A x \in Phis(m, b) : ~ Calls(m, x)
  BY <1>4 DEF Calls, OpIn, IsDirectCall, IsCall
<1>6. ASSUME NEW x \in Inner(m, b)
      PROVE  /\ x \in OriginalItems(m) /\ IsOriginal(x) /\ x.at[1] = b
             /\ OpIn(m, x) \notin {"phi"} \cup Terminators
  <2>1. PICK k \in 1..(Len(m.body[b]) - 1) : m.body[b][k].op # "phi" /\ x = Original(b, k)
    BY DEF Inner
  <2>2. k \in 1..Len(m.body[b]) /\ k # Len(m.body[b])
    BY <1>1
  <2> QED BY <1>2, <1>3, <2>1, <2>2
<1>7. /\ LastOf(m, b) \in OriginalItems(m) /\ IsOriginal(LastOf(m, b))
      /\ LastOf(m, b).at = Terminator(m, b) /\ LastOf(m, b).at[1] = b
      /\ OpIn(m, LastOf(m, b)) \in Terminators /\ OpIn(m, LastOf(m, b)) # "phi"
  <2>1. Len(m.body[b]) \in 1..Len(m.body[b])
    BY <1>1
  <2> QED BY <1>2, <1>3, <2>1 DEF LastOf, Terminator, Terminators
<1>8. \A x \in LogItems \cup {Goto} : OpIn(m, x) = "none" /\ ~ Calls(m, x)
  BY LogTypes DEF OpIn, Calls
<1> QED BY <1>4, <1>5, <1>6, <1>7, <1>8

\* The parts of the code the properties look at, by the sets of their items.
LEMMA KeptItems ==
  ASSUME NEW m, NEW v \in Seq(Items(m))
  PROVE  /\ Originals(v) = KeptIn(v, OriginalItems(m))
         /\ EntryLogs(v) = KeptIn(v, EntryItems)
         /\ CfgLogs(v) = KeptIn(v, CfgItems)
<1>1. \A k \in DOMAIN v : v[k] \in Items(m)
  OBVIOUS
<1>2. ASSUME NEW x \in Items(m)
      PROVE  /\ IsOriginal(x) <=> x \in OriginalItems(m)
             /\ IsLogOf(x, {"func_enter", "bb_enter"}) <=> x \in EntryItems
             /\ IsLogOf(x, {"cfg_edge"}) <=> x \in CfgItems
  <2>1. x.kind = "log" <=> x \in LogItems
    BY LogTypes, OriginalTypes DEF Items
  <2> QED BY <2>1, OriginalTypes DEF IsLogOf, EntryItems, CfgItems
<1>3. [k \in DOMAIN v |-> IF IsOriginal(v[k]) THEN <<v[k]>> ELSE <<>>]
        = [k \in DOMAIN v |-> IF v[k] \in OriginalItems(m) THEN <<v[k]>> ELSE <<>>]
  BY <1>1, <1>2
<1>4. [k \in DOMAIN v |-> IF IsLogOf(v[k], {"func_enter", "bb_enter"}) THEN <<v[k]>> ELSE <<>>]
        = [k \in DOMAIN v |-> IF v[k] \in EntryItems THEN <<v[k]>> ELSE <<>>]
  BY <1>1, <1>2
<1>5. [k \in DOMAIN v |-> IF IsLogOf(v[k], {"cfg_edge"}) THEN <<v[k]>> ELSE <<>>]
        = [k \in DOMAIN v |-> IF v[k] \in CfgItems THEN <<v[k]>> ELSE <<>>]
  BY <1>1, <1>2
<1> QED BY <1>3, <1>4, <1>5 DEF Originals, EntryLogs, CfgLogs, Kept, KeptIn, Cat, Only

(***************************************************************************)
(* A block as the insertions leave it: the phis it begins with, the other  *)
(* instructions before its terminator with the logs among them, and the    *)
(* terminator.                                                             *)
(***************************************************************************)
Middles(m, b) == Inner(m, b) \cup EntryItems \cup CallItems
Laid(m, b, head, mid) == Join(head, Join(mid, <<LastOf(m, b)>>))

IsLaid(m, b, head, mid) ==
  /\ head \in Seq(Phis(m, b)) /\ mid \in Seq(Middles(m, b))
  /\ Laid(m, b, head, KeptIn(mid, OriginalItems(m))) = BodyOf(m, b)

EntryOf(m, b) ==
  Join(IF IsEntryBlock(m, b) THEN <<Log("func_enter", m.function_of[b] - 1)>> ELSE <<>>,
       <<Log("bb_enter", b - 1)>>)

LEMMA MiddleTypes ==
  ASSUME NEW m, WellFormed(m), NEW b \in Blocks(m)
  PROVE  /\ Phis(m, b) \subseteq Items(m) /\ Middles(m, b) \subseteq Items(m)
         /\ Inner(m, b) \subseteq OriginalItems(m) /\ OriginalItems(m) \subseteq Items(m)
         /\ LastOf(m, b) \in Items(m) /\ LogItems \subseteq Items(m) /\ Goto \in Items(m)
         /\ \A x \in Middles(m, b) : /\ OpIn(m, x) \notin {"phi"} \cup Terminators
                                     /\ x # Goto /\ x \notin CfgItems
                                     /\ IsOriginal(x) => x.at[1] = b
         /\ \A T : T \subseteq Items(m) => Seq(T) \subseteq Seq(Items(m))
<1>1. /\ \A x \in Phis(m, b) : x \in OriginalItems(m)
      /\ \A x \in Inner(m, b) : /\ x \in OriginalItems(m) /\ x.at[1] = b
                                /\ OpIn(m, x) \notin {"phi"} \cup Terminators
      /\ LastOf(m, b) \in OriginalItems(m)
      /\ \A x \in LogItems \cup {Goto} : OpIn(m, x) = "none"
  BY BlockItems
<1>2. /\ \A x \in OriginalItems(m) : x \notin LogItems /\ x # Goto
      /\ EntryItems \subseteq LogItems /\ CallItems \subseteq LogItems
      /\ CfgItems \subseteq LogItems
      /\ \A x \in LogItems : ~ IsOriginal(x) /\ x # Goto
  BY LogTypes, OriginalTypes
<1>3. EntryItems \cap CfgItems = {} /\ CallItems \cap CfgItems = {}
  BY DEF EntryItems, CallItems, CfgItems
<1>4. "none" \notin {"phi"} \cup Terminators
  BY DEF Terminators
<1>5. \A x \in Middles(m, b) : \/ x \in Inner(m, b)
                               \/ x \in EntryItems \cup CallItems
  BY DEF Middles
<1>6. /\ Phis(m, b) \subseteq Items(m) /\ Inner(m, b) \subseteq OriginalItems(m)
      /\ OriginalItems(m) \subseteq Items(m) /\ LogItems \subseteq Items(m)
      /\ LastOf(m, b) \in Items(m) /\ Goto \in Items(m)
  BY <1>1 DEF Items
<1>7. Middles(m, b) \subseteq Items(m)
  BY <1>2, <1>5, <1>6
<1>8. \A x \in Middles(m, b) : /\ OpIn(m, x) \notin {"phi"} \cup Terminators
                               /\ x # Goto /\ x \notin CfgItems
                               /\ IsOriginal(x) => x.at[1] = b
  BY <1>1, <1>2, <1>3, <1>4, <1>5
<1>9. \A T : T \subseteq Items(m) => Seq(T) \subseteq Seq(Items(m))
  OBVIOUS
<1> QED BY <1>6, <1>7, <1>8, <1>9

\* The body of a block of the module begins with its phis and ends with its terminator.
LEMMA BodyIsLaid ==
  ASSUME NEW m, WellFormed(m), NEW b \in Blocks(m)
  PROVE  \E head, mid : /\ IsLaid(m, b, head, mid) /\ mid \in Seq(Inner(m, b))
                        /\ BodyOf(m, b) = Laid(m, b, head, mid)
<1> DEFINE body == m.body[b]
           n == Len(body)
           others == {k \in 1..n : body[k].op # "phi"}
<1>0. body \in Seq(Instructions(m)) /\ n \in Nat /\ n # 0
  BY BodyType
<1>1. n \in Nat \ {0} /\ DOMAIN body = 1..n
  BY <1>0
<1>2. \A k \in 1..n : /\ body[k].op \in Terminators <=> k = n
                      /\ body[k].op = "phi" /\ k > 1 => body[k - 1].op = "phi"
  BY DEF WellFormed
<1>3. n \in others
  BY <1>1, <1>2 DEF Terminators
<1>4. PICK x \in others : \A y \in others : x <= y
  <2>1. others \subseteq Nat
    OBVIOUS
  <2> HIDE DEF others
  <2> QED BY <1>3, <2>1, Minimum
<1>5. \A k \in x..n : body[k].op # "phi"
  <2> SUFFICES ASSUME NEW z \in x..n, body[z].op = "phi" PROVE FALSE
    OBVIOUS
  <2> DEFINE late == {k \in x..n : body[k].op = "phi"}
  <2>1. PICK y \in late : \A k \in late : y <= k
    <3>1. late \subseteq Nat /\ z \in late
      BY <1>4
    <3> HIDE DEF late
    <3> QED BY <3>1, Minimum
  <2>2. y \in 1..n /\ y > 1 /\ y - 1 \in x..n /\ y # x
    <3>1. x \in 1..n /\ body[x].op # "phi"
      BY <1>4
    <3> QED BY <1>1, <2>1, <3>1
  <2>3. body[y - 1].op = "phi"
    BY <1>2, <2>1, <2>2
  <2>4. y - 1 \in late /\ y \in Int
    BY <2>2, <2>3
  <2>5. y <= y - 1
    <3> HIDE DEF late
    <3> QED BY <2>1, <2>4
  <2> QED BY <2>4, <2>5
<1>6. \A k \in 1..(x - 1) : k \in 1..n /\ body[k].op = "phi"
  BY <1>1, <1>4
<1>7. x \in 1..n /\ x <= n
  BY <1>3, <1>4
<1>8. /\ BodyOf(m, b) \in Seq(OriginalItems(m)) /\ Len(BodyOf(m, b)) = n
      /\ \A k \in 1..n : BodyOf(m, b)[k] = Original(b, k)
  <2>1. BodyOf(m, b) = [k \in 1..n |-> Original(b, k)]
    BY <1>1 DEF BodyOf
  <2>2. ASSUME NEW k \in 1..n PROVE Original(b, k) \in OriginalItems(m)
    <3>1. <<b, k>> \in Pointers(m)
      BY PointerParts
    <3> QED BY <3>1 DEF OriginalItems
  <2> QED BY <1>1, <2>1, <2>2
<1>9. PICK B \in Seq(OriginalItems(m)) : B = BodyOf(m, b)
  BY <1>8
<1>10. /\ Len(B) = n /\ x - 1 \in 0..n /\ (x - 1) + 1 = x
       /\ \A k \in 1..n : B[k] = Original(b, k)
  BY <1>1, <1>7, <1>8, <1>9
<1> HIDE DEF n, others
<1>11. PICK head \in Seq(OriginalItems(m)), rest \in Seq(OriginalItems(m)) :
         IsCut(B, x - 1, head, rest)
  <2>1. PICK q : q = x - 1
    OBVIOUS
  <2>2. IsPlaceIn(B, q)
    BY <1>10, <2>1 DEF IsPlaceIn
  <2>3. PICK head, rest \in Seq(OriginalItems(m)) : IsCut(B, q, head, rest)
    BY <2>2, CutAt
  <2> QED BY <2>1, <2>3
<1>12. /\ B = Join(head, rest) /\ Len(head) = x - 1 /\ Len(rest) = n - (x - 1)
       /\ \A k \in 1..(x - 1) : head[k] = B[k]
       /\ \A k \in 1..(n - (x - 1)) : rest[k] = B[(x - 1) + k]
  BY <1>10, <1>11 DEF IsCut
<1>13. /\ \A k \in 1..(x - 1) : head[k] = Original(b, k)
       /\ n - x \in 0..Len(rest) /\ Len(rest) - (n - x) = 1 /\ n - x \in Nat
       /\ \A k \in 1..(n - x) : /\ rest[k] = Original(b, (x - 1) + k)
                                /\ (x - 1) + k \in 1..(n - 1) /\ (x - 1) + k \in x..n
       /\ rest[(n - x) + 1] = Original(b, n)
  <2>1. \A k \in 1..(n - x) : (x - 1) + k \in 1..(n - 1) /\ (x - 1) + k \in x..n
    BY <1>1, <1>7
  <2>2. \A k \in 1..(n - (x - 1)) : rest[k] = Original(b, (x - 1) + k)
    <3>1. \A k \in 1..(n - (x - 1)) : (x - 1) + k \in 1..n
      BY <1>1, <1>7
    <3> QED BY <1>10, <1>12, <3>1
  <2>3. /\ \A k \in 1..(n - x) : k \in 1..(n - (x - 1))
        /\ (n - x) + 1 \in 1..(n - (x - 1)) /\ (x - 1) + ((n - x) + 1) = n
        /\ \A k \in 1..(x - 1) : k \in 1..n
    BY <1>1, <1>7
  <2>4. n - x \in 0..Len(rest) /\ Len(rest) - (n - x) = 1 /\ n - x \in Nat
    BY <1>1, <1>7, <1>12
  <2>5. rest[(n - x) + 1] = Original(b, n)
    BY <2>2, <2>3
  <2> QED BY <1>10, <1>12, <2>1, <2>2, <2>3, <2>4, <2>5
<1>14. PICK mid \in Seq(OriginalItems(m)), last \in Seq(OriginalItems(m)) :
         IsCut(rest, n - x, mid, last)
  <2>1. PICK q : q = n - x
    OBVIOUS
  <2>2. IsPlaceIn(rest, q)
    BY <1>13, <2>1 DEF IsPlaceIn
  <2>3. PICK mid, last \in Seq(OriginalItems(m)) : IsCut(rest, q, mid, last)
    BY <2>2, CutAt
  <2> QED BY <2>1, <2>3
<1>15. /\ rest = Join(mid, last) /\ Len(mid) = n - x /\ Len(last) = 1
       /\ \A k \in 1..(n - x) : mid[k] = rest[k]
       /\ last[1] = rest[(n - x) + 1]
  BY <1>13, <1>14 DEF IsCut
<1>16. last = <<Original(b, n)>>
  <2>1. last[1] = Original(b, n)
    BY <1>13, <1>15
  <2> QED BY <1>15, <2>1
<1>17. head \in Seq(Phis(m, b))
  <2>1. ASSUME NEW k \in 1..(x - 1) PROVE head[k] \in Phis(m, b)
    <3>1. head[k] = Original(b, k)
      BY <1>13
    <3> QED BY <1>6, <3>1 DEF Phis, n
  <2> QED BY <1>12, <2>1
<1>18. mid \in Seq(Inner(m, b))
  <2>1. ASSUME NEW k \in 1..(n - x) PROVE mid[k] \in Inner(m, b)
    <3>1. (x - 1) + k \in 1..(n - 1) /\ (x - 1) + k \in x..n
      BY <1>13
    <3>2. mid[k] = Original(b, (x - 1) + k)
      BY <1>13, <1>15
    <3> QED BY <1>5, <3>1, <3>2 DEF Inner, n
  <2> QED BY <1>13, <1>15, <2>1
<1>19. BodyOf(m, b) = Laid(m, b, head, mid)
  BY <1>9, <1>12, <1>15, <1>16 DEF Laid, LastOf, n
<1>20. KeptIn(mid, OriginalItems(m)) = mid
  <2>1. Inner(m, b) \subseteq OriginalItems(m)
    BY MiddleTypes
  <2> QED BY <1>18, <2>1, KeptAll
<1>21. mid \in Seq(Middles(m, b))
  <2>1. Inner(m, b) \subseteq Middles(m, b)
    BY DEF Middles
  <2> QED BY <1>18, <2>1
<1> QED BY <1>20, <1>21, <1>17, <1>18, <1>19 DEF IsLaid

LEMMA LaidTypes ==
  ASSUME NEW m, WellFormed(m), NEW b \in Blocks(m),
         NEW head \in Seq(Phis(m, b)), NEW mid \in Seq(Middles(m, b)),
         NEW v, v = Laid(m, b, head, mid)
  PROVE  /\ head \in Seq(Items(m)) /\ mid \in Seq(Items(m)) /\ <<LastOf(m, b)>> \in Seq(Items(m))
         /\ v \in Seq(Items(m)) /\ Len(head) \in Nat /\ Len(mid) \in Nat
         /\ Len(v) = (Len(head) + Len(mid)) + 1
         /\ \A k \in 1..Len(head) : k \in 1..Len(v) /\ v[k] = head[k] /\ v[k] \in Phis(m, b)
         /\ \A k \in 1..Len(mid) : /\ Len(head) + k \in 1..Len(v)
                                   /\ v[Len(head) + k] = mid[k] /\ mid[k] \in Middles(m, b)
         /\ \A k \in 1..Len(v) : \/ k \in 1..Len(head)
                                 \/ k - Len(head) \in 1..Len(mid) /\ v[k] = mid[k - Len(head)]
                                 \/ k = Len(v) /\ v[k] = LastOf(m, b)
<1>1. /\ head \in Seq(Items(m)) /\ mid \in Seq(Items(m)) /\ <<LastOf(m, b)>> \in Seq(Items(m))
  <2>1. LastOf(m, b) \in Items(m)
    BY MiddleTypes
  <2> QED BY <2>1, MiddleTypes
<1>2. PICK last \in Seq(Items(m)) : last = <<LastOf(m, b)>>
  BY <1>1
<1>3. /\ IsVector(head) /\ IsVector(mid) /\ IsVector(last) /\ Len(last) = 1
      /\ Len(head) \in Nat /\ Len(mid) \in Nat /\ last[1] = LastOf(m, b)
      /\ \A k \in 1..Len(head) : head[k] \in Phis(m, b)
      /\ \A k \in 1..Len(mid) : mid[k] \in Middles(m, b)
  <2>1. IsVector(head) /\ \A k \in 1..Len(head) : head[k] \in Phis(m, b)
    BY VectorOf
  <2>2. IsVector(mid) /\ \A k \in 1..Len(mid) : mid[k] \in Middles(m, b)
    BY VectorOf
  <2>3. IsVector(last)
    BY VectorOf
  <2>4. Len(last) = 1 /\ last[1] = LastOf(m, b)
    BY <1>2
  <2> QED BY <2>1, <2>2, <2>3, <2>4, VectorDomain
<1>4. PICK w \in Seq(Items(m)) : w = Join(mid, last)
  <2>1. Join(mid, last) \in Seq(Items(m))
    BY <1>1, JoinType
  <2> QED BY <2>1
<1>5. /\ Len(w) = Len(mid) + 1
      /\ \A k \in 1..Len(mid) : w[k] = mid[k]
      /\ \A k \in 1..Len(w) : k \in 1..Len(mid) \/ (k = Len(w) /\ w[k] = LastOf(m, b))
  <2>1. /\ Len(w) = Len(mid) + Len(last)
        /\ \A k \in 1..Len(mid) : w[k] = mid[k]
        /\ \A k \in 1..Len(w) :
             \/ k \in 1..Len(mid)
             \/ k - Len(mid) \in 1..Len(last) /\ w[k] = last[k - Len(mid)]
    <3>1. IsJoin(Items(m), mid, last, w)
      BY <1>1, <1>2, <1>4 DEF IsJoin
    <3> QED BY <3>1, JoinParts
  <2>2. \A k \in 1..Len(w) : k - Len(mid) \in 1..Len(last) => k - Len(mid) = 1 /\ k = Len(w)
    BY <1>3, <2>1
  <2> QED BY <1>3, <2>1, <2>2
<1>6. v = Join(head, w)
  BY <1>2, <1>4 DEF Laid
<1>7. /\ Len(v) = Len(head) + Len(w)
      /\ \A k \in 1..Len(head) : v[k] = head[k]
      /\ \A k \in 1..Len(w) : v[Len(head) + k] = w[k]
      /\ \A k \in 1..Len(v) :
           \/ k \in 1..Len(head)
           \/ k - Len(head) \in 1..Len(w) /\ v[k] = w[k - Len(head)]
  <2>1. IsJoin(Items(m), head, w, v)
    BY <1>1, <1>6 DEF IsJoin
  <2> QED BY <2>1, JoinParts
<1>8. v \in Seq(Items(m))
  BY <1>1, <1>6, JoinType
<1>9. Len(v) = (Len(head) + Len(mid)) + 1
  BY <1>3, <1>5, <1>7
<1>10. \A k \in 1..Len(head) : k \in 1..Len(v)
  BY <1>3, <1>9
<1>11. \A k \in 1..Len(mid) : Len(head) + k \in 1..Len(v) /\ k \in 1..Len(w)
  BY <1>3, <1>5, <1>9
<1>12. \A k \in 1..Len(v) : k - Len(head) = Len(w) => k = Len(v)
  BY <1>3, <1>5, <1>7
<1>13. \A k \in 1..Len(v) : \/ k \in 1..Len(head)
                            \/ k - Len(head) \in 1..Len(mid) /\ v[k] = mid[k - Len(head)]
                            \/ k = Len(v) /\ v[k] = LastOf(m, b)
  BY <1>5, <1>7, <1>12
<1> QED BY <1>1, <1>3, <1>5, <1>7, <1>8, <1>9, <1>10, <1>11, <1>13

EntryPoint(m, v) == Cardinality({k \in DOMAIN v : OpIn(m, v[k]) \in {"phi", "landingpad"}})
IsInside(at, head, mid) == at \in Len(head)..(Len(head) + Len(mid))

\* The entry log goes behind the phis and before the terminator.
LEMMA EntryPointInside ==
  ASSUME NEW m, WellFormed(m), NEW b \in Blocks(m),
         NEW head \in Seq(Phis(m, b)), NEW mid \in Seq(Middles(m, b)),
         NEW v, v = Laid(m, b, head, mid)
  PROVE  IsInside(EntryPoint(m, v), head, mid)
<1> DEFINE K == {k \in DOMAIN v : OpIn(m, v[k]) \in {"phi", "landingpad"}}
           p == Len(head)
           n == Len(head) + Len(mid)
<1>1. /\ v \in Seq(Items(m)) /\ p \in Nat /\ Len(mid) \in Nat /\ Len(v) = n + 1
      /\ \A k \in 1..p : k \in 1..Len(v) /\ v[k] = head[k] /\ v[k] \in Phis(m, b)
      /\ \A k \in 1..Len(v) : \/ k \in 1..p
                              \/ k - p \in 1..Len(mid) /\ v[k] = mid[k - p]
                              \/ k = Len(v) /\ v[k] = LastOf(m, b)
  BY LaidTypes
<1>2. DOMAIN v = 1..Len(v)
  BY <1>1
<1>3. 1..p \subseteq K
  <2>1. \A x \in Phis(m, b) : OpIn(m, x) = "phi"
    BY BlockItems
  <2> QED BY <1>1, <1>2, <2>1
<1>4. K \subseteq 1..n
  <2>1. OpIn(m, LastOf(m, b)) \in Terminators
    BY BlockItems
  <2>2. OpIn(m, LastOf(m, b)) \notin {"phi", "landingpad"}
    BY <2>1 DEF Terminators
  <2>3. \A k \in 1..Len(v) : k \in 1..p \/ k - p \in 1..Len(mid) => k \in 1..n
    BY <1>1
  <2> QED BY <1>1, <1>2, <2>2, <2>3
<1>5. n \in Nat
  BY <1>1
<1> HIDE DEF K, n, p
<1>6. /\ IsFiniteSet(1..n) /\ Cardinality(1..n) = n
      /\ IsFiniteSet(1..p) /\ Cardinality(1..p) = p
  <2>1. p \in Nat
    BY <1>1
  <2>2. \A i \in Nat : IsFiniteSet(1..i) /\ Cardinality(1..i) = i
    <3> SUFFICES ASSUME NEW i \in Nat PROVE IsFiniteSet(1..i) /\ Cardinality(1..i) = i
      OBVIOUS
    <3>1. IsFiniteSet(1..i) /\ Cardinality(1..i) = IF 1 > i THEN 0 ELSE i - 1 + 1
      BY FS_Interval
    <3>2. (IF 1 > i THEN 0 ELSE i - 1 + 1) = i
      OBVIOUS
    <3> QED BY <3>1, <3>2
  <2> QED BY <1>5, <2>1, <2>2
<1>7. IsFiniteSet(K) /\ Cardinality(K) <= n
  BY <1>4, <1>6, FS_Subset
<1>8. p <= Cardinality(K)
  <2>1. Cardinality(1..p) <= Cardinality(K)
    BY <1>3, <1>7, FS_Subset
  <2> QED BY <1>6, <2>1
<1>9. Cardinality(K) \in Nat
  BY <1>7, FS_CardinalityType
<1>10. Cardinality(K) \in p..n
  BY <1>1, <1>5, <1>7, <1>8, <1>9
<1> QED BY <1>10 DEF K, n, p, EntryPoint, IsInside

\* Up to where the entry log goes there is no call: behind the phis a landing
\* pad at most.
NoCallUpTo(m, head, mid, at) ==
  \A k \in 1..Len(mid) : k <= at - Len(head) => OpIn(m, mid[k]) # "call"

LEMMA NoCallBefore ==
  ASSUME NEW m, WellFormed(m), NEW b \in Blocks(m), NEW head, NEW mid,
         IsLaid(m, b, head, mid), mid \in Seq(Inner(m, b)), NEW v, v = Laid(m, b, head, mid)
  PROVE  NoCallUpTo(m, head, mid, EntryPoint(m, v))
<1> DEFINE K == {k \in DOMAIN v : OpIn(m, v[k]) \in {"phi", "landingpad"}}
           p == Len(head)
<1>0. head \in Seq(Phis(m, b)) /\ mid \in Seq(Middles(m, b))
  BY DEF IsLaid
<1>1. /\ v \in Seq(Items(m)) /\ p \in Nat /\ Len(mid) \in Nat /\ Len(v) = (p + Len(mid)) + 1
      /\ \A k \in 1..p : k \in 1..Len(v) /\ v[k] \in Phis(m, b)
      /\ \A k \in 1..Len(mid) : p + k \in 1..Len(v) /\ v[p + k] = mid[k] /\ mid[k] \in Middles(m, b)
      /\ \A k \in 1..Len(v) : \/ k \in 1..p
                              \/ k - p \in 1..Len(mid) /\ v[k] = mid[k - p]
                              \/ k = Len(v) /\ v[k] = LastOf(m, b)
  BY <1>0, LaidTypes
<1>2. DOMAIN v = 1..Len(v)
  BY <1>1
<1>3. v = BodyOf(m, b)
  <2>1. Inner(m, b) \subseteq OriginalItems(m)
    BY MiddleTypes
  <2>2. KeptIn(mid, OriginalItems(m)) = mid
    BY <2>1, KeptAll
  <2> QED BY <2>2 DEF IsLaid
<1>4. \A k \in 1..Len(v) : k \in 1..Len(m.body[b]) /\ OpIn(m, v[k]) = m.body[b][k].op
  <2>1. DOMAIN BodyOf(m, b) = DOMAIN m.body[b]
    BY DEF BodyOf
  <2>2. DOMAIN m.body[b] = 1..Len(m.body[b])
    BY BodyType
  <2>3. \A k \in DOMAIN m.body[b] : BodyOf(m, b)[k] = Original(b, k)
    BY DEF BodyOf
  <2>4. \A k \in DOMAIN m.body[b] : OpIn(m, Original(b, k)) = m.body[b][k].op
    BY OriginalFields DEF OpIn, Instr
  <2> QED BY <1>2, <1>3, <2>1, <2>2, <2>3, <2>4
<1>5. \A k \in 1..Len(v) : OpIn(m, v[k]) = "phi" => k \in 1..p
  <2>1. \A x \in Middles(m, b) : OpIn(m, x) # "phi"
    BY MiddleTypes
  <2>2. OpIn(m, LastOf(m, b)) # "phi"
    BY BlockItems
  <2> QED BY <1>1, <2>1, <2>2
<1>6. ASSUME NEW k \in 1..Len(v), OpIn(m, v[k]) = "landingpad"
      PROVE  k <= p + 1
  <2>1. k = 1 \/ m.body[b][k - 1].op = "phi"
    <3>1. \A j \in 1..Len(m.body[b]) :
            m.body[b][j].op = "landingpad" => j = 1 \/ m.body[b][j - 1].op = "phi"
      BY DEF WellFormed
    <3> QED BY <1>4, <1>6, <3>1
  <2>2. CASE k = 1
    BY <1>1, <2>2
  <2>3. CASE k # 1
    <3>1. k - 1 \in 1..Len(v)
      BY <1>1, <2>3
    <3>2. k - 1 \in 1..p
      BY <1>4, <1>5, <2>1, <2>3, <3>1
    <3> QED BY <1>1, <3>2
  <2> QED BY <2>2, <2>3
<1>7. K \subseteq 1..(p + 1)
  BY <1>1, <1>2, <1>5, <1>6
<1>8. p + 1 \notin K => K \subseteq 1..p
  BY <1>1, <1>7
<1>9. p + 1 \in K => OpIn(m, v[p + 1]) # "call"
  OBVIOUS
<1> HIDE DEF K, p
<1>10. ASSUME NEW n \in Nat, K \subseteq 1..n
       PROVE  Cardinality(K) \in Nat /\ Cardinality(K) <= n
  <2>1. IsFiniteSet(1..n) /\ Cardinality(1..n) = IF 1 > n THEN 0 ELSE n - 1 + 1
    BY FS_Interval
  <2>2. IsFiniteSet(K) /\ Cardinality(K) <= Cardinality(1..n)
    BY <1>10, <2>1, FS_Subset
  <2>3. Cardinality(K) \in Nat
    BY <2>2, FS_CardinalityType
  <2>4. (IF 1 > n THEN 0 ELSE n - 1 + 1) = n
    OBVIOUS
  <2> QED BY <2>1, <2>2, <2>3, <2>4
<1>11. Cardinality(K) \in Nat /\ Cardinality(K) <= p + 1
  <2>1. p + 1 \in Nat
    BY <1>1
  <2> QED BY <1>7, <1>10, <2>1
<1>12. p + 1 \notin K => Cardinality(K) <= p
  BY <1>1, <1>8, <1>10
<1>13. ASSUME NEW k \in 1..Len(mid), k <= Cardinality(K) - p
       PROVE  OpIn(m, mid[k]) # "call"
  <2>1. k = 1 /\ p + 1 \in K
    BY <1>1, <1>11, <1>12, <1>13
  <2>2. mid[k] = v[p + 1]
    BY <1>1, <2>1
  <2> QED BY <1>9, <2>1, <2>2
<1> QED BY <1>13 DEF NoCallUpTo, EntryPoint, K, p

LEMMA EntryOfType ==
  ASSUME NEW m, WellFormed(m), NEW b \in Blocks(m)
  PROVE  EntryOf(m, b) \in Seq(EntryItems)
<1>1. m.function_of[b] - 1 \in Int /\ b - 1 \in Int
  <2>1. m.function_of[b] \in Functions(m)
    BY BodyType
  <2> QED BY <2>1 DEF Blocks, Functions
<1>2. Log("func_enter", m.function_of[b] - 1) \in EntryItems /\ Log("bb_enter", b - 1) \in EntryItems
  BY <1>1, LogTypes
<1> QED BY <1>2, JoinType, ShortSequences DEF EntryOf

\* The entry logs are together, and no call is before them.
CallsNothing(m, b) == {x \in Inner(m, b) : OpIn(m, x) # "call"}
EntriesIn(m, b, mid) ==
  \E x \in Seq(CallsNothing(m, b)) : \E y \in Seq(Inner(m, b) \cup CallItems) :
    mid = Join(x, Join(EntryOf(m, b), y))

IsEntryLogged(m, b, head, mid) ==
  /\ IsLaid(m, b, head, mid) /\ mid \in Seq(Inner(m, b) \cup EntryItems)
  /\ EntriesIn(m, b, mid)
  /\ KeptIn(mid, EntryItems) = EntryOf(m, b)
AreEntries(f, e, all) == f \in Seq(EntryItems) /\ e \in Seq(EntryItems) /\ Join(f, e) = all

\* The entry logs inserted where getFirstInsertionPt says.
LEMMA EntryLogged ==
  ASSUME NEW m, WellFormed(m), NEW b \in Blocks(m), NEW head, NEW mid,
         IsLaid(m, b, head, mid), mid \in Seq(Inner(m, b)), NEW v, v = Laid(m, b, head, mid),
         NEW at, IsInside(at, head, mid), NoCallUpTo(m, head, mid, at),
         NEW f, NEW e, AreEntries(f, e, EntryOf(m, b))
  PROVE  \E new : /\ IsEntryLogged(m, b, head, new)
                  /\ Join(Join(Join(Upto(v, at), f), e), After(v, at))
                       = Laid(m, b, head, new)
<1>0. /\ at \in Len(head)..(Len(head) + Len(mid))
      /\ f \in Seq(EntryItems) /\ e \in Seq(EntryItems) /\ Join(f, e) = EntryOf(m, b)
  BY DEF IsInside, AreEntries
<1>1. /\ head \in Seq(Phis(m, b)) /\ mid \in Seq(Middles(m, b))
      /\ Laid(m, b, head, KeptIn(mid, OriginalItems(m))) = BodyOf(m, b)
  BY DEF IsLaid
<1>2. Len(head) \in Nat /\ Len(mid) \in Nat
  BY <1>1
<1>3. PICK q : q = at - Len(head)
  OBVIOUS
<1>4. IsPlaceIn(mid, q) /\ Len(head) + q = at
  BY <1>0, <1>2, <1>3 DEF IsPlaceIn
<1>5. PICK x, y \in Seq(Inner(m, b)) : IsCut(mid, q, x, y)
  BY <1>4, CutAt
<1>6. mid = Join(x, y) /\ Len(x) = q
  BY <1>5 DEF IsCut
<1> DEFINE S == Items(m)
<1>7. PICK last : last = <<LastOf(m, b)>>
  OBVIOUS
<1>8. /\ head \in Seq(S) /\ x \in Seq(S) /\ y \in Seq(S) /\ f \in Seq(S) /\ e \in Seq(S)
      /\ last \in Seq(S)
  <2>1. /\ Phis(m, b) \subseteq S /\ Inner(m, b) \subseteq S /\ EntryItems \subseteq S
        /\ LastOf(m, b) \in S
    BY MiddleTypes DEF Middles
  <2> HIDE DEF S
  <2> QED BY <1>0, <1>1, <1>7, <2>1
<1> HIDE DEF S
<1>9. /\ \A c, d \in Seq(S) : Join(c, d) \in Seq(S)
      /\ \A c, d, h \in Seq(S) : Join(Join(c, d), h) = Join(c, Join(d, h))
      /\ \A c \in Seq(S) : Join(c, <<>>) = c /\ Join(<<>>, c) = c
  <2>1. \A c, d \in Seq(S) : Join(c, d) \in Seq(S)
    BY JoinType
  <2>2. \A c, d, h \in Seq(S) : Join(Join(c, d), h) = Join(c, Join(d, h))
    BY JoinAssociative
  <2>3. \A c \in Seq(S) : Join(c, <<>>) = c /\ Join(<<>>, c) = c
    BY JoinEmpty
  <2> QED BY <2>1, <2>2, <2>3
<1>10. PICK before, after : before = Join(head, x) /\ after = Join(y, last)
  OBVIOUS
<1>11. IsJoin(S, before, after, v) /\ Len(before) = at
  <2>1. before \in Seq(S) /\ after \in Seq(S)
    BY <1>8, <1>9, <1>10
  <2>2. v = Join(head, Join(Join(x, y), last))
    BY <1>6, <1>7 DEF Laid
  <2>3. v = Join(before, after)
    BY <1>8, <1>9, <1>10, <2>2
  <2>4. IsJoin(S, head, x, before)
    BY <1>8, <1>10 DEF IsJoin
  <2>5. Len(before) = Len(head) + Len(x)
    BY <2>4, JoinParts
  <2> QED BY <1>4, <1>6, <2>1, <2>3, <2>5 DEF IsJoin
<1>13. Upto(v, at) = before /\ After(v, at) = after
  <2>1. IsJoinAt(S, before, after, v, at)
    BY <1>11 DEF IsJoinAt
  <2> QED BY <2>1, CutJoin
<1>14. PICK entry : entry = EntryOf(m, b)
  OBVIOUS
<1>15. entry = Join(f, e) /\ entry \in Seq(S) /\ entry \in Seq(EntryItems)
  BY <1>0, <1>8, <1>9, <1>14, JoinType
<1>12. PICK new : new = Join(x, Join(entry, y))
  OBVIOUS
<1>16. Join(Join(Join(before, f), e), after) = Laid(m, b, head, new)
  <2>1. Join(Join(Join(before, f), e), after) = Join(before, Join(entry, after))
    BY <1>8, <1>9, <1>11, <1>15 DEF IsJoin
  <2>2. Join(before, Join(entry, after)) = Join(head, Join(x, Join(entry, after)))
    BY <1>8, <1>9, <1>10, <1>11, <1>15 DEF IsJoin
  <2>3. Join(new, last) = Join(x, Join(entry, after))
    <3>1. PICK r \in Seq(S) : r = Join(entry, y)
      BY <1>8, <1>9, <1>15
    <3>2. Join(new, last) = Join(x, Join(r, last))
      BY <1>8, <1>9, <1>12, <3>1
    <3>3. Join(r, last) = Join(entry, after)
      BY <1>8, <1>9, <1>10, <1>15, <3>1
    <3> QED BY <3>2, <3>3
  <2> QED BY <1>7, <2>1, <2>2, <2>3 DEF Laid
<1>17. /\ KeptIn(new, OriginalItems(m)) = KeptIn(mid, OriginalItems(m))
       /\ KeptIn(new, EntryItems) = entry
  <2>0. Join(entry, y) \in Seq(S)
    BY <1>8, <1>9, <1>15
  <2>1. \A T : KeptIn(new, T) = Join(KeptIn(x, T), Join(KeptIn(entry, T), KeptIn(y, T)))
    BY <1>8, <1>12, <1>15, <2>0, KeptOfJoin
  <2>2. /\ Inner(m, b) \subseteq OriginalItems(m) /\ Inner(m, b) \cap EntryItems = {}
        /\ EntryItems \cap OriginalItems(m) = {}
    BY MiddleTypes, OriginalTypes, LogTypes
  <2>3. /\ KeptIn(x, OriginalItems(m)) = x /\ KeptIn(y, OriginalItems(m)) = y
        /\ KeptIn(mid, OriginalItems(m)) = mid
        /\ KeptIn(x, EntryItems) = <<>> /\ KeptIn(y, EntryItems) = <<>>
    BY <2>2, KeptAll
  <2>4. KeptIn(entry, OriginalItems(m)) = <<>> /\ KeptIn(entry, EntryItems) = entry
    BY <1>15, <2>2, KeptAll
  <2>5. Join(<<>>, y) = y /\ Join(entry, <<>>) = entry /\ Join(<<>>, entry) = entry
    BY <1>8, <1>9, <1>15
  <2> QED BY <1>6, <2>1, <2>3, <2>4, <2>5
<1>18. new \in Seq(Inner(m, b) \cup EntryItems)
  <2>1. x \in Seq(Inner(m, b) \cup EntryItems) /\ y \in Seq(Inner(m, b) \cup EntryItems)
    BY SeqMonotonic
  <2>2. entry \in Seq(Inner(m, b) \cup EntryItems)
    BY <1>15, SeqMonotonic
  <2> QED BY <1>12, <2>1, <2>2, JoinType
<1>19. new \in Seq(Middles(m, b))
  <2>1. Inner(m, b) \cup EntryItems \subseteq Middles(m, b)
    BY DEF Middles
  <2> QED BY <1>18, <2>1, SeqMonotonic
<1>20. IsLaid(m, b, head, new)
  BY <1>1, <1>17, <1>19 DEF IsLaid
<1>21. EntriesIn(m, b, new)
  <2>1. \A k \in 1..q : k \in 1..Len(mid) /\ x[k] = mid[k] /\ OpIn(m, x[k]) # "call"
    <3>1. q \in Nat /\ q <= Len(mid)
      BY <1>2, <1>4 DEF IsPlaceIn
    <3>2. \A k \in 1..q : k \in 1..Len(mid) /\ k <= at - Len(head)
      BY <1>2, <1>3, <3>1
    <3>3. \A k \in 1..q : x[k] = mid[k]
      BY <1>5 DEF IsCut
    <3> QED BY <3>2, <3>3 DEF NoCallUpTo
  <2>2. x \in Seq(CallsNothing(m, b))
    <3>1. \A k \in 1..Len(x) : x[k] \in CallsNothing(m, b)
      BY <1>6, <2>1 DEF CallsNothing
    <3> QED BY <3>1
  <2>3. y \in Seq(Inner(m, b) \cup CallItems)
    BY SeqMonotonic
  <2> QED BY <1>12, <1>14, <2>2, <2>3 DEF EntriesIn
<1> QED BY <1>13, <1>14, <1>16, <1>17, <1>18, <1>20, <1>21 DEF IsEntryLogged

(***************************************************************************)
(* The logs of calls: each right before a direct call, under the id K has  *)
(* for it, and no direct call without one.                                 *)
(***************************************************************************)
IsNaming(m, K) == \A p \in Pointers(m) : IsDirectCall(m, Instr(m, p)) => K[p] \in Int

CallRule(m, K) == [x \in Items(m) |->
  IF Calls(m, x) THEN <<Log("call_edge", K[x.at]), x>> ELSE <<x>>]

Paired(m, K, v) ==
  /\ \A k \in 1..Len(v) : v[k] \in CallItems =>
       k + 1 \in 1..Len(v) /\ Calls(m, v[k + 1]) /\ v[k].id = K[v[k + 1].at]
  /\ \A k \in 1..Len(v) : Calls(m, v[k]) => k - 1 \in 1..Len(v) /\ v[k - 1] \in CallItems

LEMMA PairedJoined ==
  ASSUME NEW S, NEW m, NEW K, NEW v, NEW w, NEW u, IsJoin(S, v, w, u),
         Paired(m, K, v), Paired(m, K, w)
  PROVE  Paired(m, K, u)
<1> DEFINE n == Len(v)
<1>1. /\ Len(u) = n + Len(w) /\ n \in Nat /\ Len(w) \in Nat
      /\ \A k \in 1..n : k \in 1..Len(u) /\ u[k] = v[k]
      /\ \A k \in 1..Len(w) : n + k \in 1..Len(u) /\ u[n + k] = w[k]
      /\ \A k \in 1..Len(u) : \/ k \in 1..n /\ u[k] = v[k]
                              \/ k - n \in 1..Len(w) /\ u[k] = w[k - n]
  BY JoinParts
<1>2. \A k \in 1..Len(u) : (n + (k - n)) = k /\ n + ((k - n) + 1) = k + 1 /\ n + ((k - n) - 1) = k - 1
  BY <1>1
<1> HIDE DEF n
<1>3. ASSUME NEW k \in 1..Len(u), u[k] \in CallItems
      PROVE  k + 1 \in 1..Len(u) /\ Calls(m, u[k + 1]) /\ u[k].id = K[u[k + 1].at]
  <2>1. CASE k \in 1..n /\ u[k] = v[k]
    <3>1. k + 1 \in 1..n /\ Calls(m, v[k + 1]) /\ v[k].id = K[v[k + 1].at]
      BY <1>3, <2>1 DEF Paired, n
    <3> QED BY <1>1, <2>1, <3>1
  <2>2. CASE k - n \in 1..Len(w) /\ u[k] = w[k - n]
    <3>1. PICK j \in 1..Len(w) : j = k - n
      BY <2>2
    <3>2. j + 1 \in 1..Len(w) /\ Calls(m, w[j + 1]) /\ w[j].id = K[w[j + 1].at]
      BY <1>3, <2>2, <3>1 DEF Paired
    <3>3. n + (j + 1) = k + 1
      BY <1>2, <3>1
    <3>4. k + 1 \in 1..Len(u) /\ u[k + 1] = w[j + 1]
      BY <1>1, <3>2, <3>3
    <3> QED BY <2>2, <3>1, <3>2, <3>4
  <2> QED BY <1>1, <2>1, <2>2
<1>4. ASSUME NEW k \in 1..Len(u), Calls(m, u[k])
      PROVE  k - 1 \in 1..Len(u) /\ u[k - 1] \in CallItems
  <2>1. CASE k \in 1..n /\ u[k] = v[k]
    <3>1. k - 1 \in 1..n /\ v[k - 1] \in CallItems
      BY <1>4, <2>1 DEF Paired, n
    <3> QED BY <1>1, <3>1
  <2>2. CASE k - n \in 1..Len(w) /\ u[k] = w[k - n]
    <3>1. PICK j \in 1..Len(w) : j = k - n
      BY <2>2
    <3>2. j - 1 \in 1..Len(w) /\ w[j - 1] \in CallItems
      BY <1>4, <2>2, <3>1 DEF Paired
    <3>3. n + (j - 1) = k - 1
      BY <1>2, <3>1
    <3> QED BY <1>1, <3>2, <3>3
  <2> QED BY <1>1, <2>1, <2>2
<1> QED BY <1>3, <1>4 DEF Paired

\* Where nothing logs a call and nothing calls.
LEMMA NothingPaired ==
  ASSUME NEW m, NEW K, NEW v, \A k \in 1..Len(v) : v[k] \notin CallItems /\ ~ Calls(m, v[k])
  PROVE  Paired(m, K, v)
BY DEF Paired

\* The rule, and what it makes of one item that is no log of a call.
LEMMA CallRuleType ==
  ASSUME NEW m, NEW K, IsNaming(m, K)
  PROVE  /\ IsRule(CallRule(m, K), Items(m), Items(m))
         /\ \A x \in Items(m) : Calls(m, x) =>
              /\ x \in OriginalItems(m) /\ Log("call_edge", K[x.at]) \in CallItems
              /\ CallRule(m, K)[x] = <<Log("call_edge", K[x.at]), x>>
         /\ \A x \in Items(m) : ~ Calls(m, x) => CallRule(m, K)[x] = <<x>>
<1>1. ASSUME NEW x \in Items(m), Calls(m, x)
      PROVE  /\ x \in OriginalItems(m) /\ Log("call_edge", K[x.at]) \in CallItems
             /\ Log("call_edge", K[x.at]) \in Items(m)
  <2>1. x \in OriginalItems(m) /\ x.at \in Pointers(m)
    BY <1>1, OriginalTypes DEF Calls
  <2>2. K[x.at] \in Int
    BY <1>1, <2>1 DEF IsNaming, Calls
  <2> QED BY <2>1, <2>2, LogTypes DEF Items
<1>2. ASSUME NEW x \in Items(m), Calls(m, x)
      PROVE  <<Log("call_edge", K[x.at]), x>> \in Seq(Items(m))
  BY <1>1, <1>2
<1>3. \A x \in Items(m) : <<x>> \in Seq(Items(m))
  BY ShortSequences
<1> QED BY <1>1, <1>2, <1>3 DEF IsRule, CallRule

LEMMA CallsPaired ==
  ASSUME NEW m, NEW K, IsNaming(m, K), NEW v \in Seq(Items(m) \ CallItems)
  PROVE  Paired(m, K, Spread(v, CallRule(m, K)))
<1> DEFINE g == CallRule(m, K)
           S == Items(m)
           R == Items(m) \ CallItems
           P == {u \in Seq(R) : Paired(m, K, Spread(u, g))}
<1>1. /\ IsRule(g, S, S)
      /\ \A x \in S : Calls(m, x) =>
           /\ x \in OriginalItems(m) /\ Log("call_edge", K[x.at]) \in CallItems
           /\ g[x] = <<Log("call_edge", K[x.at]), x>>
      /\ \A x \in S : ~ Calls(m, x) => g[x] = <<x>>
  BY CallRuleType
<1> HIDE DEF g
<1>2. <<>> \in P
  <2>1. Spread(<<>>, g) = <<>>
    BY SpreadEmpty
  <2>2. Paired(m, K, <<>>)
    BY NothingPaired
  <2> QED BY <2>1, <2>2
<1>3. ASSUME NEW x \in R PROVE Paired(m, K, g[x])
  <2>1. CASE Calls(m, x)
    <3>1. PICK l : l = Log("call_edge", K[x.at])
      OBVIOUS
    <3>2. g[x] = <<l, x>> /\ l \in CallItems /\ x \notin CallItems /\ l.id = K[x.at]
      BY <1>1, <2>1, <3>1, LogFields
    <3>3. ~ Calls(m, l)
      BY <3>2, LogTypes DEF Calls
    <3>4. PICK u : u = <<l, x>>
      OBVIOUS
    <3>5. Len(u) = 2 /\ u[1] = l /\ u[2] = x /\ 1..2 = {1, 2} /\ 1 + 1 = 2 /\ 2 - 1 = 1
      BY <3>4
    <3>6. Paired(m, K, u)
      BY <2>1, <3>2, <3>3, <3>5 DEF Paired
    <3> QED BY <3>2, <3>4, <3>6
  <2>2. CASE ~ Calls(m, x)
    <3>1. PICK u : u = <<x>>
      OBVIOUS
    <3>2. Len(u) = 1 /\ u[1] = x /\ 1..1 = {1}
      BY <3>1
    <3>3. g[x] = u
      BY <1>1, <2>2, <3>1
    <3> QED BY <2>2, <3>2, <3>3, NothingPaired
  <2> QED BY <2>1, <2>2
<1>4. ASSUME NEW u \in Seq(R), u \in P, NEW x \in R PROVE Append(u, x) \in P
  <2>1. u \in Seq(S) /\ x \in S
    <3>1. R \subseteq S
      OBVIOUS
    <3> HIDE DEF R, S
    <3> QED BY <3>1, SeqMonotonic
  <2>2. /\ Spread(u, g) \in Seq(S)
        /\ Spread(Append(u, x), g) = Join(Spread(u, g), g[x])
    <3> HIDE DEF S
    <3> QED BY <1>1, <2>1, SpreadAppend DEF Join
  <2>3. g[x] \in Seq(S)
    BY <1>1, <2>1 DEF IsRule
  <2>4. PICK a, c, d : a = Spread(u, g) /\ c = g[x] /\ d = Spread(Append(u, x), g)
    OBVIOUS
  <2>5. IsJoin(S, a, c, d)
    BY <2>2, <2>3, <2>4 DEF IsJoin
  <2>6. Paired(m, K, a) /\ Paired(m, K, c)
    BY <1>3, <1>4, <2>4
  <2>7. Paired(m, K, d)
    BY <2>5, <2>6, PairedJoined
  <2>8. Append(u, x) \in Seq(R)
    OBVIOUS
  <2> QED BY <2>4, <2>7, <2>8
<1>5. Seq(R) \subseteq P
  <2> HIDE DEF P, R
  <2> QED BY <1>2, <1>4, SequenceInduction
<1> QED BY <1>5 DEF g

\* The rule adds nothing but logs of calls.
LEMMA CallRuleKeeps ==
  ASSUME NEW m, NEW K, IsNaming(m, K), NEW v \in Seq(Items(m)), NEW T, T \cap CallItems = {}
  PROVE  KeptIn(Spread(v, CallRule(m, K)), T) = KeptIn(v, T)
<1> DEFINE g == CallRule(m, K)
           S == Items(m)
<1>1. /\ IsRule(g, S, S)
      /\ \A x \in S : Calls(m, x) =>
           /\ x \in OriginalItems(m) /\ Log("call_edge", K[x.at]) \in CallItems
           /\ g[x] = <<Log("call_edge", K[x.at]), x>>
      /\ \A x \in S : ~ Calls(m, x) => g[x] = <<x>>
  BY CallRuleType
<1>2. CallItems \subseteq S
  BY LogTypes DEF Items
<1> HIDE DEF g, S
<1>3. ASSUME NEW x \in S PROVE KeptIn(g[x], T) = IF x \in T THEN <<x>> ELSE <<>>
  <2>1. KeptIn(<<x>>, T) = IF x \in T THEN <<x>> ELSE <<>>
    BY KeptOne
  <2>2. CASE Calls(m, x)
    <3>1. PICK l : l = Log("call_edge", K[x.at])
      OBVIOUS
    <3>2. g[x] = <<l, x>> /\ l \in CallItems /\ l \in S /\ l \notin T
      BY <1>1, <1>2, <2>2, <3>1
    <3>3. KeptIn(<<l>>, T) = <<>>
      BY <3>2, KeptOne
    <3>4. <<l>> \in Seq(S) /\ <<x>> \in Seq(S)
      BY <3>2, ShortSequences
    <3>5. <<l, x>> = Join(<<l>>, <<x>>)
      BY DEF Join
    <3>6. PICK a, c : a = <<l>> /\ c = <<x>>
      OBVIOUS
    <3>7. KeptIn(Join(a, c), T) = Join(KeptIn(a, T), KeptIn(c, T))
      BY <3>4, <3>6, KeptOfJoin
    <3>8. KeptIn(c, T) \in Seq(S)
      BY <3>4, <3>6, KeptJoined
    <3>9. Join(<<>>, KeptIn(c, T)) = KeptIn(c, T)
      BY <3>8, JoinEmpty
    <3>10. KeptIn(<<l, x>>, T) = KeptIn(<<x>>, T)
      BY <3>3, <3>5, <3>6, <3>7, <3>9
    <3> QED BY <2>1, <3>2, <3>10
  <2>3. CASE ~ Calls(m, x)
    BY <1>1, <2>1, <2>3
  <2> QED BY <2>2, <2>3
<1>4. v \in Seq(S)
  BY DEF S
<1>5. KeptIn(Spread(v, g), T) = KeptIn(v, T)
  BY <1>1, <1>3, <1>4, KeptOfSpread
<1> QED BY <1>5 DEF g

\* The rule leaves what is before the entry logs, and these, as they are.
LEMMA EntriesSpread ==
  ASSUME NEW m, WellFormed(m), NEW b \in Blocks(m), NEW K, IsNaming(m, K),
         NEW mid, EntriesIn(m, b, mid)
  PROVE  EntriesIn(m, b, Spread(mid, CallRule(m, K)))
<1> DEFINE g == CallRule(m, K)
           S == Items(m)
           R == Inner(m, b) \cup CallItems
<1>1. /\ IsRule(g, S, S)
      /\ \A x \in S : Calls(m, x) =>
           /\ Log("call_edge", K[x.at]) \in CallItems /\ g[x] = <<Log("call_edge", K[x.at]), x>>
      /\ \A x \in S : ~ Calls(m, x) => g[x] = <<x>>
  BY CallRuleType
<1>2. PICK x \in Seq(CallsNothing(m, b)), y \in Seq(R) : mid = Join(x, Join(EntryOf(m, b), y))
  BY DEF EntriesIn
<1>3. PICK entry : entry = EntryOf(m, b)
  OBVIOUS
<1>4. entry \in Seq(EntryItems)
  BY <1>3, EntryOfType
<1>5. /\ CallsNothing(m, b) \subseteq S /\ R \subseteq S /\ EntryItems \subseteq S
      /\ \A z \in CallsNothing(m, b) \cup EntryItems : ~ Calls(m, z)
      /\ \A z \in R : Calls(m, z) => z \in Inner(m, b)
  <2>1. Middles(m, b) \subseteq S /\ LogItems \subseteq S /\ EntryItems \subseteq LogItems
        /\ CallItems \subseteq LogItems
    BY MiddleTypes, LogTypes
  <2>2. \A z \in LogItems : ~ Calls(m, z)
    BY BlockItems
  <2>3. \A z \in Inner(m, b) : OpIn(m, z) \notin Terminators
    BY BlockItems
  <2>4. \A z \in Inner(m, b) : Calls(m, z) => OpIn(m, z) = "call"
    BY <2>3 DEF Calls, IsDirectCall, IsCall, OpIn, Terminators
  <2> QED BY <2>1, <2>2, <2>4 DEF CallsNothing, Middles
<1> HIDE DEF S
<1>6. x \in Seq(S) /\ y \in Seq(S) /\ entry \in Seq(S)
  BY <1>2, <1>4, <1>5, SeqMonotonic
<1> HIDE DEF g
<1>7. Spread(x, g) = x
  <2>1. \A z \in CallsNothing(m, b) : g[z] = <<z>>
    BY <1>1, <1>5
  <2> QED BY <2>1, SpreadKeepsThese
<1>8. Spread(entry, g) = entry
  <2>1. \A z \in EntryItems : g[z] = <<z>>
    BY <1>1, <1>5
  <2> QED BY <1>4, <2>1, SpreadKeepsThese
<1>9. Spread(y, g) \in Seq(R)
  <2> DEFINE h == [z \in R |-> g[z]]
  <2>1. ASSUME NEW z \in R PROVE g[z] \in Seq(R)
    <3>1. CASE Calls(m, z)
      <4>1. PICK l : l = Log("call_edge", K[z.at])
        OBVIOUS
      <4>2. g[z] = <<l, z>> /\ l \in R
        BY <1>1, <1>5, <3>1, <4>1
      <4>3. <<l, z>> \in Seq(R)
        BY <4>2
      <4> QED BY <4>2, <4>3
    <3>2. CASE ~ Calls(m, z)
      <4>1. g[z] = <<z>>
        BY <1>1, <1>5, <3>2
      <4>2. <<z>> \in Seq(R)
        BY ShortSequences
      <4> QED BY <4>1, <4>2
    <3> QED BY <3>1, <3>2
  <2>2. IsRule(h, R, R) /\ \A z \in R : h[z] = g[z]
    BY <2>1 DEF IsRule
  <2> HIDE DEF h, R
  <2>3. Spread(y, h) = Spread(y, g)
    BY <2>2, SpreadAgrees
  <2>4. Spread(y, h) \in Seq(R)
    BY <2>2, SpreadType
  <2> QED BY <2>3, <2>4
<1>10. Spread(mid, g) = Join(x, Join(entry, Spread(y, g)))
  <2>1. \A v, w \in Seq(S) : Spread(Join(v, w), g) = Join(Spread(v, g), Spread(w, g))
    BY <1>1, SpreadOfJoin
  <2>2. Join(entry, y) \in Seq(S)
    BY <1>6, JoinType
  <2>3. Spread(mid, g) = Join(Spread(x, g), Spread(Join(entry, y), g))
    BY <1>2, <1>3, <1>6, <2>1, <2>2
  <2>4. Spread(Join(entry, y), g) = Join(Spread(entry, g), Spread(y, g))
    BY <1>6, <2>1
  <2> QED BY <1>7, <1>8, <2>3, <2>4
<1> QED BY <1>3, <1>9, <1>10 DEF EntriesIn, g

\* Applied to a block, the rule leaves its parts where they are.
LEMMA CallLogged ==
  ASSUME NEW m, WellFormed(m), NEW b \in Blocks(m), NEW K, IsNaming(m, K),
         NEW head, NEW mid, IsLaid(m, b, head, mid), mid \in Seq(Inner(m, b) \cup EntryItems),
         EntriesIn(m, b, mid)
  PROVE  \E new : /\ IsLaid(m, b, head, new) /\ EntriesIn(m, b, new)
                  /\ KeptIn(new, EntryItems) = KeptIn(mid, EntryItems)
                  /\ Paired(m, K, Join(new, <<LastOf(m, b)>>))
                  /\ Spread(Laid(m, b, head, mid), CallRule(m, K)) = Laid(m, b, head, new)
<1> DEFINE g == CallRule(m, K)
           S == Items(m)
           R == Inner(m, b) \cup EntryItems
<1>1. /\ IsRule(g, S, S)
      /\ \A x \in S : Calls(m, x) =>
           /\ x \in OriginalItems(m) /\ Log("call_edge", K[x.at]) \in CallItems
           /\ g[x] = <<Log("call_edge", K[x.at]), x>>
      /\ \A x \in S : ~ Calls(m, x) => g[x] = <<x>>
  BY CallRuleType
<1>2. /\ head \in Seq(Phis(m, b)) /\ mid \in Seq(Middles(m, b))
      /\ Laid(m, b, head, KeptIn(mid, OriginalItems(m))) = BodyOf(m, b)
  BY DEF IsLaid
<1>3. /\ Phis(m, b) \subseteq S /\ Middles(m, b) \subseteq S /\ R \subseteq S
      /\ LastOf(m, b) \in S /\ LastOf(m, b) \in OriginalItems(m)
      /\ CallItems \subseteq S /\ CallItems \cap OriginalItems(m) = {}
      /\ CallItems \cap EntryItems = {} /\ R \cap CallItems = {}
      /\ CallItems \subseteq Middles(m, b) /\ R \subseteq Middles(m, b)
      /\ EntryItems \cap OriginalItems(m) = {}
  <2>1. /\ Phis(m, b) \subseteq S /\ Middles(m, b) \subseteq S /\ LastOf(m, b) \in S
        /\ Inner(m, b) \subseteq OriginalItems(m)
    BY MiddleTypes
  <2>2. R \subseteq Middles(m, b) /\ CallItems \subseteq Middles(m, b)
    BY DEF Middles
  <2>3. LastOf(m, b) \in OriginalItems(m)
    BY BlockItems
  <2>4. /\ CallItems \cap OriginalItems(m) = {} /\ EntryItems \cap OriginalItems(m) = {}
    BY OriginalTypes, LogTypes
  <2>5. CallItems \cap EntryItems = {}
    BY DEF CallItems, EntryItems
  <2> QED BY <2>1, <2>2, <2>3, <2>4, <2>5
<1>4. PICK last : last = <<LastOf(m, b)>>
  OBVIOUS
<1>5. /\ head \in Seq(S) /\ mid \in Seq(S) /\ last \in Seq(S)
      /\ mid \in Seq(R) /\ last \in Seq(S \ CallItems)
  <2>1. LastOf(m, b) \in S \ CallItems
    BY <1>3
  <2> HIDE DEF S
  <2> QED BY <1>2, <1>3, <1>4, <2>1, SeqMonotonic, ShortSequences
<1>6. mid \in Seq(S \ CallItems)
  <2>1. R \subseteq S \ CallItems
    BY <1>3
  <2> HIDE DEF R, S
  <2> QED BY <1>5, <2>1, SeqMonotonic
<1>7. Spread(head, g) = head
  <2>1. \A x \in Phis(m, b) : ~ Calls(m, x)
    BY BlockItems
  <2>2. \A x \in Phis(m, b) : g[x] = <<x>>
    BY <1>1, <1>3, <2>1
  <2> HIDE DEF g
  <2> QED BY <1>2, <2>2, SpreadKeepsThese
<1>8. Spread(mid, g) \in Seq(Middles(m, b))
  <2> DEFINE h == [x \in R |-> g[x]]
  <2>1. ASSUME NEW x \in R PROVE g[x] \in Seq(Middles(m, b))
    <3>1. x \in Middles(m, b) /\ x \in S
      BY <1>3
    <3>2. CASE Calls(m, x)
      <4>1. Log("call_edge", K[x.at]) \in Middles(m, b)
        BY <1>1, <1>3, <3>1, <3>2
      <4>2. PICK l : l = Log("call_edge", K[x.at])
        OBVIOUS
      <4>3. g[x] = <<l, x>> /\ l \in Middles(m, b)
        BY <1>1, <3>1, <3>2, <4>1, <4>2
      <4>4. <<l, x>> \in Seq(Middles(m, b))
        BY <3>1, <4>3
      <4> QED BY <4>3, <4>4
    <3>3. CASE ~ Calls(m, x)
      <4>1. g[x] = <<x>>
        BY <1>1, <3>1, <3>3
      <4>2. <<x>> \in Seq(Middles(m, b))
        BY <3>1, ShortSequences
      <4> QED BY <4>1, <4>2
    <3> QED BY <3>2, <3>3
  <2>2. IsRule(h, R, Middles(m, b)) /\ \A x \in R : h[x] = g[x]
    BY <2>1 DEF IsRule
  <2> HIDE DEF g, h, R
  <2>3. Spread(mid, h) = Spread(mid, g)
    BY <1>5, <2>2, SpreadAgrees
  <2>4. Spread(mid, h) \in Seq(Middles(m, b))
    BY <1>5, <2>2, SpreadType
  <2> QED BY <2>3, <2>4
<1>9. PICK m1 : m1 = Spread(mid, g)
  OBVIOUS
<1>10. Spread(Laid(m, b, head, mid), g) = Join(head, Join(m1, Spread(last, g)))
       /\ Spread(Join(mid, last), g) = Join(m1, Spread(last, g))
  <2> HIDE DEF g, S
  <2>1. \A v, w \in Seq(S) : Spread(Join(v, w), g) = Join(Spread(v, g), Spread(w, g))
    BY <1>1, SpreadOfJoin
  <2>2. Join(mid, last) \in Seq(S)
    BY <1>5, JoinType
  <2> QED BY <1>4, <1>5, <1>7, <1>9, <2>1, <2>2 DEF Laid
<1>11. /\ KeptIn(m1, OriginalItems(m)) = KeptIn(mid, OriginalItems(m))
       /\ KeptIn(m1, EntryItems) = KeptIn(mid, EntryItems)
  <2>1. OriginalItems(m) \cap CallItems = {} /\ EntryItems \cap CallItems = {}
    BY <1>3
  <2> QED BY <1>5, <1>9, <2>1, CallRuleKeeps
<1>12. Paired(m, K, Spread(Join(mid, last), g))
  <2>1. Join(mid, last) \in Seq(S \ CallItems)
    BY <1>5, <1>6, JoinType
  <2> QED BY <2>1, CallsPaired
<1>15. EntriesIn(m, b, m1)
  BY <1>9, EntriesSpread
<1> HIDE DEF g, S, R
<1>13. CASE ~ Calls(m, LastOf(m, b))
  <2>1. Spread(last, g) = last
    <3>1. g[LastOf(m, b)] = <<LastOf(m, b)>>
      BY <1>1, <1>3, <1>13
    <3>2. Spread(<<LastOf(m, b)>>, g) = g[LastOf(m, b)]
      BY <1>1, <1>3, SpreadOne
    <3> QED BY <1>4, <3>1, <3>2
  <2>2. IsLaid(m, b, head, m1)
    BY <1>2, <1>8, <1>9, <1>11 DEF IsLaid
  <2>3. Spread(Laid(m, b, head, mid), g) = Laid(m, b, head, m1)
    BY <1>4, <1>10, <2>1 DEF Laid
  <2> QED BY <1>4, <1>10, <1>11, <1>12, <1>15, <2>1, <2>2, <2>3 DEF g
<1>14. CASE Calls(m, LastOf(m, b))
  <2>1. PICK l : l = Log("call_edge", K[LastOf(m, b).at])
    OBVIOUS
  <2>2. PICK one : one = <<l>>
    OBVIOUS
  <2>3. l \in CallItems /\ g[LastOf(m, b)] = <<l, LastOf(m, b)>>
    BY <1>1, <1>3, <1>14, <2>1
  <2>4. Spread(last, g) = Join(one, last)
    <3>1. Spread(<<LastOf(m, b)>>, g) = g[LastOf(m, b)]
      BY <1>1, <1>3, SpreadOne
    <3>2. <<l, LastOf(m, b)>> = Join(one, last)
      BY <1>4, <2>2 DEF Join
    <3> QED BY <1>4, <2>3, <3>1, <3>2
  <2>5. /\ one \in Seq(Middles(m, b)) /\ m1 \in Seq(Middles(m, b))
        /\ one \in Seq(S) /\ m1 \in Seq(S)
    BY <1>3, <1>8, <1>9, <2>2, <2>3, ShortSequences, SeqMonotonic
  <2>6. PICK new : new = Join(m1, one)
    OBVIOUS
  <2>7. new \in Seq(Middles(m, b))
    BY <2>5, <2>6, JoinType
  <2>8. /\ KeptIn(new, OriginalItems(m)) = KeptIn(m1, OriginalItems(m))
        /\ KeptIn(new, EntryItems) = KeptIn(m1, EntryItems)
    <3>1. ASSUME NEW T, l \notin T PROVE KeptIn(new, T) = KeptIn(m1, T)
      <4>1. KeptIn(new, T) = Join(KeptIn(m1, T), KeptIn(one, T))
        BY <2>5, <2>6, KeptOfJoin
      <4>2. KeptIn(one, T) = <<>>
        BY <1>3, <2>2, <2>3, <3>1, KeptOne
      <4>3. KeptIn(m1, T) \in Seq(S)
        BY <2>5, KeptJoined
      <4> QED BY <4>1, <4>2, <4>3, JoinEmpty
    <3> QED BY <1>3, <2>3, <3>1
  <2>9. IsLaid(m, b, head, new)
    BY <1>2, <1>11, <2>7, <2>8 DEF IsLaid
  <2>10. Join(new, last) = Join(m1, Join(one, last))
    BY <1>5, <2>5, <2>6, JoinAssociative
  <2>11. Spread(Laid(m, b, head, mid), g) = Laid(m, b, head, new)
    BY <1>4, <1>10, <2>4, <2>10 DEF Laid
  <2>12. Paired(m, K, Join(new, last))
    BY <1>10, <1>12, <2>4, <2>10
  <2>13. EntriesIn(m, b, new)
    <3>1. PICK x \in Seq(CallsNothing(m, b)), y \in Seq(Inner(m, b) \cup CallItems) :
            m1 = Join(x, Join(EntryOf(m, b), y))
      BY <1>15 DEF EntriesIn
    <3>2. PICK T, entry, y2 : /\ T = CallsNothing(m, b) \cup (Inner(m, b) \cup CallItems \cup EntryItems)
                              /\ entry = EntryOf(m, b) /\ y2 = Join(y, one)
      OBVIOUS
    <3>3. entry \in Seq(EntryItems)
      BY <3>2, EntryOfType
    <3>4. one \in Seq(Inner(m, b) \cup CallItems)
      BY <2>2, <2>3, ShortSequences
    <3>5. x \in Seq(T) /\ y \in Seq(T) /\ entry \in Seq(T) /\ one \in Seq(T)
      BY <3>2, <3>3, <3>4, SeqMonotonic
    <3>6. Join(entry, y) \in Seq(T)
      BY <3>5, JoinType
    <3>7. Join(Join(x, Join(entry, y)), one) = Join(x, Join(Join(entry, y), one))
      BY <3>5, <3>6, JoinAssociative
    <3>8. Join(Join(entry, y), one) = Join(entry, Join(y, one))
      BY <3>5, JoinAssociative
    <3>9. y2 \in Seq(Inner(m, b) \cup CallItems)
      BY <3>2, <3>4, JoinType
    <3>10. new = Join(x, Join(EntryOf(m, b), y2))
      BY <2>6, <3>1, <3>2, <3>7, <3>8
    <3> QED BY <3>9, <3>10 DEF EntriesIn
  <2> QED BY <1>4, <1>11, <2>8, <2>9, <2>11, <2>12, <2>13 DEF g
<1> QED BY <1>13, <1>14

(***************************************************************************)
(* The module with the edges of done split, new naming the block each has  *)
(* got: an edge that is the only way into its target has taken the phis of *)
(* that block with it, and one whose source leads nowhere else (and whose  *)
(* target has other ways in) its terminator.                               *)
(***************************************************************************)
Moves(m, e) == Cardinality(EdgesInto(m, EdgeTarget(m, e))) = 1
Follows(m, e) ==
  Len(Successors(m, e[1])) = 1 /\ Cardinality(EdgesInto(m, EdgeTarget(m, e))) > 1

Moved(m, done, b) == \E e \in done : EdgeTarget(m, e) = b /\ Moves(m, e)
Shifted(m, done, b) == \E e \in done : e[1] = b /\ Follows(m, e)

StartOf(m, heads, done, b) == IF Moved(m, done, b) THEN <<>> ELSE heads[b]
EndOf(m, done, b) == IF Shifted(m, done, b) THEN Goto ELSE LastOf(m, b)
BlockNow(m, heads, mids, done, b) ==
  Join(StartOf(m, heads, done, b), Join(mids[b], <<EndOf(m, done, b)>>))
SuccsNow(m, done, new, b) ==
  [k \in 1..Len(Successors(m, b)) |->
     IF <<b, k>> \in done THEN new[<<b, k>>] ELSE Successors(m, b)[k]]
TakenPhis(m, heads, e) == IF Moves(m, e) THEN heads[EdgeTarget(m, e)] ELSE <<>>
Between(m, L, heads, e) ==
  IF Follows(m, e) THEN <<L[e], LastOf(m, e[1])>> ELSE Join(TakenPhis(m, heads, e), <<L[e], Goto>>)

Placed(m, heads, mids) == \A b \in Blocks(m) : IsLaid(m, b, heads[b], mids[b])
IsMarked(m, L, e) == L[e] \in CfgItems /\ OpIn(m, LastOf(m, e[1])) \in {"br", "switch"}

Numbered(m, done, new, n) ==
  /\ \A e \in done : new[e] \in (Len(m.body) + 1)..n
  /\ \A e, f \in done : new[e] = new[f] => e = f
  /\ \A c \in (Len(m.body) + 1)..n : \E e \in done : new[e] = c

Changed(m, L, heads, mids, done, new, cd, sc) ==
  /\ IsVector(cd) /\ IsVector(sc) /\ Len(cd) = Len(sc) /\ Len(m.body) <= Len(cd)
  /\ done \subseteq CfgEdges(m) /\ Numbered(m, done, new, Len(cd))
  /\ \A b \in Blocks(m) : /\ cd[b] = BlockNow(m, heads, mids, done, b)
                          /\ sc[b] = SuccsNow(m, done, new, b)
  /\ \A e \in done : /\ cd[new[e]] = Between(m, L, heads, e)
                     /\ sc[new[e]] = <<EdgeTarget(m, e)>>
                     /\ IsMarked(m, L, e)

LEMMA EdgeParts ==
  ASSUME NEW m, WellFormed(m)
  PROVE  /\ Len(m.body) \in Nat /\ Blocks(m) = 1..Len(m.body)
         /\ \A b \in Blocks(m) : /\ Successors(m, b) \in Seq(Blocks(m))
                                 /\ Len(Successors(m, b)) \in Nat
                                 /\ \A k \in 1..Len(Successors(m, b)) :
                                      /\ Successors(m, b)[k] \in Blocks(m)
                                      /\ <<b, k>> \in CfgEdges(m)
                                      /\ EdgeTarget(m, <<b, k>>) = Successors(m, b)[k]
         /\ \A e \in CfgEdges(m) :
              /\ e[1] \in Blocks(m) /\ EdgeTarget(m, e) \in Blocks(m) /\ e = <<e[1], e[2]>>
              /\ e[2] \in 1..Len(Successors(m, e[1]))
              /\ EdgeTarget(m, e) = Successors(m, e[1])[e[2]]
<1>1. Len(m.body) \in Nat /\ Blocks(m) = 1..Len(m.body)
  BY BodyType DEF Blocks
<1>2. ASSUME NEW b \in Blocks(m)
      PROVE  Successors(m, b) \in Seq(Blocks(m)) /\ Len(Successors(m, b)) \in Nat
  BY SuccessorsType
<1>3. ASSUME NEW b \in Blocks(m), NEW k \in 1..Len(Successors(m, b))
      PROVE  /\ Successors(m, b)[k] \in Blocks(m) /\ <<b, k>> \in CfgEdges(m)
             /\ EdgeTarget(m, <<b, k>>) = Successors(m, b)[k]
  BY <1>2 DEF CfgEdges, EdgeTarget
<1>4. \A e \in CfgEdges(m) :
        /\ e[1] \in Blocks(m) /\ EdgeTarget(m, e) \in Blocks(m) /\ e = <<e[1], e[2]>>
        /\ e[2] \in 1..Len(Successors(m, e[1]))
  BY CfgEdgesFinite
<1> QED BY <1>1, <1>2, <1>3, <1>4 DEF EdgeTarget

\* The edges into t in a module whose blocks lead to sc.
WaysTo(sc, t) ==
  UNION {{<<b, k>> : k \in {j \in DOMAIN sc[b] : sc[b][j] = t}} : b \in DOMAIN sc}

LEMMA WaysToParts ==
  ASSUME NEW sc, NEW t, NEW x
  PROVE  x \in WaysTo(sc, t) <=>
           /\ x = <<x[1], x[2]>> /\ x[1] \in DOMAIN sc /\ x[2] \in DOMAIN sc[x[1]]
           /\ sc[x[1]][x[2]] = t
BY DEF WaysTo

\* A split makes no way into a block of the module and takes none away.
LEMMA WaysIn ==
  ASSUME NEW m, WellFormed(m), NEW L, NEW heads, NEW mids, NEW done, NEW new, NEW cd, NEW sc,
         Changed(m, L, heads, mids, done, new, cd, sc), NEW t \in Blocks(m)
  PROVE  Cardinality(WaysTo(sc, t)) = Cardinality(EdgesInto(m, t))
<1> DEFINE n == Len(m.body)
           E == EdgesInto(m, t)
           F == WaysTo(sc, t)
           f == [e \in E |-> IF e \in done THEN <<new[e], 1>> ELSE e]
<1>1. /\ IsVector(sc) /\ Len(cd) = Len(sc) /\ n <= Len(cd)
      /\ done \subseteq CfgEdges(m) /\ Numbered(m, done, new, Len(cd))
      /\ \A b \in Blocks(m) : sc[b] = SuccsNow(m, done, new, b)
      /\ \A e \in done : sc[new[e]] = <<EdgeTarget(m, e)>>
  BY DEF Changed
<1>2. DOMAIN sc = 1..Len(cd) /\ Len(cd) \in Nat
  BY <1>1, VectorDomain
<1>3. /\ n \in Nat /\ Blocks(m) = 1..n
      /\ \A b \in Blocks(m) : /\ Len(Successors(m, b)) \in Nat
                              /\ \A k \in 1..Len(Successors(m, b)) :
                                   /\ <<b, k>> \in CfgEdges(m)
                                   /\ EdgeTarget(m, <<b, k>>) = Successors(m, b)[k]
      /\ \A e \in CfgEdges(m) : /\ e[1] \in Blocks(m) /\ e = <<e[1], e[2]>>
                                /\ e[2] \in 1..Len(Successors(m, e[1]))
                                /\ EdgeTarget(m, e) = Successors(m, e[1])[e[2]]
  BY EdgeParts
<1>4. \A b \in Blocks(m) : b \in DOMAIN sc
  BY <1>1, <1>2, <1>3
<1>5. ASSUME NEW e \in done
      PROVE  /\ new[e] \in DOMAIN sc /\ new[e] \notin Blocks(m)
             /\ DOMAIN sc[new[e]] = {1} /\ sc[new[e]][1] = EdgeTarget(m, e)
  <2>1. new[e] \in (n + 1)..Len(cd)
    BY <1>1 DEF Numbered
  <2>2. new[e] \in DOMAIN sc /\ new[e] \notin Blocks(m)
    <3>1. PICK c : c = new[e]
      OBVIOUS
    <3>2. c \in 1..Len(cd) /\ c \notin 1..n
      BY <1>2, <1>3, <2>1, <3>1
    <3> QED BY <1>2, <1>3, <3>1, <3>2
  <2> QED BY <1>1, <2>2
<1>6. ASSUME NEW b \in Blocks(m), NEW k
      PROVE  /\ k \in DOMAIN sc[b] <=> k \in 1..Len(Successors(m, b))
             /\ k \in DOMAIN sc[b] =>
                  sc[b][k] = IF <<b, k>> \in done THEN new[<<b, k>>] ELSE Successors(m, b)[k]
  <2>1. PICK v : v = SuccsNow(m, done, new, b)
    OBVIOUS
  <2>2. /\ DOMAIN v = 1..Len(Successors(m, b))
        /\ \A j \in 1..Len(Successors(m, b)) :
             v[j] = IF <<b, j>> \in done THEN new[<<b, j>>] ELSE Successors(m, b)[j]
    BY <2>1 DEF SuccsNow
  <2>3. sc[b] = v
    BY <1>1, <2>1
  <2> QED BY <2>2, <2>3
<1>7. ASSUME NEW e \in E PROVE f[e] \in F
  <2>1. e \in CfgEdges(m) /\ EdgeTarget(m, e) = t
    BY DEF EdgesInto
  <2>2. CASE e \in done
    <3>1. PICK x : x = <<new[e], 1>>
      OBVIOUS
    <3>2. x = <<x[1], x[2]>> /\ x[1] = new[e] /\ x[2] = 1
      BY <3>1
    <3>3. x \in WaysTo(sc, t)
      BY <1>5, <2>1, <2>2, <3>2, WaysToParts
    <3> QED BY <2>2, <3>1, <3>3
  <2>3. CASE e \notin done
    <3>1. e[1] \in Blocks(m) /\ e = <<e[1], e[2]>> /\ e[2] \in DOMAIN sc[e[1]]
          /\ sc[e[1]][e[2]] = t
      BY <1>3, <1>6, <2>1, <2>3
    <3>2. e \in WaysTo(sc, t)
      BY <1>4, <3>1, WaysToParts
    <3> QED BY <2>3, <3>2
  <2> QED BY <2>2, <2>3
<1>8. ASSUME NEW e \in E, NEW g \in E, f[e] = f[g] PROVE e = g
  <2>1. e \in CfgEdges(m) /\ g \in CfgEdges(m)
    BY DEF EdgesInto
  <2>2. \A x, y \in CfgEdges(m) : x \in done => <<new[x], 1>> # y
    <3>1. ASSUME NEW x \in done, NEW y \in CfgEdges(m), y = <<new[x], 1>> PROVE FALSE
      <4>1. y[1] = new[x]
        BY <3>1
      <4> QED BY <1>3, <1>5, <4>1
    <3> QED BY <3>1
  <2>3. \A x, y \in done : <<new[x], 1>> = <<new[y], 1>> => x = y
    BY <1>1 DEF Numbered
  <2> QED BY <1>8, <2>1, <2>2, <2>3
<1>9. ASSUME NEW x \in F PROVE \E e \in E : f[e] = x
  <2>1. /\ x = <<x[1], x[2]>> /\ x[1] \in DOMAIN sc /\ x[2] \in DOMAIN sc[x[1]]
        /\ sc[x[1]][x[2]] = t
    BY WaysToParts
  <2>2. CASE x[1] \in Blocks(m)
    <3>1. /\ x[2] \in 1..Len(Successors(m, x[1]))
          /\ sc[x[1]][x[2]] = IF x \in done THEN new[x] ELSE Successors(m, x[1])[x[2]]
      BY <1>6, <2>1, <2>2
    <3>2. x \notin done
      BY <1>5, <2>1, <3>1
    <3>3. x \in CfgEdges(m) /\ EdgeTarget(m, x) = t
      BY <1>3, <2>1, <2>2, <3>1, <3>2
    <3>4. x \in E
      BY <3>3 DEF EdgesInto
    <3> QED BY <3>2, <3>4
  <2>3. CASE x[1] \notin Blocks(m)
    <3>1. x[1] \in (n + 1)..Len(cd)
      BY <1>2, <1>3, <2>1, <2>3
    <3>2. PICK e \in done : new[e] = x[1]
      BY <1>1, <3>1 DEF Numbered
    <3>3. x = <<new[e], 1>> /\ EdgeTarget(m, e) = t
      BY <1>5, <2>1, <3>2
    <3>4. e \in E
      BY <1>1, <3>3 DEF EdgesInto
    <3> QED BY <3>2, <3>3, <3>4
  <2> QED BY <2>2, <2>3
<1>10. f \in Bijection(E, F)
  <2> DEFINE rule(e) == IF e \in done THEN <<new[e], 1>> ELSE e
  <2>1. f \in [E -> F] /\ \A e \in E : f[e] = rule(e)
    BY <1>7
  <2> HIDE DEF f, E, F
  <2>2. f \in Injection(E, F) /\ f \in Surjection(E, F)
    BY <1>8, <1>9, <2>1 DEF Injection, Surjection, IsInjective
  <2> QED BY <2>2 DEF Bijection
<1>11. IsFiniteSet(E)
  <2>1. E \subseteq CfgEdges(m)
    BY DEF EdgesInto
  <2> QED BY <2>1, CfgEdgesFinite, FS_Subset
<1>12. Cardinality(E) = Cardinality(F)
  <2> HIDE DEF f, E, F
  <2> QED BY <1>10, <1>11, FS_Bijection DEF ExistsBijection
<1> QED BY <1>12

\* What the parts of the description are made of.
LEMMA PartTypes ==
  ASSUME NEW m, WellFormed(m), NEW heads, NEW mids, Placed(m, heads, mids), NEW b \in Blocks(m)
  PROVE  /\ heads[b] \in Seq(Phis(m, b)) /\ mids[b] \in Seq(Middles(m, b))
         /\ heads[b] \in Seq(Items(m)) /\ mids[b] \in Seq(Items(m))
         /\ LastOf(m, b) \in Items(m) /\ Goto \in Items(m) /\ LastOf(m, b) # Goto
         /\ \A done : /\ StartOf(m, heads, done, b) \in Seq(Items(m))
                      /\ EndOf(m, done, b) \in Items(m)
         /\ <<>> \in Seq(Items(m))
<1>1. heads[b] \in Seq(Phis(m, b)) /\ mids[b] \in Seq(Middles(m, b))
  BY DEF Placed, IsLaid
<1>2. /\ heads[b] \in Seq(Items(m)) /\ mids[b] \in Seq(Items(m))
      /\ LastOf(m, b) \in Items(m) /\ Goto \in Items(m)
  BY <1>1, MiddleTypes
<1>3. <<>> \in Seq(Items(m))
  BY ShortSequences
<1>4. LastOf(m, b) # Goto
  BY BlockItems, OriginalTypes
<1> QED BY <1>1, <1>2, <1>3, <1>4 DEF StartOf, EndOf

\* The new numbers with one more, n.
IsNewWith(done, new, e, n, done2, new2) ==
  /\ e \notin done /\ done2 = done \cup {e}
  /\ new2 = [x \in done2 |-> IF x = e THEN n ELSE new[x]]

LEMMA NumberedWith ==
  ASSUME NEW m, WellFormed(m), NEW done, NEW new, NEW n \in Nat, Numbered(m, done, new, n),
         Len(m.body) <= n, NEW e, NEW n2, n2 = n + 1, NEW done2, NEW new2,
         IsNewWith(done, new, e, n2, done2, new2)
  PROVE  /\ Numbered(m, done2, new2, n2)
         /\ new2[e] = n2 /\ \A x \in done : new2[x] = new[x]
<1>0. done2 = done \cup {e} /\ e \notin done
  BY DEF IsNewWith
<1>1. new2[e] = n + 1 /\ \A x \in done : new2[x] = new[x]
  BY DEF IsNewWith
<1>2. PICK N : N = Len(m.body)
  OBVIOUS
<1>3. N \in Nat
  BY <1>2, EdgeParts
<1>4. /\ \A x \in done : new[x] \in (N + 1)..n
      /\ \A x, y \in done : new[x] = new[y] => x = y
      /\ \A c \in (N + 1)..n : \E x \in done : new[x] = c
  BY <1>2 DEF Numbered
<1>5. \A c \in (N + 1)..n : c \in (N + 1)..(n + 1) /\ c # n + 1
  BY <1>3
<1>6. \A c \in (N + 1)..(n + 1) : c \in (N + 1)..n \/ c = n + 1
  BY <1>3
<1>7. n + 1 \in (N + 1)..(n + 1)
  BY <1>2, <1>3
<1>8. \A x \in done2 : new2[x] \in (N + 1)..(n + 1)
  BY <1>0, <1>1, <1>4, <1>5, <1>7
<1>9. \A x, y \in done2 : new2[x] = new2[y] => x = y
  BY <1>0, <1>1, <1>4, <1>5
<1>10. \A c \in (N + 1)..(n + 1) : \E x \in done2 : new2[x] = c
  BY <1>0, <1>1, <1>4, <1>6
<1> QED BY <1>1, <1>2, <1>8, <1>9, <1>10 DEF Numbered

With(v, k, x) == [v EXCEPT ![k] = x]

\* The successors of a block when one more edge is split.
LEMMA SuccsWith ==
  ASSUME NEW m, WellFormed(m), NEW done, done \subseteq CfgEdges(m), NEW new, NEW n,
         NEW e \in CfgEdges(m), NEW done2, NEW new2,
         IsNewWith(done, new, e, n, done2, new2)
  PROVE  /\ \A b \in Blocks(m) : b # e[1] =>
              SuccsNow(m, done2, new2, b) = SuccsNow(m, done, new, b)
         /\ SuccsNow(m, done2, new2, e[1])
              = With(SuccsNow(m, done, new, e[1]), e[2], n)
<1>0. done2 = done \cup {e} /\ e \notin done
  BY DEF IsNewWith
<1>1. new2[e] = n /\ \A x \in done : new2[x] = new[x]
  BY DEF IsNewWith
<1>2. e = <<e[1], e[2]>> /\ e[2] \in 1..Len(Successors(m, e[1]))
  BY EdgeParts
<1>3. ASSUME NEW b \in Blocks(m), b # e[1]
      PROVE  SuccsNow(m, done2, new2, b) = SuccsNow(m, done, new, b)
  <2>1. ASSUME NEW k PROVE <<b, k>> # e
    BY <1>2, <1>3
  <2>2. \A k \in 1..Len(Successors(m, b)) :
          (IF <<b, k>> \in done2 THEN new2[<<b, k>>] ELSE Successors(m, b)[k])
            = (IF <<b, k>> \in done THEN new[<<b, k>>] ELSE Successors(m, b)[k])
    BY <1>0, <1>1, <2>1
  <2> QED BY <2>2 DEF SuccsNow
<1>4. SuccsNow(m, done2, new2, e[1]) = With(SuccsNow(m, done, new, e[1]), e[2], n)
  <2>1. PICK s, j, len : s = e[1] /\ j = e[2] /\ len = Len(Successors(m, s))
    OBVIOUS
  <2>2. \A k \in 1..len :
          (IF <<s, k>> \in done2 THEN new2[<<s, k>>] ELSE Successors(m, s)[k])
            = (IF k = j THEN n
               ELSE IF <<s, k>> \in done THEN new[<<s, k>>] ELSE Successors(m, s)[k])
    <3>1. \A k : <<s, k>> = e <=> k = j
      BY <1>2, <2>1
    <3> QED BY <1>0, <1>1, <3>1
  <2>3. PICK v : v = SuccsNow(m, done, new, s)
    OBVIOUS
  <2>4. /\ DOMAIN v = 1..len
        /\ v = [k \in 1..len |->
                  IF <<s, k>> \in done THEN new[<<s, k>>] ELSE Successors(m, s)[k]]
    BY <2>1, <2>3 DEF SuccsNow
  <2>5. [v EXCEPT ![j] = n] = [k \in 1..len |-> IF k = j THEN n ELSE v[k]]
    BY <2>4
  <2>6. SuccsNow(m, done2, new2, s) = [k \in 1..len |-> IF k = j THEN n ELSE v[k]]
    BY <2>1, <2>2, <2>4 DEF SuccsNow
  <2>7. SuccsNow(m, done2, new2, s) = With(v, j, n)
    BY <2>5, <2>6 DEF With
  <2> QED BY <2>1, <2>3, <2>7
<1> QED BY <1>3, <1>4

\* An edge whose split moves something is the only one that could.
LEMMA SplitOnce ==
  ASSUME NEW m, WellFormed(m), NEW done, done \subseteq CfgEdges(m), NEW e \in CfgEdges(m)
  PROVE  /\ e \notin done => ~ Shifted(m, done, e[1])
         /\ e \in done => (Shifted(m, done, e[1]) <=> Follows(m, e))
         /\ Moves(m, e) => (Moved(m, done, EdgeTarget(m, e)) <=> e \in done)
         /\ Follows(m, e) => ~ Moves(m, e) /\ ~ Moved(m, done, EdgeTarget(m, e)) /\ e[2] = 1
<1>1. e = <<e[1], e[2]>> /\ e[2] \in 1..Len(Successors(m, e[1]))
  BY EdgeParts
<1>2. ASSUME NEW f \in CfgEdges(m), f[1] = e[1], Follows(m, f) \/ Follows(m, e)
      PROVE  f = e /\ e[2] = 1
  <2>1. f = <<f[1], f[2]>> /\ f[2] \in 1..Len(Successors(m, f[1]))
    BY EdgeParts
  <2>2. Len(Successors(m, e[1])) = 1
    BY <1>2 DEF Follows
  <2>3. f[2] = 1 /\ e[2] = 1
    BY <1>1, <1>2, <2>1, <2>2
  <2> QED BY <1>1, <1>2, <2>1, <2>3
<1>3. /\ e \notin done => ~ Shifted(m, done, e[1])
      /\ e \in done => (Shifted(m, done, e[1]) <=> Follows(m, e))
  BY <1>2 DEF Shifted
<1>4. PICK E : E = EdgesInto(m, EdgeTarget(m, e))
  OBVIOUS
<1>5. IsFiniteSet(E) /\ e \in E
  <2>1. E \subseteq CfgEdges(m) /\ e \in E
    BY <1>4 DEF EdgesInto
  <2> QED BY <2>1, CfgEdgesFinite, FS_Subset
<1>6. ASSUME Moves(m, e), NEW f \in CfgEdges(m), EdgeTarget(m, f) = EdgeTarget(m, e)
      PROVE  f = e
  <2>1. f \in E
    BY <1>4, <1>6 DEF EdgesInto
  <2>2. Cardinality(E) = 1
    BY <1>4, <1>6 DEF Moves
  <2>3. \E x : E = {x}
    BY <1>5, <2>2, FS_Singleton
  <2> QED BY <1>5, <2>1, <2>3
<1>7. Moves(m, e) => (Moved(m, done, EdgeTarget(m, e)) <=> e \in done)
  <2>1. ASSUME Moves(m, e), Moved(m, done, EdgeTarget(m, e)) PROVE e \in done
    <3>1. PICK f \in done : EdgeTarget(m, f) = EdgeTarget(m, e)
      BY <2>1 DEF Moved
    <3> QED BY <1>6, <2>1, <3>1
  <2> QED BY <2>1 DEF Moved
<1>8. ASSUME Follows(m, e)
      PROVE  ~ Moves(m, e) /\ ~ Moved(m, done, EdgeTarget(m, e)) /\ e[2] = 1
  <2>1. Cardinality(E) # 1
    BY <1>4, <1>8 DEF Follows
  <2> QED BY <1>2, <1>4, <1>8, <2>1 DEF Moves, Moved
<1> QED BY <1>3, <1>7, <1>8

\* A split whose log goes in front of the terminator of the source.
LEMMA SplitAfter ==
  ASSUME NEW m, WellFormed(m), NEW L, NEW heads, NEW mids, Placed(m, heads, mids),
         NEW done, NEW new, NEW cd, NEW sc, Changed(m, L, heads, mids, done, new, cd, sc),
         NEW e \in CfgEdges(m), e \notin done, IsMarked(m, L, e), Follows(m, e),
         NEW done2, done2 = done \cup {e},
         NEW s, s = e[1], NEW cd2, NEW sc2,
         IsGrown(cd, s, Append(Front(cd[s]), Goto), <<L[e], Last(cd[s])>>, cd2),
         IsGrown(sc, s, <<Len(cd) + 1>>, sc[s], sc2)
  PROVE  \E new2 : Changed(m, L, heads, mids, done2, new2, cd2, sc2)
<1>1. PICK n, N, t : n = Len(cd) /\ N = Len(m.body) /\ t = EdgeTarget(m, e)
  OBVIOUS
<1>2. PICK new2, n2 : IsNewWith(done, new, e, n2, done2, new2) /\ n2 = n + 1
  BY DEF IsNewWith
<1>3. /\ IsVector(cd) /\ IsVector(sc) /\ Len(sc) = n /\ N <= n
      /\ done \subseteq CfgEdges(m) /\ Numbered(m, done, new, n)
      /\ \A b \in Blocks(m) : /\ cd[b] = BlockNow(m, heads, mids, done, b)
                              /\ sc[b] = SuccsNow(m, done, new, b)
      /\ \A f \in done : /\ cd[new[f]] = Between(m, L, heads, f)
                         /\ sc[new[f]] = <<EdgeTarget(m, f)>>
                         /\ IsMarked(m, L, f)
  BY <1>1 DEF Changed
<1>4. /\ IsVector(cd2) /\ Len(cd2) = n + 1 /\ n \in Nat
      /\ cd2[s] = Append(Front(cd[s]), Goto) /\ cd2[n + 1] = <<L[e], Last(cd[s])>>
      /\ \A c \in 1..n : c # s => cd2[c] = cd[c]
  <2>1. PICK x, y : x = Append(Front(cd[s]), Goto) /\ y = <<L[e], Last(cd[s])>>
    OBVIOUS
  <2>2. IsGrown(cd, s, x, y, cd2)
    BY <2>1
  <2>3. /\ IsVector(cd2) /\ Len(cd2) = n + 1 /\ n \in Nat /\ cd2[s] = x /\ cd2[n + 1] = y
        /\ \A c \in 1..n : c # s => cd2[c] = cd[c]
    BY <1>1, <2>2, Growing
  <2> QED BY <2>1, <2>3
<1>5. /\ IsVector(sc2) /\ Len(sc2) = n + 1
      /\ sc2[s] = <<n + 1>> /\ sc2[n + 1] = sc[s]
      /\ \A c \in 1..n : c # s => sc2[c] = sc[c]
  <2>1. PICK x, y : x = <<Len(cd) + 1>> /\ y = sc[s]
    OBVIOUS
  <2>2. IsGrown(sc, s, x, y, sc2)
    BY <2>1
  <2>3. /\ IsVector(sc2) /\ Len(sc2) = n + 1 /\ sc2[s] = x /\ sc2[n + 1] = y
        /\ \A c \in 1..n : c # s => sc2[c] = sc[c]
    BY <1>3, <2>2, Growing
  <2> QED BY <1>1, <2>1, <2>3
<1>6. /\ N \in Nat /\ Blocks(m) = 1..N /\ s \in Blocks(m) /\ t \in Blocks(m)
      /\ e = <<s, e[2]>> /\ t = Successors(m, s)[e[2]]
  BY <1>1, EdgeParts
<1>7. /\ Numbered(m, done2, new2, n + 1)
      /\ new2[e] = n + 1 /\ \A f \in done : new2[f] = new[f]
  <2>1. Numbered(m, done, new, n) /\ Len(m.body) <= n /\ n \in Nat
    BY <1>1, <1>3, <1>4
  <2>2. Numbered(m, done2, new2, n2) /\ new2[e] = n2 /\ \A f \in done : new2[f] = new[f]
    BY <1>2, <2>1, NumberedWith
  <2> QED BY <1>2, <2>2
<1>8. /\ e[2] = 1 /\ Len(Successors(m, s)) = 1 /\ ~ Moves(m, e) /\ ~ Shifted(m, done, s)
  BY <1>3, SplitOnce DEF Follows
<1>9. \A b \in Blocks(m) : StartOf(m, heads, done2, b) = StartOf(m, heads, done, b)
  <2>1. \A b : Moved(m, done2, b) <=> Moved(m, done, b)
    BY <1>8 DEF Moved
  <2> QED BY <2>1 DEF StartOf
<1>10. /\ \A b \in Blocks(m) : b # s => EndOf(m, done2, b) = EndOf(m, done, b)
       /\ EndOf(m, done2, s) = Goto /\ EndOf(m, done, s) = LastOf(m, s)
  <2>1. \A b : Shifted(m, done2, b) <=> Shifted(m, done, b) \/ b = s
    BY DEF Shifted
  <2> QED BY <1>8, <2>1 DEF EndOf
<1>11. PICK st, mid, last : /\ st = StartOf(m, heads, done, s) /\ mid = mids[s]
                            /\ last = LastOf(m, s)
  OBVIOUS
<1>12. /\ st \in Seq(Items(m)) /\ mid \in Seq(Items(m)) /\ last \in Items(m) /\ Goto \in Items(m)
       /\ <<last>> \in Seq(Items(m)) /\ <<Goto>> \in Seq(Items(m))
  BY <1>6, <1>11, PartTypes, ShortSequences
<1>13. cd[s] = Join(st, Join(mid, <<last>>))
  BY <1>3, <1>6, <1>10, <1>11 DEF BlockNow
<1>14. PICK front : front = Join(st, mid)
  OBVIOUS
<1>15. front \in Seq(Items(m))
  BY <1>12, <1>14, JoinType
<1>16. cd[s] = Join(front, <<last>>) /\ Join(front, <<Goto>>) = Join(st, Join(mid, <<Goto>>))
  <2>1. PICK a, c : a = <<last>> /\ c = <<Goto>>
    OBVIOUS
  <2>3. st \in Seq(Items(m)) /\ mid \in Seq(Items(m)) /\ a \in Seq(Items(m)) /\ c \in Seq(Items(m))
    BY <1>12, <2>1
  <2>4. \A x, y, z \in Seq(Items(m)) : Join(Join(x, y), z) = Join(x, Join(y, z))
    BY JoinAssociative
  <2>2. /\ Join(Join(st, mid), a) = Join(st, Join(mid, a))
        /\ Join(Join(st, mid), c) = Join(st, Join(mid, c))
    BY <2>3, <2>4
  <2> QED BY <1>13, <1>14, <2>1, <2>2
<1>17. Last(cd[s]) = last /\ Front(cd[s]) = front
  <2>1. IsEndedBy(Items(m), front, last, cd[s])
    BY <1>12, <1>15, <1>16 DEF IsEndedBy
  <2> QED BY <2>1, Ending
<1>18. cd2[s] = BlockNow(m, heads, mids, done2, s)
  <2>1. Append(front, Goto) = Join(front, <<Goto>>)
    BY <1>12, <1>15, AppendIsJoin
  <2>2. cd2[s] = Join(st, Join(mid, <<Goto>>))
    BY <1>4, <1>16, <1>17, <2>1
  <2> QED BY <1>6, <1>9, <1>10, <1>11, <2>2 DEF BlockNow
<1>19. /\ \A b \in Blocks(m) : b # s =>
            SuccsNow(m, done2, new2, b) = SuccsNow(m, done, new, b)
       /\ SuccsNow(m, done2, new2, s) = With(SuccsNow(m, done, new, s), e[2], n2)
  <2>1. IsNewWith(done, new, e, n2, done2, new2) /\ done \subseteq CfgEdges(m)
    BY <1>2, <1>3
  <2>2. /\ \A b \in Blocks(m) : b # e[1] =>
             SuccsNow(m, done2, new2, b) = SuccsNow(m, done, new, b)
        /\ SuccsNow(m, done2, new2, e[1]) = With(SuccsNow(m, done, new, e[1]), e[2], n2)
    BY <2>1, SuccsWith
  <2> QED BY <1>2, <2>2
<1>20. PICK v : v = sc[s]
  OBVIOUS
<1>21. v = <<t>>
  <2>1. v = [k \in 1..1 |-> IF <<s, k>> \in done THEN new[<<s, k>>] ELSE Successors(m, s)[k]]
    BY <1>3, <1>6, <1>8, <1>20 DEF SuccsNow
  <2>2. <<s, 1>> \notin done /\ Successors(m, s)[1] = t
    BY <1>6, <1>8
  <2>3. v = [k \in 1..1 |-> t]
    BY <2>1, <2>2
  <2> QED BY <2>3
<1>22. sc2[s] = SuccsNow(m, done2, new2, s)
  <2>1. With(v, 1, n2) = <<n + 1>>
    BY <1>2, <1>21 DEF With
  <2>2. SuccsNow(m, done, new, s) = v
    BY <1>3, <1>6, <1>20
  <2> QED BY <1>5, <1>8, <1>19, <2>1, <2>2
<1>23. ASSUME NEW b \in Blocks(m)
       PROVE  /\ cd2[b] = BlockNow(m, heads, mids, done2, b)
              /\ sc2[b] = SuccsNow(m, done2, new2, b)
  <2>1. CASE b = s
    BY <1>18, <1>22, <2>1
  <2>2. CASE b # s
    <3>1. b \in 1..n
      BY <1>3, <1>4, <1>6
    <3>2. cd2[b] = BlockNow(m, heads, mids, done, b) /\ sc2[b] = SuccsNow(m, done, new, b)
      BY <1>3, <1>4, <1>5, <2>2, <3>1
    <3> QED BY <1>9, <1>10, <1>19, <2>2, <3>2 DEF BlockNow
  <2> QED BY <2>1, <2>2
<1>24. ASSUME NEW f \in done
       PROVE  /\ cd2[new2[f]] = Between(m, L, heads, f) /\ sc2[new2[f]] = <<EdgeTarget(m, f)>>
              /\ IsMarked(m, L, f)
  <2>1. PICK c : c = new[f]
    OBVIOUS
  <2>2. c \in (N + 1)..n
    BY <1>1, <1>3, <2>1 DEF Numbered
  <2>3. c \in 1..n /\ c # s
    BY <1>3, <1>4, <1>6, <2>2
  <2> QED BY <1>3, <1>4, <1>5, <1>7, <2>1, <2>3
<1>25. /\ cd2[new2[e]] = Between(m, L, heads, e) /\ sc2[new2[e]] = <<EdgeTarget(m, e)>>
       /\ IsMarked(m, L, e)
  BY <1>1, <1>4, <1>5, <1>7, <1>11, <1>17, <1>20, <1>21 DEF Between
<1>26. Changed(m, L, heads, mids, done2, new2, cd2, sc2)
  <2>1. N <= n + 1
    BY <1>3, <1>4, <1>6
  <2> QED BY <1>1, <1>3, <1>4, <1>5, <1>7, <1>23, <1>24, <1>25, <2>1 DEF Changed
<1> QED BY <1>26

NoPhi(m, v) == \A k \in 1..Len(v) : OpIn(m, v[k]) # "phi"

LEMMA NoPhiJoined ==
  ASSUME NEW S, NEW m, NEW v, NEW w, NEW u, IsJoin(S, v, w, u), NoPhi(m, v), NoPhi(m, w)
  PROVE  NoPhi(m, u)
<1>1. \A k \in 1..Len(u) : \/ k \in 1..Len(v) /\ u[k] = v[k]
                           \/ k - Len(v) \in 1..Len(w) /\ u[k] = w[k - Len(v)]
  BY JoinParts
<1> QED BY <1>1 DEF NoPhi

\* Behind the phis of a block there is none.
LEMMA NoPhiBehind ==
  ASSUME NEW m, WellFormed(m), NEW heads, NEW mids, Placed(m, heads, mids), NEW b \in Blocks(m),
         NEW x, x \in {Goto, LastOf(m, b)}
  PROVE  Join(mids[b], <<x>>) \in Seq(Items(m)) /\ NoPhi(m, Join(mids[b], <<x>>))
<1>1. PICK mid, last : mid = mids[b] /\ last = <<x>>
  OBVIOUS
<1>2. mid \in Seq(Items(m)) /\ mid \in Seq(Middles(m, b)) /\ x \in Items(m)
  BY <1>1, PartTypes
<1>3. last \in Seq(Items(m)) /\ Len(last) = 1 /\ last[1] = x /\ 1..1 = {1}
  BY <1>1, <1>2
<1>4. OpIn(m, x) # "phi"
  BY BlockItems
<1>5. NoPhi(m, last)
  BY <1>3, <1>4 DEF NoPhi
<1>6. NoPhi(m, mid)
  <2>1. \A k \in 1..Len(mid) : mid[k] \in Middles(m, b)
    BY <1>2
  <2>2. \A y \in Middles(m, b) : OpIn(m, y) # "phi"
    BY MiddleTypes
  <2> QED BY <2>1, <2>2 DEF NoPhi
<1>7. PICK u : u = Join(mid, last)
  OBVIOUS
<1>8. IsJoin(Items(m), mid, last, u)
  BY <1>2, <1>3, <1>7 DEF IsJoin
<1>9. NoPhi(m, u)
  BY <1>5, <1>6, <1>8, NoPhiJoined
<1>10. u \in Seq(Items(m))
  BY <1>2, <1>3, <1>7, JoinType
<1> QED BY <1>1, <1>7, <1>9, <1>10

PhisIn(m, v) == {k \in DOMAIN v : OpIn(m, v[k]) = "phi"}

\* They are counted by what they are.
LEMMA PhiCount ==
  ASSUME NEW m, WellFormed(m), NEW b \in Blocks(m), NEW head \in Seq(Phis(m, b)),
         NEW rest, NoPhi(m, rest), NEW v, IsJoin(Items(m), head, rest, v)
  PROVE  Cardinality(PhisIn(m, v)) = Len(head)
<1>1. PICK n : n = Len(head)
  OBVIOUS
<1>2. /\ IsVector(v) /\ n \in Nat
      /\ \A k \in 1..n : k \in 1..Len(v) /\ v[k] = head[k]
      /\ \A k \in 1..Len(v) : \/ k \in 1..n /\ v[k] = head[k]
                              \/ k - n \in 1..Len(rest) /\ v[k] = rest[k - n]
  BY <1>1, JoinParts
<1>3. DOMAIN v = 1..Len(v)
  BY <1>2, VectorDomain
<1>4. \A k \in 1..n : OpIn(m, head[k]) = "phi"
  <2>1. \A k \in 1..n : head[k] \in Phis(m, b)
    BY <1>1
  <2> QED BY <2>1, BlockItems
<1>5. \A k \in 1..Len(rest) : OpIn(m, rest[k]) # "phi"
  BY DEF NoPhi
<1>6. {k \in DOMAIN v : OpIn(m, v[k]) = "phi"} = 1..n
  BY <1>2, <1>3, <1>4, <1>5
<1>7. Cardinality(1..n) = n
  <2>1. Cardinality(1..n) = IF 1 > n THEN 0 ELSE n - 1 + 1
    BY <1>2, FS_Interval
  <2>2. (IF 1 > n THEN 0 ELSE n - 1 + 1) = n
    BY <1>2
  <2> QED BY <2>1, <2>2
<1> QED BY <1>1, <1>6, <1>7 DEF PhisIn

GrownBefore(m, L, e, phis, cd, sc, cd2, sc2) ==
  LET s == e[1]
      t == EdgeTarget(m, e)
  IN /\ phis = IF Moves(m, e) THEN Cardinality(PhisIn(m, cd[t])) ELSE 0
     /\ IsGrown(cd, t, After(cd[t], phis), Join(Upto(cd[t], phis), <<L[e], Goto>>), cd2)
     /\ IsGrown(sc, s, With(sc[s], e[2], Len(cd) + 1), <<t>>, sc2)

\* A split whose log goes in front of the target.
LEMMA SplitBefore ==
  ASSUME NEW m, WellFormed(m), NEW L, NEW heads, NEW mids, Placed(m, heads, mids),
         NEW done, NEW new, NEW cd, NEW sc, Changed(m, L, heads, mids, done, new, cd, sc),
         NEW e \in CfgEdges(m), e \notin done, IsMarked(m, L, e), ~ Follows(m, e),
         NEW done2, done2 = done \cup {e},
         NEW phis, NEW cd2, NEW sc2, GrownBefore(m, L, e, phis, cd, sc, cd2, sc2)
  PROVE  \E new2 : Changed(m, L, heads, mids, done2, new2, cd2, sc2)
<1> PICK s, t : s = e[1] /\ t = EdgeTarget(m, e)
  OBVIOUS
<1>0. /\ phis = IF Moves(m, e) THEN Cardinality(PhisIn(m, cd[t])) ELSE 0
      /\ IsGrown(cd, t, After(cd[t], phis), Join(Upto(cd[t], phis), <<L[e], Goto>>), cd2)
      /\ IsGrown(sc, s, With(sc[s], e[2], Len(cd) + 1), <<t>>, sc2)
  BY DEF GrownBefore
<1>1. PICK n, N : n = Len(cd) /\ N = Len(m.body)
  OBVIOUS
<1>2. PICK new2, n2 : IsNewWith(done, new, e, n2, done2, new2) /\ n2 = n + 1
  BY DEF IsNewWith
<1>3. /\ IsVector(cd) /\ IsVector(sc) /\ Len(sc) = n /\ N <= n
      /\ done \subseteq CfgEdges(m) /\ Numbered(m, done, new, n)
      /\ \A b \in Blocks(m) : /\ cd[b] = BlockNow(m, heads, mids, done, b)
                              /\ sc[b] = SuccsNow(m, done, new, b)
      /\ \A f \in done : /\ cd[new[f]] = Between(m, L, heads, f)
                         /\ sc[new[f]] = <<EdgeTarget(m, f)>>
                         /\ IsMarked(m, L, f)
  BY <1>1 DEF Changed
<1>4. PICK after, upto, x, y : /\ after = After(cd[t], phis) /\ upto = Upto(cd[t], phis)
                               /\ x = Join(upto, <<L[e], Goto>>)
                               /\ y = With(sc[s], e[2], n2)
  OBVIOUS
<1>5. /\ IsVector(cd2) /\ Len(cd2) = n + 1 /\ n \in Nat
      /\ cd2[t] = after /\ cd2[n + 1] = x
      /\ \A c \in 1..n : c # t => cd2[c] = cd[c]
  <2>1. IsGrown(cd, t, after, x, cd2)
    BY <1>0, <1>4
  <2> QED BY <1>1, <2>1, Growing
<1>6. /\ IsVector(sc2) /\ Len(sc2) = n + 1
      /\ sc2[s] = y /\ sc2[n + 1] = <<t>>
      /\ \A c \in 1..n : c # s => sc2[c] = sc[c]
  <2>1. PICK one : one = <<t>>
    OBVIOUS
  <2>2. IsGrown(sc, s, y, one, sc2)
    BY <1>0, <1>1, <1>2, <1>4, <2>1
  <2>3. /\ IsVector(sc2) /\ Len(sc2) = n + 1 /\ sc2[s] = y /\ sc2[n + 1] = one
        /\ \A c \in 1..n : c # s => sc2[c] = sc[c]
    BY <1>3, <2>2, Growing
  <2> QED BY <2>1, <2>3
<1>7. /\ N \in Nat /\ Blocks(m) = 1..N /\ s \in Blocks(m) /\ t \in Blocks(m)
      /\ t = Successors(m, s)[e[2]]
  BY <1>1, EdgeParts
<1>8. /\ Numbered(m, done2, new2, n + 1)
      /\ new2[e] = n + 1 /\ \A f \in done : new2[f] = new[f]
  <2>1. Numbered(m, done, new, n) /\ Len(m.body) <= n /\ n \in Nat
    BY <1>1, <1>3, <1>5
  <2>2. Numbered(m, done2, new2, n2) /\ new2[e] = n2 /\ \A f \in done : new2[f] = new[f]
    BY <1>2, <2>1, NumberedWith
  <2> QED BY <1>2, <2>2
<1>9. \A b \in Blocks(m) : EndOf(m, done2, b) = EndOf(m, done, b)
  <2>1. \A b : Shifted(m, done2, b) <=> Shifted(m, done, b)
    BY DEF Shifted
  <2> QED BY <2>1 DEF EndOf
<1>10. /\ \A b \in Blocks(m) : b # t => StartOf(m, heads, done2, b) = StartOf(m, heads, done, b)
       /\ ~ Moves(m, e) => StartOf(m, heads, done2, t) = StartOf(m, heads, done, t)
       /\ Moves(m, e) => /\ StartOf(m, heads, done2, t) = <<>>
                         /\ StartOf(m, heads, done, t) = heads[t]
  <2>1. \A b : Moved(m, done2, b) <=> Moved(m, done, b) \/ (b = t /\ Moves(m, e))
    BY DEF Moved
  <2>2. Moves(m, e) => ~ Moved(m, done, t)
    BY <1>3, SplitOnce
  <2> QED BY <2>1, <2>2 DEF StartOf
<1>11. PICK st, mid, rest : /\ st = StartOf(m, heads, done, t) /\ mid = mids[t]
                            /\ rest = Join(mid, <<EndOf(m, done, t)>>)
  OBVIOUS
<1>12. st \in Seq(Items(m)) /\ rest \in Seq(Items(m)) /\ NoPhi(m, rest)
  <2>1. EndOf(m, done, t) \in {Goto, LastOf(m, t)}
    BY DEF EndOf
  <2> QED BY <1>7, <1>11, <2>1, PartTypes, NoPhiBehind
<1>13. PICK now : now = cd[t]
  OBVIOUS
<1>14. IsJoin(Items(m), st, rest, now)
  BY <1>3, <1>7, <1>11, <1>12, <1>13 DEF BlockNow, IsJoin
<1>15. /\ upto = TakenPhis(m, heads, e)
       /\ after = BlockNow(m, heads, mids, done2, t)
  <2>1. CASE Moves(m, e)
    <3>1. st = heads[t] /\ st \in Seq(Phis(m, t))
      BY <1>7, <1>10, <1>11, <2>1, PartTypes
    <3>2. phis = Len(st)
      BY <1>0, <1>7, <1>12, <1>13, <1>14, <2>1, <3>1, PhiCount
    <3>3. IsJoinAt(Items(m), st, rest, now, phis)
      BY <1>14, <3>2 DEF IsJoinAt
    <3>4. upto = st /\ after = rest
      BY <1>4, <1>13, <3>3, CutJoin
    <3>5. BlockNow(m, heads, mids, done2, t) = Join(<<>>, rest)
      BY <1>7, <1>9, <1>10, <1>11, <2>1 DEF BlockNow
    <3>6. Join(<<>>, rest) = rest
      BY <1>12, JoinEmpty
    <3> QED BY <2>1, <3>1, <3>4, <3>5, <3>6 DEF TakenPhis
  <2>2. CASE ~ Moves(m, e)
    <3>1. PICK none : none = <<>>
      OBVIOUS
    <3>2. now \in Seq(Items(m)) /\ none \in Seq(Items(m)) /\ Len(none) = 0 /\ phis = 0
      <4>1. now \in Seq(Items(m))
        BY <1>12, <1>14, JoinType DEF IsJoin
      <4> QED BY <1>0, <2>2, <3>1, <4>1
    <3>3. Join(none, now) = now
      BY <3>1, <3>2, JoinEmpty
    <3>4. IsJoinAt(Items(m), none, now, now, phis)
      BY <3>2, <3>3 DEF IsJoinAt, IsJoin
    <3>5. upto = none /\ after = now
      BY <1>4, <1>13, <3>4, CutJoin
    <3>6. BlockNow(m, heads, mids, done2, t) = BlockNow(m, heads, mids, done, t)
      BY <1>7, <1>9, <1>10, <2>2 DEF BlockNow
    <3> QED BY <1>3, <1>7, <1>13, <2>2, <3>1, <3>5, <3>6 DEF TakenPhis
  <2> QED BY <2>1, <2>2
<1>16. /\ \A b \in Blocks(m) : b # s =>
            SuccsNow(m, done2, new2, b) = SuccsNow(m, done, new, b)
       /\ SuccsNow(m, done2, new2, s) = With(SuccsNow(m, done, new, s), e[2], n2)
  <2>1. IsNewWith(done, new, e, n2, done2, new2) /\ done \subseteq CfgEdges(m)
    BY <1>2, <1>3
  <2>2. /\ \A b \in Blocks(m) : b # e[1] =>
             SuccsNow(m, done2, new2, b) = SuccsNow(m, done, new, b)
        /\ SuccsNow(m, done2, new2, e[1]) = With(SuccsNow(m, done, new, e[1]), e[2], n2)
    BY <2>1, SuccsWith
  <2> QED BY <2>2
<1>17. ASSUME NEW b \in Blocks(m)
       PROVE  /\ cd2[b] = BlockNow(m, heads, mids, done2, b)
              /\ sc2[b] = SuccsNow(m, done2, new2, b)
  <2>1. b \in 1..n
    BY <1>3, <1>5, <1>7
  <2>2. cd2[b] = BlockNow(m, heads, mids, done2, b)
    <3>1. CASE b = t
      BY <1>5, <1>15, <3>1
    <3>2. CASE b # t
      <4>1. cd2[b] = BlockNow(m, heads, mids, done, b)
        BY <1>3, <1>5, <2>1, <3>2
      <4> QED BY <1>9, <1>10, <3>2, <4>1 DEF BlockNow
    <3> QED BY <3>1, <3>2
  <2>3. sc2[b] = SuccsNow(m, done2, new2, b)
    <3>1. CASE b = s
      <4>1. sc[s] = SuccsNow(m, done, new, s)
        BY <1>3, <1>7
      <4> QED BY <1>4, <1>6, <1>16, <3>1, <4>1
    <3>2. CASE b # s
      BY <1>3, <1>6, <1>16, <2>1, <3>2
    <3> QED BY <3>1, <3>2
  <2> QED BY <2>2, <2>3
<1>18. ASSUME NEW f \in done
       PROVE  /\ cd2[new2[f]] = Between(m, L, heads, f) /\ sc2[new2[f]] = <<EdgeTarget(m, f)>>
              /\ IsMarked(m, L, f)
  <2>1. PICK c : c = new[f]
    OBVIOUS
  <2>2. c \in (N + 1)..n
    BY <1>1, <1>3, <2>1 DEF Numbered
  <2>3. c \in 1..n /\ c # s /\ c # t
    BY <1>3, <1>5, <1>7, <2>2
  <2> QED BY <1>3, <1>5, <1>6, <1>8, <2>1, <2>3
<1>19. /\ cd2[new2[e]] = Between(m, L, heads, e) /\ sc2[new2[e]] = <<EdgeTarget(m, e)>>
       /\ IsMarked(m, L, e)
  BY <1>4, <1>5, <1>6, <1>8, <1>15 DEF Between
<1>20. Changed(m, L, heads, mids, done2, new2, cd2, sc2)
  <2>1. N <= n + 1
    BY <1>3, <1>5, <1>7
  <2>2. done2 \subseteq CfgEdges(m) /\ \A f \in done2 : f \in done \/ f = e
    BY <1>3
  <2> QED BY <1>1, <1>3, <1>5, <1>6, <1>8, <1>17, <1>18, <1>19, <2>1, <2>2 DEF Changed
<1> QED BY <1>20

(***************************************************************************)
(* The invariant.                                                          *)
(***************************************************************************)
CallIds == [p \in Pointers(module) |-> callEdgeIds[CallKey(p)]]
CfgLogOf ==
  [e \in CfgEdges(module) |-> Log("cfg_edge", cfgEdgeIds[CfgKey(e[1], e[2])])]
LoggedEdges == {e \in CfgEdges(module) : IsLogged(e)}

\* What is between the phis and the terminator of each block in phase ph.
MidsIn(m, mids, ph, K) ==
  \A b \in Blocks(m) :
    /\ ph \in Early => mids[b] \in Seq(Inner(m, b))
    /\ ph \in {"entry_logged", "aborted"} => mids[b] \in Seq(Inner(m, b) \cup EntryItems)
    /\ ph \notin Early => KeptIn(mids[b], EntryItems) = EntryOf(m, b) /\ EntriesIn(m, b, mids[b])
    /\ ph \in CallsLogged => Paired(m, K, Join(mids[b], <<LastOf(m, b)>>))

\* Of the edges G that get a log, done have it and rest are left.
SplitsIn(ph, done, rest, G) ==
  /\ ph \notin Splitting => done = {}
  /\ ph # "splitting" => rest = <<>>
  /\ ph \in Splitting =>
       /\ rest \in Seq(G) /\ Distinct(rest) /\ done \subseteq G
       /\ \A e \in G : e \in done <=> ~ Holds(rest, e)

Described(heads, mids, done, new) ==
  /\ Placed(module, heads, mids)
  /\ Changed(module, CfgLogOf, heads, mids, done, new, code, succs)
  /\ MidsIn(module, mids, phase, CallIds)
  /\ SplitsIn(phase, done, splits, LoggedEdges)

Stages ==
  /\ phase \in Early \cup {"entry_logged", "aborted"} \cup CallsLogged
  /\ module \in Modules
  /\ phase \in Early => IInv /\ Complete
  /\ phase \notin Early => Ready
  /\ phase \in CallsLogged => ~ DefinesPrintf(module)

InjectInv == Stages /\ \E heads, mids, done, new : Described(heads, mids, done, new)

\* As long as no edge is split it does not matter what their logs are.
LEMMA ChangedNot ==
  ASSUME NEW m, NEW L, NEW L2, NEW heads, NEW mids, NEW new, NEW cd, NEW sc, NEW done, done = {},
         Changed(m, L, heads, mids, done, new, cd, sc)
  PROVE  Changed(m, L2, heads, mids, done, new, cd, sc)
BY DEF Changed

\* The code of the blocks before any split.
LEMMA Unsplit ==
  ASSUME NEW m, WellFormed(m), NEW L, NEW heads, NEW mids, NEW new, NEW cd, NEW sc,
         NEW done, done = {}
  PROVE  Changed(m, L, heads, mids, done, new, cd, sc) <=>
           /\ IsVector(cd) /\ IsVector(sc) /\ Len(cd) = Len(m.body) /\ Len(sc) = Len(m.body)
           /\ \A b \in Blocks(m) : cd[b] = Laid(m, b, heads[b], mids[b]) /\ sc[b] = Successors(m, b)
<1>1. ASSUME NEW b \in Blocks(m)
      PROVE  /\ BlockNow(m, heads, mids, done, b) = Laid(m, b, heads[b], mids[b])
             /\ SuccsNow(m, done, new, b) = Successors(m, b)
  <2>1. ~ Moved(m, done, b) /\ ~ Shifted(m, done, b)
    BY DEF Moved, Shifted
  <2>2. BlockNow(m, heads, mids, done, b) = Laid(m, b, heads[b], mids[b])
    BY <2>1 DEF BlockNow, Laid, StartOf, EndOf
  <2>3. PICK v : v = Successors(m, b)
    OBVIOUS
  <2>4. v \in Seq(Blocks(m))
    BY <2>3, EdgeParts
  <2>5. v = [k \in 1..Len(v) |-> v[k]]
    BY <2>4
  <2>6. SuccsNow(m, done, new, b) = v
    BY <2>3, <2>5 DEF SuccsNow
  <2> QED BY <2>2, <2>3, <2>6
<1>2. Len(m.body) \in Nat
  BY EdgeParts
<1>3. PICK N : N = Len(m.body)
  OBVIOUS
<1>4. ASSUME Changed(m, L, heads, mids, done, new, cd, sc)
      PROVE  Len(cd) = N /\ Len(sc) = N /\ IsVector(cd) /\ IsVector(sc)
  <2>1. /\ IsVector(cd) /\ IsVector(sc) /\ Len(cd) = Len(sc) /\ N <= Len(cd)
        /\ \A c \in (N + 1)..Len(cd) : \E e \in done : new[e] = c
    BY <1>3, <1>4 DEF Changed, Numbered
  <2>2. Len(cd) \in Nat
    BY <2>1, VectorDomain
  <2>3. N + 1 \notin (N + 1)..Len(cd)
    BY <2>1
  <2> QED BY <1>2, <1>3, <2>1, <2>2, <2>3
<1>5. ASSUME Len(cd) = N PROVE Numbered(m, done, new, Len(cd))
  <2>1. \A c : c \notin (N + 1)..Len(cd)
    BY <1>2, <1>3, <1>5
  <2> QED BY <1>3, <2>1 DEF Numbered
<1>6. ASSUME Changed(m, L, heads, mids, done, new, cd, sc)
      PROVE  \A b \in Blocks(m) : /\ cd[b] = BlockNow(m, heads, mids, done, b)
                                  /\ sc[b] = SuccsNow(m, done, new, b)
  BY <1>6 DEF Changed
<1>7. ASSUME IsVector(cd), IsVector(sc), Len(cd) = N, Len(sc) = N,
             \A b \in Blocks(m) : /\ cd[b] = BlockNow(m, heads, mids, done, b)
                                  /\ sc[b] = SuccsNow(m, done, new, b)
      PROVE  Changed(m, L, heads, mids, done, new, cd, sc)
  <2>1. N <= N
    BY <1>2, <1>3
  <2> QED BY <1>3, <1>5, <1>7, <2>1 DEF Changed
<1>8. ASSUME Changed(m, L, heads, mids, done, new, cd, sc)
      PROVE  /\ IsVector(cd) /\ IsVector(sc) /\ Len(cd) = N /\ Len(sc) = N
             /\ \A b \in Blocks(m) : cd[b] = Laid(m, b, heads[b], mids[b]) /\ sc[b] = Successors(m, b)
  BY <1>1, <1>4, <1>6, <1>8
<1>9. ASSUME IsVector(cd), IsVector(sc), Len(cd) = N, Len(sc) = N,
             \A b \in Blocks(m) : cd[b] = Laid(m, b, heads[b], mids[b]) /\ sc[b] = Successors(m, b)
      PROVE  Changed(m, L, heads, mids, done, new, cd, sc)
  BY <1>1, <1>7, <1>9
<1> QED BY <1>3, <1>8, <1>9

\* In the beginning the code is that of the module.
LEMMA InjectBegins == InjectInit => InjectInv
<1> SUFFICES ASSUME InjectInit PROVE InjectInv
  OBVIOUS
<1>1. IInv /\ Complete /\ phase = "blocks" /\ module \in Modules
  BY InitInvariant, InitComplete DEF InjectInit, Init
<1>2. WellFormed(module)
  BY <1>1, BuilderAssumption
<1>3. Stages
  BY <1>1, Phases DEF Stages, CallsLogged
<1>4. PICK m : m = module
  OBVIOUS
<1> DEFINE P(b, head, mid) == /\ IsLaid(m, b, head, mid) /\ mid \in Seq(Inner(m, b))
                              /\ BodyOf(m, b) = Laid(m, b, head, mid)
           heads == [b \in Blocks(m) |-> CHOOSE head : \E mid : P(b, head, mid)]
           mids == [b \in Blocks(m) |-> CHOOSE mid : P(b, heads[b], mid)]
<1>5. ASSUME NEW b \in Blocks(m) PROVE P(b, heads[b], mids[b])
  <2>1. \E head, mid : P(b, head, mid)
    BY <1>2, <1>4, BodyIsLaid
  <2> HIDE DEF P
  <2>2. \E mid : P(b, heads[b], mid)
    BY <2>1
  <2>3. PICK h : h = heads[b]
    OBVIOUS
  <2> HIDE DEF heads
  <2>4. mids[b] = CHOOSE mid : P(b, h, mid)
    BY <2>3
  <2>5. P(b, h, mids[b])
    BY <2>2, <2>3, <2>4
  <2> QED BY <2>3, <2>5
<1>6. PICK hs, ms : hs = heads /\ ms = mids
  OBVIOUS
<1>7. \A b \in Blocks(m) : P(b, hs[b], ms[b])
  BY <1>5, <1>6
<1> HIDE DEF heads, mids
<1>8. Placed(module, hs, ms)
  BY <1>4, <1>7 DEF Placed
<1>9. Changed(module, CfgLogOf, hs, ms, {}, <<>>, code, succs)
  <2>1. /\ code = [b \in Blocks(m) |-> BodyOf(m, b)]
        /\ succs = [b \in Blocks(m) |-> Successors(m, b)]
    BY <1>4 DEF InjectInit, BodyOf
  <2>2. PICK N : N = Len(m.body)
    OBVIOUS
  <2>3. N \in Nat /\ Blocks(m) = 1..N
    BY <1>2, <1>4, <2>2, EdgeParts
  <2>4. code = [k \in 1..N |-> code[k]] /\ succs = [k \in 1..N |-> succs[k]]
    BY <2>1, <2>3
  <2>5. IsVector(code) /\ Len(code) = N /\ IsVector(succs) /\ Len(succs) = N
    BY <2>3, <2>4, VectorIntro
  <2>6. \A b \in Blocks(m) : code[b] = Laid(m, b, hs[b], ms[b]) /\ succs[b] = Successors(m, b)
    BY <1>7, <2>1
  <2> DEFINE none == {}
  <2>7. none = {}
    OBVIOUS
  <2> HIDE DEF none
  <2>8. Changed(m, CfgLogOf, hs, ms, none, <<>>, code, succs)
    BY <1>2, <1>4, <2>2, <2>5, <2>6, <2>7, Unsplit
  <2> QED BY <1>4, <2>7, <2>8
<1>10. MidsIn(module, ms, phase, CallIds)
  BY <1>1, <1>4, <1>7, Phases DEF MidsIn, CallsLogged
<1>11. SplitsIn(phase, {}, splits, LoggedEdges)
  BY <1>1 DEF SplitsIn, Splitting, InjectInit
<1>12. Described(hs, ms, {}, <<>>)
  BY <1>8, <1>9, <1>10, <1>11 DEF Described
<1> QED BY <1>3, <1>12 DEF InjectInv

LEMMA BuildKeeps == InjectInv /\ Build => InjectInv'
<1> SUFFICES ASSUME InjectInv, Build PROVE InjectInv'
  OBVIOUS
<1>1. BuilderNext /\ code' = code /\ succs' = succs /\ splits' = splits
  BY DEF Build, injectVars
<1>2. phase \in DOMAIN NextPhase /\ module' = module
  <2>0. DOMAIN NextPhase = {"blocks", "nodes", "sequence", "control_flow", "data_flow", "info"}
    BY DEF NextPhase
  <2>1. \A ph \in {"blocks", "nodes", "sequence", "control_flow", "data_flow", "info"} :
          Round(ph) => phase \in DOMAIN NextPhase
    BY <2>0 DEF Round
  <2>2. CASE RegisterFunctionsAndBasicBlocks
    BY <2>1, <2>2 DEF RegisterFunctionsAndBasicBlocks
  <2>3. CASE RegisterInstructionNodes
    BY <2>1, <2>3 DEF RegisterInstructionNodes
  <2>4. CASE RegisterInstructionSequenceEdges
    BY <2>1, <2>4 DEF RegisterInstructionSequenceEdges
  <2>5. CASE RegisterControlFlowEdges
    <3>1. Round("control_flow") /\ module' = module
      BY <2>5, Zenon DEF RegisterControlFlowEdges
    <3> QED BY <2>1, <3>1
  <2>6. CASE RegisterDataFlowAndCallEdges
    BY <2>1, <2>6 DEF RegisterDataFlowAndCallEdges
  <2>7. CASE PopulateBuildInfo
    BY <2>1, <2>7 DEF PopulateBuildInfo
  <2>8. CASE EndOfPhase
    BY <2>8 DEF EndOfPhase
  <2> QED BY <1>1, <2>2, <2>3, <2>4, <2>5, <2>6, <2>7, <2>8 DEF BuilderNext
<1>3. phase \in Early /\ Stages
  BY <1>2 DEF Early, InjectInv
<1>4. IInv /\ Complete /\ module \in Modules
  BY <1>3 DEF Stages
<1>5. IInv' /\ Complete'
  BY <1>1, <1>4, NextStep, NextComplete
<1>6. phase' \in Early
  BY <1>5, Phases DEF IInv, Control
<1>7. Stages'
  BY <1>2, <1>4, <1>5, <1>6, Phases DEF Stages, CallsLogged
<1>8. PICK heads, mids, done, new : Described(heads, mids, done, new)
  BY DEF InjectInv
<1>9. phase \notin Splitting /\ phase' \notin Splitting
  BY <1>3, <1>6, Phases DEF Splitting
<1>10. done = {} /\ splits = <<>>
  BY <1>8, <1>9 DEF Described, SplitsIn, Splitting
<1>11. Placed(module, heads, mids)'
  BY <1>2, <1>8 DEF Described
<1>12. Changed(module, CfgLogOf, heads, mids, done, new, code, succs)'
  <2>1. PICK m, L, L2, cd, sc : /\ m = module /\ L = CfgLogOf /\ L2 = CfgLogOf'
                                /\ cd = code /\ sc = succs
    OBVIOUS
  <2>2. Changed(m, L, heads, mids, done, new, cd, sc)
    BY <1>8, <2>1 DEF Described
  <2>3. Changed(m, L2, heads, mids, done, new, cd, sc)
    BY <1>10, <2>2, ChangedNot
  <2> QED BY <1>1, <1>2, <2>1, <2>3
<1>13. MidsIn(module, mids, phase, CallIds)'
  <2>1. phase' \notin CallsLogged /\ phase' \notin {"entry_logged", "aborted"}
    BY <1>6, Phases DEF CallsLogged
  <2>2. \A b \in Blocks(module) : mids[b] \in Seq(Inner(module, b))
    BY <1>3, <1>8 DEF Described, MidsIn
  <2> QED BY <1>2, <1>6, <2>1, <2>2 DEF MidsIn
<1>14. SplitsIn(phase, done, splits, LoggedEdges)'
  BY <1>1, <1>9, <1>10 DEF SplitsIn
<1> QED BY <1>7, <1>11, <1>12, <1>13, <1>14 DEF InjectInv, Described

\* The phases from "built" on change neither the module nor its graph.
LEMMA StageKeeps ==
  ASSUME UNCHANGED <<module, cursor, graphVars, idVars, infoVars>>
  PROVE  /\ module' = module /\ (Ready => Ready') /\ CallIds' = CallIds
         /\ CfgLogOf' = CfgLogOf /\ LoggedEdges' = LoggedEdges
<1>1. /\ module' = module /\ functionIds' = functionIds /\ basicBlockIds' = basicBlockIds
      /\ instructionNodeIds' = instructionNodeIds /\ edges' = edges
      /\ cfgEdgeIds' = cfgEdgeIds /\ callEdgeIds' = callEdgeIds
  BY DEF graphVars, idVars, infoVars
<1>2. /\ \A b, k : CfgKey(b, k)' = CfgKey(b, k)
      /\ \A p : CallKey(p)' = CallKey(p)
  BY <1>1 DEF CfgKey, CallKey
<1>3. Ready => Ready'
  BY <1>1, <1>2 DEF Ready
<1>4. CallIds' = CallIds
  BY <1>1, <1>2 DEF CallIds
<1>5. CfgLogOf' = CfgLogOf
  BY <1>1, <1>2 DEF CfgLogOf
<1>6. LoggedEdges' = LoggedEdges
  BY <1>1, <1>2 DEF LoggedEdges, IsLogged
<1> QED BY <1>1, <1>3, <1>4, <1>5, <1>6

\* What an invariant state of the unsplit module is.
LEMMA BlocksNow ==
  ASSUME Stages, NEW heads, NEW mids, NEW done, NEW new, Described(heads, mids, done, new),
         phase \notin Splitting
  PROVE  /\ WellFormed(module) /\ done = {} /\ splits = <<>>
         /\ IsVector(code) /\ IsVector(succs)
         /\ Len(code) = Len(module.body) /\ Len(succs) = Len(module.body)
         /\ DOMAIN code = Blocks(module)
         /\ \A b \in Blocks(module) : /\ IsLaid(module, b, heads[b], mids[b])
                                      /\ code[b] = Laid(module, b, heads[b], mids[b])
                                      /\ succs[b] = Successors(module, b)
<1>1. WellFormed(module)
  BY BuilderAssumption DEF Stages
<1>2. done = {} /\ splits = <<>>
  BY DEF Described, SplitsIn, Splitting
<1>3. PICK m, L, cd, sc : m = module /\ L = CfgLogOf /\ cd = code /\ sc = succs
  OBVIOUS
<1>4. Changed(m, L, heads, mids, done, new, cd, sc)
  BY <1>3 DEF Described
<1>5. /\ IsVector(cd) /\ IsVector(sc) /\ Len(cd) = Len(m.body) /\ Len(sc) = Len(m.body)
      /\ \A b \in Blocks(m) : cd[b] = Laid(m, b, heads[b], mids[b]) /\ sc[b] = Successors(m, b)
  BY <1>1, <1>2, <1>3, <1>4, Unsplit
<1>6. DOMAIN cd = Blocks(m)
  BY <1>5, VectorDomain DEF Blocks
<1>7. \A b \in Blocks(m) : IsLaid(m, b, heads[b], mids[b])
  BY <1>3 DEF Described, Placed
<1> QED BY <1>1, <1>2, <1>3, <1>5, <1>6, <1>7

\* The step from one unsplit module to another.
LEMMA UnsplitStep ==
  ASSUME Stages, NEW heads, NEW mids, NEW done, NEW new, Described(heads, mids, done, new),
         phase \notin Splitting, phase' \notin Splitting,
         module' = module, succs' = succs, splits' = splits, NEW mids2,
         code' = [b \in DOMAIN code |-> code'[b]],
         \A b \in Blocks(module) : /\ IsLaid(module, b, heads[b], mids2[b])
                                   /\ code'[b] = Laid(module, b, heads[b], mids2[b]),
         MidsIn(module, mids2, phase, CallIds)'
  PROVE  Described(heads, mids2, done, new)'
<1>1. /\ WellFormed(module) /\ done = {} /\ splits = <<>>
      /\ IsVector(code) /\ IsVector(succs)
      /\ Len(code) = Len(module.body) /\ Len(succs) = Len(module.body)
      /\ DOMAIN code = Blocks(module)
      /\ \A b \in Blocks(module) : succs[b] = Successors(module, b)
  BY BlocksNow
<1>2. Placed(module, heads, mids2)'
  BY DEF Placed
<1>3. PICK m, L, cd, sc : m = module /\ L = CfgLogOf' /\ cd = code' /\ sc = succs
  OBVIOUS
<1>4. PICK N : N = Len(m.body)
  OBVIOUS
<1>5. N \in Nat /\ Blocks(m) = 1..N
  BY <1>1, <1>3, <1>4, EdgeParts
<1>6. cd = [k \in 1..N |-> cd[k]]
  BY <1>1, <1>3, <1>5
<1>7. IsVector(cd) /\ Len(cd) = N
  BY <1>5, <1>6, VectorIntro
<1>8. \A b \in Blocks(m) : cd[b] = Laid(m, b, heads[b], mids2[b]) /\ sc[b] = Successors(m, b)
  BY <1>1, <1>3
<1>9. Changed(m, L, heads, mids2, done, new, cd, sc)
  BY <1>1, <1>3, <1>4, <1>7, <1>8, Unsplit
<1>10. Changed(module, CfgLogOf, heads, mids2, done, new, code, succs)'
  BY <1>3, <1>9
<1>11. SplitsIn(phase, done, splits, LoggedEdges)'
  BY <1>1 DEF SplitsIn
<1> QED BY <1>2, <1>10, <1>11 DEF Described

LEMMA EntryKeeps == InjectInv /\ InjectEntryLogs => InjectInv'
<1> SUFFICES ASSUME InjectInv, InjectEntryLogs PROVE InjectInv'
  OBVIOUS
<1>1. /\ phase = "built" /\ phase' = "entry_logged"
      /\ UNCHANGED <<module, cursor, graphVars, idVars, infoVars>>
      /\ succs' = succs /\ splits' = splits
  BY DEF InjectEntryLogs, InjectStage
<1>2. Stages /\ IInv /\ Complete /\ module \in Modules
  BY <1>1, Phases DEF InjectInv, Stages
<1>3. Ready
  BY <1>1, <1>2, ReadyWhenBuilt
<1>4. module' = module /\ Ready' /\ CallIds' = CallIds
  BY <1>1, <1>3, StageKeeps
<1>5. phase \in Early /\ phase' \notin Early /\ phase' \notin CallsLogged
      /\ phase \notin Splitting /\ phase' \notin Splitting
  BY <1>1, Phases DEF CallsLogged, Splitting
<1>6. Stages'
  BY <1>1, <1>2, <1>4, <1>5 DEF Stages
<1>7. PICK heads, mids, done, new : Described(heads, mids, done, new)
  BY DEF InjectInv
<1>8. /\ WellFormed(module) /\ DOMAIN code = Blocks(module)
      /\ \A b \in Blocks(module) : /\ IsLaid(module, b, heads[b], mids[b])
                                   /\ code[b] = Laid(module, b, heads[b], mids[b])
  BY <1>2, <1>5, <1>7, BlocksNow
<1>9. \A b \in Blocks(module) : mids[b] \in Seq(Inner(module, b))
  BY <1>5, <1>7 DEF Described, MidsIn
<1> DEFINE P(b, new_) == /\ IsEntryLogged(module, b, heads[b], new_)
                         /\ code'[b] = Laid(module, b, heads[b], new_)
           mids2 == [b \in Blocks(module) |-> CHOOSE new_ : P(b, new_)]
<1>10. ASSUME NEW b \in Blocks(module) PROVE \E new_ : P(b, new_)
  <2>1. PICK m, v, head, mid : m = module /\ v = code[b] /\ head = heads[b] /\ mid = mids[b]
    OBVIOUS
  <2>2. PICK at : at = EntryInsertionPoint(v)
    OBVIOUS
  <2>3. PICK f, e : /\ f = (IF IsEntryBlock(m, b)
                            THEN <<Log("func_enter", functionIds[m.function_of[b]])>> ELSE <<>>)
                    /\ e = <<Log("bb_enter", basicBlockIds[b])>>
    OBVIOUS
  <2>4. code'[b] = Join(Join(Join(Upto(v, at), f), e), After(v, at))
    BY <1>8, <2>1, <2>2, <2>3 DEF InjectEntryLogs, Join, Upto, After
  <2>5. IsInside(at, head, mid)
    <3>1. at = EntryPoint(m, v)
      BY <2>1, <2>2 DEF EntryInsertionPoint, EntryPoint, OpOf, OpIn
    <3>2. head \in Seq(Phis(m, b)) /\ mid \in Seq(Middles(m, b)) /\ v = Laid(m, b, head, mid)
      BY <1>8, <2>1 DEF IsLaid
    <3> QED BY <1>8, <2>1, <3>1, <3>2, EntryPointInside
  <2>6. AreEntries(f, e, EntryOf(m, b))
    <3>0. m.function_of[b] \in Functions(m)
      BY <1>8, <2>1, BodyType
    <3>1. m.function_of[b] \in Functions(m) /\ b \in Int /\ m.function_of[b] \in Int
      BY <2>1, <3>0 DEF Blocks, Functions
    <3>2. functionIds[m.function_of[b]] = m.function_of[b] - 1 /\ basicBlockIds[b] = b - 1
      BY <1>3, <2>1, <3>1 DEF Ready
    <3>3. m.function_of[b] - 1 \in Int /\ b - 1 \in Int
      BY <3>1
    <3>4. /\ Log("func_enter", m.function_of[b] - 1) \in EntryItems
          /\ Log("bb_enter", b - 1) \in EntryItems
      BY <3>3, LogTypes
    <3>5. /\ <<Log("func_enter", m.function_of[b] - 1)>> \in Seq(EntryItems)
          /\ <<Log("bb_enter", b - 1)>> \in Seq(EntryItems) /\ <<>> \in Seq(EntryItems)
      BY <3>4, ShortSequences
    <3> QED BY <2>3, <3>2, <3>5 DEF EntryOf, AreEntries
  <2>7. IsLaid(m, b, head, mid) /\ mid \in Seq(Inner(m, b)) /\ v = Laid(m, b, head, mid)
    BY <1>8, <1>9, <2>1
  <2>8. \E new_ : /\ IsEntryLogged(m, b, head, new_)
                  /\ Join(Join(Join(Upto(v, at), f), e), After(v, at)) = Laid(m, b, head, new_)
    <3>1. WellFormed(m) /\ b \in Blocks(m)
      BY <1>8, <2>1
    <3>2. NoCallUpTo(m, head, mid, at)
      <4>1. at = EntryPoint(m, v)
        BY <2>1, <2>2 DEF EntryInsertionPoint, EntryPoint, OpOf, OpIn
      <4> QED BY <2>7, <3>1, <4>1, NoCallBefore
    <3> QED BY <2>5, <2>6, <2>7, <3>1, <3>2, EntryLogged
  <2> QED BY <2>1, <2>4, <2>8
<1>11. PICK ms : ms = mids2
  OBVIOUS
<1>12. \A b \in Blocks(module) : P(b, ms[b])
  BY <1>10, <1>11
<1> HIDE DEF mids2
<1>13. code' = [b \in DOMAIN code |-> code'[b]]
  BY DEF InjectEntryLogs
<1>14. MidsIn(module, ms, phase, CallIds)'
  BY <1>1, <1>4, <1>5, <1>12 DEF MidsIn, IsEntryLogged
<1>15. Described(heads, ms, done, new)'
  BY <1>1, <1>2, <1>4, <1>5, <1>7, <1>12, <1>13, <1>14, UnsplitStep DEF IsEntryLogged
<1> QED BY <1>6, <1>15 DEF InjectInv

LEMMA AbortKeeps == InjectInv /\ AbortInjection => InjectInv'
<1> SUFFICES ASSUME InjectInv, AbortInjection PROVE InjectInv'
  OBVIOUS
<1>1. /\ phase = "entry_logged" /\ phase' = "aborted"
      /\ UNCHANGED <<module, cursor, graphVars, idVars, infoVars>>
      /\ code' = code /\ succs' = succs /\ splits' = splits
  BY DEF AbortInjection, InjectStage, injectVars
<1>2. /\ phase \notin Early /\ phase' \notin Early /\ phase' \notin CallsLogged
      /\ phase \notin Splitting /\ phase' \notin Splitting
  BY <1>1, Phases DEF CallsLogged, Splitting
<1>3. Stages /\ Ready /\ module \in Modules
  BY <1>2 DEF InjectInv, Stages
<1>4. module' = module /\ Ready' /\ CallIds' = CallIds
  BY <1>1, <1>3, StageKeeps
<1>5. Stages'
  BY <1>1, <1>2, <1>3, <1>4 DEF Stages
<1>6. PICK heads, mids, done, new : Described(heads, mids, done, new)
  BY DEF InjectInv
<1>7. /\ IsVector(code)
      /\ \A b \in Blocks(module) : /\ IsLaid(module, b, heads[b], mids[b])
                                   /\ code[b] = Laid(module, b, heads[b], mids[b])
  BY <1>2, <1>3, <1>6, BlocksNow
<1>8. code' = [b \in DOMAIN code |-> code'[b]]
  BY <1>1, <1>7, VectorDomain
<1>9. MidsIn(module, mids, phase, CallIds)'
  BY <1>1, <1>2, <1>4, <1>6 DEF MidsIn, Described
<1>10. Described(heads, mids, done, new)'
  BY <1>1, <1>2, <1>3, <1>4, <1>6, <1>7, <1>8, <1>9, UnsplitStep
<1> QED BY <1>5, <1>10 DEF InjectInv

\* The log of its entry is in a block when all entry logs are.
LEMMA EntryHeld ==
  ASSUME NEW m, WellFormed(m), NEW b \in Blocks(m), NEW mid \in Seq(Middles(m, b)),
         KeptIn(mid, EntryItems) = EntryOf(m, b)
  PROVE  Log("bb_enter", b - 1) \in EntryItems /\ Holds(mid, Log("bb_enter", b - 1))
<1>1. PICK l, one, first : /\ l = Log("bb_enter", b - 1) /\ one = <<l>>
                           /\ first = IF IsEntryBlock(m, b)
                                      THEN <<Log("func_enter", m.function_of[b] - 1)>> ELSE <<>>
  OBVIOUS
<1>2. l \in EntryItems
  <2>1. b - 1 \in Int
    BY DEF Blocks
  <2> QED BY <1>1, <2>1, LogTypes
<1>3. first \in Seq(EntryItems)
  <2>1. m.function_of[b] \in Functions(m)
    BY BodyType
  <2>2. m.function_of[b] - 1 \in Int
    BY <2>1 DEF Functions
  <2>3. Log("func_enter", m.function_of[b] - 1) \in EntryItems
    BY <2>2, LogTypes
  <2> QED BY <1>1, <2>3, ShortSequences
<1>4. one \in Seq(EntryItems)
  BY <1>1, <1>2, ShortSequences
<1>5. Len(one) = 1 /\ one[1] = l
  BY <1>1
<1>6. PICK u : u = Join(first, one)
  OBVIOUS
<1>7. u = EntryOf(m, b)
  BY <1>1, <1>6 DEF EntryOf
<1>8. Holds(u, l)
  <2>1. IsJoin(EntryItems, first, one, u)
    BY <1>3, <1>4, <1>6 DEF IsJoin
  <2>2. \A k \in 1..Len(one) : Len(first) + k \in 1..Len(u) /\ u[Len(first) + k] = one[k]
    BY <2>1, JoinParts
  <2> QED BY <1>5, <2>2 DEF Holds
<1>9. Holds(KeptIn(mid, EntryItems), l)
  BY <1>7, <1>8
<1>10. Holds(mid, l)
  BY <1>9, KeptHolds
<1> QED BY <1>1, <1>2, <1>10

\* Where an entry is logged there is a log in the code.
LEMMA EntriesThere ==
  ASSUME NEW m, WellFormed(m), NEW b \in Blocks(m), NEW head, NEW mid, IsLaid(m, b, head, mid),
         KeptIn(mid, EntryItems) = EntryOf(m, b), NEW v, v = Laid(m, b, head, mid)
  PROVE  \E k \in 1..Len(v) : v[k] \in LogItems
<1>1. mid \in Seq(Middles(m, b)) /\ head \in Seq(Phis(m, b))
  BY DEF IsLaid
<1>2. PICK l : l = Log("bb_enter", b - 1)
  OBVIOUS
<1>3. l \in EntryItems /\ Holds(mid, l)
  BY <1>1, <1>2, EntryHeld
<1>4. PICK k \in 1..Len(mid) : mid[k] = l
  BY <1>3 DEF Holds
<1>5. Len(head) + k \in 1..Len(v) /\ v[Len(head) + k] = mid[k]
  BY <1>1, LaidTypes
<1> QED BY <1>3, <1>4, <1>5, LogTypes

\* What is inserted into one block is what the rule makes of it.
LEMMA CallsAreRule ==
  ASSUME Ready, WellFormed(module), ~ DefinesPrintf(module), NEW v \in Seq(Items(module))
  PROVE  /\ IsNaming(module, CallIds)
         /\ Cat([k \in DOMAIN v |-> LogThenCall(v[k])]) = Spread(v, CallRule(module, CallIds))
<1>1. ASSUME NEW p \in Pointers(module), IsDirectCall(module, Instr(module, p))
      PROVE  /\ CallKey(p) \in DOMAIN callEdgeIds /\ callEdgeIds[CallKey(p)] \in Int
             /\ CallIds[p] = callEdgeIds[CallKey(p)]
  BY <1>1 DEF Ready, CallIds
<1>2. IsNaming(module, CallIds)
  BY <1>1 DEF IsNaming
<1>3. ASSUME NEW x \in Items(module)
      PROVE  LogThenCall(x) = CallRule(module, CallIds)[x]
  <2>1. CASE Calls(module, x)
    <3>1. x \in OriginalItems(module) /\ x.at \in Pointers(module)
      BY <2>1, OriginalTypes DEF Calls
    <3>2. /\ CallKey(x.at) \in DOMAIN callEdgeIds
          /\ CallIds[x.at] = callEdgeIds[CallKey(x.at)]
      BY <1>1, <2>1, <3>1 DEF Calls
    <3>3. CallsDefinedFunction(x) /\ KeyOfCall(x) = CallKey(x.at)
      BY <2>1 DEF CallsDefinedFunction, KeyOfCall, NodeIdOf, CalleeOf, CallKey, Calls
    <3>4. LogThenCall(x) = <<Log("call_edge", CallIds[x.at]), x>>
      BY <3>2, <3>3 DEF LogThenCall
    <3> QED BY <2>1, <3>4 DEF CallRule
  <2>2. CASE ~ Calls(module, x)
    <3>1. ~ CallsDefinedFunction(x)
      BY <2>2 DEF CallsDefinedFunction, Calls
    <3>2. LogThenCall(x) = <<x>>
      BY <3>1 DEF LogThenCall
    <3> QED BY <2>2, <3>2 DEF CallRule
  <2> QED BY <2>1, <2>2
<1>4. \A k \in DOMAIN v : v[k] \in Items(module)
  OBVIOUS
<1>5. [k \in DOMAIN v |-> LogThenCall(v[k])] = [k \in DOMAIN v |-> CallRule(module, CallIds)[v[k]]]
  BY <1>3, <1>4
<1> QED BY <1>2, <1>5 DEF Cat, Spread

LEMMA CallKeeps == InjectInv /\ InjectCallEdgeLogs => InjectInv'
<1> SUFFICES ASSUME InjectInv, InjectCallEdgeLogs PROVE InjectInv'
  OBVIOUS
<1>1. /\ phase = "entry_logged" /\ phase' = "calls_logged"
      /\ UNCHANGED <<module, cursor, graphVars, idVars, infoVars>>
      /\ succs' = succs /\ splits' = splits /\ ~ InjectionThrows
  BY DEF InjectCallEdgeLogs, InjectStage
<1>2. /\ phase \notin Early /\ phase' \notin Early /\ phase' \in CallsLogged
      /\ phase \notin Splitting /\ phase' \notin Splitting
      /\ phase' \notin {"entry_logged", "aborted"}
  BY <1>1, Phases DEF CallsLogged, Splitting
<1>3. Stages /\ Ready /\ module \in Modules
  BY <1>2 DEF InjectInv, Stages
<1>4. module' = module /\ Ready' /\ CallIds' = CallIds
  BY <1>1, <1>3, StageKeeps
<1>5. PICK heads, mids, done, new : Described(heads, mids, done, new)
  BY DEF InjectInv
<1>6. /\ WellFormed(module) /\ DOMAIN code = Blocks(module)
      /\ \A b \in Blocks(module) : /\ IsLaid(module, b, heads[b], mids[b])
                                   /\ code[b] = Laid(module, b, heads[b], mids[b])
  BY <1>2, <1>3, <1>5, BlocksNow
<1>7. \A b \in Blocks(module) : /\ mids[b] \in Seq(Inner(module, b) \cup EntryItems)
                                /\ KeptIn(mids[b], EntryItems) = EntryOf(module, b)
                                /\ EntriesIn(module, b, mids[b])
  BY <1>1, <1>2, <1>5 DEF Described, MidsIn
<1>8. \A b \in Blocks(module) : code[b] \in Seq(Items(module))
  <2> SUFFICES ASSUME NEW b \in Blocks(module) PROVE code[b] \in Seq(Items(module))
    OBVIOUS
  <2>1. PICK v, head, mid : v = code[b] /\ head = heads[b] /\ mid = mids[b]
    OBVIOUS
  <2>2. /\ head \in Seq(Phis(module, b)) /\ mid \in Seq(Middles(module, b))
        /\ v = Laid(module, b, head, mid)
    BY <1>6, <2>1 DEF IsLaid
  <2> QED BY <1>6, <2>1, <2>2, LaidTypes
<1>9. ~ DefinesPrintf(module)
  <2> SUFFICES ASSUME DefinesPrintf(module) PROVE FALSE
    OBVIOUS
  <2>1. PICK b \in Blocks(module) : TRUE
    BY DEF DefinesPrintf, IsDeclaration, BlocksOf
  <2>2. PICK v, head, mid : v = code[b] /\ head = heads[b] /\ mid = mids[b]
    OBVIOUS
  <2>3. /\ IsLaid(module, b, head, mid) /\ v = Laid(module, b, head, mid)
        /\ KeptIn(mid, EntryItems) = EntryOf(module, b)
    BY <1>6, <1>7, <2>2
  <2>4. PICK k \in 1..Len(v) : v[k] \in LogItems
    BY <1>6, <2>3, EntriesThere
  <2>5. v \in Seq(Items(module))
    BY <1>8, <2>2
  <2>6. b \in DOMAIN code /\ k \in DOMAIN code[b] /\ code[b][k].kind = "log"
    BY <1>6, <2>2, <2>4, <2>5, LogTypes
  <2>7. HasNoNode(code[b][k])
    BY <2>6 DEF HasNoNode, CallsDefinedFunction, NodeIdOf, IsOriginal
  <2> QED BY <1>1, <2>6, <2>7 DEF InjectionThrows
<1>10. Stages'
  BY <1>1, <1>2, <1>3, <1>4, <1>9 DEF Stages
<1> DEFINE P(b, new_) ==
             /\ IsLaid(module, b, heads[b], new_)
             /\ KeptIn(new_, EntryItems) = EntryOf(module, b) /\ EntriesIn(module, b, new_)
             /\ Paired(module, CallIds, Join(new_, <<LastOf(module, b)>>))
             /\ code'[b] = Laid(module, b, heads[b], new_)
           mids2 == [b \in Blocks(module) |-> CHOOSE new_ : P(b, new_)]
<1>11. ASSUME NEW b \in Blocks(module) PROVE \E new_ : P(b, new_)
  <2>1. PICK m, K, v, head, mid : /\ m = module /\ K = CallIds
                                  /\ v = code[b] /\ head = heads[b] /\ mid = mids[b]
    OBVIOUS
  <2>2. /\ IsLaid(m, b, head, mid) /\ v = Laid(m, b, head, mid) /\ v \in Seq(Items(m))
        /\ mid \in Seq(Inner(m, b) \cup EntryItems) /\ KeptIn(mid, EntryItems) = EntryOf(m, b)
        /\ EntriesIn(m, b, mid)
    BY <1>6, <1>7, <1>8, <2>1
  <2>3. IsNaming(m, K) /\ Cat([k \in DOMAIN v |-> LogThenCall(v[k])]) = Spread(v, CallRule(m, K))
    BY <1>3, <1>6, <1>9, <2>1, <2>2, CallsAreRule
  <2>4. code'[b] = Spread(v, CallRule(m, K))
    BY <1>6, <2>1, <2>3 DEF InjectCallEdgeLogs
  <2>5. PICK new_ : /\ IsLaid(m, b, head, new_) /\ EntriesIn(m, b, new_)
                    /\ KeptIn(new_, EntryItems) = KeptIn(mid, EntryItems)
                    /\ Paired(m, K, Join(new_, <<LastOf(m, b)>>))
                    /\ Spread(Laid(m, b, head, mid), CallRule(m, K)) = Laid(m, b, head, new_)
    <3>1. WellFormed(m) /\ b \in Blocks(m)
      BY <1>6, <2>1
    <3> QED BY <2>2, <2>3, <3>1, CallLogged
  <2> QED BY <2>1, <2>2, <2>4, <2>5
<1>12. PICK ms : ms = mids2
  OBVIOUS
<1>13. \A b \in Blocks(module) : P(b, ms[b])
  BY <1>11, <1>12
<1> HIDE DEF mids2
<1>14. code' = [b \in DOMAIN code |-> code'[b]]
  BY DEF InjectCallEdgeLogs
<1>15. MidsIn(module, ms, phase, CallIds)'
  BY <1>1, <1>2, <1>4, <1>13 DEF MidsIn
<1>16. Described(heads, ms, done, new)'
  BY <1>1, <1>2, <1>3, <1>4, <1>5, <1>13, <1>14, <1>15, UnsplitStep
<1> QED BY <1>10, <1>16 DEF InjectInv

\* What injectControlFlowEdgeLogs has to split: every logged edge, once.
ToSplit ==
  Cat([b \in Blocks(module) |->
    Cat([k \in DOMAIN Successors(module, b) |-> Only(IsLogged(<<b, k>>), <<b, k>>)])])

LEMMA ToSplitHolds ==
  ASSUME WellFormed(module)
  PROVE  /\ ToSplit \in Seq(LoggedEdges) /\ Distinct(ToSplit)
         /\ \A e \in LoggedEdges : Holds(ToSplit, e)
<1>1. PICK m, G : m = module /\ G = LoggedEdges
  OBVIOUS
<1> DEFINE E == CfgEdges(m)
           slots(b) == [k \in 1..Len(Successors(m, b)) |-> <<b, k>>]
           h == [b \in Blocks(m) |-> KeptIn(slots(b), G)]
           list == [b \in 1..Len(m.body) |-> b]
<1>2. /\ Len(m.body) \in Nat /\ Blocks(m) = 1..Len(m.body)
      /\ \A b \in Blocks(m) : /\ Successors(m, b) \in Seq(Blocks(m))
                              /\ Len(Successors(m, b)) \in Nat
                              /\ \A k \in 1..Len(Successors(m, b)) : <<b, k>> \in E
      /\ \A e \in E : /\ e[1] \in Blocks(m) /\ e = <<e[1], e[2]>>
                      /\ e[2] \in 1..Len(Successors(m, e[1]))
  BY <1>1, EdgeParts
<1>3. G \subseteq E /\ \A e \in E : e \in G <=> IsLogged(e)
  BY <1>1 DEF LoggedEdges
<1> HIDE DEF E
<1>4. ASSUME NEW b \in Blocks(m)
      PROVE  /\ slots(b) \in Seq(E) /\ Distinct(slots(b))
             /\ \A e : Holds(slots(b), e) <=> e \in E /\ e[1] = b
             /\ Cat([k \in DOMAIN Successors(m, b) |-> Only(IsLogged(<<b, k>>), <<b, k>>)])
                  = KeptIn(slots(b), G)
  <2>1. PICK n, v : n = Len(Successors(m, b)) /\ v = slots(b)
    OBVIOUS
  <2>2. n \in Nat /\ \A k \in 1..n : <<b, k>> \in E
    BY <1>2, <2>1
  <2>3. v = [k \in 1..n |-> <<b, k>>]
    BY <2>1
  <2>4. v \in Seq(E) /\ Len(v) = n /\ DOMAIN v = 1..n /\ \A k \in 1..n : v[k] = <<b, k>>
    BY <2>2, <2>3
  <2>5. Distinct(v)
    BY <2>4 DEF Distinct
  <2>6. ASSUME NEW e PROVE Holds(v, e) <=> e \in E /\ e[1] = b
    <3>1. ASSUME e \in E, e[1] = b PROVE e[2] \in 1..n /\ e = v[e[2]]
      BY <1>2, <2>1, <2>4, <3>1
    <3>2. ASSUME NEW k \in 1..n, v[k] = e PROVE e \in E /\ e[1] = b
      BY <2>2, <2>4, <3>2
    <3> QED BY <2>4, <3>1, <3>2 DEF Holds
  <2>7. DOMAIN Successors(m, b) = 1..n
    BY <1>2, <2>1
  <2>8. \A k \in 1..n : <<b, k>> \in G <=> IsLogged(<<b, k>>)
    BY <1>3, <2>2
  <2>9. [k \in DOMAIN Successors(m, b) |-> IF IsLogged(<<b, k>>) THEN <<<<b, k>>>> ELSE <<>>]
          = [k \in DOMAIN v |-> IF v[k] \in G THEN <<v[k]>> ELSE <<>>]
    BY <2>4, <2>7, <2>8
  <2>10. Cat([k \in DOMAIN Successors(m, b) |-> Only(IsLogged(<<b, k>>), <<b, k>>)])
           = KeptIn(v, G)
    BY <2>9 DEF Cat, Only, KeptIn
  <2> QED BY <2>1, <2>4, <2>5, <2>6, <2>10
<1>5. ASSUME NEW b \in Blocks(m)
      PROVE  /\ h[b] \in Seq(G) /\ Distinct(h[b])
             /\ \A e : Holds(h[b], e) <=> e \in G /\ e[1] = b
  <2>1. PICK v : v = slots(b)
    OBVIOUS
  <2>2. v \in Seq(E) /\ Distinct(v) /\ \A e : Holds(v, e) <=> e \in E /\ e[1] = b
    BY <1>4, <2>1
  <2>3. h[b] = KeptIn(v, G)
    BY <2>1
  <2> HIDE DEF h, slots
  <2>4. Distinct(KeptIn(v, G)) /\ KeptIn(v, G) \in Seq(E)
    BY <2>2, KeptDistinct, KeptJoined
  <2>5. \A e : Holds(KeptIn(v, G), e) <=> Holds(v, e) /\ e \in G
    BY <2>2, KeptHolds
  <2>6. \A e : Holds(KeptIn(v, G), e) <=> e \in G /\ e[1] = b
    BY <1>3, <2>2, <2>5
  <2>7. KeptIn(v, G) \in Seq(G)
    <3>1. PICK w : w = KeptIn(v, G)
      OBVIOUS
    <3>2. \A k \in 1..Len(w) : w[k] \in G
      BY <2>6, <3>1 DEF Holds
    <3> QED BY <2>4, <3>1, <3>2
  <2> QED BY <2>3, <2>4, <2>6, <2>7
<1>6. IsRule(h, Blocks(m), G)
  BY <1>5 DEF IsRule
<1>7. PICK N : N = Len(m.body)
  OBVIOUS
<1>8. /\ list \in Seq(Blocks(m)) /\ Distinct(list)
      /\ \A b \in Blocks(m) : b \in 1..Len(list) /\ list[b] = b
      /\ \A k \in 1..Len(list) : list[k] \in Blocks(m)
  <2>1. list = [b \in 1..N |-> b] /\ N \in Nat /\ Blocks(m) = 1..N
    BY <1>2, <1>7
  <2>2. list \in Seq(Blocks(m)) /\ Len(list) = N /\ \A k \in 1..N : list[k] = k
    BY <2>1
  <2> QED BY <2>1, <2>2 DEF Distinct
<1>9. ToSplit = Spread(list, h)
  <2>1. \A b \in Blocks(m) :
          Cat([k \in DOMAIN Successors(m, b) |-> Only(IsLogged(<<b, k>>), <<b, k>>)]) = h[list[b]]
    BY <1>4, <1>8
  <2>2. DOMAIN list = Blocks(m)
    BY <1>2
  <2> HIDE DEF list, h
  <2>3. [b \in Blocks(m) |->
           Cat([k \in DOMAIN Successors(m, b) |-> Only(IsLogged(<<b, k>>), <<b, k>>)])]
          = [b \in DOMAIN list |-> h[list[b]]]
    BY <2>1, <2>2
  <2> QED BY <1>1, <2>3 DEF ToSplit, Cat, Spread
<1> HIDE DEF list, h
<1>10. ToSplit \in Seq(G)
  BY <1>6, <1>8, <1>9, SpreadType
<1>11. Distinct(ToSplit)
  <2>0. \A b \in Blocks(m) : Distinct(h[b]) /\ \A e : Holds(h[b], e) => e[1] = b
    BY <1>5
  <2>1. \A b, c \in Blocks(m) : b # c => \A y : ~ (Holds(h[b], y) /\ Holds(h[c], y))
    BY <2>0, Zenon
  <2>2. \A b \in Blocks(m) : Distinct(h[b])
    BY <2>0, Zenon
  <2>3. list \in Seq(Blocks(m)) /\ Distinct(list)
    BY <1>8
  <2>4. Distinct(Spread(list, h))
    BY <1>6, <2>1, <2>2, <2>3, SpreadDistinct
  <2> QED BY <1>9, <2>4
<1>12. ASSUME NEW e \in G PROVE Holds(ToSplit, e)
  <2>1. \A y : Holds(Spread(list, h), y) <=> \E k \in 1..Len(list) : Holds(h[list[k]], y)
    BY <1>6, <1>8, SpreadHolds
  <2>2. e[1] \in Blocks(m)
    BY <1>2, <1>3
  <2>3. Holds(h[e[1]], e)
    BY <1>5, <2>2
  <2> QED BY <1>8, <1>9, <2>1, <2>2, <2>3
<1> QED BY <1>1, <1>10, <1>11, <1>12

\* What a step that leaves the module and its graph alone leaves of the description.
LEMMA StillPlaced ==
  ASSUME NEW heads, NEW mids, NEW done, NEW new, Described(heads, mids, done, new),
         UNCHANGED <<module, cursor, graphVars, idVars, infoVars>>,
         phase \in CallsLogged, phase' \in CallsLogged
  PROVE  Placed(module, heads, mids)' /\ MidsIn(module, mids, phase, CallIds)'
<1>1. module' = module /\ CallIds' = CallIds
  BY StageKeeps
<1>2. /\ phase \notin Early \cup {"entry_logged", "aborted"}
      /\ phase' \notin Early \cup {"entry_logged", "aborted"}
  BY Phases DEF CallsLogged
<1>3. Placed(module, heads, mids) /\ MidsIn(module, mids, phase, CallIds)
  BY DEF Described
<1> QED BY <1>1, <1>2, <1>3 DEF Placed, MidsIn

LEMMA StagesStep ==
  ASSUME Stages, UNCHANGED <<module, cursor, graphVars, idVars, infoVars>>,
         phase \in CallsLogged, phase' \in CallsLogged
  PROVE  Stages'
<1>1. phase \notin Early /\ phase' \notin Early
  BY Phases DEF CallsLogged
<1>2. Ready /\ module \in Modules /\ ~ DefinesPrintf(module)
  BY <1>1 DEF Stages
<1>3. module' = module /\ Ready'
  BY <1>2, StageKeeps
<1> QED BY <1>1, <1>2, <1>3 DEF Stages

LEMMA CollectKeeps == InjectInv /\ CollectOriginalCfgEdges => InjectInv'
<1> SUFFICES ASSUME InjectInv, CollectOriginalCfgEdges PROVE InjectInv'
  OBVIOUS
<1>1. /\ phase = "calls_logged" /\ phase' = "splitting"
      /\ UNCHANGED <<module, cursor, graphVars, idVars, infoVars>>
      /\ code' = code /\ succs' = succs /\ splits' = ToSplit
  BY DEF CollectOriginalCfgEdges, InjectStage, ToSplit
<1>2. /\ phase \in CallsLogged /\ phase' \in CallsLogged
      /\ phase \notin Splitting /\ phase' \in Splitting
  BY <1>1 DEF CallsLogged, Splitting
<1>3. Stages /\ module \in Modules
  BY DEF InjectInv, Stages
<1>4. Stages'
  BY <1>1, <1>2, <1>3, StagesStep
<1>5. PICK heads, mids, done, new : Described(heads, mids, done, new)
  BY DEF InjectInv
<1>6. module' = module /\ CfgLogOf' = CfgLogOf /\ LoggedEdges' = LoggedEdges
  BY <1>1, StageKeeps
<1>7. WellFormed(module) /\ done = {}
  BY <1>2, <1>3, <1>5, BlocksNow
<1>8. Placed(module, heads, mids)' /\ MidsIn(module, mids, phase, CallIds)'
  BY <1>1, <1>2, <1>5, StillPlaced
<1>9. Changed(module, CfgLogOf, heads, mids, done, new, code, succs)'
  BY <1>1, <1>5, <1>6 DEF Described
<1>10. SplitsIn(phase, done, splits, LoggedEdges)'
  BY <1>1, <1>2, <1>6, <1>7, ToSplitHolds DEF SplitsIn
<1> QED BY <1>4, <1>8, <1>9, <1>10 DEF InjectInv, Described

LEMMA EndKeeps == InjectInv /\ EndOfInjection => InjectInv'
<1> SUFFICES ASSUME InjectInv, EndOfInjection PROVE InjectInv'
  OBVIOUS
<1>1. /\ phase = "splitting" /\ phase' = "injected" /\ splits = <<>>
      /\ UNCHANGED <<module, cursor, graphVars, idVars, infoVars>>
      /\ code' = code /\ succs' = succs /\ splits' = splits
  BY DEF EndOfInjection, InjectStage, injectVars
<1>2. /\ phase \in CallsLogged /\ phase' \in CallsLogged
      /\ phase \in Splitting /\ phase' \in Splitting
  BY <1>1 DEF CallsLogged, Splitting
<1>3. Stages'
  BY <1>1, <1>2, StagesStep DEF InjectInv
<1>4. PICK heads, mids, done, new : Described(heads, mids, done, new)
  BY DEF InjectInv
<1>5. module' = module /\ CfgLogOf' = CfgLogOf /\ LoggedEdges' = LoggedEdges
  BY <1>1, StageKeeps
<1>6. Placed(module, heads, mids)' /\ MidsIn(module, mids, phase, CallIds)'
  BY <1>1, <1>2, <1>4, StillPlaced
<1>7. Changed(module, CfgLogOf, heads, mids, done, new, code, succs)'
  BY <1>1, <1>4, <1>5 DEF Described
<1>8. SplitsIn(phase, done, splits, LoggedEdges)'
  BY <1>1, <1>2, <1>4, <1>5 DEF SplitsIn, Described
<1> QED BY <1>3, <1>6, <1>7, <1>8 DEF InjectInv, Described

\* The slot SplitEdge redirects is the one the log is for, and it splits on the
\* side the description says.
LEMMA SplitTarget ==
  ASSUME Ready, WellFormed(module), NEW heads, NEW mids, NEW done, NEW new,
         Changed(module, CfgLogOf, heads, mids, done, new, code, succs),
         NEW e \in LoggedEdges, e \notin done, NEW t, t = EdgeTarget(module, e)
  PROVE  /\ e \in CfgEdges(module) /\ e[1] \in DOMAIN succs
         /\ IsMarked(module, CfgLogOf, e)
         /\ CfgLogOf[e] = Log("cfg_edge", cfgEdgeIds[CfgKey(e[1], e[2])])
         /\ SuccessorSlot(e[1], t) = e[2]
         /\ SplitsAfterSource(e[1], t) <=> Follows(module, e)
         /\ Cardinality(EdgesTo(t)) = 1 <=> Moves(module, e)
<1>1. e \in CfgEdges(module) /\ IsLogged(e)
  BY DEF LoggedEdges
<1>2. PICK m, s, k, N : m = module /\ s = e[1] /\ k = e[2] /\ N = Len(m.body)
  OBVIOUS
<1>3. /\ N \in Nat /\ Blocks(m) = 1..N /\ s \in Blocks(m) /\ t \in Blocks(m)
      /\ e = <<s, k>> /\ k \in 1..Len(Successors(m, s)) /\ t = Successors(m, s)[k]
      /\ Len(Successors(m, s)) \in Nat
      /\ \A j \in 1..Len(Successors(m, s)) : Successors(m, s)[j] \in Blocks(m)
  BY <1>1, <1>2, EdgeParts
<1>4. /\ CfgKey(s, k) \in DOMAIN cfgEdgeIds /\ Instr(m, Terminator(m, s)).op \in {"br", "switch"}
  BY <1>1, <1>2 DEF IsLogged, IsSupportedControlFlowTerminator
<1>5. /\ cfgEdgeIds[CfgKey(s, k)] \in Int
      /\ \A j \in 1..(k - 1) : Successors(m, s)[j] # t
  BY <1>1, <1>2, <1>4 DEF Ready
<1>6. CfgLogOf[e] = Log("cfg_edge", cfgEdgeIds[CfgKey(s, k)])
  BY <1>1, <1>2 DEF CfgLogOf
<1>7. IsMarked(m, CfgLogOf, e)
  <2>1. CfgLogOf[e] \in CfgItems
    BY <1>5, <1>6, LogTypes
  <2>2. IsOriginal(LastOf(m, s)) /\ LastOf(m, s).at = Terminator(m, s)
    BY <1>2, <1>3, BlockItems
  <2>3. OpIn(m, LastOf(m, s)) \in {"br", "switch"}
    BY <1>4, <2>2 DEF OpIn
  <2> QED BY <1>2, <2>1, <2>3 DEF IsMarked
<1>8. /\ IsVector(succs) /\ N <= Len(succs) /\ Len(succs) = Len(code)
      /\ Numbered(m, done, new, Len(code))
      /\ \A b \in Blocks(m) : succs[b] = SuccsNow(m, done, new, b)
  BY <1>2 DEF Changed
<1>9. s \in DOMAIN succs
  BY <1>3, <1>8, VectorDomain
<1>10. PICK v : v = succs[s]
  OBVIOUS
<1>11. /\ DOMAIN v = 1..Len(Successors(m, s)) /\ Len(v) = Len(Successors(m, s))
       /\ \A j \in 1..Len(Successors(m, s)) :
            v[j] = IF <<s, j>> \in done THEN new[<<s, j>>] ELSE Successors(m, s)[j]
  <2>1. PICK n, w : n = Len(Successors(m, s)) /\ w = SuccsNow(m, done, new, s)
    OBVIOUS
  <2>2. /\ DOMAIN w = 1..n
        /\ \A j \in 1..n : w[j] = IF <<s, j>> \in done THEN new[<<s, j>>] ELSE Successors(m, s)[j]
    BY <2>1 DEF SuccsNow
  <2>3. v = w /\ IsVector(succs) /\ n \in Nat
    BY <1>3, <1>8, <1>10, <2>1
  <2>4. w = [j \in 1..n |-> w[j]]
    BY <2>1 DEF SuccsNow
  <2>5. Len(w) = n
    BY <2>3, <2>4, VectorIntro
  <2> QED BY <2>1, <2>2, <2>3, <2>5
<1>12. v[k] = t
  BY <1>3, <1>11
<1>13. ASSUME NEW j \in 1..(k - 1) PROVE v[j] # t
  <2>1. j \in 1..Len(Successors(m, s))
    BY <1>3
  <2>2. CASE <<s, j>> \in done
    <3>1. v[j] \in (N + 1)..Len(code)
      BY <1>2, <1>8, <1>11, <2>1, <2>2 DEF Numbered
    <3>2. PICK c, n : c = v[j] /\ n = Len(code)
      OBVIOUS
    <3>3. c \in (N + 1)..n /\ N \in Nat
      BY <1>3, <3>1, <3>2
    <3>4. c \notin 1..N
      BY <3>3
    <3> QED BY <1>3, <3>2, <3>4
  <2>3. CASE <<s, j>> \notin done
    BY <1>5, <1>11, <2>1, <2>3
  <2> QED BY <2>2, <2>3
<1>14. SuccessorSlot(s, t) = k
  <2> DEFINE First(i) == v[i] = t /\ \A j \in 1..(i - 1) : v[j] # t
  <2>1. k \in DOMAIN v /\ First(k)
    BY <1>3, <1>11, <1>12, <1>13
  <2>2. ASSUME NEW i \in DOMAIN v, First(i) PROVE i = k
    <3>1. i \in Int /\ k \in Int /\ i >= 1 /\ k >= 1
      BY <1>3, <1>11
    <3>2. ~ (i < k)
      BY <1>13, <2>2, <3>1
    <3>3. ~ (k < i)
      BY <1>12, <2>2, <3>1
    <3> QED BY <3>1, <3>2, <3>3
  <2>3. SuccessorSlot(s, t) = CHOOSE i \in DOMAIN v : First(i)
    BY <1>10 DEF SuccessorSlot
  <2> HIDE DEF First
  <2> QED BY <2>1, <2>2, <2>3
<1>15. Cardinality(EdgesTo(t)) = Cardinality(EdgesInto(m, t))
  <2>1. EdgesTo(t) = WaysTo(succs, t)
    BY DEF EdgesTo, WaysTo
  <2>2. PICK L, cd, sc : L = CfgLogOf /\ cd = code /\ sc = succs
    OBVIOUS
  <2>3. Changed(m, L, heads, mids, done, new, cd, sc)
    BY <1>2, <2>2
  <2>4. Cardinality(WaysTo(sc, t)) = Cardinality(EdgesInto(m, t))
    BY <1>2, <1>3, <2>3, WaysIn
  <2> QED BY <2>1, <2>2, <2>4
<1>16. SplitsAfterSource(s, t) <=> Follows(m, e)
  BY <1>2, <1>10, <1>11, <1>15 DEF SplitsAfterSource, Follows
<1>17. Cardinality(EdgesTo(t)) = 1 <=> Moves(m, e)
  BY <1>2, <1>15 DEF Moves
<1> QED BY <1>1, <1>2, <1>6, <1>7, <1>9, <1>14, <1>16, <1>17

\* A split as the two lemmas about it see it.
LEMMA SplitGrows ==
  ASSUME Ready, WellFormed(module), NEW heads, NEW mids, NEW done, NEW new,
         Changed(module, CfgLogOf, heads, mids, done, new, code, succs),
         splits \in Seq(LoggedEdges), InjectControlFlowEdgeLog,
         NEW e, e = Head(splits), e \in LoggedEdges, e \notin done,
         NEW s, s = e[1], NEW t, t = EdgeTarget(module, e)
  PROVE  /\ Follows(module, e) =>
              /\ IsGrown(code, s, Append(Front(code[s]), Goto), <<CfgLogOf[e], Last(code[s])>>, code')
              /\ IsGrown(succs, s, <<Len(code) + 1>>, succs[s], succs')
         /\ ~ Follows(module, e) =>
              \E phis : GrownBefore(module, CfgLogOf, e, phis, code, succs, code', succs')
<1>1. PICK log, k : log = CfgLogOf[e] /\ k = e[2]
  OBVIOUS
<1>2. /\ e \in CfgEdges(module) /\ s \in DOMAIN succs
      /\ log = Log("cfg_edge", cfgEdgeIds[CfgKey(s, k)])
      /\ SuccessorSlot(s, t) = k
      /\ SplitsAfterSource(s, t) <=> Follows(module, e)
      /\ Cardinality(EdgesTo(t)) = 1 <=> Moves(module, e)
  BY <1>1, SplitTarget
<1>3. t = Successors(module, s)[k]
  BY <1>1 DEF EdgeTarget
<1>4. IF SplitsAfterSource(s, t) THEN SplitAfterSource(s, log) ELSE SplitBeforeTarget(s, t, log)
  BY <1>1, <1>2, <1>3 DEF InjectControlFlowEdgeLog
<1>5. IsVector(code) /\ IsVector(succs) /\ Len(code) = Len(succs)
  BY DEF Changed
<1>6. DOMAIN code = DOMAIN succs /\ DOMAIN code = 1..Len(code) /\ DOMAIN succs = 1..Len(succs)
  BY <1>5, VectorDomain
<1>7. s \in 1..Len(code) /\ s \in 1..Len(succs) /\ t \in 1..Len(code)
  <2>1. t \in Blocks(module) /\ Len(module.body) \in Nat /\ Blocks(module) = 1..Len(module.body)
    BY <1>2, EdgeParts
  <2>2. Len(module.body) <= Len(code)
    BY DEF Changed
  <2>3. t \in 1..Len(code)
    BY <1>5, <2>1, <2>2, VectorDomain
  <2> QED BY <1>2, <1>6, <2>3
<1>8. CASE Follows(module, e)
  <2>1. SplitAfterSource(s, log)
    BY <1>2, <1>4, <1>8
  <2>2. /\ code' = Append([code EXCEPT ![s] = Append(Front(code[s]), Goto)], <<log, Last(code[s])>>)
        /\ succs' = Append([succs EXCEPT ![s] = <<Len(code) + 1>>], succs[s])
    BY <2>1 DEF SplitAfterSource
  <2> QED BY <1>1, <1>5, <1>7, <1>8, <2>2 DEF IsGrown
<1>9. CASE ~ Follows(module, e)
  <2>1. SplitBeforeTarget(s, t, log)
    BY <1>2, <1>4, <1>9
  <2>2. PICK phis : phis = IF Moves(module, e) THEN Cardinality(PhisIn(module, code[t])) ELSE 0
    OBVIOUS
  <2>3. {j \in DOMAIN code[t] : OpOf(code[t][j]) = "phi"} = PhisIn(module, code[t])
    BY DEF PhisIn, OpOf, OpIn
  <2>4. phis = IF Cardinality(EdgesTo(t)) = 1
               THEN Cardinality({j \in DOMAIN code[t] : OpOf(code[t][j]) = "phi"}) ELSE 0
    BY <1>2, <2>2, <2>3
  <2>5. /\ code' = Append([code EXCEPT ![t] = SubSeq(code[t], phis + 1, Len(code[t]))],
                          SubSeq(code[t], 1, phis) \o <<log, Goto>>)
        /\ succs' = Append([succs EXCEPT ![s][k] = Len(code) + 1], <<t>>)
    BY <1>2, <2>1, <2>4, Zenon DEF SplitBeforeTarget
  <2>6. [succs EXCEPT ![s][k] = Len(code) + 1]
          = [succs EXCEPT ![s] = With(succs[s], k, Len(code) + 1)]
    BY DEF With
  <2>7. IsGrown(code, t, After(code[t], phis), Join(Upto(code[t], phis), <<log, Goto>>), code')
    BY <1>5, <1>7, <2>5 DEF IsGrown, After, Upto, Join
  <2>8. IsGrown(succs, s, With(succs[s], k, Len(code) + 1), <<t>>, succs')
    BY <1>5, <1>7, <2>5, <2>6 DEF IsGrown
  <2> QED BY <1>1, <1>9, <2>2, <2>7, <2>8 DEF GrownBefore
<1> QED BY <1>8, <1>9

LEMMA SplitKeeps == InjectInv /\ InjectControlFlowEdgeLog => InjectInv'
<1> SUFFICES ASSUME InjectInv, InjectControlFlowEdgeLog PROVE InjectInv'
  OBVIOUS
<1>1. /\ phase = "splitting" /\ splits # <<>> /\ splits' = Tail(splits) /\ phase' = phase
      /\ UNCHANGED <<module, cursor, graphVars, idVars, infoVars>>
  BY DEF InjectControlFlowEdgeLog, builderVars
<1>2. /\ phase \in CallsLogged /\ phase' \in CallsLogged /\ phase \in Splitting
      /\ phase \notin Early
  BY <1>1, Phases DEF CallsLogged, Splitting
<1>3. Stages /\ Ready /\ module \in Modules /\ WellFormed(module)
  BY <1>2, BuilderAssumption DEF InjectInv, Stages
<1>4. Stages'
  BY <1>1, <1>2, <1>3, StagesStep
<1>5. PICK heads, mids, done, new : Described(heads, mids, done, new)
  BY DEF InjectInv
<1>6. module' = module /\ CfgLogOf' = CfgLogOf /\ LoggedEdges' = LoggedEdges
  BY <1>1, StageKeeps
<1>7. Placed(module, heads, mids)' /\ MidsIn(module, mids, phase, CallIds)'
  BY <1>1, <1>2, <1>5, StillPlaced
<1>8. /\ Placed(module, heads, mids)
      /\ Changed(module, CfgLogOf, heads, mids, done, new, code, succs)
      /\ splits \in Seq(LoggedEdges) /\ Distinct(splits) /\ done \subseteq LoggedEdges
      /\ \A f \in LoggedEdges : f \in done <=> ~ Holds(splits, f)
  BY <1>2, <1>5 DEF Described, SplitsIn
<1>9. PICK m, L, cd, sc, cd2, sc2, e, s, t :
        /\ m = module /\ L = CfgLogOf /\ cd = code /\ sc = succs /\ cd2 = code' /\ sc2 = succs'
        /\ e = Head(splits) /\ s = e[1] /\ t = EdgeTarget(m, e)
  OBVIOUS
<1>10. /\ e \in LoggedEdges /\ e \notin done
       /\ Tail(splits) \in Seq(LoggedEdges) /\ Distinct(Tail(splits))
       /\ \A f \in LoggedEdges : f \in done \cup {e} <=> ~ Holds(Tail(splits), f)
  <2>1. PICK v : v = splits
    OBVIOUS
  <2>2. v \in Seq(LoggedEdges) /\ v # <<>> /\ Distinct(v)
    BY <1>1, <1>8, <2>1
  <2>3. /\ e \in LoggedEdges /\ Holds(v, e)
        /\ Tail(v) \in Seq(LoggedEdges) /\ Distinct(Tail(v)) /\ ~ Holds(Tail(v), e)
        /\ \A y : Holds(v, y) <=> y = e \/ Holds(Tail(v), y)
    BY <1>9, <2>1, <2>2, FirstOfDistinct
  <2> QED BY <1>8, <2>1, <2>3
<1>11. e \in CfgEdges(m) /\ IsMarked(m, L, e)
  BY <1>3, <1>8, <1>9, <1>10, SplitTarget
<1>12. PICK done2 : done2 = done \cup {e}
  OBVIOUS
<1>13. \E new2 : Changed(m, L, heads, mids, done2, new2, cd2, sc2)
  <2>1. /\ WellFormed(m) /\ Placed(m, heads, mids)
        /\ Changed(m, L, heads, mids, done, new, cd, sc)
    BY <1>3, <1>8, <1>9
  <2>2. CASE Follows(m, e)
    <3>1. /\ IsGrown(cd, s, Append(Front(cd[s]), Goto), <<L[e], Last(cd[s])>>, cd2)
          /\ IsGrown(sc, s, <<Len(cd) + 1>>, sc[s], sc2)
      BY <1>3, <1>8, <1>9, <1>10, <2>2, SplitGrows
    <3> QED BY <1>9, <1>10, <1>11, <1>12, <2>1, <2>2, <3>1, SplitAfter
  <2>3. CASE ~ Follows(m, e)
    <3>1. PICK phis : GrownBefore(m, L, e, phis, cd, sc, cd2, sc2)
      <4>1. \E phis : GrownBefore(module, CfgLogOf, e, phis, code, succs, code', succs')
        BY <1>3, <1>8, <1>9, <1>10, <2>3, SplitGrows
      <4> QED BY <1>9, <4>1
    <3>2. e \notin done
      BY <1>10
    <3>3. \E new2 : Changed(m, L, heads, mids, done2, new2, cd2, sc2)
      BY <1>11, <1>12, <2>1, <2>3, <3>1, <3>2, SplitBefore
    <3> QED BY <3>3
  <2> QED BY <2>2, <2>3
<1>14. PICK new2 : Changed(m, L, heads, mids, done2, new2, cd2, sc2)
  BY <1>13
<1>15. Changed(module, CfgLogOf, heads, mids, done2, new2, code, succs)'
  BY <1>6, <1>9, <1>14
<1>16. SplitsIn(phase, done2, splits, LoggedEdges)'
  BY <1>1, <1>2, <1>6, <1>8, <1>10, <1>12 DEF SplitsIn
<1> QED BY <1>4, <1>7, <1>15, <1>16 DEF InjectInv, Described

\* Every reachable state of the injection is as described.
LEMMA InjectInvHolds == InjectSpec => []InjectInv
<1>1. InjectInv /\ UNCHANGED <<builderVars, injectVars>> => InjectInv'
  <2> SUFFICES ASSUME InjectInv, UNCHANGED <<builderVars, injectVars>> PROVE InjectInv'
    OBVIOUS
  <2>1. /\ UNCHANGED builderVars /\ phase' = phase /\ code' = code /\ succs' = succs
        /\ splits' = splits /\ UNCHANGED <<module, cursor, graphVars, idVars, infoVars>>
    BY DEF injectVars, builderVars
  <2>2. /\ module' = module /\ CallIds' = CallIds /\ CfgLogOf' = CfgLogOf
        /\ LoggedEdges' = LoggedEdges /\ (Ready => Ready')
    BY <2>1, StageKeeps
  <2>3. IInv /\ Complete => IInv' /\ Complete'
    BY <2>1, NextStep, NextComplete
  <2>4. Stages'
    BY <2>1, <2>2, <2>3 DEF InjectInv, Stages
  <2>5. PICK heads, mids, done, new : Described(heads, mids, done, new)
    BY DEF InjectInv
  <2>6. Described(heads, mids, done, new)'
    BY <2>1, <2>2, <2>5 DEF Described
  <2> QED BY <2>4, <2>6 DEF InjectInv
<1>2. InjectInv /\ [InjectNext]_<<builderVars, injectVars>> => InjectInv'
  BY <1>1, BuildKeeps, EntryKeeps, AbortKeeps, CallKeeps, CollectKeeps, SplitKeeps, EndKeeps
     DEF InjectNext
<1> QED BY <1>2, InjectBegins, PTL DEF InjectSpec

(***************************************************************************)
(* What the description says of each block of the changed module.          *)
(***************************************************************************)
IsSplit(m, L, heads, mids, done, new, cd, sc) ==
  WellFormed(m) /\ Placed(m, heads, mids) /\ Changed(m, L, heads, mids, done, new, cd, sc)

FrontOf(m, heads, mids, done, b) == Join(StartOf(m, heads, done, b), mids[b])
FrontBetween(m, L, heads, e) ==
  IF Follows(m, e) THEN <<L[e]>> ELSE Join(TakenPhis(m, heads, e), <<L[e]>>)
EndBetween(m, e) == IF Follows(m, e) THEN LastOf(m, e[1]) ELSE Goto

LEMMA Numbers ==
  ASSUME NEW m, NEW L, NEW heads, NEW mids, NEW done, NEW new, NEW cd, NEW sc,
         IsSplit(m, L, heads, mids, done, new, cd, sc)
  PROVE  /\ DOMAIN cd = 1..Len(cd) /\ DOMAIN sc = DOMAIN cd /\ Len(cd) \in Nat
         /\ Len(m.body) \in Nat /\ Len(m.body) <= Len(cd)
         /\ \A b \in Blocks(m) : b \in DOMAIN cd
         /\ \A e \in done : new[e] \in DOMAIN cd /\ new[e] \notin Blocks(m)
         /\ \A c \in DOMAIN cd : c \in Blocks(m) \/ \E e \in done : c = new[e]
         /\ \A e, f \in done : new[e] = new[f] => e = f
<1>1. PICK n, N : n = Len(cd) /\ N = Len(m.body)
  OBVIOUS
<1>2. /\ IsVector(cd) /\ IsVector(sc) /\ Len(cd) = Len(sc) /\ N <= n /\ WellFormed(m)
      /\ Numbered(m, done, new, n)
  BY <1>1 DEF IsSplit, Changed
<1>3. DOMAIN cd = 1..n /\ DOMAIN sc = 1..n /\ n \in Nat
  BY <1>1, <1>2, VectorDomain
<1>4. N \in Nat /\ Blocks(m) = 1..N
  BY <1>1, <1>2, EdgeParts
<1>5. /\ \A e \in done : new[e] \in (N + 1)..n
      /\ \A e, f \in done : new[e] = new[f] => e = f
      /\ \A c \in (N + 1)..n : \E e \in done : new[e] = c
  BY <1>1, <1>2 DEF Numbered
<1>6. \A c \in (N + 1)..n : c \in 1..n /\ c \notin 1..N
  BY <1>3, <1>4
<1>7. \A c \in 1..n : c \in 1..N \/ c \in (N + 1)..n
  BY <1>3, <1>4
<1>8. \A c \in 1..N : c \in 1..n
  BY <1>2, <1>3, <1>4
<1>9. \A e \in done : new[e] \in DOMAIN cd /\ new[e] \notin Blocks(m)
  BY <1>3, <1>4, <1>5, <1>6
<1>10. \A c \in DOMAIN cd : c \in Blocks(m) \/ \E e \in done : c = new[e]
  BY <1>3, <1>4, <1>5, <1>7
<1>11. \A b \in Blocks(m) : b \in DOMAIN cd
  BY <1>3, <1>4, <1>8
<1> QED BY <1>1, <1>2, <1>3, <1>4, <1>5, <1>9, <1>10, <1>11

LEMMA BlockEnds ==
  ASSUME NEW m, NEW L, NEW heads, NEW mids, NEW done, NEW new, NEW cd, NEW sc,
         IsSplit(m, L, heads, mids, done, new, cd, sc)
  PROVE  /\ \A b \in Blocks(m) :
              IsEndedBy(Items(m), FrontOf(m, heads, mids, done, b), EndOf(m, done, b), cd[b])
         /\ \A e \in done :
              IsEndedBy(Items(m), FrontBetween(m, L, heads, e), EndBetween(m, e), cd[new[e]])
<1>1. /\ WellFormed(m) /\ Placed(m, heads, mids) /\ done \subseteq CfgEdges(m)
      /\ \A b \in Blocks(m) : cd[b] = BlockNow(m, heads, mids, done, b)
      /\ \A e \in done : cd[new[e]] = Between(m, L, heads, e) /\ IsMarked(m, L, e)
  BY DEF IsSplit, Changed
<1>2. PICK S : S = Items(m)
  OBVIOUS
<1>3. /\ \A x \in S : <<x>> \in Seq(S)
      /\ \A v, w \in Seq(S) : Join(v, w) \in Seq(S)
      /\ \A v, w, u \in Seq(S) : Join(Join(v, w), u) = Join(v, Join(w, u))
  <2>1. \A x \in S : <<x>> \in Seq(S)
    BY ShortSequences
  <2>2. \A v, w \in Seq(S) : Join(v, w) \in Seq(S)
    BY JoinType
  <2>3. \A v, w, u \in Seq(S) : Join(Join(v, w), u) = Join(v, Join(w, u))
    BY JoinAssociative
  <2> QED BY <2>1, <2>2, <2>3
<1>4. ASSUME NEW b \in Blocks(m)
      PROVE  IsEndedBy(S, FrontOf(m, heads, mids, done, b), EndOf(m, done, b), cd[b])
  <2>1. PICK st, mid, x : /\ st = StartOf(m, heads, done, b) /\ mid = mids[b]
                          /\ x = EndOf(m, done, b)
    OBVIOUS
  <2>2. st \in Seq(S) /\ mid \in Seq(S) /\ x \in S
    BY <1>1, <1>2, <2>1, PartTypes
  <2>3. PICK one : one = <<x>>
    OBVIOUS
  <2>4. one \in Seq(S)
    BY <1>3, <2>2, <2>3
  <2>5. cd[b] = Join(st, Join(mid, one))
    BY <1>1, <2>1, <2>3 DEF BlockNow
  <2>6. cd[b] = Join(Join(st, mid), one) /\ Join(st, mid) \in Seq(S)
    BY <1>3, <2>2, <2>4, <2>5
  <2> QED BY <2>1, <2>2, <2>3, <2>6 DEF IsEndedBy, FrontOf
<1>5. ASSUME NEW e \in done
      PROVE  IsEndedBy(S, FrontBetween(m, L, heads, e), EndBetween(m, e), cd[new[e]])
  <2>1. PICK l, last, t : l = L[e] /\ last = LastOf(m, e[1]) /\ t = EdgeTarget(m, e)
    OBVIOUS
  <2>2. e[1] \in Blocks(m) /\ t \in Blocks(m)
    BY <1>1, <2>1, EdgeParts
  <2>3. l \in S /\ last \in S /\ Goto \in S /\ heads[t] \in Seq(S) /\ <<>> \in Seq(S)
    <3>1. l \in CfgItems
      BY <1>1, <2>1 DEF IsMarked
    <3>2. last \in S /\ Goto \in S /\ heads[t] \in Seq(S) /\ <<>> \in Seq(S)
      BY <1>1, <1>2, <2>1, <2>2, PartTypes
    <3> QED BY <1>2, <3>1, <3>2, LogTypes DEF Items
  <2>4. PICK one : one = <<l>>
    OBVIOUS
  <2>5. one \in Seq(S)
    BY <1>3, <2>3, <2>4
  <2>6. CASE Follows(m, e)
    <3>1. <<l, last>> = Join(one, <<last>>)
      <4>1. <<l, last>> = Join(<<l>>, <<last>>)
        BY <2>3, PairIsJoin
      <4> QED BY <2>4, <4>1
    <3>2. cd[new[e]] = Join(one, <<last>>)
      BY <1>1, <2>1, <2>6, <3>1 DEF Between
    <3>3. FrontBetween(m, L, heads, e) = one /\ EndBetween(m, e) = last
      BY <2>1, <2>4, <2>6 DEF FrontBetween, EndBetween
    <3> QED BY <2>3, <2>5, <3>2, <3>3 DEF IsEndedBy
  <2>7. CASE ~ Follows(m, e)
    <3>1. PICK taken, goto : taken = TakenPhis(m, heads, e) /\ goto = <<Goto>>
      OBVIOUS
    <3>2. taken \in Seq(S) /\ goto \in Seq(S)
      BY <1>3, <2>1, <2>3, <3>1 DEF TakenPhis
    <3>3. <<l, Goto>> = Join(one, goto)
      BY <2>4, <3>1 DEF Join
    <3>4. cd[new[e]] = Join(taken, Join(one, goto))
      BY <1>1, <2>1, <2>7, <3>1, <3>3 DEF Between
    <3>5. cd[new[e]] = Join(Join(taken, one), goto) /\ Join(taken, one) \in Seq(S)
      BY <1>3, <2>5, <3>2, <3>4
    <3>6. FrontBetween(m, L, heads, e) = Join(taken, one) /\ EndBetween(m, e) = Goto
      BY <2>1, <2>4, <2>7, <3>1 DEF FrontBetween, EndBetween
    <3> QED BY <2>3, <3>1, <3>5, <3>6 DEF IsEndedBy
  <2> QED BY <2>6, <2>7
<1> QED BY <1>2, <1>4, <1>5

(***************************************************************************)
(* Running through the code: from a goto on to the block it leads to.      *)
(***************************************************************************)
Further(cd, sc, w) ==
  [c \in DOMAIN cd |-> IF Last(cd[c]) = Goto THEN Join(Front(cd[c]), w[sc[c][1]]) ELSE cd[c]]
IsWalk(cd, sc, w) == w = Further(cd, sc, w)

\* Where after two gotos, one after the other, none is left.
LEMMA WalkExists ==
  ASSUME NEW cd, NEW sc, NEW A, NEW B, B \subseteq DOMAIN cd,
         \A c \in A : Last(cd[c]) # Goto /\ c \in B,
         \A c \in B : Last(cd[c]) # Goto \/ sc[c][1] \in A,
         \A c \in DOMAIN cd : Last(cd[c]) # Goto \/ sc[c][1] \in B
  PROVE  \E w : IsWalk(cd, sc, w)
<1>1. \A w : /\ DOMAIN Further(cd, sc, w) = DOMAIN cd
             /\ \A c \in DOMAIN cd : Last(cd[c]) = Goto =>
                  Further(cd, sc, w)[c] = Join(Front(cd[c]), w[sc[c][1]])
             /\ \A c \in DOMAIN cd : Last(cd[c]) # Goto => Further(cd, sc, w)[c] = cd[c]
             /\ Further(cd, sc, w) = [c \in DOMAIN cd |-> Further(cd, sc, w)[c]]
  BY DEF Further
<1>2. PICK w1, w2, w3, w4 : /\ w1 = Further(cd, sc, cd) /\ w2 = Further(cd, sc, w1)
                            /\ w3 = Further(cd, sc, w2) /\ w4 = Further(cd, sc, w3)
  OBVIOUS
<1>3. \A c \in A : w1[c] = w2[c]
  BY <1>1, <1>2
<1>4. \A c \in B : w2[c] = w3[c]
  BY <1>1, <1>2, <1>3
<1>5. \A c \in DOMAIN cd : w3[c] = w4[c]
  BY <1>1, <1>2, <1>4
<1>6. w3 = [c \in DOMAIN cd |-> w3[c]] /\ w4 = [c \in DOMAIN cd |-> w4[c]]
  BY <1>1, <1>2
<1>7. w3 = w4
  BY <1>5, <1>6
<1>8. IsWalk(cd, sc, w3)
  BY <1>2, <1>7, Zenon DEF IsWalk
<1> QED BY <1>8

\* The blocks the changed module has, by where their code goes on.
LEMMA WalkThere ==
  ASSUME NEW m, NEW L, NEW heads, NEW mids, NEW done, NEW new, NEW cd, NEW sc,
         IsSplit(m, L, heads, mids, done, new, cd, sc)
  PROVE  \E w : IsWalk(cd, sc, w)
<1>1. /\ \A b \in Blocks(m) : b \in DOMAIN cd
      /\ \A e \in done : new[e] \in DOMAIN cd
      /\ \A c \in DOMAIN cd : c \in Blocks(m) \/ \E e \in done : c = new[e]
  BY Numbers
<1>2. /\ \A b \in Blocks(m) : Last(cd[b]) = EndOf(m, done, b)
      /\ \A e \in done : Last(cd[new[e]]) = EndBetween(m, e)
  <2>1. /\ \A b \in Blocks(m) :
             IsEndedBy(Items(m), FrontOf(m, heads, mids, done, b), EndOf(m, done, b), cd[b])
        /\ \A e \in done :
             IsEndedBy(Items(m), FrontBetween(m, L, heads, e), EndBetween(m, e), cd[new[e]])
    BY BlockEnds
  <2>2. ASSUME NEW b \in Blocks(m) PROVE Last(cd[b]) = EndOf(m, done, b)
    BY <2>1, Ending
  <2>3. ASSUME NEW e \in done PROVE Last(cd[new[e]]) = EndBetween(m, e)
    BY <2>1, Ending
  <2> QED BY <2>2, <2>3
<1>3. /\ WellFormed(m) /\ done \subseteq CfgEdges(m)
      /\ \A b \in Blocks(m) : sc[b] = SuccsNow(m, done, new, b)
      /\ \A e \in done : sc[new[e]] = <<EdgeTarget(m, e)>>
  BY DEF IsSplit, Changed
<1>4. /\ \A e \in CfgEdges(m) : EdgeTarget(m, e) \in Blocks(m) /\ e[1] \in Blocks(m)
      /\ \A b \in Blocks(m) : LastOf(m, b) # Goto
  <2>1. \A e \in CfgEdges(m) : EdgeTarget(m, e) \in Blocks(m) /\ e[1] \in Blocks(m)
    BY <1>3, EdgeParts
  <2>2. ASSUME NEW b \in Blocks(m) PROVE LastOf(m, b) # Goto
    BY <1>3, BlockItems, OriginalTypes
  <2> QED BY <2>1, <2>2
<1> DEFINE A == {c \in DOMAIN cd : Last(cd[c]) # Goto}
           B == A \cup Blocks(m)
<1>5. \A c \in A : Last(cd[c]) # Goto /\ c \in B
  OBVIOUS
<1>6. B \subseteq DOMAIN cd
  BY <1>1
<1>7. ASSUME NEW c \in B PROVE Last(cd[c]) # Goto \/ sc[c][1] \in A
  <2> SUFFICES ASSUME c \in Blocks(m), Last(cd[c]) = Goto PROVE sc[c][1] \in A
    OBVIOUS
  <2>1. Shifted(m, done, c)
    BY <1>2, <1>4 DEF EndOf
  <2>2. PICK e \in done : e[1] = c /\ Follows(m, e)
    BY <2>1 DEF Shifted
  <2>3. e[2] = 1 /\ e = <<c, 1>> /\ 1 \in 1..Len(Successors(m, c))
    <3>1. e[2] = 1
      BY <1>3, <2>2, SplitOnce
    <3>2. e = <<e[1], e[2]>> /\ e[2] \in 1..Len(Successors(m, e[1]))
      BY <1>3, EdgeParts
    <3> QED BY <2>2, <3>1, <3>2
  <2>4. sc[c][1] = new[e]
    BY <1>3, <2>3 DEF SuccsNow
  <2>5. Last(cd[new[e]]) # Goto
    BY <1>2, <1>3, <1>4, <2>2 DEF EndBetween
  <2> QED BY <1>1, <2>4, <2>5
<1>8. ASSUME NEW c \in DOMAIN cd PROVE Last(cd[c]) # Goto \/ sc[c][1] \in B
  <2>1. CASE c \in Blocks(m)
    BY <1>7, <2>1
  <2>2. CASE c \notin Blocks(m)
    <3>1. PICK e \in done : c = new[e]
      BY <1>1, <2>2
    <3>2. sc[c][1] = EdgeTarget(m, e)
      BY <1>3, <3>1
    <3> QED BY <1>3, <1>4, <3>2
  <2> QED BY <2>1, <2>2
<1> HIDE DEF A, B
<1> QED BY <1>5, <1>6, <1>7, <1>8, WalkExists

WalkOf(cd, sc) == CHOOSE w : IsWalk(cd, sc, w)

LEMMA ThroughIsWalk ==
  ASSUME NEW b
  PROVE  Through(b) = WalkOf(code, succs)[b]
BY DEF Through, WalkOf, IsWalk, Further, Join

EndsOf(m, L, done, b) ==
  IF Shifted(m, done, b) THEN <<L[<<b, 1>>], LastOf(m, b)>> ELSE <<LastOf(m, b)>>

\* What runs through a block of the original module, and between two of them.
LEMMA WalkParts ==
  ASSUME NEW m, NEW L, NEW heads, NEW mids, NEW done, NEW new, NEW cd, NEW sc,
         IsSplit(m, L, heads, mids, done, new, cd, sc), NEW w, w = WalkOf(cd, sc)
  PROVE  /\ \A b \in Blocks(m) :
              w[b] = Join(FrontOf(m, heads, mids, done, b), EndsOf(m, L, done, b))
         /\ \A e \in done : ~ Follows(m, e) =>
              w[new[e]] = Join(FrontBetween(m, L, heads, e), w[EdgeTarget(m, e)])
<1>1. /\ \A b \in Blocks(m) : b \in DOMAIN cd
      /\ \A e \in done : new[e] \in DOMAIN cd
  BY Numbers
<1>2. /\ \A b \in Blocks(m) :
           IsEndedBy(Items(m), FrontOf(m, heads, mids, done, b), EndOf(m, done, b), cd[b])
      /\ \A e \in done :
           IsEndedBy(Items(m), FrontBetween(m, L, heads, e), EndBetween(m, e), cd[new[e]])
  BY BlockEnds
<1>3. /\ WellFormed(m) /\ done \subseteq CfgEdges(m)
      /\ \A b \in Blocks(m) : sc[b] = SuccsNow(m, done, new, b)
      /\ \A e \in done : /\ sc[new[e]] = <<EdgeTarget(m, e)>>
                         /\ cd[new[e]] = Between(m, L, heads, e)
  BY DEF IsSplit, Changed
<1>4. IsWalk(cd, sc, w)
  <2>1. \E x : IsWalk(cd, sc, x)
    BY WalkThere
  <2> QED BY <2>1 DEF WalkOf
<1>5. \A c \in DOMAIN cd :
        /\ Last(cd[c]) = Goto => w[c] = Join(Front(cd[c]), w[sc[c][1]])
        /\ Last(cd[c]) # Goto => w[c] = cd[c]
  <2>1. w = Further(cd, sc, w)
    BY <1>4 DEF IsWalk
  <2>2. \A x : \A c \in DOMAIN cd :
          /\ Last(cd[c]) = Goto => Further(cd, sc, x)[c] = Join(Front(cd[c]), x[sc[c][1]])
          /\ Last(cd[c]) # Goto => Further(cd, sc, x)[c] = cd[c]
    BY DEF Further
  <2>3. PICK u : u = Further(cd, sc, w)
    OBVIOUS
  <2>4. \A c \in DOMAIN cd :
          /\ Last(cd[c]) = Goto => u[c] = Join(Front(cd[c]), w[sc[c][1]])
          /\ Last(cd[c]) # Goto => u[c] = cd[c]
    BY <2>2, <2>3
  <2>5. u = w
    BY <2>1, <2>3, Zenon
  <2> QED BY <2>4, <2>5
<1>6. \A b \in Blocks(m) : LastOf(m, b) # Goto
  <2> SUFFICES ASSUME NEW b \in Blocks(m) PROVE LastOf(m, b) # Goto
    OBVIOUS
  <2> QED BY <1>3, BlockItems, OriginalTypes
<1>7. ASSUME NEW b \in Blocks(m)
      PROVE  w[b] = Join(FrontOf(m, heads, mids, done, b), EndsOf(m, L, done, b))
  <2>1. PICK a, x : a = FrontOf(m, heads, mids, done, b) /\ x = EndOf(m, done, b)
    OBVIOUS
  <2>2. IsEndedBy(Items(m), a, x, cd[b])
    BY <1>2, <2>1
  <2>3. Last(cd[b]) = x /\ Front(cd[b]) = a /\ cd[b] = Join(a, <<x>>)
    <3>1. Last(cd[b]) = x /\ Front(cd[b]) = a
      BY <2>2, Ending
    <3> QED BY <2>2, <3>1 DEF IsEndedBy
  <2>4. CASE ~ Shifted(m, done, b)
    <3>1. x = LastOf(m, b) /\ x # Goto
      BY <1>6, <2>1, <2>4 DEF EndOf
    <3>2. w[b] = cd[b]
      BY <1>1, <1>5, <2>3, <3>1
    <3> QED BY <2>1, <2>3, <2>4, <3>1, <3>2 DEF EndsOf
  <2>5. CASE Shifted(m, done, b)
    <3>1. x = Goto
      BY <2>1, <2>5 DEF EndOf
    <3>2. PICK e \in done : e[1] = b /\ Follows(m, e)
      BY <2>5 DEF Shifted
    <3>3. e \in CfgEdges(m)
      BY <1>3
    <3>4. e = <<b, 1>> /\ 1 \in 1..Len(Successors(m, b))
      <4>1. e[2] = 1
        BY <1>3, <3>2, <3>3, SplitOnce
      <4>2. e = <<e[1], e[2]>> /\ e[2] \in 1..Len(Successors(m, e[1]))
        BY <1>3, <3>3, EdgeParts
      <4> QED BY <3>2, <4>1, <4>2
    <3>5. sc[b][1] = new[e]
      BY <1>3, <3>4 DEF SuccsNow
    <3>6. PICK c : c = new[e]
      OBVIOUS
    <3>7. c \in DOMAIN cd /\ cd[c] = <<L[e], LastOf(m, b)>>
      BY <1>1, <1>3, <3>2, <3>6 DEF Between
    <3>8. Last(cd[c]) # Goto
      <4>1. IsEndedBy(Items(m), FrontBetween(m, L, heads, e), EndBetween(m, e), cd[c])
        BY <1>2, <3>6
      <4>2. Last(cd[c]) = EndBetween(m, e)
        BY <4>1, Ending
      <4> QED BY <1>6, <3>2, <4>2 DEF EndBetween
    <3>9. w[c] = <<L[e], LastOf(m, b)>>
      BY <1>5, <3>7, <3>8
    <3>10. w[b] = Join(a, w[c])
      BY <1>1, <1>5, <2>3, <3>1, <3>5, <3>6
    <3> QED BY <2>1, <2>5, <3>4, <3>9, <3>10 DEF EndsOf
  <2> QED BY <2>4, <2>5
<1>8. ASSUME NEW e \in done, ~ Follows(m, e)
      PROVE  w[new[e]] = Join(FrontBetween(m, L, heads, e), w[EdgeTarget(m, e)])
  <2>1. PICK a, c : a = FrontBetween(m, L, heads, e) /\ c = new[e]
    OBVIOUS
  <2>2. EndBetween(m, e) = Goto
    BY <1>8 DEF EndBetween
  <2>3. IsEndedBy(Items(m), a, Goto, cd[c])
    BY <1>2, <2>1, <2>2
  <2>4. Last(cd[c]) = Goto /\ Front(cd[c]) = a
    BY <2>3, Ending
  <2>5. sc[c][1] = EdgeTarget(m, e) /\ c \in DOMAIN cd
    BY <1>1, <1>3, <2>1
  <2> QED BY <1>5, <2>1, <2>4, <2>5
<1> QED BY <1>7, <1>8

HomeIn(m, cd, b) == CHOOSE c \in DOMAIN cd : Last(cd[c]) = LastOf(m, b)
ArrivalIn(m, cd, sc, e) == sc[HomeIn(m, cd, e[1])][e[2]]
Detours(m, done, e) == e \in done /\ ~ Follows(m, e)

LEMMA ArrivalIs ==
  ASSUME NEW e
  PROVE  Arrival(e) = ArrivalIn(module, code, succs, e)
BY DEF Arrival, ArrivalIn, HomeOf, HomeIn, LastOf

\* The last item of a block tells whose terminator has ended up there.
LEMMA Homes ==
  ASSUME NEW m, NEW L, NEW heads, NEW mids, NEW done, NEW new, NEW cd, NEW sc,
         IsSplit(m, L, heads, mids, done, new, cd, sc), NEW b \in Blocks(m)
  PROVE  /\ ~ Shifted(m, done, b) => HomeIn(m, cd, b) = b
         /\ Shifted(m, done, b) => /\ <<b, 1>> \in done /\ Follows(m, <<b, 1>>)
                                   /\ HomeIn(m, cd, b) = new[<<b, 1>>]
<1>1. /\ \A c \in Blocks(m) : c \in DOMAIN cd
      /\ \A e \in done : new[e] \in DOMAIN cd
      /\ \A c \in DOMAIN cd : c \in Blocks(m) \/ \E e \in done : c = new[e]
  BY Numbers
<1>2. /\ \A c \in Blocks(m) : Last(cd[c]) = EndOf(m, done, c)
      /\ \A e \in done : Last(cd[new[e]]) = EndBetween(m, e)
  <2>1. /\ \A c \in Blocks(m) :
             IsEndedBy(Items(m), FrontOf(m, heads, mids, done, c), EndOf(m, done, c), cd[c])
        /\ \A e \in done :
             IsEndedBy(Items(m), FrontBetween(m, L, heads, e), EndBetween(m, e), cd[new[e]])
    BY BlockEnds
  <2>2. ASSUME NEW c \in Blocks(m) PROVE Last(cd[c]) = EndOf(m, done, c)
    BY <2>1, Ending
  <2>3. ASSUME NEW e \in done PROVE Last(cd[new[e]]) = EndBetween(m, e)
    BY <2>1, Ending
  <2> QED BY <2>2, <2>3
<1>3. WellFormed(m) /\ done \subseteq CfgEdges(m)
  BY DEF IsSplit, Changed
<1>4. \A e \in CfgEdges(m) : e[1] \in Blocks(m) /\ e = <<e[1], e[2]>>
  BY <1>3, EdgeParts
<1>5. /\ \A c \in Blocks(m) : LastOf(m, c) # Goto
      /\ \A c, d \in Blocks(m) : LastOf(m, c) = LastOf(m, d) => c = d
  <2>1. ASSUME NEW c \in Blocks(m)
        PROVE  LastOf(m, c) # Goto /\ LastOf(m, c).at[1] = c
    BY <1>3, BlockItems, OriginalTypes
  <2> QED BY <2>1
<1>6. CASE ~ Shifted(m, done, b)
  <2>1. b \in DOMAIN cd /\ Last(cd[b]) = LastOf(m, b)
    BY <1>1, <1>2, <1>6 DEF EndOf
  <2>2. ASSUME NEW c \in DOMAIN cd, Last(cd[c]) = LastOf(m, b) PROVE c = b
    <3>1. CASE c \in Blocks(m)
      <4>1. EndOf(m, done, c) = LastOf(m, b)
        BY <1>2, <2>2, <3>1
      <4>2. LastOf(m, c) = LastOf(m, b)
        BY <1>5, <4>1 DEF EndOf
      <4> QED BY <1>5, <3>1, <4>2
    <3>2. CASE c \notin Blocks(m)
      <4>1. PICK e \in done : c = new[e]
        BY <1>1, <3>2
      <4>2. EndBetween(m, e) = LastOf(m, b)
        BY <1>2, <2>2, <4>1
      <4>3. Follows(m, e) /\ LastOf(m, e[1]) = LastOf(m, b)
        BY <1>5, <4>2 DEF EndBetween
      <4>4. e[1] = b
        BY <1>3, <1>4, <1>5, <4>3
      <4> QED BY <1>6, <4>3, <4>4 DEF Shifted
    <3> QED BY <3>1, <3>2
  <2>3. HomeIn(m, cd, b) = b
    BY <2>1, <2>2 DEF HomeIn
  <2> QED BY <1>6, <2>3
<1>7. CASE Shifted(m, done, b)
  <2>1. PICK e \in done : e[1] = b /\ Follows(m, e)
    BY <1>7 DEF Shifted
  <2>2. e \in CfgEdges(m)
    BY <1>3
  <2>3. e[2] = 1
    BY <1>3, <2>1, <2>2, SplitOnce
  <2>4. e = <<b, 1>>
    BY <1>4, <2>1, <2>2, <2>3
  <2>5. PICK n : n = new[e]
    OBVIOUS
  <2>6. n \in DOMAIN cd /\ Last(cd[n]) = LastOf(m, b)
    BY <1>1, <1>2, <2>1, <2>5 DEF EndBetween
  <2>7. ASSUME NEW c \in DOMAIN cd, Last(cd[c]) = LastOf(m, b) PROVE c = n
    <3>1. c \notin Blocks(m)
      <4> SUFFICES ASSUME c \in Blocks(m) PROVE FALSE
        OBVIOUS
      <4>1. EndOf(m, done, c) = LastOf(m, b)
        BY <1>2, <2>7
      <4>2. LastOf(m, c) = LastOf(m, b) /\ ~ Shifted(m, done, c)
        BY <1>5, <4>1 DEF EndOf
      <4> QED BY <1>5, <1>7, <4>2
    <3>2. PICK f \in done : c = new[f]
      BY <1>1, <3>1
    <3>3. EndBetween(m, f) = LastOf(m, b)
      BY <1>2, <2>7, <3>2
    <3>4. Follows(m, f) /\ LastOf(m, f[1]) = LastOf(m, b)
      BY <1>5, <3>3 DEF EndBetween
    <3>5. f \in CfgEdges(m)
      BY <1>3
    <3>6. f[1] = b /\ f[2] = 1
      BY <1>3, <1>4, <1>5, <3>4, <3>5, SplitOnce
    <3> QED BY <1>4, <2>4, <2>5, <3>2, <3>5, <3>6
  <2>8. HomeIn(m, cd, b) = n
    BY <2>6, <2>7 DEF HomeIn
  <2> QED BY <1>7, <2>1, <2>4, <2>5, <2>8
<1> QED BY <1>6, <1>7

\* An edge leads to its target, directly or by way of the block it has got.
LEMMA Arrivals ==
  ASSUME NEW m, NEW L, NEW heads, NEW mids, NEW done, NEW new, NEW cd, NEW sc,
         IsSplit(m, L, heads, mids, done, new, cd, sc), NEW e \in CfgEdges(m)
  PROVE  ArrivalIn(m, cd, sc, e) = IF Detours(m, done, e) THEN new[e] ELSE EdgeTarget(m, e)
<1>1. /\ WellFormed(m) /\ done \subseteq CfgEdges(m)
      /\ \A b \in Blocks(m) : sc[b] = SuccsNow(m, done, new, b)
      /\ \A f \in done : sc[new[f]] = <<EdgeTarget(m, f)>>
  BY DEF IsSplit, Changed
<1>2. PICK s, k : s = e[1] /\ k = e[2]
  OBVIOUS
<1>3. /\ s \in Blocks(m) /\ e = <<s, k>> /\ k \in 1..Len(Successors(m, s))
      /\ EdgeTarget(m, e) = Successors(m, s)[k]
  BY <1>1, <1>2, EdgeParts
<1>4. CASE Shifted(m, done, s)
  <2>1. /\ <<s, 1>> \in done /\ Follows(m, <<s, 1>>) /\ HomeIn(m, cd, s) = new[<<s, 1>>]
    BY <1>3, <1>4, Homes
  <2>2. k = 1
    <3>1. Len(Successors(m, s)) = 1
      BY <2>1 DEF Follows
    <3> QED BY <1>3, <3>1
  <2>3. ArrivalIn(m, cd, sc, e) = EdgeTarget(m, e)
    <3>1. e \in done /\ e = <<s, 1>>
      BY <1>3, <2>1, <2>2
    <3>2. sc[new[e]][1] = EdgeTarget(m, e)
      BY <1>1, <3>1
    <3> QED BY <1>2, <2>1, <2>2, <3>1, <3>2 DEF ArrivalIn
  <2> QED BY <1>3, <2>1, <2>2, <2>3 DEF Detours
<1>5. CASE ~ Shifted(m, done, s)
  <2>1. HomeIn(m, cd, s) = s
    <3>1. /\ ~ Shifted(m, done, s) => HomeIn(m, cd, s) = s
          /\ Shifted(m, done, s) => /\ <<s, 1>> \in done /\ Follows(m, <<s, 1>>)
                                    /\ HomeIn(m, cd, s) = new[<<s, 1>>]
      BY <1>3, Homes
    <3> QED BY <1>5, <3>1
  <2>2. ArrivalIn(m, cd, sc, e) = IF e \in done THEN new[e] ELSE EdgeTarget(m, e)
    <3>1. SuccsNow(m, done, new, s)[k] = IF e \in done THEN new[e] ELSE EdgeTarget(m, e)
      BY <1>3 DEF SuccsNow
    <3> QED BY <1>1, <1>2, <1>3, <2>1, <3>1 DEF ArrivalIn
  <2>3. e \in done => ~ Follows(m, e)
    BY <1>1, <1>2, <1>5, SplitOnce
  <2> QED BY <2>2, <2>3 DEF Detours
<1> QED BY <1>4, <1>5

\* The items of the parts a run through a block consists of.
LEMMA PartItems ==
  ASSUME NEW m, NEW L, NEW heads, NEW mids, NEW done, NEW new, NEW cd, NEW sc,
         IsSplit(m, L, heads, mids, done, new, cd, sc), NEW b \in Blocks(m)
  PROVE  /\ StartOf(m, heads, done, b) \in Seq(Phis(m, b)) /\ mids[b] \in Seq(Middles(m, b))
         /\ heads[b] \in Seq(Phis(m, b))
         /\ StartOf(m, heads, done, b) \in Seq(Items(m)) /\ mids[b] \in Seq(Items(m))
         /\ heads[b] \in Seq(Items(m))
         /\ FrontOf(m, heads, mids, done, b) \in Seq(Items(m))
         /\ EndsOf(m, L, done, b) \in Seq(Items(m))
         /\ LastOf(m, b) \in Items(m) /\ LastOf(m, b) \in OriginalItems(m)
         /\ Shifted(m, done, b) => L[<<b, 1>>] \in CfgItems /\ L[<<b, 1>>] \in Items(m)
                                   /\ OpIn(m, LastOf(m, b)) \in {"br", "switch"}
<1>1. /\ WellFormed(m) /\ Placed(m, heads, mids)
      /\ \A e \in done : IsMarked(m, L, e)
  BY DEF IsSplit, Changed
<1>2. /\ heads[b] \in Seq(Phis(m, b)) /\ mids[b] \in Seq(Middles(m, b))
      /\ heads[b] \in Seq(Items(m)) /\ mids[b] \in Seq(Items(m))
      /\ LastOf(m, b) \in Items(m)
      /\ StartOf(m, heads, done, b) \in Seq(Items(m))
  BY <1>1, PartTypes
<1>3. StartOf(m, heads, done, b) \in Seq(Phis(m, b))
  <2>1. <<>> \in Seq(Phis(m, b))
    BY ShortSequences
  <2> QED BY <1>2, <2>1 DEF StartOf
<1>4. FrontOf(m, heads, mids, done, b) \in Seq(Items(m))
  BY <1>2, JoinType DEF FrontOf
<1>5. ASSUME Shifted(m, done, b)
      PROVE  /\ L[<<b, 1>>] \in CfgItems /\ L[<<b, 1>>] \in Items(m)
             /\ OpIn(m, LastOf(m, b)) \in {"br", "switch"}
  <2>1. <<b, 1>> \in done
    BY <1>5, Homes
  <2>2. PICK e : e = <<b, 1>>
    OBVIOUS
  <2>3. e \in done /\ e[1] = b
    BY <2>1, <2>2
  <2>4. L[e] \in CfgItems /\ OpIn(m, LastOf(m, b)) \in {"br", "switch"}
    BY <1>1, <2>3 DEF IsMarked
  <2>5. L[e] \in Items(m)
    BY <2>4, LogTypes DEF Items
  <2> QED BY <2>2, <2>4, <2>5
<1>6. EndsOf(m, L, done, b) \in Seq(Items(m))
  <2>1. <<LastOf(m, b)>> \in Seq(Items(m))
    BY <1>2, ShortSequences
  <2>2. Shifted(m, done, b) => <<L[<<b, 1>>], LastOf(m, b)>> \in Seq(Items(m))
    BY <1>2, <1>5
  <2> QED BY <2>1, <2>2 DEF EndsOf
<1>7. LastOf(m, b) \in OriginalItems(m)
  BY <1>1, BlockItems
<1> QED BY <1>2, <1>3, <1>4, <1>5, <1>6, <1>7

\* What is kept of a pair.
LEMMA KeptOfPair ==
  ASSUME NEW S, NEW T, NEW x \in S, NEW y \in S
  PROVE  KeptIn(<<x, y>>, T)
           = Join(IF x \in T THEN <<x>> ELSE <<>>, IF y \in T THEN <<y>> ELSE <<>>)
<1>1. PICK v, w : v = <<x>> /\ w = <<y>>
  OBVIOUS
<1>2. v \in Seq(S) /\ w \in Seq(S)
  BY <1>1, ShortSequences
<1>3. <<x, y>> = Join(v, w)
  BY <1>1, PairIsJoin
<1>4. KeptIn(Join(v, w), T) = Join(KeptIn(v, T), KeptIn(w, T))
  BY <1>2, KeptOfJoin
<1>5. /\ KeptIn(<<x>>, T) = IF x \in T THEN <<x>> ELSE <<>>
      /\ KeptIn(<<y>>, T) = IF y \in T THEN <<y>> ELSE <<>>
  BY KeptOne
<1> QED BY <1>1, <1>3, <1>4, <1>5

\* The end of a run through a block: its terminator, after the log of the edge
\* if that is the only one.
LEMMA EndsKept ==
  ASSUME NEW m, NEW L, NEW heads, NEW mids, NEW done, NEW new, NEW cd, NEW sc,
         IsSplit(m, L, heads, mids, done, new, cd, sc), NEW b \in Blocks(m),
         NEW v, v = EndsOf(m, L, done, b)
  PROVE  /\ KeptIn(v, OriginalItems(m)) = <<LastOf(m, b)>>
         /\ KeptIn(v, EntryItems) = <<>>
         /\ KeptIn(v, CfgItems) = IF Shifted(m, done, b) THEN <<L[<<b, 1>>]>> ELSE <<>>
<1>1. PICK x, l, S : x = LastOf(m, b) /\ l = L[<<b, 1>>] /\ S = Items(m)
  OBVIOUS
<1>2. /\ x \in S /\ x \in OriginalItems(m)
      /\ Shifted(m, done, b) => l \in CfgItems /\ l \in S
  BY <1>1, PartItems
<1>3. x \notin EntryItems /\ x \notin CfgItems
  BY <1>2, OriginalTypes, LogTypes
<1>4. l \in CfgItems => l \notin EntryItems /\ l \notin OriginalItems(m)
  BY OriginalTypes, LogTypes DEF EntryItems, CfgItems
<1>5. CASE ~ Shifted(m, done, b)
  <2>1. v = <<x>>
    BY <1>1, <1>5 DEF EndsOf
  <2>2. \A T : KeptIn(<<x>>, T) = IF x \in T THEN <<x>> ELSE <<>>
    BY <1>2, KeptOne
  <2> QED BY <1>1, <1>2, <1>3, <1>5, <2>1, <2>2
<1>6. CASE Shifted(m, done, b)
  <2>1. v = <<l, x>>
    BY <1>1, <1>6 DEF EndsOf
  <2>2. \A T : KeptIn(<<l, x>>, T)
                 = Join(IF l \in T THEN <<l>> ELSE <<>>, IF x \in T THEN <<x>> ELSE <<>>)
    BY <1>2, <1>6, KeptOfPair
  <2>3. <<l>> \in Seq(S) /\ <<x>> \in Seq(S) /\ <<>> \in Seq(S)
    BY <1>2, <1>6, ShortSequences
  <2>4. /\ Join(<<>>, <<x>>) = <<x>> /\ Join(<<l>>, <<>>) = <<l>> /\ Join(<<>>, <<>>) = <<>>
    BY <2>3, JoinEmpty
  <2>5. KeptIn(<<l, x>>, OriginalItems(m)) = <<x>>
    BY <1>2, <1>4, <1>6, <2>2, <2>4
  <2>6. KeptIn(<<l, x>>, EntryItems) = <<>>
    BY <1>2, <1>3, <1>4, <1>6, <2>2, <2>4
  <2>7. KeptIn(<<l, x>>, CfgItems) = <<l>>
    BY <1>2, <1>3, <1>6, <2>2, <2>4
  <2> QED BY <1>1, <1>6, <2>1, <2>5, <2>6, <2>7
<1> QED BY <1>5, <1>6

\* What a run through a block has of the original code and of the logs.
LEMMA ThroughKept ==
  ASSUME NEW m, NEW L, NEW heads, NEW mids, NEW done, NEW new, NEW cd, NEW sc,
         IsSplit(m, L, heads, mids, done, new, cd, sc), NEW b \in Blocks(m),
         NEW v, v = Join(FrontOf(m, heads, mids, done, b), EndsOf(m, L, done, b))
  PROVE  /\ v \in Seq(Items(m))
         /\ KeptIn(v, OriginalItems(m))
              = Laid(m, b, StartOf(m, heads, done, b), KeptIn(mids[b], OriginalItems(m)))
         /\ KeptIn(v, EntryItems) = KeptIn(mids[b], EntryItems)
         /\ KeptIn(v, CfgItems) = IF Shifted(m, done, b) THEN <<L[<<b, 1>>]>> ELSE <<>>
<1>1. PICK st, mid, front, ends, S :
        /\ st = StartOf(m, heads, done, b) /\ mid = mids[b] /\ S = Items(m)
        /\ front = FrontOf(m, heads, mids, done, b) /\ ends = EndsOf(m, L, done, b)
  OBVIOUS
<1>2. /\ st \in Seq(Phis(m, b)) /\ mid \in Seq(Middles(m, b))
      /\ st \in Seq(S) /\ mid \in Seq(S) /\ front \in Seq(S) /\ ends \in Seq(S)
      /\ front = Join(st, mid) /\ v = Join(front, ends)
  BY <1>1, PartItems DEF FrontOf
<1>3. WellFormed(m)
  BY DEF IsSplit
<1>4. /\ KeptIn(ends, OriginalItems(m)) = <<LastOf(m, b)>>
      /\ KeptIn(ends, EntryItems) = <<>>
      /\ KeptIn(ends, CfgItems) = IF Shifted(m, done, b) THEN <<L[<<b, 1>>]>> ELSE <<>>
  BY <1>1, EndsKept
<1>5. ASSUME NEW T
      PROVE  KeptIn(v, T) = Join(Join(KeptIn(st, T), KeptIn(mid, T)), KeptIn(ends, T))
  <2>1. \A x, y \in Seq(S) : KeptIn(Join(x, y), T) = Join(KeptIn(x, T), KeptIn(y, T))
    BY KeptOfJoin
  <2> QED BY <1>2, <2>1
<1>6. /\ Phis(m, b) \subseteq OriginalItems(m)
      /\ Phis(m, b) \cap EntryItems = {} /\ Phis(m, b) \cap CfgItems = {}
      /\ Middles(m, b) \cap CfgItems = {}
  <2>1. \A x \in Phis(m, b) : x \in OriginalItems(m)
    BY <1>3, BlockItems
  <2>2. \A x \in OriginalItems(m) : x \notin EntryItems /\ x \notin CfgItems
    BY OriginalTypes, LogTypes
  <2>3. \A x \in Middles(m, b) : x \notin CfgItems
    BY <1>3, MiddleTypes
  <2> QED BY <2>1, <2>2, <2>3
<1>7. /\ KeptIn(st, OriginalItems(m)) = st
      /\ KeptIn(st, EntryItems) = <<>> /\ KeptIn(st, CfgItems) = <<>>
  BY <1>2, <1>6, KeptAll
<1>8. KeptIn(mid, CfgItems) = <<>>
  BY <1>2, <1>6, KeptAll
<1>9. /\ \A T : KeptIn(mid, T) \in Seq(S) /\ KeptIn(ends, T) \in Seq(S)
      /\ <<>> \in Seq(S)
  BY <1>2, KeptJoined, ShortSequences
<1>10. \A x \in Seq(S) : Join(x, <<>>) = x /\ Join(<<>>, x) = x
  BY JoinEmpty
<1>11. KeptIn(v, EntryItems) = KeptIn(mid, EntryItems)
  BY <1>4, <1>5, <1>7, <1>9, <1>10
<1>12. KeptIn(v, CfgItems) = KeptIn(ends, CfgItems)
  BY <1>5, <1>7, <1>8, <1>9, <1>10
<1>13. KeptIn(v, OriginalItems(m)) = Laid(m, b, st, KeptIn(mid, OriginalItems(m)))
  <2>1. PICK u, last : u = KeptIn(mid, OriginalItems(m)) /\ last = KeptIn(ends, OriginalItems(m))
    OBVIOUS
  <2>2. KeptIn(v, OriginalItems(m)) = Join(Join(st, u), last)
    BY <1>5, <1>7, <2>1
  <2>3. u \in Seq(S) /\ last \in Seq(S)
    BY <1>9, <2>1
  <2>4. Join(Join(st, u), last) = Join(st, Join(u, last))
    BY <1>2, <2>3, JoinAssociative
  <2> QED BY <1>4, <2>1, <2>2, <2>4 DEF Laid
<1>14. v \in Seq(S)
  BY <1>2, JoinType
<1> QED BY <1>1, <1>4, <1>11, <1>12, <1>13, <1>14

\* The code between two blocks.
LEMMA BetweenKept ==
  ASSUME NEW m, NEW L, NEW heads, NEW mids, NEW done, NEW new, NEW cd, NEW sc,
         IsSplit(m, L, heads, mids, done, new, cd, sc), NEW e, Detours(m, done, e),
         NEW v, v = FrontBetween(m, L, heads, e)
  PROVE  /\ v \in Seq(Items(m))
         /\ v \in Seq(Phis(m, EdgeTarget(m, e)) \cup CfgItems)
         /\ KeptIn(v, OriginalItems(m)) = TakenPhis(m, heads, e)
         /\ KeptIn(v, CfgItems) = <<L[e]>>
<1>1. PICK t, taken, l, one, S : /\ t = EdgeTarget(m, e) /\ taken = TakenPhis(m, heads, e)
                                 /\ l = L[e] /\ one = <<l>> /\ S = Items(m)
  OBVIOUS
<1>2. WellFormed(m) /\ e \in CfgEdges(m) /\ l \in CfgItems /\ t \in Blocks(m)
  <2>1. WellFormed(m) /\ e \in CfgEdges(m) /\ l \in CfgItems
    BY <1>1 DEF IsSplit, Changed, IsMarked, Detours
  <2> QED BY <1>1, <2>1, EdgeParts
<1>3. v = Join(taken, one)
  BY <1>1 DEF FrontBetween, Detours
<1>4. taken \in Seq(Phis(m, t))
  <2>1. heads[t] \in Seq(Phis(m, t))
    BY <1>2, PartItems
  <2>2. <<>> \in Seq(Phis(m, t))
    BY ShortSequences
  <2> QED BY <1>1, <2>1, <2>2 DEF TakenPhis
<1>5. one \in Seq(CfgItems)
  BY <1>1, <1>2, ShortSequences
<1>6. v \in Seq(Phis(m, t) \cup CfgItems)
  <2>1. PICK R : R = Phis(m, t) \cup CfgItems
    OBVIOUS
  <2>2. taken \in Seq(R) /\ one \in Seq(R)
    BY <1>4, <1>5, <2>1
  <2> QED BY <1>3, <2>1, <2>2, JoinType
<1>7. taken \in Seq(S) /\ one \in Seq(S) /\ l \in S
  <2>1. Phis(m, t) \subseteq S
    BY <1>1, <1>2, MiddleTypes
  <2>2. CfgItems \subseteq S
    BY <1>1, LogTypes DEF Items
  <2> QED BY <1>2, <1>4, <1>5, <2>1, <2>2
<1>8. v \in Seq(S)
  BY <1>3, <1>7, JoinType
<1>9. /\ Phis(m, t) \subseteq OriginalItems(m) /\ Phis(m, t) \cap CfgItems = {}
      /\ l \notin OriginalItems(m)
  <2>1. \A x \in Phis(m, t) : x \in OriginalItems(m)
    BY <1>2, BlockItems
  <2>2. \A x \in OriginalItems(m) : x \notin CfgItems
    BY OriginalTypes, LogTypes
  <2> QED BY <1>2, <2>1, <2>2
<1>10. /\ KeptIn(taken, OriginalItems(m)) = taken /\ KeptIn(taken, CfgItems) = <<>>
  BY <1>4, <1>9, KeptAll
<1>11. KeptIn(one, OriginalItems(m)) = <<>> /\ KeptIn(one, CfgItems) = one
  BY <1>1, <1>2, <1>7, <1>9, KeptOne
<1>12. \A T : KeptIn(v, T) = Join(KeptIn(taken, T), KeptIn(one, T))
  <2>1. \A T : \A x, y \in Seq(S) : KeptIn(Join(x, y), T) = Join(KeptIn(x, T), KeptIn(y, T))
    BY KeptOfJoin
  <2> QED BY <1>3, <1>7, <2>1
<1>13. Join(taken, <<>>) = taken /\ Join(<<>>, one) = one
  BY <1>7, JoinEmpty
<1> QED BY <1>1, <1>6, <1>8, <1>10, <1>11, <1>12, <1>13

(***************************************************************************)
(* The changed module is a module.                                         *)
(***************************************************************************)
EndsIn(m, x) == x = Goto \/ OpIn(m, x) \in Terminators
NoEnd(m, v) == \A k \in 1..Len(v) : ~ EndsIn(m, v[k])

LEMMA OneEnd ==
  ASSUME NEW m, NEW a, NEW x, NEW v, IsEndedBy(Items(m), a, x, v), NoEnd(m, a), EndsIn(m, x)
  PROVE  \A k \in 1..Len(v) : EndsIn(m, v[k]) <=> k = Len(v)
<1>1. PICK one, S : one = <<x>> /\ S = Items(m)
  OBVIOUS
<1>2. a \in Seq(S) /\ x \in S /\ v = Join(a, one)
  BY <1>1 DEF IsEndedBy
<1>3. one \in Seq(S) /\ Len(one) = 1 /\ one[1] = x
  BY <1>1, <1>2
<1>4. IsJoin(S, a, one, v)
  BY <1>2, <1>3 DEF IsJoin
<1>5. /\ Len(v) = Len(a) + 1 /\ Len(a) \in Nat
      /\ \A k \in 1..Len(v) : \/ k \in 1..Len(a) /\ v[k] = a[k]
                              \/ k - Len(a) \in 1..1 /\ v[k] = one[k - Len(a)]
  BY <1>3, <1>4, JoinParts
<1>6. \A k \in 1..Len(v) : \/ k \in 1..Len(a) /\ v[k] = a[k]
                           \/ k = Len(a) + 1 /\ v[k] = x
  BY <1>3, <1>5
<1> QED BY <1>5, <1>6 DEF NoEnd

\* Whatever a block ends with is one of the three.
LEMMA ItemsEnd ==
  ASSUME NEW m, WellFormed(m)
  PROVE  /\ EndsIn(m, Goto) /\ \A b \in Blocks(m) : EndsIn(m, LastOf(m, b))
         /\ \A b \in Blocks(m) : \A x \in Phis(m, b) \cup Middles(m, b) : ~ EndsIn(m, x)
         /\ \A x \in LogItems : ~ EndsIn(m, x)
<1>1. ASSUME NEW b \in Blocks(m)
      PROVE  /\ EndsIn(m, LastOf(m, b)) /\ \A x \in Phis(m, b) : ~ EndsIn(m, x)
             /\ \A x \in LogItems : ~ EndsIn(m, x)
  <2>1. /\ \A x \in Phis(m, b) : x \in OriginalItems(m) /\ OpIn(m, x) = "phi"
        /\ OpIn(m, LastOf(m, b)) \in Terminators
        /\ \A x \in LogItems \cup {Goto} : OpIn(m, x) = "none"
    BY <1>1, BlockItems
  <2>2. \A x \in OriginalItems(m) \cup LogItems : x # Goto
    BY OriginalTypes, LogTypes
  <2>3. "phi" \notin Terminators /\ "none" \notin Terminators
    BY DEF Terminators
  <2> QED BY <2>1, <2>2, <2>3 DEF EndsIn
<1>2. ASSUME NEW b \in Blocks(m), NEW x \in Middles(m, b) PROVE ~ EndsIn(m, x)
  BY MiddleTypes DEF EndsIn
<1>3. \A x \in LogItems : ~ EndsIn(m, x)
  BY LogTypes DEF EndsIn, OpIn, Terminators
<1>4. EndsIn(m, Goto)
  BY DEF EndsIn
<1> QED BY <1>1, <1>2, <1>3, <1>4

LEMMA BlocksFormed ==
  ASSUME NEW m, NEW L, NEW heads, NEW mids, NEW done, NEW new, NEW cd, NEW sc,
         IsSplit(m, L, heads, mids, done, new, cd, sc), NEW c \in DOMAIN cd
  PROVE  /\ cd[c] \in Seq(Items(m)) /\ cd[c] # <<>>
         /\ \A k \in 1..Len(cd[c]) : EndsIn(m, cd[c][k]) <=> k = Len(cd[c])
         /\ \A k \in DOMAIN sc[c] : sc[c][k] \in DOMAIN cd
<1>1. /\ WellFormed(m) /\ Placed(m, heads, mids) /\ done \subseteq CfgEdges(m)
      /\ \A b \in Blocks(m) : sc[b] = SuccsNow(m, done, new, b)
      /\ \A e \in done : sc[new[e]] = <<EdgeTarget(m, e)>> /\ IsMarked(m, L, e)
  BY DEF IsSplit, Changed
<1>2. /\ \A b \in Blocks(m) : b \in DOMAIN cd
      /\ \A e \in done : new[e] \in DOMAIN cd
      /\ c \in Blocks(m) \/ \E e \in done : c = new[e]
  BY Numbers
<1>3. /\ EndsIn(m, Goto) /\ \A b \in Blocks(m) : EndsIn(m, LastOf(m, b))
      /\ \A b \in Blocks(m) : \A x \in Phis(m, b) \cup Middles(m, b) : ~ EndsIn(m, x)
      /\ \A x \in CfgItems : ~ EndsIn(m, x)
  BY <1>1, ItemsEnd, LogTypes
<1>4. \A e \in done : /\ e \in CfgEdges(m) /\ e[1] \in Blocks(m)
                      /\ EdgeTarget(m, e) \in Blocks(m)
  BY <1>1, EdgeParts
<1>5. \E a, x : IsEndedBy(Items(m), a, x, cd[c]) /\ NoEnd(m, a) /\ EndsIn(m, x)
  <2>1. CASE c \in Blocks(m)
    <3>1. PICK a, x, S : /\ a = FrontOf(m, heads, mids, done, c) /\ x = EndOf(m, done, c)
                         /\ S = Phis(m, c) \cup Middles(m, c)
      OBVIOUS
    <3>2. IsEndedBy(Items(m), a, x, cd[c])
      BY <2>1, <3>1, BlockEnds
    <3>3. EndsIn(m, x)
      BY <1>3, <2>1, <3>1 DEF EndOf
    <3>4. a \in Seq(S)
      <4>1. PICK st, mid : st = StartOf(m, heads, done, c) /\ mid = mids[c]
        OBVIOUS
      <4>2. st \in Seq(Phis(m, c)) /\ mid \in Seq(Middles(m, c))
        BY <2>1, <4>1, PartItems
      <4>3. st \in Seq(S) /\ mid \in Seq(S)
        BY <3>1, <4>2
      <4> QED BY <3>1, <4>1, <4>3, JoinType DEF FrontOf
    <3>5. \A y \in S : ~ EndsIn(m, y)
      BY <1>3, <2>1, <3>1
    <3>6. NoEnd(m, a)
      BY <3>4, <3>5 DEF NoEnd
    <3> QED BY <3>2, <3>3, <3>6
  <2>2. CASE c \notin Blocks(m)
    <3>1. PICK e \in done : c = new[e]
      BY <1>2, <2>2
    <3>2. PICK a, x : a = FrontBetween(m, L, heads, e) /\ x = EndBetween(m, e)
      OBVIOUS
    <3>3. IsEndedBy(Items(m), a, x, cd[c])
      BY <3>1, <3>2, BlockEnds
    <3>4. EndsIn(m, x)
      BY <1>3, <1>4, <3>1, <3>2 DEF EndBetween
    <3>5. PICK S : S = Phis(m, EdgeTarget(m, e)) \cup CfgItems
      OBVIOUS
    <3>6. a \in Seq(S)
      <4>1. CASE Follows(m, e)
        <5>1. L[e] \in S
          BY <1>1, <3>1, <3>5 DEF IsMarked
        <5>2. a = <<L[e]>>
          BY <3>2, <4>1 DEF FrontBetween
        <5> QED BY <5>1, <5>2, ShortSequences
      <4>2. CASE ~ Follows(m, e)
        BY <3>1, <3>2, <3>5, <4>2, BetweenKept DEF Detours
      <4> QED BY <4>1, <4>2
    <3>7. \A y \in S : ~ EndsIn(m, y)
      BY <1>3, <1>4, <3>1, <3>5
    <3>8. NoEnd(m, a)
      BY <3>6, <3>7 DEF NoEnd
    <3> QED BY <3>3, <3>4, <3>8
  <2> QED BY <2>1, <2>2
<1>6. PICK a, x : IsEndedBy(Items(m), a, x, cd[c]) /\ NoEnd(m, a) /\ EndsIn(m, x)
  BY <1>5
<1>7. \A k \in 1..Len(cd[c]) : EndsIn(m, cd[c][k]) <=> k = Len(cd[c])
  BY <1>6, OneEnd
<1>8. cd[c] \in Seq(Items(m)) /\ cd[c] # <<>>
  BY <1>6, Ending
<1>9. \A k \in DOMAIN sc[c] : sc[c][k] \in DOMAIN cd
  <2>1. CASE c \in Blocks(m)
    <3>1. DOMAIN sc[c] = 1..Len(Successors(m, c))
      BY <1>1, <2>1 DEF SuccsNow
    <3>2. ASSUME NEW k \in 1..Len(Successors(m, c)) PROVE sc[c][k] \in DOMAIN cd
      <4>1. Successors(m, c)[k] \in Blocks(m)
        BY <1>1, <2>1, EdgeParts
      <4>2. sc[c][k] = IF <<c, k>> \in done THEN new[<<c, k>>] ELSE Successors(m, c)[k]
        BY <1>1, <2>1 DEF SuccsNow
      <4> QED BY <1>2, <4>1, <4>2
    <3> QED BY <3>1, <3>2
  <2>2. CASE c \notin Blocks(m)
    <3>1. PICK e \in done : c = new[e]
      BY <1>2, <2>2
    <3>2. PICK t : t = EdgeTarget(m, e)
      OBVIOUS
    <3>3. sc[c] = <<t>> /\ t \in DOMAIN cd
      BY <1>1, <1>2, <1>4, <3>1, <3>2
    <3> QED BY <3>3
  <2> QED BY <2>1, <2>2
<1> QED BY <1>7, <1>8, <1>9

(***************************************************************************)
(* The theorems.                                                           *)
(***************************************************************************)
LEMMA NowSplit ==
  ASSUME InjectInv
  PROVE  /\ Stages /\ WellFormed(module)
         /\ \E heads, mids, done, new :
              /\ IsSplit(module, CfgLogOf, heads, mids, done, new, code, succs)
              /\ Described(heads, mids, done, new)
<1>1. Stages /\ WellFormed(module)
  BY BuilderAssumption DEF InjectInv, Stages
<1> QED BY <1>1 DEF InjectInv, Described, IsSplit

LEMMA TypesHold == InjectInv => InjectTypeOK
<1> SUFFICES ASSUME InjectInv PROVE InjectTypeOK
  OBVIOUS
<1>1. Stages /\ WellFormed(module)
  BY NowSplit
<1>2. PICK heads, mids, done, new :
        /\ IsSplit(module, CfgLogOf, heads, mids, done, new, code, succs)
        /\ Described(heads, mids, done, new)
  BY NowSplit
<1>3. phase \in DOMAIN NextPhase
        \cup {"built", "entry_logged", "aborted", "calls_logged", "splitting", "injected"}
  BY <1>1 DEF Stages, Early, CallsLogged
<1>4. PICK m, cd, sc, L : m = module /\ cd = code /\ sc = succs /\ L = CfgLogOf
  OBVIOUS
<1>5. IsSplit(m, L, heads, mids, done, new, cd, sc)
  BY <1>2, <1>4
<1>6. DOMAIN cd = DOMAIN sc /\ Len(cd) \in Nat /\ Len(m.body) \in Nat /\ Len(m.body) <= Len(cd)
  BY <1>5, Numbers
<1>7. Len(code) >= Len(module.body)
  BY <1>4, <1>6
<1>8. \A x \in Items(m) : x.kind \in {"instruction", "log", "goto"}
  BY OriginalTypes, LogTypes DEF Items
<1>9. \A x : EndsBlock(x) <=> EndsIn(m, x)
  BY <1>4 DEF EndsBlock, EndsIn, OpOf, OpIn
<1>10. ASSUME NEW c \in DOMAIN cd
       PROVE  /\ cd[c] # <<>>
              /\ \A k \in DOMAIN cd[c] :
                   /\ cd[c][k].kind \in {"instruction", "log", "goto"}
                   /\ EndsBlock(cd[c][k]) <=> k = Len(cd[c])
              /\ \A k \in DOMAIN sc[c] : sc[c][k] \in DOMAIN cd
  <2>1. PICK v : v = cd[c]
    OBVIOUS
  <2>2. v \in Seq(Items(m)) /\ v # <<>> /\ \A k \in DOMAIN sc[c] : sc[c][k] \in DOMAIN cd
    BY <1>5, <2>1, BlocksFormed
  <2>3. DOMAIN v = 1..Len(v) /\ \A k \in 1..Len(v) : v[k] \in Items(m)
    BY <2>2
  <2>4. \A k \in 1..Len(v) : EndsIn(m, v[k]) <=> k = Len(v)
    BY <1>5, <2>1, BlocksFormed
  <2>5. \A k \in 1..Len(v) : EndsBlock(v[k]) <=> k = Len(v)
    BY <1>9, <2>4, Zenon
  <2>6. \A k \in 1..Len(v) : v[k].kind \in {"instruction", "log", "goto"}
    BY <1>8, <2>3
  <2>7. \A k \in DOMAIN v : /\ v[k].kind \in {"instruction", "log", "goto"}
                            /\ EndsBlock(v[k]) <=> k = Len(v)
    BY <2>3, <2>5, <2>6, Zenon
  <2> QED BY <2>1, <2>2, <2>7, Zenon
<1>11. \A k \in DOMAIN splits : splits[k] \in CfgEdges(module)
  <2>1. SplitsIn(phase, done, splits, LoggedEdges)
    BY <1>2 DEF Described
  <2>2. PICK G : G = LoggedEdges
    OBVIOUS
  <2>3. G \subseteq CfgEdges(module)
    BY <2>2 DEF LoggedEdges
  <2>4. phase = "splitting" \/ phase # "splitting"
    OBVIOUS
  <2>5. splits \in Seq(G) \/ splits = <<>>
    BY <2>1, <2>2, <2>4 DEF SplitsIn, Splitting
  <2> QED BY <2>3, <2>5
<1> QED BY <1>3, <1>4, <1>6, <1>7, <1>10, <1>11 DEF InjectTypeOK

\* The changed module stays a module at every step of the injection: each block
\* has its one terminator at its end, and leads to blocks.
THEOREM InjectTypesHold == InjectSpec => []InjectTypeOK
<1>1. InjectInv => InjectTypeOK
  BY TypesHold
<1> QED BY <1>1, InjectInvHolds, PTL

\* Along an edge the program runs through the whole body of its target: if the
\* phis have been moved, then to where that edge passes.
LEMMA RunsInto ==
  ASSUME NEW m, NEW L, NEW heads, NEW mids, NEW done, NEW new, NEW cd, NEW sc,
         IsSplit(m, L, heads, mids, done, new, cd, sc), NEW e \in CfgEdges(m),
         NEW w, w = WalkOf(cd, sc), NEW v, v = w[ArrivalIn(m, cd, sc, e)]
  PROVE  v \in Seq(Items(m)) /\ KeptIn(v, OriginalItems(m)) = BodyOf(m, EdgeTarget(m, e))
<1>1. PICK t, S, O : t = EdgeTarget(m, e) /\ S = Items(m) /\ O = OriginalItems(m)
  OBVIOUS
<1>2. WellFormed(m) /\ Placed(m, heads, mids) /\ done \subseteq CfgEdges(m)
  BY DEF IsSplit, Changed
<1>3. t \in Blocks(m)
  BY <1>1, <1>2, EdgeParts
<1>4. PICK y, st, mid : y = w[t] /\ st = StartOf(m, heads, done, t) /\ mid = KeptIn(mids[t], O)
  OBVIOUS
<1>5. y = Join(FrontOf(m, heads, mids, done, t), EndsOf(m, L, done, t))
  BY <1>3, <1>4, WalkParts
<1>6. y \in Seq(S) /\ KeptIn(y, O) = Laid(m, t, st, mid)
  <2>1. /\ y \in Seq(Items(m))
        /\ KeptIn(y, OriginalItems(m))
             = Laid(m, t, StartOf(m, heads, done, t), KeptIn(mids[t], OriginalItems(m)))
        /\ KeptIn(y, EntryItems) = KeptIn(mids[t], EntryItems)
        /\ KeptIn(y, CfgItems) = IF Shifted(m, done, t) THEN <<L[<<t, 1>>]>> ELSE <<>>
    BY <1>3, <1>5, ThroughKept
  <2> QED BY <1>1, <1>4, <2>1
<1>7. Laid(m, t, heads[t], mid) = BodyOf(m, t)
  BY <1>1, <1>2, <1>3, <1>4 DEF Placed, IsLaid
<1>8. Moved(m, done, t) => Moves(m, e) /\ e \in done
  <2> SUFFICES ASSUME Moved(m, done, t) PROVE Moves(m, e) /\ e \in done
    OBVIOUS
  <2>1. PICK f \in done : EdgeTarget(m, f) = t /\ Moves(m, f)
    BY DEF Moved
  <2>2. Moves(m, e)
    BY <1>1, <2>1 DEF Moves
  <2> QED BY <1>1, <1>2, <2>2, SplitOnce
<1>9. CASE ~ Detours(m, done, e)
  <2>1. v = y
    BY <1>1, <1>4, <1>9, Arrivals
  <2>2. Follows(m, e) => ~ Moves(m, e)
    BY <1>2, SplitOnce
  <2>3. st = heads[t]
    BY <1>4, <1>8, <1>9, <2>2 DEF StartOf, Detours
  <2> QED BY <1>1, <1>6, <1>7, <2>1, <2>3
<1>10. CASE Detours(m, done, e)
  <2>1. e \in done /\ ~ Follows(m, e) /\ ArrivalIn(m, cd, sc, e) = new[e]
    BY <1>10, Arrivals DEF Detours
  <2>2. PICK a : a = FrontBetween(m, L, heads, e)
    OBVIOUS
  <2>3. v = Join(a, y)
    BY <1>1, <1>4, <2>1, <2>2, WalkParts
  <2>4. a \in Seq(S) /\ KeptIn(a, O) = TakenPhis(m, heads, e)
    <3>1. /\ a \in Seq(Items(m))
          /\ a \in Seq(Phis(m, EdgeTarget(m, e)) \cup CfgItems)
          /\ KeptIn(a, OriginalItems(m)) = TakenPhis(m, heads, e)
          /\ KeptIn(a, CfgItems) = <<L[e]>>
      BY <1>10, <2>2, BetweenKept
    <3> QED BY <1>1, <3>1
  <2>5. v \in Seq(S)
    BY <1>6, <2>3, <2>4, JoinType
  <2>6. KeptIn(v, O) = Join(TakenPhis(m, heads, e), Laid(m, t, st, mid))
    <3>1. KeptIn(Join(a, y), O) = Join(KeptIn(a, O), KeptIn(y, O))
      BY <1>6, <2>4, KeptOfJoin
    <3> QED BY <1>6, <2>3, <2>4, <3>1
  <2>7. PICK r : r = Join(mid, <<LastOf(m, t)>>)
    OBVIOUS
  <2>8. r \in Seq(S) /\ heads[t] \in Seq(S)
    <3>1. mids[t] \in Seq(S) /\ heads[t] \in Seq(S) /\ LastOf(m, t) \in S
      BY <1>1, <1>3, PartItems
    <3>2. mid \in Seq(S)
      BY <1>4, <3>1, KeptJoined
    <3>3. <<LastOf(m, t)>> \in Seq(S)
      BY <3>1, ShortSequences
    <3> QED BY <2>7, <3>1, <3>2, <3>3, JoinType
  <2>9. \A x : Laid(m, t, x, mid) = Join(x, r)
    BY <2>7 DEF Laid
  <2>10. CASE Moves(m, e)
    <3>1. Moved(m, done, t)
      BY <1>1, <2>1, <2>10 DEF Moved
    <3>2. st = <<>> /\ TakenPhis(m, heads, e) = heads[t]
      BY <1>1, <1>4, <2>10, <3>1 DEF StartOf, TakenPhis
    <3>3. Join(<<>>, r) = r
      BY <2>8, JoinEmpty
    <3> QED BY <1>1, <1>7, <2>5, <2>6, <2>9, <3>2, <3>3
  <2>11. CASE ~ Moves(m, e)
    <3>1. st = heads[t] /\ TakenPhis(m, heads, e) = <<>>
      BY <1>4, <1>8, <2>11 DEF StartOf, TakenPhis
    <3>2. Join(heads[t], r) \in Seq(S)
      BY <2>8, JoinType
    <3>3. Join(<<>>, Join(heads[t], r)) = Join(heads[t], r)
      BY <3>2, JoinEmpty
    <3> QED BY <1>1, <1>7, <2>5, <2>6, <2>9, <3>1, <3>3
  <2> QED BY <2>10, <2>11
<1> QED BY <1>9, <1>10

PhisFirst(m, v) ==
  \A k \in 2..Len(v) : OpIn(m, v[k]) = "phi" => OpIn(m, v[k - 1]) = "phi"

LEMMA PhisThenNone ==
  ASSUME NEW m, NEW S, NEW v, NEW w, NEW u, IsJoin(S, v, w, u), NoPhi(m, w),
         \A k \in 1..Len(v) : OpIn(m, v[k]) = "phi"
  PROVE  PhisFirst(m, u)
<1>1. /\ Len(u) = Len(v) + Len(w) /\ Len(v) \in Nat /\ Len(w) \in Nat
      /\ \A k \in 1..Len(v) : u[k] = v[k]
      /\ \A k \in 1..Len(u) : \/ k \in 1..Len(v) /\ u[k] = v[k]
                              \/ k - Len(v) \in 1..Len(w) /\ u[k] = w[k - Len(v)]
  BY JoinParts
<1>2. ASSUME NEW k \in 2..Len(u), OpIn(m, u[k]) = "phi" PROVE OpIn(m, u[k - 1]) = "phi"
  <2>1. k \in 1..Len(u)
    BY <1>1
  <2>2. k \in 1..Len(v)
    BY <1>1, <1>2, <2>1 DEF NoPhi
  <2>3. k - 1 \in 1..Len(v)
    BY <1>1, <1>2, <2>2
  <2> QED BY <1>1, <2>3
<1> QED BY <1>2 DEF PhisFirst

LEMMA PhisStayFirst ==
  ASSUME NEW m, NEW L, NEW heads, NEW mids, NEW done, NEW new, NEW cd, NEW sc,
         IsSplit(m, L, heads, mids, done, new, cd, sc), NEW c \in DOMAIN cd
  PROVE  PhisFirst(m, cd[c])
<1>1. /\ WellFormed(m) /\ Placed(m, heads, mids) /\ done \subseteq CfgEdges(m)
      /\ \A b \in Blocks(m) : cd[b] = BlockNow(m, heads, mids, done, b)
      /\ \A e \in done : cd[new[e]] = Between(m, L, heads, e) /\ IsMarked(m, L, e)
  BY DEF IsSplit, Changed
<1>2. PICK S : S = Items(m)
  OBVIOUS
<1>3. ASSUME NEW b \in Blocks(m), NEW v \in Seq(Phis(m, b))
      PROVE  v \in Seq(S) /\ \A k \in 1..Len(v) : OpIn(m, v[k]) = "phi"
  <2>1. Phis(m, b) \subseteq S
    BY <1>1, <1>2, <1>3, MiddleTypes
  <2>2. \A x \in Phis(m, b) : OpIn(m, x) = "phi"
    BY <1>1, <1>3, BlockItems
  <2> QED BY <1>3, <2>1, <2>2
<1>4. CASE c \in Blocks(m)
  <2>1. PICK st, x : st = StartOf(m, heads, done, c) /\ x = EndOf(m, done, c)
    OBVIOUS
  <2>2. PICK r : r = Join(mids[c], <<x>>)
    OBVIOUS
  <2>3. x \in {Goto, LastOf(m, c)}
    BY <2>1 DEF EndOf
  <2>4. r \in Seq(S) /\ NoPhi(m, r)
    BY <1>1, <1>2, <1>4, <2>2, <2>3, NoPhiBehind
  <2>5. st \in Seq(Phis(m, c))
    BY <1>4, <2>1, PartItems
  <2>6. st \in Seq(S) /\ \A k \in 1..Len(st) : OpIn(m, st[k]) = "phi"
    BY <1>3, <1>4, <2>5
  <2>7. IsJoin(S, st, r, cd[c])
    BY <1>1, <1>4, <2>1, <2>2, <2>4, <2>6 DEF IsJoin, BlockNow
  <2> QED BY <2>4, <2>6, <2>7, PhisThenNone
<1>5. CASE c \notin Blocks(m)
  <2>1. PICK e \in done : c = new[e]
    BY <1>5, Numbers
  <2>2. PICK x, y, t : /\ x = L[e] /\ y = EndBetween(m, e) /\ t = EdgeTarget(m, e)
    OBVIOUS
  <2>3. e \in CfgEdges(m) /\ e[1] \in Blocks(m) /\ t \in Blocks(m)
    BY <1>1, <2>1, <2>2, EdgeParts
  <2>4. x \in S /\ y \in S /\ OpIn(m, x) # "phi" /\ OpIn(m, y) # "phi"
    <3>1. x \in LogItems
      BY <1>1, <2>1, <2>2, LogTypes DEF IsMarked
    <3>2. y = Goto \/ y = LastOf(m, e[1])
      BY <2>2 DEF EndBetween
    <3>3. \A z \in LogItems \cup {Goto} : z \in S
      BY <1>2 DEF Items
    <3>4. LastOf(m, e[1]) \in S /\ OpIn(m, LastOf(m, e[1])) # "phi"
      BY <1>1, <1>2, <2>3, MiddleTypes, BlockItems
    <3>5. \A z \in LogItems \cup {Goto} : OpIn(m, z) # "phi"
      BY <1>1, <2>3, BlockItems
    <3> QED BY <3>1, <3>2, <3>3, <3>4, <3>5
  <2>5. PICK r : r = <<x, y>>
    OBVIOUS
  <2>6. r \in Seq(S) /\ NoPhi(m, r)
    <3>1. r \in Seq(S) /\ Len(r) = 2 /\ r[1] = x /\ r[2] = y
      BY <2>4, <2>5
    <3>2. \A k \in 1..2 : k = 1 \/ k = 2
      OBVIOUS
    <3> QED BY <2>4, <3>1, <3>2 DEF NoPhi
  <2>7. PICK p : p = IF Follows(m, e) THEN <<>> ELSE TakenPhis(m, heads, e)
    OBVIOUS
  <2>8. p \in Seq(Phis(m, t))
    <3>1. heads[t] \in Seq(Phis(m, t)) /\ <<>> \in Seq(Phis(m, t))
      BY <2>3, PartItems, ShortSequences
    <3> QED BY <2>2, <2>7, <3>1 DEF TakenPhis
  <2>9. p \in Seq(S) /\ \A k \in 1..Len(p) : OpIn(m, p[k]) = "phi"
    BY <1>3, <2>3, <2>8
  <2>10. cd[c] = Join(p, r)
    <3>1. Join(<<>>, r) = r
      BY <2>6, JoinEmpty
    <3>2. cd[c] = IF Follows(m, e) THEN r ELSE Join(TakenPhis(m, heads, e), r)
      BY <1>1, <2>1, <2>2, <2>5 DEF Between, EndBetween
    <3> QED BY <2>7, <3>1, <3>2
  <2>11. IsJoin(S, p, r, cd[c])
    BY <2>6, <2>9, <2>10 DEF IsJoin
  <2> QED BY <2>6, <2>9, <2>11, PhisThenNone
<1> QED BY <1>4, <1>5

LEMMA CodeKept == InjectInv => CodePreserved
<1> SUFFICES ASSUME InjectInv PROVE CodePreserved
  OBVIOUS
<1>1. WellFormed(module)
  BY NowSplit
<1>2. PICK heads, mids, done, new :
        IsSplit(module, CfgLogOf, heads, mids, done, new, code, succs)
  BY NowSplit
<1>3. PICK m, cd, sc, L, w : /\ m = module /\ cd = code /\ sc = succs /\ L = CfgLogOf
                             /\ w = WalkOf(cd, sc)
  OBVIOUS
<1>4. IsSplit(m, L, heads, mids, done, new, cd, sc)
  BY <1>2, <1>3
<1>5. ASSUME NEW e \in CfgEdges(module)
      PROVE  LET t == EdgeTarget(module, e) IN
               Originals(Through(Arrival(e))) = [k \in DOMAIN module.body[t] |-> Original(t, k)]
  <2>1. PICK v, a : a = ArrivalIn(m, cd, sc, e) /\ v = w[a]
    OBVIOUS
  <2>2. Arrival(e) = a /\ Through(a) = v
    BY <1>3, <2>1, ArrivalIs, ThroughIsWalk
  <2>3. v \in Seq(Items(m)) /\ KeptIn(v, OriginalItems(m)) = BodyOf(m, EdgeTarget(m, e))
    BY <1>3, <1>4, <2>1, RunsInto
  <2>4. Originals(v) = KeptIn(v, OriginalItems(m))
    BY <2>3, KeptItems
  <2>5. Originals(Through(Arrival(e))) = BodyOf(module, EdgeTarget(module, e))
    BY <1>3, <2>2, <2>3, <2>4
  <2> QED BY <2>5 DEF BodyOf
<1>6. ASSUME NEW b \in DOMAIN code, NEW k \in 2..Len(code[b]), OpOf(code[b][k]) = "phi"
      PROVE  OpOf(code[b][k - 1]) = "phi"
  <2>1. PhisFirst(m, cd[b])
    BY <1>3, <1>4, PhisStayFirst
  <2>2. \A x : OpOf(x) = OpIn(m, x)
    BY <1>3 DEF OpOf, OpIn
  <2>3. PICK v : v = cd[b]
    OBVIOUS
  <2>4. k \in 2..Len(v) /\ OpIn(m, v[k]) = "phi"
    BY <1>3, <1>6, <2>2, <2>3
  <2>5. OpIn(m, v[k - 1]) = "phi"
    BY <2>1, <2>3, <2>4 DEF PhisFirst
  <2> QED BY <1>3, <2>2, <2>3, <2>5
<1> QED BY <1>5, <1>6 DEF CodePreserved

\* At every step of the injection each edge of the module leads through all
\* instructions of its target in their order, and phis stay first in a block.
THEOREM CodeIsPreserved == InjectSpec => []CodePreserved
<1>1. InjectInv => CodePreserved
  BY CodeKept
<1> QED BY <1>1, InjectInvHolds, PTL

\* Before a terminator that calls nothing, each log of a call has its call.
LEMMA PairedFront ==
  ASSUME NEW m, NEW K, NEW a, NEW x, NEW v, IsEndedBy(Items(m), a, x, v),
         ~ Calls(m, x), Paired(m, K, v)
  PROVE  Paired(m, K, a)
<1>1. PICK one, S : one = <<x>> /\ S = Items(m)
  OBVIOUS
<1>2. a \in Seq(S) /\ x \in S /\ v = Join(a, one)
  BY <1>1 DEF IsEndedBy
<1>3. one \in Seq(S) /\ Len(one) = 1 /\ one[1] = x
  BY <1>1, <1>2
<1>4. IsJoin(S, a, one, v)
  BY <1>2, <1>3 DEF IsJoin
<1>5. /\ Len(v) = Len(a) + 1 /\ Len(a) \in Nat
      /\ \A k \in 1..Len(a) : k \in 1..Len(v) /\ v[k] = a[k]
      /\ v[Len(a) + 1] = x
  <2>1. /\ Len(v) = Len(a) + Len(one) /\ Len(a) \in Nat
        /\ \A k \in 1..Len(a) : k \in 1..Len(v) /\ v[k] = a[k]
        /\ \A k \in 1..Len(one) : v[Len(a) + k] = one[k]
    BY <1>4, JoinParts
  <2> QED BY <1>3, <2>1
<1>6. ASSUME NEW k \in 1..Len(a), a[k] \in CallItems
      PROVE  k + 1 \in 1..Len(a) /\ Calls(m, a[k + 1]) /\ a[k].id = K[a[k + 1].at]
  <2>1. k + 1 \in 1..Len(v) /\ Calls(m, v[k + 1]) /\ v[k].id = K[v[k + 1].at]
    BY <1>5, <1>6 DEF Paired
  <2>2. k + 1 # Len(a) + 1
    BY <1>5, <2>1
  <2>3. k + 1 \in 1..Len(a)
    BY <1>5, <2>1, <2>2
  <2> QED BY <1>5, <1>6, <2>1, <2>3
<1>7. ASSUME NEW k \in 1..Len(a), Calls(m, a[k])
      PROVE  k - 1 \in 1..Len(a) /\ a[k - 1] \in CallItems
  <2>1. k - 1 \in 1..Len(v) /\ v[k - 1] \in CallItems
    BY <1>5, <1>7 DEF Paired
  <2>2. k - 1 \in 1..Len(a)
    BY <1>5, <2>1
  <2> QED BY <1>5, <2>1, <2>2
<1> QED BY <1>6, <1>7 DEF Paired

\* Running through a block, each log of a call comes right before that call.
LEMMA RunPaired ==
  ASSUME NEW m, NEW L, NEW heads, NEW mids, NEW done, NEW new, NEW cd, NEW sc,
         IsSplit(m, L, heads, mids, done, new, cd, sc), NEW b \in Blocks(m),
         NEW K, Paired(m, K, Join(mids[b], <<LastOf(m, b)>>)),
         NEW v, v = Join(FrontOf(m, heads, mids, done, b), EndsOf(m, L, done, b))
  PROVE  Paired(m, K, v)
<1>1. PICK st, mid, one, ends, last, S :
        /\ st = StartOf(m, heads, done, b) /\ mid = mids[b] /\ last = LastOf(m, b)
        /\ one = <<last>> /\ ends = EndsOf(m, L, done, b) /\ S = Items(m)
  OBVIOUS
<1>2. /\ st \in Seq(Phis(m, b)) /\ st \in Seq(S) /\ mid \in Seq(S) /\ ends \in Seq(S)
      /\ last \in S
  BY <1>1, PartItems
<1>3. one \in Seq(S)
  BY <1>1, <1>2, ShortSequences
<1>4. WellFormed(m)
  BY DEF IsSplit
<1>5. v = Join(Join(st, mid), ends)
  BY <1>1 DEF FrontOf
<1>6. v = Join(st, Join(mid, ends)) /\ Join(mid, ends) \in Seq(S)
  <2>1. Join(Join(st, mid), ends) = Join(st, Join(mid, ends))
    BY <1>2, JoinAssociative
  <2>2. Join(mid, ends) \in Seq(S)
    BY <1>2, JoinType
  <2> QED BY <1>5, <2>1, <2>2
<1>7. Paired(m, K, st)
  <2>1. \A x \in Phis(m, b) : x \in OriginalItems(m) /\ ~ Calls(m, x)
    BY <1>4, BlockItems
  <2>2. \A x \in OriginalItems(m) : x \notin CallItems
    BY OriginalTypes, LogTypes
  <2>3. \A k \in 1..Len(st) : st[k] \in Phis(m, b)
    BY <1>2
  <2>4. \A k \in 1..Len(st) : st[k] \notin CallItems /\ ~ Calls(m, st[k])
    BY <2>1, <2>2, <2>3
  <2> QED BY <2>4, NothingPaired
<1>8. PICK u : u = Join(mid, ends)
  OBVIOUS
<1>9. Paired(m, K, u)
  <2>1. CASE ~ Shifted(m, done, b)
    <3>1. ends = one
      BY <1>1, <2>1 DEF EndsOf
    <3> QED BY <1>1, <1>8, <3>1
  <2>2. CASE Shifted(m, done, b)
    <3>1. PICK l : l = L[<<b, 1>>]
      OBVIOUS
    <3>2. l \in CfgItems /\ OpIn(m, last) \in {"br", "switch"}
      BY <1>1, <2>2, <3>1, PartItems
    <3>3. ~ Calls(m, last)
      BY <3>2 DEF Calls, OpIn, IsDirectCall, IsCall
    <3>4. PICK x : x = Join(mid, one)
      OBVIOUS
    <3>5. IsEndedBy(Items(m), mid, last, x)
      BY <1>1, <1>2, <3>4 DEF IsEndedBy
    <3>6. Paired(m, K, x)
      BY <1>1, <3>4
    <3>7. Paired(m, K, mid)
      BY <3>3, <3>5, <3>6, PairedFront
    <3>8. ends = <<l, last>>
      BY <1>1, <2>2, <3>1 DEF EndsOf
    <3>9. l \notin CallItems /\ ~ Calls(m, l) /\ last \notin CallItems
      <4>1. \A y \in CfgItems : y \in LogItems
        BY LogTypes
      <4>2. l \notin CallItems
        BY <3>2 DEF CfgItems, CallItems
      <4>3. last \in OriginalItems(m)
        BY <1>1, PartItems
      <4> QED BY <1>4, <3>2, <4>1, <4>2, <4>3, BlockItems, OriginalTypes, LogTypes
    <3>10. \A k \in 1..Len(ends) : ends[k] \notin CallItems /\ ~ Calls(m, ends[k])
      <4>1. Len(ends) = 2 /\ ends[1] = l /\ ends[2] = last
        BY <3>8
      <4>2. \A k \in 1..2 : k = 1 \/ k = 2
        OBVIOUS
      <4> QED BY <3>3, <3>9, <4>1, <4>2
    <3>11. Paired(m, K, ends)
      BY <3>10, NothingPaired
    <3>12. IsJoin(S, mid, ends, u)
      BY <1>2, <1>8 DEF IsJoin
    <3> QED BY <3>7, <3>11, <3>12, PairedJoined
  <2> QED BY <2>1, <2>2
<1>10. IsJoin(S, st, u, v)
  BY <1>2, <1>6, <1>8 DEF IsJoin
<1> QED BY <1>7, <1>9, <1>10, PairedJoined

\* It meets instructions of that block only, and each of its calls.
LEMMA RunHolds ==
  ASSUME NEW m, NEW L, NEW heads, NEW mids, NEW done, NEW new, NEW cd, NEW sc,
         IsSplit(m, L, heads, mids, done, new, cd, sc), NEW b \in Blocks(m),
         NEW v, v = Join(FrontOf(m, heads, mids, done, b), EndsOf(m, L, done, b))
  PROVE  /\ \A x \in OriginalItems(m) : Holds(v, x) => x.at[1] = b
         /\ \A x \in OriginalItems(m) : Calls(m, x) /\ x.at[1] = b => Holds(v, x)
<1>1. PICK st, mid, head, last, O :
        /\ st = StartOf(m, heads, done, b) /\ mid = KeptIn(mids[b], O) /\ head = heads[b]
        /\ last = <<LastOf(m, b)>> /\ O = OriginalItems(m)
  OBVIOUS
<1>2. WellFormed(m) /\ IsLaid(m, b, heads[b], mids[b])
  BY DEF IsSplit, Placed
<1>3. /\ v \in Seq(Items(m))
      /\ KeptIn(v, OriginalItems(m))
           = Laid(m, b, StartOf(m, heads, done, b), KeptIn(mids[b], OriginalItems(m)))
      /\ KeptIn(v, EntryItems) = KeptIn(mids[b], EntryItems)
      /\ KeptIn(v, CfgItems) = IF Shifted(m, done, b) THEN <<L[<<b, 1>>]>> ELSE <<>>
  BY ThroughKept
<1>4. KeptIn(v, O) = Join(st, Join(mid, last))
  BY <1>1, <1>3 DEF Laid
<1>5. BodyOf(m, b) = Join(head, Join(mid, last))
  BY <1>1, <1>2 DEF IsLaid, Laid
<1>6. /\ st \in Seq(Items(m)) /\ head \in Seq(Items(m)) /\ head \in Seq(Phis(m, b))
      /\ mids[b] \in Seq(Items(m)) /\ LastOf(m, b) \in Items(m)
      /\ st = head \/ st = <<>>
  BY <1>1, PartItems DEF StartOf
<1>7. mid \in Seq(Items(m)) /\ last \in Seq(Items(m))
  BY <1>1, <1>6, KeptJoined, ShortSequences
<1>8. Join(mid, last) \in Seq(Items(m))
  BY <1>7, JoinType
<1>9. PICK r : r = Join(mid, last)
  OBVIOUS
<1>10. /\ \A y : Holds(KeptIn(v, O), y) <=> Holds(st, y) \/ Holds(r, y)
       /\ \A y : Holds(BodyOf(m, b), y) <=> Holds(head, y) \/ Holds(r, y)
  <2>1. \A x, y \in Seq(Items(m)) : \A z : Holds(Join(x, y), z) <=> Holds(x, z) \/ Holds(y, z)
    BY HoldsOfJoin
  <2> QED BY <1>4, <1>5, <1>6, <1>8, <1>9, <2>1
<1>11. \A y : Holds(v, y) /\ y \in O <=> Holds(KeptIn(v, O), y)
  BY <1>3, KeptHolds
<1>12. \A y : ~ Holds(<<>>, y)
  BY DEF Holds
<1>13. \A y : Holds(v, y) /\ y \in O => Holds(BodyOf(m, b), y)
  BY <1>6, <1>10, <1>11, <1>12
<1>14. \A y : Holds(BodyOf(m, b), y) <=> \E k \in 1..Len(m.body[b]) : y = Original(b, k)
  <2>1. Len(m.body[b]) \in Nat /\ DOMAIN m.body[b] = 1..Len(m.body[b])
    BY <1>2, BodyType
  <2>2. PICK w : w = BodyOf(m, b)
    OBVIOUS
  <2>3. /\ w = [k \in 1..Len(m.body[b]) |-> w[k]]
        /\ \A k \in 1..Len(m.body[b]) : w[k] = Original(b, k)
    BY <2>1, <2>2 DEF BodyOf
  <2>4. Len(w) = Len(m.body[b])
    BY <2>1, <2>3, VectorIntro
  <2> QED BY <2>2, <2>3, <2>4 DEF Holds
<1>15. ASSUME NEW x \in OriginalItems(m), Holds(v, x) PROVE x.at[1] = b
  <2>1. PICK k \in 1..Len(m.body[b]) : x = Original(b, k)
    BY <1>1, <1>13, <1>14, <1>15
  <2>2. x.at = <<b, k>>
    BY <2>1, OriginalFields
  <2> QED BY <2>2
<1>16. ASSUME NEW x \in OriginalItems(m), Calls(m, x), x.at[1] = b PROVE Holds(v, x)
  <2>1. x.at \in Pointers(m) /\ x = Original(x.at[1], x.at[2])
    BY OriginalTypes
  <2>2. PICK p : p = x.at
    OBVIOUS
  <2>3. p[1] = b /\ p[2] \in 1..Len(m.body[p[1]]) /\ x = Original(b, p[2])
    BY <1>16, <2>1, <2>2, PointerParts
  <2>4. Holds(BodyOf(m, b), x)
    BY <1>14, <2>3
  <2>5. ~ Holds(head, x)
    <3>1. \A y \in Phis(m, b) : ~ Calls(m, y)
      BY <1>2, BlockItems
    <3> QED BY <1>6, <1>16, <3>1 DEF Holds
  <2> QED BY <1>10, <1>11, <2>4, <2>5
<1> QED BY <1>15, <1>16

LEMMA EntriesAndCallsKept == InjectInv => EntriesAndCallsLoggedOnce
<1> SUFFICES ASSUME InjectInv, phase = "injected", NEW b \in Blocks(module)
             PROVE  LET items == Through(b)
                        calls == {k \in DOMAIN items : IsLogOf(items[k], {"call_edge"})}
                    IN /\ EntryLogs(items)
                            = (IF IsEntryBlock(module, b)
                               THEN <<Log("func_enter", module.function_of[b] - 1)>> ELSE <<>>)
                                \o <<Log("bb_enter", b - 1)>>
                       /\ \A k \in calls : k < Len(items) /\ IsOriginal(items[k + 1])
                       /\ {items[k + 1].at : k \in calls}
                            = {p \in Pointers(module) : /\ p[1] = b
                                                        /\ IsDirectCall(module, Instr(module, p))}
                       /\ \A k \in calls :
                            LET e == edges[items[k].id + 1] IN
                              /\ e.kind = "call"
                              /\ e.source_node = instructionNodeIds[items[k + 1].at]
  BY DEF EntriesAndCallsLoggedOnce
<1>1. /\ WellFormed(module) /\ phase \notin Early /\ phase \in CallsLogged /\ Ready
  <2>1. phase \notin Early /\ phase \in CallsLogged
    BY Phases DEF CallsLogged
  <2> QED BY <2>1, NowSplit DEF Stages
<1>2. PICK heads, mids, done, new :
        /\ IsSplit(module, CfgLogOf, heads, mids, done, new, code, succs)
        /\ Described(heads, mids, done, new)
  BY NowSplit
<1>3. PICK m, cd, sc, L, K, v : /\ m = module /\ cd = code /\ sc = succs /\ L = CfgLogOf
                                /\ K = CallIds /\ v = Through(b)
  OBVIOUS
<1>4. IsSplit(m, L, heads, mids, done, new, cd, sc) /\ b \in Blocks(m)
  BY <1>2, <1>3
<1>5. v = Join(FrontOf(m, heads, mids, done, b), EndsOf(m, L, done, b))
  <2>1. PICK w : w = WalkOf(cd, sc)
    OBVIOUS
  <2>2. v = w[b]
    BY <1>3, <2>1, ThroughIsWalk
  <2> QED BY <1>4, <2>1, <2>2, WalkParts
<1>6. /\ KeptIn(mids[b], EntryItems) = EntryOf(m, b)
      /\ Paired(m, K, Join(mids[b], <<LastOf(m, b)>>))
  BY <1>1, <1>2, <1>3 DEF Described, MidsIn
<1>7. Paired(m, K, v)
  BY <1>4, <1>5, <1>6, RunPaired
<1>8. /\ \A x \in OriginalItems(m) : Holds(v, x) => x.at[1] = b
      /\ \A x \in OriginalItems(m) : Calls(m, x) /\ x.at[1] = b => Holds(v, x)
  BY <1>4, <1>5, RunHolds
<1>9. v \in Seq(Items(m)) /\ KeptIn(v, EntryItems) = KeptIn(mids[b], EntryItems)
  <2>1. /\ v \in Seq(Items(m))
        /\ KeptIn(v, OriginalItems(m))
             = Laid(m, b, StartOf(m, heads, done, b), KeptIn(mids[b], OriginalItems(m)))
        /\ KeptIn(v, EntryItems) = KeptIn(mids[b], EntryItems)
        /\ KeptIn(v, CfgItems) = IF Shifted(m, done, b) THEN <<L[<<b, 1>>]>> ELSE <<>>
    BY <1>4, <1>5, ThroughKept
  <2> QED BY <2>1
<1>10. EntryLogs(v) = EntryOf(m, b)
  BY <1>6, <1>9, KeptItems
<1>11. DOMAIN v = 1..Len(v) /\ Len(v) \in Nat /\ \A k \in 1..Len(v) : v[k] \in Items(m)
  BY <1>9
<1> DEFINE calls == {k \in DOMAIN v : IsLogOf(v[k], {"call_edge"})}
<1>12. \A k : k \in calls <=> k \in 1..Len(v) /\ v[k] \in CallItems
  <2>1. \A x \in Items(m) : IsLogOf(x, {"call_edge"}) <=> x \in CallItems
    <3>1. \A x \in Items(m) : x.kind = "log" <=> x \in LogItems
      BY LogTypes, OriginalTypes DEF Items
    <3> QED BY <3>1 DEF IsLogOf, CallItems
  <2> QED BY <1>11, <2>1
<1> HIDE DEF calls
<1>13. ASSUME NEW k \in calls
       PROVE  /\ k \in 1..Len(v) /\ k + 1 \in 1..Len(v)
              /\ Calls(m, v[k + 1]) /\ v[k].id = K[v[k + 1].at]
              /\ v[k + 1] \in OriginalItems(m) /\ v[k + 1].at \in Pointers(m)
  <2>1. /\ k \in 1..Len(v) /\ k + 1 \in 1..Len(v)
        /\ Calls(m, v[k + 1]) /\ v[k].id = K[v[k + 1].at]
    BY <1>7, <1>12, <1>13 DEF Paired
  <2>2. v[k + 1] \in OriginalItems(m)
    BY <1>11, <2>1, OriginalTypes DEF Calls
  <2> QED BY <2>1, <2>2, OriginalTypes
<1>14. \A k \in calls : k < Len(v) /\ IsOriginal(v[k + 1])
  <2> SUFFICES ASSUME NEW k \in calls PROVE k < Len(v) /\ IsOriginal(v[k + 1])
    OBVIOUS
  <2>1. k \in 1..Len(v) /\ k + 1 \in 1..Len(v) /\ Calls(m, v[k + 1])
    BY <1>13
  <2> QED BY <1>11, <2>1 DEF Calls
<1>15. ASSUME NEW p
       PROVE  (\E k \in calls : p = v[k + 1].at)
                <=> (p \in Pointers(m) /\ p[1] = b /\ IsDirectCall(m, Instr(m, p)))
  <2>1. ASSUME NEW k \in calls, p = v[k + 1].at
        PROVE  p \in Pointers(m) /\ p[1] = b /\ IsDirectCall(m, Instr(m, p))
    <3>1. PICK x : x = v[k + 1]
      OBVIOUS
    <3>2. k + 1 \in 1..Len(v) /\ Calls(m, x) /\ x \in OriginalItems(m) /\ p \in Pointers(m)
      BY <1>13, <2>1, <3>1
    <3>3. Holds(v, x)
      BY <3>1, <3>2 DEF Holds
    <3> QED BY <1>8, <2>1, <3>1, <3>2, <3>3 DEF Calls
  <2>2. ASSUME p \in Pointers(m), p[1] = b, IsDirectCall(m, Instr(m, p))
        PROVE  \E k \in calls : p = v[k + 1].at
    <3>1. PICK x : x = Original(p[1], p[2])
      OBVIOUS
    <3>2. p = <<p[1], p[2]>>
      BY <2>2, PointerParts
    <3>3. x \in OriginalItems(m) /\ IsOriginal(x) /\ x.at = p
      BY <2>2, <3>1, <3>2, OriginalFields DEF OriginalItems
    <3>4. Calls(m, x)
      BY <2>2, <3>3 DEF Calls
    <3>5. PICK j \in 1..Len(v) : v[j] = x
      BY <1>8, <2>2, <3>3, <3>4 DEF Holds
    <3>6. j - 1 \in 1..Len(v) /\ v[j - 1] \in CallItems
      BY <1>7, <3>4, <3>5 DEF Paired
    <3>7. j - 1 \in calls /\ (j - 1) + 1 = j
      BY <1>12, <3>5, <3>6
    <3> QED BY <3>3, <3>5, <3>7
  <2> QED BY <2>1, <2>2
<1>16. {v[k + 1].at : k \in calls}
         = {p \in Pointers(m) : p[1] = b /\ IsDirectCall(m, Instr(m, p))}
  BY <1>15
<1>17. \A k \in calls : LET e == edges[v[k].id + 1] IN
         e.kind = "call" /\ e.source_node = instructionNodeIds[v[k + 1].at]
  <2> SUFFICES ASSUME NEW k \in calls
               PROVE  /\ edges[v[k].id + 1].kind = "call"
                      /\ edges[v[k].id + 1].source_node = instructionNodeIds[v[k + 1].at]
    OBVIOUS
  <2>1. PICK p, i : p = v[k + 1].at /\ i = v[k].id
    OBVIOUS
  <2>2. p \in Pointers(m) /\ IsDirectCall(m, Instr(m, p)) /\ i = K[p]
    BY <1>13, <2>1 DEF Calls
  <2>3. i = callEdgeIds[CallKey(p)]
    BY <1>3, <2>2 DEF CallIds
  <2>4. /\ edges[callEdgeIds[CallKey(p)] + 1].kind = "call"
        /\ edges[callEdgeIds[CallKey(p)] + 1].source_node = instructionNodeIds[p]
    BY <1>1, <1>3, <2>2 DEF Ready
  <2> QED BY <2>1, <2>3, <2>4
<1>18. EntryOf(m, b) = (IF IsEntryBlock(m, b)
                        THEN <<Log("func_enter", m.function_of[b] - 1)>> ELSE <<>>)
                         \o <<Log("bb_enter", b - 1)>>
  BY DEF EntryOf, Join
<1> QED BY <1>3, <1>10, <1>14, <1>16, <1>17, <1>18 DEF calls

\* In the instrumented program, running through a block logs its entry once,
\* and each direct call right before it, under the edge from that call.
THEOREM EntriesAndCallsAreLogged == InjectSpec => []EntriesAndCallsLoggedOnce
<1>1. InjectInv => EntriesAndCallsLoggedOnce
  BY EntriesAndCallsKept
<1> QED BY <1>1, InjectInvHolds, PTL

\* In every block of the changed module a log of a call comes right before the call.
LEMMA BlocksPaired ==
  ASSUME NEW m, NEW L, NEW heads, NEW mids, NEW done, NEW new, NEW cd, NEW sc,
         IsSplit(m, L, heads, mids, done, new, cd, sc),
         NEW K, \A b \in Blocks(m) : Paired(m, K, Join(mids[b], <<LastOf(m, b)>>)),
         NEW c \in DOMAIN cd
  PROVE  Paired(m, K, cd[c])
<1>1. /\ WellFormed(m) /\ done \subseteq CfgEdges(m)
      /\ \A b \in Blocks(m) : cd[b] = BlockNow(m, heads, mids, done, b)
      /\ \A e \in done : cd[new[e]] = Between(m, L, heads, e) /\ IsMarked(m, L, e)
  BY DEF IsSplit, Changed
<1>2. c \in Blocks(m) \/ \E e \in done : c = new[e]
  BY Numbers
<1>3. \A x \in OriginalItems(m) : x \notin CallItems
  BY OriginalTypes, LogTypes
<1>4. \A b \in Blocks(m) : \A x \in Phis(m, b) : x \notin CallItems /\ ~ Calls(m, x)
  BY <1>1, <1>3, BlockItems
<1>5. \A x \in CfgItems : x \notin CallItems /\ ~ Calls(m, x)
  <2>1. \A x \in CfgItems : x \in LogItems /\ x \notin CallItems
    BY DEF CfgItems, CallItems
  <2> QED BY <2>1, LogTypes DEF Calls, IsOriginal
<1>6. Goto \notin CallItems /\ ~ Calls(m, Goto)
  BY LogTypes DEF Calls, IsOriginal, Goto
<1>7. CASE c \in Blocks(m)
  <2>1. PICK st, mid, one, ends, last, S :
          /\ st = StartOf(m, heads, done, c) /\ mid = mids[c] /\ last = LastOf(m, c)
          /\ one = <<last>> /\ ends = <<EndOf(m, done, c)>> /\ S = Items(m)
    OBVIOUS
  <2>2. /\ st \in Seq(Phis(m, c)) /\ st \in Seq(S) /\ mid \in Seq(S) /\ last \in S
        /\ Goto \in S
    BY <1>7, <2>1, PartItems DEF Items
  <2>3. one \in Seq(S) /\ ends \in Seq(S)
    BY <2>1, <2>2, ShortSequences DEF EndOf
  <2>4. Paired(m, K, st)
    <3>1. \A k \in 1..Len(st) : st[k] \in Phis(m, c)
      BY <2>2
    <3>2. \A k \in 1..Len(st) : st[k] \notin CallItems /\ ~ Calls(m, st[k])
      BY <1>4, <1>7, <3>1
    <3> QED BY <3>2, NothingPaired
  <2>5. PICK u : u = Join(mid, ends)
    OBVIOUS
  <2>6. Paired(m, K, u)
    <3>1. PICK x : x = Join(mid, one)
      OBVIOUS
    <3>2. Paired(m, K, x)
      BY <1>7, <2>1, <3>1
    <3>3. CASE ~ Shifted(m, done, c)
      BY <2>1, <2>5, <3>1, <3>2, <3>3 DEF EndOf
    <3>4. CASE Shifted(m, done, c)
      <4>1. OpIn(m, last) \in {"br", "switch"}
        BY <1>7, <2>1, <3>4, PartItems
      <4>2. ~ Calls(m, last)
        BY <4>1 DEF Calls, OpIn, IsDirectCall, IsCall
      <4>3. IsEndedBy(Items(m), mid, last, x)
        BY <2>1, <2>2, <3>1 DEF IsEndedBy
      <4>4. Paired(m, K, mid)
        BY <3>2, <4>2, <4>3, PairedFront
      <4>5. ends = <<Goto>>
        BY <2>1, <3>4 DEF EndOf
      <4>6. \A k \in 1..Len(ends) : ends[k] \notin CallItems /\ ~ Calls(m, ends[k])
        <5>1. Len(ends) = 1 /\ ends[1] = Goto
          BY <4>5
        <5> QED BY <1>6, <5>1
      <4>7. Paired(m, K, ends)
        BY <4>6, NothingPaired
      <4>8. IsJoin(S, mid, ends, u)
        BY <2>2, <2>3, <2>5 DEF IsJoin
      <4> QED BY <4>4, <4>7, <4>8, PairedJoined
    <3> QED BY <3>3, <3>4
  <2>7. u \in Seq(S) /\ cd[c] = Join(st, u)
    <3>1. u \in Seq(S)
      BY <2>2, <2>3, <2>5, JoinType
    <3> QED BY <1>1, <1>7, <2>1, <2>5, <3>1 DEF BlockNow
  <2>8. IsJoin(S, st, u, cd[c])
    BY <2>2, <2>7 DEF IsJoin
  <2> QED BY <2>4, <2>6, <2>8, PairedJoined
<1>8. CASE c \notin Blocks(m)
  <2>1. PICK e \in done : c = new[e]
    BY <1>2, <1>8
  <2>2. PICK l, last, t : l = L[e] /\ last = LastOf(m, e[1]) /\ t = EdgeTarget(m, e)
    OBVIOUS
  <2>3. e \in CfgEdges(m) /\ e[1] \in Blocks(m) /\ t \in Blocks(m)
    BY <1>1, <2>1, <2>2, EdgeParts
  <2>4. l \in CfgItems /\ OpIn(m, last) \in {"br", "switch"}
    BY <1>1, <2>1, <2>2 DEF IsMarked
  <2>5. last \notin CallItems /\ ~ Calls(m, last)
    <3>1. last \in OriginalItems(m)
      BY <2>2, <2>3, PartItems
    <3> QED BY <1>3, <2>4, <3>1 DEF Calls, OpIn, IsDirectCall, IsCall
  <2>6. PICK S : S = Phis(m, t) \cup CfgItems \cup {last, Goto}
    OBVIOUS
  <2>7. \A x \in S : x \notin CallItems /\ ~ Calls(m, x)
    BY <1>4, <1>5, <1>6, <2>3, <2>5, <2>6
  <2>8. cd[c] \in Seq(S)
    <3>1. CASE Follows(m, e)
      <4>1. cd[c] = <<l, last>> /\ l \in S /\ last \in S
        BY <1>1, <2>1, <2>2, <2>4, <2>6, <3>1 DEF Between
      <4> QED BY <4>1
    <3>2. CASE ~ Follows(m, e)
      <4>1. PICK taken, tail : taken = TakenPhis(m, heads, e) /\ tail = <<l, Goto>>
        OBVIOUS
      <4>2. tail \in Seq(S)
        BY <2>4, <2>6, <4>1
      <4>3. taken \in Seq(S)
        <5>1. heads[t] \in Seq(Phis(m, t))
          BY <2>3, PartItems
        <5>2. heads[t] \in Seq(S)
          BY <2>6, <5>1
        <5>3. <<>> \in Seq(S)
          OBVIOUS
        <5> QED BY <2>2, <4>1, <5>2, <5>3 DEF TakenPhis
      <4>4. cd[c] = Join(taken, tail)
        BY <1>1, <2>1, <2>2, <3>2, <4>1 DEF Between
      <4> QED BY <4>2, <4>3, <4>4, JoinType
    <3> QED BY <3>1, <3>2
  <2>9. \A k \in 1..Len(cd[c]) : cd[c][k] \notin CallItems /\ ~ Calls(m, cd[c][k])
    BY <2>7, <2>8
  <2> QED BY <2>9, NothingPaired
<1> QED BY <1>7, <1>8

LEMMA LogsAreNotLogged == InjectInv => LogsLogNothing
<1> SUFFICES ASSUME InjectInv, phase \in CallsLogged,
                    NEW b \in DOMAIN code, NEW k \in DOMAIN code[b],
                    IsLogOf(code[b][k], {"call_edge"})
             PROVE  /\ k < Len(code[b]) /\ IsOriginal(code[b][k + 1])
                    /\ IsDirectCall(module, Instr(module, code[b][k + 1].at))
                    /\ code[b][k].id = callEdgeIds[CallKey(code[b][k + 1].at)]
  BY DEF LogsLogNothing, CallsLogged
<1>1. Stages /\ WellFormed(module)
  BY NowSplit
<1>2. PICK heads, mids, done, new :
        /\ IsSplit(module, CfgLogOf, heads, mids, done, new, code, succs)
        /\ Described(heads, mids, done, new)
  BY NowSplit
<1>3. PICK m, cd, sc, L, K, v : /\ m = module /\ cd = code /\ sc = succs /\ L = CfgLogOf
                                /\ K = CallIds /\ v = code[b]
  OBVIOUS
<1>4. IsSplit(m, L, heads, mids, done, new, cd, sc) /\ b \in DOMAIN cd /\ v = cd[b]
  BY <1>2, <1>3
<1>5. \A c \in Blocks(m) : Paired(m, K, Join(mids[c], <<LastOf(m, c)>>))
  BY <1>2, <1>3 DEF Described, MidsIn
<1>6. Paired(m, K, v) /\ v \in Seq(Items(m))
  BY <1>4, <1>5, BlocksPaired, BlocksFormed
<1>7. DOMAIN v = 1..Len(v) /\ Len(v) \in Nat /\ \A j \in 1..Len(v) : v[j] \in Items(m)
  BY <1>6
<1>8. k \in 1..Len(v) /\ v[k] \in CallItems
  <2>1. k \in 1..Len(v) /\ v[k] \in Items(m) /\ IsLogOf(v[k], {"call_edge"})
    BY <1>3, <1>7
  <2>2. \A x \in Items(m) : x.kind = "log" <=> x \in LogItems
    BY LogTypes, OriginalTypes DEF Items
  <2> QED BY <2>1, <2>2 DEF IsLogOf, CallItems
<1>9. k + 1 \in 1..Len(v) /\ Calls(m, v[k + 1]) /\ v[k].id = K[v[k + 1].at]
  BY <1>6, <1>8 DEF Paired
<1>10. PICK x : x = v[k + 1]
  OBVIOUS
<1>11. x.at \in Pointers(m)
  <2>1. x \in Items(m) /\ IsOriginal(x)
    BY <1>7, <1>9, <1>10 DEF Calls
  <2>2. x \in OriginalItems(m)
    BY <2>1, OriginalTypes
  <2> QED BY <2>2, OriginalTypes
<1>12. K[x.at] = callEdgeIds[CallKey(x.at)]
  BY <1>3, <1>11 DEF CallIds
<1> QED BY <1>3, <1>7, <1>8, <1>9, <1>10, <1>12 DEF Calls

\* What is logged before a call is a call of the original module: no log is logged.
THEOREM NoLogOfLogs == InjectSpec => []LogsLogNothing
<1>1. InjectInv => LogsLogNothing
  BY LogsAreNotLogged
<1> QED BY <1>1, InjectInvHolds, PTL

(***************************************************************************)
(* What is logged between entering a block and entering the next.          *)
(***************************************************************************)
MarksEntry(x) == IsLogOf(x, {"bb_enter"})
Unmarked(v) == \A k \in 1..Len(v) : ~ MarksEntry(v[k])
IsThree(S, x, y, c, v) == /\ x \in Seq(S) /\ y \in Seq(S) /\ c \in Seq(S)
                          /\ v = Join(x, Join(y, c))

\* The first entry log of three parts, of which the second has one, is there.
LEMMA UpToSecond ==
  ASSUME NEW S, NEW x, NEW y, NEW c, NEW v, IsThree(S, x, y, c, v), NEW R, y \in Seq(R),
         Unmarked(x), NEW j \in 1..Len(y), MarksEntry(y[j])
  PROVE  \E z \in Seq(R) : z \in Seq(S) /\ UpToEntry(v) = Join(x, z)
<1>1. PICK yc : yc = Join(y, c)
  OBVIOUS
<1>2. yc \in Seq(S) /\ IsJoin(S, y, c, yc) /\ IsJoin(S, x, yc, v)
  <2>1. yc \in Seq(S)
    BY <1>1, JoinType DEF IsThree
  <2> QED BY <1>1, <2>1 DEF IsThree, IsJoin
<1>3. PICK a : a = Len(x)
  OBVIOUS
<1>4. /\ Len(yc) = Len(y) + Len(c) /\ Len(y) \in Nat /\ Len(c) \in Nat
      /\ \A k \in 1..Len(y) : k \in 1..Len(yc) /\ yc[k] = y[k]
  BY <1>2, JoinParts
<1>5. /\ IsVector(v) /\ Len(v) = a + Len(yc) /\ a \in Nat /\ Len(yc) \in Nat
      /\ \A k \in 1..Len(yc) : a + k \in 1..Len(v) /\ v[a + k] = yc[k]
      /\ \A k \in 1..a : v[k] = x[k]
  BY <1>2, <1>3, JoinParts
<1>6. DOMAIN v = 1..Len(v) /\ Len(v) \in Nat
  BY <1>5, VectorDomain
<1>7. PICK M : M = {k \in DOMAIN v : MarksEntry(v[k])}
  OBVIOUS
<1>8. a + j \in M
  BY <1>4, <1>5, <1>6, <1>7
<1>9. M \subseteq Nat /\ M # {}
  BY <1>6, <1>7, <1>8
<1>10. Min(M) \in M /\ \A k \in M : Min(M) <= k
  <2>1. \E k \in M : \A i \in M : k <= i
    BY <1>9, Minimum
  <2> QED BY <2>1 DEF Min
<1>11. PICK n : n = Min(M)
  OBVIOUS
<1>12. n \in Nat /\ n \in 1..Len(v) /\ MarksEntry(v[n]) /\ n <= a + j
  BY <1>6, <1>7, <1>8, <1>9, <1>10, <1>11
<1>13. n \notin 1..a
  BY <1>3, <1>5, <1>12 DEF Unmarked
<1>14. PICK i : i = n - a
  OBVIOUS
<1>15. i \in 1..Len(y) /\ n = a + i
  BY <1>4, <1>5, <1>12, <1>13, <1>14
<1>16. IsPlaceIn(y, i)
  BY <1>4, <1>15 DEF IsPlaceIn
<1>17. PICK z1, z2 \in Seq(S) : IsCut(y, i, z1, z2)
  <2>1. y \in Seq(S)
    BY DEF IsThree
  <2> QED BY <1>16, <2>1, CutAt
<1>18. z1 \in Seq(R)
  <2>1. PICK p, q \in Seq(R) : IsCut(y, i, p, q)
    BY <1>16, CutAt
  <2>2. /\ Len(p) = i /\ Len(z1) = i
        /\ \A k \in 1..i : p[k] = y[k] /\ z1[k] = y[k]
    BY <1>17, <2>1 DEF IsCut
  <2>3. p = [k \in 1..i |-> p[k]] /\ z1 = [k \in 1..i |-> z1[k]]
    BY <1>15, <1>17, <2>1, <2>2
  <2>4. p = z1
    BY <2>2, <2>3
  <2> QED BY <2>1, <2>4
<1>19. y = Join(z1, z2) /\ Len(z1) = i
  BY <1>17 DEF IsCut
<1>20. PICK u, r : u = Join(x, z1) /\ r = Join(z2, c)
  OBVIOUS
<1>21. x \in Seq(S) /\ c \in Seq(S) /\ u \in Seq(S) /\ r \in Seq(S)
  <2>1. x \in Seq(S) /\ c \in Seq(S)
    BY DEF IsThree
  <2> QED BY <1>17, <1>20, <2>1, JoinType
<1>22. v = Join(u, r)
  <2>1. v = Join(x, Join(Join(z1, z2), c))
    BY <1>19 DEF IsThree
  <2>2. Join(Join(z1, z2), c) = Join(z1, r)
    BY <1>17, <1>20, <1>21, JoinAssociative
  <2>3. Join(u, r) = Join(x, Join(z1, r))
    BY <1>17, <1>20, <1>21, JoinAssociative
  <2> QED BY <2>1, <2>2, <2>3
<1>23. IsJoin(S, u, r, v) /\ IsJoin(S, x, z1, u)
  BY <1>17, <1>20, <1>21, <1>22 DEF IsJoin
<1>24. Len(u) = n
  <2>1. Len(u) = Len(x) + Len(z1)
    BY <1>23, JoinParts
  <2> QED BY <1>3, <1>15, <1>19, <2>1
<1>25. Upto(v, n) = u
  <2>1. IsJoinAt(S, u, r, v, n)
    BY <1>23, <1>24 DEF IsJoinAt
  <2> QED BY <2>1, CutJoin
<1>26. UpToEntry(v) = Upto(v, Min(M))
  BY <1>7 DEF UpToEntry, Upto, MarksEntry
<1> QED BY <1>11, <1>17, <1>18, <1>20, <1>25, <1>26

\* What a run along an edge logs before the entry of its target: that edge, if
\* its log has got a block in between.
LEMMA LoggedBefore ==
  ASSUME NEW m, NEW L, NEW heads, NEW mids, NEW done, NEW new, NEW cd, NEW sc,
         IsSplit(m, L, heads, mids, done, new, cd, sc), NEW e \in CfgEdges(m),
         \A b \in Blocks(m) : KeptIn(mids[b], EntryItems) = EntryOf(m, b),
         NEW w, w = WalkOf(cd, sc), NEW v, v = w[ArrivalIn(m, cd, sc, e)]
  PROVE  /\ UpToEntry(v) \in Seq(Items(m))
         /\ KeptIn(UpToEntry(v), CfgItems) = IF Detours(m, done, e) THEN <<L[e]>> ELSE <<>>
<1>1. PICK t, S : t = EdgeTarget(m, e) /\ S = Items(m)
  OBVIOUS
<1>2. WellFormed(m) /\ t \in Blocks(m)
  <2>1. WellFormed(m)
    BY DEF IsSplit
  <2> QED BY <1>1, <2>1, EdgeParts
<1>3. PICK front, ends, st, mid, R :
        /\ front = FrontOf(m, heads, mids, done, t) /\ ends = EndsOf(m, L, done, t)
        /\ st = StartOf(m, heads, done, t) /\ mid = mids[t]
        /\ R = Phis(m, t) \cup Middles(m, t)
  OBVIOUS
<1>4. /\ front \in Seq(S) /\ ends \in Seq(S) /\ front = Join(st, mid)
      /\ st \in Seq(Phis(m, t)) /\ mid \in Seq(Middles(m, t))
  BY <1>1, <1>2, <1>3, PartItems DEF FrontOf
<1>5. w[t] = Join(front, ends)
  BY <1>2, <1>3, WalkParts
<1>6. st \in Seq(R) /\ mid \in Seq(R)
  BY <1>3, <1>4
<1>7. front \in Seq(R)
  BY <1>4, <1>6, JoinType
<1>8. \E j \in 1..Len(front) : MarksEntry(front[j])
  <2>1. PICK l : l = Log("bb_enter", t - 1)
    OBVIOUS
  <2>2. Holds(mid, l)
    BY <1>2, <1>3, <1>4, <2>1, EntryHeld
  <2>3. Holds(front, l)
    BY <1>4, <1>6, <2>2, HoldsOfJoin
  <2>4. MarksEntry(l)
    BY <2>1, LogFields DEF MarksEntry, IsLogOf
  <2> QED BY <2>3, <2>4 DEF Holds
<1>9. R \cap CfgItems = {}
  <2>1. \A x \in Phis(m, t) : x \in OriginalItems(m)
    BY <1>2, BlockItems
  <2>2. \A x \in OriginalItems(m) : x \notin CfgItems
    BY OriginalTypes, LogTypes
  <2>3. \A x \in Middles(m, t) : x \notin CfgItems
    BY <1>2, MiddleTypes
  <2> QED BY <1>3, <2>1, <2>2, <2>3
<1>10. \A z \in Seq(R) : KeptIn(z, CfgItems) = <<>>
  BY <1>9, KeptAll
<1>11. <<>> \in Seq(S) /\ Unmarked(<<>>)
  BY ShortSequences DEF Unmarked
<1>12. CASE ~ Detours(m, done, e)
  <2>1. v = Join(front, ends) /\ v \in Seq(S)
    <3>1. v = Join(front, ends)
      BY <1>1, <1>5, <1>12, Arrivals
    <3> QED BY <1>4, <3>1, JoinType
  <2>2. PICK x : x = <<>>
    OBVIOUS
  <2>3. v = Join(x, Join(front, ends))
    BY <2>1, <2>2, JoinEmpty
  <2>4. IsThree(S, x, front, ends, v) /\ Unmarked(x)
    BY <1>4, <1>11, <2>2, <2>3 DEF IsThree
  <2>5. PICK z \in Seq(R) : z \in Seq(S) /\ UpToEntry(v) = Join(x, z)
    BY <1>7, <1>8, <2>4, UpToSecond
  <2>6. UpToEntry(v) = z
    BY <2>2, <2>5, JoinEmpty
  <2> QED BY <1>1, <1>10, <1>12, <2>5, <2>6
<1>13. CASE Detours(m, done, e)
  <2>1. PICK x : x = FrontBetween(m, L, heads, e)
    OBVIOUS
  <2>2. v = Join(x, Join(front, ends))
    <3>1. e \in done /\ ~ Follows(m, e) /\ ArrivalIn(m, cd, sc, e) = new[e]
      BY <1>13, Arrivals DEF Detours
    <3> QED BY <1>1, <1>5, <2>1, <3>1, WalkParts
  <2>3. /\ x \in Seq(Items(m))
        /\ x \in Seq(Phis(m, EdgeTarget(m, e)) \cup CfgItems)
        /\ KeptIn(x, OriginalItems(m)) = TakenPhis(m, heads, e)
        /\ KeptIn(x, CfgItems) = <<L[e]>>
    BY <1>13, <2>1, BetweenKept
  <2>4. Unmarked(x)
    <3>1. \A y \in Phis(m, t) : IsOriginal(y)
      BY <1>2, BlockItems
    <3>2. \A y \in Phis(m, t) \cup CfgItems : ~ MarksEntry(y)
      BY <3>1 DEF MarksEntry, IsLogOf, IsOriginal, CfgItems
    <3>3. \A k \in 1..Len(x) : x[k] \in Phis(m, t) \cup CfgItems
      <4>1. PICK Q : Q = Phis(m, t) \cup CfgItems
        OBVIOUS
      <4>2. x \in Seq(Q)
        BY <1>1, <2>3, <4>1
      <4> QED BY <4>1, <4>2
    <3> QED BY <3>2, <3>3 DEF Unmarked
  <2>5. IsThree(S, x, front, ends, v)
    BY <1>1, <1>4, <2>2, <2>3 DEF IsThree
  <2>6. PICK z \in Seq(R) : z \in Seq(S) /\ UpToEntry(v) = Join(x, z)
    BY <1>7, <1>8, <2>4, <2>5, UpToSecond
  <2>7. KeptIn(Join(x, z), CfgItems) = Join(KeptIn(x, CfgItems), KeptIn(z, CfgItems))
    BY <1>1, <2>3, <2>6, KeptOfJoin
  <2>8. PICK one : one = <<L[e]>>
    OBVIOUS
  <2>9. one \in Seq(Items(m))
    <3>1. KeptIn(x, CfgItems) \in Seq(Items(m))
      BY <2>3, KeptJoined
    <3> QED BY <2>3, <2>8, <3>1
  <2>10. KeptIn(UpToEntry(v), CfgItems) = one
    <3>1. Join(one, <<>>) = one
      BY <2>9, JoinEmpty
    <3> QED BY <1>10, <2>3, <2>6, <2>7, <2>8, <3>1
  <2>11. UpToEntry(v) \in Seq(S)
    BY <1>1, <2>3, <2>6, JoinType
  <2> QED BY <1>1, <1>13, <2>8, <2>10, <2>11
<1> QED BY <1>12, <1>13

LEMMA EdgesKept == InjectInv => EdgesLoggedOnce
<1> SUFFICES ASSUME InjectInv, phase = "injected", NEW e \in CfgEdges(module)
             PROVE  CfgLogs(Through(e[1]) \o UpToEntry(Through(Arrival(e))))
                      = IF IsLogged(e) THEN <<Log("cfg_edge", cfgEdgeIds[CfgKey(e[1], e[2])])>>
                        ELSE <<>>
  BY DEF EdgesLoggedOnce
<1>1. WellFormed(module) /\ phase \notin Early /\ phase \in Splitting
  <2>1. phase \notin Early /\ phase \in Splitting
    BY Phases DEF Splitting
  <2> QED BY <2>1, NowSplit
<1>2. PICK heads, mids, done, new :
        /\ IsSplit(module, CfgLogOf, heads, mids, done, new, code, succs)
        /\ Described(heads, mids, done, new)
  BY NowSplit
<1>3. e \in done <=> IsLogged(e)
  <2>1. SplitsIn(phase, done, splits, LoggedEdges)
    BY <1>2 DEF Described
  <2>2. splits = <<>> /\ \A f \in LoggedEdges : f \in done <=> ~ Holds(splits, f)
    BY <1>1, <2>1 DEF SplitsIn
  <2>3. done \subseteq LoggedEdges
    BY <1>1, <2>1 DEF SplitsIn
  <2>4. \A f : ~ Holds(<<>>, f)
    BY DEF Holds
  <2> QED BY <2>2, <2>3, <2>4 DEF LoggedEdges
<1>4. PICK m, cd, sc, L, w, s :
        /\ m = module /\ cd = code /\ sc = succs /\ L = CfgLogOf
        /\ w = WalkOf(cd, sc) /\ s = e[1]
  OBVIOUS
<1>5. /\ IsSplit(m, L, heads, mids, done, new, cd, sc) /\ e \in CfgEdges(m)
      /\ WellFormed(m) /\ done \subseteq CfgEdges(m)
  <2>1. /\ IsSplit(m, L, heads, mids, done, new, cd, sc) /\ e \in CfgEdges(m) /\ WellFormed(m)
    BY <1>1, <1>2, <1>4
  <2> QED BY <2>1 DEF IsSplit, Changed
<1>6. s \in Blocks(m) /\ e = <<s, e[2]>>
  BY <1>4, <1>5, EdgeParts
<1>7. PICK v, x, u : v = w[ArrivalIn(m, cd, sc, e)] /\ x = w[s] /\ u = UpToEntry(v)
  OBVIOUS
<1>8. Through(e[1]) = x /\ Through(Arrival(e)) = v
  BY <1>4, <1>7, ArrivalIs, ThroughIsWalk
<1>9. u \in Seq(Items(m)) /\ KeptIn(u, CfgItems) = IF Detours(m, done, e) THEN <<L[e]>> ELSE <<>>
  <2>1. \A b \in Blocks(m) : KeptIn(mids[b], EntryItems) = EntryOf(m, b)
    BY <1>1, <1>2, <1>4 DEF Described, MidsIn
  <2> QED BY <1>4, <1>5, <1>7, <2>1, LoggedBefore
<1>10. /\ x \in Seq(Items(m))
       /\ KeptIn(x, CfgItems) = IF Shifted(m, done, s) THEN <<L[<<s, 1>>]>> ELSE <<>>
  <2>1. x = Join(FrontOf(m, heads, mids, done, s), EndsOf(m, L, done, s))
    BY <1>4, <1>5, <1>6, <1>7, WalkParts
  <2>2. /\ x \in Seq(Items(m))
        /\ KeptIn(x, OriginalItems(m))
             = Laid(m, s, StartOf(m, heads, done, s), KeptIn(mids[s], OriginalItems(m)))
        /\ KeptIn(x, EntryItems) = KeptIn(mids[s], EntryItems)
        /\ KeptIn(x, CfgItems) = IF Shifted(m, done, s) THEN <<L[<<s, 1>>]>> ELSE <<>>
    BY <1>5, <1>6, <2>1, ThroughKept
  <2> QED BY <2>2
<1>11. PICK y : y = Join(x, u)
  OBVIOUS
<1>12. y \in Seq(Items(m)) /\ CfgLogs(y) = KeptIn(y, CfgItems)
  <2>1. y \in Seq(Items(m))
    BY <1>9, <1>10, <1>11, JoinType
  <2> QED BY <2>1, KeptItems
<1>13. KeptIn(y, CfgItems) = Join(KeptIn(x, CfgItems), KeptIn(u, CfgItems))
  BY <1>9, <1>10, <1>11, KeptOfJoin
<1>14. KeptIn(x, CfgItems) \in Seq(Items(m)) /\ KeptIn(u, CfgItems) \in Seq(Items(m))
  BY <1>9, <1>10, KeptJoined
<1>15. \A z \in Seq(Items(m)) : Join(z, <<>>) = z /\ Join(<<>>, z) = z
  BY JoinEmpty
<1>16. /\ e \notin done => ~ Shifted(m, done, s)
       /\ e \in done => (Shifted(m, done, s) <=> Follows(m, e))
       /\ Follows(m, e) => e[2] = 1
  BY <1>4, <1>5, SplitOnce
<1>17. KeptIn(y, CfgItems) = IF e \in done THEN <<L[e]>> ELSE <<>>
  <2>1. CASE e \notin done
    <3>1. KeptIn(x, CfgItems) = <<>> /\ KeptIn(u, CfgItems) = <<>>
      BY <1>9, <1>10, <1>16, <2>1 DEF Detours
    <3> QED BY <1>13, <1>14, <1>15, <2>1, <3>1
  <2>2. CASE e \in done /\ Follows(m, e)
    <3>1. e = <<s, 1>>
      BY <1>6, <1>16, <2>2
    <3>2. KeptIn(x, CfgItems) = <<L[e]>> /\ KeptIn(u, CfgItems) = <<>>
      BY <1>9, <1>10, <1>16, <2>2, <3>1 DEF Detours
    <3> QED BY <1>13, <1>14, <1>15, <2>2, <3>2
  <2>3. CASE e \in done /\ ~ Follows(m, e)
    <3>1. KeptIn(x, CfgItems) = <<>> /\ KeptIn(u, CfgItems) = <<L[e]>>
      BY <1>9, <1>10, <1>16, <2>3 DEF Detours
    <3> QED BY <1>13, <1>14, <1>15, <2>3, <3>1
  <2> QED BY <2>1, <2>2, <2>3
<1>18. L[e] = Log("cfg_edge", cfgEdgeIds[CfgKey(e[1], e[2])])
  BY <1>4 DEF CfgLogOf
<1>19. Through(e[1]) \o UpToEntry(Through(Arrival(e))) = y
  BY <1>7, <1>8, <1>11 DEF Join
<1> QED BY <1>3, <1>12, <1>17, <1>18, <1>19

\* In the instrumented program, between entering a block and entering a
\* successor the edge between them is logged once, and no other.
THEOREM EdgesAreLogged == InjectSpec => []EdgesLoggedOnce
<1>1. InjectInv => EdgesLoggedOnce
  BY EdgesKept
<1> QED BY <1>1, InjectInvHolds, PTL

==============================================================================
