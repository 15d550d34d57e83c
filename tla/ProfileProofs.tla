---------------------------- MODULE ProfileProofs ----------------------------
(***************************************************************************)
(* What the merge makes of the log of an instrumented program: of a whole  *)
(* log the exact profile, of one that _exit has cut little too much; and   *)
(* what the files of its graph give back.                                  *)
(***************************************************************************)
EXTENDS LogCountProofs, DynamicGraph

(***************************************************************************)
(* What the merge reads of the log, for the elements of the graph.         *)
(***************************************************************************)
Counts == Merged(BuiltGraph, stdout)

\* The graph's entities, and what they count before the merge.
HasCounts(g, m, ids) ==
  /\ \A f \in Functions(m) :
       /\ FunctionKey(f) \in Entities(g)
       /\ InitialCounts(g)[FunctionKey(f)] = IF IsDeclaration(m, f) THEN NoCount ELSE 0
  /\ \A b \in Blocks(m) : BlockKey(b) \in Entities(g) /\ InitialCounts(g)[BlockKey(b)] = 0
  /\ \A k \in ids : EdgeKey(k - 1) \in Entities(g) /\ InitialCounts(g)[EdgeKey(k - 1)] = 0

LEMMA BuiltHasCounts ==
  ASSUME InGraph, WellFormed(module)
  PROVE  HasCounts(BuiltGraph, module, Counted)
<1>1. /\ IsVector(edges) /\ Len(edges) \in Nat /\ DOMAIN edges = 1..Len(edges)
      /\ IsVector(functions) /\ Len(functions) = module.functions
      /\ Len(basicBlocks) = Len(module.body)
  BY VectorDomain DEF InGraph
<1>2. PICK g, es : g = BuiltGraph /\ es = [k \in 1..Len(edges) |-> edges[k].kind]
  OBVIOUS
<1>3. /\ g.functions = module.functions /\ g.basic_blocks = Len(module.body) /\ g.edges = es
      /\ g.declarations = {k - 1 : k \in {j \in DOMAIN functions : functions[j].entry_basic_block = None}}
  BY <1>1, <1>2 DEF BuiltGraph, ProfiledPart, ModuleGraph, GraphOf, Each
<1>4. Len(es) = Len(edges) /\ \A k \in 1..Len(edges) : es[k] = edges[k].kind
  <2>1. \A k \in 1..Len(edges) : es[k] = edges[k].kind
    BY <1>2
  <2>2. es = [k \in 1..Len(edges) |-> es[k]]
    BY <1>2
  <2> QED BY <1>1, <2>1, <2>2, VectorIntro
<1>5. Entities(g) = ({"function"} \X (0..(module.functions - 1)))
                      \cup ({"basic_block"} \X (0..(Len(module.body) - 1)))
                      \cup ({"edge"} \X (0..(Len(edges) - 1)))
  BY <1>3, <1>4 DEF Entities
<1>6. module.functions \in Nat /\ Len(module.body) \in Nat
  BY BodyType
<1>7. DOMAIN functions = 1..module.functions
  BY <1>1, VectorDomain
<1>8. ASSUME NEW f \in Functions(module)
      PROVE  /\ FunctionKey(f) \in Entities(g)
             /\ InitialCounts(g)[FunctionKey(f)] = IF IsDeclaration(module, f) THEN NoCount ELSE 0
  <2>1. f \in 1..module.functions
    BY DEF Functions
  <2>2. f - 1 \in 0..(module.functions - 1)
    BY <1>6, <2>1
  <2>3. FunctionKey(f) \in Entities(g)
    BY <1>5, <2>2 DEF FunctionKey
  <2>4. functions[f].entry_basic_block = None <=> IsDeclaration(module, f)
    BY DEF InGraph, NamesTell
  <2>5. f - 1 \in g.declarations <=> IsDeclaration(module, f)
    <3>1. ASSUME f - 1 \in g.declarations PROVE IsDeclaration(module, f)
      <4>1. PICK k \in 1..module.functions : functions[k].entry_basic_block = None /\ f - 1 = k - 1
        BY <1>3, <1>7, <3>1
      <4>2. f = k
        BY <1>6, <2>1, <4>1
      <4> QED BY <2>4, <4>1, <4>2
    <3>2. ASSUME IsDeclaration(module, f) PROVE f - 1 \in g.declarations
      BY <1>3, <1>7, <2>1, <2>4, <3>2
    <3> QED BY <3>1, <3>2
  <2>6. InitialCounts(g)[FunctionKey(f)] = IF f - 1 \in g.declarations THEN NoCount ELSE 0
    BY <2>3 DEF InitialCounts, FunctionKey
  <2> QED BY <2>3, <2>5, <2>6
<1>9. ASSUME NEW b \in Blocks(module)
      PROVE  BlockKey(b) \in Entities(g) /\ InitialCounts(g)[BlockKey(b)] = 0
  <2>1. b - 1 \in 0..(Len(module.body) - 1)
    BY <1>6 DEF Blocks
  <2>2. BlockKey(b) \in Entities(g)
    BY <1>5, <2>1 DEF BlockKey
  <2> QED BY <2>2 DEF InitialCounts, BlockKey
<1>10. ASSUME NEW k \in Counted
       PROVE  EdgeKey(k - 1) \in Entities(g) /\ InitialCounts(g)[EdgeKey(k - 1)] = 0
  <2>1. k \in 1..Len(edges) /\ edges[k].kind \in {"control_flow", "call"}
    BY DEF Counted
  <2>2. k - 1 \in 0..(Len(edges) - 1) /\ (k - 1) + 1 = k
    BY <1>1, <2>1
  <2>3. EdgeKey(k - 1) \in Entities(g)
    BY <1>5, <2>2 DEF EdgeKey
  <2>4. IsProfiledEdge(g, k - 1)
    BY <1>3, <1>4, <2>1, <2>2 DEF IsProfiledEdge
  <2>5. EdgeKey(k - 1)[1] = "edge" /\ EdgeKey(k - 1)[2] = k - 1
    BY DEF EdgeKey
  <2>6. InitialCounts(g)[EdgeKey(k - 1)] = 0
    <3>1. PICK x : x = EdgeKey(k - 1)
      OBVIOUS
    <3>2. x \in Entities(g) /\ x[1] = "edge" /\ IsProfiledEdge(g, x[2])
      BY <2>3, <2>4, <2>5, <3>1
    <3>3. InitialCounts(g)[x] = 0
      BY <3>2 DEF InitialCounts
    <3> QED BY <3>1, <3>3
  <2> QED BY <2>3, <2>6
<1> QED BY <1>2, <1>8, <1>9, <1>10 DEF HasCounts

\* So the merge gives them the number of their events.
LEMMA CountsAreHits ==
  ASSUME InGraph, WellFormed(module), stdout \in Seq(AnyLines)
  PROVE  /\ \A x : Logged(x) \in Nat
         /\ \A f \in Functions(module) :
              Counts[FunctionKey(f)] = IF IsDeclaration(module, f) /\ Logged(FunctionKey(f)) = 0
                                       THEN NoCount ELSE Logged(FunctionKey(f))
         /\ \A b \in Blocks(module) : Counts[BlockKey(b)] = Logged(BlockKey(b))
         /\ \A k \in Counted : Counts[EdgeKey(k - 1)] = Logged(EdgeKey(k - 1))
<1>1. PICK g, m, ids : g = BuiltGraph /\ m = module /\ ids = Counted
  OBVIOUS
<1>2. HasCounts(g, m, ids)
  BY <1>1, BuiltHasCounts
<1>3. \A x : Logged(x) \in Nat
  BY HitsCounted DEF Logged
<1>4. ASSUME NEW x \in Entities(g)
      PROVE  Counts[x] = IF Logged(x) > 0 THEN Logged(x) ELSE InitialCounts(g)[x]
  BY <1>1 DEF Counts, Merged, Logged
<1>5. ASSUME NEW x \in Entities(g), InitialCounts(g)[x] = 0 PROVE Counts[x] = Logged(x)
  BY <1>3, <1>4, <1>5
<1>6. ASSUME NEW f \in Functions(m)
      PROVE  Counts[FunctionKey(f)] = IF IsDeclaration(m, f) /\ Logged(FunctionKey(f)) = 0
                                      THEN NoCount ELSE Logged(FunctionKey(f))
  <2>1. PICK x : x = FunctionKey(f)
    OBVIOUS
  <2>2. x \in Entities(g) /\ InitialCounts(g)[x] = IF IsDeclaration(m, f) THEN NoCount ELSE 0
    BY <1>2, <2>1 DEF HasCounts
  <2>3. Counts[x] = IF Logged(x) > 0 THEN Logged(x) ELSE InitialCounts(g)[x]
    BY <1>4, <2>2
  <2>4. Logged(x) \in Nat
    BY <1>3
  <2> QED BY <2>1, <2>2, <2>3, <2>4
<1>7. \A b \in Blocks(m) : Counts[BlockKey(b)] = Logged(BlockKey(b))
  BY <1>2, <1>5 DEF HasCounts
<1>8. \A k \in ids : Counts[EdgeKey(k - 1)] = Logged(EdgeKey(k - 1))
  BY <1>2, <1>5 DEF HasCounts
<1> QED BY <1>1, <1>3, <1>6, <1>7, <1>8

\* The graph's edges between two blocks: one of the program's has a log at most.
LEMMA EdgesBetween ==
  ASSUME InGraph, WellFormed(module), Ready, NEW s \in Blocks(module), NEW t \in Blocks(module)
  PROVE  /\ CfgIndices(s, t) \subseteq Counted /\ CfgIndices(s, t) \subseteq Nat
         /\ IsFiniteSet(CfgIndices(s, t))
         /\ \A k \in CfgIndices(s, t) : \A p \in DirectCalls : EdgeKey(k - 1) # Keys.calls[p]
         /\ \A e \in LoggedEdges : \A k \in CfgIndices(s, t) :
              EdgeKey(k - 1) = Keys.edges[e] => e[1] = s /\ EdgeTarget(module, e) = t
         /\ \A e \in LoggedEdges : e[1] = s /\ EdgeTarget(module, e) = t =>
              \E k \in CfgIndices(s, t) : EdgeKey(k - 1) = Keys.edges[e]
<1>1. NamesTell /\ Len(edges) \in Nat /\ DOMAIN edges = 1..Len(edges)
  BY VectorDomain DEF InGraph
<1>2. CfgIndices(s, t) \subseteq Counted /\ CfgIndices(s, t) \subseteq 1..Len(edges)
  BY <1>1 DEF CfgIndices, Counted
<1>3. IsFiniteSet(CfgIndices(s, t))
  <2>1. IsFiniteSet(1..Len(edges))
    BY <1>1, FS_Interval
  <2> QED BY <1>2, <2>1, FS_Subset
<1>4. ASSUME NEW k \in CfgIndices(s, t), NEW id \in Int, EdgeKey(k - 1) = <<"edge", id>>
      PROVE  k = id + 1
  BY <1>1, <1>2, <1>4 DEF EdgeKey
<1>5. ASSUME NEW p \in DirectCalls
      PROVE  /\ Keys.calls[p] = <<"edge", callEdgeIds[CallKey(p)]>> /\ callEdgeIds[CallKey(p)] \in Int
             /\ edges[callEdgeIds[CallKey(p)] + 1].kind = "call"
  BY KeyFields DEF Ready
<1>6. ASSUME NEW k \in CfgIndices(s, t), NEW p \in DirectCalls, EdgeKey(k - 1) = Keys.calls[p]
      PROVE  FALSE
  <2>1. k = callEdgeIds[CallKey(p)] + 1
    BY <1>4, <1>5, <1>6
  <2>2. edges[k].kind = "control_flow"
    BY DEF CfgIndices
  <2> QED BY <1>5, <2>1, <2>2
<1>7. ASSUME NEW e \in LoggedEdges
      PROVE  LET x == edges[cfgEdgeIds[CfgKey(e[1], e[2])] + 1] IN
               /\ Keys.edges[e] = <<"edge", cfgEdgeIds[CfgKey(e[1], e[2])]>>
               /\ cfgEdgeIds[CfgKey(e[1], e[2])] \in Int
               /\ cfgEdgeIds[CfgKey(e[1], e[2])] + 1 \in Counted
               /\ e[1] \in Blocks(module) /\ EdgeTarget(module, e) \in Blocks(module)
               /\ x.kind = "control_flow" /\ x.source_basic_block = e[1] - 1
               /\ x.target_basic_block = EdgeTarget(module, e) - 1
  <2>1. e \in CfgEdges(module) /\ CfgKey(e[1], e[2]) \in DOMAIN cfgEdgeIds
    BY DEF LoggedEdges, IsLogged
  <2>2. /\ cfgEdgeIds[CfgKey(e[1], e[2])] \in Int
        /\ cfgEdgeIds[CfgKey(e[1], e[2])] + 1 \in Counted
    BY <2>1 DEF Ready, InGraph
  <2>3. e[1] \in Blocks(module) /\ EdgeTarget(module, e) \in Blocks(module)
    BY <2>1, CfgEdgesFinite
  <2>4. Keys.edges[e] = <<"edge", cfgEdgeIds[CfgKey(e[1], e[2])]>>
    BY KeyFields
  <2> QED BY <1>1, <2>1, <2>2, <2>3, <2>4 DEF NamesTell
<1>8. ASSUME NEW e \in LoggedEdges, NEW k \in CfgIndices(s, t), EdgeKey(k - 1) = Keys.edges[e]
      PROVE  e[1] = s /\ EdgeTarget(module, e) = t
  <2>1. k = cfgEdgeIds[CfgKey(e[1], e[2])] + 1
    BY <1>4, <1>7, <1>8
  <2>2. edges[k].source_basic_block = s - 1 /\ edges[k].target_basic_block = t - 1
    BY DEF CfgIndices
  <2>3. e[1] - 1 = s - 1 /\ EdgeTarget(module, e) - 1 = t - 1
    BY <1>7, <2>1, <2>2
  <2>4. e[1] \in Int /\ EdgeTarget(module, e) \in Int /\ s \in Int /\ t \in Int
    BY <1>7 DEF Blocks
  <2> QED BY <2>3, <2>4
<1>9. ASSUME NEW e \in LoggedEdges, e[1] = s, EdgeTarget(module, e) = t
      PROVE  \E k \in CfgIndices(s, t) : EdgeKey(k - 1) = Keys.edges[e]
  <2>1. PICK id, k : id = cfgEdgeIds[CfgKey(e[1], e[2])] /\ k = id + 1
    OBVIOUS
  <2>2. /\ k \in Counted /\ id \in Int /\ edges[k].kind = "control_flow"
        /\ edges[k].source_basic_block = s - 1 /\ edges[k].target_basic_block = t - 1
        /\ Keys.edges[e] = <<"edge", id>>
    BY <1>7, <1>9, <2>1
  <2>3. k \in DOMAIN edges /\ k - 1 = id
    BY <1>1, <2>1, <2>2 DEF Counted
  <2>4. k \in CfgIndices(s, t)
    BY <2>2, <2>3 DEF CfgIndices
  <2> QED BY <2>2, <2>3, <2>4 DEF EdgeKey
<1> QED BY <1>2, <1>3, <1>6, <1>8, <1>9


LEMMA SumIsNatural ==
  ASSUME NEW S, IsFiniteSet(S), NEW f \in [S -> Nat]
  PROVE  Total(f) \in Nat
<1>1. CASE \A x \in S : f[x] = 0
  BY <1>1, SumOfNothing
<1>2. CASE \E x \in S : f[x] # 0
  BY <1>2, OneTerm
<1> QED BY <1>1, <1>2

\* What is to be counted for each of those edges: together what the program took
\* of the logged edges between the two blocks.
TakenBetween(s, t) == [e \in {c \in EdgesInto(module, t) : c[1] = s} |-> taken[e]]
AllLogged(s, t) == \A e \in EdgesInto(module, t) : e[1] = s => IsLogged(e)

IsTruth(s, t, r) ==
  /\ r \in [CfgIndices(s, t) -> Nat]
  /\ \A k \in CfgIndices(s, t) : \A n :
       Tells(Keys, entered, taken, called, EdgeKey(k - 1), n) => n = r[k]
  /\ Total(r) \in Nat /\ Traversals(s, t) \in Nat /\ Total(r) <= Traversals(s, t)
  /\ AllLogged(s, t) => Total(r) = Traversals(s, t)

LEMMA EdgesToldBetween ==
  ASSUME InGraph, WellFormed(module), Ready, taken \in [CfgEdges(module) -> Nat],
         NEW s \in Blocks(module), NEW t \in Blocks(module)
  PROVE  \E r : IsTruth(s, t, r)
<1>1. PICK I, S, f : I = CfgIndices(s, t) /\ f = TakenBetween(s, t)
                     /\ S = {c \in EdgesInto(module, t) : c[1] = s}
  OBVIOUS
<1>2. /\ I \subseteq Counted /\ I \subseteq Nat /\ IsFiniteSet(I)
      /\ \A k \in I : \A p \in DirectCalls : EdgeKey(k - 1) # Keys.calls[p]
      /\ \A e \in LoggedEdges : \A k \in I :
           EdgeKey(k - 1) = Keys.edges[e] => e[1] = s /\ EdgeTarget(module, e) = t
      /\ \A e \in LoggedEdges : e[1] = s /\ EdgeTarget(module, e) = t =>
           \E k \in I : EdgeKey(k - 1) = Keys.edges[e]
  BY <1>1, EdgesBetween
<1>3. /\ IsFiniteSet(S) /\ f \in [S -> Nat] /\ \A e \in S : f[e] = taken[e]
      /\ S = {e \in CfgEdges(module) : e[1] = s /\ EdgeTarget(module, e) = t}
  <2>1. S = {e \in CfgEdges(module) : e[1] = s /\ EdgeTarget(module, e) = t}
    BY <1>1 DEF EdgesInto
  <2>2. IsFiniteSet(CfgEdges(module))
    BY CfgEdgesFinite
  <2>3. S \subseteq CfgEdges(module)
    BY <2>1
  <2>4. IsFiniteSet(S)
    BY <2>2, <2>3, FS_Subset
  <2>5. f = [e \in S |-> taken[e]]
    BY <1>1 DEF TakenBetween
  <2> QED BY <2>1, <2>3, <2>4, <2>5
<1>4. Traversals(s, t) = Total(f)
  BY <1>1, SumIsTotal DEF Traversals, TakenBetween
<1>5. AllLogged(s, t) => S \subseteq LoggedEdges
  BY <1>1, <1>3 DEF AllLogged, LoggedEdges
<1>6. /\ Keys.m = module /\ DOMAIN Keys.calls = DirectCalls /\ DOMAIN Keys.edges = LoggedEdges
      /\ LoggedEdges \subseteq CfgEdges(module)
  BY KeyFields
<1>7. \A k \in I : EdgeKey(k - 1)[1] = "edge"
  BY DEF EdgeKey
<1>8. ASSUME NEW k \in I, NEW n, Tells(Keys, entered, taken, called, EdgeKey(k - 1), n)
      PROVE  /\ \A e \in LoggedEdges : EdgeKey(k - 1) = Keys.edges[e] => n = taken[e]
             /\ (\A e \in LoggedEdges : EdgeKey(k - 1) # Keys.edges[e]) => n = 0
  <2>1. PICK x : x = EdgeKey(k - 1)
    OBVIOUS
  <2>2. /\ \A g \in DefinedIn(Keys.m) : x # FunctionKey(g)
        /\ \A b \in Blocks(Keys.m) : x # BlockKey(b)
    BY <1>7, <2>1, KeyKinds
  <2>3. \A p \in DOMAIN Keys.calls : x # Keys.calls[p]
    BY <1>2, <1>6, <2>1
  <2> QED BY <1>6, <1>8, <2>1, <2>2, <2>3 DEF Tells
<1>9. Total(f) \in Nat
  BY <1>3, SumIsNatural
<1>10. CASE \E e \in LoggedEdges : e[1] = s /\ EdgeTarget(module, e) = t
  <2>1. PICK e \in LoggedEdges : e[1] = s /\ EdgeTarget(module, e) = t
    BY <1>10
  <2>2. PICK j \in I : EdgeKey(j - 1) = Keys.edges[e]
    BY <1>2, <2>1
  <2>3. e \in S /\ \A c \in S : c \in LoggedEdges => c = e
    <3>1. e \in S
      BY <1>3, <1>6, <2>1
    <3>2. ASSUME NEW c \in S, c \in LoggedEdges PROVE c = e
      BY <1>3, <2>1, <3>2, LoggedOnce
    <3> QED BY <3>1, <3>2
  <2>4. PICK n : n = taken[e]
    OBVIOUS
  <2>5. n \in Nat /\ f[e] = n
    BY <1>3, <2>3, <2>4
  <2>6. PICK r : r = [k \in I |-> IF k = j THEN n ELSE 0]
    OBVIOUS
  <2>7. r \in [I -> Nat] /\ r[j] = n /\ \A k \in I : k # j => r[k] = 0
    BY <2>2, <2>5, <2>6
  <2>8. Total(r) = n
    BY <1>2, <2>2, <2>7, OneTerm
  <2>9. n <= Total(f)
    BY <1>3, <2>3, <2>5, OneTerm
  <2>10. AllLogged(s, t) => Total(f) = n
    <3>1. SUFFICES ASSUME AllLogged(s, t) PROVE Total(f) = n
      OBVIOUS
    <3>2. \A c \in S : c # e => f[c] = 0
      BY <1>5, <2>3, <3>1
    <3> QED BY <1>3, <2>3, <2>5, <3>2, OneTerm
  <2>11. ASSUME NEW k \in I, NEW v, Tells(Keys, entered, taken, called, EdgeKey(k - 1), v)
         PROVE  v = r[k]
    <3>1. CASE k = j
      BY <1>8, <2>2, <2>4, <2>7, <2>11, <3>1
    <3>2. CASE k # j
      <4>1. ASSUME NEW c \in LoggedEdges, EdgeKey(k - 1) = Keys.edges[c] PROVE FALSE
        <5>1. c = e
          BY <1>2, <1>3, <1>6, <2>3, <4>1
        <5>2. EdgeKey(k - 1) = EdgeKey(j - 1)
          BY <2>2, <4>1, <5>1
        <5>3. k \in Int /\ j \in Int
          BY <1>2
        <5> QED BY <3>2, <5>2, <5>3 DEF EdgeKey
      <4> QED BY <1>8, <2>7, <2>11, <3>2, <4>1
    <3> QED BY <3>1, <3>2
  <2>12. IsTruth(s, t, r)
    BY <1>1, <1>4, <1>9, <2>5, <2>7, <2>8, <2>9, <2>10, <2>11 DEF IsTruth
  <2> QED BY <2>12
<1>11. CASE ~ \E e \in LoggedEdges : e[1] = s /\ EdgeTarget(module, e) = t
  <2>1. PICK r : r = [k \in I |-> 0]
    OBVIOUS
  <2>2. r \in [I -> Nat] /\ \A k \in I : r[k] = 0
    BY <2>1
  <2>3. Total(r) = 0
    BY <1>2, <2>2, SumOfNothing
  <2>4. AllLogged(s, t) => Total(f) = 0
    <3>1. SUFFICES ASSUME AllLogged(s, t) PROVE Total(f) = 0
      OBVIOUS
    <3>2. \A c \in S : f[c] = 0
      BY <1>3, <1>5, <1>11, <3>1
    <3> QED BY <1>3, <3>2, SumOfNothing
  <2>5. ASSUME NEW k \in I, NEW v, Tells(Keys, entered, taken, called, EdgeKey(k - 1), v)
        PROVE  v = r[k]
    BY <1>2, <1>8, <1>11, <2>2, <2>5
  <2>6. IsTruth(s, t, r)
    BY <1>1, <1>4, <1>9, <2>2, <2>3, <2>4, <2>5 DEF IsTruth
  <2> QED BY <2>6
<1> QED BY <1>10, <1>11

(***************************************************************************)
(* The profile of a run that has exited, its other threads ended.          *)
(***************************************************************************)
LEMMA NothingOwed ==
  ASSUME NEW L, NEW E, Settled(L, E), status = "exited", Live = {1}
  PROVE  \A x : Tells(Keys, entered, taken, called, x, Logged(x))
<1>1. PICK ts : ts = threads
  OBVIOUS
<1>2. ClearThread(L, E, ts) /\ Live = {t \in DOMAIN ts : ts[t] # <<>>}
  BY <1>1 DEF Settled, InBooks, Live
<1>3. PICK t \in DOMAIN ts : ts[t] # <<>> /\ Clear(L, E, Last(ts[t]))
  BY <1>2 DEF ClearThread
<1>4. \A u \in DOMAIN ts : ts[u] # <<>> => Clear(L, E, Last(ts[u]))
  BY <1>2, <1>3
<1>5. \A x : Owing(L, ts, x) = {} /\ Owing(E, ts, x) = {}
  BY <1>4 DEF Clear, Owing, InDebt
<1>6. ASSUME NEW x PROVE Tells(Keys, entered, taken, called, x, Logged(x))
  <2>1. Tells(Keys, entered, taken, called, x, Told(L, E, stdout, ts, x))
    BY <1>1 DEF Settled, InBooks, Accounted
  <2>2. Cardinality(Owing(L, ts, x)) = 0 /\ Cardinality(Owing(E, ts, x)) = 0
    BY <1>5, FS_EmptySet
  <2>3. Logged(x) \in Nat
    BY HitsCounted DEF Settled, Logged
  <2>4. Told(L, E, stdout, ts, x) = Logged(x)
    BY <2>2, <2>3 DEF Told, Tally, Logged
  <2> QED BY <2>1, <2>4
<1> QED BY <1>6

LEMMA ProfileIsExact == InjectInv /\ CodeInv /\ RunInv /\ BooksInv => ExactProfile
<1> SUFFICES ASSUME InjectInv, CodeInv, RunInv, BooksInv, status = "exited", Live = {1}
             PROVE  ExactProfile
  BY DEF ExactProfile
<1>1. phase = "injected"
  BY DEF RunInv, NotStarted
<1>2. PICK L, E : Settled(L, E)
  BY <1>1, NowSettled
<1>3. /\ Runnable /\ WellFormed(module) /\ Ready /\ InGraph /\ stdout \in Seq(AnyLines)
      /\ taken \in [CfgEdges(module) -> Nat]
  BY <1>2 DEF Settled, Runnable
<1>4. PICK count : count = Counts
  OBVIOUS
<1>5. \A x : Tells(Keys, entered, taken, called, x, Logged(x))
  BY <1>2, NothingOwed
<1>6. /\ \A f \in Functions(module) :
           count[FunctionKey(f)] = IF IsDeclaration(module, f) /\ Logged(FunctionKey(f)) = 0
                                   THEN NoCount ELSE Logged(FunctionKey(f))
      /\ \A b \in Blocks(module) : count[BlockKey(b)] = Logged(BlockKey(b))
      /\ \A k \in Counted : count[EdgeKey(k - 1)] = Logged(EdgeKey(k - 1))
  BY <1>3, <1>4, CountsAreHits
<1>7. /\ Keys.m = module /\ DOMAIN Keys.calls = DirectCalls /\ DOMAIN Keys.edges = LoggedEdges
      /\ \A p \in DirectCalls : /\ Keys.calls[p] = <<"edge", callEdgeIds[CallKey(p)]>>
                                /\ IsDirectCall(module, Instr(module, p))
      /\ \A p \in DOMAIN Keys.calls : Keys.calls[p][1] = "edge"
      /\ \A e \in DOMAIN Keys.edges : Keys.edges[e][1] = "edge"
  BY <1>2, KeyFields DEF Settled, KeysTell
<1>8. ASSUME NEW f \in Functions(module)
      PROVE  count[<<"function", f - 1>>]
               = IF IsDeclaration(module, f) THEN NoCount ELSE entered[EntryBlock(module, f)]
  <2>1. PICK x : x = FunctionKey(f)
    OBVIOUS
  <2>2. Tells(Keys, entered, taken, called, x, Logged(x))
    BY <1>5
  <2>3. ~ IsDeclaration(module, f) => Logged(x) = entered[EntryBlock(module, f)]
    BY <1>7, <2>1, <2>2 DEF Tells, DefinedIn
  <2>4. ASSUME IsDeclaration(module, f) PROVE Logged(x) = 0
    <3>1. x[1] = "function"
      BY <2>1, KeyKinds
    <3>2. \A g \in DefinedIn(Keys.m) : x # FunctionKey(g)
      <4> SUFFICES ASSUME NEW g \in DefinedIn(module), x = FunctionKey(g) PROVE FALSE
        BY <1>7
      <4>1. f \in Int /\ g \in Int /\ g \in Functions(module) /\ ~ IsDeclaration(module, g)
        BY <1>3, EntryBlocks DEF DefinedIn, Functions
      <4>2. f = g
        BY <2>1, <4>1, KeyKinds
      <4> QED BY <2>4, <4>1, <4>2
    <3>3. \A b \in Blocks(Keys.m) : x # BlockKey(b)
      BY <3>1, KeyKinds
    <3>4. /\ \A p \in DOMAIN Keys.calls : x # Keys.calls[p]
          /\ \A e \in DOMAIN Keys.edges : x # Keys.edges[e]
      BY <1>7, <3>1
    <3> QED BY <2>2, <3>2, <3>3, <3>4 DEF Tells
  <2>5. count[x] = IF IsDeclaration(module, f) /\ Logged(x) = 0 THEN NoCount ELSE Logged(x)
    BY <1>6, <2>1
  <2> QED BY <2>1, <2>3, <2>4, <2>5 DEF FunctionKey
<1>9. ASSUME NEW b \in Blocks(module) PROVE count[<<"basic_block", b - 1>>] = entered[b]
  <2>1. Tells(Keys, entered, taken, called, BlockKey(b), Logged(BlockKey(b)))
    BY <1>5
  <2>2. Logged(BlockKey(b)) = entered[b]
    BY <1>7, <2>1 DEF Tells
  <2> QED BY <1>6, <2>2 DEF BlockKey
<1>10. ASSUME NEW p \in DirectCalls PROVE count[EdgeKey(callEdgeIds[CallKey(p)])] = called[p]
  <2>1. PICK id : id = callEdgeIds[CallKey(p)]
    OBVIOUS
  <2>2. p \in Pointers(module) /\ IsDirectCall(module, Instr(module, p))
    BY <1>7 DEF DirectCalls
  <2>3. CallKey(p) \in DOMAIN callEdgeIds
    BY <1>3, <2>2 DEF Ready
  <2>4. id + 1 \in Counted /\ id \in Nat
    BY <1>3, <2>1, <2>3 DEF InGraph
  <2>5. (id + 1) - 1 = id
    BY <2>4
  <2>6. count[EdgeKey(id)] = Logged(EdgeKey(id))
    BY <1>6, <2>4, <2>5
  <2>7. Tells(Keys, entered, taken, called, EdgeKey(id), Logged(EdgeKey(id)))
    BY <1>5
  <2>8. Logged(EdgeKey(id)) = called[p]
    BY <1>7, <2>1, <2>7 DEF Tells, EdgeKey
  <2> QED BY <2>1, <2>6, <2>8
<1>11. ASSUME NEW s \in Blocks(module), NEW t \in Blocks(module)
       PROVE  IF \A e \in EdgesInto(module, t) : e[1] = s => IsLogged(e)
              THEN MergedTraversals(count, s, t) = Traversals(s, t)
              ELSE MergedTraversals(count, s, t) <= Traversals(s, t)
  <2>1. PICK r : IsTruth(s, t, r)
    BY <1>3, EdgesToldBetween
  <2>2. CfgIndices(s, t) \subseteq Counted
    BY <1>3, EdgesBetween
  <2>3. ASSUME NEW k \in CfgIndices(s, t) PROVE count[EdgeKey(k - 1)] = r[k]
    <3>1. count[EdgeKey(k - 1)] = Logged(EdgeKey(k - 1))
      BY <1>6, <2>2
    <3>2. Tells(Keys, entered, taken, called, EdgeKey(k - 1), Logged(EdgeKey(k - 1)))
      BY <1>5
    <3> QED BY <2>1, <3>1, <3>2 DEF IsTruth
  <2>4. r = [k \in CfgIndices(s, t) |-> count[EdgeKey(k - 1)]]
    BY <2>1, <2>3 DEF IsTruth
  <2>5. MergedTraversals(count, s, t) = Total(r)
    BY <2>4, SumIsTotal DEF MergedTraversals
  <2>6. Total(r) <= Traversals(s, t) /\ (AllLogged(s, t) => Total(r) = Traversals(s, t))
    BY <2>1 DEF IsTruth
  <2> QED BY <2>5, <2>6 DEF AllLogged
<1> QED BY <1>4, <1>8, <1>9, <1>10, <1>11 DEF ExactProfile, Counts


------------------------------------------------------------------------------
(***************************************************************************)
(* The profile of a log that has been cut.                                 *)
(***************************************************************************)
LEMMA OverIs ==
  ASSUME NEW h \in Nat, NEW n \in Int, NEW a \in Nat, h <= n + a
  PROVE  Over(h, n) \in Nat /\ Over(h, n) <= a
<1>1. PICK d : d = h - n
  OBVIOUS
<1>2. d \in Int /\ d <= a
  BY <1>1
<1>3. PICK S : S = {0, d}
  OBVIOUS
<1>4. Over(h, n) = Max(S)
  BY <1>1, <1>3, NoCountAssumption DEF Over
<1>5. \E x \in S : \A y \in S : x >= y
  BY <1>2, <1>3
<1>6. Max(S) \in S /\ \A y \in S : Max(S) >= y
  BY <1>5 DEF Max
<1>7. PICK z : z = Max(S)
  OBVIOUS
<1>8. z \in S /\ z >= 0
  BY <1>3, <1>6, <1>7
<1> QED BY <1>2, <1>3, <1>4, <1>7, <1>8

LEMMA FourTogether ==
  ASSUME NEW T, IsFiniteSet(T), NEW P \in SUBSET T, NEW Q \in SUBSET T,
         NEW R \in SUBSET T, NEW U \in SUBSET T,
         P \cap Q = {}, P \cap R = {}, P \cap U = {}, Q \cap R = {}, Q \cap U = {}, R \cap U = {}
  PROVE  /\ Cardinality(P) \in Nat /\ Cardinality(Q) \in Nat
         /\ Cardinality(R) \in Nat /\ Cardinality(U) \in Nat /\ Cardinality(T) \in Nat
         /\ Cardinality(P) + Cardinality(Q) + Cardinality(R) + Cardinality(U) <= Cardinality(T)
<1>1. IsFiniteSet(P) /\ IsFiniteSet(Q)
  BY FS_Subset
<1>2. IsFiniteSet(R) /\ IsFiniteSet(U)
  BY FS_Subset
<1>3. PICK V, W : V = P \cup Q /\ W = R \cup U
  OBVIOUS
<1>4. /\ IsFiniteSet(V) /\ Cardinality(P) \in Nat /\ Cardinality(Q) \in Nat
      /\ Cardinality(V) = Cardinality(P) + Cardinality(Q)
  BY <1>1, <1>3, CountTogether
<1>5. /\ IsFiniteSet(W) /\ Cardinality(R) \in Nat /\ Cardinality(U) \in Nat
      /\ Cardinality(W) = Cardinality(R) + Cardinality(U)
  BY <1>2, <1>3, CountTogether
<1>6. V \cap W = {} /\ V \cup W \in SUBSET T
  BY <1>3
<1>7. PICK Z : Z = V \cup W
  OBVIOUS
<1>8. Cardinality(Z) = Cardinality(V) + Cardinality(W)
  BY <1>4, <1>5, <1>6, <1>7, CountTogether
<1>9. Z \in SUBSET T
  BY <1>6, <1>7
<1>10. Cardinality(T) \in Nat /\ Cardinality(Z) <= Cardinality(T)
  BY <1>9, FS_Subset, FS_CardinalityType
<1> QED BY <1>4, <1>5, <1>8, <1>10

\* Keys that are all different, each charged.
LEMMA KeysCharged ==
  ASSUME NEW N, NEW L, NEW E, NEW ts, NEW live, NEW q, Charging(N, L, E, ts, live, q), NEW c,
         NEW S, IsFiniteSet(S), NEW key, \A x, y \in S : x # y => key[x] # key[y],
         NEW f \in [S -> Nat], \A x \in S : f[x] <= Cardinality(Charge(E, ts, q, c, key[x])),
         NEW X, X = {key[x] : x \in S}
  PROVE  Total(f) \in Nat /\ Total(f) <= Cardinality(Charged(E, ts, q, c, X))
<1>1. PICK K : K = [x \in S |-> {key[x]}]
  OBVIOUS
<1>2. Apart(K, S) /\ Parts(K, S) = X
  BY <1>1 DEF Apart, Parts
<1>3. \A x \in S : Charged(E, ts, q, c, K[x]) = Charge(E, ts, q, c, key[x])
  BY <1>1 DEF Charged
<1>4. \A x \in S : f[x] <= Cardinality(Charged(E, ts, q, c, K[x]))
  BY <1>3
<1>5. Total(f) \in Nat /\ Total(f) <= Cardinality(Charged(E, ts, q, c, Parts(K, S)))
  BY <1>2, <1>4, ChargesAdd
<1> QED BY <1>2, <1>5

\* What the log has too much of under a key is charged to threads.
HasExcess(L, E, ts, live, q, c) ==
  /\ Charging(Keys, L, E, ts, live, q)
  /\ \A x : \E n \in Int :
       /\ Tells(Keys, entered, taken, called, x, n)
       /\ Logged(x) \in Nat /\ Cardinality(Charge(E, ts, q, c, x)) \in Nat
       /\ Logged(x) <= n + Cardinality(Charge(E, ts, q, c, x))

LEMMA ChargeCounts ==
  ASSUME NEW N, NEW L, NEW E, NEW ts, NEW live, NEW q, Charging(N, L, E, ts, live, q), NEW c, NEW x
  PROVE  \E late, early \in Nat :
           /\ late = Cardinality(Owing(L, ts, x)) /\ early = Cardinality(Owing(E, ts, x))
           /\ Cardinality(Charge(E, ts, q, c, x)) = early + Is(x, c)
<1>1. Holding(N, L, E, ts, live) /\ Clear(L, E, Last(ts[q])) /\ IsFiniteSet(live)
  BY DEF Charging, Holding
<1>2. PICK late, early : late = Cardinality(Owing(L, ts, x)) /\ early = Cardinality(Owing(E, ts, x))
  OBVIOUS
<1>3. late \in Nat /\ early \in Nat
  BY <1>1, <1>2, BearersCount
<1>4. PICK P, Q : P = Owing(E, ts, x) /\ Q = {t \in {q} : x = c}
  OBVIOUS
<1>5. IsFiniteSet(P)
  <2>1. P \in SUBSET live
    BY <1>1, <1>4 DEF Holding, LiveIn, Owing, InDebt
  <2> QED BY <1>1, <2>1, FS_Subset
<1>6. IsFiniteSet(Q) /\ Cardinality(Q) = Is(x, c)
  <2>1. CASE x = c
    <3>1. Q = {q}
      BY <1>4, <2>1
    <3> QED BY <2>1, <3>1, FS_Singleton DEF Is, Sign
  <2>2. CASE x # c
    <3>1. Q = {}
      BY <1>4, <2>2
    <3> QED BY <2>2, <3>1, FS_EmptySet DEF Is, Sign
  <2> QED BY <2>1, <2>2
<1>7. P \cap Q = {}
  BY <1>1, <1>4 DEF Clear, Owing, InDebt
<1>8. Cardinality(P \cup Q) = Cardinality(P) + Cardinality(Q)
  BY <1>5, <1>6, <1>7, CountTogether
<1>9. Charge(E, ts, q, c, x) = P \cup Q
  BY <1>4 DEF Charge
<1> QED BY <1>2, <1>3, <1>4, <1>6, <1>8, <1>9

LEMMA NowCut ==
  ASSUME NEW L, NEW E, Settled(L, E), status = "quit"
  PROVE  \E ts, live, q, c : live = Live /\ HasExcess(L, E, ts, live, q, c)
<1>1. PICK ts, live, N : ts = threads /\ live = Live /\ N = Keys
  OBVIOUS
<1>2. Holding(N, L, E, ts, live) /\ ClearThread(L, E, ts) /\ stdout \in Seq(AnyLines)
  BY <1>1 DEF Settled, InBooks
<1>3. PICK q \in DOMAIN ts : ts[q] # <<>> /\ Clear(L, E, Last(ts[q]))
  BY <1>2 DEF ClearThread
<1>4. Charging(N, L, E, ts, live, q)
  BY <1>2, <1>3 DEF Charging, Holding, LiveIn
<1>5. PICK c : \A x : \E n \in Int :
        Tells(N, entered, taken, called, x, n) /\ Told(L, E, stdout, ts, x) <= n + Is(x, c)
  BY <1>1 DEF Settled, InBooks, NoMuchMore
<1>6. ASSUME NEW x
      PROVE  \E n \in Int :
               /\ Tells(N, entered, taken, called, x, n)
               /\ Logged(x) \in Nat /\ Cardinality(Charge(E, ts, q, c, x)) \in Nat
               /\ Logged(x) <= n + Cardinality(Charge(E, ts, q, c, x))
  <2>1. PICK n \in Int : Tells(N, entered, taken, called, x, n)
                         /\ Told(L, E, stdout, ts, x) <= n + Is(x, c)
    BY <1>5
  <2>2. PICK late, early \in Nat :
          /\ late = Cardinality(Owing(L, ts, x)) /\ early = Cardinality(Owing(E, ts, x))
          /\ Cardinality(Charge(E, ts, q, c, x)) = early + Is(x, c)
    BY <1>4, ChargeCounts
  <2>3. PICK one, h : one = Is(x, c) /\ h = Logged(x)
    OBVIOUS
  <2>4. one \in Nat /\ h \in Nat
    BY <1>2, <2>3, HitsCounted DEF Is, Sign, Logged
  <2>5. Told(L, E, stdout, ts, x) = h + (late - early)
    BY <2>2, <2>3 DEF Told, Tally, Logged
  <2>6. h <= n + (early + one) /\ early + one \in Nat
    BY <2>1, <2>3, <2>4, <2>5
  <2> QED BY <2>1, <2>2, <2>3, <2>4, <2>6
<1>7. HasExcess(L, E, ts, live, q, c)
  BY <1>1, <1>4, <1>6 DEF HasExcess
<1> QED BY <1>1, <1>7


\* What a cut log has too much of: no more than there are threads charged for X.
Costs(E, ts, q, c, f, X) ==
  Total(f) \in Nat /\ Total(f) <= Cardinality(Charged(E, ts, q, c, X))

OverFunctions ==
  [f \in Functions(module) |->
     Over(Counts[FunctionKey(f)],
          IF IsDeclaration(module, f) THEN 0 ELSE entered[EntryBlock(module, f)])]
OverBlocks == [b \in Blocks(module) |-> Over(Counts[BlockKey(b)], entered[b])]
OverCalls ==
  [p \in DirectCalls |-> Over(Counts[EdgeKey(callEdgeIds[CallKey(p)])], called[p])]
OverEdges ==
  [st \in Blocks(module) \X Blocks(module) |->
     Over(MergedTraversals(Counts, st[1], st[2]), Traversals(st[1], st[2]))]

FunctionKeys == {FunctionKey(f) : f \in Functions(module)}
BlockKeys == {BlockKey(b) : b \in Blocks(module)}
CallKeys == {Keys.calls[p] : p \in DirectCalls}
KeysBetween(s, t) == {EdgeKey(k - 1) : k \in CfgIndices(s, t)}
EdgeKeys == UNION {KeysBetween(st[1], st[2]) : st \in Blocks(module) \X Blocks(module)}

\* A run that has been cut.
WasCut(L, E, ts, live, q, c) ==
  Settled(L, E) /\ live = Live /\ HasExcess(L, E, ts, live, q, c)

LEMMA CutFacts ==
  ASSUME NEW L, NEW E, NEW ts, NEW live, NEW q, NEW c, WasCut(L, E, ts, live, q, c)
  PROVE  /\ WellFormed(module) /\ Ready /\ InGraph /\ stdout \in Seq(AnyLines)
         /\ entered \in [Blocks(module) -> Nat] /\ taken \in [CfgEdges(module) -> Nat]
         /\ called \in [Pointers(module) -> Nat] /\ KeysTell(Keys)
         /\ Keys.m = module /\ DOMAIN Keys.calls = DirectCalls /\ DOMAIN Keys.edges = LoggedEdges
         /\ DirectCalls \subseteq Pointers(module)
         /\ \A p \in DirectCalls : /\ Keys.calls[p] = <<"edge", callEdgeIds[CallKey(p)]>>
                                   /\ IsDirectCall(module, Instr(module, p))
         /\ \A x : \E n \in Int :
              /\ Tells(Keys, entered, taken, called, x, n)
              /\ Logged(x) \in Nat /\ Cardinality(Charge(E, ts, q, c, x)) \in Nat
              /\ Logged(x) <= n + Cardinality(Charge(E, ts, q, c, x))
<1>1. Settled(L, E) /\ HasExcess(L, E, ts, live, q, c)
  BY DEF WasCut
<1>2. /\ WellFormed(module) /\ Ready /\ InGraph /\ stdout \in Seq(AnyLines)
      /\ entered \in [Blocks(module) -> Nat] /\ taken \in [CfgEdges(module) -> Nat]
      /\ called \in [Pointers(module) -> Nat] /\ KeysTell(Keys)
  BY <1>1 DEF Settled, Runnable
<1> QED BY <1>1, <1>2, KeyFields DEF HasExcess

LEMMA FunctionsOver ==
  ASSUME NEW L, NEW E, NEW ts, NEW live, NEW q, NEW c, WasCut(L, E, ts, live, q, c)
  PROVE  Costs(E, ts, q, c, OverFunctions, FunctionKeys)
<1>1. PICK N, S, f, key : /\ N = Keys /\ S = Functions(module) /\ f = OverFunctions
                          /\ key = [g \in S |-> FunctionKey(g)]
  OBVIOUS
<1>2. Charging(N, L, E, ts, live, q)
  BY <1>1 DEF WasCut, HasExcess
<1>3. IsFiniteSet(S)
  BY <1>1, CutFacts, FiniteParts
<1>4. \A x, y \in S : x # y => key[x] # key[y]
  <2>1. \A x \in S : x \in Int
    BY <1>1 DEF Functions
  <2> QED BY <1>1, <2>1, KeyKinds
<1>5. ASSUME NEW g \in S
      PROVE  f[g] \in Nat /\ f[g] <= Cardinality(Charge(E, ts, q, c, key[g]))
  <2>1. PICK x, truth : /\ x = FunctionKey(g)
                        /\ truth = IF IsDeclaration(module, g) THEN 0 ELSE entered[EntryBlock(module, g)]
    OBVIOUS
  <2>2. PICK n \in Int : /\ Tells(Keys, entered, taken, called, x, n)
                         /\ Logged(x) \in Nat /\ Cardinality(Charge(E, ts, q, c, x)) \in Nat
                         /\ Logged(x) <= n + Cardinality(Charge(E, ts, q, c, x))
    BY CutFacts
  <2>3. n = truth
    <3>1. CASE ~ IsDeclaration(module, g)
      BY <1>1, <2>1, <2>2, <3>1, CutFacts DEF Tells, DefinedIn
    <3>2. CASE IsDeclaration(module, g)
      <4>1. x[1] = "function"
        BY <2>1, KeyKinds
      <4>2. \A h \in DefinedIn(Keys.m) : x # FunctionKey(h)
        <5> SUFFICES ASSUME NEW h \in DefinedIn(module), x = FunctionKey(h) PROVE FALSE
          BY CutFacts
        <5>1. g \in Int /\ h \in Int /\ ~ IsDeclaration(module, h)
          BY <1>1 DEF DefinedIn, Functions
        <5>2. g = h
          BY <2>1, <5>1, KeyKinds
        <5> QED BY <3>2, <5>1, <5>2
      <4>3. \A b \in Blocks(Keys.m) : x # BlockKey(b)
        BY <4>1, KeyKinds
      <4>4. /\ \A p \in DOMAIN Keys.calls : x # Keys.calls[p]
            /\ \A e \in DOMAIN Keys.edges : x # Keys.edges[e]
        BY <4>1, CutFacts DEF KeysTell
      <4> QED BY <2>1, <2>2, <3>2, <4>2, <4>3, <4>4 DEF Tells
    <3> QED BY <3>1, <3>2
  <2>4. PICK count : count = Counts[x]
    OBVIOUS
  <2>5. count = IF IsDeclaration(module, g) /\ Logged(x) = 0 THEN NoCount ELSE Logged(x)
    BY <1>1, <2>1, <2>4, CutFacts, CountsAreHits
  <2>6. f[g] = Over(count, truth)
    BY <1>1, <2>1, <2>4 DEF OverFunctions
  <2>7. key[g] = x
    BY <1>1, <2>1
  <2>8. CASE count = NoCount
    <3>1. f[g] = 0
      BY <2>6, <2>8 DEF Over
    <3> QED BY <2>2, <2>7, <3>1
  <2>9. CASE count = Logged(x)
    <3>1. PICK h, a : h = Logged(x) /\ a = Cardinality(Charge(E, ts, q, c, x))
      OBVIOUS
    <3>2. h \in Nat /\ a \in Nat /\ h <= truth + a /\ truth \in Int
      BY <2>2, <2>3, <3>1
    <3>3. Over(h, truth) \in Nat /\ Over(h, truth) <= a
      BY <3>2, OverIs
    <3> QED BY <2>6, <2>7, <2>9, <3>1, <3>3
  <2> QED BY <2>5, <2>8, <2>9
<1>6. f \in [S -> Nat]
  <2>1. DOMAIN f = S /\ f = [g \in S |-> f[g]]
    BY <1>1 DEF OverFunctions
  <2> QED BY <1>5, <2>1
<1>7. PICK X : X = {key[x] : x \in S}
  OBVIOUS
<1>8. Total(f) \in Nat /\ Total(f) <= Cardinality(Charged(E, ts, q, c, X))
  BY <1>2, <1>3, <1>4, <1>5, <1>6, <1>7, KeysCharged
<1>9. X = FunctionKeys
  BY <1>1, <1>7 DEF FunctionKeys
<1> QED BY <1>1, <1>8, <1>9 DEF Costs

LEMMA BlocksOver ==
  ASSUME NEW L, NEW E, NEW ts, NEW live, NEW q, NEW c, WasCut(L, E, ts, live, q, c)
  PROVE  Costs(E, ts, q, c, OverBlocks, BlockKeys)
<1>1. PICK N, S, f, key : /\ N = Keys /\ S = Blocks(module) /\ f = OverBlocks
                          /\ key = [b \in S |-> BlockKey(b)]
  OBVIOUS
<1>2. Charging(N, L, E, ts, live, q)
  BY <1>1 DEF WasCut, HasExcess
<1>3. IsFiniteSet(S)
  BY <1>1, CutFacts, FiniteParts
<1>4. \A x, y \in S : x # y => key[x] # key[y]
  <2>1. \A x \in S : x \in Int
    BY <1>1 DEF Blocks
  <2> QED BY <1>1, <2>1, KeyKinds
<1>5. ASSUME NEW b \in S
      PROVE  f[b] \in Nat /\ f[b] <= Cardinality(Charge(E, ts, q, c, key[b]))
  <2>1. PICK x, truth : x = BlockKey(b) /\ truth = entered[b]
    OBVIOUS
  <2>2. PICK n \in Int : /\ Tells(Keys, entered, taken, called, x, n)
                         /\ Logged(x) \in Nat /\ Cardinality(Charge(E, ts, q, c, x)) \in Nat
                         /\ Logged(x) <= n + Cardinality(Charge(E, ts, q, c, x))
    BY CutFacts
  <2>3. n = truth
    BY <1>1, <2>1, <2>2, CutFacts DEF Tells
  <2>4. Counts[x] = Logged(x)
    BY <1>1, <2>1, CutFacts, CountsAreHits
  <2>5. PICK h, a : h = Logged(x) /\ a = Cardinality(Charge(E, ts, q, c, x))
    OBVIOUS
  <2>6. h \in Nat /\ a \in Nat /\ h <= truth + a /\ truth \in Int
    BY <2>2, <2>3, <2>5
  <2>7. Over(h, truth) \in Nat /\ Over(h, truth) <= a
    BY <2>6, OverIs
  <2>8. f[b] = Over(h, truth)
    BY <1>1, <2>1, <2>4, <2>5 DEF OverBlocks
  <2>9. key[b] = x
    BY <1>1, <2>1
  <2> QED BY <2>5, <2>7, <2>8, <2>9
<1>6. f \in [S -> Nat]
  <2>1. f = [b \in S |-> f[b]]
    BY <1>1 DEF OverBlocks
  <2> QED BY <1>5, <2>1
<1>7. PICK X : X = {key[x] : x \in S}
  OBVIOUS
<1>8. Total(f) \in Nat /\ Total(f) <= Cardinality(Charged(E, ts, q, c, X))
  BY <1>2, <1>3, <1>4, <1>5, <1>6, <1>7, KeysCharged
<1>9. X = BlockKeys
  BY <1>1, <1>7 DEF BlockKeys
<1> QED BY <1>1, <1>8, <1>9 DEF Costs

LEMMA CallsOver ==
  ASSUME NEW L, NEW E, NEW ts, NEW live, NEW q, NEW c, WasCut(L, E, ts, live, q, c)
  PROVE  Costs(E, ts, q, c, OverCalls, CallKeys)
<1>1. PICK N, S, f, key : /\ N = Keys /\ S = DirectCalls /\ f = OverCalls
                          /\ key = Keys.calls
  OBVIOUS
<1>2. Charging(N, L, E, ts, live, q)
  BY <1>1 DEF WasCut, HasExcess
<1>3. IsFiniteSet(S)
  <2>1. S \subseteq Pointers(module)
    BY <1>1, CutFacts
  <2>2. IsFiniteSet(Pointers(module))
    BY CutFacts, FiniteParts
  <2> QED BY <2>1, <2>2, FS_Subset
<1>4. \A x, y \in S : x # y => key[x] # key[y]
  BY <1>1, CutFacts DEF KeysTell, OneToOne
<1>5. ASSUME NEW p \in S
      PROVE  f[p] \in Nat /\ f[p] <= Cardinality(Charge(E, ts, q, c, key[p]))
  <2>1. PICK id, x, truth : id = callEdgeIds[CallKey(p)] /\ x = EdgeKey(id) /\ truth = called[p]
    OBVIOUS
  <2>2. PICK n \in Int : /\ Tells(Keys, entered, taken, called, x, n)
                         /\ Logged(x) \in Nat /\ Cardinality(Charge(E, ts, q, c, x)) \in Nat
                         /\ Logged(x) <= n + Cardinality(Charge(E, ts, q, c, x))
    BY CutFacts
  <2>3. key[p] = x
    BY <1>1, <2>1, CutFacts DEF EdgeKey
  <2>4. n = truth
    BY <1>1, <2>1, <2>2, <2>3, CutFacts DEF Tells
  <2>5. Counts[x] = Logged(x)
    <3>1. p \in Pointers(module) /\ IsDirectCall(module, Instr(module, p))
      BY <1>1, CutFacts
    <3>2. CallKey(p) \in DOMAIN callEdgeIds
      BY <3>1, CutFacts DEF Ready
    <3>3. id + 1 \in Counted /\ id \in Nat
      BY <2>1, <3>2, CutFacts DEF InGraph
    <3>4. (id + 1) - 1 = id
      BY <3>3
    <3>5. \A k \in Counted : Counts[EdgeKey(k - 1)] = Logged(EdgeKey(k - 1))
      BY CutFacts, CountsAreHits
    <3>6. Counts[EdgeKey((id + 1) - 1)] = Logged(EdgeKey((id + 1) - 1))
      BY <3>3, <3>5
    <3> QED BY <2>1, <3>4, <3>6
  <2>6. PICK h, a : h = Logged(x) /\ a = Cardinality(Charge(E, ts, q, c, x))
    OBVIOUS
  <2>7. h \in Nat /\ a \in Nat /\ h <= truth + a /\ truth \in Int
    BY <2>2, <2>4, <2>6
  <2>8. Over(h, truth) \in Nat /\ Over(h, truth) <= a
    BY <2>7, OverIs
  <2>9. f[p] = Over(h, truth)
    BY <1>1, <2>1, <2>5, <2>6 DEF OverCalls
  <2> QED BY <2>3, <2>6, <2>8, <2>9
<1>6. f \in [S -> Nat]
  <2>1. f = [p \in S |-> f[p]]
    BY <1>1 DEF OverCalls
  <2> QED BY <1>5, <2>1
<1>7. PICK X : X = {key[x] : x \in S}
  OBVIOUS
<1>8. Total(f) \in Nat /\ Total(f) <= Cardinality(Charged(E, ts, q, c, X))
  BY <1>2, <1>3, <1>4, <1>5, <1>6, <1>7, KeysCharged
<1>9. X = CallKeys
  BY <1>1, <1>7 DEF CallKeys
<1> QED BY <1>1, <1>8, <1>9 DEF Costs


\* Of the graph's edges between two blocks.
LEMMA OverBetween ==
  ASSUME NEW L, NEW E, NEW ts, NEW live, NEW q, NEW c, WasCut(L, E, ts, live, q, c),
         NEW s \in Blocks(module), NEW t \in Blocks(module)
  PROVE  LET over == Over(MergedTraversals(Counts, s, t), Traversals(s, t)) IN
           over \in Nat /\ over <= Cardinality(Charged(E, ts, q, c, KeysBetween(s, t)))
<1>1. PICK I : I = CfgIndices(s, t)
  OBVIOUS
<1>2. I \subseteq Counted /\ I \subseteq Nat /\ IsFiniteSet(I)
  BY <1>1, CutFacts, EdgesBetween
<1>3. PICK r : IsTruth(s, t, r)
  BY CutFacts, EdgesToldBetween
<1>4. PICK f : f = [k \in I |-> Counts[EdgeKey(k - 1)]]
  OBVIOUS
<1>5. ASSUME NEW k \in I
      PROVE  /\ f[k] \in Nat /\ f[k] <= r[k] + Cardinality(Charge(E, ts, q, c, EdgeKey(k - 1)))
             /\ r[k] \in Nat
  <2>1. PICK x : x = EdgeKey(k - 1)
    OBVIOUS
  <2>2. PICK n \in Int : /\ Tells(Keys, entered, taken, called, x, n)
                         /\ Logged(x) \in Nat /\ Cardinality(Charge(E, ts, q, c, x)) \in Nat
                         /\ Logged(x) <= n + Cardinality(Charge(E, ts, q, c, x))
    BY CutFacts
  <2>3. n = r[k] /\ r[k] \in Nat
    BY <1>1, <1>3, <2>1, <2>2 DEF IsTruth
  <2>4. f[k] = Logged(x)
    <3>1. \A j \in Counted : Counts[EdgeKey(j - 1)] = Logged(EdgeKey(j - 1))
      BY CutFacts, CountsAreHits
    <3> QED BY <1>2, <1>4, <2>1, <3>1
  <2> QED BY <2>1, <2>2, <2>3, <2>4
<1>6. PICK A : A = [k \in I |-> Charge(E, ts, q, c, EdgeKey(k - 1))]
  OBVIOUS
<1>7. PICK N : N = Keys
  OBVIOUS
<1>8. Charging(N, L, E, ts, live, q) /\ IsFiniteSet(live)
  BY <1>7 DEF WasCut, HasExcess, Charging, Holding
<1>9. A \in [I -> SUBSET live] /\ \A k \in I : A[k] = Charge(E, ts, q, c, EdgeKey(k - 1))
  BY <1>6, <1>8, ChargeApart
<1>10. Apart(A, I)
  <2> SUFFICES ASSUME NEW j \in I, NEW k \in I, j # k PROVE A[j] \cap A[k] = {}
    BY DEF Apart
  <2>1. PICK x, y : x = EdgeKey(j - 1) /\ y = EdgeKey(k - 1)
    OBVIOUS
  <2>2. x # y
    BY <1>2, <2>1 DEF EdgeKey
  <2>3. Charge(E, ts, q, c, x) \cap Charge(E, ts, q, c, y) = {}
    BY <1>8, <2>2, ChargeApart
  <2> QED BY <1>9, <2>1, <2>3
<1>11. f \in [I -> Nat] /\ r \in [I -> Nat]
  BY <1>1, <1>3, <1>4, <1>5 DEF IsTruth
<1>12. \A k \in I : f[k] <= r[k] + Cardinality(A[k])
  BY <1>5, <1>9
<1>13. /\ Total(f) \in Nat /\ Total(r) \in Nat /\ Cardinality(Parts(A, I)) \in Nat
       /\ Total(f) <= Total(r) + Cardinality(Parts(A, I))
  BY <1>2, <1>8, <1>9, <1>10, <1>11, <1>12, SumWithin
<1>14. Parts(A, I) = Charged(E, ts, q, c, KeysBetween(s, t))
  BY <1>1, <1>9 DEF Parts, Charged, KeysBetween
<1>15. MergedTraversals(Counts, s, t) = Total(f)
  BY <1>1, <1>4, SumIsTotal DEF MergedTraversals
<1>16. PICK h, n, a : h = Total(f) /\ n = Traversals(s, t) /\ a = Cardinality(Parts(A, I))
  OBVIOUS
<1>17. Total(r) <= n /\ n \in Nat
  BY <1>3, <1>16 DEF IsTruth
<1>18. h \in Nat /\ n \in Int /\ a \in Nat /\ h <= n + a
  BY <1>13, <1>16, <1>17
<1>19. Over(h, n) \in Nat /\ Over(h, n) <= a
  BY <1>18, OverIs
<1> QED BY <1>14, <1>15, <1>16, <1>19

LEMMA EdgesOver ==
  ASSUME NEW L, NEW E, NEW ts, NEW live, NEW q, NEW c, WasCut(L, E, ts, live, q, c)
  PROVE  Costs(E, ts, q, c, OverEdges, EdgeKeys)
<1>1. PICK N, B, S, f, K : /\ N = Keys /\ B = Blocks(module) /\ S = B \X B /\ f = OverEdges
                           /\ K = [st \in S |-> KeysBetween(st[1], st[2])]
  OBVIOUS
<1>2. Charging(N, L, E, ts, live, q)
  BY <1>1 DEF WasCut, HasExcess
<1>3. IsFiniteSet(S)
  BY <1>1, CutFacts, FiniteParts
<1>4. \A st \in S : st[1] \in B /\ st[2] \in B /\ st = <<st[1], st[2]>>
  BY <1>1
<1>5. ASSUME NEW st \in S
      PROVE  f[st] \in Nat /\ f[st] <= Cardinality(Charged(E, ts, q, c, K[st]))
  <2>1. PICK s, t : s = st[1] /\ t = st[2]
    OBVIOUS
  <2>2. s \in Blocks(module) /\ t \in Blocks(module)
    BY <1>1, <1>4, <2>1
  <2>3. LET over == Over(MergedTraversals(Counts, s, t), Traversals(s, t)) IN
          over \in Nat /\ over <= Cardinality(Charged(E, ts, q, c, KeysBetween(s, t)))
    BY <2>2, OverBetween
  <2>4. f[st] = Over(MergedTraversals(Counts, s, t), Traversals(s, t))
    BY <1>1, <2>1 DEF OverEdges
  <2>5. K[st] = KeysBetween(s, t)
    BY <1>1, <2>1
  <2> QED BY <2>3, <2>4, <2>5
<1>6. f \in [S -> Nat]
  <2>1. f = [st \in S |-> f[st]]
    BY <1>1 DEF OverEdges
  <2> QED BY <1>5, <2>1
<1>7. Apart(K, S)
  <2> SUFFICES ASSUME NEW u \in S, NEW w \in S, NEW x, x \in K[u], x \in K[w] PROVE u = w
    BY DEF Apart
  <2>1. /\ u[1] \in Blocks(module) /\ u[2] \in Blocks(module) /\ u = <<u[1], u[2]>>
        /\ w[1] \in Blocks(module) /\ w[2] \in Blocks(module) /\ w = <<w[1], w[2]>>
    BY <1>1, <1>4
  <2>2. PICK j \in CfgIndices(u[1], u[2]) : x = EdgeKey(j - 1)
    BY <1>1 DEF KeysBetween
  <2>3. PICK k \in CfgIndices(w[1], w[2]) : x = EdgeKey(k - 1)
    BY <1>1 DEF KeysBetween
  <2>4. j \in Nat
    BY <2>1, CutFacts, EdgesBetween
  <2>5. k \in Nat
    BY <2>1, CutFacts, EdgesBetween
  <2>6. j = k
    BY <2>2, <2>3, <2>4, <2>5 DEF EdgeKey
  <2>7. u[1] - 1 = w[1] - 1 /\ u[2] - 1 = w[2] - 1
    BY <2>6 DEF CfgIndices
  <2>8. u[1] \in Int /\ u[2] \in Int /\ w[1] \in Int /\ w[2] \in Int
    BY <2>1 DEF Blocks
  <2>9. u[1] = w[1] /\ u[2] = w[2]
    BY <2>7, <2>8
  <2> QED BY <2>1, <2>9
<1>8. \A st \in S : f[st] <= Cardinality(Charged(E, ts, q, c, K[st]))
  BY <1>5
<1>9. PICK X : X = Parts(K, S)
  OBVIOUS
<1>10. Total(f) \in Nat /\ Total(f) <= Cardinality(Charged(E, ts, q, c, X))
  BY <1>2, <1>3, <1>6, <1>7, <1>8, <1>9, ChargesAdd
<1>11. X = EdgeKeys
  BY <1>1, <1>9 DEF Parts, EdgeKeys
<1> QED BY <1>1, <1>10, <1>11 DEF Costs

\* No key is charged for twice.
LEMMA KeySetsApart ==
  ASSUME NEW L, NEW E, NEW ts, NEW live, NEW q, NEW c, WasCut(L, E, ts, live, q, c)
  PROVE  /\ FunctionKeys \cap BlockKeys = {} /\ FunctionKeys \cap CallKeys = {}
         /\ FunctionKeys \cap EdgeKeys = {} /\ BlockKeys \cap CallKeys = {}
         /\ BlockKeys \cap EdgeKeys = {} /\ CallKeys \cap EdgeKeys = {}
<1>1. \A x \in FunctionKeys : x[1] = "function"
  BY KeyKinds DEF FunctionKeys
<1>2. \A x \in BlockKeys : x[1] = "basic_block"
  BY KeyKinds DEF BlockKeys
<1>3. \A x \in CallKeys : x[1] = "edge"
  BY CutFacts DEF CallKeys, KeysTell
<1>4. \A x \in EdgeKeys : x[1] = "edge"
  BY DEF EdgeKeys, KeysBetween, EdgeKey
<1>5. CallKeys \cap EdgeKeys = {}
  <2> SUFFICES ASSUME NEW p \in DirectCalls, NEW st \in Blocks(module) \X Blocks(module),
                      NEW k \in CfgIndices(st[1], st[2]), EdgeKey(k - 1) = Keys.calls[p]
               PROVE  FALSE
    BY DEF CallKeys, EdgeKeys, KeysBetween
  <2>1. st[1] \in Blocks(module) /\ st[2] \in Blocks(module)
    OBVIOUS
  <2> QED BY <2>1, CutFacts, EdgesBetween
<1> QED BY <1>1, <1>2, <1>3, <1>4, <1>5

LEMMA CutCountsLittleTooMuch ==
  InjectInv /\ CodeInv /\ RunInv /\ BooksInv => CutLogCountsLittleTooMuch
<1> SUFFICES ASSUME InjectInv, CodeInv, RunInv, BooksInv, status = "quit"
             PROVE  CutLogCountsLittleTooMuch
  BY DEF CutLogCountsLittleTooMuch
<1>1. phase = "injected"
  BY DEF RunInv, NotStarted
<1>2. PICK L, E : Settled(L, E)
  BY <1>1, NowSettled
<1>3. PICK ts, live, q, c : live = Live /\ HasExcess(L, E, ts, live, q, c)
  BY <1>2, NowCut
<1>4. WasCut(L, E, ts, live, q, c)
  BY <1>2, <1>3 DEF WasCut
<1>5. PICK N, X, Y, Z, W : N = Keys /\ X = FunctionKeys /\ Y = BlockKeys /\ Z = CallKeys /\ W = EdgeKeys
  OBVIOUS
<1>6. Charging(N, L, E, ts, live, q) /\ IsFiniteSet(live)
  BY <1>3, <1>5 DEF HasExcess, Charging, Holding
<1>7. PICK f, g, h, k : f = OverFunctions /\ g = OverBlocks /\ h = OverCalls /\ k = OverEdges
  OBVIOUS
<1>8. Costs(E, ts, q, c, f, X) /\ Costs(E, ts, q, c, g, Y)
  BY <1>4, <1>5, <1>7, FunctionsOver, BlocksOver
<1>9. Costs(E, ts, q, c, h, Z) /\ Costs(E, ts, q, c, k, W)
  BY <1>4, <1>5, <1>7, CallsOver, EdgesOver
<1>10. X \cap Y = {} /\ X \cap Z = {} /\ X \cap W = {} /\ Y \cap Z = {} /\ Y \cap W = {} /\ Z \cap W = {}
  BY <1>4, <1>5, KeySetsApart
<1>11. PICK P, Q, R, U : /\ P = Charged(E, ts, q, c, X) /\ Q = Charged(E, ts, q, c, Y)
                         /\ R = Charged(E, ts, q, c, Z) /\ U = Charged(E, ts, q, c, W)
  OBVIOUS
<1>12. P \in SUBSET live /\ Q \in SUBSET live /\ R \in SUBSET live /\ U \in SUBSET live
  BY <1>6, <1>11, ChargedApart
<1>13. /\ P \cap Q = {} /\ P \cap R = {} /\ P \cap U = {} /\ Q \cap R = {} /\ Q \cap U = {}
       /\ R \cap U = {}
  BY <1>6, <1>10, <1>11, ChargedApart
<1>14. /\ Cardinality(P) \in Nat /\ Cardinality(Q) \in Nat
       /\ Cardinality(R) \in Nat /\ Cardinality(U) \in Nat /\ Cardinality(live) \in Nat
       /\ Cardinality(P) + Cardinality(Q) + Cardinality(R) + Cardinality(U) <= Cardinality(live)
  BY <1>6, <1>12, <1>13, FourTogether
<1>15. /\ Total(f) \in Nat /\ Total(f) <= Cardinality(P)
       /\ Total(g) \in Nat /\ Total(g) <= Cardinality(Q)
       /\ Total(h) \in Nat /\ Total(h) <= Cardinality(R)
       /\ Total(k) \in Nat /\ Total(k) <= Cardinality(U)
  BY <1>8, <1>9, <1>11 DEF Costs
<1>16. Total(f) + Total(g) + Total(h) + Total(k) <= Cardinality(live)
  BY <1>14, <1>15
<1>17. SumOf(f) + SumOf(g) + SumOf(h) + SumOf(k) <= Cardinality(Live)
  BY <1>3, <1>16, SumIsTotal
<1>18. /\ f = [x \in Functions(module) |->
                 Over(Counts[<<"function", x - 1>>],
                      IF IsDeclaration(module, x) THEN 0 ELSE entered[EntryBlock(module, x)])]
       /\ g = [b \in Blocks(module) |-> Over(Counts[<<"basic_block", b - 1>>], entered[b])]
       /\ h = [p \in DirectCalls |-> Over(Counts[EdgeKey(callEdgeIds[CallKey(p)])], called[p])]
       /\ k = [st \in Blocks(module) \X Blocks(module) |->
                 Over(MergedTraversals(Counts, st[1], st[2]), Traversals(st[1], st[2]))]
  BY <1>7 DEF OverFunctions, OverBlocks, OverCalls, OverEdges, FunctionKey, BlockKey
<1> QED BY <1>17, <1>18 DEF CutLogCountsLittleTooMuch, Counts

------------------------------------------------------------------------------
(***************************************************************************)
(* The theorems.  An external call that leaves a line open hides events    *)
(* (ExactProfile is violated then, the run open_line): there is none.      *)
(***************************************************************************)

\* The profile of a run that has exited with its other threads ended is exact.
THEOREM ProfileAlwaysExact ==
  ASSUME "open" \notin Texts
  PROVE  RunSpec => []ExactProfile
BY BooksHold, RunInvHolds, ProfileIsExact, PTL

\* Of a log that _exit has cut the merge counts at most one event for every
\* thread that has not happened.
THEOREM CutLogsCountLittleTooMuch ==
  ASSUME "open" \notin Texts
  PROVE  RunSpec => []CutLogCountsLittleTooMuch
BY BooksHold, RunInvHolds, CutCountsLittleTooMuch, PTL

------------------------------------------------------------------------------
(***************************************************************************)
(* What a graph is after it has been in a JSON file.                       *)
(***************************************************************************)
\* e has the fields of a new element and no others.
MadeFrom(e, new) == e = [field \in DOMAIN new |-> e[field]]

\* A value that to_json does not turn into a null that was not there.
Savable(x) == x = None \/ x # Null

\* What an object of JSON gives back.
LEMMA SavedObject ==
  ASSUME NEW new, NEW R, NEW O, DOMAIN new = R \cup O, R \cap O = {},
         NEW e, MadeFrom(e, new), \A key \in O : Savable(e[key]),
         NEW o, o = Object(e, R, O)
  PROVE  Fields(o, new, R, O) = e /\ Setting(new, e) = e
<1>1. DOMAIN o = R \cup O
  BY DEF Object
<1>2. \A key \in R : o[key] = e[key]
  BY DEF Object
<1>3. \A key \in O : o[key] = IF e[key] = None THEN Null ELSE e[key]
  BY DEF Object, SetOptional
<1>4. ASSUME NEW key \in R PROVE JsonValue(o, key, new[key]) = e[key]
  BY <1>1, <1>2 DEF JsonValue
<1>5. ASSUME NEW key \in O PROVE OptionalValue(o, key) = e[key]
  BY <1>1, <1>3 DEF OptionalValue, Savable
<1>6. Fields(o, new, R, O) = [key \in R \cup O |-> e[key]]
  BY <1>4, <1>5 DEF Fields
<1>7. DOMAIN e = DOMAIN new
  BY DEF MadeFrom
<1>8. Setting(new, e) = [field \in DOMAIN new |-> e[field]]
  BY <1>7 DEF Setting
<1> QED BY <1>6, <1>8 DEF MadeFrom

\* The optional fields of the elements, and elements whose optional fields can be saved.
FunctionOptionals == {"entry_node", "entry_basic_block", "execution_count"}
BlockOptionals == {"entry_node", "execution_count"}
NodeOptionals == {"function", "basic_block", "opcode_name", "consumer", "operand_index"}
EdgeOptionals == {"label", "source_function", "target_function", "source_basic_block",
              "target_basic_block", "successor_index", "execution_count"}

WholeFunction(f) == MadeFrom(f, NewFunction) /\ \A key \in FunctionOptionals : Savable(f[key])
WholeBlock(b) == MadeFrom(b, NewBasicBlock) /\ \A key \in BlockOptionals : Savable(b[key])
WholeNode(n) ==
  /\ MadeFrom(n, NewNode) /\ n.kind \in {"instruction", "operand"}
  /\ \A key \in NodeOptionals : Savable(n[key])
WholeEdge(e) ==
  /\ MadeFrom(e, NewEdge)
  /\ e.kind \in {"control_flow", "instruction_sequence", "data_flow", "call"}
  /\ \A key \in EdgeOptionals : Savable(e[key])

\* from_json(to_json(f)) is f again, of a function ...
LEMMA FunctionSaved ==
  ASSUME NEW f, WholeFunction(f)
  PROVE  FunctionFromJson(FunctionToJson(f)) = f
<1>1. PICK R, o : R = {"id", "name"} /\ o = FunctionToJson(f)
  OBVIOUS
<1>2. DOMAIN NewFunction = R \cup FunctionOptionals /\ R \cap FunctionOptionals = {}
  BY <1>1 DEF NewFunction, FunctionOptionals
<1>3. o = Object(f, R, FunctionOptionals)
  BY <1>1 DEF FunctionToJson, FunctionOptionals
<1>4. Fields(o, NewFunction, R, FunctionOptionals) = f /\ Setting(NewFunction, f) = f
  BY <1>2, <1>3, SavedObject DEF WholeFunction
<1>5. FunctionFromJson(o) = Setting(NewFunction, Fields(o, NewFunction, R, FunctionOptionals))
  BY <1>1 DEF FunctionFromJson, Function, FunctionOptionals
<1> QED BY <1>1, <1>4, <1>5

\* ... of a block ...
LEMMA BlockSaved ==
  ASSUME NEW b, WholeBlock(b)
  PROVE  BasicBlockFromJson(BasicBlockToJson(b)) = b
<1>1. PICK R, o : R = {"id", "function", "label"} /\ o = BasicBlockToJson(b)
  OBVIOUS
<1>2. DOMAIN NewBasicBlock = R \cup BlockOptionals /\ R \cap BlockOptionals = {}
  BY <1>1 DEF NewBasicBlock, BlockOptionals
<1>3. o = Object(b, R, BlockOptionals)
  BY <1>1 DEF BasicBlockToJson, BlockOptionals
<1>4. Fields(o, NewBasicBlock, R, BlockOptionals) = b /\ Setting(NewBasicBlock, b) = b
  BY <1>2, <1>3, SavedObject DEF WholeBlock
<1>5. BasicBlockFromJson(o) = Setting(NewBasicBlock, Fields(o, NewBasicBlock, R, BlockOptionals))
  BY <1>1 DEF BasicBlockFromJson, BasicBlock, BlockOptionals
<1> QED BY <1>1, <1>4, <1>5

\* ... of a node, whose kind is one of the table ...
LEMMA NodeSaved ==
  ASSUME NEW n, WholeNode(n)
  PROVE  NodeFromJson(NodeToJson(n)) = n
<1>1. PICK R, o : R = {"id", "kind", "label"} /\ o = NodeToJson(n)
  OBVIOUS
<1>2. DOMAIN NewNode = R \cup NodeOptionals /\ R \cap NodeOptionals = {}
  BY <1>1 DEF NewNode, NodeOptionals
<1>3. o = Object(n, R, NodeOptionals)
  BY <1>1 DEF NodeToJson, NodeOptionals
<1>4. Fields(o, NewNode, R, NodeOptionals) = n /\ Setting(NewNode, n) = n
  BY <1>2, <1>3, SavedObject DEF WholeNode
<1>5. NodeFromJson(o) = Setting(NewNode, [n EXCEPT !.kind = NodeKindFromJson(@)])
  BY <1>1, <1>4 DEF NodeFromJson, Node, NodeOptionals
<1>6. NodeKindFromJson(n.kind) = n.kind /\ n = [field \in DOMAIN NewNode |-> n[field]]
  BY DEF NodeKindFromJson, WholeNode, MadeFrom
<1>7. [n EXCEPT !.kind = NodeKindFromJson(@)] = n
  BY <1>6
<1> QED BY <1>1, <1>4, <1>5, <1>7

\* ... and of an edge.
LEMMA EdgeSaved ==
  ASSUME NEW e, WholeEdge(e)
  PROVE  EdgeFromJson(EdgeToJson(e)) = e
<1>1. PICK R, o : R = {"id", "kind", "source_node", "target_node"} /\ o = EdgeToJson(e)
  OBVIOUS
<1>2. DOMAIN NewEdge = R \cup EdgeOptionals /\ R \cap EdgeOptionals = {}
  BY <1>1 DEF NewEdge, EdgeOptionals
<1>3. o = Object(e, R, EdgeOptionals)
  BY <1>1 DEF EdgeToJson, EdgeOptionals
<1>4. Fields(o, NewEdge, R, EdgeOptionals) = e /\ Setting(NewEdge, e) = e
  BY <1>2, <1>3, SavedObject DEF WholeEdge
<1>5. EdgeFromJson(o) = Setting(NewEdge, [e EXCEPT !.kind = EdgeKindFromJson(@)])
  BY <1>1, <1>4 DEF EdgeFromJson, Edge, EdgeOptionals
<1>6. EdgeKindFromJson(e.kind) = e.kind /\ e = [field \in DOMAIN NewEdge |-> e[field]]
  BY DEF EdgeKindFromJson, WholeEdge, MadeFrom
<1>7. [e EXCEPT !.kind = EdgeKindFromJson(@)] = e
  BY <1>6
<1> QED BY <1>1, <1>4, <1>5, <1>7

\* A graph of vectors of whole elements.
WholeGraph(g) ==
  /\ g = GraphOf(g.module_name, g.functions, g.basic_blocks, g.nodes, g.edges)
  /\ IsVector(g.functions) /\ \A k \in 1..Len(g.functions) : WholeFunction(g.functions[k])
  /\ IsVector(g.basic_blocks) /\ \A k \in 1..Len(g.basic_blocks) : WholeBlock(g.basic_blocks[k])
  /\ IsVector(g.nodes) /\ \A k \in 1..Len(g.nodes) : WholeNode(g.nodes[k])
  /\ IsVector(g.edges) /\ \A k \in 1..Len(g.edges) : WholeEdge(g.edges[k])

\* Deserialize adds to empty vectors.
LEMMA NothingBefore ==
  ASSUME NEW v, IsVector(v)
  PROVE  Add(<<>>, v) = v
BY DEF Add, IsVector

\* Hence of a graph.
LEMMA GraphSaved ==
  ASSUME NEW g, WholeGraph(g)
  PROVE  Deserialize(Serialize(g)) = g
<1>1. PICK j, fs, bs, ns, es :
        /\ j = Serialize(g)
        /\ fs = Each(g.functions, FunctionToJson) /\ bs = Each(g.basic_blocks, BasicBlockToJson)
        /\ ns = Each(g.nodes, NodeToJson) /\ es = Each(g.edges, EdgeToJson)
  OBVIOUS
<1>2. j = GraphOf(g.module_name, fs, bs, ns, es)
  BY <1>1 DEF Serialize
<1>3. /\ JsonValue(j, "module_name", NoText) = g.module_name
      /\ JsonValue(j, "functions", <<>>) = fs /\ JsonValue(j, "basic_blocks", <<>>) = bs
      /\ JsonValue(j, "nodes", <<>>) = ns /\ JsonValue(j, "edges", <<>>) = es
  BY <1>2 DEF GraphOf, JsonValue
<1>4. Each(fs, FunctionFromJson) = g.functions
  <2>1. PICK v : v = g.functions
    OBVIOUS
  <2>2. /\ v = [k \in 1..Len(v) |-> v[k]] /\ DOMAIN v = 1..Len(v)
        /\ \A k \in 1..Len(v) : WholeFunction(v[k])
    BY <2>1, VectorDomain DEF WholeGraph
  <2>3. fs = [k \in 1..Len(v) |-> FunctionToJson(v[k])]
    BY <1>1, <2>1, <2>2 DEF Each
  <2>4. Each(fs, FunctionFromJson) = [k \in 1..Len(v) |-> FunctionFromJson(FunctionToJson(v[k]))]
    BY <2>3 DEF Each
  <2> QED BY <2>1, <2>2, <2>4, FunctionSaved
<1>5. Each(bs, BasicBlockFromJson) = g.basic_blocks
  <2>1. PICK v : v = g.basic_blocks
    OBVIOUS
  <2>2. /\ v = [k \in 1..Len(v) |-> v[k]] /\ DOMAIN v = 1..Len(v)
        /\ \A k \in 1..Len(v) : WholeBlock(v[k])
    BY <2>1, VectorDomain DEF WholeGraph
  <2>3. bs = [k \in 1..Len(v) |-> BasicBlockToJson(v[k])]
    BY <1>1, <2>1, <2>2 DEF Each
  <2>4. Each(bs, BasicBlockFromJson)
          = [k \in 1..Len(v) |-> BasicBlockFromJson(BasicBlockToJson(v[k]))]
    BY <2>3 DEF Each
  <2> QED BY <2>1, <2>2, <2>4, BlockSaved
<1>6. Each(ns, NodeFromJson) = g.nodes
  <2>1. PICK v : v = g.nodes
    OBVIOUS
  <2>2. /\ v = [k \in 1..Len(v) |-> v[k]] /\ DOMAIN v = 1..Len(v)
        /\ \A k \in 1..Len(v) : WholeNode(v[k])
    BY <2>1, VectorDomain DEF WholeGraph
  <2>3. ns = [k \in 1..Len(v) |-> NodeToJson(v[k])]
    BY <1>1, <2>1, <2>2 DEF Each
  <2>4. Each(ns, NodeFromJson) = [k \in 1..Len(v) |-> NodeFromJson(NodeToJson(v[k]))]
    BY <2>3 DEF Each
  <2> QED BY <2>1, <2>2, <2>4, NodeSaved
<1>7. Each(es, EdgeFromJson) = g.edges
  <2>1. PICK v : v = g.edges
    OBVIOUS
  <2>2. /\ v = [k \in 1..Len(v) |-> v[k]] /\ DOMAIN v = 1..Len(v)
        /\ \A k \in 1..Len(v) : WholeEdge(v[k])
    BY <2>1, VectorDomain DEF WholeGraph
  <2>3. es = [k \in 1..Len(v) |-> EdgeToJson(v[k])]
    BY <1>1, <2>1, <2>2 DEF Each
  <2>4. Each(es, EdgeFromJson) = [k \in 1..Len(v) |-> EdgeFromJson(EdgeToJson(v[k]))]
    BY <2>3 DEF Each
  <2> QED BY <2>1, <2>2, <2>4, EdgeSaved
<1>8. Deserialize(j) = GraphOf(g.module_name, Add(<<>>, g.functions), Add(<<>>, g.basic_blocks),
                               Add(<<>>, g.nodes), Add(<<>>, g.edges))
  BY <1>3, <1>4, <1>5, <1>6, <1>7 DEF Deserialize
<1>9. Deserialize(j) = GraphOf(g.module_name, g.functions, g.basic_blocks, g.nodes, g.edges)
  BY <1>8, NothingBefore DEF WholeGraph
<1> QED BY <1>1, <1>9 DEF WholeGraph

(***************************************************************************)
(* The graph that has been built can be saved.                             *)
(***************************************************************************)
\* Of the elements in memory what the invariant of the build does not say.
KeptNode(n) ==
  /\ MadeFrom(n, NewNode)
  /\ Savable(n.opcode_name) /\ Savable(n.consumer) /\ Savable(n.operand_index)
KeptEdge(e) ==
  /\ MadeFrom(e, NewEdge)
  /\ Savable(e.label) /\ Savable(e.successor_index) /\ Savable(e.execution_count)

ElementsKept ==
  /\ \A k \in 1..Len(functions) :
       MadeFrom(functions[k], NewFunction) /\ Savable(functions[k].execution_count)
  /\ \A k \in 1..Len(basicBlocks) :
       MadeFrom(basicBlocks[k], NewBasicBlock) /\ Savable(basicBlocks[k].execution_count)
  /\ \A k \in 1..Len(nodes) : KeptNode(nodes[k])
  /\ \A k \in 1..Len(edges) : KeptEdge(edges[k])

\* Ids and texts can be saved.
LEMMA SavableFacts ==
  /\ Savable(None) /\ \A n \in Int : Savable(n)
  /\ \A m \in Modules : \A x \in Operands(m) : Savable(x)
  /\ \A m \in Modules : \A p \in Pointers(m) :
       /\ Savable(<<"opcode", Instr(m, p).op>>)
       /\ Savable(<<"instruction", p>>)
<1>1. Savable(None) /\ \A n \in Int : Savable(n)
  BY NullAssumption DEF Savable
<1>2. \A m \in Modules : \A x \in Operands(m) : Savable(x)
  BY FileAssumption DEF Savable
<1>3. ASSUME NEW m \in Modules, NEW p \in Pointers(m)
      PROVE  Savable(<<"opcode", Instr(m, p).op>>) /\ Savable(<<"instruction", p>>)
  <2>1. <<"instruction", p>> \in Operands(m)
    BY DEF Operands
  <2> QED BY <1>2, <2>1, FileAssumption DEF Savable
<1> QED BY <1>1, <1>2, <1>3

\* An edge between two nodes has nothing that cannot be saved.
LEMMA MadeEdge ==
  ASSUME NEW kind, NEW source, NEW target
  PROVE  KeptEdge(EdgeBetween(kind, source, target))
<1>1. Savable(None)
  BY SavableFacts
<1>2. PICK e : e = EdgeBetween(kind, source, target)
  OBVIOUS
<1>3. MadeFrom(e, NewEdge)
  BY <1>2 DEF EdgeBetween, Edge, Setting, MadeFrom
<1>4. e.label = None /\ e.successor_index = None /\ e.execution_count = None
  BY <1>2 DEF EdgeBetween, Edge, Setting, NewEdge
<1> QED BY <1>1, <1>2, <1>3, <1>4 DEF KeptEdge

\* The edges that addEdge puts behind the others can be saved if they could without an id.
LEMMA AddedKept ==
  ASSUME NEW new, IsVector(new), \A k \in 1..Len(new) : KeptEdge(new[k]),
         IsVector(edges), \A k \in 1..Len(edges) : KeptEdge(edges[k]), AddEdges(new)
  PROVE  \A k \in 1..Len(edges') : KeptEdge(edges'[k])
<1>1. PICK n, added : n = Len(edges)
                        /\ added = [k \in DOMAIN new |-> [new[k] EXCEPT !.id = n + k - 1]]
  OBVIOUS
<1>2. edges' = edges \o added
  BY <1>1 DEF AddEdges, Add
<1>3. Len(new) \in Nat /\ DOMAIN new = 1..Len(new)
  BY VectorDomain
<1>4. added = [k \in 1..Len(new) |-> added[k]]
  BY <1>1, <1>3
<1>5. IsVector(added) /\ Len(added) = Len(new)
  BY <1>3, <1>4, VectorIntro
<1>6. ASSUME NEW k \in 1..Len(added) PROVE KeptEdge(added[k])
  <2>1. PICK e, d, id : e = new[k] /\ d = added[k] /\ id = n + k - 1
    OBVIOUS
  <2>2. d = [e EXCEPT !.id = id] /\ KeptEdge(e)
    BY <1>1, <1>3, <1>5, <2>1
  <2>3. /\ MadeFrom(d, NewEdge) /\ d.label = e.label /\ d.successor_index = e.successor_index
        /\ d.execution_count = e.execution_count
    BY <2>2 DEF KeptEdge, MadeFrom, NewEdge
  <2> QED BY <2>1, <2>2, <2>3 DEF KeptEdge
<1>7. LET v == edges \o added IN
        \A k \in 1..Len(v) :
          k \in 1..Len(edges) \/ (k - Len(edges) \in 1..Len(added) /\ v[k] = added[k - Len(edges)])
  BY <1>5, Appending
<1>8. LET v == edges \o added IN \A k \in 1..Len(edges) : v[k] = edges[k]
  BY <1>5, Appending
<1> QED BY <1>2, <1>6, <1>7, <1>8

\* Setting an entry node adds no field.
LEMMA EntryNodeKept ==
  ASSUME NEW v, IsVector(v), NEW new, "entry_node" \in DOMAIN new,
         \A k \in 1..Len(v) : MadeFrom(v[k], new) /\ Savable(v[k].execution_count),
         "execution_count" \in DOMAIN new, NEW id, id + 1 \in 1..Len(v), NEW node,
         NEW w, w = WithEntryNode(v, id, node)
  PROVE  \A k \in 1..Len(w) : MadeFrom(w[k], new) /\ Savable(w[k].execution_count)
<1>1. CASE Element(v, id).entry_node = None
  <2>1. PICK j, old, x : j = id + 1 /\ old = v[j] /\ x = [old EXCEPT !.entry_node = node]
    OBVIOUS
  <2>2. w = [v EXCEPT ![j] = x]
    BY <1>1, <2>1 DEF WithEntryNode, Element
  <2>7. MadeFrom(old, new) /\ Savable(old.execution_count)
    BY <2>1
  <2>3. MadeFrom(x, new) /\ x.execution_count = old.execution_count
    BY <2>1, <2>7 DEF MadeFrom
  <2>4. DOMAIN v = 1..Len(v) /\ v = [k \in 1..Len(v) |-> v[k]] /\ Len(v) \in Nat
    BY VectorDomain
  <2>5. w = [k \in 1..Len(v) |-> w[k]] /\ \A k \in 1..Len(v) : w[k] = IF k = j THEN x ELSE v[k]
    BY <2>2, <2>4
  <2>6. Len(w) = Len(v)
    BY <2>4, <2>5, VectorIntro
  <2> QED BY <2>1, <2>3, <2>5, <2>6, <2>7
<1>2. CASE Element(v, id).entry_node # None
  BY <1>2 DEF WithEntryNode
<1> QED BY <1>1, <1>2

\* The elements of two vectors, one behind the other.
LEMMA EdgesBehindKept ==
  ASSUME NEW v, NEW w, IsVector(v), IsVector(w),
         \A k \in 1..Len(v) : KeptEdge(v[k]), \A k \in 1..Len(w) : KeptEdge(w[k])
  PROVE  IsVector(v \o w) /\ \A k \in 1..Len(v \o w) : KeptEdge((v \o w)[k])
<1>1. PICK r : r = v \o w
  OBVIOUS
<1>2. /\ IsVector(r)
      /\ \A k \in 1..Len(v) : r[k] = v[k]
      /\ \A k \in 1..Len(r) : k \in 1..Len(v) \/ (k - Len(v) \in 1..Len(w) /\ r[k] = w[k - Len(v)])
  BY <1>1, Appending
<1> QED BY <1>1, <1>2

\* What a pass fills in can be saved.
LEMMA FilledKept ==
  ASSUME NEW e, KeptEdge(e), NEW label, Savable(label), NEW index, Savable(index),
         NEW sf, NEW tf, NEW sb, NEW tb
  PROVE  /\ KeptEdge([e EXCEPT !.label = label])
         /\ KeptEdge([e EXCEPT !.source_function = sf, !.target_function = tf,
                               !.source_basic_block = sb, !.target_basic_block = tb])
         /\ KeptEdge([e EXCEPT !.source_function = sf, !.target_function = tf,
                               !.source_basic_block = sb, !.target_basic_block = tb,
                               !.successor_index = index])
         /\ KeptEdge([e EXCEPT !.label = label, !.source_function = sf, !.target_function = tf,
                               !.source_basic_block = sb, !.target_basic_block = tb])
<1>1. KeptEdge([e EXCEPT !.label = label])
  <2>1. PICK w : w = [e EXCEPT !.label = label]
    OBVIOUS
  <2>2. /\ MadeFrom(w, NewEdge) /\ w.label = label
        /\ w.successor_index = e.successor_index /\ w.execution_count = e.execution_count
    BY <2>1 DEF KeptEdge, MadeFrom, NewEdge
  <2> QED BY <2>1, <2>2 DEF KeptEdge
<1>2. KeptEdge([e EXCEPT !.source_function = sf, !.target_function = tf,
                         !.source_basic_block = sb, !.target_basic_block = tb])
  <2>1. PICK w : w = [e EXCEPT !.source_function = sf, !.target_function = tf,
                               !.source_basic_block = sb, !.target_basic_block = tb]
    OBVIOUS
  <2>2. /\ MadeFrom(w, NewEdge) /\ w.label = e.label
        /\ w.successor_index = e.successor_index /\ w.execution_count = e.execution_count
    BY <2>1 DEF KeptEdge, MadeFrom, NewEdge
  <2> QED BY <2>1, <2>2 DEF KeptEdge
<1>3. KeptEdge([e EXCEPT !.source_function = sf, !.target_function = tf,
                         !.source_basic_block = sb, !.target_basic_block = tb,
                         !.successor_index = index])
  <2>1. PICK w : w = [e EXCEPT !.source_function = sf, !.target_function = tf,
                               !.source_basic_block = sb, !.target_basic_block = tb,
                               !.successor_index = index]
    OBVIOUS
  <2>2. /\ MadeFrom(w, NewEdge) /\ w.label = e.label
        /\ w.successor_index = index /\ w.execution_count = e.execution_count
    BY <2>1 DEF KeptEdge, MadeFrom, NewEdge
  <2> QED BY <2>1, <2>2 DEF KeptEdge
<1>4. KeptEdge([e EXCEPT !.label = label, !.source_function = sf, !.target_function = tf,
                         !.source_basic_block = sb, !.target_basic_block = tb])
  <2>1. PICK w : w = [e EXCEPT !.label = label, !.source_function = sf, !.target_function = tf,
                               !.source_basic_block = sb, !.target_basic_block = tb]
    OBVIOUS
  <2>2. /\ MadeFrom(w, NewEdge) /\ w.label = label
        /\ w.successor_index = e.successor_index /\ w.execution_count = e.execution_count
    BY <2>1 DEF KeptEdge, MadeFrom, NewEdge
  <2> QED BY <2>1, <2>2 DEF KeptEdge
<1> QED BY <1>1, <1>2, <1>3, <1>4

\* A text of an operand can be saved, and so can its slot.
LEMMA SlotSaved ==
  ASSUME NEW x, Savable(x)
  PROVE  Savable(SlotLabel(x))
BY SavableFacts DEF SlotLabel

\* registerInstrUsersDataFlowEdges: the label is the slot of the value.
LEMMA UserEdgesKept ==
  ASSUME IInv, phase = "data_flow", NEW p \in Pointers(module)
  PROVE  \A k \in 1..Len(UserEdges(p)) : KeptEdge(UserEdges(p)[k])
<1>1. WellFormed(module) /\ module \in Modules
  BY Known DEF IInv, Control
<1>2. PICK uses : uses = UseList(module, p) /\ IsVector(uses)
  BY <1>1, UseListType
<1>3. PICK label : label = SlotLabel(<<"instruction", p>>)
  OBVIOUS
<1>4. Savable(label)
  BY <1>1, <1>3, SavableFacts, SlotSaved
<1>5. DOMAIN uses = 1..Len(uses) /\ Len(uses) \in Nat
  BY <1>2, VectorDomain
<1>6. PICK es : es = UserEdges(p)
  OBVIOUS
<1>7. es = [k \in 1..Len(uses) |->
              [EdgeBetween("data_flow", instructionNodeIds[p], instructionNodeIds[uses[k][1]])
                 EXCEPT !.label = label]]
  BY <1>2, <1>3, <1>5, <1>6 DEF UserEdges
<1>8. es = [k \in 1..Len(uses) |-> es[k]]
  BY <1>7
<1>9. Len(es) = Len(uses)
  BY <1>5, <1>8, VectorIntro
<1>10. ASSUME NEW k \in 1..Len(uses) PROVE KeptEdge(es[k])
  <2>1. PICK e : e = EdgeBetween("data_flow", instructionNodeIds[p], instructionNodeIds[uses[k][1]])
    OBVIOUS
  <2>2. KeptEdge(e)
    BY <2>1, MadeEdge
  <2>3. es[k] = [e EXCEPT !.label = label]
    BY <1>7, <2>1
  <2>4. Savable(None)
    BY SavableFacts
  <2>5. KeptEdge([e EXCEPT !.label = label])
    BY <1>4, <2>2, <2>4, FilledKept
  <2> QED BY <2>3, <2>5
<1> QED BY <1>6, <1>9, <1>10

\* registerCallEdge.
LEMMA CallEdgesKept ==
  ASSUME NEW p
  PROVE  \A k \in 1..Len(RegisterCallEdge(p)) : KeptEdge(RegisterCallEdge(p)[k])
<1>1. PICK e : e = CallEdge(p)
  OBVIOUS
<1>2. PICK from : from = Element(functions, functionIds[Instr(module, p).callee])
  OBVIOUS
<1>3. PICK between : between = EdgeBetween("call", instructionNodeIds[p], from.entry_node)
  OBVIOUS
<1>4. KeptEdge(between) /\ Savable(None)
  BY <1>3, MadeEdge, SavableFacts
<1>5. e = [between EXCEPT !.source_function = functionIds[module.function_of[p[1]]],
                          !.target_function = from.id,
                          !.source_basic_block = basicBlockIds[p[1]],
                          !.target_basic_block = from.entry_basic_block]
  BY <1>1, <1>2, <1>3 DEF CallEdge
<1>6. KeptEdge(e)
  BY <1>4, <1>5, FilledKept
<1>7. RegisterCallEdge(p) = <<e>> \/ RegisterCallEdge(p) = <<>>
  BY <1>1 DEF RegisterCallEdge
<1> QED BY <1>6, <1>7

\* registerPhiNodeOperandsDataFlowEdges: there is an operand for every incoming block.
LEMMA PhiEdgesKept ==
  ASSUME IInv, phase = "data_flow", NEW p \in Pointers(module), Instr(module, p).op = "phi"
  PROVE  \A k \in 1..Len(PhiOperandEdges(p)) : KeptEdge(PhiOperandEdges(p)[k])
<1>1. WellFormed(module) /\ module \in Modules
  BY Known DEF IInv, Control
<1>2. PICK incoming, operands, f :
        /\ incoming = Instr(module, p).incoming /\ operands = Instr(module, p).operands
        /\ f = functionIds[module.function_of[p[1]]]
  OBVIOUS
<1>3. incoming \in Seq(Blocks(module)) /\ operands \in Seq(Operands(module))
  BY <1>1, <1>2, InstrType DEF Instructions
<1>4. Len(operands) = Len(incoming)
  <2>1. p[1] \in Blocks(module) /\ p[2] \in 1..Len(module.body[p[1]])
    BY PointerParts
  <2> QED BY <1>1, <1>2, <2>1 DEF WellFormed, Instr
<1>5. Len(incoming) \in Nat /\ DOMAIN incoming = 1..Len(incoming)
  BY <1>3
<1>6. ASSUME NEW k \in 1..Len(incoming) PROVE Savable(operands[k])
  BY <1>1, <1>3, <1>4, SavableFacts
<1>7. PICK es : es = PhiOperandEdges(p)
  OBVIOUS
<1>8. es = [k \in 1..Len(incoming) |->
              [EdgeBetween("data_flow", instructionNodeIds[Terminator(module, incoming[k])],
                           instructionNodeIds[p])
                 EXCEPT !.label = operands[k], !.source_function = f, !.target_function = f,
                        !.source_basic_block = basicBlockIds[incoming[k]],
                        !.target_basic_block = basicBlockIds[p[1]]]]
  BY <1>2, <1>5, <1>7 DEF PhiOperandEdges
<1>9. es = [k \in 1..Len(incoming) |-> es[k]]
  BY <1>8
<1>10. Len(es) = Len(incoming)
  BY <1>5, <1>9, VectorIntro
<1>11. ASSUME NEW k \in 1..Len(incoming) PROVE KeptEdge(es[k])
  <2>1. PICK e, label, sb, tb :
          /\ e = EdgeBetween("data_flow", instructionNodeIds[Terminator(module, incoming[k])],
                             instructionNodeIds[p])
          /\ label = operands[k] /\ sb = basicBlockIds[incoming[k]] /\ tb = basicBlockIds[p[1]]
    OBVIOUS
  <2>2. es[k] = [e EXCEPT !.label = label, !.source_function = f, !.target_function = f,
                          !.source_basic_block = sb, !.target_basic_block = tb]
    BY <1>8, <2>1
  <2>3. KeptEdge(e) /\ Savable(label) /\ Savable(None)
    BY <1>6, <2>1, MadeEdge, SavableFacts
  <2>4. KeptEdge([e EXCEPT !.label = label, !.source_function = f, !.target_function = f,
                           !.source_basic_block = sb, !.target_basic_block = tb])
    BY <2>3, FilledKept
  <2> QED BY <2>2, <2>4
<1> QED BY <1>7, <1>10, <1>11

\* An operand node and the edge from it.
LEMMA OperandKept ==
  ASSUME WellFormed(module), module \in Modules, NEW p \in Pointers(module), NEW id,
         NEW k \in DOMAIN Instr(module, p).operands, k \in Nat, instructionNodeIds[p] \in Nat
  PROVE  KeptNode(OperandNode(p, id, k)) /\ KeptEdge(OperandEdge(p, id, k))
<1>1. PICK operand : operand = Instr(module, p).operands[k]
  OBVIOUS
<1>2. operand \in Operands(module)
  <2>1. Instr(module, p).operands \in Seq(Operands(module))
    BY InstrType DEF Instructions
  <2> QED BY <1>1, <2>1
<1>3. Savable(operand) /\ Savable(instructionNodeIds[p]) /\ Savable(k - 1) /\ Savable(None)
  BY <1>2, SavableFacts
<1>4. PICK n : n = OperandNode(p, id, k)
  OBVIOUS
<1>5. MadeFrom(n, NewNode) /\ n.opcode_name = None /\ n.consumer = instructionNodeIds[p]
      /\ n.operand_index = k - 1
  BY <1>4 DEF OperandNode, Node, Setting, NewNode, MadeFrom
<1>6. KeptNode(n)
  BY <1>3, <1>5 DEF KeptNode
<1>7. PICK e, label : /\ e = EdgeBetween("data_flow", id, instructionNodeIds[p])
                      /\ label = SlotLabel(operand)
  OBVIOUS
<1>8. KeptEdge(e) /\ Savable(label)
  BY <1>3, <1>7, MadeEdge, SlotSaved
<1>9. OperandEdge(p, id, k) = [e EXCEPT !.label = label]
  BY <1>1, <1>7 DEF OperandEdge
<1>10. KeptEdge([e EXCEPT !.label = label])
  BY <1>3, <1>8, FilledKept
<1> QED BY <1>4, <1>6, <1>9, <1>10

\* registerFunctionsAndBasicBlocks, one function.
LEMMA BlocksStepKept ==
  ASSUME IInv, ElementsKept, RegisterFunctionsAndBasicBlocks
  PROVE  ElementsKept'
<1>1. /\ WellFormed(module) /\ IsVector(functions) /\ IsVector(basicBlocks)
  BY Known DEF IInv, FunctionsKnown, BlocksKnown
<1>2. PICK f, own, id, count, entry :
        /\ f = cursor + 1 /\ own = BlocksOf(module, f) /\ id = Len(functions)
        /\ count = Cardinality(own) /\ entry = (IF own = {} THEN None ELSE BlockIdAt(1))
  OBVIOUS
<1>3. count \in Nat
  <2>1. own \subseteq 1..Len(module.body) /\ Len(module.body) \in Nat
    BY <1>1, <1>2, BodyType DEF BlocksOf, Blocks
  <2>2. IsFiniteSet(own)
    <3>1. IsFiniteSet(1..Len(module.body))
      BY <2>1, FS_Interval
    <3> QED BY <2>1, <3>1, FS_Subset
  <2> QED BY <1>2, <2>2, FS_CardinalityType
<1>4. PICK new, fs, bs :
        /\ new = Function([id |-> id, name |-> <<"function", f>>, entry_basic_block |-> entry])
        /\ fs = <<new>>
        /\ bs = [k \in 1..count |-> BasicBlock(
                   [id |-> BlockIdAt(k), function |-> id,
                    label |-> <<"block", EntryBlock(module, f) + k - 1>>])]
  OBVIOUS
<1>5. functions' = functions \o fs /\ basicBlocks' = basicBlocks \o bs /\ UNCHANGED <<nodes, edges>>
  BY <1>2, <1>4 DEF RegisterFunctionsAndBasicBlocks, Add
<1>6. MadeFrom(new, NewFunction) /\ new.execution_count = None
  BY <1>4 DEF Function, Setting, NewFunction, MadeFrom
<1>7. IsVector(fs) /\ Len(fs) = 1 /\ fs[1] = new
  <2>1. fs = [k \in 1..1 |-> fs[k]] /\ fs[1] = new
    BY <1>4
  <2> QED BY <2>1, VectorIntro
<1>8. IsVector(bs) /\ Len(bs) = count
  <2>1. bs = [k \in 1..count |-> bs[k]]
    BY <1>4
  <2> QED BY <1>3, <2>1, VectorIntro
<1>9. ASSUME NEW k \in 1..count
      PROVE  MadeFrom(bs[k], NewBasicBlock) /\ bs[k].execution_count = None
  <2>1. PICK b, at, label : b = bs[k] /\ at = BlockIdAt(k)
                            /\ label = <<"block", EntryBlock(module, f) + k - 1>>
    OBVIOUS
  <2>2. b = BasicBlock([id |-> at, function |-> id, label |-> label])
    BY <1>4, <2>1
  <2>3. MadeFrom(b, NewBasicBlock) /\ b.execution_count = None
    BY <2>2 DEF BasicBlock, Setting, NewBasicBlock, MadeFrom
  <2> QED BY <2>1, <2>3
<1>10. Savable(None)
  BY SavableFacts
<1>11. ASSUME NEW k \in 1..Len(functions')
       PROVE  MadeFrom(functions'[k], NewFunction) /\ Savable(functions'[k].execution_count)
  <2>1. PICK r : r = functions \o fs
    OBVIOUS
  <2>2. /\ \A j \in 1..Len(functions) : r[j] = functions[j]
        /\ \A j \in 1..Len(r) : j \in 1..Len(functions)
                               \/ /\ j - Len(functions) \in 1..Len(fs)
                                  /\ r[j] = fs[j - Len(functions)]
    BY <1>1, <1>7, <2>1, Appending
  <2>3. CASE k \in 1..Len(functions)
    BY <1>5, <2>1, <2>2, <2>3 DEF ElementsKept
  <2>4. CASE k - Len(functions) \in 1..Len(fs) /\ r[k] = fs[k - Len(functions)]
    <3>1. r[k] = new
      BY <1>7, <2>4
    <3> QED BY <1>5, <1>6, <1>10, <2>1, <3>1
  <2> QED BY <1>5, <2>1, <2>2, <2>3, <2>4
<1>12. ASSUME NEW k \in 1..Len(basicBlocks')
       PROVE  MadeFrom(basicBlocks'[k], NewBasicBlock) /\ Savable(basicBlocks'[k].execution_count)
  <2>1. PICK r : r = basicBlocks \o bs
    OBVIOUS
  <2>2. /\ \A j \in 1..Len(basicBlocks) : r[j] = basicBlocks[j]
        /\ \A j \in 1..Len(r) : j \in 1..Len(basicBlocks)
                               \/ /\ j - Len(basicBlocks) \in 1..Len(bs)
                                  /\ r[j] = bs[j - Len(basicBlocks)]
    BY <1>1, <1>8, <2>1, Appending
  <2>3. CASE k \in 1..Len(basicBlocks)
    BY <1>5, <2>1, <2>2, <2>3 DEF ElementsKept
  <2>4. CASE k - Len(basicBlocks) \in 1..Len(bs) /\ r[k] = bs[k - Len(basicBlocks)]
    BY <1>5, <1>8, <1>9, <1>10, <2>1, <2>4
  <2> QED BY <1>5, <2>1, <2>2, <2>3, <2>4
<1> QED BY <1>5, <1>11, <1>12 DEF ElementsKept

\* registerInstructionNodes, one block.
LEMMA NodesStepKept ==
  ASSUME IInv, ElementsKept, RegisterInstructionNodes
  PROVE  ElementsKept'
<1>1. /\ WellFormed(module) /\ module \in Modules /\ IsVector(functions) /\ IsVector(basicBlocks)
      /\ IsVector(nodes) /\ cursor \in Nat /\ Len(module.body) \in Nat
      /\ phase = "nodes" /\ cursor < Len(module.body)
  BY Known DEF IInv, Control, FunctionsKnown, BlocksKnown, NodesKnown, RegisterInstructionNodes,
     Round, Rounds
<1>2. PICK b, body, f, fid, bid, count :
        /\ b = cursor + 1 /\ body = module.body[b] /\ f = module.function_of[b]
        /\ fid = functionIds[f] /\ bid = basicBlockIds[b] /\ count = Len(nodes)
  OBVIOUS
<1>3. /\ b \in Blocks(module) /\ body \in Seq(Instructions(module))
      /\ f \in Functions(module)
  <2>1. b \in Blocks(module)
    BY <1>1, <1>2 DEF Blocks
  <2> QED BY <1>1, <1>2, <2>1, BodyType
<1>4. fid = f - 1 /\ fid + 1 \in 1..Len(functions) /\ bid = b - 1 /\ bid + 1 \in 1..Len(basicBlocks)
  <2>1. Len(functions) = module.functions /\ \A g \in 1..Len(functions) : functionIds[g] = g - 1
    BY <1>1 DEF IInv, FunctionsKnown
  <2>2. f \in 1..module.functions /\ module.functions \in Nat
    BY <1>1, <1>3, Known DEF Functions
  <2>3. b \in 1..Len(module.body) /\ b <= Len(basicBlocks)
    BY <1>1, <1>3 DEF IInv, BlocksKnown, Blocks
  <2>4. b \in 1..Len(basicBlocks) /\ \A c \in 1..Len(basicBlocks) : basicBlockIds[c] = c - 1
    BY <1>1, <2>3, Known DEF IInv, BlocksKnown
  <2> QED BY <1>1, <1>2, <2>1, <2>2, <2>3, <2>4
<1>5. PICK new, fs, bs :
        /\ new = [k \in DOMAIN body |-> Node(
                   [id |-> count + k - 1, function |-> fid, basic_block |-> bid,
                    label |-> <<"opcode", body[k].op>>, opcode_name |-> <<"opcode", body[k].op>>])]
        /\ fs = WithEntryNode(functions, fid, count) /\ bs = WithEntryNode(basicBlocks, bid, count)
  OBVIOUS
<1>6. nodes' = nodes \o new /\ functions' = fs /\ basicBlocks' = bs /\ edges' = edges
  BY <1>2, <1>5 DEF RegisterInstructionNodes, Add, SetEntryNode
<1>7. \A k \in 1..Len(fs) : MadeFrom(fs[k], NewFunction) /\ Savable(fs[k].execution_count)
  <2>2. "entry_node" \in DOMAIN NewFunction /\ "execution_count" \in DOMAIN NewFunction
    BY DEF NewFunction
  <2>3. \A k \in 1..Len(functions) : MadeFrom(functions[k], NewFunction)
                                     /\ Savable(functions[k].execution_count)
    BY DEF ElementsKept
  <2> QED BY <1>1, <1>4, <1>5, <2>2, <2>3, EntryNodeKept
<1>8. \A k \in 1..Len(bs) : MadeFrom(bs[k], NewBasicBlock) /\ Savable(bs[k].execution_count)
  <2>2. "entry_node" \in DOMAIN NewBasicBlock /\ "execution_count" \in DOMAIN NewBasicBlock
    BY DEF NewBasicBlock
  <2>3. \A k \in 1..Len(basicBlocks) : MadeFrom(basicBlocks[k], NewBasicBlock)
                                     /\ Savable(basicBlocks[k].execution_count)
    BY DEF ElementsKept
  <2> QED BY <1>1, <1>4, <1>5, <2>2, <2>3, EntryNodeKept
<1>9. DOMAIN body = 1..Len(body) /\ Len(body) \in Nat
  BY <1>3
<1>10. IsVector(new) /\ Len(new) = Len(body)
  <2>1. new = [k \in 1..Len(body) |-> new[k]]
    BY <1>5, <1>9
  <2> QED BY <1>9, <2>1, VectorIntro
<1>11. ASSUME NEW k \in 1..Len(new) PROVE KeptNode(new[k])
  <2>1. PICK n, text, id : n = new[k] /\ text = <<"opcode", body[k].op>> /\ id = count + k - 1
    OBVIOUS
  <2>2. n = Node([id |-> id, function |-> fid, basic_block |-> bid, label |-> text,
                  opcode_name |-> text])
    BY <1>5, <1>9, <1>10, <2>1
  <2>3. MadeFrom(n, NewNode) /\ n.opcode_name = text /\ n.consumer = None /\ n.operand_index = None
    BY <2>2 DEF Node, Setting, NewNode, MadeFrom
  <2>4. Savable(text)
    <3>1. k \in 1..Len(module.body[b])
      BY <1>2, <1>10
    <3>2. <<b, k>> \in Pointers(module)
      BY <1>3, <3>1, PointerParts
    <3>3. Instr(module, <<b, k>>) = body[k]
      BY <1>2 DEF Instr
    <3> QED BY <1>1, <2>1, <3>2, <3>3, SavableFacts
  <2> QED BY <2>1, <2>3, <2>4, SavableFacts DEF KeptNode
<1>12. ASSUME NEW k \in 1..Len(nodes') PROVE KeptNode(nodes'[k])
  <2>1. PICK r : r = nodes \o new
    OBVIOUS
  <2>2. /\ \A j \in 1..Len(nodes) : r[j] = nodes[j]
        /\ \A j \in 1..Len(r) : j \in 1..Len(nodes)
                               \/ (j - Len(nodes) \in 1..Len(new) /\ r[j] = new[j - Len(nodes)])
    BY <1>1, <1>10, <2>1, Appending
  <2> QED BY <1>6, <1>11, <2>1, <2>2 DEF ElementsKept
<1> QED BY <1>6, <1>7, <1>8, <1>12 DEF ElementsKept

\* registerInstructionSequenceEdges, one block.
LEMMA SequenceStepKept ==
  ASSUME IInv, ElementsKept, RegisterInstructionSequenceEdges
  PROVE  ElementsKept'
<1>1. WellFormed(module) /\ IsVector(edges) /\ cursor \in Nat /\ Len(module.body) \in Nat
      /\ cursor < Len(module.body)
  BY Known DEF IInv, EdgesKnown, RegisterInstructionSequenceEdges, Round, Rounds
<1>2. PICK b, size : b = cursor + 1 /\ size = Len(module.body[b]) - 1
  OBVIOUS
<1>3. size \in Nat
  <2>1. b \in Blocks(module)
    BY <1>1, <1>2 DEF Blocks
  <2>2. Len(module.body[b]) \in Nat \ {0}
    BY <1>1, <2>1, BodyType
  <2> QED BY <1>2, <2>2
<1>4. PICK new :
        new = [k \in 1..size |-> EdgeBetween("instruction_sequence", instructionNodeIds[<<b, k>>],
                                             instructionNodeIds[<<b, k + 1>>])]
  OBVIOUS
<1>5. AddEdges(new) /\ UNCHANGED <<functions, basicBlocks, nodes>>
  BY <1>2, <1>4 DEF RegisterInstructionSequenceEdges
<1>6. IsVector(new) /\ Len(new) = size
  <2>1. new = [k \in 1..size |-> new[k]]
    BY <1>4
  <2> QED BY <1>3, <2>1, VectorIntro
<1>7. \A k \in 1..Len(new) : KeptEdge(new[k])
  BY <1>4, <1>6, MadeEdge
<1>8. \A k \in 1..Len(edges) : KeptEdge(edges[k])
  BY DEF ElementsKept
<1>9. \A k \in 1..Len(edges') : KeptEdge(edges'[k])
  BY <1>1, <1>5, <1>6, <1>7, <1>8, AddedKept
<1> QED BY <1>5, <1>9 DEF ElementsKept

\* registerControlFlowEdges, one block.
LEMMA ControlFlowStepKept ==
  ASSUME IInv, ElementsKept, RegisterControlFlowEdges
  PROVE  ElementsKept'
<1>1. WellFormed(module) /\ IsVector(edges) /\ cursor \in Nat /\ Len(module.body) \in Nat
      /\ cursor < Len(module.body)
  BY Known DEF IInv, EdgesKnown, RegisterControlFlowEdges, Round, Rounds
<1>2. PICK b, from, fid, bid :
        /\ b = cursor + 1 /\ from = IncomingBlocks(b)
        /\ fid = functionIds[module.function_of[b]] /\ bid = basicBlockIds[b]
  OBVIOUS
<1>3. b \in Blocks(module)
  BY <1>1, <1>2 DEF Blocks
<1>4. from \in Seq(Before(module, b))
  BY <1>1, <1>2, <1>3, IncomingType DEF IncomingBlocks
<1>5. DOMAIN from = 1..Len(from) /\ Len(from) \in Nat
  BY <1>4
<1>6. PICK new :
        new = [k \in DOMAIN from |->
                 [EdgeBetween("control_flow", instructionNodeIds[Terminator(module, from[k])],
                              instructionNodeIds[<<b, 1>>])
                    EXCEPT !.source_function = fid, !.target_function = fid,
                           !.source_basic_block = basicBlockIds[from[k]],
                           !.target_basic_block = bid,
                           !.successor_index = FindSuccessorIndex(from[k], b)]]
  OBVIOUS
<1>7. AddEdges(new) /\ UNCHANGED <<functions, basicBlocks, nodes>>
  BY <1>2, <1>6 DEF RegisterControlFlowEdges
<1>8. IsVector(new) /\ Len(new) = Len(from)
  <2>1. new = [k \in 1..Len(from) |-> new[k]]
    BY <1>5, <1>6
  <2> QED BY <1>5, <2>1, VectorIntro
<1>9. ASSUME NEW k \in 1..Len(new) PROVE KeptEdge(new[k])
  <2>1. PICK s, e, sb, index :
          /\ s = from[k] /\ sb = basicBlockIds[s] /\ index = FindSuccessorIndex(s, b)
          /\ e = EdgeBetween("control_flow", instructionNodeIds[Terminator(module, s)],
                             instructionNodeIds[<<b, 1>>])
    OBVIOUS
  <2>2. new[k] = [e EXCEPT !.source_function = fid, !.target_function = fid,
                           !.source_basic_block = sb, !.target_basic_block = bid,
                           !.successor_index = index]
    BY <1>5, <1>6, <1>8, <2>1
  <2>3. s \in Before(module, b)
    BY <1>4, <1>8, <2>1
  <2>4. index \in Int
    BY <1>1, <2>1, <2>3, FirstSlotIsFirst DEF FirstSlot, FindSuccessorIndex
  <2>5. KeptEdge(e) /\ Savable(index) /\ Savable(None)
    BY <2>1, <2>4, MadeEdge, SavableFacts
  <2>6. KeptEdge([e EXCEPT !.source_function = fid, !.target_function = fid,
                           !.source_basic_block = sb, !.target_basic_block = bid,
                           !.successor_index = index])
    BY <2>5, FilledKept
  <2> QED BY <2>2, <2>6
<1>10. \A k \in 1..Len(edges) : KeptEdge(edges[k])
  BY DEF ElementsKept
<1>11. \A k \in 1..Len(edges') : KeptEdge(edges'[k])
  BY <1>1, <1>7, <1>8, <1>9, <1>10, AddedKept
<1> QED BY <1>7, <1>11 DEF ElementsKept

\* registerDataFlowAndCallEdges, one instruction.
LEMMA DataFlowStepKept ==
  ASSUME IInv, ElementsKept, RegisterDataFlowAndCallEdges
  PROVE  ElementsKept'
<1>1. /\ WellFormed(module) /\ module \in Modules /\ IsVector(edges) /\ IsVector(nodes)
      /\ cursor \in Nat /\ phase = "data_flow" /\ cursor < Len(Layout(module))
  BY Known DEF IInv, Control, NodesKnown, EdgesKnown, RegisterDataFlowAndCallEdges, Round, Rounds
<1>2. PICK p, us, cs, first : /\ p = Layout(module)[cursor + 1] /\ us = UserEdges(p)
                             /\ cs = RegisterCallEdge(p) /\ first = us \o cs
  OBVIOUS
<1>3. p \in Pointers(module)
  <2>1. Layout(module) \in Seq(Pointers(module))
    BY <1>1, LayoutType
  <2>2. cursor + 1 \in 1..Len(Layout(module))
    BY <1>1, <2>1
  <2> QED BY <1>2, <2>1, <2>2
<1>4. IsVector(us) /\ IsVector(cs)
  BY <1>1, <1>2, <1>3, UserEdgesFit, CallEdgeFits DEF FittingEdges
<1>5. IsVector(first) /\ \A k \in 1..Len(first) : KeptEdge(first[k])
  <2>1. \A k \in 1..Len(us) : KeptEdge(us[k])
    BY <1>1, <1>2, <1>3, UserEdgesKept
  <2>2. \A k \in 1..Len(cs) : KeptEdge(cs[k])
    BY <1>2, CallEdgesKept
  <2> QED BY <1>2, <1>4, <2>1, <2>2, EdgesBehindKept
<1>6. \A k \in 1..Len(edges) : KeptEdge(edges[k])
  BY DEF ElementsKept
<1>7. PICK ops, count : ops = OperandsWithNode(p) /\ count = Len(nodes)
  OBVIOUS
<1>8. PICK newNodes, newEdges :
        /\ newNodes = [k \in DOMAIN ops |-> OperandNode(p, count + k - 1, ops[k])]
        /\ newEdges = [k \in DOMAIN ops |-> OperandEdge(p, count + k - 1, ops[k])]
  OBVIOUS
<1>9. /\ UNCHANGED <<functions, basicBlocks>>
      /\ IF Instr(module, p).op = "phi"
         THEN AddEdges(first \o PhiOperandEdges(p)) /\ UNCHANGED nodes
         ELSE nodes' = nodes \o newNodes /\ AddEdges(first \o newEdges)
  BY <1>2, <1>7, <1>8 DEF RegisterDataFlowAndCallEdges, Add
<1>10. CASE Instr(module, p).op = "phi"
  <2>1. PICK rest, new : rest = PhiOperandEdges(p) /\ new = first \o rest
    OBVIOUS
  <2>2. IsVector(rest)
    BY <1>1, <1>3, <1>10, <2>1, PhiOperandEdgesFit DEF FittingEdges
  <2>3. \A k \in 1..Len(rest) : KeptEdge(rest[k])
    BY <1>1, <1>3, <1>10, <2>1, PhiEdgesKept
  <2>4. IsVector(new) /\ \A k \in 1..Len(new) : KeptEdge(new[k])
    BY <1>5, <2>1, <2>2, <2>3, EdgesBehindKept
  <2>5. AddEdges(new) /\ UNCHANGED nodes
    BY <1>9, <1>10, <2>1
  <2>6. \A k \in 1..Len(edges') : KeptEdge(edges'[k])
    BY <1>1, <1>6, <2>4, <2>5, AddedKept
  <2> QED BY <1>9, <2>5, <2>6 DEF ElementsKept
<1>11. CASE Instr(module, p).op # "phi"
  <2>1. ops \in Seq(ShownOperands(p))
    BY <1>1, <1>3, <1>7, <1>11, OperandsShown
  <2>2. DOMAIN ops = 1..Len(ops) /\ Len(ops) \in Nat
    BY <2>1
  <2>3. ASSUME NEW k \in 1..Len(ops)
        PROVE  ops[k] \in DOMAIN Instr(module, p).operands /\ ops[k] \in Nat
    <3>1. ops[k] \in ShownOperands(p)
      BY <2>1
    <3>2. Instr(module, p).operands \in Seq(Operands(module))
      BY <1>1, <1>3, InstrType DEF Instructions
    <3> QED BY <3>1, <3>2 DEF ShownOperands
  <2>4. instructionNodeIds[p] \in Nat
    <3>1. instructionNodeIds[p] \in IdsIn(nodes)
      BY <1>1, <1>3, AfterNodes
    <3> QED BY <3>1 DEF IdsIn
  <2>5. ASSUME NEW k \in 1..Len(ops) PROVE KeptNode(newNodes[k]) /\ KeptEdge(newEdges[k])
    <3>1. PICK x, id : x = ops[k] /\ id = count + k - 1
      OBVIOUS
    <3>2. newNodes[k] = OperandNode(p, id, x) /\ newEdges[k] = OperandEdge(p, id, x)
      BY <1>8, <2>2, <3>1
    <3>3. KeptNode(OperandNode(p, id, x)) /\ KeptEdge(OperandEdge(p, id, x))
      BY <1>1, <1>3, <2>3, <2>4, <3>1, OperandKept
    <3> QED BY <3>2, <3>3
  <2>6. /\ IsVector(newNodes) /\ Len(newNodes) = Len(ops)
        /\ IsVector(newEdges) /\ Len(newEdges) = Len(ops)
    <3>1. /\ newNodes = [k \in 1..Len(ops) |-> newNodes[k]]
          /\ newEdges = [k \in 1..Len(ops) |-> newEdges[k]]
      BY <1>8, <2>2
    <3> QED BY <2>2, <3>1, VectorIntro
  <2>7. PICK new : new = first \o newEdges
    OBVIOUS
  <2>8. IsVector(new) /\ \A k \in 1..Len(new) : KeptEdge(new[k])
    BY <1>5, <2>5, <2>6, <2>7, EdgesBehindKept
  <2>9. AddEdges(new) /\ nodes' = nodes \o newNodes
    BY <1>9, <1>11, <2>7
  <2>10. \A k \in 1..Len(edges') : KeptEdge(edges'[k])
    BY <1>1, <1>6, <2>8, <2>9, AddedKept
  <2>11. ASSUME NEW k \in 1..Len(nodes') PROVE KeptNode(nodes'[k])
    <3>1. PICK r : r = nodes \o newNodes
      OBVIOUS
    <3>2. /\ \A j \in 1..Len(nodes) : r[j] = nodes[j]
          /\ \A j \in 1..Len(r) : j \in 1..Len(nodes)
               \/ (j - Len(nodes) \in 1..Len(newNodes) /\ r[j] = newNodes[j - Len(nodes)])
      BY <1>1, <2>6, <3>1, Appending
    <3> QED BY <2>5, <2>6, <2>9, <3>1, <3>2 DEF ElementsKept
  <2> QED BY <1>9, <2>10, <2>11 DEF ElementsKept
<1> QED BY <1>10, <1>11

\* Every step of the build keeps what can be saved.
LEMMA NextKept ==
  ASSUME IInv, ElementsKept, [BuilderNext]_builderVars
  PROVE  ElementsKept'
<1>1. CASE PopulateBuildInfo \/ EndOfPhase \/ UNCHANGED builderVars
  <2>1. UNCHANGED <<functions, basicBlocks, nodes, edges>>
    BY <1>1 DEF PopulateBuildInfo, EndOfPhase, builderVars, graphVars
  <2> QED BY <2>1 DEF ElementsKept
<1> QED BY <1>1, BlocksStepKept, NodesStepKept, SequenceStepKept, ControlFlowStepKept,
           DataFlowStepKept DEF BuilderNext

\* The vectors hold nothing that a file would not give back.
GraphWhole == WholeGraph(ModuleGraph)

\* With what the invariant of the build says of ids nothing is missing.
LEMMA WholeWhenKept ==
  ASSUME IInv, ElementsKept
  PROVE  GraphWhole
<1>1. /\ DOMAIN functions = 1..Len(functions) /\ DOMAIN basicBlocks = 1..Len(basicBlocks)
      /\ DOMAIN nodes = 1..Len(nodes) /\ DOMAIN edges = 1..Len(edges)
      /\ IsVector(functions) /\ IsVector(basicBlocks) /\ IsVector(nodes) /\ IsVector(edges)
      /\ Len(nodes) \in Nat /\ WellFormed(module)
  BY Known DEF IInv, FunctionsKnown, BlocksKnown, NodesKnown, EdgesKnown
<1>2. BuilderTypeOK
  BY BuildIsTyped
<1>3. Savable(None) /\ \A n \in Int : Savable(n)
  BY SavableFacts
<1>4. \A v : \A n \in IdsIn(v) \cup {None} : Savable(n)
  BY <1>3 DEF IdsIn
<1>5. ASSUME NEW k \in 1..Len(functions) PROVE WholeFunction(functions[k])
  <2>1. PICK f : f = functions[k]
    OBVIOUS
  <2>2. MadeFrom(f, NewFunction) /\ Savable(f.execution_count)
    BY <2>1 DEF ElementsKept
  <2>3. /\ f.entry_basic_block \in IdsIn(basicBlocks) \cup {None}
        /\ f.entry_node \in IdsIn(nodes) \cup {None}
    BY <1>1, <1>2, <2>1 DEF BuilderTypeOK
  <2>4. Savable(f.entry_basic_block) /\ Savable(f.entry_node)
    BY <1>4, <2>3
  <2> QED BY <2>1, <2>2, <2>4 DEF WholeFunction, FunctionOptionals
<1>6. ASSUME NEW k \in 1..Len(basicBlocks) PROVE WholeBlock(basicBlocks[k])
  <2>1. PICK b : b = basicBlocks[k]
    OBVIOUS
  <2>2. MadeFrom(b, NewBasicBlock) /\ Savable(b.execution_count)
    BY <2>1 DEF ElementsKept
  <2>3. b.entry_node \in IdsIn(nodes) \cup {None}
    BY <1>1, <1>2, <2>1 DEF BuilderTypeOK
  <2>4. Savable(b.entry_node)
    BY <1>4, <2>3
  <2> QED BY <2>1, <2>2, <2>4 DEF WholeBlock, BlockOptionals
<1>7. ASSUME NEW k \in 1..Len(nodes)
      PROVE  /\ WholeNode(nodes[k])
             /\ nodes[k].basic_block \in Int /\ nodes[k].function \in Int
  <2>1. PICK n : n = nodes[k]
    OBVIOUS
  <2>2. KeptNode(n)
    BY <2>1 DEF ElementsKept
  <2>3. PICK b \in 1..Len(basicBlocks) : InBlock(n, b) /\ n.kind \in {"instruction", "operand"}
    BY <2>1 DEF IInv, NodesKnown
  <2>4. b \in Nat /\ b <= Len(module.body) /\ Len(basicBlocks) <= Len(module.body)
        /\ Len(module.body) \in Nat /\ b \in 1..Len(module.body)
    <3>1. /\ Len(basicBlocks) <= Len(module.body)
          /\ Len(basicBlocks) \in Nat /\ Len(module.body) \in Nat
      BY Known DEF IInv, BlocksKnown
    <3> QED BY <3>1
  <2>5. module.function_of[b] \in 1..module.functions /\ module.functions \in Nat
    <3>1. b \in Blocks(module)
      BY <2>4 DEF Blocks
    <3> QED BY <1>1, <3>1, BodyType DEF Functions
  <2>6. n.basic_block \in Int /\ n.function \in Int
    BY <2>3, <2>4, <2>5 DEF InBlock
  <2>7. Savable(n.basic_block) /\ Savable(n.function)
    BY <1>3, <2>6
  <2> QED BY <2>1, <2>2, <2>3, <2>6, <2>7 DEF WholeNode, NodeOptionals, KeptNode
<1>8. ASSUME NEW k \in 1..Len(edges) PROVE WholeEdge(edges[k])
  <2>1. PICK e : e = edges[k]
    OBVIOUS
  <2>2. KeptEdge(e)
    BY <2>1 DEF ElementsKept
  <2>3. Fits(e, nodes)
    BY <2>1 DEF IInv, EdgesKnown
  <2>4. e.source_node + 1 \in 1..Len(nodes) /\ e.target_node + 1 \in 1..Len(nodes)
    <3>1. e.source_node \in 0..(Len(nodes) - 1) /\ e.target_node \in 0..(Len(nodes) - 1)
      BY <2>3 DEF Fits, IdsIn
    <3> QED BY <1>1, <3>1
  <2>5. PICK s, t : s = nodes[e.source_node + 1] /\ t = nodes[e.target_node + 1]
    OBVIOUS
  <2>6. s.basic_block \in Int /\ s.function \in Int /\ t.basic_block \in Int /\ t.function \in Int
    BY <1>7, <2>4, <2>5
  <2>7. /\ e.kind \in {"instruction_sequence", "control_flow", "data_flow", "call"}
        /\ e.source_basic_block \in {None, s.basic_block}
        /\ e.target_basic_block \in {None, t.basic_block}
        /\ e.source_function \in {None, s.function} /\ e.target_function \in {None, t.function}
    BY <2>3, <2>5 DEF Fits
  <2>8. /\ Savable(e.source_basic_block) /\ Savable(e.target_basic_block)
        /\ Savable(e.source_function) /\ Savable(e.target_function)
    BY <1>3, <2>6, <2>7
  <2>9. MadeFrom(e, NewEdge) /\ Savable(e.label) /\ Savable(e.successor_index)
        /\ Savable(e.execution_count)
    BY <2>2 DEF KeptEdge
  <2>10. \A key \in EdgeOptionals : Savable(e[key])
    BY <2>8, <2>9 DEF EdgeOptionals
  <2> QED BY <2>1, <2>7, <2>9, <2>10 DEF WholeEdge
<1>9. PICK g : g = ModuleGraph
  OBVIOUS
<1>10. /\ g.functions = functions /\ g.basic_blocks = basicBlocks /\ g.nodes = nodes
       /\ g.edges = edges
       /\ g = GraphOf(g.module_name, g.functions, g.basic_blocks, g.nodes, g.edges)
  BY <1>9 DEF ModuleGraph, GraphOf
<1> QED BY <1>1, <1>5, <1>6, <1>7, <1>8, <1>9, <1>10 DEF WholeGraph, GraphWhole

\* The empty graph.
LEMMA KeptAtFirst ==
  ASSUME RunInit
  PROVE  ElementsKept
<1>1. functions = <<>> /\ basicBlocks = <<>> /\ nodes = <<>> /\ edges = <<>>
  BY DEF RunInit, InjectInit, Init
<1>2. Len(<<>>) = 0 /\ 1..0 = {}
  OBVIOUS
<1> QED BY <1>1, <1>2 DEF ElementsKept

\* InjectPass only reads the graph.
LEMMA KeptNext ==
  ASSUME InjectInv, ElementsKept, GraphWhole, [InjectNext]_<<builderVars, injectVars>>
  PROVE  ElementsKept' /\ GraphWhole'
<1>1. CASE Build
  <2>1. BuilderNext
    BY <1>1 DEF Build
  <2>2. phase \in DOMAIN NextPhase
    BY <2>1 DEF BuilderNext, RegisterFunctionsAndBasicBlocks, RegisterInstructionNodes,
       RegisterInstructionSequenceEdges, RegisterControlFlowEdges, RegisterDataFlowAndCallEdges,
       PopulateBuildInfo, EndOfPhase, Round, NextPhase
  <2>3. IInv
    BY <2>2 DEF InjectInv, Stages, Early
  <2>4. IInv' /\ ElementsKept'
    BY <2>1, <2>3, NextStep, NextKept
  <2> QED BY <2>4, WholeWhenKept, PTL
<1>2. CASE ~ Build
  <2>1. UNCHANGED graphVars
    BY <1>2 DEF InjectNext, InjectEntryLogs, AbortInjection, InjectCallEdgeLogs,
       CollectOriginalCfgEdges, InjectControlFlowEdgeLog, EndOfInjection, InjectStage, builderVars
  <2>2. UNCHANGED <<functions, basicBlocks, nodes, edges>>
    BY <2>1 DEF graphVars
  <2>3. ElementsKept'
    BY <2>2 DEF ElementsKept
  <2>4. ModuleGraph' = ModuleGraph
    BY <2>2 DEF ModuleGraph
  <2>5. GraphWhole'
    BY <2>4 DEF GraphWhole
  <2> QED BY <2>3, <2>5
<1> QED BY <1>1, <1>2

\* With the counts of a log it still is: a count is a number or missing.
LEMMA WholeWithCounts ==
  ASSUME NEW g, WholeGraph(g), NEW log, \A x : Hits(log, Len(log), x) \in Nat
  PROVE  WholeGraph(WithCounts(g, Merged(ProfiledPart(g), log)))
<1>1. PICK p, count : p = ProfiledPart(g) /\ count = Merged(p, log)
  OBVIOUS
<1>2. PICK fs, bs, es : fs = g.functions /\ bs = g.basic_blocks /\ es = g.edges
  OBVIOUS
<1>3. /\ Len(fs) \in Nat /\ DOMAIN fs = 1..Len(fs) /\ Len(bs) \in Nat /\ DOMAIN bs = 1..Len(bs)
      /\ Len(es) \in Nat /\ DOMAIN es = 1..Len(es)
  BY <1>2, VectorDomain DEF WholeGraph
<1>4. p.functions = Len(fs) /\ p.basic_blocks = Len(bs) /\ Len(p.edges) = Len(es)
  <2>1. p.edges = [k \in 1..Len(es) |-> es[k].kind]
    BY <1>1, <1>2, <1>3 DEF ProfiledPart, Each
  <2>2. p.edges = [k \in 1..Len(es) |-> p.edges[k]]
    BY <2>1
  <2> QED BY <1>1, <1>2, <1>3, <2>2, VectorIntro DEF ProfiledPart
<1>5. ASSUME NEW x \in Entities(p) PROVE Savable(count[x])
  <2>1. count[x]
           = IF Hits(log, Len(log), x) > 0 THEN Hits(log, Len(log), x) ELSE InitialCounts(p)[x]
    BY <1>1 DEF Merged
  <2>2. InitialCounts(p)[x] \in {NoCount, 0}
    BY DEF InitialCounts
  <2>3. count[x] \in Int \/ count[x] = None
    BY <2>1, <2>2, FileAssumption
  <2> QED BY <2>3, SavableFacts
<1>6. /\ \A k \in 1..Len(fs) : <<"function", k - 1>> \in Entities(p)
      /\ \A k \in 1..Len(bs) : <<"basic_block", k - 1>> \in Entities(p)
      /\ \A k \in 1..Len(es) : <<"edge", k - 1>> \in Entities(p)
  <2>1. ASSUME NEW n \in Nat, NEW k \in 1..n PROVE k - 1 \in 0..(n - 1)
    OBVIOUS
  <2> QED BY <1>3, <1>4, <2>1 DEF Entities
<1>7. PICK h, cfs, cbs, ces :
        /\ h = WithCounts(g, count)
        /\ cfs = [k \in 1..Len(fs) |->
                   [fs[k] EXCEPT !.execution_count = count[<<"function", k - 1>>]]]
        /\ cbs = [k \in 1..Len(bs) |->
                   [bs[k] EXCEPT !.execution_count = count[<<"basic_block", k - 1>>]]]
        /\ ces = [k \in 1..Len(es) |-> [es[k] EXCEPT !.execution_count = count[<<"edge", k - 1>>]]]
  OBVIOUS
<1>8. /\ h.module_name = g.module_name /\ h.functions = cfs /\ h.basic_blocks = cbs
      /\ h.nodes = g.nodes /\ h.edges = ces
      /\ h = GraphOf(g.module_name, cfs, cbs, g.nodes, ces)
  <2>1. g = GraphOf(g.module_name, fs, bs, g.nodes, es)
    BY <1>2 DEF WholeGraph
  <2>2. h = [g EXCEPT !.functions = cfs, !.basic_blocks = cbs, !.edges = ces]
    BY <1>2, <1>3, <1>7 DEF WithCounts
  <2>3. PICK name, ns : name = g.module_name /\ ns = g.nodes
    OBVIOUS
  <2>4. h = GraphOf(name, cfs, cbs, ns, ces)
    BY <2>1, <2>2, <2>3 DEF GraphOf
  <2> QED BY <2>3, <2>4 DEF GraphOf
<1>9. /\ IsVector(cfs) /\ Len(cfs) = Len(fs) /\ IsVector(cbs) /\ Len(cbs) = Len(bs)
      /\ IsVector(ces) /\ Len(ces) = Len(es)
  <2>1. /\ cfs = [k \in 1..Len(fs) |-> cfs[k]] /\ cbs = [k \in 1..Len(bs) |-> cbs[k]]
        /\ ces = [k \in 1..Len(es) |-> ces[k]]
    BY <1>7
  <2> QED BY <1>3, <2>1, VectorIntro
<1>10. ASSUME NEW k \in 1..Len(fs) PROVE WholeFunction(cfs[k])
  <2>1. PICK f, c, w : f = fs[k] /\ c = count[<<"function", k - 1>>] /\ w = cfs[k]
    OBVIOUS
  <2>2. WholeFunction(f) /\ Savable(c) /\ w = [f EXCEPT !.execution_count = c]
    BY <1>2, <1>5, <1>6, <1>7, <2>1 DEF WholeGraph
  <2>3. /\ MadeFrom(w, NewFunction) /\ w.entry_node = f.entry_node
        /\ w.entry_basic_block = f.entry_basic_block /\ w.execution_count = c
    BY <2>2 DEF WholeFunction, MadeFrom, NewFunction
  <2> QED BY <2>1, <2>2, <2>3 DEF WholeFunction, FunctionOptionals
<1>11. ASSUME NEW k \in 1..Len(bs) PROVE WholeBlock(cbs[k])
  <2>1. PICK b, c, w : b = bs[k] /\ c = count[<<"basic_block", k - 1>>] /\ w = cbs[k]
    OBVIOUS
  <2>2. WholeBlock(b) /\ Savable(c) /\ w = [b EXCEPT !.execution_count = c]
    BY <1>2, <1>5, <1>6, <1>7, <2>1 DEF WholeGraph
  <2>3. MadeFrom(w, NewBasicBlock) /\ w.entry_node = b.entry_node /\ w.execution_count = c
    BY <2>2 DEF WholeBlock, MadeFrom, NewBasicBlock
  <2> QED BY <2>1, <2>2, <2>3 DEF WholeBlock, BlockOptionals
<1>12. ASSUME NEW k \in 1..Len(es) PROVE WholeEdge(ces[k])
  <2>1. PICK e, c, w : e = es[k] /\ c = count[<<"edge", k - 1>>] /\ w = ces[k]
    OBVIOUS
  <2>2. WholeEdge(e) /\ Savable(c) /\ w = [e EXCEPT !.execution_count = c]
    BY <1>2, <1>5, <1>6, <1>7, <2>1 DEF WholeGraph
  <2>3. MadeFrom(w, NewEdge)
    BY <2>2 DEF WholeEdge, MadeFrom, NewEdge
  <2>4. /\ w.kind = e.kind /\ w.label = e.label /\ w.source_function = e.source_function
        /\ w.target_function = e.target_function /\ w.source_basic_block = e.source_basic_block
        /\ w.target_basic_block = e.target_basic_block /\ w.successor_index = e.successor_index
        /\ w.execution_count = c
    BY <2>2 DEF WholeEdge, MadeFrom, NewEdge
  <2>5. \A key \in EdgeOptionals : Savable(w[key])
    BY <2>2, <2>4 DEF WholeEdge, EdgeOptionals
  <2> QED BY <2>1, <2>2, <2>3, <2>4, <2>5 DEF WholeEdge
<1>13. WholeGraph(h)
  BY <1>8, <1>9, <1>10, <1>11, <1>12 DEF WholeGraph
<1> QED BY <1>1, <1>7, <1>13

(***************************************************************************)
(* The files.                                                              *)
(***************************************************************************)
\* What is in the files, and when.
FilesInv ==
  /\ DOMAIN json \subseteq {"static", "dynamic"}
  /\ "static" \in DOMAIN json => phase = "injected" /\ json["static"] = Serialize(ModuleGraph)
  /\ "static" \notin DOMAIN json => status = "running"
  /\ "dynamic" \in DOMAIN json =>
       /\ "static" \in DOMAIN json /\ status \in {"exited", "quit"}
       /\ json["dynamic"] = Serialize(WithCounts(ModuleGraph, Merged(BuiltGraph, stdout)))

\* A tool writes what it has; nobody changes the graph or the log after that.
LEMMA FilesKept ==
  ASSUME RunInv, GraphWhole, FilesInv, [DynamicNext]_dynamicVars
  PROVE  FilesInv'
<1> DEFINE Profiled(out) == Serialize(WithCounts(ModuleGraph, Merged(BuiltGraph, out)))
<1>1. CASE Compile /\ UNCHANGED fileVars
  <2>1. phase # "injected"
    BY <1>1 DEF Compile, InjectNext, Build, BuilderNext, RegisterFunctionsAndBasicBlocks,
       RegisterInstructionNodes, RegisterInstructionSequenceEdges, RegisterControlFlowEdges,
       RegisterDataFlowAndCallEdges, PopulateBuildInfo, EndOfPhase, Round, NextPhase,
       InjectEntryLogs, AbortInjection, InjectCallEdgeLogs, CollectOriginalCfgEdges,
       InjectControlFlowEdgeLog, EndOfInjection, InjectStage
  <2>2. json' = json /\ status' = status
    BY <1>1 DEF Compile, fileVars, runVars
  <2> QED BY <2>1, <2>2 DEF FilesInv
<1>2. CASE Dump
  <2>1. /\ phase = "injected" /\ DOMAIN json = {} /\ phase' = phase /\ status' = status
        /\ json' = WithFile(json, "static", Serialize(ModuleGraph))
        /\ UNCHANGED <<functions, basicBlocks, nodes, edges>>
    BY <1>2 DEF Dump, EmptyMap, buildVars, builderVars, graphVars, runVars
  <2>2. DOMAIN json' = {"static"} /\ json'["static"] = Serialize(ModuleGraph)
    BY <2>1 DEF WithFile
  <2>3. ModuleGraph' = ModuleGraph
    BY <2>1 DEF ModuleGraph
  <2>4. PICK j : j = Serialize(ModuleGraph)
    OBVIOUS
  <2>5. Serialize(ModuleGraph)' = j
    BY <2>3, <2>4 DEF Serialize
  <2> QED BY <2>1, <2>2, <2>4, <2>5 DEF FilesInv
<1>3. CASE Execute
  <2>1. /\ "static" \in DOMAIN json /\ status = "running" /\ phase' = phase /\ json' = json
        /\ UNCHANGED <<functions, basicBlocks, nodes, edges>>
    BY <1>3 DEF Execute, Run, fileVars, buildVars, builderVars, graphVars
  <2>2. ModuleGraph' = ModuleGraph
    BY <2>1 DEF ModuleGraph
  <2>3. Serialize(ModuleGraph)' = Serialize(ModuleGraph)
    BY <2>2 DEF Serialize
  <2>4. "dynamic" \notin DOMAIN json
    BY <2>1 DEF FilesInv
  <2> QED BY <2>1, <2>3, <2>4 DEF FilesInv
<1>4. CASE MergeProfile
  <2>1. PICK g : g = Deserialize(json["static"])
    OBVIOUS
  <2>2. /\ status \in {"exited", "quit"}
        /\ json' = WithFile(json, "dynamic",
                              Serialize(WithCounts(g, Merged(ProfiledPart(g), stdout))))
        /\ phase' = phase /\ status' = status /\ stdout' = stdout
        /\ UNCHANGED <<functions, basicBlocks, nodes, edges>>
    BY <1>4, <2>1 DEF MergeProfile, buildVars, builderVars, graphVars, runVars
  <2>3. "static" \in DOMAIN json /\ json["static"] = Serialize(ModuleGraph)
    BY <2>2 DEF FilesInv
  <2>4. g = ModuleGraph
    BY <2>1, <2>3, GraphSaved DEF GraphWhole
  <2>5. ModuleGraph' = ModuleGraph
    BY <2>2 DEF ModuleGraph
  <2>6. PICK s, d : s = Serialize(ModuleGraph) /\ d = Profiled(stdout)
    OBVIOUS
  <2>7. json' = WithFile(json, "dynamic", d)
    BY <2>2, <2>4, <2>6 DEF BuiltGraph
  <2>8. DOMAIN json' = DOMAIN json \cup {"dynamic"} /\ json'["dynamic"] = d
        /\ json'["static"] = s
    BY <2>3, <2>6, <2>7 DEF WithFile
  <2>9. Serialize(ModuleGraph)' = s /\ Profiled(stdout)' = d
    BY <2>2, <2>5, <2>6 DEF BuiltGraph
  <2> QED BY <2>2, <2>3, <2>8, <2>9 DEF FilesInv
<1>5. CASE (\E kind \in {"static", "dynamic"} : Draw(kind)) \/ UNCHANGED dynamicVars
  <2>1. /\ json' = json /\ phase' = phase /\ status' = status /\ stdout' = stdout
        /\ UNCHANGED <<functions, basicBlocks, nodes, edges>>
    BY <1>5 DEF Draw, dynamicVars, fileVars, buildVars, builderVars, graphVars, runVars
  <2>2. ModuleGraph' = ModuleGraph
    BY <2>1 DEF ModuleGraph
  <2>3. PICK s, d : s = Serialize(ModuleGraph) /\ d = Profiled(stdout)
    OBVIOUS
  <2>4. Serialize(ModuleGraph)' = s /\ Profiled(stdout)' = d
    BY <2>1, <2>2, <2>3 DEF BuiltGraph
  <2> QED BY <2>1, <2>3, <2>4 DEF FilesInv
<1> QED BY <1>1, <1>2, <1>3, <1>4, <1>5 DEF DynamicNext

\* What is written is read back.
LEMMA FilesAreRead ==
  ASSUME RunInv, GraphWhole, FilesInv
  PROVE  GraphSurvivesFiles
<1>1. Deserialize(Serialize(ModuleGraph)) = ModuleGraph
  BY GraphSaved DEF GraphWhole
<1>2. ASSUME "dynamic" \in DOMAIN json
      PROVE  Deserialize(json["dynamic"]) = WithCounts(ModuleGraph, Merged(BuiltGraph, stdout))
  <2>1. PICK g, log : g = ModuleGraph /\ log = stdout
    OBVIOUS
  <2>2. phase = "injected"
    BY <1>2 DEF FilesInv
  <2>3. \A x : Hits(log, Len(log), x) \in Nat
    <3>1. log \in Seq(AnyLines)
      BY <2>1, <2>2 DEF RunInv, Logging
    <3> QED BY <3>1, HitsCounted
  <2>4. WholeGraph(WithCounts(g, Merged(ProfiledPart(g), log)))
    BY <2>1, <2>3, WholeWithCounts DEF GraphWhole
  <2>5. PICK h : h = WithCounts(g, Merged(ProfiledPart(g), log))
    OBVIOUS
  <2>6. json["dynamic"] = Serialize(h) /\ Deserialize(Serialize(h)) = h
    BY <1>2, <2>1, <2>4, <2>5, GraphSaved DEF FilesInv, BuiltGraph
  <2> QED BY <2>1, <2>5, <2>6 DEF BuiltGraph
<1> QED BY <1>1, <1>2 DEF GraphSurvivesFiles, FilesInv

\* What a tool reads from a JSON file is what the tool before it had in memory, for
\* every module: the graph that InjectPass and DumpPass have built, or that graph with
\* the counts of the log.  No field is lost, added or taken for another.
THEOREM GraphsSurviveFiles == DynamicSpec => []GraphSurvivesFiles
<1>1. DynamicInit => RunInit
  BY DEF DynamicInit
<1>2. [DynamicNext]_dynamicVars => [RunNext]_<<buildVars, runVars>>
  BY DEF DynamicNext, Dump, Execute, MergeProfile, Draw, RunNext, dynamicVars
<1>3. DynamicSpec => RunSpec
  BY <1>1, <1>2, PTL DEF DynamicSpec, RunSpec
<1>4. DynamicInit => ElementsKept /\ GraphWhole /\ FilesInv
  <2> SUFFICES ASSUME DynamicInit PROVE ElementsKept /\ GraphWhole /\ FilesInv
    OBVIOUS
  <2>1. ElementsKept
    BY <1>1, KeptAtFirst
  <2>2. IInv
    BY InitInvariant DEF DynamicInit, RunInit, InjectInit
  <2>3. FilesInv
    BY DEF DynamicInit, RunInit, FilesInv, EmptyMap
  <2> QED BY <2>1, <2>2, <2>3, WholeWhenKept
<1>5. /\ InjectInv /\ RunInv /\ ElementsKept /\ GraphWhole /\ FilesInv /\ [DynamicNext]_dynamicVars
      => ElementsKept' /\ GraphWhole' /\ FilesInv'
  <2> SUFFICES ASSUME InjectInv, RunInv, ElementsKept, GraphWhole, FilesInv,
                      [DynamicNext]_dynamicVars
               PROVE  ElementsKept' /\ GraphWhole' /\ FilesInv'
    OBVIOUS
  <2>1. [InjectNext]_<<builderVars, injectVars>>
    BY <1>2 DEF RunNext, Compile, Run, buildVars
  <2> QED BY <2>1, KeptNext, FilesKept
<1> QED BY <1>3, <1>4, <1>5, RunInvHolds, FilesAreRead, PTL DEF DynamicSpec

==============================================================================
