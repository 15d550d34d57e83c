---------------------------- MODULE LogCountProofs ----------------------------
(***************************************************************************)
(* What the log of an instrumented program tells of its run.  Each place   *)
(* of the changed code has debts: the keys of events that have happened    *)
(* when a thread is there and are logged later, and of events that are     *)
(* logged and happen later.  The invariant is that hits in the log and     *)
(* debts of the threads make what has happened; from it follows how far a  *)
(* log can be behind.                                                      *)
(***************************************************************************)
EXTENDS InstrumentedProgramProofs

(***************************************************************************)
(* What the threads owe: late has for every place the keys of the events   *)
(* that have happened and are not yet logged, early those of the events    *)
(* that are logged and have not happened.  Only the top frame counts.      *)
(***************************************************************************)
Sign(b) == IF b THEN 1 ELSE 0
Is(x, y) == Sign(x = y)

Due(late, early, p, x) == Sign(x \in late[p]) - Sign(x \in early[p])
DueOf(late, early, s, x) == IF s = <<>> THEN 0 ELSE Due(late, early, Last(s), x)

InDebt(M, s, x) == s # <<>> /\ x \in M[Last(s)]
Owing(M, ts, x) == {t \in DOMAIN ts : InDebt(M, ts[t], x)}
Tally(late, early, ts, x) ==
  Cardinality(Owing(late, ts, x)) - Cardinality(Owing(early, ts, x))

LEMMA DueType ==
  ASSUME NEW late, NEW early, NEW s, NEW x
  PROVE  /\ DueOf(late, early, s, x) = Sign(InDebt(late, s, x)) - Sign(InDebt(early, s, x))
         /\ DueOf(late, early, s, x) \in Int
<1>1. CASE s = <<>>
  BY <1>1 DEF DueOf, InDebt, Sign
<1>2. CASE s # <<>>
  BY <1>2 DEF DueOf, InDebt, Sign, Due
<1> QED BY <1>1, <1>2

\* Sets that differ in one element at most.
LEMMA OneElement ==
  ASSUME NEW K, IsFiniteSet(K), NEW J, NEW t, \A u : u # t => (u \in J <=> u \in K)
  PROVE  /\ IsFiniteSet(J) /\ Cardinality(K) \in Nat /\ Cardinality(J) \in Nat
         /\ Cardinality(J) = (Cardinality(K) - Sign(t \in K)) + Sign(t \in J)
<1>0. Cardinality(K) \in Nat
  BY FS_CardinalityType
<1>1. CASE t \in K <=> t \in J
  <2>1. J = K
    BY <1>1
  <2> QED BY <1>0, <2>1 DEF Sign
<1>2. CASE t \in K /\ t \notin J
  <2>1. J = K \ {t}
    BY <1>2
  <2>2. IsFiniteSet(J) /\ Cardinality(J) = Cardinality(K) - 1
    BY <1>2, <2>1, FS_RemoveElement
  <2>3. Cardinality(J) \in Nat
    BY <2>2, FS_CardinalityType
  <2> QED BY <1>0, <1>2, <2>2, <2>3 DEF Sign
<1>3. CASE t \notin K /\ t \in J
  <2>1. J = K \cup {t}
    BY <1>3
  <2>2. IsFiniteSet(J) /\ Cardinality(J) = Cardinality(K) + 1
    BY <1>3, <2>1, FS_AddElement
  <2> QED BY <1>0, <1>3, <2>2 DEF Sign
<1> QED BY <1>1, <1>2, <1>3

LEMMA OwingFinite ==
  ASSUME NEW M, NEW S, NEW ts \in Seq(S), NEW x
  PROVE  /\ IsFiniteSet(DOMAIN ts) /\ IsFiniteSet(Owing(M, ts, x))
         /\ Owing(M, ts, x) \subseteq DOMAIN ts /\ Cardinality(Owing(M, ts, x)) \in Nat
<1>1. DOMAIN ts = 1..Len(ts) /\ Len(ts) \in Nat
  OBVIOUS
<1>2. IsFiniteSet(DOMAIN ts)
  BY <1>1, FS_Interval
<1>3. Owing(M, ts, x) \subseteq DOMAIN ts
  BY DEF Owing
<1>4. IsFiniteSet(Owing(M, ts, x))
  BY <1>2, <1>3, FS_Subset
<1> QED BY <1>2, <1>3, <1>4, FS_CardinalityType

LEMMA OwingSet ==
  ASSUME NEW M, NEW S, NEW ts \in Seq(S), NEW t \in DOMAIN ts, NEW s, NEW us, us = With(ts, t, s), NEW x
  PROVE  /\ Cardinality(Owing(M, us, x)) \in Nat
         /\ Cardinality(Owing(M, us, x))
              = (Cardinality(Owing(M, ts, x)) - Sign(InDebt(M, ts[t], x))) + Sign(InDebt(M, s, x))
<1>1. DOMAIN us = DOMAIN ts /\ us[t] = s /\ \A u \in DOMAIN ts : u # t => us[u] = ts[u]
  BY DEF With
<1>2. PICK K, J : K = Owing(M, ts, x) /\ J = Owing(M, us, x)
  OBVIOUS
<1>3. IsFiniteSet(K)
  BY <1>2, OwingFinite
<1>4. \A u : u # t => (u \in J <=> u \in K)
  BY <1>1, <1>2 DEF Owing
<1>5. (t \in K <=> InDebt(M, ts[t], x)) /\ (t \in J <=> InDebt(M, s, x))
  BY <1>1, <1>2 DEF Owing
<1>6. /\ Cardinality(J) \in Nat
      /\ Cardinality(J) = (Cardinality(K) - Sign(t \in K)) + Sign(t \in J)
  BY <1>3, <1>4, OneElement
<1>7. Sign(t \in K) = Sign(InDebt(M, ts[t], x)) /\ Sign(t \in J) = Sign(InDebt(M, s, x))
  BY <1>5 DEF Sign
<1> QED BY <1>2, <1>6, <1>7

IsOneMore(M, ts, s, us, x) ==
  /\ Cardinality(Owing(M, us, x)) \in Nat
  /\ Cardinality(Owing(M, us, x)) = Cardinality(Owing(M, ts, x)) + Sign(InDebt(M, s, x))

LEMMA OwingMore ==
  ASSUME NEW M, NEW S, NEW ts \in Seq(S), NEW s, NEW us, us = Append(ts, s), NEW x
  PROVE  IsOneMore(M, ts, s, us, x)
<1>0. PICK n \in Nat : n = Len(ts)
  OBVIOUS
<1>1. /\ DOMAIN us = 1..(n + 1) /\ us[n + 1] = s /\ DOMAIN ts = 1..n
      /\ \A u \in 1..n : us[u] = ts[u]
  BY <1>0
<1>2. PICK K, J : K = Owing(M, ts, x) /\ J = Owing(M, us, x)
  OBVIOUS
<1>3. IsFiniteSet(K)
  BY <1>2, OwingFinite
<1>4. \A u : u # n + 1 => (u \in J <=> u \in K)
  <2>1. \A u : u # n + 1 => (u \in 1..(n + 1) <=> u \in 1..n)
    OBVIOUS
  <2> QED BY <1>1, <1>2, <2>1 DEF Owing
<1>5. n + 1 \notin K /\ (n + 1 \in J <=> InDebt(M, s, x))
  BY <1>1, <1>2 DEF Owing
<1>6. /\ Cardinality(J) \in Nat /\ Cardinality(K) \in Nat
      /\ Cardinality(J) = (Cardinality(K) - Sign(n + 1 \in K)) + Sign(n + 1 \in J)
  BY <1>3, <1>4, OneElement
<1>7. Sign(n + 1 \in K) = 0 /\ Sign(n + 1 \in J) = Sign(InDebt(M, s, x))
  BY <1>5 DEF Sign
<1>8. Sign(InDebt(M, s, x)) \in Nat
  BY DEF Sign
<1> QED BY <1>2, <1>6, <1>7, <1>8 DEF IsOneMore

\* One thread goes on, or one more is started.
LEMMA TallySet ==
  ASSUME NEW late, NEW early, NEW S, NEW ts \in Seq(S), NEW t \in DOMAIN ts, NEW s,
         NEW us, us = With(ts, t, s), NEW x
  PROVE  /\ Tally(late, early, ts, x) \in Int /\ Tally(late, early, us, x) \in Int
         /\ Tally(late, early, us, x)
              = (Tally(late, early, ts, x) - DueOf(late, early, ts[t], x)) + DueOf(late, early, s, x)
<1>1. PICK K, J : K = Cardinality(Owing(late, ts, x)) /\ J = Cardinality(Owing(early, ts, x))
  OBVIOUS
<1>2. PICK A, B : A = Cardinality(Owing(late, us, x)) /\ B = Cardinality(Owing(early, us, x))
  OBVIOUS
<1>3. K \in Nat /\ J \in Nat
  BY <1>1, OwingFinite
<1>4. A \in Nat /\ A = (K - Sign(InDebt(late, ts[t], x))) + Sign(InDebt(late, s, x))
  BY <1>1, <1>2, OwingSet
<1>5. B \in Nat /\ B = (J - Sign(InDebt(early, ts[t], x))) + Sign(InDebt(early, s, x))
  BY <1>1, <1>2, OwingSet
<1>6. /\ DueOf(late, early, ts[t], x) = Sign(InDebt(late, ts[t], x)) - Sign(InDebt(early, ts[t], x))
      /\ DueOf(late, early, s, x) = Sign(InDebt(late, s, x)) - Sign(InDebt(early, s, x))
  BY DueType
<1>7. Tally(late, early, ts, x) = K - J /\ Tally(late, early, us, x) = A - B
  BY <1>1, <1>2 DEF Tally
<1>8. PICK a, b : a = Sign(InDebt(late, ts[t], x)) /\ b = Sign(InDebt(early, ts[t], x))
  OBVIOUS
<1>9. PICK c, d : c = Sign(InDebt(late, s, x)) /\ d = Sign(InDebt(early, s, x))
  OBVIOUS
<1>10. a \in Nat /\ b \in Nat /\ c \in Nat /\ d \in Nat
  BY <1>8, <1>9 DEF Sign
<1>11. A = (K - a) + c /\ B = (J - b) + d
  BY <1>4, <1>5, <1>8, <1>9
<1>12. A - B = ((K - J) - (a - b)) + (c - d) /\ A - B \in Int /\ K - J \in Int
  BY <1>3, <1>10, <1>11
<1> QED BY <1>6, <1>7, <1>8, <1>9, <1>12

IsPaid(old, new, d) == old \in Int /\ new = old + d

LEMMA TallyMore ==
  ASSUME NEW late, NEW early, NEW S, NEW ts \in Seq(S), NEW s, NEW us, us = Append(ts, s), NEW x
  PROVE  IsPaid(Tally(late, early, ts, x), Tally(late, early, us, x), DueOf(late, early, s, x))
<1>1. PICK K, J : K = Cardinality(Owing(late, ts, x)) /\ J = Cardinality(Owing(early, ts, x))
  OBVIOUS
<1>2. PICK A, B : A = Cardinality(Owing(late, us, x)) /\ B = Cardinality(Owing(early, us, x))
  OBVIOUS
<1>3. K \in Nat /\ J \in Nat
  BY <1>1, OwingFinite
<1>4. A \in Nat /\ A = K + Sign(InDebt(late, s, x))
  <2>1. IsOneMore(late, ts, s, us, x)
    BY OwingMore
  <2> QED BY <1>1, <1>2, <2>1 DEF IsOneMore
<1>5. B \in Nat /\ B = J + Sign(InDebt(early, s, x))
  <2>1. IsOneMore(early, ts, s, us, x)
    BY OwingMore
  <2> QED BY <1>1, <1>2, <2>1 DEF IsOneMore
<1>6. DueOf(late, early, s, x) = Sign(InDebt(late, s, x)) - Sign(InDebt(early, s, x))
  BY DueType
<1>7. Tally(late, early, ts, x) = K - J /\ Tally(late, early, us, x) = A - B
  BY <1>1, <1>2 DEF Tally
<1>8. PICK c, d : c = Sign(InDebt(late, s, x)) /\ d = Sign(InDebt(early, s, x))
  OBVIOUS
<1>9. c \in Nat /\ d \in Nat
  BY <1>8 DEF Sign
<1>10. A = K + c /\ B = J + d
  BY <1>4, <1>5, <1>8
<1>11. A - B = (K - J) + (c - d) /\ A - B \in Int /\ K - J \in Int
  BY <1>3, <1>9, <1>10
<1> QED BY <1>6, <1>7, <1>8, <1>11 DEF IsPaid

(***************************************************************************)
(* Lines of the log.                                                       *)
(***************************************************************************)
IsHit(line, x) == IsEvent(line) /\ KeyOf(line) = x
HitSet(log, x) == {k \in 1..Len(log) : IsHit(log[k], x)}

LEMMA HitsCounted ==
  ASSUME NEW S, NEW log \in Seq(S), NEW x
  PROVE  /\ Hits(log, Len(log), x) = Cardinality(HitSet(log, x))
         /\ IsFiniteSet(HitSet(log, x)) /\ Hits(log, Len(log), x) \in Nat
<1>1. Hits(log, Len(log), x) = Cardinality(HitSet(log, x))
  BY DEF Hits, HitSet, IsHit
<1>2. HitSet(log, x) \subseteq 1..Len(log) /\ Len(log) \in Nat
  BY DEF HitSet
<1>3. IsFiniteSet(HitSet(log, x))
  <2>1. IsFiniteSet(1..Len(log))
    BY <1>2, FS_Interval
  <2> QED BY <1>2, <2>1, FS_Subset
<1> QED BY <1>1, <1>3, FS_CardinalityType

LEMMA HitsMore ==
  ASSUME NEW S, NEW log \in Seq(S), NEW line \in S, NEW new, new = Append(log, line), NEW x
  PROVE  IsPaid(Hits(log, Len(log), x), Hits(new, Len(new), x), Sign(IsHit(line, x)))
<1>0. PICK n \in Nat : n = Len(log)
  OBVIOUS
<1>1. /\ new \in Seq(S) /\ Len(new) = n + 1 /\ new[n + 1] = line
      /\ \A k \in 1..n : new[k] = log[k]
  BY <1>0
<1>2. PICK K, J : K = HitSet(log, x) /\ J = HitSet(new, x)
  OBVIOUS
<1>3. /\ Hits(log, Len(log), x) = Cardinality(K) /\ Hits(new, Len(new), x) = Cardinality(J)
      /\ IsFiniteSet(K)
  BY <1>1, <1>2, HitsCounted
<1>4. \A k : k # n + 1 => (k \in J <=> k \in K)
  <2>1. \A k : k # n + 1 => (k \in 1..(n + 1) <=> k \in 1..n)
    OBVIOUS
  <2> QED BY <1>0, <1>1, <1>2, <2>1 DEF HitSet
<1>5. n + 1 \notin K /\ (n + 1 \in J <=> IsHit(line, x))
  BY <1>0, <1>1, <1>2 DEF HitSet
<1>6. /\ Cardinality(J) \in Nat /\ Cardinality(K) \in Nat
      /\ Cardinality(J) = (Cardinality(K) - Sign(n + 1 \in K)) + Sign(n + 1 \in J)
  BY <1>3, <1>4, OneElement
<1>7. Sign(n + 1 \in K) = 0 /\ Sign(n + 1 \in J) = Sign(IsHit(line, x))
  BY <1>5 DEF Sign
<1>8. Sign(IsHit(line, x)) \in Nat
  BY DEF Sign
<1> QED BY <1>3, <1>6, <1>7, <1>8 DEF IsPaid

\* The beginning of a log has no more events than the log.
LEMMA HitsLess ==
  ASSUME NEW S, NEW log \in Seq(S), NEW n \in 0..Len(log), NEW new, new = SubSeq(log, 1, n), NEW x
  PROVE  new \in Seq(S) /\ Hits(new, Len(new), x) <= Hits(log, Len(log), x)
<1>1. new \in Seq(S) /\ Len(new) = n /\ \A k \in 1..n : new[k] = log[k]
  BY JoinCut
<1>2. HitSet(new, x) \subseteq HitSet(log, x)
  BY <1>1 DEF HitSet
<1>3. IsFiniteSet(HitSet(log, x))
  BY HitsCounted
<1>4. Cardinality(HitSet(new, x)) <= Cardinality(HitSet(log, x))
  BY <1>2, <1>3, FS_Subset
<1> QED BY <1>1, <1>4, HitsCounted

------------------------------------------------------------------------------
(***************************************************************************)
(* The keys of the events, and what has happened under each.               *)
(***************************************************************************)
FunctionKey(f) == <<"function", f - 1>>
BlockKey(b) == <<"basic_block", b - 1>>
DefinedIn(m) == {f \in Functions(m) : ~ IsDeclaration(m, f)}

\* The module with the keys of its direct calls and of its logged edges.
Keys ==
  [m |-> module,
   calls |-> [p \in DirectCalls |-> EdgeKey(CallIds[p])],
   edges |-> [e \in LoggedEdges |-> EdgeKey(CfgLogOf[e].id)]]

\* Each names one call or edge only.
OneToOne(h) == \A x, y \in DOMAIN h : h[x] = h[y] => x = y
KeysTell(N) ==
  /\ OneToOne(N.calls) /\ OneToOne(N.edges)
  /\ \A p \in DOMAIN N.calls : N.calls[p][1] = "edge"
  /\ \A e \in DOMAIN N.edges : N.edges[e][1] = "edge"
  /\ \A p \in DOMAIN N.calls : \A e \in DOMAIN N.edges : N.calls[p] # N.edges[e]

LEMMA KeyFields ==
  ASSUME WellFormed(module)
  PROVE  /\ Keys.m = module /\ DOMAIN Keys.calls = DirectCalls /\ DOMAIN Keys.edges = LoggedEdges
         /\ DirectCalls \subseteq Pointers(module) /\ LoggedEdges \subseteq CfgEdges(module)
         /\ \A p \in DirectCalls : /\ Keys.calls[p] = <<"edge", callEdgeIds[CallKey(p)]>>
                                   /\ IsDirectCall(module, Instr(module, p))
         /\ \A e \in LoggedEdges : Keys.edges[e] = <<"edge", cfgEdgeIds[CfgKey(e[1], e[2])]>>
<1>1. DirectCalls \subseteq Pointers(module) /\ LoggedEdges \subseteq CfgEdges(module)
  BY DEF DirectCalls, LoggedEdges
<1>2. \A p \in DirectCalls : /\ EdgeKey(CallIds[p]) = <<"edge", callEdgeIds[CallKey(p)]>>
                             /\ IsDirectCall(module, Instr(module, p))
  BY <1>1 DEF CallIds, EdgeKey, DirectCalls
<1>3. \A e \in LoggedEdges : EdgeKey(CfgLogOf[e].id) = <<"edge", cfgEdgeIds[CfgKey(e[1], e[2])]>>
  BY <1>1 DEF CfgLogOf, EdgeKey, Log
<1> QED BY <1>1, <1>2, <1>3 DEF Keys

\* Of the edges from one block to another one is logged at most.
LEMMA LoggedOnce ==
  ASSUME WellFormed(module), Ready, NEW e \in LoggedEdges, NEW g \in LoggedEdges,
         e[1] = g[1], EdgeTarget(module, e) = EdgeTarget(module, g)
  PROVE  e = g
<1>1. \A x \in {e, g} :
        /\ x \in CfgEdges(module)
        /\ \A j \in 1..(x[2] - 1) : Successors(module, x[1])[j] # EdgeTarget(module, x)
  BY DEF Ready, LoggedEdges, IsLogged
<1>2. \A x \in {e, g} :
        /\ x = <<x[1], x[2]>>
        /\ x[2] \in 1..Len(Successors(module, x[1])) /\ Len(Successors(module, x[1])) \in Nat
        /\ EdgeTarget(module, x) = Successors(module, x[1])[x[2]]
  BY <1>1, EdgeParts
<1>3. ~ e[2] < g[2]
  <2>1. SUFFICES ASSUME e[2] < g[2] PROVE FALSE
    OBVIOUS
  <2>2. e[2] \in 1..(g[2] - 1)
    BY <1>2, <2>1
  <2> QED BY <1>1, <1>2, <2>2
<1>4. ~ g[2] < e[2]
  <2>1. SUFFICES ASSUME g[2] < e[2] PROVE FALSE
    OBVIOUS
  <2>2. g[2] \in 1..(e[2] - 1)
    BY <1>2, <2>1
  <2> QED BY <1>1, <1>2, <2>2
<1>5. e[2] = g[2]
  BY <1>2, <1>3, <1>4
<1> QED BY <1>2, <1>5

LEMMA KeysAreNames ==
  ASSUME WellFormed(module), Ready, InGraph
  PROVE  KeysTell(Keys)
<1> USE KeyFields
<1>1. NamesTell
  BY DEF InGraph
<1>2. \A p \in DirectCalls : /\ CallKey(p) \in DOMAIN callEdgeIds
                             /\ edges[callEdgeIds[CallKey(p)] + 1].kind = "call"
                             /\ edges[callEdgeIds[CallKey(p)] + 1].source_node = instructionNodeIds[p]
  BY DEF Ready
<1>3. \A e \in LoggedEdges :
        LET x == edges[cfgEdgeIds[CfgKey(e[1], e[2])] + 1] IN
          /\ e \in CfgEdges(module) /\ x.kind = "control_flow"
          /\ x.source_basic_block = e[1] - 1 /\ x.target_basic_block = EdgeTarget(module, e) - 1
          /\ \A j \in 1..(e[2] - 1) : Successors(module, e[1])[j] # EdgeTarget(module, e)
  BY <1>1 DEF NamesTell, LoggedEdges, IsLogged, Ready
<1>4. OneToOne(Keys.calls)
  <2> SUFFICES ASSUME NEW p \in DirectCalls, NEW q \in DirectCalls, Keys.calls[p] = Keys.calls[q]
               PROVE  p = q
    BY DEF OneToOne
  <2>1. callEdgeIds[CallKey(p)] = callEdgeIds[CallKey(q)]
    OBVIOUS
  <2>2. instructionNodeIds[p] = instructionNodeIds[q]
    BY <1>2, <2>1
  <2> QED BY <1>1, <2>2 DEF NamesTell
<1>5. OneToOne(Keys.edges)
  <2> SUFFICES ASSUME NEW e \in LoggedEdges, NEW g \in LoggedEdges, Keys.edges[e] = Keys.edges[g]
               PROVE  e = g
    BY DEF OneToOne
  <2>1. cfgEdgeIds[CfgKey(e[1], e[2])] = cfgEdgeIds[CfgKey(g[1], g[2])]
    OBVIOUS
  <2>2. e[1] - 1 = g[1] - 1 /\ EdgeTarget(module, e) - 1 = EdgeTarget(module, g) - 1
    BY <1>3, <2>1
  <2>3. e \in CfgEdges(module) /\ g \in CfgEdges(module)
    BY <1>1, KeyFields
  <2>4. e[1] = g[1] /\ EdgeTarget(module, e) = EdgeTarget(module, g)
    <3>1. \A x \in {e, g} : x[1] \in Blocks(module) /\ EdgeTarget(module, x) \in Blocks(module)
      BY <2>3, EdgeParts
    <3> QED BY <2>2, <3>1 DEF Blocks
  <2> QED BY <2>4, LoggedOnce
<1>6. ASSUME NEW p \in DirectCalls, NEW e \in LoggedEdges PROVE Keys.calls[p] # Keys.edges[e]
  <2>1. SUFFICES ASSUME Keys.calls[p] = Keys.edges[e] PROVE FALSE
    OBVIOUS
  <2>2. callEdgeIds[CallKey(p)] = cfgEdgeIds[CfgKey(e[1], e[2])]
    BY <2>1
  <2>3. edges[callEdgeIds[CallKey(p)] + 1].kind = "call"
    BY <1>2
  <2>4. edges[cfgEdgeIds[CfgKey(e[1], e[2])] + 1].kind = "control_flow"
    BY <1>3
  <2> QED BY <2>2, <2>3, <2>4
<1>7. \A p \in DirectCalls : Keys.calls[p][1] = "edge"
  OBVIOUS
<1>8. \A e \in LoggedEdges : Keys.edges[e][1] = "edge"
  OBVIOUS
<1> QED BY <1>4, <1>5, <1>6, <1>7, <1>8 DEF KeysTell

\* n is how often the event of key x has happened: en counts the entries of
\* blocks, ta the edges taken and ca the calls made.
Tells(N, en, ta, ca, x, n) ==
  /\ \A f \in DefinedIn(N.m) : x = FunctionKey(f) => n = en[EntryBlock(N.m, f)]
  /\ \A b \in Blocks(N.m) : x = BlockKey(b) => n = en[b]
  /\ \A p \in DOMAIN N.calls : x = N.calls[p] => n = ca[p]
  /\ \A e \in DOMAIN N.edges : x = N.edges[e] => n = ta[e]
  /\ (/\ \A f \in DefinedIn(N.m) : x # FunctionKey(f)
      /\ \A b \in Blocks(N.m) : x # BlockKey(b)
      /\ \A p \in DOMAIN N.calls : x # N.calls[p]
      /\ \A e \in DOMAIN N.edges : x # N.edges[e])
     => n = 0

LEMMA KeyKinds ==
  /\ \A f : FunctionKey(f)[1] = "function"
  /\ \A b : BlockKey(b)[1] = "basic_block"
  /\ \A f, g \in Int : FunctionKey(f) = FunctionKey(g) => f = g
  /\ \A f, g \in Int : BlockKey(f) = BlockKey(g) => f = g
BY DEF FunctionKey, BlockKey

\* The first block of a function.
LEMMA EntryBlocks ==
  ASSUME NEW m, WellFormed(m)
  PROVE  /\ \A f \in DefinedIn(m) : /\ EntryBlock(m, f) \in Blocks(m) /\ IsEntryBlock(m, EntryBlock(m, f))
                                    /\ m.function_of[EntryBlock(m, f)] = f
         /\ \A b \in Blocks(m) : IsEntryBlock(m, b) =>
              m.function_of[b] \in DefinedIn(m) /\ EntryBlock(m, m.function_of[b]) = b
         /\ \A f \in DefinedIn(m) : f \in Int
         /\ \A b \in Blocks(m) : b \in Int
<1>1. m.function_of \in Seq(Functions(m)) /\ Len(m.function_of) = Len(m.body) /\ Len(m.body) \in Nat
  BY EdgeParts DEF WellFormed
<1>2. \A b \in Blocks(m) : m.function_of[b] \in Functions(m) /\ b \in Nat
  BY <1>1 DEF Blocks
<1>3. m.functions \in Nat
  BY DEF WellFormed
<1>4. \A f \in DefinedIn(m) : f \in Int
  BY <1>3 DEF DefinedIn, Functions
<1>5. ASSUME NEW f \in DefinedIn(m)
      PROVE  /\ EntryBlock(m, f) \in Blocks(m) /\ IsEntryBlock(m, EntryBlock(m, f))
             /\ m.function_of[EntryBlock(m, f)] = f
  <2>1. BlocksOf(m, f) # {} /\ BlocksOf(m, f) \subseteq Nat
    BY <1>2 DEF DefinedIn, IsDeclaration, BlocksOf
  <2>2. PICK b \in BlocksOf(m, f) : \A c \in BlocksOf(m, f) : b <= c
    BY <2>1, Minimum
  <2>3. m.function_of[b] = f
    BY <2>2 DEF BlocksOf
  <2>4. IsEntryBlock(m, b)
    BY <2>2, <2>3 DEF IsEntryBlock
  <2>5. EntryBlock(m, f) \in BlocksOf(m, f) /\ IsEntryBlock(m, EntryBlock(m, f))
    BY <2>2, <2>4 DEF EntryBlock
  <2> QED BY <2>5 DEF BlocksOf
<1>6. ASSUME NEW b \in Blocks(m), IsEntryBlock(m, b)
      PROVE  m.function_of[b] \in DefinedIn(m) /\ EntryBlock(m, m.function_of[b]) = b
  <2>1. PICK f : f = m.function_of[b]
    OBVIOUS
  <2>2. b \in BlocksOf(m, f) /\ f \in DefinedIn(m)
    BY <1>2, <2>1 DEF DefinedIn, IsDeclaration, BlocksOf
  <2>3. PICK c : c = EntryBlock(m, f)
    OBVIOUS
  <2>4. c \in Blocks(m) /\ IsEntryBlock(m, c) /\ m.function_of[c] = f
    BY <1>5, <2>2, <2>3
  <2>5. c \in BlocksOf(m, f)
    BY <2>4 DEF BlocksOf
  <2>6. b <= c /\ c <= b
    BY <1>6, <2>1, <2>2, <2>4, <2>5 DEF IsEntryBlock
  <2>7. b = c
    BY <1>2, <2>4, <2>6
  <2> QED BY <2>1, <2>2, <2>3, <2>7
<1> QED BY <1>2, <1>4, <1>5, <1>6

\* One more entry of block b, and of its function if it is the first.
IsMoreAt(h, k, g) == g = [h EXCEPT ![k] = @ + 1]
FirstOf(m, b, x) == Sign(IsEntryBlock(m, b) /\ x = FunctionKey(m.function_of[b]))

LEMMA EntryTold ==
  ASSUME NEW N, WellFormed(N.m), KeysTell(N), NEW en \in [Blocks(N.m) -> Nat], NEW ta, NEW ca,
         NEW b \in Blocks(N.m), NEW en2, IsMoreAt(en, b, en2),
         NEW x, NEW n \in Int, Tells(N, en, ta, ca, x, n)
  PROVE  Tells(N, en2, ta, ca, x, (n + Is(x, BlockKey(b))) + FirstOf(N.m, b, x))
<1>0. PICK n2 : n2 = (n + Is(x, BlockKey(b))) + FirstOf(N.m, b, x)
  OBVIOUS
<1>1. en2[b] = en[b] + 1 /\ \A c \in Blocks(N.m) : c # b => en2[c] = en[c]
  BY DEF IsMoreAt
<1>2. ASSUME NEW f \in DefinedIn(N.m), x = FunctionKey(f) PROVE n2 = en2[EntryBlock(N.m, f)]
  <2>1. n = en[EntryBlock(N.m, f)] /\ Is(x, BlockKey(b)) = 0
    BY <1>2, KeyKinds DEF Tells, Is, Sign
  <2>2. EntryBlock(N.m, f) \in Blocks(N.m)
    BY EntryBlocks
  <2>3. CASE EntryBlock(N.m, f) = b
    <3>1. IsEntryBlock(N.m, b) /\ N.m.function_of[b] = f
      BY <2>3, EntryBlocks
    <3>2. FirstOf(N.m, b, x) = 1
      BY <1>2, <3>1 DEF FirstOf, Sign
    <3> QED BY <1>0, <1>1, <2>1, <2>3, <3>2
  <2>4. CASE EntryBlock(N.m, f) # b
    <3>1. ~ (IsEntryBlock(N.m, b) /\ FunctionKey(f) = FunctionKey(N.m.function_of[b]))
      <4>1. SUFFICES ASSUME IsEntryBlock(N.m, b), FunctionKey(f) = FunctionKey(N.m.function_of[b])
                     PROVE  FALSE
        OBVIOUS
      <4>2. N.m.function_of[b] \in DefinedIn(N.m) /\ EntryBlock(N.m, N.m.function_of[b]) = b
        BY <4>1, EntryBlocks
      <4>3. f \in Int /\ N.m.function_of[b] \in Int
        BY <4>2, EntryBlocks
      <4>4. f = N.m.function_of[b]
        BY <4>1, <4>3, KeyKinds
      <4> QED BY <2>4, <4>2, <4>4
    <3>2. FirstOf(N.m, b, x) = 0
      BY <1>2, <3>1 DEF FirstOf, Sign
    <3> QED BY <1>0, <1>1, <2>1, <2>2, <2>4, <3>2
  <2> QED BY <2>3, <2>4
<1>3. ASSUME NEW c \in Blocks(N.m), x = BlockKey(c) PROVE n2 = en2[c]
  <2>1. n = en[c]
    BY <1>3 DEF Tells
  <2>2. FirstOf(N.m, b, x) = 0
    BY <1>3, KeyKinds DEF FirstOf, Sign
  <2>3. b \in Int /\ c \in Int
    BY EntryBlocks
  <2>4. Is(x, BlockKey(b)) = IF c = b THEN 1 ELSE 0
    BY <1>3, <2>3, KeyKinds DEF Is, Sign
  <2> QED BY <1>0, <1>1, <2>1, <2>2, <2>4
<1>4. ASSUME x[1] = "edge" PROVE n2 = n
  <2>1. FirstOf(N.m, b, x) = 0 /\ Is(x, BlockKey(b)) = 0
    BY <1>4, KeyKinds DEF FirstOf, Sign, Is
  <2> QED BY <1>0, <2>1
<1>5. ASSUME NEW p \in DOMAIN N.calls, x = N.calls[p] PROVE n2 = ca[p]
  <2>1. x[1] = "edge" /\ n = ca[p]
    BY <1>5 DEF KeysTell, Tells
  <2> QED BY <1>4, <2>1
<1>6. ASSUME NEW e \in DOMAIN N.edges, x = N.edges[e] PROVE n2 = ta[e]
  <2>1. x[1] = "edge" /\ n = ta[e]
    BY <1>6 DEF KeysTell, Tells
  <2> QED BY <1>4, <2>1
<1>7. ASSUME \A f \in DefinedIn(N.m) : x # FunctionKey(f), \A c \in Blocks(N.m) : x # BlockKey(c), n = 0
      PROVE  n2 = 0
  <2>1. Is(x, BlockKey(b)) = 0
    BY <1>7 DEF Is, Sign
  <2>2. IsEntryBlock(N.m, b) => N.m.function_of[b] \in DefinedIn(N.m)
    BY EntryBlocks
  <2>3. FirstOf(N.m, b, x) = 0
    BY <1>7, <2>2 DEF FirstOf, Sign
  <2> QED BY <1>0, <1>7, <2>1, <2>3
<1>8. Tells(N, en2, ta, ca, x, n2)
  BY <1>2, <1>3, <1>5, <1>6, <1>7 DEF Tells
<1> QED BY <1>0, <1>8

\* One more time edge e is taken.
LEMMA EdgeTold ==
  ASSUME NEW N, KeysTell(N), NEW S, DOMAIN N.edges \subseteq S, NEW en, NEW ta \in [S -> Nat], NEW ca,
         NEW e \in S, NEW ta2, IsMoreAt(ta, e, ta2),
         NEW x, NEW n \in Int, Tells(N, en, ta, ca, x, n)
  PROVE  Tells(N, en, ta2, ca, x, n + Sign(e \in DOMAIN N.edges /\ x = N.edges[e]))
<1>0. PICK n2 : n2 = n + Sign(e \in DOMAIN N.edges /\ x = N.edges[e])
  OBVIOUS
<1>1. ta2[e] = ta[e] + 1 /\ \A g \in S : g # e => ta2[g] = ta[g]
  BY DEF IsMoreAt
<1>2. ASSUME ~ (e \in DOMAIN N.edges /\ x = N.edges[e]) PROVE n2 = n
  BY <1>0, <1>2 DEF Sign
<1>3. ASSUME NEW f \in DefinedIn(N.m), x = FunctionKey(f) PROVE n2 = en[EntryBlock(N.m, f)]
  <2>1. x[1] # "edge" /\ n = en[EntryBlock(N.m, f)]
    BY <1>3, KeyKinds DEF Tells
  <2> QED BY <1>2, <2>1 DEF KeysTell
<1>4. ASSUME NEW c \in Blocks(N.m), x = BlockKey(c) PROVE n2 = en[c]
  <2>1. x[1] # "edge" /\ n = en[c]
    BY <1>4, KeyKinds DEF Tells
  <2> QED BY <1>2, <2>1 DEF KeysTell
<1>5. ASSUME NEW p \in DOMAIN N.calls, x = N.calls[p] PROVE n2 = ca[p]
  <2>1. n = ca[p]
    BY <1>5 DEF Tells
  <2> QED BY <1>2, <1>5, <2>1 DEF KeysTell
<1>6. ASSUME NEW g \in DOMAIN N.edges, x = N.edges[g] PROVE n2 = ta2[g]
  <2>1. n = ta[g] /\ g \in S
    BY <1>6 DEF Tells
  <2>2. CASE g = e
    <3>1. Sign(e \in DOMAIN N.edges /\ x = N.edges[e]) = 1
      BY <1>6, <2>2 DEF Sign
    <3> QED BY <1>0, <1>1, <2>1, <2>2, <3>1
  <2>3. CASE g # e
    <3>1. ~ (e \in DOMAIN N.edges /\ x = N.edges[e])
      BY <1>6, <2>3 DEF KeysTell, OneToOne
    <3> QED BY <1>1, <1>2, <2>1, <2>3, <3>1
  <2> QED BY <2>2, <2>3
<1>7. ASSUME \A g \in DOMAIN N.edges : x # N.edges[g], n = 0 PROVE n2 = 0
  BY <1>2, <1>7
<1>8. Tells(N, en, ta2, ca, x, n2)
  BY <1>3, <1>4, <1>5, <1>6, <1>7 DEF Tells
<1> QED BY <1>0, <1>8

\* One more time call p is made.
LEMMA CallTold ==
  ASSUME NEW N, KeysTell(N), NEW S, DOMAIN N.calls \subseteq S, NEW en, NEW ta, NEW ca \in [S -> Nat],
         NEW p \in S, NEW ca2, IsMoreAt(ca, p, ca2),
         NEW x, NEW n \in Int, Tells(N, en, ta, ca, x, n)
  PROVE  Tells(N, en, ta, ca2, x, n + Sign(p \in DOMAIN N.calls /\ x = N.calls[p]))
<1>0. PICK n2 : n2 = n + Sign(p \in DOMAIN N.calls /\ x = N.calls[p])
  OBVIOUS
<1>1. ca2[p] = ca[p] + 1 /\ \A q \in S : q # p => ca2[q] = ca[q]
  BY DEF IsMoreAt
<1>2. ASSUME ~ (p \in DOMAIN N.calls /\ x = N.calls[p]) PROVE n2 = n
  BY <1>0, <1>2 DEF Sign
<1>3. ASSUME NEW f \in DefinedIn(N.m), x = FunctionKey(f) PROVE n2 = en[EntryBlock(N.m, f)]
  <2>1. x[1] # "edge" /\ n = en[EntryBlock(N.m, f)]
    BY <1>3, KeyKinds DEF Tells
  <2> QED BY <1>2, <2>1 DEF KeysTell
<1>4. ASSUME NEW c \in Blocks(N.m), x = BlockKey(c) PROVE n2 = en[c]
  <2>1. x[1] # "edge" /\ n = en[c]
    BY <1>4, KeyKinds DEF Tells
  <2> QED BY <1>2, <2>1 DEF KeysTell
<1>5. ASSUME NEW e \in DOMAIN N.edges, x = N.edges[e] PROVE n2 = ta[e]
  <2>1. n = ta[e]
    BY <1>5 DEF Tells
  <2> QED BY <1>2, <1>5, <2>1 DEF KeysTell
<1>6. ASSUME NEW q \in DOMAIN N.calls, x = N.calls[q] PROVE n2 = ca2[q]
  <2>1. n = ca[q] /\ q \in S
    BY <1>6 DEF Tells
  <2>2. CASE q = p
    <3>1. Sign(p \in DOMAIN N.calls /\ x = N.calls[p]) = 1
      BY <1>6, <2>2 DEF Sign
    <3> QED BY <1>0, <1>1, <2>1, <2>2, <3>1
  <2>3. CASE q # p
    <3>1. ~ (p \in DOMAIN N.calls /\ x = N.calls[p])
      BY <1>6, <2>3 DEF KeysTell, OneToOne
    <3> QED BY <1>1, <1>2, <2>1, <2>3, <3>1
  <2> QED BY <2>2, <2>3
<1>7. ASSUME \A q \in DOMAIN N.calls : x # N.calls[q], n = 0 PROVE n2 = 0
  BY <1>2, <1>7
<1>8. Tells(N, en, ta, ca2, x, n2)
  BY <1>3, <1>4, <1>5, <1>6, <1>7 DEF Tells
<1> QED BY <1>0, <1>8

------------------------------------------------------------------------------
(***************************************************************************)
(* What is logged, and what the threads owe, makes what has happened.      *)
(***************************************************************************)
Told(late, early, log, ts, x) == Hits(log, Len(log), x) + Tally(late, early, ts, x)

Accounted(N, en, ta, ca, late, early, log, ts) ==
  \A x : Tells(N, en, ta, ca, x, Told(late, early, log, ts, x))

\* One thread goes on, one is started, a line is written.
LEMMA ToldSet ==
  ASSUME NEW late, NEW early, NEW S, NEW ts \in Seq(S), NEW t \in DOMAIN ts, NEW s,
         NEW us, us = With(ts, t, s), NEW R, NEW log \in Seq(R), NEW x, NEW d \in Int,
         DueOf(late, early, s, x) = DueOf(late, early, ts[t], x) + d
  PROVE  IsPaid(Told(late, early, log, ts, x), Told(late, early, log, us, x), d)
<1>1. PICK a, b : a = DueOf(late, early, ts[t], x) /\ b = DueOf(late, early, s, x)
  OBVIOUS
<1>2. PICK c, e, h : /\ c = Tally(late, early, ts, x) /\ e = Tally(late, early, us, x)
                     /\ h = Hits(log, Len(log), x)
  OBVIOUS
<1>3. a \in Int /\ b = a + d
  BY <1>1, DueType
<1>4. c \in Int /\ e \in Int /\ e = (c - a) + b
  BY <1>1, <1>2, TallySet
<1>5. h \in Nat
  BY <1>2, HitsCounted
<1>6. h + c \in Int /\ h + e = (h + c) + d
  BY <1>3, <1>4, <1>5
<1> QED BY <1>2, <1>6 DEF Told, IsPaid

LEMMA ToldMore ==
  ASSUME NEW late, NEW early, NEW S, NEW ts \in Seq(S), NEW s, NEW us, us = Append(ts, s),
         NEW R, NEW log \in Seq(R), NEW x, NEW d \in Int, DueOf(late, early, s, x) = d
  PROVE  IsPaid(Told(late, early, log, ts, x), Told(late, early, log, us, x), d)
<1>2. PICK c, e, h : /\ c = Tally(late, early, ts, x) /\ e = Tally(late, early, us, x)
                     /\ h = Hits(log, Len(log), x)
  OBVIOUS
<1>4. c \in Int /\ e \in Int /\ e = c + d
  <2>1. IsPaid(Tally(late, early, ts, x), Tally(late, early, us, x), DueOf(late, early, s, x))
    BY TallyMore
  <2>2. d \in Int
    OBVIOUS
  <2> QED BY <1>2, <2>1, <2>2 DEF IsPaid
<1>5. h \in Nat
  BY <1>2, HitsCounted
<1>6. h + c \in Int /\ h + e = (h + c) + d
  BY <1>4, <1>5
<1> QED BY <1>2, <1>6 DEF Told, IsPaid

LEMMA ToldLine ==
  ASSUME NEW late, NEW early, NEW S, NEW ts \in Seq(S), NEW R, NEW log \in Seq(R), NEW line \in R,
         NEW new, new = Append(log, line), NEW x
  PROVE  IsPaid(Told(late, early, log, ts, x), Told(late, early, new, ts, x), Sign(IsHit(line, x)))
<1>1. PICK c, h, g, d : /\ c = Tally(late, early, ts, x) /\ h = Hits(log, Len(log), x)
                        /\ g = Hits(new, Len(new), x) /\ d = Sign(IsHit(line, x))
  OBVIOUS
<1>2. c \in Int
  BY <1>1, OwingFinite DEF Tally
<1>3. h \in Nat /\ d \in Int /\ g = h + d
  <2>1. h \in Nat
    BY <1>1, HitsCounted
  <2>2. IsPaid(Hits(log, Len(log), x), Hits(new, Len(new), x), Sign(IsHit(line, x)))
    BY HitsMore
  <2>3. d \in Int
    BY <1>1 DEF Sign
  <2> QED BY <1>1, <2>1, <2>2, <2>3 DEF IsPaid
<1>4. h + c \in Int /\ g + c = (h + c) + d
  BY <1>2, <1>3
<1> QED BY <1>1, <1>4 DEF Told, IsPaid

\* A thread moves without anything that would be counted.
LEMMA MoveTold ==
  ASSUME NEW N, NEW en, NEW ta, NEW ca, NEW late, NEW early, NEW R, NEW log \in Seq(R),
         NEW S, NEW ts \in Seq(S), Accounted(N, en, ta, ca, late, early, log, ts),
         NEW t \in DOMAIN ts, NEW s, NEW us, us = With(ts, t, s),
         \A x : DueOf(late, early, s, x) = DueOf(late, early, ts[t], x)
  PROVE  Accounted(N, en, ta, ca, late, early, log, us)
<1> SUFFICES ASSUME NEW x PROVE Tells(N, en, ta, ca, x, Told(late, early, log, us, x))
  BY DEF Accounted
<1>1. DueOf(late, early, ts[t], x) \in Int
  BY DueType
<1>2. DueOf(late, early, s, x) = DueOf(late, early, ts[t], x) + 0
  BY <1>1
<1>3. IsPaid(Told(late, early, log, ts, x), Told(late, early, log, us, x), 0)
  BY <1>2, ToldSet
<1>4. Told(late, early, log, us, x) = Told(late, early, log, ts, x)
  BY <1>3 DEF IsPaid
<1> QED BY <1>4 DEF Accounted

\* It writes the line that it owes.
Writes(late, early, ts, us, line) ==
  \E t \in DOMAIN ts : \E s :
    /\ us = With(ts, t, s)
    /\ \A x : DueOf(late, early, ts[t], x) = DueOf(late, early, s, x) + Sign(IsHit(line, x))

LEMMA LineTold ==
  ASSUME NEW N, NEW en, NEW ta, NEW ca, NEW late, NEW early, NEW R, NEW log \in Seq(R),
         NEW S, NEW ts \in Seq(S), Accounted(N, en, ta, ca, late, early, log, ts),
         NEW us, NEW line \in R, NEW new, new = Append(log, line),
         Writes(late, early, ts, us, line)
  PROVE  Accounted(N, en, ta, ca, late, early, new, us)
<1>0. PICK t, s :
        /\ t \in DOMAIN ts
        /\ us = With(ts, t, s)
        /\ \A x : DueOf(late, early, ts[t], x) = DueOf(late, early, s, x) + Sign(IsHit(line, x))
  BY DEF Writes
<1> SUFFICES ASSUME NEW x PROVE Tells(N, en, ta, ca, x, Told(late, early, new, us, x))
  BY DEF Accounted
<1>1. PICK d : d = Sign(IsHit(line, x))
  OBVIOUS
<1>2. d \in Int /\ 0 - d \in Int
  BY <1>1 DEF Sign
<1>3. DueOf(late, early, s, x) \in Int
  BY DueType
<1>4. DueOf(late, early, s, x) = DueOf(late, early, ts[t], x) + (0 - d)
  BY <1>0, <1>1, <1>2, <1>3
<1>5. PICK a, b, c : /\ a = Told(late, early, log, ts, x) /\ b = Told(late, early, log, us, x)
                     /\ c = Told(late, early, new, us, x)
  OBVIOUS
<1>6. a \in Int /\ b = a + (0 - d)
  <2>1. IsPaid(a, b, 0 - d)
    BY <1>0, <1>2, <1>4, <1>5, ToldSet
  <2> QED BY <2>1 DEF IsPaid
<1>7. us \in Seq({us[k] : k \in DOMAIN us})
  <2>1. DOMAIN us = DOMAIN ts /\ us = [k \in DOMAIN ts |-> IF k = t THEN s ELSE ts[k]]
    BY <1>0 DEF With
  <2>2. PICK n \in Nat : DOMAIN ts = 1..n
    OBVIOUS
  <2>3. us \in [1..n -> {us[k] : k \in DOMAIN us}]
    BY <2>1, <2>2
  <2> QED BY <2>3
<1>8. c = b + d
  <2>1. IsPaid(b, c, d)
    BY <1>1, <1>5, <1>7, ToldLine
  <2> QED BY <2>1 DEF IsPaid
<1>9. c = a
  BY <1>2, <1>6, <1>8
<1> QED BY <1>5, <1>9 DEF Accounted

\* A line of text counts for nothing.
LEMMA TextTold ==
  ASSUME NEW N, NEW en, NEW ta, NEW ca, NEW late, NEW early, NEW R, NEW log \in Seq(R),
         NEW S, NEW ts \in Seq(S), Accounted(N, en, ta, ca, late, early, log, ts),
         NEW line \in R, ~ IsEvent(line), NEW new, new = Append(log, line)
  PROVE  Accounted(N, en, ta, ca, late, early, new, ts)
<1> SUFFICES ASSUME NEW x PROVE Tells(N, en, ta, ca, x, Told(late, early, new, ts, x))
  BY DEF Accounted
<1>1. Sign(IsHit(line, x)) = 0
  BY DEF Sign, IsHit
<1>2. IsPaid(Told(late, early, log, ts, x), Told(late, early, new, ts, x), Sign(IsHit(line, x)))
  BY ToldLine
<1>3. Told(late, early, new, ts, x) = Told(late, early, log, ts, x)
  BY <1>1, <1>2 DEF IsPaid
<1> QED BY <1>3 DEF Accounted

\* An edge is taken into block b.
Taking(N, e, b, x) == Is(x, BlockKey(b)) + Sign(e \in DOMAIN N.edges /\ x = N.edges[e])

Takes(N, E, late, early, ts, us, e, b) ==
  /\ e \in E /\ DOMAIN N.edges \subseteq E /\ b \in Blocks(N.m) /\ ~ IsEntryBlock(N.m, b)
  /\ \E t \in DOMAIN ts : \E s :
       /\ us = With(ts, t, s)
       /\ \A x : DueOf(late, early, s, x) = DueOf(late, early, ts[t], x) + Taking(N, e, b, x)

LEMMA FollowTold ==
  ASSUME NEW N, WellFormed(N.m), KeysTell(N), NEW en \in [Blocks(N.m) -> Nat],
         NEW E, NEW ta \in [E -> Nat], NEW ca,
         NEW late, NEW early, NEW R, NEW log \in Seq(R), NEW S, NEW ts \in Seq(S),
         Accounted(N, en, ta, ca, late, early, log, ts),
         NEW us, NEW e, NEW b, Takes(N, E, late, early, ts, us, e, b),
         NEW en2, IsMoreAt(en, b, en2), NEW ta2, IsMoreAt(ta, e, ta2)
  PROVE  Accounted(N, en2, ta2, ca, late, early, log, us)
<1>0. PICK t, s :
        /\ t \in DOMAIN ts
        /\ us = With(ts, t, s)
        /\ \A x : DueOf(late, early, s, x) = DueOf(late, early, ts[t], x) + Taking(N, e, b, x)
  BY DEF Takes
<1>10. e \in E /\ DOMAIN N.edges \subseteq E /\ b \in Blocks(N.m) /\ ~ IsEntryBlock(N.m, b)
  BY DEF Takes
<1> SUFFICES ASSUME NEW x PROVE Tells(N, en2, ta2, ca, x, Told(late, early, log, us, x))
  BY DEF Accounted
<1>1. PICK n, d, g : /\ n = Told(late, early, log, ts, x) /\ d = Is(x, BlockKey(b))
                     /\ g = Sign(e \in DOMAIN N.edges /\ x = N.edges[e])
  OBVIOUS
<1>2. d \in Int /\ g \in Int /\ d + g \in Int
  BY <1>1 DEF Is, Sign
<1>3. FirstOf(N.m, b, x) = 0
  BY <1>10 DEF FirstOf, Sign
<1>4. IsPaid(n, Told(late, early, log, us, x), d + g)
  BY <1>0, <1>1, <1>2, ToldSet DEF Taking
<1>5. n \in Int /\ Told(late, early, log, us, x) = (n + d) + g
  BY <1>2, <1>4 DEF IsPaid
<1>6. Tells(N, en, ta, ca, x, n)
  BY <1>1 DEF Accounted
<1>7. Tells(N, en2, ta, ca, x, n + d)
  <2>1. Tells(N, en2, ta, ca, x, (n + Is(x, BlockKey(b))) + FirstOf(N.m, b, x))
    BY <1>10, <1>5, <1>6, EntryTold
  <2>2. (n + Is(x, BlockKey(b))) + FirstOf(N.m, b, x) = n + d
    BY <1>1, <1>2, <1>3, <1>5
  <2> QED BY <2>1, <2>2
<1>8. n + d \in Int
  BY <1>2, <1>5
<1>9. Tells(N, en2, ta2, ca, x, (n + d) + g)
  BY <1>1, <1>7, <1>8, <1>10, EdgeTold
<1> QED BY <1>5, <1>9

\* A function whose first block is b is entered, in the same thread or in one more.
Entering(N, b, x) == Is(x, BlockKey(b)) + FirstOf(N.m, b, x)

Enters(N, late, early, ts, us, b) ==
  /\ b \in Blocks(N.m)
  /\ \/ \E t \in DOMAIN ts : \E s :
          /\ us = With(ts, t, s)
          /\ \A x : DueOf(late, early, s, x)
                      = DueOf(late, early, ts[t], x) + Entering(N, b, x)
     \/ \E s : /\ us = Append(ts, s)
               /\ \A x : DueOf(late, early, s, x) = Entering(N, b, x)

LEMMA EnteredTold ==
  ASSUME NEW N, WellFormed(N.m), KeysTell(N), NEW en \in [Blocks(N.m) -> Nat], NEW ta, NEW ca,
         NEW late, NEW early, NEW R, NEW log \in Seq(R), NEW S, NEW ts \in Seq(S),
         Accounted(N, en, ta, ca, late, early, log, ts), NEW us, NEW b,
         Enters(N, late, early, ts, us, b), NEW en2, IsMoreAt(en, b, en2)
  PROVE  Accounted(N, en2, ta, ca, late, early, log, us)
<1> SUFFICES ASSUME NEW x PROVE Tells(N, en2, ta, ca, x, Told(late, early, log, us, x))
  BY DEF Accounted
<1>1. PICK n, d, g : /\ n = Told(late, early, log, ts, x) /\ d = Is(x, BlockKey(b))
                     /\ g = FirstOf(N.m, b, x)
  OBVIOUS
<1>2. d \in Int /\ g \in Int /\ d + g \in Int /\ Entering(N, b, x) = d + g
  BY <1>1 DEF Is, Sign, FirstOf, Entering
<1>3. IsPaid(n, Told(late, early, log, us, x), d + g)
  <2>1. ASSUME NEW t \in DOMAIN ts, NEW s, us = With(ts, t, s),
               DueOf(late, early, s, x) = DueOf(late, early, ts[t], x) + Entering(N, b, x)
        PROVE  IsPaid(n, Told(late, early, log, us, x), d + g)
    BY <1>1, <1>2, <2>1, ToldSet
  <2>2. ASSUME NEW s, us = Append(ts, s), DueOf(late, early, s, x) = Entering(N, b, x)
        PROVE  IsPaid(n, Told(late, early, log, us, x), d + g)
    BY <1>1, <1>2, <2>2, ToldMore
  <2> QED BY <2>1, <2>2 DEF Enters
<1>4. n \in Int /\ Told(late, early, log, us, x) = (n + d) + g
  BY <1>2, <1>3 DEF IsPaid
<1>5. Tells(N, en, ta, ca, x, n)
  BY <1>1 DEF Accounted
<1>6. Tells(N, en2, ta, ca, x, (n + d) + g)
  BY <1>1, <1>4, <1>5, EntryTold DEF Enters
<1> QED BY <1>4, <1>6

\* A call, at p, enters a function.
EntersBy(N, P, late, early, ts, us, b, p) ==
  /\ p \in P /\ DOMAIN N.calls \subseteq P /\ b \in Blocks(N.m)
  /\ \E t \in DOMAIN ts : \E s :
       /\ us = With(ts, t, s)
       /\ \A x : DueOf(late, early, s, x)
                   = DueOf(late, early, ts[t], x)
                       + (Entering(N, b, x) + Sign(p \in DOMAIN N.calls /\ x = N.calls[p]))

LEMMA CalledTold ==
  ASSUME NEW N, WellFormed(N.m), KeysTell(N), NEW en \in [Blocks(N.m) -> Nat], NEW ta,
         NEW P, NEW ca \in [P -> Nat],
         NEW late, NEW early, NEW R, NEW log \in Seq(R), NEW S, NEW ts \in Seq(S),
         Accounted(N, en, ta, ca, late, early, log, ts),
         NEW us, NEW b, NEW p, EntersBy(N, P, late, early, ts, us, b, p),
         NEW en2, IsMoreAt(en, b, en2), NEW ca2, IsMoreAt(ca, p, ca2)
  PROVE  Accounted(N, en2, ta, ca2, late, early, log, us)
<1>0. PICK t, s :
        /\ t \in DOMAIN ts
        /\ us = With(ts, t, s)
        /\ \A x : DueOf(late, early, s, x)
                    = DueOf(late, early, ts[t], x)
                        + (Entering(N, b, x) + Sign(p \in DOMAIN N.calls /\ x = N.calls[p]))
  BY DEF EntersBy
<1>8. p \in P /\ DOMAIN N.calls \subseteq P /\ b \in Blocks(N.m)
  BY DEF EntersBy
<1> SUFFICES ASSUME NEW x PROVE Tells(N, en2, ta, ca2, x, Told(late, early, log, us, x))
  BY DEF Accounted
<1>1. PICK n, d, g, h : /\ n = Told(late, early, log, ts, x) /\ d = Is(x, BlockKey(b))
                        /\ g = FirstOf(N.m, b, x)
                        /\ h = Sign(p \in DOMAIN N.calls /\ x = N.calls[p])
  OBVIOUS
<1>2. d \in Int /\ g \in Int /\ h \in Int /\ (d + g) + h \in Int /\ Entering(N, b, x) = d + g
  BY <1>1 DEF Is, Sign, FirstOf, Entering
<1>3. IsPaid(n, Told(late, early, log, us, x), (d + g) + h)
  BY <1>0, <1>1, <1>2, ToldSet
<1>4. n \in Int /\ Told(late, early, log, us, x) = ((n + d) + g) + h /\ (n + d) + g \in Int
  BY <1>2, <1>3 DEF IsPaid
<1>5. Tells(N, en, ta, ca, x, n)
  BY <1>1 DEF Accounted
<1>6. Tells(N, en2, ta, ca, x, (n + d) + g)
  BY <1>1, <1>4, <1>5, <1>8, EntryTold
<1>7. Tells(N, en2, ta, ca2, x, ((n + d) + g) + h)
  BY <1>1, <1>4, <1>6, <1>8, CallTold
<1> QED BY <1>4, <1>7

------------------------------------------------------------------------------
(***************************************************************************)
(* The debts of the places of the code: how the items of a block change    *)
(* what a thread owes there.                                               *)
(***************************************************************************)
LogKey(item) == <<MapOfEvent[item.event], item.id>>
FirstOfBlock(c) == <<c, 1>>

\* What is owed at q is what is owed at p.
Passes(L, E, p, q) == \A x : Due(L, E, p, x) = Due(L, E, q, x)
Clear(L, E, p) == L[p] = {} /\ E[p] = {}

\* Of one kind only one key is owed at a time; what is logged early is an edge.
KindsOwed(N, late, early) ==
  /\ late \cap early = {}
  /\ \A x, y \in late \cup early : x[1] = y[1] => x = y
  /\ \A x \in early : x[1] = "edge"
  /\ \A x \in late : x[1] = "edge" => \E e \in DOMAIN N.edges : x = N.edges[e]

OwesLog(L, E, p) ==
  ItemAt(p).kind = "log" =>
    \A x : Due(L, E, p, x) = Due(L, E, NextItem(p), x) + Is(x, LogKey(ItemAt(p)))
OwesGoto(L, E, p) == ItemAt(p) = Goto => Passes(L, E, p, FirstOfBlock(succs[p[1]][1]))
OwesStraight(L, E, p) ==
  OpAt(p) \in {"phi", "landingpad", "other"} => Passes(L, E, p, NextItem(p))
OwesCall(L, E, p) ==
  OpAt(p) \in {"call", "invoke"} =>
    /\ L[p] = {}
    /\ \A x : x \in E[p] <=> ItemAt(p).at \in DOMAIN Keys.calls /\ x = Keys.calls[ItemAt(p).at]
    /\ OpAt(p) = "call" => Clear(L, E, NextItem(p))
OwesReturn(L, E, p) == OpAt(p) = "ret" => Clear(L, E, p)

\* What is owed behind a terminator: the entry of the block it leads to, and the
\* edge, unless that has been logged before.
Leaving(L, E, p, x) == IF OpAt(p) = "invoke" THEN 0 ELSE Due(L, E, p, x)
OwesBranch(L, E, p) ==
  OpAt(p) \in {"br", "switch", "invoke"} =>
    \A k \in DOMAIN succs[p[1]] :
      LET e == <<ItemAt(p).at[1], k>> IN
        \A x : Due(L, E, FirstOfBlock(succs[p[1]][k]), x)
                 = Leaving(L, E, p, x) + Taking(Keys, e, EdgeTarget(module, e), x)
OwesStart(L, E, f) ==
  \A x : Due(L, E, FirstOfBlock(EntryBlock(module, f)), x)
           = Entering(Keys, EntryBlock(module, f), x)

OwesAt(L, E, p) ==
  /\ KindsOwed(Keys, L[p], E[p])
  /\ OwesLog(L, E, p) /\ OwesGoto(L, E, p) /\ OwesStraight(L, E, p) /\ OwesCall(L, E, p)
  /\ OwesReturn(L, E, p) /\ OwesBranch(L, E, p)

Debts(L, E) ==
  /\ \A p \in CodePlaces : OwesAt(L, E, p)
  /\ \A f \in DefinedIn(module) : OwesStart(L, E, f)

LEMMA KeysStay ==
  ASSUME UNCHANGED buildVars
  PROVE  Keys' = Keys
<1>1. /\ module' = module /\ functionIds' = functionIds /\ basicBlockIds' = basicBlockIds
      /\ callEdgeIds' = callEdgeIds /\ cfgEdgeIds' = cfgEdgeIds
      /\ instructionNodeIds' = instructionNodeIds
  BY DEF buildVars, builderVars, graphVars, idVars, infoVars
<1>2. DirectCalls' = DirectCalls /\ CallIds' = CallIds
  BY <1>1 DEF DirectCalls, CallIds, CallKey
<1>3. LoggedEdges' = LoggedEdges /\ CfgLogOf' = CfgLogOf
  BY <1>1 DEF LoggedEdges, IsLogged, IsSupportedControlFlowTerminator, CfgKey, CfgLogOf
<1> QED BY <1>1, <1>2, <1>3 DEF Keys

LEMMA DebtsStay ==
  ASSUME NEW L, NEW E, Debts(L, E), UNCHANGED buildVars
  PROVE  Debts(L, E)'
<1>1. Keys' = Keys /\ CodePlaces' = CodePlaces
  BY KeysStay, CodeStays
<1>2. module' = module /\ code' = code /\ succs' = succs
  BY DEF buildVars, builderVars, injectVars
<1>3. \A p : ItemAt(p)' = ItemAt(p) /\ OpAt(p)' = OpAt(p)
  BY <1>2 DEF ItemAt, OpAt, OpOf
<1>4. \A p : /\ OwesLog(L, E, p)' = OwesLog(L, E, p) /\ OwesGoto(L, E, p)' = OwesGoto(L, E, p)
             /\ OwesStraight(L, E, p)' = OwesStraight(L, E, p)
  BY <1>2, <1>3 DEF OwesLog, OwesGoto, OwesStraight
<1>5. \A p : /\ OwesCall(L, E, p)' = OwesCall(L, E, p) /\ OwesReturn(L, E, p)' = OwesReturn(L, E, p)
             /\ KindsOwed(Keys, L[p], E[p])' = KindsOwed(Keys, L[p], E[p])
  BY <1>1, <1>3 DEF OwesCall, OwesReturn, KindsOwed
<1>6. \A p : OwesBranch(L, E, p)' = OwesBranch(L, E, p)
  BY <1>1, <1>2, <1>3 DEF OwesBranch, Leaving, Taking
<1>7. \A p : OwesAt(L, E, p)' = OwesAt(L, E, p)
  BY <1>4, <1>5, <1>6 DEF OwesAt
<1>8. \A f : OwesStart(L, E, f)' = OwesStart(L, E, f)
  BY <1>1, <1>2 DEF OwesStart, Entering
<1> QED BY <1>1, <1>2, <1>7, <1>8 DEF Debts

(***************************************************************************)
(* The books of a run.                                                     *)
(***************************************************************************)
ClearThread(L, E, ts) == \E t \in DOMAIN ts : ts[t] # <<>> /\ Clear(L, E, Last(ts[t]))

\* Of a log that has been cut, no more is there than happened, but for one event.
NoMuchMore(N, en, ta, ca, L, E, log, ts) ==
  \E c : \A x : \E n \in Int : /\ Tells(N, en, ta, ca, x, n)
                               /\ Told(L, E, log, ts, x) <= n + Is(x, c)

CountersOK == /\ lineOpen = FALSE
              /\ taken \in [CfgEdges(module) -> Nat] /\ called \in [Pointers(module) -> Nat]

InBooks(L, E) ==
  /\ status # "quit" => Accounted(Keys, entered, taken, called, L, E, stdout, threads)
  /\ status \in {"exited", "quit"} => ClearThread(L, E, threads)
  /\ status = "quit" => NoMuchMore(Keys, entered, taken, called, L, E, stdout, threads)

Books(L, E) == CountersOK /\ InBooks(L, E)

\* A step of a run whose books are right, and what it must keep.
Booked(L, E) ==
  /\ Running /\ KeysTell(Keys) /\ Debts(L, E) /\ Books(L, E)
  /\ "open" \notin Texts

CountersKept == /\ lineOpen' = FALSE
                /\ taken' \in [CfgEdges(module) -> Nat] /\ called' \in [Pointers(module) -> Nat]

BooksKept(L, E) ==
  /\ CountersKept
  /\ status' # "quit" => Accounted(Keys, entered', taken', called', L, E, stdout', threads')
  /\ status' \in {"exited", "quit"} => ClearThread(L, E, threads')
  /\ status' = "quit" => NoMuchMore(Keys, entered', taken', called', L, E, stdout', threads')

LEMMA WhatIsBooked ==
  ASSUME NEW L, NEW E, Booked(L, E)
  PROVE  /\ Runnable /\ Logging /\ EntriesOK /\ WellFormed(module) /\ status = "running"
         /\ threads \in Seq(Seq(CodePlaces)) /\ stdout \in Seq(AnyLines)
         /\ Keys.m = module /\ DOMAIN Keys.calls = DirectCalls /\ DOMAIN Keys.edges = LoggedEdges
         /\ DirectCalls \subseteq Pointers(module) /\ LoggedEdges \subseteq CfgEdges(module)
         /\ KeysTell(Keys) /\ CountersOK
         /\ Accounted(Keys, entered, taken, called, L, E, stdout, threads)
         /\ \A p \in CodePlaces : OwesAt(L, E, p)
<1>1. Runnable /\ Logging /\ EntriesOK /\ WellFormed(module)
  BY DEF Booked, Running, RunInv, Runnable
<1>2. threads \in Seq(Seq(CodePlaces)) /\ stdout \in Seq(AnyLines)
  BY <1>1 DEF Logging, ThreadsOK
<1>3. Accounted(Keys, entered, taken, called, L, E, stdout, threads) /\ status = "running"
  BY DEF Booked, Books, InBooks, Running
<1> QED BY <1>1, <1>2, <1>3, KeyFields DEF Booked, Books, Debts

\* What a thread owes, and what it will.
LEMMA TopOwes ==
  ASSUME NEW L, NEW E, Booked(L, E), NEW t \in Live
  PROVE  /\ t \in DOMAIN threads /\ threads[t] # <<>> /\ StackOK(CodePlaces, CallPlaces, threads[t])
         /\ threads[t] \in Seq(CodePlaces)
         /\ At(t) = Last(threads[t]) /\ At(t) \in CodePlaces /\ Item(t) = ItemAt(At(t))
         /\ OwesAt(L, E, At(t)) /\ OpOf(Item(t)) = OpAt(At(t))
         /\ \A x : DueOf(L, E, threads[t], x) = Due(L, E, At(t), x)
         /\ \A x : Due(L, E, At(t), x) \in Int
<1>1. /\ t \in DOMAIN threads /\ threads[t] # <<>> /\ StackOK(CodePlaces, CallPlaces, threads[t])
      /\ At(t) \in CodePlaces /\ Item(t) = ItemAt(At(t))
  BY ThreadItem, WhatIsBooked
<1>2. threads[t] \in Seq(CodePlaces)
  BY <1>1 DEF StackOK
<1>3. At(t) = Last(threads[t])
  BY DEF At
<1>4. \A x : DueOf(L, E, threads[t], x) = Due(L, E, At(t), x)
  BY <1>1, <1>3 DEF DueOf
<1>5. \A x : Due(L, E, At(t), x) \in Int
  BY DEF Due, Sign
<1>6. OwesAt(L, E, At(t)) /\ OpOf(Item(t)) = OpAt(At(t))
  BY <1>1, WhatIsBooked DEF OpAt
<1> QED BY <1>1, <1>2, <1>3, <1>4, <1>5, <1>6

\* What a stack owes with a frame at p on top.
LEMMA PutOwes ==
  ASSUME NEW S, NEW L, NEW E, NEW s \in Seq(S), NEW p \in S
  PROVE  \A x : DueOf(L, E, Append(s, p), x) = Due(L, E, p, x)
<1>1. PICK u : u = Append(s, p)
  OBVIOUS
<1>2. u # <<>> /\ Last(u) = p
  BY <1>1 DEF Last
<1> QED BY <1>1, <1>2 DEF DueOf

------------------------------------------------------------------------------
(***************************************************************************)
(* The steps of the program, booked.  First what they write, then where    *)
(* the threads go.                                                         *)
(***************************************************************************)
Written(L, E) ==
  /\ stdout' \in Seq(AnyLines) /\ lineOpen' = FALSE
  /\ Accounted(Keys, entered, taken, called, L, E, stdout', threads)

Paid(L, E) ==
  CountersKept /\ Accounted(Keys, entered', taken', called', L, E, stdout', threads')

LEMMA SetIsWith ==
  ASSUME NEW t, NEW s, SetStack(t, s)
  PROVE  threads' = With(threads, t, s)
BY DEF SetStack, With

LEMMA NothingWritten ==
  ASSUME NEW L, NEW E, Booked(L, E), Quiet
  PROVE  Written(L, E)
<1>1. stdout' = stdout /\ lineOpen' = lineOpen /\ lineOpen = FALSE
  BY WhatIsBooked DEF Quiet, CountersOK
<1> QED BY <1>1, WhatIsBooked DEF Written

LEMMA TextWritten ==
  ASSUME NEW L, NEW E, Booked(L, E), NEW text \in Texts, WriteText(text)
  PROVE  Written(L, E)
<1>1. text \in {"none", "line"}
  BY RunAssumption DEF Booked
<1>2. CASE text = "none"
  BY <1>2, NothingWritten DEF WriteText
<1>3. CASE text = "line"
  <2>1. TextLine \in AnyLines /\ ~ IsEvent(TextLine)
    BY WhatIsBooked, LinesAreKnown DEF Runnable
  <2>2. stdout' = Append(stdout, TextLine) /\ lineOpen' = FALSE
    BY <1>3 DEF WriteText
  <2>3. PICK N, en, ta, ca, log, ts, R, S, line :
          /\ N = Keys /\ en = entered /\ ta = taken /\ ca = called /\ log = stdout /\ ts = threads
          /\ R = AnyLines /\ S = Seq(CodePlaces) /\ line = TextLine
    OBVIOUS
  <2>4. log \in Seq(R) /\ ts \in Seq(S) /\ Accounted(N, en, ta, ca, L, E, log, ts)
    BY <2>3, WhatIsBooked
  <2>5. Accounted(N, en, ta, ca, L, E, Append(log, line), ts)
    BY <2>1, <2>3, <2>4, TextTold
  <2>6. Append(log, line) \in Seq(R)
    BY <2>1, <2>3, <2>4
  <2> QED BY <2>2, <2>3, <2>5, <2>6 DEF Written
<1> QED BY <1>1, <1>2, <1>3

LEMMA MovePaid ==
  ASSUME NEW L, NEW E, Booked(L, E), Written(L, E), NEW t \in DOMAIN threads, NEW s, SetStack(t, s),
         UNCHANGED <<entered, taken, called>>,
         \A x : DueOf(L, E, s, x) = DueOf(L, E, threads[t], x)
  PROVE  Paid(L, E)
<1>1. PICK N, en, ta, ca, log, ts, us, R, S :
        /\ N = Keys /\ en = entered /\ ta = taken /\ ca = called /\ log = stdout' /\ ts = threads
        /\ R = AnyLines /\ S = Seq(CodePlaces) /\ us = threads'
  OBVIOUS
<1>2. log \in Seq(R) /\ ts \in Seq(S) /\ Accounted(N, en, ta, ca, L, E, log, ts)
  BY <1>1, WhatIsBooked DEF Written
<1>3. us = With(ts, t, s)
  BY <1>1, SetIsWith
<1>4. \A x : DueOf(L, E, s, x) = DueOf(L, E, ts[t], x)
  BY <1>1
<1>5. t \in DOMAIN ts
  BY <1>1
<1>6. Accounted(N, en, ta, ca, L, E, log, us)
  BY <1>2, <1>3, <1>4, <1>5, MoveTold
<1>7. CountersKept
  BY WhatIsBooked DEF Written, CountersOK, CountersKept
<1> QED BY <1>1, <1>6, <1>7 DEF Paid

\* A counter with one more.
LEMMA CountsOn ==
  ASSUME NEW S, NEW f \in [S -> Nat], NEW k \in S, NEW g, IsMoreAt(f, k, g)
  PROVE  g \in [S -> Nat]
BY DEF IsMoreAt

LEMMA FollowPaid ==
  ASSUME NEW L, NEW E, Booked(L, E), Written(L, E), NEW t \in DOMAIN threads,
         NEW below \in Seq(CodePlaces), NEW place \in CodePlaces,
         OpAt(place) \in {"br", "switch", "invoke"}, NEW k \in DOMAIN succs[place[1]],
         Follow(t, below, place, k),
         \A x : Leaving(L, E, place, x) = DueOf(L, E, threads[t], x)
  PROVE  Paid(L, E)
<1>1. PICK e, b, p, s : /\ e = <<ItemAt(place).at[1], k>> /\ b = EdgeTarget(module, e)
                        /\ p = <<succs[place[1]][k], 1>> /\ s = Append(below, p)
  OBVIOUS
<1>2. OpAt(place) \in Terminators
  BY DEF Terminators
<1>3. /\ ItemAt(place).at[1] \in Blocks(module) /\ e \in CfgEdges(module) /\ b \in Blocks(module)
      /\ p \in CodePlaces
      /\ DOMAIN succs[place[1]] = 1..Len(Successors(module, ItemAt(place).at[1]))
  BY <1>1, <1>2, WhatIsBooked, TerminatorFacts
<1>4. ~ IsEntryBlock(module, b)
  <2>1. \A a \in Blocks(module) : \A j \in 1..Len(Successors(module, a)) :
          ~ IsEntryBlock(module, Successors(module, a)[j])
    BY WhatIsBooked DEF WellFormed
  <2>2. b = Successors(module, ItemAt(place).at[1])[k]
    BY <1>1 DEF EdgeTarget
  <2> QED BY <1>3, <2>1, <2>2
<1>5. PICK N, en, ta, ca, log, ts, us, R, S, en2, ta2 :
        /\ N = Keys /\ en = entered /\ ta = taken /\ ca = called /\ log = stdout' /\ ts = threads
        /\ R = AnyLines /\ S = Seq(CodePlaces) /\ us = threads' /\ en2 = entered' /\ ta2 = taken'
  OBVIOUS
<1>6. PICK T : T = CfgEdges(module)
  OBVIOUS
<1>7. /\ log \in Seq(R) /\ ts \in Seq(S) /\ Accounted(N, en, ta, ca, L, E, log, ts) /\ N.m = module
      /\ WellFormed(N.m) /\ KeysTell(N) /\ DOMAIN N.edges \subseteq T
      /\ en \in [Blocks(N.m) -> Nat] /\ ta \in [T -> Nat] /\ t \in DOMAIN ts /\ e \in T
      /\ b \in Blocks(N.m) /\ ~ IsEntryBlock(N.m, b)
  BY <1>3, <1>4, <1>5, <1>6, WhatIsBooked DEF Written, CountersOK, EntriesOK
<1>8. us = With(ts, t, s) /\ IsMoreAt(en, b, en2) /\ IsMoreAt(ta, e, ta2)
  <2>1. SetStack(t, s) /\ entered' = Entered(b) /\ taken' = [taken EXCEPT ![e] = @ + 1]
    BY <1>1 DEF Follow
  <2> QED BY <1>5, <2>1, SetIsWith DEF Entered, IsMoreAt
<1>9. \A x : DueOf(L, E, s, x) = DueOf(L, E, ts[t], x) + Taking(N, e, b, x)
  <2>1. OwesBranch(L, E, place)
    BY WhatIsBooked DEF OwesAt
  <2>2. \A x : Due(L, E, p, x) = Leaving(L, E, place, x) + Taking(N, e, b, x)
    BY <1>1, <1>5, <2>1 DEF OwesBranch, FirstOfBlock
  <2>3. \A x : DueOf(L, E, s, x) = Due(L, E, p, x)
    BY <1>1, <1>3, PutOwes
  <2> QED BY <1>5, <2>2, <2>3
<1>10. Accounted(N, en2, ta2, ca, L, E, log, us)
  <2>1. Takes(N, T, L, E, ts, us, e, b)
    BY <1>7, <1>8, <1>9 DEF Takes
  <2> QED BY <1>7, <1>8, <2>1, FollowTold
<1>11. called' = called
  BY DEF Follow
<1>12. ta2 \in [T -> Nat]
  BY <1>7, <1>8, CountsOn
<1>13. CountersKept
  BY <1>5, <1>6, <1>11, <1>12, WhatIsBooked DEF Written, CountersOK, CountersKept
<1> QED BY <1>5, <1>10, <1>11, <1>13 DEF Paid

\* Nothing is owed at a place that is clear.
LEMMA ClearOwes ==
  ASSUME NEW L, NEW E, NEW p, Clear(L, E, p)
  PROVE  \A x : Due(L, E, p, x) = 0
BY DEF Clear, Due, Sign

\* A call that has returned, when the thread that goes on owes nothing.
LEMMA ResumePaid ==
  ASSUME NEW L, NEW E, Booked(L, E), Written(L, E), NEW t \in DOMAIN threads,
         NEW s \in Seq(CodePlaces), s # <<>>, Last(s) \in CallPlaces, Resume(t, s),
         \A x : DueOf(L, E, threads[t], x) = 0
  PROVE  Paid(L, E)
<1>1. PICK place, below : place = Last(s) /\ below = Front(s)
  OBVIOUS
<1>2. place \in CodePlaces /\ OpAt(place) \in {"call", "invoke"} /\ below \in Seq(CodePlaces)
  <2>1. PICK P : P = CodePlaces
    OBVIOUS
  <2>2. Front(s) \in Seq(P)
    BY <2>1, FrontLast
  <2> QED BY <1>1, <2>1, <2>2 DEF CallPlaces
<1>3. CASE OpAt(place) = "invoke"
  <2>1. OpAt(place) \in Terminators
    BY <1>3 DEF Terminators
  <2>2. 1 \in DOMAIN succs[place[1]]
    BY <1>2, <1>3, <2>1, TerminatorFacts, WhatIsBooked
  <2>3. Follow(t, below, place, 1)
    BY <1>1, <1>3 DEF Resume
  <2>4. \A x : Leaving(L, E, place, x) = DueOf(L, E, threads[t], x)
    BY <1>3 DEF Leaving
  <2> QED BY <1>2, <1>3, <2>2, <2>3, <2>4, FollowPaid
<1>4. CASE OpAt(place) = "call"
  <2>1. PICK p, u : p = NextItem(place) /\ u = Append(below, p)
    OBVIOUS
  <2>2. p \in CodePlaces
    <3>1. OpAt(place) \notin Terminators /\ ItemAt(place) # Goto
      BY <1>4, LogTypes DEF Terminators, OpAt, OpOf
    <3> QED BY <1>2, <2>1, <3>1, PlaceFacts, WhatIsBooked
  <2>3. SetStack(t, u) /\ UNCHANGED <<entered, taken, called>>
    BY <1>1, <1>4, <2>1 DEF Resume
  <2>4. OwesCall(L, E, place)
    BY <1>2, WhatIsBooked DEF OwesAt
  <2>5. \A x : Due(L, E, p, x) = 0
    BY <1>4, <2>1, <2>4, ClearOwes DEF OwesCall
  <2>6. \A x : DueOf(L, E, u, x) = Due(L, E, p, x)
    BY <1>2, <2>1, <2>2, PutOwes
  <2> QED BY <2>3, <2>5, <2>6, MovePaid
<1> QED BY <1>2, <1>3, <1>4

\* Where a thread owes the same, it goes on.
LEMMA GoesOn ==
  ASSUME NEW L, NEW E, Booked(L, E), NEW t \in Live, Quiet, NEW p \in CodePlaces,
         MoveTo(t, p), Passes(L, E, At(t), p)
  PROVE  BooksKept(L, E)
<1>1. PICK s, u : s = Front(threads[t]) /\ u = Append(s, p)
  OBVIOUS
<1>2. s \in Seq(CodePlaces)
  <2>1. PICK P, v : P = CodePlaces /\ v = threads[t]
    OBVIOUS
  <2>2. Front(v) \in Seq(P)
    BY <2>1, TopOwes, FrontLast
  <2> QED BY <1>1, <2>1, <2>2
<1>3. SetStack(t, u) /\ UNCHANGED <<status, entered, taken, called>>
  BY <1>1 DEF MoveTo
<1>4. \A x : DueOf(L, E, u, x) = DueOf(L, E, threads[t], x)
  <2>1. \A x : DueOf(L, E, u, x) = Due(L, E, p, x)
    BY <1>1, <1>2, PutOwes
  <2> QED BY <2>1, TopOwes DEF Passes
<1>5. Paid(L, E)
  BY <1>3, <1>4, NothingWritten, MovePaid, TopOwes
<1> QED BY <1>3, <1>5, WhatIsBooked DEF Paid, BooksKept

LEMMA WriteLogBooked ==
  ASSUME NEW L, NEW E, Booked(L, E), NEW t \in Live, WriteLog(t)
  PROVE  BooksKept(L, E)
<1>1. /\ At(t) \in CodePlaces /\ Item(t) = ItemAt(At(t)) /\ Item(t).kind = "log"
      /\ t \in DOMAIN threads /\ threads[t] \in Seq(CodePlaces) /\ threads[t] # <<>>
  BY TopOwes DEF WriteLog
<1>2. Item(t) \in KnownLogs
  <2>1. Item(t) \in KnownItems
    BY <1>1, WhatIsBooked, PlaceFacts
  <2> QED BY <1>1, <2>1, OriginalTypes, LogTypes DEF KnownItems
<1>3. NextItem(At(t)) \in CodePlaces
  <2>1. Item(t) # Goto /\ OpAt(At(t)) = "none"
    BY <1>1, <1>2, LogTypes DEF OpAt, OpOf, KnownLogs
  <2> QED BY <1>1, <2>1, WhatIsBooked, PlaceFacts DEF Terminators
<1>4. PICK N, en, ta, ca, log, ts, us, R, S, line, q, s :
        /\ N = Keys /\ en = entered /\ ta = taken /\ ca = called /\ log = stdout /\ ts = threads
        /\ R = AnyLines /\ S = Seq(CodePlaces) /\ us = threads'
        /\ line = [event |-> Item(t).event, id |-> Item(t).id] /\ q = NextItem(At(t))
        /\ s = Append(Front(threads[t]), q)
  OBVIOUS
<1>5. stdout' = Append(log, line) /\ lineOpen' = FALSE
  BY <1>4, WhatIsBooked DEF WriteLog, CountersOK
<1>6. line \in R /\ IsEvent(line)
  BY <1>2, <1>4, WhatIsBooked, LinesAreKnown DEF Runnable
<1>7. SetStack(t, s) /\ UNCHANGED <<status, entered, taken, called>>
  BY <1>4 DEF WriteLog, MoveTo
<1>8. \A x : DueOf(L, E, ts[t], x) = DueOf(L, E, s, x) + Sign(IsHit(line, x))
  <2>1. \A x : DueOf(L, E, s, x) = Due(L, E, q, x)
    <3>1. PICK P, v : P = CodePlaces /\ v = threads[t]
      OBVIOUS
    <3>2. Front(v) \in Seq(P)
      BY <1>1, <3>1, FrontLast
    <3>3. q \in P /\ s = Append(Front(v), q)
      BY <1>3, <1>4, <3>1
    <3> QED BY <3>2, <3>3, PutOwes
  <2>2. \A x : Due(L, E, At(t), x) = Due(L, E, q, x) + Is(x, LogKey(ItemAt(At(t))))
    BY <1>1, <1>4, TopOwes DEF OwesAt, OwesLog
  <2>3. \A x : Sign(IsHit(line, x)) = Is(x, LogKey(ItemAt(At(t))))
    <3>1. KeyOf(line) = LogKey(ItemAt(At(t)))
      BY <1>1, <1>4 DEF KeyOf, LogKey
    <3> QED BY <1>6, <3>1 DEF IsHit, Is, Sign
  <2> QED BY <1>4, <2>1, <2>2, <2>3, TopOwes
<1>9. Accounted(N, en, ta, ca, L, E, Append(log, line), us)
  <2>1. log \in Seq(R) /\ ts \in Seq(S) /\ Accounted(N, en, ta, ca, L, E, log, ts) /\ t \in DOMAIN ts
    BY <1>1, <1>4, WhatIsBooked
  <2>2. us = With(ts, t, s)
    BY <1>4, <1>7, SetIsWith
  <2>3. PICK new : new = Append(log, line)
    OBVIOUS
  <2>4. Accounted(N, en, ta, ca, L, E, new, us)
    <3>1. Writes(L, E, ts, us, line)
      BY <1>8, <2>1, <2>2 DEF Writes
    <3> QED BY <1>6, <2>1, <2>3, <3>1, LineTold
  <2> QED BY <2>3, <2>4
<1>10. CountersKept
  BY <1>5, <1>7, WhatIsBooked DEF CountersOK, CountersKept
<1> QED BY <1>4, <1>5, <1>7, <1>9, <1>10, WhatIsBooked DEF BooksKept

LEMMA FollowGotoBooked ==
  ASSUME NEW L, NEW E, Booked(L, E), NEW t \in Live, FollowGoto(t)
  PROVE  BooksKept(L, E)
<1>1. At(t) \in CodePlaces /\ Item(t) = ItemAt(At(t)) /\ Item(t).kind = "goto"
  BY TopOwes DEF FollowGoto
<1>2. ItemAt(At(t)) = Goto
  <2>1. Item(t) \in KnownItems
    BY <1>1, WhatIsBooked, PlaceFacts
  <2> QED BY <1>1, <2>1, OriginalTypes, LogTypes DEF KnownItems, KnownLogs, IsOriginal
<1>3. PICK q : q = FirstOfBlock(succs[At(t)[1]][1])
  OBVIOUS
<1>4. q \in CodePlaces
  BY <1>1, <1>2, <1>3, WhatIsBooked, PlaceFacts DEF FirstOfBlock
<1>5. Passes(L, E, At(t), q)
  BY <1>2, <1>3, TopOwes DEF OwesAt, OwesGoto
<1> QED BY <1>3, <1>4, <1>5, GoesOn DEF FollowGoto, FirstOfBlock

LEMMA StraightBooked ==
  ASSUME NEW L, NEW E, Booked(L, E), NEW t \in Live, Straight(t)
  PROVE  BooksKept(L, E)
<1>1. /\ At(t) \in CodePlaces /\ Item(t) = ItemAt(At(t))
      /\ OpAt(At(t)) \in {"phi", "landingpad", "other"}
  BY TopOwes DEF Straight
<1>2. PICK q : q = NextItem(At(t))
  OBVIOUS
<1>3. q \in CodePlaces
  <2>1. ItemAt(At(t)) # Goto /\ OpAt(At(t)) \notin Terminators
    BY <1>1, LogTypes DEF Terminators, OpAt, OpOf
  <2> QED BY <1>1, <1>2, <2>1, WhatIsBooked, PlaceFacts
<1>4. Passes(L, E, At(t), q)
  BY <1>1, <1>2, TopOwes DEF OwesAt, OwesStraight
<1> QED BY <1>2, <1>3, <1>4, GoesOn DEF Straight

LEMMA BranchBooked ==
  ASSUME NEW L, NEW E, Booked(L, E), NEW t \in Live, Branch(t)
  PROVE  BooksKept(L, E)
<1>1. At(t) \in CodePlaces /\ OpAt(At(t)) \in {"br", "switch"} /\ t \in DOMAIN threads
  BY TopOwes DEF Branch
<1>2. PICK below, place : below = Front(threads[t]) /\ place = At(t)
  OBVIOUS
<1>3. below \in Seq(CodePlaces)
  <2>1. PICK P, v : P = CodePlaces /\ v = threads[t]
    OBVIOUS
  <2>2. Front(v) \in Seq(P)
    BY <2>1, TopOwes, FrontLast
  <2> QED BY <1>2, <2>1, <2>2
<1>4. PICK k \in DOMAIN succs[place[1]] : Follow(t, below, place, k)
  BY <1>2 DEF Branch
<1>5. \A x : Leaving(L, E, place, x) = DueOf(L, E, threads[t], x)
  BY <1>1, <1>2, TopOwes DEF Leaving
<1>6. Paid(L, E)
  <2>1. Quiet /\ OpAt(place) \in {"br", "switch", "invoke"} /\ place \in CodePlaces
    BY <1>1, <1>2 DEF Branch
  <2> QED BY <1>1, <1>3, <1>4, <1>5, <2>1, NothingWritten, FollowPaid
<1>7. status' = status
  BY <1>4 DEF Follow
<1> QED BY <1>6, <1>7, WhatIsBooked DEF Paid, BooksKept

\* A thread that stands at a call owes nothing, but for the log of that call.
LEMMA AtCall ==
  ASSUME NEW L, NEW E, Booked(L, E), NEW t \in Live, IsOriginal(Item(t)), IsCall(Here(t))
  PROVE  /\ Item(t).at \in Pointers(module) /\ At(t) \in CallPlaces
         /\ L[At(t)] = {}
         /\ \A x : x \in E[At(t)] <=> Item(t).at \in DirectCalls /\ x = Keys.calls[Item(t).at]
         /\ \A x : DueOf(L, E, threads[t], x)
                     = 0 - Sign(Item(t).at \in DOMAIN Keys.calls /\ x = Keys.calls[Item(t).at])
<1>1. At(t) \in CodePlaces /\ Item(t) = ItemAt(At(t)) /\ OwesCall(L, E, At(t))
  BY TopOwes DEF OwesAt
<1>2. Item(t).at \in Pointers(module) /\ At(t) \in CallPlaces
  BY <1>1, WhatIsBooked, OriginalPlace DEF Here
<1>3. /\ L[At(t)] = {}
      /\ \A x : x \in E[At(t)] <=> Item(t).at \in DOMAIN Keys.calls /\ x = Keys.calls[Item(t).at]
  BY <1>1, <1>2 DEF OwesCall, CallPlaces
<1>4. \A x : Due(L, E, At(t), x)
               = 0 - Sign(Item(t).at \in DOMAIN Keys.calls /\ x = Keys.calls[Item(t).at])
  <2> SUFFICES ASSUME NEW x
               PROVE  Due(L, E, At(t), x)
                        = 0 - Sign(Item(t).at \in DOMAIN Keys.calls /\ x = Keys.calls[Item(t).at])
    OBVIOUS
  <2>1. x \notin L[At(t)]
    BY <1>3
  <2>2. x \in E[At(t)] <=> Item(t).at \in DOMAIN Keys.calls /\ x = Keys.calls[Item(t).at]
    BY <1>3
  <2> QED BY <2>1, <2>2 DEF Due, Sign
<1>5. \A x : DueOf(L, E, threads[t], x)
               = 0 - Sign(Item(t).at \in DOMAIN Keys.calls /\ x = Keys.calls[Item(t).at])
  <2>1. \A x : DueOf(L, E, threads[t], x) = Due(L, E, At(t), x)
    BY TopOwes
  <2> QED BY <1>4, <2>1, Zenon
<1>6. \A x : x \in E[At(t)] <=> Item(t).at \in DirectCalls /\ x = Keys.calls[Item(t).at]
  <2>1. DOMAIN Keys.calls = DirectCalls
    BY WhatIsBooked
  <2> QED BY <1>3, <2>1, Zenon
<1> QED BY <1>2, <1>3, <1>5, <1>6

\* At a call that is not logged it owes nothing at all.
LEMMA AtUnlogged ==
  ASSUME NEW L, NEW E, Booked(L, E), NEW t \in Live, IsOriginal(Item(t)), IsCall(Here(t)),
         ~ IsDirectCall(module, Here(t))
  PROVE  Clear(L, E, At(t)) /\ \A x : DueOf(L, E, threads[t], x) = 0
<1>1. Item(t).at \notin DirectCalls
  BY DEF DirectCalls, Here
<1>2. Clear(L, E, At(t))
  BY <1>1, AtCall DEF Clear
<1> QED BY <1>2, TopOwes, ClearOwes

\* What is owed on entering a function.
LEMMA StartOwes ==
  ASSUME NEW L, NEW E, Booked(L, E), NEW f \in Functions(module), ~ IsDeclaration(module, f)
  PROVE  /\ EntryBlock(module, f) \in Blocks(module)
         /\ \A x : DueOf(L, E, Start(f), x) = Entering(Keys, EntryBlock(module, f), x)
         /\ \A s \in Seq(CodePlaces) : \A x :
              DueOf(L, E, s \o Start(f), x) = Entering(Keys, EntryBlock(module, f), x)
<1>1. PICK P, u, p : P = CodePlaces /\ u = Start(f) /\ p = FirstOfBlock(EntryBlock(module, f))
  OBVIOUS
<1>2. u \in Seq(P) /\ Len(u) = 1 /\ EntryBlock(module, f) \in Blocks(module) /\ u = <<p>>
  BY <1>1, WhatIsBooked, FirstPlaces DEF Start, FirstOfBlock
<1>3. \A x : Due(L, E, p, x) = Entering(Keys, EntryBlock(module, f), x)
  BY <1>1 DEF Booked, Debts, DefinedIn, OwesStart
<1>4. \A x : DueOf(L, E, u, x) = Due(L, E, p, x)
  <2>1. u # <<>> /\ Last(u) = p
    BY <1>2 DEF Last
  <2> QED BY <2>1 DEF DueOf
<1>5. \A s \in Seq(P) : \A x : DueOf(L, E, s \o u, x) = Due(L, E, p, x)
  <2> SUFFICES ASSUME NEW s \in Seq(P), NEW x PROVE DueOf(L, E, s \o u, x) = Due(L, E, p, x)
    OBVIOUS
  <2>1. PICK v : v = s \o u
    OBVIOUS
  <2>2. v # <<>> /\ Last(v) = p
    BY <1>2, <2>1 DEF Last
  <2> QED BY <2>1, <2>2 DEF DueOf
<1> QED BY <1>1, <1>2, <1>3, <1>4, <1>5

\* A thread that enters a function by a call.
LEMMA CallFunctionBooked ==
  ASSUME NEW L, NEW E, Booked(L, E), NEW t \in Live, CallFunction(t)
  PROVE  BooksKept(L, E)
<1>1. PICK f \in Callees(module, Here(t)) :
        /\ SetStack(t, threads[t] \o Start(f)) /\ entered' = Entered(EntryBlock(module, f))
        /\ called' = [called EXCEPT ![Item(t).at] = @ + 1]
  BY DEF CallFunction
<1>2. f \in Functions(module) /\ ~ IsDeclaration(module, f)
  BY DEF Callees
<1>3. IsOriginal(Item(t)) /\ IsCall(Here(t)) /\ status' = status /\ taken' = taken /\ Quiet
  BY DEF CallFunction
<1>4. PICK b, p, s : b = EntryBlock(module, f) /\ p = Item(t).at /\ s = threads[t] \o Start(f)
  OBVIOUS
<1>5. PICK N, en, ta, ca, log, ts, us, R, S, en2, ca2, P :
        /\ N = Keys /\ en = entered /\ ta = taken /\ ca = called /\ log = stdout' /\ ts = threads
        /\ R = AnyLines /\ S = Seq(CodePlaces) /\ us = threads' /\ en2 = entered' /\ ca2 = called'
        /\ P = Pointers(module)
  OBVIOUS
<1>6. Written(L, E)
  BY <1>3, NothingWritten
<1>7. /\ log \in Seq(R) /\ ts \in Seq(S) /\ Accounted(N, en, ta, ca, L, E, log, ts) /\ N.m = module
      /\ WellFormed(N.m) /\ KeysTell(N) /\ DOMAIN N.calls \subseteq P
      /\ en \in [Blocks(N.m) -> Nat] /\ ca \in [P -> Nat] /\ t \in DOMAIN ts
  BY <1>5, <1>6, WhatIsBooked, TopOwes DEF Written, CountersOK, EntriesOK
<1>8. us = With(ts, t, s) /\ IsMoreAt(en, b, en2) /\ IsMoreAt(ca, p, ca2)
  BY <1>1, <1>4, <1>5, SetIsWith DEF Entered, IsMoreAt
<1>9. EntersBy(N, P, L, E, ts, us, b, p)
  <2>1. p \in P
    BY <1>3, <1>4, <1>5, AtCall
  <2>2. b \in Blocks(N.m)
    BY <1>2, <1>4, <1>7, StartOwes
  <2>3. ASSUME NEW x
        PROVE  DueOf(L, E, s, x)
                 = DueOf(L, E, ts[t], x)
                     + (Entering(N, b, x) + Sign(p \in DOMAIN N.calls /\ x = N.calls[p]))
    <3>1. PICK d : d = Sign(p \in DOMAIN N.calls /\ x = N.calls[p])
      OBVIOUS
    <3>2. DueOf(L, E, ts[t], x) = 0 - d
      <4>1. DueOf(L, E, threads[t], x)
              = 0 - Sign(Item(t).at \in DOMAIN Keys.calls /\ x = Keys.calls[Item(t).at])
        BY <1>3, AtCall
      <4> QED BY <1>4, <1>5, <3>1, <4>1
    <3>3. DueOf(L, E, s, x) = Entering(N, b, x)
      BY <1>2, <1>4, <1>5, StartOwes, TopOwes
    <3>4. Entering(N, b, x) \in Int /\ d \in Int
      BY <3>1 DEF Entering, Is, FirstOf, Sign
    <3>5. Entering(N, b, x) = (0 - d) + (Entering(N, b, x) + d)
      BY <3>4
    <3> QED BY <3>1, <3>2, <3>3, <3>5
  <2> QED BY <1>7, <1>8, <2>1, <2>2, <2>3 DEF EntersBy
<1>10. Accounted(N, en2, ta, ca2, L, E, log, us)
  BY <1>7, <1>8, <1>9, CalledTold
<1>11. ca2 \in [P -> Nat]
  <2>1. p \in P
    BY <1>9 DEF EntersBy
  <2> QED BY <1>7, <1>8, <2>1, CountsOn
<1>12. CountersKept
  BY <1>3, <1>5, <1>6, <1>11, WhatIsBooked DEF Written, CountersOK, CountersKept
<1> QED BY <1>3, <1>5, <1>10, <1>12, WhatIsBooked DEF BooksKept

\* One that is entered from outside, in the same thread or in one more.
LEMMA CallBackBooked ==
  ASSUME NEW L, NEW E, Booked(L, E), NEW t \in Live, CallBack(t)
  PROVE  BooksKept(L, E)
<1>1. PICK f \in Handed(module, Here(t)) :
        /\ \/ SetStack(t, threads[t] \o Start(f))
           \/ threads' = Append(threads, Start(f))
        /\ entered' = Entered(EntryBlock(module, f))
  BY DEF CallBack
<1>2. /\ f \in Functions(module) /\ ~ IsDeclaration(module, f)
      /\ IsCall(Here(t)) /\ ~ IsDirectCall(module, Here(t))
  BY DEF Handed, IsExternalCall, IsDirectCall
<1>3. IsOriginal(Item(t)) /\ status' = status /\ taken' = taken /\ called' = called /\ Quiet
  BY DEF CallBack
<1>4. PICK b, s : b = EntryBlock(module, f) /\ s = threads[t] \o Start(f)
  OBVIOUS
<1>5. PICK N, en, ta, ca, log, ts, us, R, S, en2 :
        /\ N = Keys /\ en = entered /\ ta = taken /\ ca = called /\ log = stdout' /\ ts = threads
        /\ R = AnyLines /\ S = Seq(CodePlaces) /\ us = threads' /\ en2 = entered'
  OBVIOUS
<1>6. Written(L, E)
  BY <1>3, NothingWritten
<1>7. /\ log \in Seq(R) /\ ts \in Seq(S) /\ Accounted(N, en, ta, ca, L, E, log, ts) /\ N.m = module
      /\ WellFormed(N.m) /\ KeysTell(N) /\ en \in [Blocks(N.m) -> Nat] /\ t \in DOMAIN ts
  BY <1>5, <1>6, WhatIsBooked, TopOwes DEF Written, EntriesOK
<1>8. IsMoreAt(en, b, en2)
  BY <1>1, <1>4, <1>5 DEF Entered, IsMoreAt
<1>9. Enters(N, L, E, ts, us, b)
  <2>1. b \in Blocks(N.m)
    BY <1>2, <1>4, <1>7, StartOwes
  <2>2. CASE SetStack(t, s)
    <3>1. us = With(ts, t, s)
      BY <1>5, <2>2, SetIsWith
    <3>2. ASSUME NEW x
          PROVE  DueOf(L, E, s, x) = DueOf(L, E, ts[t], x) + Entering(N, b, x)
      <4>1. DueOf(L, E, ts[t], x) = 0
        BY <1>2, <1>3, <1>5, AtUnlogged
      <4>2. DueOf(L, E, s, x) = Entering(N, b, x)
        BY <1>2, <1>4, <1>5, StartOwes, TopOwes
      <4>3. Entering(N, b, x) \in Int
        BY DEF Entering, Is, FirstOf, Sign
      <4> QED BY <4>1, <4>2, <4>3
    <3> QED BY <1>7, <2>1, <3>1, <3>2 DEF Enters
  <2>3. CASE threads' = Append(threads, Start(f))
    <3>1. PICK u : u = Start(f)
      OBVIOUS
    <3>2. us = Append(ts, u) /\ \A x : DueOf(L, E, u, x) = Entering(N, b, x)
      BY <1>2, <1>4, <1>5, <2>3, <3>1, StartOwes
    <3> QED BY <2>1, <3>2 DEF Enters
  <2> QED BY <1>1, <1>4, <2>2, <2>3
<1>10. Accounted(N, en2, ta, ca, L, E, log, us)
  BY <1>7, <1>8, <1>9, EnteredTold
<1>11. CountersKept
  BY <1>3, <1>6, WhatIsBooked DEF Written, CountersOK, CountersKept
<1> QED BY <1>3, <1>5, <1>10, <1>11, WhatIsBooked DEF BooksKept

\* The program ends with the books as they are.
LEMMA StopPaid ==
  ASSUME NEW L, NEW E, Booked(L, E), Written(L, E), NEW how, Stop(how)
  PROVE  Paid(L, E) /\ threads' = threads /\ status' = how
<1>1. UNCHANGED <<threads, entered, taken, called>> /\ status' = how
  BY DEF Stop
<1>2. CountersKept
  BY <1>1, WhatIsBooked DEF Written, CountersOK, CountersKept
<1>3. Accounted(Keys, entered', taken', called', L, E, stdout', threads')
  BY <1>1 DEF Written
<1> QED BY <1>1, <1>2, <1>3 DEF Paid

LEMMA EndsClear ==
  ASSUME NEW L, NEW E, Booked(L, E), NEW t \in Live, Clear(L, E, At(t)), threads' = threads
  PROVE  ClearThread(L, E, threads')
BY TopOwes DEF ClearThread

\* Unwinding: the frame it ends at leaves by the second way.
LEMMA UnwindPaid ==
  ASSUME NEW L, NEW E, Booked(L, E), Written(L, E), NEW t \in Live, NEW K,
         K = {n \in DOMAIN threads[t] : OpAt(threads[t][n]) = "invoke"}, K # {},
         Follow(t, SubSeq(threads[t], 1, Max(K) - 1), threads[t][Max(K)], 2),
         \A x : DueOf(L, E, threads[t], x) = 0
  PROVE  Paid(L, E)
<1>1. PICK P, s : P = CodePlaces /\ s = threads[t]
  OBVIOUS
<1>2. s \in Seq(P) /\ Len(s) \in Nat /\ DOMAIN s = 1..Len(s) /\ t \in DOMAIN threads
  BY <1>1, TopOwes
<1>3. K \subseteq 1..Len(s)
  BY <1>1, <1>2
<1>4. PICK n : n = Max(K)
  OBVIOUS
<1>5. n \in K
  BY <1>2, <1>3, <1>4, Greatest
<1>6. PICK below, place : below = SubSeq(s, 1, n - 1) /\ place = s[n]
  OBVIOUS
<1>7. n \in 1..Len(s) /\ place \in CodePlaces /\ OpAt(place) = "invoke"
  BY <1>1, <1>2, <1>3, <1>5, <1>6
<1>8. below \in Seq(CodePlaces)
  <2>1. n - 1 \in 0..Len(s)
    BY <1>2, <1>7
  <2>2. SubSeq(s, 1, n - 1) \in Seq(P)
    BY <1>2, <2>1, JoinCut
  <2> QED BY <1>1, <1>6, <2>2
<1>9. 2 \in DOMAIN succs[place[1]]
  BY <1>7, WhatIsBooked, TerminatorFacts DEF Terminators
<1>10. Follow(t, below, place, 2)
  BY <1>1, <1>4, <1>6
<1>11. \A x : Leaving(L, E, place, x) = DueOf(L, E, threads[t], x)
  BY <1>7 DEF Leaving
<1> QED BY <1>2, <1>7, <1>8, <1>9, <1>10, <1>11, FollowPaid

LEMMA ResumeStatus ==
  ASSUME NEW t, NEW s, Resume(t, s)
  PROVE  status' = status
BY DEF Resume, Follow

LEMMA CallExternalBooked ==
  ASSUME NEW L, NEW E, Booked(L, E), NEW t \in Live, CallExternal(t)
  PROVE  BooksKept(L, E)
<1>1. IsOriginal(Item(t)) /\ IsCall(Here(t)) /\ ~ IsDirectCall(module, Here(t))
  BY DEF CallExternal
<1>2. PICK text \in Texts : WriteText(text)
  BY DEF CallExternal
<1>3. Written(L, E)
  BY <1>2, TextWritten
<1>4. Clear(L, E, At(t)) /\ \A x : DueOf(L, E, threads[t], x) = 0
  BY <1>1, AtUnlogged
<1>5. PICK s : s = threads[t]
  OBVIOUS
<1>6. /\ t \in DOMAIN threads /\ s \in Seq(CodePlaces) /\ s # <<>> /\ Last(s) \in CallPlaces
      /\ status = "running"
  BY <1>1, <1>5, TopOwes, AtCall, WhatIsBooked
<1>7. CASE Resume(t, s)
  <2>1. Paid(L, E)
    BY <1>3, <1>4, <1>5, <1>6, <1>7, ResumePaid
  <2> QED BY <1>6, <1>7, <2>1, ResumeStatus DEF Paid, BooksKept
<1>8. CASE Stop("exited")
  <2>1. Paid(L, E) /\ threads' = threads /\ status' = "exited"
    BY <1>3, <1>8, StopPaid
  <2>2. ClearThread(L, E, threads')
    BY <1>4, <2>1, EndsClear
  <2> QED BY <2>1, <2>2 DEF Paid, BooksKept
<1>9. CASE Stop("crashed")
  <2>1. Paid(L, E) /\ status' = "crashed"
    BY <1>3, <1>9, StopPaid
  <2> QED BY <2>1 DEF Paid, BooksKept
<1>10. PICK K : K = {n \in DOMAIN threads[t] : OpAt(threads[t][n]) = "invoke"}
  OBVIOUS
<1>11. CASE K # {} /\ Follow(t, SubSeq(threads[t], 1, Max(K) - 1), threads[t][Max(K)], 2)
  <2>1. Paid(L, E)
    BY <1>3, <1>4, <1>10, <1>11, UnwindPaid
  <2>2. status' = status
    BY <1>11 DEF Follow
  <2> QED BY <1>6, <2>1, <2>2 DEF Paid, BooksKept
<1>12. \/ Resume(t, s) \/ Stop("exited") \/ Stop("crashed")
       \/ K # {} /\ Follow(t, SubSeq(threads[t], 1, Max(K) - 1), threads[t][Max(K)], 2)
  BY <1>5, <1>10 DEF CallExternal
<1> QED BY <1>7, <1>8, <1>9, <1>11, <1>12

\* A return: of the thread, to a frame outside, or to the one that called.
LEMMA ReturnBooked ==
  ASSUME NEW L, NEW E, Booked(L, E), NEW t \in Live, Return(t)
  PROVE  BooksKept(L, E)
<1>1. PICK P, C, s, below : /\ P = CodePlaces /\ C = CallPlaces /\ s = threads[t]
                            /\ below = Front(s)
  OBVIOUS
<1>2. StackOK(P, C, s) /\ s # <<>> /\ t \in DOMAIN threads /\ status = "running"
  BY <1>1, TopOwes, WhatIsBooked
<1>3. StackOK(P, C, below) /\ (below # <<>> => Last(below) \in C)
  BY <1>1, <1>2, Popped
<1>4. Clear(L, E, At(t)) /\ \A x : DueOf(L, E, threads[t], x) = 0
  <2>1. OpAt(At(t)) = "ret"
    BY TopOwes DEF Return
  <2>2. Clear(L, E, At(t))
    BY <2>1, TopOwes DEF OwesAt, OwesReturn
  <2> QED BY <2>2, TopOwes, ClearOwes
<1>5. Written(L, E)
  BY NothingWritten DEF Return
<1>6. CASE below = <<>> /\ Stop("exited")
  <2>1. Paid(L, E) /\ threads' = threads /\ status' = "exited"
    BY <1>5, <1>6, StopPaid
  <2>2. ClearThread(L, E, threads')
    BY <1>4, <2>1, EndsClear
  <2> QED BY <2>1, <2>2 DEF Paid, BooksKept
<1>7. CASE /\ SetStack(t, below) /\ UNCHANGED <<status, entered, taken, called>>
           /\ below # <<>> => IsExternalCall(module, Instr(module, ItemAt(Last(below)).at))
  <2>1. \A x : DueOf(L, E, below, x) = 0
    <3>1. CASE below = <<>>
      BY <3>1 DEF DueOf
    <3>2. CASE below # <<>>
      <4>1. PICK p : p = Last(below)
        OBVIOUS
      <4>2. p \in CodePlaces /\ OpAt(p) \in {"call", "invoke"}
        BY <1>1, <1>3, <3>2, <4>1 DEF CallPlaces
      <4>3. OwesCall(L, E, p)
        BY <4>2, WhatIsBooked DEF OwesAt
      <4>4. ItemAt(p).at \notin DOMAIN Keys.calls
        <5>1. ~ IsDirectCall(module, Instr(module, ItemAt(p).at))
          BY <1>7, <3>2, <4>1 DEF IsExternalCall, IsDirectCall
        <5> QED BY <5>1, WhatIsBooked DEF DirectCalls
      <4>5. Clear(L, E, p)
        BY <4>2, <4>3, <4>4 DEF OwesCall, Clear
      <4> QED BY <3>2, <4>1, <4>5, ClearOwes DEF DueOf
    <3> QED BY <3>1, <3>2
  <2>2. Paid(L, E)
    BY <1>2, <1>4, <1>5, <1>7, <2>1, MovePaid
  <2> QED BY <1>2, <1>7, <2>2 DEF Paid, BooksKept
<1>8. CASE below # <<>> /\ Resume(t, below)
  <2>1. below \in Seq(CodePlaces) /\ Last(below) \in CallPlaces
    BY <1>1, <1>3, <1>8 DEF StackOK
  <2>2. Paid(L, E)
    BY <1>2, <1>4, <1>5, <1>8, <2>1, ResumePaid
  <2> QED BY <1>2, <1>8, <2>2, ResumeStatus DEF Paid, BooksKept
<1>9. \/ below = <<>> /\ Stop("exited")
      \/ /\ SetStack(t, below) /\ UNCHANGED <<status, entered, taken, called>>
         /\ below # <<>> => IsExternalCall(module, Instr(module, ItemAt(Last(below)).at))
      \/ below # <<>> /\ Resume(t, below)
  BY <1>1 DEF Return
<1> QED BY <1>6, <1>7, <1>8, <1>9

\* _exit: of what has been written a part is lost, at most one event is another.
LEMMA QuitBooked ==
  ASSUME NEW L, NEW E, Booked(L, E), NEW t \in Live, Quit(t)
  PROVE  BooksKept(L, E)
<1>1. IsOriginal(Item(t)) /\ IsCall(Here(t)) /\ ~ IsDirectCall(module, Here(t))
  BY DEF Quit
<1>2. /\ status' = "quit" /\ threads' = threads /\ lineOpen' = lineOpen
      /\ UNCHANGED <<entered, taken, called>>
  BY DEF Quit, Stop
<1>3. Clear(L, E, At(t))
  BY <1>1, AtUnlogged
<1>4. ClearThread(L, E, threads')
  BY <1>2, <1>3, EndsClear
<1>5. CountersKept
  BY <1>2, WhatIsBooked DEF CountersOK, CountersKept
<1>6. PICK R, S, v, w, ts : /\ R = AnyLines /\ v = stdout /\ w = stdout' /\ ts = threads
                            /\ S = Seq(CodePlaces)
  OBVIOUS
<1>7. v \in Seq(R) /\ Len(v) \in Nat /\ ts \in Seq(S)
  BY <1>6, WhatIsBooked
<1>8. PICK low : low = Max({0, Len(v) - MaxLost})
  OBVIOUS
<1>9. low \in Nat
  <2>1. PICK K : K = {0, Len(v) - MaxLost}
    OBVIOUS
  <2>2. Len(v) - MaxLost \in Int
    BY <1>7, RunAssumption
  <2>3. \E x \in K : \A y \in K : x >= y
    BY <2>1, <2>2
  <2>4. Max(K) \in K /\ \A y \in K : Max(K) >= y
    BY <2>3, Zenon DEF Max
  <2>5. low \in Int /\ low >= 0
    BY <1>8, <2>1, <2>2, <2>4
  <2> QED BY <2>5
<1>10. PICK n \in low..Len(v) :
        \/ w = SubSeq(v, 1, n)
        \/ n < Len(v) /\ \E part \in CutLine(v[n + 1]) : w = Append(SubSeq(v, 1, n), part)
  BY <1>6, <1>8 DEF Quit
<1>11. n \in 0..Len(v)
  BY <1>7, <1>9
<1>12. PICK u : u = SubSeq(v, 1, n)
  OBVIOUS
<1>13. u \in Seq(R) /\ \A x : Hits(u, Len(u), x) <= Hits(v, Len(v), x)
  BY <1>7, <1>11, <1>12, HitsLess
<1>14. \E c : \A x : /\ Hits(w, Len(w), x) \in Nat
                     /\ Hits(w, Len(w), x) <= Hits(v, Len(v), x) + Is(x, c)
  <2>1. \A x : /\ Hits(v, Len(v), x) \in Nat /\ Hits(u, Len(u), x) \in Nat
    BY <1>7, <1>13, HitsCounted
  <2>2. CASE w = u
    <3>1. \A x : Is(x, 0) \in Nat
      BY DEF Is, Sign
    <3>2. \A x : Hits(w, Len(w), x) \in Nat /\ Hits(w, Len(w), x) <= Hits(v, Len(v), x) + Is(x, 0)
      BY <1>13, <2>1, <2>2, <3>1
    <3> QED BY <3>2
  <2>3. CASE n < Len(v) /\ \E part \in CutLine(v[n + 1]) : w = Append(u, part)
    <3>1. PICK part \in CutLine(v[n + 1]) : w = Append(u, part)
      BY <2>3
    <3>2. v[n + 1] \in R
      BY <1>7, <1>11, <2>3
    <3>3. part \in R
      BY <1>6, <3>2, WhatIsBooked, CutLineKeeps
    <3>4. \A x : IsPaid(Hits(u, Len(u), x), Hits(w, Len(w), x), Sign(IsHit(part, x)))
      BY <1>13, <3>1, <3>3, HitsMore
    <3>5. \A x : /\ Sign(IsHit(part, x)) \in Nat /\ Is(x, KeyOf(part)) \in Nat
                 /\ Sign(IsHit(part, x)) <= Is(x, KeyOf(part))
      BY DEF IsHit, Is, Sign
    <3>6. ASSUME NEW x
          PROVE  /\ Hits(w, Len(w), x) \in Nat
                 /\ Hits(w, Len(w), x) <= Hits(v, Len(v), x) + Is(x, KeyOf(part))
      <4>1. PICK h, g, k, d, i : /\ h = Hits(v, Len(v), x) /\ g = Hits(u, Len(u), x)
                                 /\ k = Hits(w, Len(w), x) /\ d = Sign(IsHit(part, x))
                                 /\ i = Is(x, KeyOf(part))
        OBVIOUS
      <4>2. h \in Nat /\ g \in Nat /\ g <= h
        BY <1>13, <2>1, <4>1
      <4>3. d \in Nat /\ i \in Nat /\ d <= i
        BY <3>5, <4>1
      <4>4. k = g + d
        BY <3>4, <4>1 DEF IsPaid
      <4>5. k \in Nat /\ k <= h + i
        BY <4>2, <4>3, <4>4
      <4> QED BY <4>1, <4>5
    <3> QED BY <3>6
  <2> QED BY <1>10, <1>12, <2>2, <2>3
<1>15. PICK N, en, ta, ca : N = Keys /\ en = entered /\ ta = taken /\ ca = called
  OBVIOUS
<1>16. NoMuchMore(N, en, ta, ca, L, E, w, ts)
  <2>1. PICK c : \A x : /\ Hits(w, Len(w), x) \in Nat
                        /\ Hits(w, Len(w), x) <= Hits(v, Len(v), x) + Is(x, c)
    BY <1>14
  <2>2. ASSUME NEW x
        PROVE  \E n1 \in Int : /\ Tells(N, en, ta, ca, x, n1)
                               /\ Told(L, E, w, ts, x) <= n1 + Is(x, c)
    <3>1. PICK h, k, i, y : /\ h = Hits(v, Len(v), x) /\ k = Hits(w, Len(w), x)
                            /\ i = Is(x, c) /\ y = Tally(L, E, ts, x)
      OBVIOUS
    <3>2. h \in Nat /\ k \in Nat /\ i \in Nat /\ k <= h + i
      BY <1>7, <2>1, <3>1, HitsCounted DEF Is, Sign
    <3>3. y \in Int
      BY <1>7, <3>1, OwingFinite DEF Tally
    <3>4. Told(L, E, v, ts, x) = h + y /\ Told(L, E, w, ts, x) = k + y
      BY <3>1 DEF Told
    <3>5. Tells(N, en, ta, ca, x, Told(L, E, v, ts, x))
      BY <1>6, <1>15, WhatIsBooked DEF Accounted
    <3>6. h + y \in Int /\ k + y <= (h + y) + i
      BY <3>2, <3>3
    <3> QED BY <3>1, <3>4, <3>5, <3>6
  <2> QED BY <2>2 DEF NoMuchMore
<1>17. NoMuchMore(Keys, entered', taken', called', L, E, stdout', threads')
  BY <1>2, <1>6, <1>15, <1>16
<1> QED BY <1>2, <1>4, <1>5, <1>17 DEF BooksKept

LEMMA CrashBooked ==
  ASSUME NEW L, NEW E, Booked(L, E), Crash
  PROVE  BooksKept(L, E)
<1>1. Written(L, E)
  BY NothingWritten DEF Crash
<1>2. Paid(L, E) /\ status' = "crashed"
  BY <1>1, StopPaid DEF Crash
<1> QED BY <1>2 DEF Paid, BooksKept

\* Whatever the step is, the books stay right.
LEMMA StepBooked ==
  ASSUME NEW L, NEW E, Booked(L, E), Run
  PROVE  BooksKept(L, E)
<1>1. CASE Crash
  BY <1>1, CrashBooked
<1>2. ASSUME NEW t \in Live,
             \/ WriteLog(t) \/ FollowGoto(t) \/ Straight(t) \/ Branch(t) \/ CallFunction(t)
             \/ CallBack(t) \/ CallExternal(t) \/ Quit(t) \/ Return(t)
      PROVE  BooksKept(L, E)
  BY <1>2, WriteLogBooked, FollowGotoBooked, StraightBooked, BranchBooked, CallFunctionBooked,
     CallBackBooked, CallExternalBooked, QuitBooked, ReturnBooked
<1> QED BY <1>1, <1>2 DEF Run

(***************************************************************************)
(* The invariant: before the program runs nothing is counted, then there   *)
(* are debts with which the books are right.                               *)
(***************************************************************************)
Fresh ==
  /\ entered = [b \in Blocks(module) |-> IF b = EntryBlock(module, 1) THEN 1 ELSE 0]
  /\ taken = [e \in CfgEdges(module) |-> 0] /\ called = [p \in Pointers(module) |-> 0]

BooksInv ==
  /\ phase # "injected" => Fresh
  /\ phase = "injected" => \E L, E : Debts(L, E) /\ Books(L, E)

LEMMA RunBooks ==
  ASSUME "open" \notin Texts, InjectInv, CodeInv, RunInv, BooksInv, Run
  PROVE  BooksInv'
<1>1. phase = "injected" /\ status = "running" /\ UNCHANGED buildVars
  BY DEF Run
<1>2. Running
  BY <1>1, InjectedRuns DEF Running
<1>3. PICK L, E : Debts(L, E) /\ Books(L, E)
  BY <1>1 DEF BooksInv
<1>4. KeysTell(Keys)
  <2>1. WellFormed(module) /\ InGraph
    BY <1>2 DEF Running, Runnable
  <2>2. Ready
    BY <1>1, NowSplit, PhaseSets DEF Stages
  <2> QED BY <2>1, <2>2, KeysAreNames
<1>5. BooksKept(L, E)
  BY <1>2, <1>3, <1>4, StepBooked DEF Booked
<1>6. Debts(L, E)'
  BY <1>1, <1>3, DebtsStay
<1>7. Keys' = Keys /\ module' = module /\ phase' = phase
  BY <1>1, KeysStay, CodeStays
<1>8. CountersOK'
  BY <1>5, <1>7 DEF BooksKept, CountersKept, CountersOK
<1>9. InBooks(L, E)'
  BY <1>5, <1>7 DEF BooksKept, InBooks
<1>10. Books(L, E)'
  BY <1>8, <1>9 DEF Books
<1> QED BY <1>1, <1>6, <1>7, <1>10 DEF BooksInv

\* Main is entered, and that is all.
LEMMA OneThreadTally ==
  ASSUME NEW L, NEW E, NEW s, NEW ts, ts = <<s>>, NEW x
  PROVE  Tally(L, E, ts, x) = DueOf(L, E, s, x)
<1>1. PICK none, S : none = <<>> /\ S = {s}
  OBVIOUS
<1>2. none \in Seq(S) /\ ts = Append(none, s)
  BY <1>1
<1>3. IsPaid(Tally(L, E, none, x), Tally(L, E, ts, x), DueOf(L, E, s, x))
  BY <1>2, TallyMore
<1>4. Tally(L, E, none, x) = 0
  <2>1. Owing(L, none, x) = {} /\ Owing(E, none, x) = {}
    BY <1>1 DEF Owing
  <2> QED BY <2>1, FS_EmptySet DEF Tally
<1>5. DueOf(L, E, s, x) \in Int
  BY DueType
<1> QED BY <1>3, <1>4, <1>5 DEF IsPaid

LEMMA NoHits ==
  ASSUME NEW log, log = <<>>, NEW x
  PROVE  Hits(log, Len(log), x) = 0
<1>1. HitSet(log, x) = {}
  BY DEF HitSet
<1>2. Hits(log, Len(log), x) = Cardinality(HitSet(log, x))
  BY DEF Hits, HitSet, IsHit
<1> QED BY <1>1, <1>2, FS_EmptySet

\* Zero counters tell of nothing.
LEMMA ZeroTold ==
  ASSUME NEW N, WellFormed(N.m), NEW x,
         NEW P, DOMAIN N.calls \subseteq P, NEW T, DOMAIN N.edges \subseteq T
  PROVE  Tells(N, [b \in Blocks(N.m) |-> 0], [e \in T |-> 0], [p \in P |-> 0], x, 0)
<1>1. \A f \in DefinedIn(N.m) : EntryBlock(N.m, f) \in Blocks(N.m)
  BY EntryBlocks
<1> QED BY <1>1 DEF Tells

OpensBooks(L, E) ==
  InjectInv /\ CodeInv /\ phase = "injected" /\ NotStarted /\ Fresh /\ Debts(L, E)

LEMMA BooksOpen ==
  ASSUME NEW L, NEW E, OpensBooks(L, E)
  PROVE  Books(L, E)
<1>1. Runnable /\ WellFormed(module) /\ InGraph /\ 1 \in Functions(module) /\ ~ IsDeclaration(module, 1)
  BY InjectedRuns DEF OpensBooks, Runnable, Executable
<1>2. KeysTell(Keys)
  <2>1. Ready
    BY NowSplit, PhaseSets DEF Stages, OpensBooks
  <2> QED BY <1>1, <2>1, KeysAreNames
<1>3. /\ lineOpen = FALSE /\ stdout = <<>> /\ threads = <<Start(1)>>
      /\ status \in {"running", "crashed"} /\ Fresh
  BY DEF OpensBooks, NotStarted
<1>4. PICK b, s : b = EntryBlock(module, 1) /\ s = Start(1)
  OBVIOUS
<1>5. b \in Blocks(module) /\ 1 \in DefinedIn(module)
  BY <1>1, <1>4, FirstPlaces DEF DefinedIn
<1>6. PICK N, P, T, en0, en, ta, ca, log, ts :
        /\ N = Keys /\ P = Pointers(module) /\ T = CfgEdges(module)
        /\ en0 = [c \in Blocks(module) |-> 0] /\ en = entered
        /\ ta = [e \in T |-> 0] /\ ca = [p \in P |-> 0] /\ log = stdout /\ ts = threads
  OBVIOUS
<1>7. N.m = module /\ DOMAIN N.calls \subseteq P /\ DOMAIN N.edges \subseteq T /\ KeysTell(N)
  BY <1>1, <1>2, <1>6, KeyFields
<1>8. IsMoreAt(en0, b, en)
  BY <1>3, <1>4, <1>5, <1>6 DEF Fresh, IsMoreAt
<1>9. ASSUME NEW x PROVE Tells(N, en, ta, ca, x, Told(L, E, log, ts, x))
  <2>1. Tells(N, en0, ta, ca, x, 0)
    BY <1>1, <1>6, <1>7, ZeroTold
  <2>2. Tells(N, en, ta, ca, x, (0 + Is(x, BlockKey(b))) + FirstOf(N.m, b, x))
    <3>1. en0 \in [Blocks(N.m) -> Nat] /\ b \in Blocks(N.m) /\ WellFormed(N.m)
      BY <1>1, <1>5, <1>6, <1>7
    <3> QED BY <1>7, <1>8, <2>1, <3>1, EntryTold
  <2>3. Tally(L, E, ts, x) = DueOf(L, E, s, x)
    BY <1>3, <1>4, <1>6, OneThreadTally
  <2>4. DueOf(L, E, s, x) = Entering(N, b, x)
    <3>1. PICK p : p = FirstOfBlock(b)
      OBVIOUS
    <3>2. s = <<p>>
      BY <1>4, <3>1 DEF Start, FirstOfBlock
    <3>3. s # <<>> /\ Last(s) = p
      BY <3>2 DEF Last
    <3>4. Due(L, E, p, x) = Entering(N, b, x)
      BY <1>4, <1>5, <1>6, <3>1 DEF OpensBooks, Debts, OwesStart
    <3> QED BY <3>3, <3>4 DEF DueOf
  <2>5. Hits(log, Len(log), x) = 0
    BY <1>3, <1>6, NoHits
  <2>6. /\ Is(x, BlockKey(b)) \in Int /\ FirstOf(N.m, b, x) \in Int
        /\ Entering(N, b, x) = Is(x, BlockKey(b)) + FirstOf(N.m, b, x)
    BY DEF Is, FirstOf, Sign, Entering
  <2>7. Told(L, E, log, ts, x) = (0 + Is(x, BlockKey(b))) + FirstOf(N.m, b, x)
    BY <2>3, <2>4, <2>5, <2>6 DEF Told
  <2> QED BY <2>2, <2>7
<1>10. Accounted(Keys, entered, taken, called, L, E, stdout, threads)
  BY <1>3, <1>6, <1>9 DEF Accounted, Fresh
<1>11. CountersOK
  BY <1>3 DEF CountersOK, Fresh
<1> QED BY <1>3, <1>10, <1>11 DEF Books, InBooks

------------------------------------------------------------------------------
(***************************************************************************)
(* Where the logs are in the blocks of the changed code.                   *)
(***************************************************************************)
\* Each item of three parts of a sequence is in one of them.
IsPut(S, a, mid, z, v) == a \in Seq(S) /\ mid \in Seq(S) /\ z \in S /\ v = Join(a, Join(mid, <<z>>))

LEMMA PutParts ==
  ASSUME NEW S, NEW a, NEW mid, NEW z, NEW v, IsPut(S, a, mid, z, v)
  PROVE  /\ v \in Seq(S) /\ Len(v) = (Len(a) + Len(mid)) + 1 /\ Len(a) \in Nat /\ Len(mid) \in Nat
         /\ \A k \in 1..Len(a) : k \in 1..Len(v) /\ v[k] = a[k]
         /\ \A k \in 1..Len(mid) : Len(a) + k \in 1..Len(v) /\ v[Len(a) + k] = mid[k]
         /\ v[Len(v)] = z /\ Last(v) = z /\ v # <<>>
         /\ \A k \in 1..Len(v) : \/ k \in 1..Len(a) /\ v[k] = a[k]
                                 \/ k - Len(a) \in 1..Len(mid) /\ v[k] = mid[k - Len(a)]
                                 \/ k = Len(v)
<1>1. a \in Seq(S) /\ mid \in Seq(S) /\ z \in S /\ v = Join(a, Join(mid, <<z>>))
  BY DEF IsPut
<1>2. PICK one : one = <<z>>
  OBVIOUS
<1>3. one \in Seq(S) /\ Len(one) = 1 /\ one[1] = z
  BY <1>1, <1>2
<1>4. PICK r : r = Join(mid, one)
  OBVIOUS
<1>5. r \in Seq(S) /\ v = Join(a, r) /\ v \in Seq(S)
  BY <1>1, <1>2, <1>3, <1>4, JoinType
<1>6. IsJoin(S, mid, one, r) /\ IsJoin(S, a, r, v)
  BY <1>1, <1>3, <1>4, <1>5 DEF IsJoin
<1>7. /\ Len(r) = Len(mid) + 1 /\ Len(mid) \in Nat
      /\ \A k \in 1..Len(mid) : k \in 1..Len(r) /\ r[k] = mid[k]
      /\ Len(mid) + 1 \in 1..Len(r) /\ r[Len(mid) + 1] = one[1]
  <2>1. /\ Len(r) = Len(mid) + Len(one) /\ Len(mid) \in Nat
        /\ \A k \in 1..Len(mid) : k \in 1..Len(r) /\ r[k] = mid[k]
        /\ \A k \in 1..Len(one) : Len(mid) + k \in 1..Len(r) /\ r[Len(mid) + k] = one[k]
    BY <1>6, JoinParts
  <2>2. 1 \in 1..Len(one)
    BY <1>3
  <2> QED BY <1>3, <2>1, <2>2
<1>8. /\ Len(v) = Len(a) + Len(r) /\ Len(a) \in Nat
      /\ \A k \in 1..Len(a) : k \in 1..Len(v) /\ v[k] = a[k]
      /\ \A k \in 1..Len(r) : Len(a) + k \in 1..Len(v) /\ v[Len(a) + k] = r[k]
      /\ \A k \in 1..Len(v) : \/ k \in 1..Len(a) /\ v[k] = a[k]
                              \/ k - Len(a) \in 1..Len(r) /\ v[k] = r[k - Len(a)]
  BY <1>6, JoinParts
<1>9. Len(v) = (Len(a) + Len(mid)) + 1
  BY <1>7, <1>8
<1>10. ASSUME NEW k \in 1..Len(mid) PROVE Len(a) + k \in 1..Len(v) /\ v[Len(a) + k] = mid[k]
  BY <1>7, <1>8
<1>11. v[Len(v)] = z
  <2>1. r[Len(mid) + 1] = z /\ Len(mid) + 1 \in 1..Len(r)
    BY <1>3, <1>7
  <2>2. v[Len(a) + (Len(mid) + 1)] = z /\ Len(a) + (Len(mid) + 1) = Len(v)
    BY <1>7, <1>8, <2>1
  <2> QED BY <2>2
<1>12. ASSUME NEW k \in 1..Len(v)
       PROVE  \/ k \in 1..Len(a) /\ v[k] = a[k]
              \/ k - Len(a) \in 1..Len(mid) /\ v[k] = mid[k - Len(a)]
              \/ k = Len(v)
  <2>1. CASE k - Len(a) \in 1..Len(r) /\ v[k] = r[k - Len(a)]
    <3>1. PICK n, l, i : n = Len(a) /\ l = Len(mid) /\ i = k - Len(a)
      OBVIOUS
    <3>2. n \in Nat /\ l \in Nat /\ Len(v) = (n + l) + 1 /\ i \in 1..(l + 1) /\ k \in Int /\ i = k - n
      BY <1>7, <1>8, <1>9, <2>1, <3>1
    <3>3. i \in 1..l \/ k = Len(v)
      BY <3>2
    <3> QED BY <1>7, <2>1, <3>1, <3>3
  <2> QED BY <1>8, <2>1
<1>13. v # <<>> /\ Last(v) = z
  <2>1. Len(v) # 0
    BY <1>7, <1>8, <1>9
  <2>2. v # <<>>
    BY <2>1
  <2> QED BY <1>11, <2>2 DEF Last
<1> QED BY <1>5, <1>7, <1>8, <1>9, <1>10, <1>11, <1>12, <1>13

\* The entry logs in v: those of block b, each once and behind no call.
EntryKinds(m, v) ==
  /\ \A j, k \in 1..Len(v) : v[j] \in EntryItems /\ v[k] \in EntryItems /\ v[j].event = v[k].event => j = k
  /\ \A j, k \in 1..Len(v) : OpIn(m, v[j]) \in {"call", "invoke"} /\ j <= k => v[k] \notin EntryItems
EntriesAre(m, b, v) ==
  /\ EntryKinds(m, v)
  /\ \A x \in EntryItems : Holds(v, x) <=>
       \/ x = Log("bb_enter", b - 1)
       \/ IsEntryBlock(m, b) /\ x = Log("func_enter", m.function_of[b] - 1)
NoEntries(v) == \A k \in 1..Len(v) : v[k] \notin EntryItems

LEMMA EntryPair ==
  ASSUME NEW m, WellFormed(m), NEW b \in Blocks(m), NEW v, v = EntryOf(m, b)
  PROVE  /\ v \in Seq(EntryItems) /\ Len(v) \in Nat
         /\ \A j, k \in 1..Len(v) : v[j].event = v[k].event => j = k
         /\ \A x : Holds(v, x) <=> \/ x = Log("bb_enter", b - 1)
                                   \/ IsEntryBlock(m, b) /\ x = Log("func_enter", m.function_of[b] - 1)
<1>1. v \in Seq(EntryItems) /\ Len(v) \in Nat
  BY EntryOfType
<1>2. PICK e, f : e = Log("bb_enter", b - 1) /\ f = Log("func_enter", m.function_of[b] - 1)
  OBVIOUS
<1>3. e.event = "bb_enter" /\ f.event = "func_enter"
  BY <1>2, LogFields
<1>4. CASE IsEntryBlock(m, b)
  <2>1. v = <<f, e>>
    <3>1. PICK S : S = {e, f}
      OBVIOUS
    <3>2. v = Join(<<f>>, <<e>>)
      BY <1>2, <1>4 DEF EntryOf
    <3> QED BY <3>1, <3>2, PairIsJoin
  <2>2. Len(v) = 2 /\ v[1] = f /\ v[2] = e
    BY <2>1
  <2>3. \A k \in 1..Len(v) : k = 1 \/ k = 2
    BY <2>2
  <2>4. \A x : Holds(v, x) <=> x = e \/ x = f
    <3>1. 1 \in 1..Len(v) /\ 2 \in 1..Len(v)
      BY <2>2
    <3> QED BY <2>2, <2>3, <3>1 DEF Holds
  <2> QED BY <1>1, <1>2, <1>3, <1>4, <2>2, <2>3, <2>4
<1>5. CASE ~ IsEntryBlock(m, b)
  <2>1. v = <<e>>
    BY <1>2, <1>5 DEF EntryOf, Join
  <2>2. Len(v) = 1 /\ v[1] = e
    BY <2>1
  <2>3. \A k \in 1..Len(v) : k = 1
    BY <2>2
  <2>4. \A x : Holds(v, x) <=> x = e
    <3>1. 1 \in 1..Len(v)
      BY <2>2
    <3> QED BY <2>2, <2>3, <3>1 DEF Holds
  <2> QED BY <1>1, <1>2, <1>3, <1>5, <2>2, <2>3, <2>4
<1> QED BY <1>4, <1>5

\* In the middle of a block.
LEMMA EntriesMiddle ==
  ASSUME NEW m, WellFormed(m), NEW b \in Blocks(m), NEW mid, EntriesIn(m, b, mid)
  PROVE  EntriesAre(m, b, mid) /\ \A k \in 1..Len(mid) : mid[k] \notin CfgItems
<1>1. PICK x \in Seq(CallsNothing(m, b)), y \in Seq(Inner(m, b) \cup CallItems) :
        mid = Join(x, Join(EntryOf(m, b), y))
  BY DEF EntriesIn
<1>2. PICK v, S : v = EntryOf(m, b) /\ S = Inner(m, b) \cup LogItems
  OBVIOUS
<1>3. /\ v \in Seq(EntryItems) /\ \A j, k \in 1..Len(v) : v[j].event = v[k].event => j = k
      /\ \A z : Holds(v, z) <=> \/ z = Log("bb_enter", b - 1)
                                \/ IsEntryBlock(m, b) /\ z = Log("func_enter", m.function_of[b] - 1)
  BY <1>2, EntryPair
<1>4. PICK r : r = Join(v, y)
  OBVIOUS
<1>5. x \in Seq(S) /\ y \in Seq(S) /\ v \in Seq(S)
  <2>1. CallsNothing(m, b) \subseteq S /\ EntryItems \subseteq S /\ Inner(m, b) \cup CallItems \subseteq S
    BY <1>2 DEF CallsNothing, EntryItems, CallItems
  <2> QED BY <1>1, <1>3, <2>1
<1>6. r \in Seq(S) /\ mid = Join(x, r)
  BY <1>1, <1>2, <1>4, <1>5, JoinType
<1>7. IsJoin(S, v, y, r) /\ IsJoin(S, x, r, mid)
  BY <1>4, <1>5, <1>6 DEF IsJoin
<1>8. PICK n, l, p, q, t : n = Len(x) /\ l = Len(v) /\ p = Len(y) /\ q = Len(r) /\ t = Len(mid)
  OBVIOUS
<1>9. /\ n \in Nat /\ l \in Nat /\ p \in Nat /\ q = l + p /\ t = n + q
      /\ \A k \in 1..l : k \in 1..q /\ r[k] = v[k]
      /\ \A k \in 1..p : l + k \in 1..q /\ r[l + k] = y[k]
      /\ \A k \in 1..q : \/ k \in 1..l /\ r[k] = v[k]
                         \/ k - l \in 1..p /\ r[k] = y[k - l]
      /\ \A k \in 1..q : n + k \in 1..t /\ mid[n + k] = r[k]
      /\ \A k \in 1..t : \/ k \in 1..n /\ mid[k] = x[k]
                         \/ k - n \in 1..q /\ mid[k] = r[k - n]
  <2>1. /\ l \in Nat /\ p \in Nat /\ q = l + p
        /\ \A k \in 1..l : k \in 1..q /\ r[k] = v[k]
        /\ \A k \in 1..p : l + k \in 1..q /\ r[l + k] = y[k]
        /\ \A k \in 1..q : \/ k \in 1..l /\ r[k] = v[k]
                           \/ k - l \in 1..p /\ r[k] = y[k - l]
    <3>1. /\ Len(r) = Len(v) + Len(y) /\ Len(v) \in Nat /\ Len(y) \in Nat
          /\ \A k \in 1..Len(v) : k \in 1..Len(r) /\ r[k] = v[k]
          /\ \A k \in 1..Len(y) : Len(v) + k \in 1..Len(r) /\ r[Len(v) + k] = y[k]
          /\ \A k \in 1..Len(r) : \/ k \in 1..Len(v) /\ r[k] = v[k]
                                  \/ k - Len(v) \in 1..Len(y) /\ r[k] = y[k - Len(v)]
      BY <1>7, JoinParts
    <3> QED BY <1>8, <3>1
  <2>2. /\ n \in Nat /\ t = n + q
        /\ \A k \in 1..q : n + k \in 1..t /\ mid[n + k] = r[k]
        /\ \A k \in 1..t : \/ k \in 1..n /\ mid[k] = x[k]
                           \/ k - n \in 1..q /\ mid[k] = r[k - n]
    <3>1. /\ Len(mid) = Len(x) + Len(r) /\ Len(x) \in Nat
          /\ \A k \in 1..Len(r) : Len(x) + k \in 1..Len(mid) /\ mid[Len(x) + k] = r[k]
          /\ \A k \in 1..Len(mid) : \/ k \in 1..Len(x) /\ mid[k] = x[k]
                                    \/ k - Len(x) \in 1..Len(r) /\ mid[k] = r[k - Len(x)]
      BY <1>7, JoinParts
    <3> QED BY <1>8, <3>1
  <2> QED BY <2>1, <2>2
<1>10. \A k \in 1..t : \/ k \in 1..n /\ mid[k] = x[k]
                       \/ k - n \in 1..l /\ mid[k] = v[k - n]
                       \/ (k - n) - l \in 1..p /\ mid[k] = y[(k - n) - l]
  BY <1>9
<1>11. /\ \A k \in 1..n : /\ x[k] \notin EntryItems /\ x[k] \notin CfgItems
                          /\ OpIn(m, x[k]) \notin {"call", "invoke"}
       /\ \A k \in 1..l : v[k] \in EntryItems /\ v[k] \notin CfgItems /\ OpIn(m, v[k]) = "none"
       /\ \A k \in 1..p : y[k] \notin EntryItems /\ y[k] \notin CfgItems
  <2>1. \A k \in 1..n : x[k] \in CallsNothing(m, b)
    BY <1>1, <1>8
  <2>2. \A k \in 1..l : v[k] \in EntryItems
    BY <1>3, <1>8
  <2>3. \A k \in 1..p : y[k] \in Inner(m, b) \cup CallItems
    BY <1>1, <1>8
  <2>4. /\ \A z \in Inner(m, b) : z \notin EntryItems /\ z \notin CfgItems /\ OpIn(m, z) # "invoke"
        /\ \A z \in EntryItems : OpIn(m, z) = "none" /\ z \notin CfgItems
        /\ \A z \in CallItems : z \notin EntryItems /\ z \notin CfgItems
    <3>1. \A z \in Inner(m, b) : IsOriginal(z) /\ OpIn(m, z) \notin Terminators
      BY BlockItems
    <3>2. \A z \in LogItems : ~ IsOriginal(z) /\ OpIn(m, z) = "none"
      BY BlockItems, LogTypes
    <3> QED BY <3>1, <3>2 DEF EntryItems, CfgItems, CallItems, Terminators
  <2> QED BY <2>1, <2>2, <2>3, <2>4 DEF CallsNothing
<1>12. \A k \in 1..t : mid[k] \in EntryItems => k - n \in 1..l /\ mid[k] = v[k - n]
  BY <1>10, <1>11
<1>13. EntryKinds(m, mid)
  <2>1. ASSUME NEW j \in 1..t, NEW k \in 1..t, mid[j] \in EntryItems, mid[k] \in EntryItems,
               mid[j].event = mid[k].event
        PROVE  j = k
    <3>1. PICK i, h : i = j - n /\ h = k - n
      OBVIOUS
    <3>2. i \in 1..l /\ h \in 1..l /\ v[i].event = v[h].event
      BY <1>12, <2>1, <3>1
    <3>3. i = h
      BY <1>3, <1>8, <3>2
    <3> QED BY <1>9, <3>1, <3>3
  <2>2. ASSUME NEW j \in 1..t, NEW k \in 1..t, OpIn(m, mid[j]) \in {"call", "invoke"}, j <= k,
               mid[k] \in EntryItems
        PROVE  FALSE
    <3>1. k - n \in 1..l
      BY <1>12, <2>2
    <3>2. (j - n) - l \in 1..p
      BY <1>10, <1>11, <2>2
    <3> QED BY <1>9, <2>2, <3>1, <3>2
  <2> QED BY <1>8, <2>1, <2>2 DEF EntryKinds
<1>14. ASSUME NEW z \in EntryItems PROVE Holds(mid, z) <=> Holds(v, z)
  <2>1. ASSUME Holds(mid, z) PROVE Holds(v, z)
    BY <1>8, <1>12, <2>1 DEF Holds
  <2>2. ASSUME NEW k \in 1..l, v[k] = z PROVE Holds(mid, z)
    <3>1. k \in 1..q /\ n + k \in 1..t /\ mid[n + k] = z
      BY <1>9, <2>2
    <3> QED BY <1>8, <3>1 DEF Holds
  <2> QED BY <1>8, <2>1, <2>2 DEF Holds
<1>15. \A k \in 1..t : mid[k] \notin CfgItems
  BY <1>10, <1>11
<1> QED BY <1>3, <1>8, <1>13, <1>14, <1>15 DEF EntriesAre


\* A block whose logs are where they belong: that of an edge before the last
\* item, that of a call right before the call.
Shaped(m, N, v) ==
  /\ v \in Seq(Items(m)) /\ v # <<>> /\ EntryKinds(m, v)
  /\ \A k \in 1..Len(v) :
       /\ EndsIn(m, v[k]) <=> k = Len(v)
       /\ v[k] \in CfgItems => /\ k + 1 = Len(v)
                               /\ v[k + 1] = Goto \/ OpIn(m, v[k + 1]) \in {"br", "switch"}
                               /\ \E e \in DOMAIN N.edges : LogKey(v[k]) = N.edges[e]
       /\ v[k] \in CallItems => /\ k + 1 \in 1..Len(v) /\ Calls(m, v[k + 1])
                                /\ LogKey(v[k]) = N.calls[v[k + 1].at]
       /\ Calls(m, v[k]) => k - 1 \in 1..Len(v) /\ v[k - 1] \in CallItems
NoCfg(v) == \A k \in 1..Len(v) : v[k] \notin CfgItems

\* N has the keys that K has for calls and L for edges, which are those of done.
NamedBy(m, N, K, L, done) ==
  /\ \A p \in Pointers(m) : IsDirectCall(m, Instr(m, p)) => N.calls[p] = <<"edge", K[p]>>
  /\ DOMAIN N.edges = done /\ \A e \in done : N.edges[e] = LogKey(L[e])

LEMMA KeysOfLogs ==
  /\ \A x \in CallItems : LogKey(x) = <<"edge", x.id>>
  /\ \A x \in CfgItems : LogKey(x) = <<"edge", x.id>>
  /\ \A x \in EntryItems : LogKey(x)[1] # "edge"
  /\ \A x, y \in EntryItems : LogKey(x)[1] = LogKey(y)[1] => x.event = y.event
  /\ \A b : LogKey(Log("bb_enter", b - 1)) = BlockKey(b)
  /\ \A f : LogKey(Log("func_enter", f - 1)) = FunctionKey(f)
<1>1. \A x \in EntryItems : x.event \in {"func_enter", "bb_enter"}
  BY DEF EntryItems
<1>2. (\A x \in CallItems : x.event = "call_edge") /\ (\A x \in CfgItems : x.event = "cfg_edge")
  BY DEF CallItems, CfgItems
<1>3. ASSUME NEW b
      PROVE  /\ LogKey(Log("bb_enter", b - 1)) = BlockKey(b)
             /\ LogKey(Log("func_enter", b - 1)) = FunctionKey(b)
  BY EventMaps, LogFields DEF LogKey, BlockKey, FunctionKey
<1> QED BY <1>1, <1>2, <1>3, EventMaps DEF LogKey

\* The parts of a block of the module, and what is in them.
LEMMA LaidParts ==
  ASSUME NEW m, NEW L, NEW heads, NEW mids, NEW done, NEW new, NEW cd, NEW sc,
         IsSplit(m, L, heads, mids, done, new, cd, sc), NEW b \in Blocks(m),
         NEW a, a = StartOf(m, heads, done, b), NEW z, z = EndOf(m, done, b)
  PROVE  /\ IsPut(Items(m), a, mids[b], z, cd[b])
         /\ \A k \in 1..Len(a) : a[k] \in OriginalItems(m) /\ OpIn(m, a[k]) = "phi"
         /\ z \in OriginalItems(m) \/ z = Goto
         /\ OpIn(m, z) # "call"
<1>1. WellFormed(m) /\ cd[b] = BlockNow(m, heads, mids, done, b)
  BY DEF IsSplit, Changed
<1>2. a \in Seq(Phis(m, b)) /\ a \in Seq(Items(m)) /\ mids[b] \in Seq(Items(m))
  BY PartItems
<1>3. LastOf(m, b) \in OriginalItems(m) /\ OpIn(m, LastOf(m, b)) \in Terminators
  BY <1>1, BlockItems
<1>4. OpIn(m, Goto) = "none" /\ OriginalItems(m) \subseteq Items(m) /\ Goto \in Items(m)
  BY <1>1, BlockItems, MiddleTypes
<1>5. z \in OriginalItems(m) \/ z = Goto
  BY <1>3 DEF EndOf
<1>6. z \in Items(m) /\ OpIn(m, z) # "call"
  BY <1>3, <1>4, <1>5 DEF EndOf, Terminators
<1>7. \A k \in 1..Len(a) : a[k] \in OriginalItems(m) /\ OpIn(m, a[k]) = "phi"
  <2>1. \A k \in 1..Len(a) : a[k] \in Phis(m, b)
    BY <1>2
  <2> QED BY <1>1, <2>1, BlockItems
<1> QED BY <1>1, <1>2, <1>5, <1>6, <1>7 DEF IsPut, BlockNow

\* Each of its calls has its log before it.
LEMMA LaidPaired ==
  ASSUME NEW m, NEW L, NEW heads, NEW mids, NEW done, NEW new, NEW cd, NEW sc,
         IsSplit(m, L, heads, mids, done, new, cd, sc), NEW b \in Blocks(m),
         NEW K, Paired(m, K, Join(mids[b], <<LastOf(m, b)>>))
  PROVE  Paired(m, K, cd[b])
<1>1. PICK a, z, mid, v : /\ a = StartOf(m, heads, done, b) /\ z = EndOf(m, done, b)
                          /\ mid = mids[b] /\ v = cd[b]
  OBVIOUS
<1>2. /\ IsPut(Items(m), a, mid, z, v)
      /\ \A k \in 1..Len(a) : a[k] \in OriginalItems(m) /\ OpIn(m, a[k]) = "phi"
  BY <1>1, LaidParts
<1>3. WellFormed(m) /\ done \subseteq CfgEdges(m)
  BY DEF IsSplit, Changed
<1>4. PICK w : w = Join(mid, <<z>>)
  OBVIOUS
<1>5. /\ a \in Seq(Items(m)) /\ mid \in Seq(Items(m)) /\ z \in Items(m) /\ <<z>> \in Seq(Items(m))
      /\ w \in Seq(Items(m)) /\ v = Join(a, w)
  BY <1>2, <1>4, JoinType, ShortSequences DEF IsPut
<1>6. Paired(m, K, w)
  <2>1. CASE ~ Shifted(m, done, b)
    BY <1>1, <1>4, <2>1 DEF EndOf
  <2>2. CASE Shifted(m, done, b)
    <3>1. PICK u : u = Join(mid, <<LastOf(m, b)>>)
      OBVIOUS
    <3>2. OpIn(m, LastOf(m, b)) \in {"br", "switch"} /\ LastOf(m, b) \in Items(m)
      BY <2>2, PartItems
    <3>3. ~ Calls(m, LastOf(m, b))
      BY <3>2 DEF Calls, OpIn, IsDirectCall, IsCall
    <3>4. IsEndedBy(Items(m), mid, LastOf(m, b), u) /\ Paired(m, K, u)
      BY <1>1, <1>5, <3>1, <3>2 DEF IsEndedBy
    <3>5. Paired(m, K, mid)
      BY <3>3, <3>4, PairedFront
    <3>6. PICK g : g = <<z>>
      OBVIOUS
    <3>7. z = Goto /\ Goto \notin CallItems /\ ~ Calls(m, Goto)
      <4>1. ~ Calls(m, Goto)
        BY <1>3, BlockItems
      <4>2. Goto \notin CallItems
        BY LogTypes
      <4> QED BY <1>1, <2>2, <4>1, <4>2 DEF EndOf
    <3>8. Paired(m, K, g)
      <4>1. Len(g) = 1 /\ g[1] = z
        BY <3>6
      <4>2. \A k \in 1..Len(g) : g[k] \notin CallItems /\ ~ Calls(m, g[k])
        BY <3>7, <4>1
      <4> QED BY <4>2, NothingPaired
    <3>9. IsJoin(Items(m), mid, g, w)
      BY <1>4, <1>5, <3>6 DEF IsJoin
    <3> QED BY <3>5, <3>8, <3>9, PairedJoined
  <2> QED BY <2>1, <2>2
<1>7. Paired(m, K, a)
  <2>1. ASSUME NEW k \in 1..Len(a) PROVE a[k] \notin CallItems /\ ~ Calls(m, a[k])
    <3>1. a[k] \in OriginalItems(m) /\ OpIn(m, a[k]) = "phi"
      BY <1>2
    <3>2. a[k] \notin CallItems
      BY <3>1, OriginalTypes, LogTypes
    <3>3. ~ Calls(m, a[k])
      BY <3>1 DEF Calls, OpIn, IsDirectCall, IsCall
    <3> QED BY <3>2, <3>3
  <2> QED BY <2>1, NothingPaired
<1>8. IsJoin(Items(m), a, w, v)
  BY <1>5 DEF IsJoin
<1> QED BY <1>1, <1>6, <1>7, <1>8, PairedJoined

\* Its entry logs are those of its middle.
LEMMA LaidEntries ==
  ASSUME NEW m, NEW L, NEW heads, NEW mids, NEW done, NEW new, NEW cd, NEW sc,
         IsSplit(m, L, heads, mids, done, new, cd, sc), NEW b \in Blocks(m),
         EntriesIn(m, b, mids[b])
  PROVE  EntriesAre(m, b, cd[b]) /\ NoCfg(cd[b])
<1>1. PICK a, z, mid, v : /\ a = StartOf(m, heads, done, b) /\ z = EndOf(m, done, b)
                          /\ mid = mids[b] /\ v = cd[b]
  OBVIOUS
<1>2. /\ IsPut(Items(m), a, mid, z, v)
      /\ \A k \in 1..Len(a) : a[k] \in OriginalItems(m) /\ OpIn(m, a[k]) = "phi"
      /\ z \in OriginalItems(m) \/ z = Goto
  BY <1>1, LaidParts
<1>3. EntriesAre(m, b, mid) /\ \A k \in 1..Len(mid) : mid[k] \notin CfgItems
  BY <1>1, EntriesMiddle DEF IsSplit
<1>4. PICK n, l, t : n = Len(a) /\ l = Len(mid) /\ t = Len(v)
  OBVIOUS
<1>5. /\ n \in Nat /\ l \in Nat /\ t = (n + l) + 1
      /\ \A k \in 1..l : n + k \in 1..t /\ v[n + k] = mid[k]
      /\ v[t] = z
      /\ \A k \in 1..t : \/ k \in 1..n /\ v[k] = a[k]
                         \/ k - n \in 1..l /\ v[k] = mid[k - n]
                         \/ k = t
  BY <1>2, <1>4, PutParts
<1>6. \A x \in OriginalItems(m) \cup {Goto} : x \notin EntryItems /\ x \notin CfgItems
  BY OriginalTypes, LogTypes
<1>7. \A k \in 1..t : v[k] \in EntryItems => k - n \in 1..l /\ v[k] = mid[k - n]
  BY <1>2, <1>4, <1>5, <1>6
<1>8. ASSUME NEW k \in 1..t PROVE v[k] \notin CfgItems
  BY <1>2, <1>3, <1>4, <1>5, <1>6
<1>9. EntryKinds(m, v)
  <2>1. ASSUME NEW j \in 1..t, NEW k \in 1..t, v[j] \in EntryItems, v[k] \in EntryItems,
               v[j].event = v[k].event
        PROVE  j = k
    <3>1. PICK i, h : i = j - n /\ h = k - n
      OBVIOUS
    <3>2. /\ i \in 1..l /\ h \in 1..l /\ mid[i] \in EntryItems /\ mid[h] \in EntryItems
          /\ mid[i].event = mid[h].event
      BY <1>7, <2>1, <3>1
    <3>3. i = h
      BY <1>3, <1>4, <3>2 DEF EntriesAre, EntryKinds
    <3> QED BY <1>5, <3>1, <3>3
  <2>2. ASSUME NEW j \in 1..t, NEW k \in 1..t, OpIn(m, v[j]) \in {"call", "invoke"}, j <= k,
               v[k] \in EntryItems
        PROVE  FALSE
    <3>1. PICK i, h : i = j - n /\ h = k - n
      OBVIOUS
    <3>2. h \in 1..l /\ mid[h] \in EntryItems
      BY <1>7, <2>2, <3>1
    <3>3. j # t
      BY <1>5, <2>2, <3>1, <3>2
    <3>4. i \in 1..l /\ v[j] = mid[i]
      BY <1>2, <1>4, <1>5, <2>2, <3>1, <3>3
    <3>5. i <= h
      BY <1>5, <2>2, <3>1
    <3> QED BY <1>3, <1>4, <2>2, <3>2, <3>4, <3>5 DEF EntriesAre, EntryKinds
  <2> QED BY <1>4, <2>1, <2>2 DEF EntryKinds
<1>10. ASSUME NEW x \in EntryItems PROVE Holds(v, x) <=> Holds(mid, x)
  <2>1. ASSUME NEW k \in 1..t, v[k] = x PROVE Holds(mid, x)
    <3>1. PICK i : i = k - n
      OBVIOUS
    <3>2. i \in 1..l /\ mid[i] = x
      BY <1>7, <2>1, <3>1
    <3> QED BY <1>4, <3>2 DEF Holds
  <2>2. ASSUME NEW k \in 1..l, mid[k] = x PROVE Holds(v, x)
    <3>1. n + k \in 1..t /\ v[n + k] = x
      BY <1>5, <2>2
    <3> QED BY <1>4, <3>1 DEF Holds
  <2> QED BY <1>4, <2>1, <2>2 DEF Holds
<1> QED BY <1>1, <1>3, <1>4, <1>8, <1>9, <1>10 DEF EntriesAre, NoCfg

LEMMA LaidShaped ==
  ASSUME NEW m, NEW L, NEW heads, NEW mids, NEW done, NEW new, NEW cd, NEW sc,
         IsSplit(m, L, heads, mids, done, new, cd, sc), NEW b \in Blocks(m),
         EntriesIn(m, b, mids[b]),
         NEW K, Paired(m, K, Join(mids[b], <<LastOf(m, b)>>)), NEW N, NamedBy(m, N, K, L, done)
  PROVE  Shaped(m, N, cd[b])
<1>1. PICK v : v = cd[b]
  OBVIOUS
<1>2. EntryKinds(m, v) /\ NoCfg(v)
  BY <1>1, LaidEntries DEF EntriesAre
<1>3. Paired(m, K, v)
  BY <1>1, LaidPaired
<1>4. v \in Seq(Items(m)) /\ v # <<>> /\ \A k \in 1..Len(v) : EndsIn(m, v[k]) <=> k = Len(v)
  <2>1. b \in DOMAIN cd
    BY Numbers
  <2> QED BY <1>1, <2>1, BlocksFormed
<1>5. ASSUME NEW k \in 1..Len(v), v[k] \in CallItems
      PROVE  /\ k + 1 \in 1..Len(v) /\ Calls(m, v[k + 1])
             /\ LogKey(v[k]) = N.calls[v[k + 1].at]
  <2>1. k + 1 \in 1..Len(v) /\ Calls(m, v[k + 1]) /\ v[k].id = K[v[k + 1].at]
    BY <1>3, <1>5 DEF Paired
  <2>2. PICK y : y = v[k + 1]
    OBVIOUS
  <2>3. y \in Items(m) /\ IsOriginal(y) /\ IsDirectCall(m, Instr(m, y.at))
    BY <1>4, <2>1, <2>2 DEF Calls
  <2>4. y.at \in Pointers(m)
    BY <2>3, OriginalTypes
  <2>5. N.calls[y.at] = <<"edge", K[y.at]>>
    BY <2>3, <2>4 DEF NamedBy
  <2> QED BY <1>5, <2>1, <2>2, <2>5, KeysOfLogs
<1>6. ASSUME NEW k \in 1..Len(v), Calls(m, v[k]) PROVE k - 1 \in 1..Len(v) /\ v[k - 1] \in CallItems
  BY <1>3, <1>6 DEF Paired
<1> QED BY <1>1, <1>2, <1>4, <1>5, <1>6 DEF Shaped, NoCfg


\* The block an edge has got, with phis a before the log and z at the end.
EdgeEnd(m, e) == IF Follows(m, e) THEN LastOf(m, e[1]) ELSE Goto

LEMMA BetweenParts ==
  ASSUME NEW m, NEW L, NEW heads, NEW mids, NEW done, NEW new, NEW cd, NEW sc,
         IsSplit(m, L, heads, mids, done, new, cd, sc), NEW e \in done,
         NEW a, a = IF Follows(m, e) THEN <<>> ELSE TakenPhis(m, heads, e)
  PROVE  /\ IsPut(Items(m), a, <<L[e]>>, EdgeEnd(m, e), cd[new[e]]) /\ L[e] \in CfgItems
         /\ \A k \in 1..Len(a) : a[k] \in OriginalItems(m) /\ OpIn(m, a[k]) = "phi"
         /\ Follows(m, e) => OpIn(m, LastOf(m, e[1])) \in {"br", "switch"} /\ Len(a) = 0
<1>1. WellFormed(m) /\ cd[new[e]] = Between(m, L, heads, e) /\ IsMarked(m, L, e) /\ e \in CfgEdges(m)
  BY DEF IsSplit, Changed
<1>2. PICK t, z, v : t = EdgeTarget(m, e) /\ z = EdgeEnd(m, e) /\ v = cd[new[e]]
  OBVIOUS
<1>3. t \in Blocks(m) /\ e[1] \in Blocks(m)
  BY <1>1, <1>2, EdgeParts
<1>4. L[e] \in CfgItems /\ OpIn(m, LastOf(m, e[1])) \in {"br", "switch"}
  BY <1>1 DEF IsMarked
<1>5. L[e] \in Items(m) /\ z \in Items(m)
  <2>1. LogItems \subseteq Items(m) /\ Goto \in Items(m) /\ LastOf(m, e[1]) \in Items(m)
    BY <1>1, <1>3, MiddleTypes
  <2> QED BY <1>2, <1>4, <2>1, LogTypes DEF EdgeEnd
<1>6. a \in Seq(Phis(m, t)) /\ a \in Seq(Items(m))
  <2>1. heads[t] \in Seq(Phis(m, t)) /\ heads[t] \in Seq(Items(m))
    BY <1>3, PartItems
  <2>2. <<>> \in Seq(Phis(m, t)) /\ <<>> \in Seq(Items(m))
    BY ShortSequences
  <2> QED BY <1>2, <2>1, <2>2 DEF TakenPhis
<1>7. PICK one, r : one = <<L[e]>> /\ r = <<L[e], z>>
  OBVIOUS
<1>8. one \in Seq(Items(m)) /\ r \in Seq(Items(m)) /\ r = Join(one, <<z>>)
  BY <1>5, <1>7, PairIsJoin
<1>9. v = Join(a, r)
  <2>1. Join(<<>>, r) = r
    BY <1>8, JoinEmpty
  <2>2. v = IF Follows(m, e) THEN r ELSE Join(TakenPhis(m, heads, e), r)
    BY <1>1, <1>2, <1>7 DEF Between, EdgeEnd
  <2> QED BY <2>1, <2>2
<1>10. \A k \in 1..Len(a) : a[k] \in OriginalItems(m) /\ OpIn(m, a[k]) = "phi"
  <2>1. \A k \in 1..Len(a) : a[k] \in Phis(m, t)
    BY <1>6
  <2> QED BY <1>1, <1>3, <2>1, BlockItems
<1>11. Follows(m, e) => Len(a) = 0
  OBVIOUS
<1> QED BY <1>2, <1>4, <1>5, <1>6, <1>7, <1>8, <1>9, <1>10, <1>11 DEF IsPut

\* What follows from it, for all of its items.
OnEdge(m, x, v) ==
  /\ NoEntries(v) /\ Len(v) - 1 \in 1..Len(v) /\ v[Len(v) - 1] = x /\ x \in CfgItems
  /\ \A k \in 1..Len(v) : k + 1 # Len(v) => v[k] \in OriginalItems(m) \cup {Goto}
  /\ \A k \in 1..Len(v) : OpIn(m, v[k]) \notin {"call", "invoke"}

LEMMA BetweenItems ==
  ASSUME NEW m, NEW L, NEW heads, NEW mids, NEW done, NEW new, NEW cd, NEW sc,
         IsSplit(m, L, heads, mids, done, new, cd, sc), NEW e \in done
  PROVE  /\ OnEdge(m, L[e], cd[new[e]]) /\ Last(cd[new[e]]) = EdgeEnd(m, e)
         /\ EdgeEnd(m, e) = Goto \/ OpIn(m, EdgeEnd(m, e)) \in {"br", "switch"}
<1>1. PICK a, x, z, one, v :
        /\ a = IF Follows(m, e) THEN <<>> ELSE TakenPhis(m, heads, e)
        /\ x = L[e] /\ z = EdgeEnd(m, e) /\ one = <<L[e]>> /\ v = cd[new[e]]
  OBVIOUS
<1>2. /\ IsPut(Items(m), a, one, z, v) /\ x \in CfgItems
      /\ \A k \in 1..Len(a) : a[k] \in OriginalItems(m) /\ OpIn(m, a[k]) = "phi"
      /\ Follows(m, e) => OpIn(m, LastOf(m, e[1])) \in {"br", "switch"}
  BY <1>1, BetweenParts
<1>3. Len(one) = 1 /\ one[1] = x
  BY <1>1
<1>4. PICK n, t : n = Len(a) /\ t = Len(v)
  OBVIOUS
<1>5. /\ n \in Nat /\ t = (n + 1) + 1 /\ n + 1 \in 1..t /\ v[n + 1] = x /\ v[t] = z /\ Last(v) = z
      /\ \A k \in 1..t : (k \in 1..n /\ v[k] = a[k]) \/ k = n + 1 \/ k = t
  <2>1. /\ Len(v) = (Len(a) + Len(one)) + 1 /\ Len(a) \in Nat
        /\ \A k \in 1..Len(one) : Len(a) + k \in 1..Len(v) /\ v[Len(a) + k] = one[k]
        /\ v[Len(v)] = z /\ Last(v) = z
        /\ \A k \in 1..Len(v) : \/ k \in 1..Len(a) /\ v[k] = a[k]
                                \/ k - Len(a) \in 1..Len(one) /\ v[k] = one[k - Len(a)]
                                \/ k = Len(v)
    BY <1>2, PutParts
  <2>2. /\ n \in Nat /\ t = (n + 1) + 1 /\ v[t] = z /\ Last(v) = z
        /\ \A k \in 1..1 : n + k \in 1..t /\ v[n + k] = one[k]
        /\ \A k \in 1..t : (k \in 1..n /\ v[k] = a[k]) \/ k - n \in 1..1 \/ k = t
    BY <1>3, <1>4, <2>1
  <2>3. n + 1 \in 1..t /\ v[n + 1] = x
    <3>1. 1 \in 1..1
      OBVIOUS
    <3> QED BY <1>3, <2>2, <3>1
  <2> QED BY <2>2, <2>3
<1>6. WellFormed(m) /\ e[1] \in Blocks(m)
  <2>1. WellFormed(m) /\ e \in CfgEdges(m)
    BY DEF IsSplit, Changed
  <2> QED BY <2>1, EdgeParts
<1>7. /\ z = Goto \/ (z \in OriginalItems(m) /\ OpIn(m, z) \in {"br", "switch"})
      /\ OpIn(m, z) \notin {"call", "invoke"}
  <2>1. LastOf(m, e[1]) \in OriginalItems(m) /\ OpIn(m, Goto) = "none"
    BY <1>6, BlockItems
  <2> QED BY <1>1, <1>2, <2>1 DEF EdgeEnd
<1>8. OpIn(m, x) = "none" /\ x \notin EntryItems /\ \A y \in OriginalItems(m) \cup {Goto} : y \notin EntryItems
  <2>1. x \in LogItems /\ x.event = "cfg_edge"
    BY <1>2 DEF CfgItems
  <2>2. OpIn(m, x) = "none"
    BY <1>6, <2>1, BlockItems
  <2>3. x \notin EntryItems
    BY <2>1 DEF EntryItems
  <2>4. \A y \in OriginalItems(m) \cup {Goto} : y \notin LogItems
    BY OriginalTypes, LogTypes
  <2> QED BY <2>2, <2>3, <2>4 DEF EntryItems
<1>9. ASSUME NEW k \in 1..t
      PROVE  /\ v[k] \notin EntryItems /\ OpIn(m, v[k]) \notin {"call", "invoke"}
             /\ k + 1 # t => v[k] \in OriginalItems(m) \cup {Goto}
  BY <1>2, <1>4, <1>5, <1>7, <1>8
<1>10. t - 1 \in 1..t /\ v[t - 1] = x
  <2>1. t - 1 = n + 1
    BY <1>5
  <2> QED BY <1>5, <2>1
<1> QED BY <1>1, <1>2, <1>4, <1>5, <1>7, <1>9, <1>10 DEF OnEdge, NoEntries

LEMMA BetweenShaped ==
  ASSUME NEW m, NEW L, NEW heads, NEW mids, NEW done, NEW new, NEW cd, NEW sc,
         IsSplit(m, L, heads, mids, done, new, cd, sc), NEW e \in done,
         NEW K, NEW N, NamedBy(m, N, K, L, done)
  PROVE  Shaped(m, N, cd[new[e]])
<1>1. PICK x, v : x = L[e] /\ v = cd[new[e]]
  OBVIOUS
<1>2. /\ OnEdge(m, x, v) /\ Last(v) = EdgeEnd(m, e)
      /\ EdgeEnd(m, e) = Goto \/ OpIn(m, EdgeEnd(m, e)) \in {"br", "switch"}
  BY <1>1, BetweenItems
<1>3. v \in Seq(Items(m)) /\ v # <<>> /\ \A k \in 1..Len(v) : EndsIn(m, v[k]) <=> k = Len(v)
  <2>1. new[e] \in DOMAIN cd
    BY Numbers
  <2> QED BY <1>1, <2>1, BlocksFormed
<1>4. \A y \in OriginalItems(m) \cup {Goto} : y \notin CallItems /\ y \notin CfgItems
  BY OriginalTypes, LogTypes
<1>5. EntryKinds(m, v)
  BY <1>2 DEF EntryKinds, OnEdge, NoEntries
<1>6. ASSUME NEW k \in 1..Len(v), v[k] \in CfgItems
      PROVE  /\ k + 1 = Len(v)
             /\ v[k + 1] = Goto \/ OpIn(m, v[k + 1]) \in {"br", "switch"}
             /\ \E g \in DOMAIN N.edges : LogKey(v[k]) = N.edges[g]
  <2>1. k + 1 = Len(v)
    BY <1>2, <1>4, <1>6 DEF OnEdge
  <2>2. Len(v) - 1 = k /\ v[Len(v) - 1] = x
    BY <1>2, <2>1 DEF OnEdge
  <2>3. v[k] = x
    BY <2>2
  <2>4. Last(v) = v[k + 1]
    BY <1>3, <2>1 DEF Last
  <2>5. e \in DOMAIN N.edges /\ LogKey(v[k]) = N.edges[e]
    BY <1>1, <2>3 DEF NamedBy
  <2> QED BY <1>2, <2>1, <2>4, <2>5
<1>7. ASSUME NEW k \in 1..Len(v) PROVE v[k] \notin CallItems /\ ~ Calls(m, v[k])
  <2>1. v[k] = x \/ v[k] \in OriginalItems(m) \cup {Goto}
    <3>1. CASE k + 1 = Len(v)
      <4>1. Len(v) - 1 = k /\ v[Len(v) - 1] = x
        BY <1>2, <3>1 DEF OnEdge
      <4> QED BY <4>1
    <3> QED BY <1>2, <3>1 DEF OnEdge
  <2>2. x \notin CallItems
    BY <1>2 DEF OnEdge, CfgItems, CallItems
  <2>3. OpIn(m, v[k]) \notin {"call", "invoke"}
    BY <1>2 DEF OnEdge
  <2>4. ~ Calls(m, v[k])
    BY <2>3 DEF Calls, OpIn, IsDirectCall, IsCall
  <2> QED BY <1>4, <2>1, <2>2, <2>4
<1> QED BY <1>1, <1>3, <1>5, <1>6, <1>7 DEF Shaped


\* A goto leads behind the log of an edge, or from there to a block of the module.
GotoShaped(m, cd, sc, c) ==
  Last(cd[c]) = Goto =>
    LET d == sc[c][1] IN
      /\ d \in DOMAIN cd
      /\ \/ NoEntries(cd[d]) /\ Last(cd[d]) # Goto /\ NoCfg(cd[c])
         \/ /\ d \in Blocks(m) /\ NoEntries(cd[c])
            /\ \A k \in 1..Len(cd[c]) : OpIn(m, cd[c][k]) \notin {"call", "invoke"}

\* The terminator of b, at the end of c, leads by its successor k to the target,
\* behind the log of the edge if it has one, or to that log.
Branches(m, N, cd, sc, c, b, k) ==
  LET d == sc[c][k]
      t == Successors(m, b)[k]
      e == <<b, k>>
      v == cd[c]
  IN /\ t \in Blocks(m) /\ ~ IsEntryBlock(m, t)
     /\ \/ /\ d = t
           /\ IF e \in DOMAIN N.edges
              THEN \E x : OnEdge(m, x, v) /\ LogKey(x) = N.edges[e]
              ELSE NoCfg(v)
        \/ /\ e \in DOMAIN N.edges /\ NoCfg(v) /\ Last(cd[d]) = Goto /\ sc[d][1] = t
           /\ d \in DOMAIN cd /\ \E x : OnEdge(m, x, cd[d]) /\ LogKey(x) = N.edges[e]

CodeShaped(m, N, cd, sc) ==
  /\ \A c \in DOMAIN cd : Shaped(m, N, cd[c]) /\ GotoShaped(m, cd, sc, c)
  /\ \A b \in Blocks(m) : /\ b \in DOMAIN cd /\ EntriesAre(m, b, cd[b]) /\ NoCfg(cd[b])
                          /\ Last(cd[b]) = Goto => NoEntries(cd[sc[b][1]])
  /\ \A c \in DOMAIN cd : \A b \in Blocks(m) : Last(cd[c]) = LastOf(m, b) =>
       \A k \in 1..Len(Successors(m, b)) : Branches(m, N, cd, sc, c, b, k)

\* Where a shifted block leads.
LEMMA ShiftedLeads ==
  ASSUME NEW m, NEW L, NEW heads, NEW mids, NEW done, NEW new, NEW cd, NEW sc,
         IsSplit(m, L, heads, mids, done, new, cd, sc), NEW b \in Blocks(m),
         Last(cd[b]) = Goto
  PROVE  NoEntries(cd[sc[b][1]]) /\ Last(cd[sc[b][1]]) # Goto /\ sc[b][1] \in DOMAIN cd
<1>1. WellFormed(m) /\ sc[b] = SuccsNow(m, done, new, b)
  BY DEF IsSplit, Changed
<1>2. LastOf(m, b) # Goto
  <2>1. LastOf(m, b) \in OriginalItems(m)
    BY <1>1, BlockItems
  <2> QED BY <2>1, OriginalTypes
<1>3. Shifted(m, done, b)
  <2>1. IsEndedBy(Items(m), FrontOf(m, heads, mids, done, b), EndOf(m, done, b), cd[b])
    BY BlockEnds
  <2>2. EndOf(m, done, b) = Goto
    BY <2>1, Ending
  <2> QED BY <1>2, <2>2 DEF EndOf
<1>4. PICK e : e = <<b, 1>>
  OBVIOUS
<1>5. e \in done /\ Follows(m, e)
  BY <1>3, <1>4, Homes
<1>6. sc[b][1] = new[e]
  <2>1. 1 \in 1..Len(Successors(m, b))
    BY <1>4, <1>5 DEF Follows
  <2> QED BY <1>1, <1>4, <1>5, <2>1 DEF SuccsNow
<1>7. NoEntries(cd[new[e]]) /\ Last(cd[new[e]]) = EdgeEnd(m, e)
  BY <1>5, BetweenItems DEF OnEdge
<1>8. EdgeEnd(m, e) # Goto
  BY <1>2, <1>4, <1>5 DEF EdgeEnd
<1>9. new[e] \in DOMAIN cd
  BY <1>5, Numbers
<1> QED BY <1>6, <1>7, <1>8, <1>9

LEMMA BranchesRight ==
  ASSUME NEW m, NEW L, NEW heads, NEW mids, NEW done, NEW new, NEW cd, NEW sc,
         IsSplit(m, L, heads, mids, done, new, cd, sc),
         \A b \in Blocks(m) : NoCfg(cd[b]),
         NEW K, NEW N, NamedBy(m, N, K, L, done),
         NEW c \in DOMAIN cd, NEW b \in Blocks(m), Last(cd[c]) = LastOf(m, b),
         NEW k \in 1..Len(Successors(m, b))
  PROVE  Branches(m, N, cd, sc, c, b, k)
<1>1. WellFormed(m)
  BY DEF IsSplit
<1>2. PICK d, t, e, v : d = sc[c][k] /\ t = Successors(m, b)[k] /\ e = <<b, k>> /\ v = cd[c]
  OBVIOUS
<1>3. e \in CfgEdges(m) /\ EdgeTarget(m, e) = t /\ t \in Blocks(m)
  BY <1>1, <1>2, EdgeParts
<1>4. ~ IsEntryBlock(m, t)
  BY <1>1, <1>2 DEF WellFormed
<1>5. c = HomeIn(m, cd, b)
  BY OneHome
<1>6. d = IF Detours(m, done, e) THEN new[e] ELSE t
  <2>1. ArrivalIn(m, cd, sc, e) = IF Detours(m, done, e) THEN new[e] ELSE t
    BY <1>3, Arrivals
  <2>2. ArrivalIn(m, cd, sc, e) = d
    BY <1>2, <1>5 DEF ArrivalIn
  <2> QED BY <2>1, <2>2
<1>7. DOMAIN N.edges = done /\ \A g \in done : N.edges[g] = LogKey(L[g])
  BY DEF NamedBy
<1>8. \A g \in done : Follows(m, g) /\ g[1] = b => Len(Successors(m, b)) = 1
  BY DEF Follows
<1>9. Shifted(m, done, b) => e \in done /\ Follows(m, e) /\ c = new[e]
  <2> SUFFICES ASSUME Shifted(m, done, b) PROVE e \in done /\ Follows(m, e) /\ c = new[e]
    OBVIOUS
  <2>1. PICK g : g = <<b, 1>>
    OBVIOUS
  <2>2. g \in done /\ Follows(m, g) /\ c = new[g]
    BY <1>5, <2>1, Homes
  <2>3. Len(Successors(m, b)) = 1
    BY <1>8, <2>1, <2>2
  <2>4. e = g
    BY <1>2, <2>1, <2>3
  <2> QED BY <2>2, <2>4
<1>10. ~ Shifted(m, done, b) => NoCfg(v)
  <2>1. ~ Shifted(m, done, b) => c = b
    <3>1. /\ ~ Shifted(m, done, b) => HomeIn(m, cd, b) = b
          /\ Shifted(m, done, b) => /\ <<b, 1>> \in done /\ Follows(m, <<b, 1>>)
                                    /\ HomeIn(m, cd, b) = new[<<b, 1>>]
      BY Homes
    <3> QED BY <1>5, <3>1
  <2>2. NoCfg(cd[b])
    OBVIOUS
  <2> QED BY <1>2, <2>1, <2>2
<1>11. CASE Detours(m, done, e)
  <2>1. e \in done /\ ~ Follows(m, e) /\ d = new[e]
    BY <1>6, <1>11 DEF Detours
  <2>2. NoCfg(v)
    BY <1>9, <1>10, <2>1
  <2>3. OnEdge(m, L[e], cd[d]) /\ Last(cd[d]) = EdgeEnd(m, e)
    BY <2>1, BetweenItems
  <2>4. Last(cd[d]) = Goto
    BY <2>1, <2>3 DEF EdgeEnd
  <2>5. sc[d][1] = t /\ d \in DOMAIN cd
    <3>1. sc[new[e]] = <<EdgeTarget(m, e)>>
      BY <2>1 DEF IsSplit, Changed
    <3>2. new[e] \in DOMAIN cd
      BY <2>1, Numbers
    <3> QED BY <1>3, <2>1, <3>1, <3>2
  <2>6. e \in DOMAIN N.edges /\ LogKey(L[e]) = N.edges[e]
    BY <1>7, <2>1
  <2> QED BY <1>2, <1>3, <1>4, <2>2, <2>3, <2>4, <2>5, <2>6 DEF Branches
<1>12. CASE ~ Detours(m, done, e)
  <2>1. d = t
    BY <1>6, <1>12
  <2>2. ASSUME e \in DOMAIN N.edges PROVE \E x : OnEdge(m, x, v) /\ LogKey(x) = N.edges[e]
    <3>1. e \in done /\ Follows(m, e)
      BY <1>7, <1>12, <2>2 DEF Detours
    <3>2. Shifted(m, done, b)
      <4>1. e[1] = b
        BY <1>2
      <4> QED BY <3>1, <4>1 DEF Shifted
    <3>3. OnEdge(m, L[e], v)
      BY <1>2, <1>9, <3>1, <3>2, BetweenItems
    <3> QED BY <1>7, <3>1, <3>3
  <2>3. ASSUME e \notin DOMAIN N.edges PROVE NoCfg(v)
    BY <1>7, <1>9, <1>10, <2>3
  <2> QED BY <1>2, <1>3, <1>4, <2>1, <2>2, <2>3 DEF Branches
<1> QED BY <1>11, <1>12

LEMMA CodeIsShaped ==
  ASSUME NEW m, NEW L, NEW heads, NEW mids, NEW done, NEW new, NEW cd, NEW sc,
         IsSplit(m, L, heads, mids, done, new, cd, sc),
         NEW K, NEW N, NamedBy(m, N, K, L, done),
         \A b \in Blocks(m) : EntriesIn(m, b, mids[b]) /\ Paired(m, K, Join(mids[b], <<LastOf(m, b)>>))
  PROVE  CodeShaped(m, N, cd, sc)
<1>1. ASSUME NEW b \in Blocks(m)
      PROVE  /\ b \in DOMAIN cd /\ EntriesAre(m, b, cd[b]) /\ NoCfg(cd[b]) /\ Shaped(m, N, cd[b])
             /\ Last(cd[b]) = Goto => NoEntries(cd[sc[b][1]])
             /\ GotoShaped(m, cd, sc, b)
  <2>1. b \in DOMAIN cd
    BY Numbers
  <2>2. EntriesAre(m, b, cd[b]) /\ NoCfg(cd[b])
    BY LaidEntries
  <2>3. Shaped(m, N, cd[b])
    BY LaidShaped
  <2>4. Last(cd[b]) = Goto => /\ NoEntries(cd[sc[b][1]]) /\ Last(cd[sc[b][1]]) # Goto
                                /\ sc[b][1] \in DOMAIN cd
    BY ShiftedLeads
  <2>5. GotoShaped(m, cd, sc, b)
    BY <2>2, <2>4 DEF GotoShaped
  <2> QED BY <2>1, <2>2, <2>3, <2>4, <2>5
<1>2. ASSUME NEW e \in done
      PROVE  Shaped(m, N, cd[new[e]]) /\ GotoShaped(m, cd, sc, new[e])
  <2>1. Shaped(m, N, cd[new[e]])
    BY BetweenShaped
  <2>2. OnEdge(m, L[e], cd[new[e]])
    BY BetweenItems
  <2>3. sc[new[e]][1] \in Blocks(m)
    <3>1. WellFormed(m) /\ e \in CfgEdges(m) /\ sc[new[e]] = <<EdgeTarget(m, e)>>
      BY DEF IsSplit, Changed
    <3>2. EdgeTarget(m, e) \in Blocks(m)
      BY <3>1, EdgeParts
    <3> QED BY <3>1, <3>2
  <2>4. GotoShaped(m, cd, sc, new[e])
    BY <2>2, <2>3, Numbers DEF GotoShaped, OnEdge
  <2> QED BY <2>1, <2>4
<1>3. \A c \in DOMAIN cd : Shaped(m, N, cd[c]) /\ GotoShaped(m, cd, sc, c)
  BY <1>1, <1>2, Numbers
<1>4. \A b \in Blocks(m) : NoCfg(cd[b])
  BY <1>1
<1>5. ASSUME NEW c \in DOMAIN cd, NEW b \in Blocks(m), Last(cd[c]) = LastOf(m, b),
             NEW k \in 1..Len(Successors(m, b))
      PROVE  Branches(m, N, cd, sc, c, b, k)
  BY <1>4, <1>5, BranchesRight
<1> QED BY <1>1, <1>3, <1>5 DEF CodeShaped

------------------------------------------------------------------------------
(***************************************************************************)
(* What is owed at item k of a block v of shaped code: late, the entries   *)
(* whose logs are still to come, with those behind a goto, and the edge    *)
(* that led there; early, the call that follows its log or the edge that   *)
(* follows the log at the end of its source.                               *)
(***************************************************************************)
LateItems(v) == IF Last(v) = Goto THEN EntryItems \cup CfgItems ELSE EntryItems
LateIn(v, k, x) == \E j \in 1..Len(v) : k <= j /\ v[j] \in LateItems(v) /\ x = LogKey(v[j])
EntersIn(v, x) == \E j \in 1..Len(v) : v[j] \in EntryItems /\ x = LogKey(v[j])

IsLate(cd, sc, c, k, x) ==
  LateIn(cd[c], k, x) \/ (Last(cd[c]) = Goto /\ EntersIn(cd[sc[c][1]], x))
IsEarly(m, N, v, k, x) ==
  IF Calls(m, v[k]) THEN x = N.calls[v[k].at]
  ELSE k > 1 /\ v[k - 1] \in CfgItems /\ v[k] # Goto /\ x = LogKey(v[k - 1])

NothingEarly(m, N, v, k) == \A x : ~ IsEarly(m, N, v, k, x)
OnlyEarly(m, N, v, k, y) == \A x : IsEarly(m, N, v, k, x) <=> x = y

\* Place k of block v.
IsAt(m, N, cd, sc, c, k, v) ==
  WellFormed(m) /\ CodeShaped(m, N, cd, sc) /\ c \in DOMAIN cd /\ v = cd[c] /\ k \in 1..Len(v)

LEMMA AtFacts ==
  ASSUME NEW m, NEW N, NEW cd, NEW sc, NEW c, NEW k, NEW v, IsAt(m, N, cd, sc, c, k, v)
  PROVE  /\ WellFormed(m) /\ Shaped(m, N, v) /\ GotoShaped(m, cd, sc, c) /\ EntryKinds(m, v)
         /\ v \in Seq(Items(m)) /\ v[k] \in Items(m) /\ Len(v) \in Nat /\ k \in 1..Len(v)
         /\ Last(v) = v[Len(v)] /\ Len(v) \in 1..Len(v)
         /\ EndsIn(m, v[k]) <=> k = Len(v)
         /\ v[k] = Goto => k = Len(v) /\ Last(v) = Goto
         /\ k = Len(v) => v[k] \notin LogItems
         /\ v[k] \in LogItems => k < Len(v) /\ ~ Calls(m, v[k]) /\ v[k] # Goto
<1>1. WellFormed(m) /\ Shaped(m, N, v) /\ GotoShaped(m, cd, sc, c) /\ k \in 1..Len(v)
  BY DEF IsAt, CodeShaped
<1>2. EntryKinds(m, v) /\ v \in Seq(Items(m)) /\ v # <<>> /\ (EndsIn(m, v[k]) <=> k = Len(v))
  BY <1>1 DEF Shaped
<1>3. v[k] \in Items(m) /\ Len(v) \in Nat /\ Last(v) = v[Len(v)] /\ Len(v) \in 1..Len(v)
  BY <1>1, <1>2 DEF Last
<1>4. v[k] = Goto => k = Len(v)
  BY <1>2 DEF EndsIn
<1>5. v[k] \in LogItems => ~ EndsIn(m, v[k]) /\ ~ Calls(m, v[k]) /\ v[k] # Goto
  BY <1>1, ItemsEnd, LogTypes DEF Calls
<1> QED BY <1>1, <1>2, <1>3, <1>4, <1>5

LEMMA EarlyAt ==
  ASSUME NEW m, NEW N, NEW cd, NEW sc, NEW c, NEW k, NEW v, IsAt(m, N, cd, sc, c, k, v)
  PROVE  /\ v[k] \in LogItems \cup {Goto} => NothingEarly(m, N, v, k)
         /\ OpIn(m, v[k]) \in {"phi", "landingpad", "other", "ret"} => NothingEarly(m, N, v, k)
         /\ k = 1 => NothingEarly(m, N, v, k)
         /\ OpIn(m, v[k]) \in {"call", "invoke"} =>
              IF Calls(m, v[k]) THEN OnlyEarly(m, N, v, k, N.calls[v[k].at])
              ELSE NothingEarly(m, N, v, k)
         /\ \A x : IsEarly(m, N, v, k, x) => x[1] = "edge"
         /\ \A x : IsEarly(m, N, v, k, x) => Calls(m, v[k]) \/ k = Len(v)
<1>1. /\ WellFormed(m) /\ Shaped(m, N, v) /\ v[k] \in Items(m) /\ Len(v) \in Nat /\ k \in 1..Len(v)
      /\ v[k] \in LogItems => k < Len(v) /\ ~ Calls(m, v[k])
  BY AtFacts
<1>2. ASSUME k > 1, v[k - 1] \in CfgItems
      PROVE  k = Len(v) /\ (v[k] = Goto \/ OpIn(m, v[k]) \in {"br", "switch"})
  <2>1. PICK i : i = k - 1
    OBVIOUS
  <2>2. i \in 1..Len(v) /\ i + 1 = k
    BY <1>1, <1>2, <2>1
  <2> QED BY <1>1, <1>2, <2>1, <2>2 DEF Shaped
<1>3. Calls(m, v[k]) => /\ k - 1 \in 1..Len(v) /\ v[k - 1] \in CallItems
                        /\ OpIn(m, v[k]) \in {"call", "invoke"} /\ v[k] # Goto
  <2>1. Calls(m, v[k]) => OpIn(m, v[k]) \in {"call", "invoke"} /\ IsOriginal(v[k])
    BY DEF Calls, OpIn, IsDirectCall, IsCall
  <2> QED BY <1>1, <2>1, LogTypes DEF Shaped
<1>4. Calls(m, v[k]) => LogKey(v[k - 1]) = N.calls[v[k].at]
  <2>1. PICK i : i = k - 1
    OBVIOUS
  <2>2. i + 1 = k
    BY <1>1, <2>1
  <2> QED BY <1>1, <1>3, <2>1, <2>2 DEF Shaped
<1>5. OpIn(m, Goto) = "none"
  BY LogTypes DEF OpIn
<1>6. v[k] \in LogItems \cup {Goto} => NothingEarly(m, N, v, k)
  BY <1>1, <1>2, <1>3 DEF NothingEarly, IsEarly
<1>7. OpIn(m, v[k]) \in {"phi", "landingpad", "other", "ret"} => NothingEarly(m, N, v, k)
  BY <1>2, <1>3 DEF NothingEarly, IsEarly
<1>8. k = 1 => NothingEarly(m, N, v, k)
  BY <1>3 DEF NothingEarly, IsEarly
<1>9. ASSUME OpIn(m, v[k]) \in {"call", "invoke"}
      PROVE  IF Calls(m, v[k]) THEN OnlyEarly(m, N, v, k, N.calls[v[k].at])
             ELSE NothingEarly(m, N, v, k)
  BY <1>2, <1>5, <1>9 DEF NothingEarly, OnlyEarly, IsEarly
<1>10. ASSUME NEW x, IsEarly(m, N, v, k, x) PROVE x[1] = "edge"
  <2>1. \A y \in CallItems \cup CfgItems : LogKey(y)[1] = "edge"
    BY KeysOfLogs
  <2> QED BY <1>3, <1>4, <1>10, <2>1 DEF IsEarly
<1>11. ASSUME NEW x, IsEarly(m, N, v, k, x) PROVE Calls(m, v[k]) \/ k = Len(v)
  BY <1>2, <1>11 DEF IsEarly
<1> QED BY <1>6, <1>7, <1>8, <1>9, <1>10, <1>11

\* Behind item k.
LEMMA EarlyNext ==
  ASSUME NEW m, NEW N, NEW cd, NEW sc, NEW c, NEW k, NEW v, IsAt(m, N, cd, sc, c, k, v),
         k < Len(v)
  PROVE  /\ IsAt(m, N, cd, sc, c, k + 1, v)
         /\ v[k] \in CallItems => OnlyEarly(m, N, v, k + 1, LogKey(v[k]))
         /\ v[k] \in CfgItems => /\ k + 1 = Len(v)
                                 /\ IF Last(v) = Goto THEN NothingEarly(m, N, v, k + 1)
                                    ELSE OnlyEarly(m, N, v, k + 1, LogKey(v[k]))
         /\ v[k] \notin CallItems \cup CfgItems => NothingEarly(m, N, v, k + 1)
<1>1. /\ WellFormed(m) /\ Shaped(m, N, v) /\ Len(v) \in Nat /\ k \in 1..Len(v)
      /\ Last(v) = v[Len(v)]
  BY AtFacts
<1>2. IsAt(m, N, cd, sc, c, k + 1, v)
  BY <1>1 DEF IsAt
<1>3. PICK i : i = k + 1
  OBVIOUS
<1>4. i \in 1..Len(v) /\ i - 1 = k /\ i > 1
  BY <1>1, <1>3
<1>5. Calls(m, v[i]) => v[k] \in CallItems
  BY <1>1, <1>4 DEF Shaped
<1>6. v[k] \in CallItems => Calls(m, v[i]) /\ LogKey(v[k]) = N.calls[v[i].at]
  BY <1>1, <1>3 DEF Shaped
<1>7. v[k] \in CfgItems => k + 1 = Len(v)
  BY <1>1 DEF Shaped
<1>8. CallItems \cap CfgItems = {}
  BY DEF CallItems, CfgItems
<1>9. v[k] \in CallItems => OnlyEarly(m, N, v, i, LogKey(v[k]))
  BY <1>6 DEF OnlyEarly, IsEarly
<1>10. v[k] \in CfgItems => IF Last(v) = Goto THEN NothingEarly(m, N, v, i)
                            ELSE OnlyEarly(m, N, v, i, LogKey(v[k]))
  BY <1>1, <1>3, <1>4, <1>5, <1>7, <1>8 DEF OnlyEarly, NothingEarly, IsEarly
<1>11. v[k] \notin CallItems \cup CfgItems => NothingEarly(m, N, v, i)
  BY <1>4, <1>5 DEF NothingEarly, IsEarly
<1> QED BY <1>2, <1>3, <1>7, <1>9, <1>10, <1>11

\* What is late: item k or something behind it, and never the same twice.
LEMMA LateNext ==
  ASSUME NEW m, NEW N, NEW cd, NEW sc, NEW c, NEW k, NEW v, IsAt(m, N, cd, sc, c, k, v),
         k < Len(v)
  PROVE  /\ \A x : IsLate(cd, sc, c, k, x) <=>
              IsLate(cd, sc, c, k + 1, x) \/ (v[k] \in LateItems(v) /\ x = LogKey(v[k]))
         /\ v[k] \in LateItems(v) => ~ IsLate(cd, sc, c, k + 1, LogKey(v[k]))
<1>1. /\ WellFormed(m) /\ Shaped(m, N, v) /\ Len(v) \in Nat /\ k \in 1..Len(v)
      /\ GotoShaped(m, cd, sc, c) /\ EntryKinds(m, v) /\ v = cd[c]
  BY AtFacts DEF IsAt
<1>2. ASSUME NEW x
      PROVE  LateIn(v, k, x) <=> LateIn(v, k + 1, x) \/ (v[k] \in LateItems(v) /\ x = LogKey(v[k]))
  <2>1. \A j \in 1..Len(v) : k <= j <=> k + 1 <= j \/ j = k
    BY <1>1
  <2> QED BY <1>1, <2>1 DEF LateIn
<1>3. ASSUME v[k] \in LateItems(v), IsLate(cd, sc, c, k + 1, LogKey(v[k])) PROVE FALSE
  <2>1. v[k] \in EntryItems \/ (v[k] \in CfgItems /\ Last(v) = Goto)
    BY <1>3 DEF LateItems
  <2>2. \A y \in EntryItems : \A z \in CfgItems : LogKey(y)[1] # LogKey(z)[1]
    BY KeysOfLogs
  <2>3. CASE LateIn(v, k + 1, LogKey(v[k]))
    <3>1. PICK j \in 1..Len(v) : k + 1 <= j /\ v[j] \in LateItems(v) /\ LogKey(v[k]) = LogKey(v[j])
      BY <2>3 DEF LateIn
    <3>2. v[j] \in EntryItems \cup CfgItems
      BY <3>1 DEF LateItems
    <3>3. CASE v[k] \in EntryItems
      <4>1. v[j] \in EntryItems
        BY <2>2, <3>1, <3>2, <3>3
      <4>2. v[k].event = v[j].event
        BY <3>1, <3>3, <4>1, KeysOfLogs
      <4>3. k = j
        BY <1>1, <3>3, <4>1, <4>2 DEF EntryKinds
      <4> QED BY <1>1, <3>1, <4>3
    <3>4. CASE v[k] \in CfgItems
      <4>1. k + 1 = Len(v)
        BY <1>1, <3>4 DEF Shaped
      <4>2. j = Len(v)
        BY <1>1, <3>1, <4>1
      <4>3. IsAt(m, N, cd, sc, c, j, v)
        BY DEF IsAt
      <4>4. v[j] \notin LogItems
        BY <4>2, <4>3, AtFacts
      <4> QED BY <3>2, <4>4, LogTypes
    <3> QED BY <2>1, <3>3, <3>4
  <2>4. CASE Last(v) = Goto /\ EntersIn(cd[sc[c][1]], LogKey(v[k]))
    <3>1. PICK u : u = cd[sc[c][1]]
      OBVIOUS
    <3>2. PICK j \in 1..Len(u) : u[j] \in EntryItems /\ LogKey(v[k]) = LogKey(u[j])
      BY <2>4, <3>1 DEF EntersIn
    <3>3. v[k] \in EntryItems
      BY <2>1, <2>2, <3>2
    <3> QED BY <1>1, <2>4, <3>1, <3>2, <3>3 DEF GotoShaped, NoEntries
  <2> QED BY <1>1, <1>3, <2>3, <2>4 DEF IsLate
<1> QED BY <1>1, <1>2, <1>3 DEF IsLate

\* At the end of a block only what is behind its goto is late.
LEMMA LateLast ==
  ASSUME NEW m, NEW N, NEW cd, NEW sc, NEW c, NEW k, NEW v, IsAt(m, N, cd, sc, c, k, v),
         k = Len(v)
  PROVE  \A x : IsLate(cd, sc, c, k, x) <=> Last(v) = Goto /\ EntersIn(cd[sc[c][1]], x)
<1>1. v = cd[c] /\ Len(v) \in Nat /\ v[k] \notin LogItems
  BY AtFacts DEF IsAt
<1>2. ASSUME NEW x PROVE ~ LateIn(v, k, x)
  <2> SUFFICES ASSUME NEW j \in 1..Len(v), k <= j, v[j] \in LateItems(v) PROVE FALSE
    BY DEF LateIn
  <2>1. j = k
    BY <1>1
  <2>2. v[k] \in LogItems
    BY <2>1, LogTypes DEF LateItems
  <2> QED BY <1>1, <2>2
<1> QED BY <1>1, <1>2 DEF IsLate


Owed(m, N, cd, sc, c, k, x) == Sign(IsLate(cd, sc, c, k, x)) - Sign(IsEarly(m, N, cd[c], k, x))

LEMMA OwedIs ==
  ASSUME NEW m, NEW N, NEW cd, NEW sc, NEW c, NEW k, NEW x
  PROVE  /\ Owed(m, N, cd, sc, c, k, x) \in Int
         /\ IsLate(cd, sc, c, k, x) /\ ~ IsEarly(m, N, cd[c], k, x) => Owed(m, N, cd, sc, c, k, x) = 1
         /\ ~ IsLate(cd, sc, c, k, x) /\ IsEarly(m, N, cd[c], k, x) => Owed(m, N, cd, sc, c, k, x) = -1
         /\ ~ IsLate(cd, sc, c, k, x) /\ ~ IsEarly(m, N, cd[c], k, x) => Owed(m, N, cd, sc, c, k, x) = 0
         /\ IsLate(cd, sc, c, k, x) /\ IsEarly(m, N, cd[c], k, x) => Owed(m, N, cd, sc, c, k, x) = 0
<1>1. CASE IsLate(cd, sc, c, k, x) /\ IsEarly(m, N, cd[c], k, x)
  BY <1>1 DEF Owed, Sign
<1>2. CASE IsLate(cd, sc, c, k, x) /\ ~ IsEarly(m, N, cd[c], k, x)
  BY <1>2 DEF Owed, Sign
<1>3. CASE ~ IsLate(cd, sc, c, k, x) /\ IsEarly(m, N, cd[c], k, x)
  BY <1>3 DEF Owed, Sign
<1>4. CASE ~ IsLate(cd, sc, c, k, x) /\ ~ IsEarly(m, N, cd[c], k, x)
  BY <1>4 DEF Owed, Sign
<1> QED BY <1>1, <1>2, <1>3, <1>4

\* A log pays what it says.
LEMMA OwedLog ==
  ASSUME NEW m, NEW N, NEW cd, NEW sc, NEW c, NEW k, NEW v, IsAt(m, N, cd, sc, c, k, v),
         v[k] \in LogItems
  PROVE  \A x : Owed(m, N, cd, sc, c, k, x) = Owed(m, N, cd, sc, c, k + 1, x) + Is(x, LogKey(v[k]))
<1>1. v = cd[c] /\ k < Len(v)
  BY AtFacts DEF IsAt
<1>2. NothingEarly(m, N, v, k)
  BY EarlyAt
<1>3. /\ v[k] \in CallItems => OnlyEarly(m, N, v, k + 1, LogKey(v[k]))
      /\ v[k] \in CfgItems => IF Last(v) = Goto THEN NothingEarly(m, N, v, k + 1)
                              ELSE OnlyEarly(m, N, v, k + 1, LogKey(v[k]))
      /\ v[k] \notin CallItems \cup CfgItems => NothingEarly(m, N, v, k + 1)
  BY <1>1, EarlyNext
<1>4. /\ \A x : IsLate(cd, sc, c, k, x) <=>
           IsLate(cd, sc, c, k + 1, x) \/ (v[k] \in LateItems(v) /\ x = LogKey(v[k]))
      /\ v[k] \in LateItems(v) => ~ IsLate(cd, sc, c, k + 1, LogKey(v[k]))
  BY <1>1, LateNext
<1>5. \/ v[k] \in EntryItems /\ v[k] \notin CallItems \cup CfgItems
      \/ v[k] \in CfgItems /\ v[k] \notin EntryItems \cup CallItems
      \/ v[k] \in CallItems /\ v[k] \notin EntryItems \cup CfgItems
  BY DEF LogItems, EntryItems, CallItems, CfgItems
<1> SUFFICES ASSUME NEW x
             PROVE  Owed(m, N, cd, sc, c, k, x) = Owed(m, N, cd, sc, c, k + 1, x) + Is(x, LogKey(v[k]))
  OBVIOUS
<1>6. PICK y : y = LogKey(v[k])
  OBVIOUS
<1>7. CASE x # y
  <2>1. Is(x, y) = 0
    BY <1>7 DEF Is, Sign
  <2>2. IsLate(cd, sc, c, k, x) <=> IsLate(cd, sc, c, k + 1, x)
    BY <1>4, <1>6, <1>7
  <2>3. ~ IsEarly(m, N, cd[c], k, x) /\ ~ IsEarly(m, N, cd[c], k + 1, x)
    BY <1>1, <1>2, <1>3, <1>6, <1>7 DEF NothingEarly, OnlyEarly
  <2> QED BY <1>6, <2>1, <2>2, <2>3, OwedIs
<1>8. CASE x = y
  <2>1. Is(x, y) = 1
    BY <1>8 DEF Is, Sign
  <2>2. ~ IsEarly(m, N, cd[c], k, x)
    BY <1>1, <1>2 DEF NothingEarly
  <2>3. CASE v[k] \in LateItems(v)
    <3>1. IsLate(cd, sc, c, k, x) /\ ~ IsLate(cd, sc, c, k + 1, x)
      BY <1>4, <1>6, <1>8, <2>3
    <3>2. ~ IsEarly(m, N, cd[c], k + 1, x)
      BY <1>1, <1>3, <1>5, <2>3 DEF NothingEarly, LateItems
    <3>3. Owed(m, N, cd, sc, c, k, x) = 1 /\ Owed(m, N, cd, sc, c, k + 1, x) = 0
      BY <2>2, <3>1, <3>2, OwedIs
    <3> QED BY <1>6, <2>1, <3>3
  <2>4. CASE v[k] \notin LateItems(v)
    <3>1. IsLate(cd, sc, c, k, x) <=> IsLate(cd, sc, c, k + 1, x)
      BY <1>4, <2>4
    <3>2. IsEarly(m, N, cd[c], k + 1, x)
      BY <1>1, <1>3, <1>5, <1>6, <1>8, <2>4 DEF OnlyEarly, LateItems
    <3>3. CASE IsLate(cd, sc, c, k, x)
      <4>1. Owed(m, N, cd, sc, c, k, x) = 1 /\ Owed(m, N, cd, sc, c, k + 1, x) = 0
        BY <2>2, <3>1, <3>2, <3>3, OwedIs
      <4> QED BY <1>6, <2>1, <4>1
    <3>4. CASE ~ IsLate(cd, sc, c, k, x)
      <4>1. Owed(m, N, cd, sc, c, k, x) = 0 /\ Owed(m, N, cd, sc, c, k + 1, x) = -1
        BY <2>2, <3>1, <3>2, <3>4, OwedIs
      <4> QED BY <1>6, <2>1, <4>1
    <3> QED BY <3>3, <3>4
  <2> QED BY <2>3, <2>4
<1> QED BY <1>7, <1>8

\* What the entry logs of a block of the module say.
LEMMA BlockEnters ==
  ASSUME NEW m, WellFormed(m), NEW b \in Blocks(m), NEW v, EntriesAre(m, b, v)
  PROVE  \A x : EntersIn(v, x) <=> x = BlockKey(b) \/ (IsEntryBlock(m, b) /\ x = FunctionKey(m.function_of[b]))
<1>1. PICK y, z : y = Log("bb_enter", b - 1) /\ z = Log("func_enter", m.function_of[b] - 1)
  OBVIOUS
<1>2. LogKey(y) = BlockKey(b) /\ LogKey(z) = FunctionKey(m.function_of[b])
  BY <1>1, KeysOfLogs
<1>3. \A x \in EntryItems : Holds(v, x) <=> x = y \/ (IsEntryBlock(m, b) /\ x = z)
  BY <1>1 DEF EntriesAre
<1>4. y \in EntryItems /\ z \in EntryItems
  <2>1. m.function_of[b] - 1 \in Int /\ b - 1 \in Int
    <3>1. m.function_of[b] \in Functions(m)
      BY BodyType
    <3> QED BY <3>1 DEF Blocks, Functions
  <2> QED BY <1>1, <2>1, LogTypes
<1>5. ASSUME NEW x, EntersIn(v, x)
      PROVE  x = BlockKey(b) \/ (IsEntryBlock(m, b) /\ x = FunctionKey(m.function_of[b]))
  <2>1. PICK j \in 1..Len(v) : v[j] \in EntryItems /\ x = LogKey(v[j])
    BY <1>5 DEF EntersIn
  <2>2. v[j] = y \/ (IsEntryBlock(m, b) /\ v[j] = z)
    BY <1>3, <2>1 DEF Holds
  <2> QED BY <1>2, <2>1, <2>2
<1>6. EntersIn(v, BlockKey(b))
  BY <1>2, <1>3, <1>4 DEF EntersIn, Holds
<1>7. IsEntryBlock(m, b) => EntersIn(v, FunctionKey(m.function_of[b]))
  BY <1>2, <1>3, <1>4 DEF EntersIn, Holds
<1> QED BY <1>5, <1>6, <1>7

\* Where a block of the module starts, its entry is owed and nothing else.
LEMMA OwedFirst ==
  ASSUME NEW m, NEW N, NEW cd, NEW sc, WellFormed(m), CodeShaped(m, N, cd, sc), NEW b \in Blocks(m)
  PROVE  /\ \A x : IsLate(cd, sc, b, 1, x) <=> EntersIn(cd[b], x)
         /\ \A x : Owed(m, N, cd, sc, b, 1, x) = Is(x, BlockKey(b)) + FirstOf(m, b, x)
<1>1. /\ b \in DOMAIN cd /\ EntriesAre(m, b, cd[b]) /\ NoCfg(cd[b])
      /\ Last(cd[b]) = Goto => NoEntries(cd[sc[b][1]])
  BY DEF CodeShaped
<1>2. PICK v : v = cd[b]
  OBVIOUS
<1>3. IsAt(m, N, cd, sc, b, 1, v)
  <2>1. Shaped(m, N, v)
    BY <1>1, <1>2 DEF CodeShaped
  <2>2. 1 \in 1..Len(v)
    BY <2>1 DEF Shaped
  <2> QED BY <1>1, <1>2, <2>2 DEF IsAt
<1>4. ASSUME NEW x PROVE IsLate(cd, sc, b, 1, x) <=> EntersIn(cd[b], x)
  <2>1. LateIn(v, 1, x) <=> EntersIn(v, x)
    BY <1>1, <1>2 DEF LateIn, EntersIn, LateItems, NoCfg
  <2>2. Last(v) = Goto => ~ EntersIn(cd[sc[b][1]], x)
    BY <1>1, <1>2 DEF EntersIn, NoEntries
  <2> QED BY <1>2, <2>1, <2>2 DEF IsLate
<1>5. NothingEarly(m, N, v, 1)
  BY <1>3, EarlyAt
<1>6. ASSUME NEW x PROVE Owed(m, N, cd, sc, b, 1, x) = Is(x, BlockKey(b)) + FirstOf(m, b, x)
  <2>1. EntersIn(v, x) <=> x = BlockKey(b) \/ (IsEntryBlock(m, b) /\ x = FunctionKey(m.function_of[b]))
    BY <1>1, <1>2, BlockEnters
  <2>2. BlockKey(b) # FunctionKey(m.function_of[b])
    <3>1. BlockKey(b)[1] = "basic_block" /\ FunctionKey(m.function_of[b])[1] = "function"
      BY DEF BlockKey, FunctionKey
    <3> QED BY <3>1
  <2>3. ~ IsEarly(m, N, cd[b], 1, x)
    BY <1>2, <1>5 DEF NothingEarly
  <2>4. IsLate(cd, sc, b, 1, x) <=> EntersIn(v, x)
    BY <1>2, <1>4
  <2>5. CASE x = BlockKey(b)
    <3>1. Is(x, BlockKey(b)) = 1 /\ FirstOf(m, b, x) = 0
      BY <2>2, <2>5 DEF Is, FirstOf, Sign
    <3>2. Owed(m, N, cd, sc, b, 1, x) = 1
      BY <2>1, <2>3, <2>4, <2>5, OwedIs
    <3> QED BY <3>1, <3>2
  <2>6. CASE x # BlockKey(b) /\ IsEntryBlock(m, b) /\ x = FunctionKey(m.function_of[b])
    <3>1. Is(x, BlockKey(b)) = 0 /\ FirstOf(m, b, x) = 1
      BY <2>6 DEF Is, FirstOf, Sign
    <3>2. Owed(m, N, cd, sc, b, 1, x) = 1
      BY <2>1, <2>3, <2>4, <2>6, OwedIs
    <3> QED BY <3>1, <3>2
  <2>7. CASE x # BlockKey(b) /\ ~ (IsEntryBlock(m, b) /\ x = FunctionKey(m.function_of[b]))
    <3>1. Is(x, BlockKey(b)) = 0 /\ FirstOf(m, b, x) = 0
      BY <2>7 DEF Is, FirstOf, Sign
    <3>2. Owed(m, N, cd, sc, b, 1, x) = 0
      BY <2>1, <2>3, <2>4, <2>7, OwedIs
    <3> QED BY <3>1, <3>2
  <2> QED BY <2>5, <2>6, <2>7
<1> QED BY <1>4, <1>6

\* A goto passes on what is owed.
LEMMA OwedGoto ==
  ASSUME NEW m, NEW N, NEW cd, NEW sc, NEW c, NEW k, NEW v, IsAt(m, N, cd, sc, c, k, v),
         v[k] = Goto
  PROVE  /\ sc[c][1] \in DOMAIN cd
         /\ \A x : Owed(m, N, cd, sc, c, k, x) = Owed(m, N, cd, sc, sc[c][1], 1, x)
<1>1. PICK d, u : d = sc[c][1] /\ u = cd[d]
  OBVIOUS
<1>2. v = cd[c] /\ k = Len(v) /\ Last(v) = Goto /\ GotoShaped(m, cd, sc, c) /\ WellFormed(m)
  <2>1. (v[k] = Goto => k = Len(v) /\ Last(v) = Goto) /\ GotoShaped(m, cd, sc, c)
    BY AtFacts
  <2>2. v = cd[c] /\ WellFormed(m)
    BY DEF IsAt
  <2> QED BY <2>1, <2>2
<1>3. d \in DOMAIN cd
  BY <1>1, <1>2 DEF GotoShaped
<1>4. IsAt(m, N, cd, sc, d, 1, u)
  <2>1. Shaped(m, N, u)
    BY <1>1, <1>3 DEF IsAt, CodeShaped
  <2>2. 1 \in 1..Len(u)
    BY <2>1 DEF Shaped
  <2> QED BY <1>1, <1>3, <2>2 DEF IsAt
<1>5. NothingEarly(m, N, v, k) /\ NothingEarly(m, N, u, 1)
  BY <1>4, EarlyAt
<1>6. ASSUME NEW x PROVE IsLate(cd, sc, c, k, x) <=> IsLate(cd, sc, d, 1, x)
  <2>1. IsLate(cd, sc, c, k, x) <=> EntersIn(u, x)
    BY <1>1, <1>2, LateLast
  <2>2. CASE NoEntries(u) /\ Last(u) # Goto
    <3>1. ~ EntersIn(u, x) /\ ~ IsLate(cd, sc, d, 1, x)
      BY <1>1, <2>2 DEF EntersIn, NoEntries, IsLate, LateIn, LateItems
    <3> QED BY <2>1, <3>1
  <2>3. CASE d \in Blocks(m)
    <3>1. CodeShaped(m, N, cd, sc)
      BY DEF IsAt
    <3>2. IsLate(cd, sc, d, 1, x) <=> EntersIn(cd[d], x)
      BY <1>2, <2>3, <3>1, OwedFirst
    <3> QED BY <1>1, <2>1, <3>2
  <2> QED BY <1>1, <1>2, <2>2, <2>3 DEF GotoShaped
<1>7. ASSUME NEW x PROVE Owed(m, N, cd, sc, c, k, x) = Owed(m, N, cd, sc, d, 1, x)
  <2>1. ~ IsEarly(m, N, cd[c], k, x) /\ ~ IsEarly(m, N, cd[d], 1, x)
    BY <1>1, <1>2, <1>5 DEF NothingEarly
  <2> QED BY <1>6, <2>1, OwedIs
<1> QED BY <1>1, <1>3, <1>7

\* An item that is no log, call or terminator leaves everything as it is.
LEMMA OwedStraight ==
  ASSUME NEW m, NEW N, NEW cd, NEW sc, NEW c, NEW k, NEW v, IsAt(m, N, cd, sc, c, k, v),
         OpIn(m, v[k]) \in {"phi", "landingpad", "other"}
  PROVE  /\ k < Len(v)
         /\ \A x : Owed(m, N, cd, sc, c, k, x) = Owed(m, N, cd, sc, c, k + 1, x)
<1>1. /\ WellFormed(m) /\ Len(v) \in Nat /\ k \in 1..Len(v) /\ v[k] \in Items(m)
      /\ EndsIn(m, v[k]) <=> k = Len(v)
  BY AtFacts
<1>2. v = cd[c]
  BY DEF IsAt
<1>3. v[k] \notin LogItems /\ ~ EndsIn(m, v[k])
  BY LogTypes DEF OpIn, EndsIn, Terminators
<1>4. k < Len(v)
  BY <1>1, <1>3
<1>5. NothingEarly(m, N, v, k)
  BY EarlyAt
<1>6. NothingEarly(m, N, v, k + 1)
  <2>1. v[k] \notin CallItems \cup CfgItems => NothingEarly(m, N, v, k + 1)
    BY <1>4, EarlyNext
  <2> QED BY <1>3, <2>1, LogTypes
<1>7. \A x : IsLate(cd, sc, c, k, x) <=>
        IsLate(cd, sc, c, k + 1, x) \/ (v[k] \in LateItems(v) /\ x = LogKey(v[k]))
  BY <1>4, LateNext
<1>8. v[k] \notin LateItems(v)
  BY <1>3, LogTypes DEF LateItems
<1> QED BY <1>2, <1>4, <1>5, <1>6, <1>7, <1>8, OwedIs DEF NothingEarly

\* Where there is a call, all entries have been logged.
LEMMA OwedCall ==
  ASSUME NEW m, NEW N, NEW cd, NEW sc, NEW c, NEW k, NEW v, IsAt(m, N, cd, sc, c, k, v),
         OpIn(m, v[k]) \in {"call", "invoke"}
  PROVE  /\ \A x : ~ IsLate(cd, sc, c, k, x)
         /\ OpIn(m, v[k]) = "call" =>
              /\ k < Len(v) /\ NothingEarly(m, N, v, k + 1)
              /\ \A x : ~ IsLate(cd, sc, c, k + 1, x)
<1>1. /\ WellFormed(m) /\ Len(v) \in Nat /\ k \in 1..Len(v) /\ v[k] \in Items(m)
      /\ EndsIn(m, v[k]) <=> k = Len(v)
      /\ EntryKinds(m, v) /\ GotoShaped(m, cd, sc, c) /\ Shaped(m, N, v)
  BY AtFacts
<1>2. v = cd[c]
  BY DEF IsAt
<1>3. v[k] \notin LogItems
  BY LogTypes DEF OpIn
<1>4. Last(v) = Goto => NoCfg(v) /\ NoEntries(cd[sc[c][1]])
  BY <1>1, <1>2 DEF GotoShaped
<1>5. ASSUME NEW x, IsLate(cd, sc, c, k, x) PROVE FALSE
  <2>1. LateIn(v, k, x) \/ (Last(v) = Goto /\ EntersIn(cd[sc[c][1]], x))
    BY <1>2, <1>5 DEF IsLate
  <2>2. ASSUME Last(v) = Goto, EntersIn(cd[sc[c][1]], x) PROVE FALSE
    BY <1>4, <2>2 DEF EntersIn, NoEntries
  <2>3. ASSUME LateIn(v, k, x) PROVE FALSE
    <3>1. PICK j \in 1..Len(v) : k <= j /\ v[j] \in LateItems(v)
      BY <2>3 DEF LateIn
    <3>2. v[j] \notin EntryItems
      BY <1>1, <3>1 DEF EntryKinds
    <3>3. v[j] \in CfgItems /\ Last(v) = Goto
      BY <3>1, <3>2 DEF LateItems
    <3> QED BY <1>4, <3>3 DEF NoCfg
  <2> QED BY <2>1, <2>2, <2>3
<1>6. ASSUME OpIn(m, v[k]) = "call"
      PROVE  /\ k < Len(v) /\ NothingEarly(m, N, v, k + 1)
             /\ \A x : ~ IsLate(cd, sc, c, k + 1, x)
  <2>1. OpIn(m, Goto) = "none"
    BY LogTypes DEF OpIn
  <2>2. ~ EndsIn(m, v[k])
    BY <1>6, <2>1 DEF EndsIn, Terminators
  <2>3. k < Len(v)
    BY <1>1, <2>2
  <2>4. v[k] \notin CallItems \cup CfgItems => NothingEarly(m, N, v, k + 1)
    BY <2>3, EarlyNext
  <2>5. NothingEarly(m, N, v, k + 1)
    BY <1>3, <2>4, LogTypes
  <2>6. \A x : IsLate(cd, sc, c, k, x) <=>
          IsLate(cd, sc, c, k + 1, x) \/ (v[k] \in LateItems(v) /\ x = LogKey(v[k]))
    BY <2>3, LateNext
  <2> QED BY <1>5, <2>3, <2>5, <2>6
<1> QED BY <1>5, <1>6

\* When a function returns nothing is owed.
LEMMA OwedEnd ==
  ASSUME NEW m, NEW N, NEW cd, NEW sc, NEW c, NEW k, NEW v, IsAt(m, N, cd, sc, c, k, v),
         OpIn(m, v[k]) = "ret"
  PROVE  NothingEarly(m, N, v, k) /\ \A x : ~ IsLate(cd, sc, c, k, x)
<1>1. /\ Len(v) \in Nat /\ k \in 1..Len(v) /\ Last(v) = v[Len(v)]
      /\ EndsIn(m, v[k]) <=> k = Len(v)
  BY AtFacts
<1>2. NothingEarly(m, N, v, k)
  BY EarlyAt
<1>3. k = Len(v)
  BY <1>1 DEF EndsIn, Terminators
<1>4. Last(v) # Goto
  <2>1. OpIn(m, Goto) = "none"
    BY LogTypes DEF OpIn
  <2> QED BY <1>1, <1>3, <2>1
<1>5. \A x : IsLate(cd, sc, c, k, x) <=> Last(v) = Goto /\ EntersIn(cd[sc[c][1]], x)
  BY <1>3, LateLast
<1> QED BY <1>2, <1>4, <1>5


\* Of one kind one key is owed at a time, and what is early is alone.
LEMMA OwedKinds ==
  ASSUME NEW m, NEW N, NEW cd, NEW sc, NEW c, NEW k, NEW v, IsAt(m, N, cd, sc, c, k, v)
  PROVE  /\ \A x, y : IsEarly(m, N, v, k, x) => ~ IsLate(cd, sc, c, k, y)
         /\ \A x, y : IsEarly(m, N, v, k, x) /\ IsEarly(m, N, v, k, y) => x = y
         /\ \A x, y : IsLate(cd, sc, c, k, x) /\ IsLate(cd, sc, c, k, y) /\ x[1] = y[1] => x = y
         /\ \A x : IsLate(cd, sc, c, k, x) /\ x[1] = "edge" => \E e \in DOMAIN N.edges : x = N.edges[e]
<1>1. /\ WellFormed(m) /\ Shaped(m, N, v) /\ GotoShaped(m, cd, sc, c) /\ EntryKinds(m, v)
      /\ Len(v) \in Nat /\ k \in 1..Len(v) /\ Last(v) = v[Len(v)]
  BY AtFacts
<1>2. v = cd[c] /\ CodeShaped(m, N, cd, sc)
  BY DEF IsAt
<1>3. PICK u : u = cd[sc[c][1]]
  OBVIOUS
<1>4. Last(v) = Goto =>
        \/ NoEntries(u) /\ NoCfg(v)
        \/ NoEntries(v) /\ EntryKinds(m, u)
  <2>1. \A d \in DOMAIN cd : EntryKinds(m, cd[d])
    BY <1>2 DEF CodeShaped, Shaped
  <2> QED BY <1>1, <1>2, <1>3, <2>1 DEF GotoShaped
<1>5. ASSUME NEW x, NEW y, IsEarly(m, N, v, k, x), IsLate(cd, sc, c, k, y) PROVE FALSE
  <2>1. Calls(m, v[k]) \/ k = Len(v)
    BY <1>5, EarlyAt
  <2>2. CASE Calls(m, v[k])
    <3>1. OpIn(m, v[k]) \in {"call", "invoke"}
      BY <2>2 DEF Calls, OpIn, IsDirectCall, IsCall
    <3> QED BY <1>5, <3>1, OwedCall
  <2>3. CASE ~ Calls(m, v[k]) /\ k = Len(v)
    <3>1. v[k] # Goto
      BY <1>5, <2>3 DEF IsEarly
    <3>2. IsLate(cd, sc, c, k, y) <=> Last(v) = Goto /\ EntersIn(cd[sc[c][1]], y)
      BY <2>3, LateLast
    <3> QED BY <1>1, <1>5, <2>3, <3>1, <3>2
  <2> QED BY <2>1, <2>2, <2>3
<1>6. \A y \in EntryItems : \A z \in CfgItems : LogKey(y)[1] # "edge" /\ LogKey(z)[1] = "edge"
  BY KeysOfLogs
<1>7. \A y, z \in EntryItems : LogKey(y)[1] = LogKey(z)[1] => y.event = z.event
  BY KeysOfLogs
<1>8. ASSUME NEW x, IsLate(cd, sc, c, k, x)
      PROVE  \/ \E j \in 1..Len(v) : v[j] \in EntryItems /\ x = LogKey(v[j])
             \/ \E j \in 1..Len(v) : v[j] \in CfgItems /\ x = LogKey(v[j]) /\ Last(v) = Goto
             \/ Last(v) = Goto /\ EntersIn(u, x)
  <2>1. CASE LateIn(v, k, x)
    <3>1. PICK j \in 1..Len(v) : v[j] \in LateItems(v) /\ x = LogKey(v[j])
      BY <2>1 DEF LateIn
    <3>2. v[j] \in EntryItems \/ (v[j] \in CfgItems /\ Last(v) = Goto)
      BY <3>1 DEF LateItems
    <3> QED BY <3>1, <3>2
  <2> QED BY <1>2, <1>3, <1>8, <2>1 DEF IsLate
<1>9. ASSUME NEW w, EntryKinds(m, w), NEW i \in 1..Len(w), NEW j \in 1..Len(w),
             w[i] \in EntryItems, w[j] \in EntryItems, LogKey(w[i])[1] = LogKey(w[j])[1]
      PROVE  LogKey(w[i]) = LogKey(w[j])
  <2>1. w[i].event = w[j].event
    BY <1>7, <1>9
  <2>2. i = j
    BY <1>9, <2>1 DEF EntryKinds
  <2> QED BY <2>2
<1>10. ASSUME NEW x, NEW y, IsLate(cd, sc, c, k, x), IsLate(cd, sc, c, k, y), x[1] = y[1]
       PROVE  x = y
  <2>1. CASE \E i \in 1..Len(v) : v[i] \in EntryItems /\ x = LogKey(v[i])
    <3>1. PICK i \in 1..Len(v) : v[i] \in EntryItems /\ x = LogKey(v[i])
      BY <2>1
    <3>2. CASE \E j \in 1..Len(v) : v[j] \in EntryItems /\ y = LogKey(v[j])
      <4>1. PICK j \in 1..Len(v) : v[j] \in EntryItems /\ y = LogKey(v[j])
        BY <3>2
      <4> QED BY <1>1, <1>9, <1>10, <3>1, <4>1
    <3>3. CASE \E j \in 1..Len(v) : v[j] \in CfgItems /\ y = LogKey(v[j]) /\ Last(v) = Goto
      BY <1>6, <1>10, <3>1, <3>3
    <3>4. CASE Last(v) = Goto /\ EntersIn(u, y)
      BY <1>4, <3>1, <3>4 DEF EntersIn, NoEntries
    <3> QED BY <1>8, <1>10, <3>2, <3>3, <3>4
  <2>2. CASE \E i \in 1..Len(v) : v[i] \in CfgItems /\ x = LogKey(v[i]) /\ Last(v) = Goto
    <3>1. PICK i \in 1..Len(v) : v[i] \in CfgItems /\ x = LogKey(v[i]) /\ Last(v) = Goto
      BY <2>2
    <3>2. CASE \E j \in 1..Len(v) : v[j] \in EntryItems /\ y = LogKey(v[j])
      BY <1>6, <1>10, <3>1, <3>2
    <3>3. CASE \E j \in 1..Len(v) : v[j] \in CfgItems /\ y = LogKey(v[j]) /\ Last(v) = Goto
      <4>1. PICK j \in 1..Len(v) : v[j] \in CfgItems /\ y = LogKey(v[j])
        BY <3>3
      <4>2. i + 1 = Len(v) /\ j + 1 = Len(v)
        BY <1>1, <3>1, <4>1 DEF Shaped
      <4>3. i = j
        BY <4>2
      <4> QED BY <3>1, <4>1, <4>3
    <3>4. CASE Last(v) = Goto /\ EntersIn(u, y)
      BY <1>6, <1>10, <3>1, <3>4 DEF EntersIn
    <3> QED BY <1>8, <1>10, <3>2, <3>3, <3>4
  <2>3. CASE Last(v) = Goto /\ EntersIn(u, x)
    <3>1. PICK i \in 1..Len(u) : u[i] \in EntryItems /\ x = LogKey(u[i])
      BY <2>3 DEF EntersIn
    <3>2. CASE \E j \in 1..Len(v) : v[j] \in EntryItems /\ y = LogKey(v[j])
      BY <1>4, <2>3, <3>1, <3>2 DEF NoEntries
    <3>3. CASE \E j \in 1..Len(v) : v[j] \in CfgItems /\ y = LogKey(v[j]) /\ Last(v) = Goto
      BY <1>6, <1>10, <3>1, <3>3
    <3>4. CASE Last(v) = Goto /\ EntersIn(u, y)
      <4>1. PICK j \in 1..Len(u) : u[j] \in EntryItems /\ y = LogKey(u[j])
        BY <3>4 DEF EntersIn
      <4>2. EntryKinds(m, u)
        BY <1>4, <2>3, <3>1 DEF NoEntries
      <4> QED BY <1>9, <1>10, <3>1, <4>1, <4>2
    <3> QED BY <1>8, <1>10, <3>2, <3>3, <3>4
  <2> QED BY <1>8, <1>10, <2>1, <2>2, <2>3
<1>11. ASSUME NEW x, IsLate(cd, sc, c, k, x), x[1] = "edge"
       PROVE  \E e \in DOMAIN N.edges : x = N.edges[e]
  <2>1. PICK j \in 1..Len(v) : v[j] \in CfgItems /\ x = LogKey(v[j])
    <3>1. \A y \in EntryItems : LogKey(y)[1] # "edge"
      BY KeysOfLogs
    <3>2. ~ EntersIn(u, x)
      BY <1>11, <3>1 DEF EntersIn
    <3> QED BY <1>8, <1>11, <3>1, <3>2
  <2> QED BY <1>1, <2>1 DEF Shaped
<1>12. ASSUME NEW x, NEW y, IsEarly(m, N, v, k, x), IsEarly(m, N, v, k, y) PROVE x = y
  BY <1>12 DEF IsEarly
<1> QED BY <1>5, <1>10, <1>11, <1>12

LeftAt(m, N, cd, sc, c, k, v, x) ==
  IF OpIn(m, v[k]) = "invoke" THEN 0 ELSE Owed(m, N, cd, sc, c, k, x)

\* A terminator is left with what was owed at it, the edge it takes, unless that
\* has been logged, and the entry of its target.
LEMMA OwedBranch ==
  ASSUME NEW m, NEW N, NEW cd, NEW sc, NEW c, NEW k, NEW v, IsAt(m, N, cd, sc, c, k, v),
         NEW b \in Blocks(m), k = Len(v), Last(v) = LastOf(m, b),
         OpIn(m, v[k]) \in {"br", "switch", "invoke"},
         NEW j \in 1..Len(Successors(m, b)), NEW e, e = <<b, j>>, NEW t, t = Successors(m, b)[j],
         NEW d, d = sc[c][j]
  PROVE  /\ d \in DOMAIN cd
         /\ \A x : Owed(m, N, cd, sc, d, 1, x) = LeftAt(m, N, cd, sc, c, k, v, x) + Taking(N, e, t, x)
<1> SUFFICES /\ d \in DOMAIN cd
             /\ \A x : Owed(m, N, cd, sc, d, 1, x)
                  = (IF OpIn(m, v[k]) = "invoke" THEN 0 ELSE Owed(m, N, cd, sc, c, k, x))
                    + (Is(x, BlockKey(t)) + Sign(e \in DOMAIN N.edges /\ x = N.edges[e]))
  BY DEF LeftAt, Taking
<1>1. /\ WellFormed(m) /\ Shaped(m, N, v) /\ Len(v) \in Nat /\ k \in 1..Len(v)
      /\ Last(v) = v[Len(v)] /\ v[k] \in Items(m)
  BY AtFacts
<1>2. v = cd[c] /\ CodeShaped(m, N, cd, sc) /\ c \in DOMAIN cd
  BY DEF IsAt
<1>3. Branches(m, N, cd, sc, c, b, j)
  BY <1>2 DEF CodeShaped
<1>4. t \in Blocks(m) /\ ~ IsEntryBlock(m, t)
  BY <1>3 DEF Branches
<1>5. /\ \A x : IsLate(cd, sc, t, 1, x) <=> EntersIn(cd[t], x)
      /\ \A x : Owed(m, N, cd, sc, t, 1, x) = Is(x, BlockKey(t)) + FirstOf(m, t, x)
  BY <1>1, <1>2, <1>4, OwedFirst
<1>6. \A x : FirstOf(m, t, x) = 0
  BY <1>4 DEF FirstOf, Sign
<1>7. \A x : Owed(m, N, cd, sc, t, 1, x) = Is(x, BlockKey(t)) /\ Is(x, BlockKey(t)) \in Int
  <2>1. \A x : Is(x, BlockKey(t)) \in Int
    BY DEF Is, Sign
  <2> QED BY <1>5, <1>6, <2>1
<1>8. \A x : ~ IsLate(cd, sc, c, k, x)
  <2>1. \A x : IsLate(cd, sc, c, k, x) <=> Last(v) = Goto /\ EntersIn(cd[sc[c][1]], x)
    BY LateLast
  <2>2. Last(v) # Goto
    <3>1. OpIn(m, Goto) = "none"
      BY LogTypes DEF OpIn
    <3> QED BY <1>1, <3>1
  <2> QED BY <2>1, <2>2
<1>9. v[k] # Goto /\ k = Len(v) /\ k - 1 + 1 = k
  <2>1. OpIn(m, Goto) = "none"
    BY LogTypes DEF OpIn
  <2> QED BY <1>1, <2>1
<1>10. ASSUME NoCfg(v), NEW x
       PROVE  (IF OpIn(m, v[k]) = "invoke" THEN 0 ELSE Owed(m, N, cd, sc, c, k, x)) = 0
  <2>1. CASE OpIn(m, v[k]) = "invoke"
    BY <2>1
  <2>2. CASE OpIn(m, v[k]) # "invoke"
    <3>1. ~ Calls(m, v[k])
      BY <2>2 DEF Calls, OpIn, IsDirectCall, IsCall
    <3>2. k > 1 => k - 1 \in 1..Len(v)
      BY <1>1
    <3>3. ~ IsEarly(m, N, cd[c], k, x)
      BY <1>2, <1>10, <3>1, <3>2 DEF IsEarly, NoCfg
    <3> QED BY <1>8, <2>2, <3>3, OwedIs
  <2> QED BY <2>1, <2>2
<1>11. CASE d = t /\ e \notin DOMAIN N.edges
  <2>1. NoCfg(v)
    BY <1>2, <1>3, <1>11 DEF Branches
  <2>2. \A x : Sign(e \in DOMAIN N.edges /\ x = N.edges[e]) = 0
    BY <1>11 DEF Sign
  <2>3. d \in DOMAIN cd
    BY <1>2, <1>4, <1>11 DEF CodeShaped
  <2> QED BY <1>7, <1>10, <1>11, <2>1, <2>2, <2>3
<1>12. CASE d = t /\ e \in DOMAIN N.edges /\ \E y : OnEdge(m, y, v) /\ LogKey(y) = N.edges[e]
  <2>1. PICK y : OnEdge(m, y, v) /\ LogKey(y) = N.edges[e]
    BY <1>12
  <2>2. PICK z : z = N.edges[e]
    OBVIOUS
  <2>3. k - 1 \in 1..Len(v) /\ v[k - 1] = y /\ y \in CfgItems /\ OpIn(m, v[k]) \notin {"call", "invoke"}
    BY <1>1, <2>1 DEF OnEdge
  <2>4. ~ Calls(m, v[k])
    BY <2>3 DEF Calls, OpIn, IsDirectCall, IsCall
  <2>5. \A x : IsEarly(m, N, cd[c], k, x) <=> x = z
    BY <1>1, <1>2, <1>9, <2>1, <2>2, <2>3, <2>4 DEF IsEarly
  <2>6. \A x : Owed(m, N, cd, sc, c, k, x) = 0 - Sign(x = z)
    <3> SUFFICES ASSUME NEW x PROVE Owed(m, N, cd, sc, c, k, x) = 0 - Sign(x = z)
      OBVIOUS
    <3>1. CASE x = z
      <4>1. Sign(x = z) = 1
        BY <3>1 DEF Sign
      <4>2. Owed(m, N, cd, sc, c, k, x) = -1
        BY <1>8, <2>5, <3>1, OwedIs
      <4> QED BY <4>1, <4>2
    <3>2. CASE x # z
      <4>1. Sign(x = z) = 0
        BY <3>2 DEF Sign
      <4>2. Owed(m, N, cd, sc, c, k, x) = 0
        BY <1>8, <2>5, <3>2, OwedIs
      <4> QED BY <4>1, <4>2
    <3> QED BY <3>1, <3>2
  <2>7. \A x : Sign(e \in DOMAIN N.edges /\ x = N.edges[e]) = Sign(x = z) /\ Sign(x = z) \in Int
    BY <1>12, <2>2 DEF Sign
  <2>8. d \in DOMAIN cd
    BY <1>2, <1>4, <1>12 DEF CodeShaped
  <2>9. OpIn(m, v[k]) # "invoke"
    BY <2>3
  <2>10. ASSUME NEW x
         PROVE  Owed(m, N, cd, sc, d, 1, x)
                  = (IF OpIn(m, v[k]) = "invoke" THEN 0 ELSE Owed(m, N, cd, sc, c, k, x))
                    + (Is(x, BlockKey(t)) + Sign(e \in DOMAIN N.edges /\ x = N.edges[e]))
    <3>1. PICK n, i, o : /\ n = (IF OpIn(m, v[k]) = "invoke" THEN 0 ELSE Owed(m, N, cd, sc, c, k, x))
                         /\ i = Is(x, BlockKey(t)) /\ o = Sign(x = z)
      OBVIOUS
    <3>2. n = 0 - o /\ i \in Int /\ o \in Int
      BY <1>7, <2>6, <2>7, <2>9, <3>1
    <3>3. Owed(m, N, cd, sc, d, 1, x) = i
      BY <1>7, <1>12, <3>1
    <3>4. Sign(e \in DOMAIN N.edges /\ x = N.edges[e]) = o
      BY <2>7, <3>1
    <3>5. Owed(m, N, cd, sc, d, 1, x) = n + (i + o)
      BY <3>2, <3>3
    <3> QED BY <3>1, <3>4, <3>5
  <2> QED BY <2>8, <2>10
<1>13. CASE /\ e \in DOMAIN N.edges /\ NoCfg(v) /\ Last(cd[d]) = Goto /\ sc[d][1] = t
            /\ d \in DOMAIN cd /\ \E y : OnEdge(m, y, cd[d]) /\ LogKey(y) = N.edges[e]
  <2>1. /\ e \in DOMAIN N.edges /\ NoCfg(v) /\ Last(cd[d]) = Goto /\ sc[d][1] = t
        /\ d \in DOMAIN cd /\ \E y : OnEdge(m, y, cd[d]) /\ LogKey(y) = N.edges[e]
    BY <1>13
  <2>2. PICK y, z, u : OnEdge(m, y, u) /\ LogKey(y) = z /\ z = N.edges[e] /\ u = cd[d]
    BY <2>1
  <2>3. IsAt(m, N, cd, sc, d, 1, u)
    <3>1. Shaped(m, N, u)
      BY <1>2, <2>1, <2>2 DEF CodeShaped
    <3>2. 1 \in 1..Len(u)
      BY <3>1 DEF Shaped
    <3> QED BY <1>1, <1>2, <2>1, <2>2, <3>2 DEF IsAt
  <2>4. NothingEarly(m, N, u, 1)
    BY <2>3, EarlyAt
  <2>5. \A x : LateIn(u, 1, x) <=> x = z
    <3>1. LateItems(u) = EntryItems \cup CfgItems
      BY <2>1, <2>2 DEF LateItems
    <3>2. \A i \in 1..Len(u) : u[i] \in LateItems(u) => u[i] = y
      <4> SUFFICES ASSUME NEW i \in 1..Len(u), u[i] \in LateItems(u) PROVE u[i] = y
        OBVIOUS
      <4>1. u[i] \in CfgItems
        BY <2>2, <3>1 DEF OnEdge, NoEntries
      <4>2. i + 1 = Len(u)
        BY <1>2, <2>1, <2>2, <4>1 DEF CodeShaped, Shaped
      <4>3. i = Len(u) - 1
        BY <4>2
      <4> QED BY <2>2, <4>3 DEF OnEdge
    <3>3. PICK l : l = Len(u) - 1
      OBVIOUS
    <3>4. l \in 1..Len(u) /\ u[l] = y /\ y \in LateItems(u) /\ 1 <= l
      BY <2>2, <3>1, <3>3 DEF OnEdge
    <3>5. \A i \in 1..Len(u) : 1 <= i
      OBVIOUS
    <3>6. LogKey(y) = z
      BY <2>2
    <3> QED BY <3>2, <3>4, <3>5, <3>6 DEF LateIn
  <2>6. \A x : EntersIn(cd[t], x) <=> x = BlockKey(t)
    <3>1. EntriesAre(m, t, cd[t])
      BY <1>2, <1>4 DEF CodeShaped
    <3> QED BY <1>1, <1>4, <3>1, BlockEnters
  <2>7. \A x : IsLate(cd, sc, d, 1, x) <=> x = z \/ x = BlockKey(t)
    BY <2>1, <2>2, <2>5, <2>6 DEF IsLate
  <2>8. z # BlockKey(t)
    <3>1. y \in CfgItems
      BY <2>2 DEF OnEdge
    <3>2. z[1] = "edge"
      <4>1. LogKey(y) = <<"edge", y.id>>
        BY <3>1, KeysOfLogs
      <4> QED BY <2>2, <4>1
    <3>3. BlockKey(t)[1] = "basic_block"
      BY DEF BlockKey
    <3> QED BY <3>2, <3>3
  <2>9. \A x : Owed(m, N, cd, sc, d, 1, x) = Is(x, BlockKey(t)) + Sign(x = z)
    <3> SUFFICES ASSUME NEW x PROVE Owed(m, N, cd, sc, d, 1, x) = Is(x, BlockKey(t)) + Sign(x = z)
      OBVIOUS
    <3>1. ~ IsEarly(m, N, cd[d], 1, x)
      BY <2>2, <2>4 DEF NothingEarly
    <3>2. CASE x = z
      <4>1. Is(x, BlockKey(t)) = 0 /\ Sign(x = z) = 1
        BY <2>8, <3>2 DEF Is, Sign
      <4>2. Owed(m, N, cd, sc, d, 1, x) = 1
        BY <2>7, <3>1, <3>2, OwedIs
      <4> QED BY <4>1, <4>2
    <3>3. CASE x = BlockKey(t)
      <4>1. Is(x, BlockKey(t)) = 1 /\ Sign(x = z) = 0
        BY <2>8, <3>3 DEF Is, Sign
      <4>2. Owed(m, N, cd, sc, d, 1, x) = 1
        BY <2>7, <3>1, <3>3, OwedIs
      <4> QED BY <4>1, <4>2
    <3>4. CASE x # z /\ x # BlockKey(t)
      <4>1. Is(x, BlockKey(t)) = 0 /\ Sign(x = z) = 0
        BY <3>4 DEF Is, Sign
      <4>2. Owed(m, N, cd, sc, d, 1, x) = 0
        BY <2>7, <3>1, <3>4, OwedIs
      <4> QED BY <4>1, <4>2
    <3> QED BY <3>2, <3>3, <3>4
  <2>10. \A x : Sign(e \in DOMAIN N.edges /\ x = N.edges[e]) = Sign(x = z) /\ Sign(x = z) \in Int
    BY <2>1, <2>2 DEF Sign
  <2>11. ASSUME NEW x
         PROVE  Owed(m, N, cd, sc, d, 1, x)
                  = (IF OpIn(m, v[k]) = "invoke" THEN 0 ELSE Owed(m, N, cd, sc, c, k, x))
                    + (Is(x, BlockKey(t)) + Sign(e \in DOMAIN N.edges /\ x = N.edges[e]))
    <3>1. PICK n, i, o : /\ n = (IF OpIn(m, v[k]) = "invoke" THEN 0 ELSE Owed(m, N, cd, sc, c, k, x))
                         /\ i = Is(x, BlockKey(t)) /\ o = Sign(x = z)
      OBVIOUS
    <3>2. n = 0 /\ i \in Int /\ o \in Int
      BY <1>7, <1>10, <2>1, <2>10, <3>1
    <3>3. Owed(m, N, cd, sc, d, 1, x) = i + o
      BY <2>9, <3>1
    <3>4. Sign(e \in DOMAIN N.edges /\ x = N.edges[e]) = o
      BY <2>10, <3>1
    <3>5. Owed(m, N, cd, sc, d, 1, x) = n + (i + o)
      BY <3>2, <3>3
    <3> QED BY <3>1, <3>4, <3>5
  <2> QED BY <2>1, <2>11
<1>14. /\ d = sc[c][j] /\ t = Successors(m, b)[j] /\ e = <<b, j>> /\ v = cd[c]
  BY <1>2
<1>15. \/ d = t /\ e \notin DOMAIN N.edges
       \/ d = t /\ e \in DOMAIN N.edges /\ \E y : OnEdge(m, y, v) /\ LogKey(y) = N.edges[e]
       \/ /\ e \in DOMAIN N.edges /\ NoCfg(v) /\ Last(cd[d]) = Goto /\ sc[d][1] = t
          /\ d \in DOMAIN cd /\ \E y : OnEdge(m, y, cd[d]) /\ LogKey(y) = N.edges[e]
  BY <1>3, <1>14 DEF Branches
<1> QED BY <1>11, <1>12, <1>13, <1>15


(***************************************************************************)
(* The debts of the program that has been made.                            *)
(***************************************************************************)
LEMMA ShapedNow ==
  ASSUME IsInjected
  PROVE  CodeShaped(module, Keys, code, succs) /\ WellFormed(module)
<1>1. PICK heads, mids, done, new :
        /\ IsSplit(module, CfgLogOf, heads, mids, done, new, code, succs)
        /\ Described(heads, mids, done, new)
  BY NowSplit DEF IsInjected
<1>2. phase = "injected" /\ phase \notin Early /\ phase \in CallsLogged /\ phase \in Splitting
  BY PhaseSets DEF IsInjected, Splitting, CallsLogged
<1>3. WellFormed(module)
  BY NowSplit DEF IsInjected
<1>4. PICK m, L, K, N, cd, sc : /\ m = module /\ L = CfgLogOf /\ K = CallIds /\ N = Keys
                                /\ cd = code /\ sc = succs
  OBVIOUS
<1>5. IsSplit(m, L, heads, mids, done, new, cd, sc)
  BY <1>1, <1>4
<1>6. \A b \in Blocks(m) : EntriesIn(m, b, mids[b]) /\ Paired(m, K, Join(mids[b], <<LastOf(m, b)>>))
  BY <1>1, <1>2, <1>4 DEF Described, MidsIn
<1>7. done = LoggedEdges
  <2>1. /\ splits = <<>> /\ done \subseteq LoggedEdges
        /\ \A e \in LoggedEdges : e \in done <=> ~ Holds(splits, e)
    BY <1>1, <1>2 DEF Described, SplitsIn
  <2>2. \A e : ~ Holds(splits, e)
    BY <2>1 DEF Holds
  <2> QED BY <2>1, <2>2
<1>8. NamedBy(m, N, K, L, done)
  <2>1. /\ DOMAIN N.edges = LoggedEdges /\ DirectCalls \subseteq Pointers(module)
        /\ LoggedEdges \subseteq CfgEdges(module)
        /\ \A p \in DirectCalls : N.calls[p] = <<"edge", callEdgeIds[CallKey(p)]>>
        /\ \A e \in LoggedEdges : N.edges[e] = <<"edge", cfgEdgeIds[CfgKey(e[1], e[2])]>>
    BY <1>3, <1>4, KeyFields
  <2>2. \A p \in DirectCalls : K[p] = callEdgeIds[CallKey(p)]
    BY <1>4, <2>1 DEF CallIds
  <2>3. \A e \in LoggedEdges : L[e] = Log("cfg_edge", cfgEdgeIds[CfgKey(e[1], e[2])])
    BY <1>4, <2>1 DEF CfgLogOf
  <2>4. \A e \in LoggedEdges : LogKey(L[e]) = <<"edge", cfgEdgeIds[CfgKey(e[1], e[2])]>>
    BY <2>3, EventMaps, LogFields DEF LogKey
  <2>5. \A p \in Pointers(m) : IsDirectCall(m, Instr(m, p)) => p \in DirectCalls
    BY <1>4 DEF DirectCalls
  <2> QED BY <1>7, <2>1, <2>2, <2>4, <2>5 DEF NamedBy
<1>9. CodeShaped(m, N, cd, sc)
  BY <1>5, <1>6, <1>8, CodeIsShaped
<1> QED BY <1>3, <1>4, <1>9

KeySet == {LogKey(x) : x \in LogItems} \cup {Keys.calls[p] : p \in DirectCalls}
LateKeys ==
  [p \in CodePlaces |-> {x \in KeySet : IsLate(code, succs, p[1], p[2], x)}]
EarlyKeys ==
  [p \in CodePlaces |-> {x \in KeySet : IsEarly(module, Keys, code[p[1]], p[2], x)}]
OwedAt(p, x) == Owed(module, Keys, code, succs, p[1], p[2], x)

LEMMA KeysThere ==
  ASSUME NEW m, NEW N, NEW cd, NEW sc, NEW c, NEW k, NEW v, IsAt(m, N, cd, sc, c, k, v),
         NEW D, \A p \in Pointers(m) : IsDirectCall(m, Instr(m, p)) => p \in D,
         NEW x
  PROVE  /\ IsLate(cd, sc, c, k, x) => \E y \in LogItems : x = LogKey(y)
         /\ IsEarly(m, N, v, k, x) => \/ \E y \in LogItems : x = LogKey(y)
                                      \/ \E p \in D : x = N.calls[p]
         /\ Calls(m, v[k]) => v[k].at \in D
<1>1. v[k] \in Items(m)
  BY AtFacts
<1>2. LateItems(v) \subseteq LogItems /\ EntryItems \subseteq LogItems /\ CfgItems \subseteq LogItems
  BY LogTypes DEF LateItems
<1>3. v = cd[c]
  BY DEF IsAt
<1>4. IsLate(cd, sc, c, k, x) => \E y \in LogItems : x = LogKey(y)
  BY <1>2, <1>3 DEF IsLate, LateIn, EntersIn
<1>5. Calls(m, v[k]) => v[k].at \in D
  <2>1. Calls(m, v[k]) => v[k] \in OriginalItems(m)
    BY <1>1, LogTypes DEF Items, Calls
  <2>2. v[k] \in OriginalItems(m) => v[k].at \in Pointers(m)
    BY OriginalTypes
  <2> QED BY <2>1, <2>2 DEF Calls
<1> QED BY <1>2, <1>4, <1>5 DEF IsEarly

LEMMA PlaceOwes ==
  ASSUME IsInjected, NEW p \in CodePlaces
  PROVE  /\ IsAt(module, Keys, code, succs, p[1], p[2], code[p[1]])
         /\ \A x : x \in LateKeys[p] <=> IsLate(code, succs, p[1], p[2], x)
         /\ \A x : x \in EarlyKeys[p] <=> IsEarly(module, Keys, code[p[1]], p[2], x)
         /\ \A x : Due(LateKeys, EarlyKeys, p, x) = OwedAt(p, x)
         /\ ItemAt(p) = code[p[1]][p[2]] /\ OpAt(p) = OpIn(module, code[p[1]][p[2]])
         /\ Calls(module, ItemAt(p)) => ItemAt(p).at \in DirectCalls
<1>1. CodeShaped(module, Keys, code, succs) /\ WellFormed(module)
  BY ShapedNow
<1>2. p[1] \in DOMAIN code /\ p[2] \in 1..Len(code[p[1]])
  BY DEF CodePlaces
<1>3. IsAt(module, Keys, code, succs, p[1], p[2], code[p[1]])
  BY <1>1, <1>2 DEF IsAt
<1>4. \A q \in Pointers(module) : IsDirectCall(module, Instr(module, q)) => q \in DirectCalls
  BY DEF DirectCalls
<1>5. ASSUME NEW x
      PROVE  /\ IsLate(code, succs, p[1], p[2], x) => x \in KeySet
             /\ IsEarly(module, Keys, code[p[1]], p[2], x) => x \in KeySet
  BY <1>3, <1>4, KeysThere DEF KeySet
<1>6. \A x : x \in LateKeys[p] <=> IsLate(code, succs, p[1], p[2], x)
  BY <1>5 DEF LateKeys
<1>7. \A x : x \in EarlyKeys[p] <=> IsEarly(module, Keys, code[p[1]], p[2], x)
  BY <1>5 DEF EarlyKeys
<1>8. ASSUME NEW x PROVE Due(LateKeys, EarlyKeys, p, x) = OwedAt(p, x)
  <2>1. /\ Sign(x \in LateKeys[p]) = Sign(IsLate(code, succs, p[1], p[2], x))
        /\ Sign(x \in EarlyKeys[p]) = Sign(IsEarly(module, Keys, code[p[1]], p[2], x))
    BY <1>6, <1>7 DEF Sign
  <2> QED BY <2>1 DEF Due, OwedAt, Owed
<1>9. ItemAt(p) = code[p[1]][p[2]] /\ OpAt(p) = OpIn(module, code[p[1]][p[2]])
  BY DEF ItemAt, OpAt, OpOf, OpIn
<1>10. Calls(module, code[p[1]][p[2]]) => code[p[1]][p[2]].at \in DirectCalls
  BY <1>3, <1>4, KeysThere
<1> QED BY <1>3, <1>6, <1>7, <1>8, <1>9, <1>10


\* One place.
LEMMA PlaceOwesItsItem ==
  ASSUME IsInjected, NEW p \in CodePlaces
  PROVE  /\ KindsOwed(Keys, LateKeys[p], EarlyKeys[p])
         /\ OwesLog(LateKeys, EarlyKeys, p) /\ OwesGoto(LateKeys, EarlyKeys, p)
         /\ OwesStraight(LateKeys, EarlyKeys, p) /\ OwesReturn(LateKeys, EarlyKeys, p)
         /\ OwesCall(LateKeys, EarlyKeys, p)
<1>1. Runnable
  BY InjectedRuns DEF IsInjected
<1>2. PICK m, N, cd, sc, c, k, v, x : /\ m = module /\ N = Keys /\ cd = code /\ sc = succs
                                      /\ c = p[1] /\ k = p[2] /\ v = code[p[1]] /\ x = ItemAt(p)
  OBVIOUS
<1>3. PICK L, E : L = LateKeys /\ E = EarlyKeys
  OBVIOUS
<1>4. /\ IsAt(m, N, cd, sc, c, k, v)
      /\ \A y : y \in L[p] <=> IsLate(cd, sc, c, k, y)
      /\ \A y : y \in E[p] <=> IsEarly(m, N, v, k, y)
      /\ x = v[k] /\ OpAt(p) = OpIn(m, v[k])
      /\ Calls(m, v[k]) => x.at \in DirectCalls
  BY <1>2, <1>3, PlaceOwes
<1>5. p = <<c, k>> /\ NextItem(p) = <<c, k + 1>>
  BY <1>2 DEF CodePlaces, NextItem
<1>6. \A y : Due(L, E, p, y) = Owed(m, N, cd, sc, c, k, y)
  BY <1>2, <1>3, PlaceOwes DEF OwedAt
<1>7. ASSUME k < Len(v), NEW q, q = NextItem(p)
      PROVE  /\ q \in CodePlaces /\ IsAt(m, N, cd, sc, c, k + 1, v)
             /\ \A y : Due(L, E, q, y) = Owed(m, N, cd, sc, c, k + 1, y)
             /\ \A y : y \in L[q] <=> IsLate(cd, sc, c, k + 1, y)
             /\ \A y : y \in E[q] <=> IsEarly(m, N, v, k + 1, y)
  <2>1. IsAt(m, N, cd, sc, c, k + 1, v)
    BY <1>4, <1>7, EarlyNext
  <2>2. k + 1 \in 1..Len(v) /\ c \in DOMAIN code
    BY <1>2, <2>1 DEF IsAt
  <2>3. q \in CodePlaces /\ q[1] = c /\ q[2] = k + 1
    BY <1>2, <1>5, <1>7, <2>2 DEF CodePlaces
  <2>4. \A y : Due(L, E, q, y) = Owed(m, N, cd, sc, c, k + 1, y)
    BY <1>2, <1>3, <2>3, PlaceOwes DEF OwedAt
  <2>5. /\ \A y : y \in L[q] <=> IsLate(cd, sc, c, k + 1, y)
        /\ \A y : y \in E[q] <=> IsEarly(m, N, v, k + 1, y)
    BY <1>2, <1>3, <2>3, PlaceOwes
  <2> QED BY <2>1, <2>3, <2>4, <2>5
<1>8. KindsOwed(N, L[p], E[p])
  <2>1. /\ \A y, z : y \in E[p] => z \notin L[p]
        /\ \A y, z : y \in E[p] /\ z \in E[p] => y = z
        /\ \A y, z : y \in L[p] /\ z \in L[p] /\ y[1] = z[1] => y = z
        /\ \A y : y \in L[p] /\ y[1] = "edge" => \E e \in DOMAIN N.edges : y = N.edges[e]
    BY <1>4, OwedKinds
  <2>2. \A y : IsEarly(m, N, v, k, y) => y[1] = "edge"
    BY <1>4, EarlyAt
  <2> QED BY <1>4, <2>1, <2>2 DEF KindsOwed
<1>9. OwesLog(L, E, p)
  <2> SUFFICES ASSUME x.kind = "log", NEW y
               PROVE  Due(L, E, p, y) = Due(L, E, NextItem(p), y) + Is(y, LogKey(x))
    BY <1>2 DEF OwesLog
  <2>1. v[k] \in Items(m)
    BY <1>4, AtFacts
  <2>2. v[k] \in LogItems
    <3>1. \A z \in OriginalItems(m) : z.kind = "instruction"
      BY OriginalTypes
    <3>2. Goto.kind = "goto"
      BY LogTypes
    <3> QED BY <1>4, <2>1, <3>1, <3>2 DEF Items
  <2>3. k < Len(v)
    BY <1>4, <2>2, AtFacts
  <2>4. Owed(m, N, cd, sc, c, k, y) = Owed(m, N, cd, sc, c, k + 1, y) + Is(y, LogKey(v[k]))
    BY <1>4, <2>2, OwedLog
  <2> QED BY <1>4, <1>6, <1>7, <2>3, <2>4
<1>10. OwesGoto(L, E, p)
  <2> SUFFICES ASSUME x = Goto PROVE Passes(L, E, p, FirstOfBlock(succs[p[1]][1]))
    BY <1>2 DEF OwesGoto
  <2>1. /\ sc[c][1] \in DOMAIN cd
        /\ \A y : Owed(m, N, cd, sc, c, k, y) = Owed(m, N, cd, sc, sc[c][1], 1, y)
    BY <1>4, OwedGoto
  <2>2. PICK q : q = FirstOfBlock(succs[p[1]][1])
    OBVIOUS
  <2>3. q \in CodePlaces /\ q[1] = sc[c][1] /\ q[2] = 1
    BY <1>1, <1>2, <2>1, <2>2, FirstPlaces DEF FirstOfBlock
  <2>4. \A y : Due(L, E, q, y) = Owed(m, N, cd, sc, sc[c][1], 1, y)
    BY <1>2, <1>3, <2>3, PlaceOwes DEF OwedAt
  <2> QED BY <1>6, <2>1, <2>2, <2>4 DEF Passes
<1>11. OwesStraight(L, E, p)
  <2> SUFFICES ASSUME OpAt(p) \in {"phi", "landingpad", "other"}, NEW y
               PROVE  Due(L, E, p, y) = Due(L, E, NextItem(p), y)
    BY DEF OwesStraight, Passes
  <2>1. k < Len(v) /\ Owed(m, N, cd, sc, c, k, y) = Owed(m, N, cd, sc, c, k + 1, y)
    BY <1>4, OwedStraight
  <2> QED BY <1>6, <1>7, <2>1
<1>12. OwesReturn(L, E, p)
  <2> SUFFICES ASSUME OpAt(p) = "ret" PROVE Clear(L, E, p)
    BY DEF OwesReturn
  <2>1. NothingEarly(m, N, v, k) /\ \A y : ~ IsLate(cd, sc, c, k, y)
    BY <1>4, OwedEnd
  <2> QED BY <1>4, <2>1 DEF Clear, NothingEarly
<1>13. OwesCall(L, E, p)
  <2> SUFFICES ASSUME OpAt(p) \in {"call", "invoke"}
               PROVE  /\ L[p] = {}
                      /\ \A y : y \in E[p] <=> x.at \in DOMAIN N.calls /\ y = N.calls[x.at]
                      /\ OpAt(p) = "call" => Clear(L, E, NextItem(p))
    BY <1>2 DEF OwesCall
  <2>1. \A y : ~ IsLate(cd, sc, c, k, y)
    BY <1>4, OwedCall
  <2>2. OpIn(m, v[k]) = "call" =>
          k < Len(v) /\ NothingEarly(m, N, v, k + 1) /\ \A y : ~ IsLate(cd, sc, c, k + 1, y)
    BY <1>4, OwedCall
  <2>3. IF Calls(m, v[k]) THEN OnlyEarly(m, N, v, k, N.calls[v[k].at])
        ELSE NothingEarly(m, N, v, k)
    BY <1>4, EarlyAt
  <2>4. DOMAIN N.calls = DirectCalls /\ \A q \in DirectCalls : IsDirectCall(m, Instr(m, q))
    BY <1>1, <1>2, KeyFields DEF Runnable
  <2>5. IsOriginal(v[k])
    BY <1>4 DEF OpIn
  <2>6. Calls(m, v[k]) <=> x.at \in DOMAIN N.calls
    BY <1>4, <2>4, <2>5 DEF Calls
  <2>7. \A y : y \in E[p] <=> x.at \in DOMAIN N.calls /\ y = N.calls[x.at]
    BY <1>4, <2>3, <2>6 DEF OnlyEarly, NothingEarly
  <2>8. OpAt(p) = "call" => Clear(L, E, NextItem(p))
    BY <1>4, <1>7, <2>2 DEF Clear, NothingEarly
  <2> QED BY <1>4, <2>1, <2>7, <2>8
<1> QED BY <1>2, <1>3, <1>8, <1>9, <1>10, <1>11, <1>12, <1>13

LEMMA PlaceOwesItsBranches ==
  ASSUME IsInjected, NEW p \in CodePlaces
  PROVE  OwesBranch(LateKeys, EarlyKeys, p)
<1> SUFFICES ASSUME OpAt(p) \in {"br", "switch", "invoke"}, NEW j \in DOMAIN succs[p[1]], NEW y
             PROVE  LET e == <<ItemAt(p).at[1], j>> IN
                      Due(LateKeys, EarlyKeys, FirstOfBlock(succs[p[1]][j]), y)
                        = Leaving(LateKeys, EarlyKeys, p, y)
                          + Taking(Keys, e, EdgeTarget(module, e), y)
  BY DEF OwesBranch
<1>1. Runnable
  BY InjectedRuns DEF IsInjected
<1>2. PICK m, N, cd, sc, c, k, v, x : /\ m = module /\ N = Keys /\ cd = code /\ sc = succs
                                      /\ c = p[1] /\ k = p[2] /\ v = code[p[1]] /\ x = ItemAt(p)
  OBVIOUS
<1>3. PICK L, E : L = LateKeys /\ E = EarlyKeys
  OBVIOUS
<1>4. IsAt(m, N, cd, sc, c, k, v) /\ x = v[k] /\ OpAt(p) = OpIn(m, v[k])
  BY <1>2, PlaceOwes
<1>5. \A z : Due(L, E, p, z) = Owed(m, N, cd, sc, c, k, z)
  BY <1>2, <1>3, PlaceOwes DEF OwedAt
<1>6. PICK b, e, t, d : b = x.at[1] /\ e = <<b, j>> /\ t = Successors(m, b)[j] /\ d = sc[c][j]
  OBVIOUS
<1>7. b \in Blocks(m) /\ x = LastOf(m, b) /\ DOMAIN sc[c] = 1..Len(Successors(m, b))
  <2>1. OpAt(p) \in Terminators
    BY DEF Terminators
  <2> QED BY <1>1, <1>2, <1>6, <2>1, TerminatorFacts
<1>8. k = Len(v) /\ Last(v) = LastOf(m, b)
  <2>1. /\ EndsIn(m, v[k]) <=> k = Len(v)
        /\ Last(v) = v[Len(v)]
    BY <1>4, AtFacts
  <2>2. EndsIn(m, v[k])
    BY <1>4 DEF EndsIn, Terminators
  <2> QED BY <1>4, <1>7, <2>1, <2>2
<1>9. /\ d \in DOMAIN cd
      /\ \A z : Owed(m, N, cd, sc, d, 1, z) = LeftAt(m, N, cd, sc, c, k, v, z) + Taking(N, e, t, z)
  <2>1. /\ IsAt(m, N, cd, sc, c, k, v) /\ b \in Blocks(m) /\ k = Len(v) /\ Last(v) = LastOf(m, b)
        /\ OpIn(m, v[k]) \in {"br", "switch", "invoke"}
        /\ j \in 1..Len(Successors(m, b)) /\ e = <<b, j>> /\ t = Successors(m, b)[j]
        /\ d = sc[c][j]
    BY <1>2, <1>4, <1>6, <1>7, <1>8
  <2> QED BY ONLY <2>1, OwedBranch
<1>10. PICK q : q = FirstOfBlock(d)
  OBVIOUS
<1>11. q \in CodePlaces /\ q[1] = d /\ q[2] = 1
  BY <1>1, <1>2, <1>9, <1>10, FirstPlaces DEF FirstOfBlock
<1>12. Due(L, E, q, y) = Owed(m, N, cd, sc, d, 1, y)
  BY <1>2, <1>3, <1>11, PlaceOwes DEF OwedAt
<1>13. Leaving(L, E, p, y) = LeftAt(m, N, cd, sc, c, k, v, y)
  BY <1>4, <1>5 DEF Leaving, LeftAt
<1>14. EdgeTarget(m, e) = t
  BY <1>6 DEF EdgeTarget
<1>15. Due(L, E, q, y) = Leaving(L, E, p, y) + Taking(N, e, EdgeTarget(m, e), y)
  BY <1>9, <1>12, <1>13, <1>14
<1> QED BY <1>2, <1>3, <1>6, <1>10, <1>15

LEMMA DebtsThere ==
  ASSUME IsInjected
  PROVE  \E L, E : Debts(L, E)
<1>1. Runnable
  BY InjectedRuns DEF IsInjected
<1>2. ASSUME NEW p \in CodePlaces PROVE OwesAt(LateKeys, EarlyKeys, p)
  BY <1>2, PlaceOwesItsItem, PlaceOwesItsBranches DEF OwesAt
<1>3. ASSUME NEW f \in DefinedIn(module) PROVE OwesStart(LateKeys, EarlyKeys, f)
  <2>1. PICK b, q : b = EntryBlock(module, f) /\ q = FirstOfBlock(b)
    OBVIOUS
  <2>2. b \in Blocks(module)
    BY <1>1, <2>1, FirstPlaces DEF DefinedIn
  <2>3. q \in CodePlaces /\ q[1] = b /\ q[2] = 1
    BY <1>1, <2>1, <2>2, FirstPlaces DEF FirstOfBlock, Runnable
  <2>4. \A x : Owed(module, Keys, code, succs, b, 1, x) = Is(x, BlockKey(b)) + FirstOf(module, b, x)
    BY <2>2, ShapedNow, OwedFirst
  <2>5. \A x : Due(LateKeys, EarlyKeys, q, x) = Owed(module, Keys, code, succs, b, 1, x)
    BY <2>3, PlaceOwes DEF OwedAt
  <2>6. Keys.m = module
    BY DEF Keys
  <2> QED BY <2>1, <2>4, <2>5, <2>6 DEF OwesStart, Entering
<1> QED BY <1>2, <1>3 DEF Debts


------------------------------------------------------------------------------
(***************************************************************************)
(* The books are right in every state.                                     *)
(***************************************************************************)
BooksOpenNow == IsInjected /\ NotStarted /\ Fresh
BooksRight == \E L, E : Debts(L, E) /\ Books(L, E)

LEMMA BooksAreOpened == BooksOpenNow => BooksRight
<1> SUFFICES ASSUME BooksOpenNow PROVE BooksRight
  OBVIOUS
<1>1. PICK L, E : Debts(L, E)
  BY DebtsThere DEF BooksOpenNow
<1>2. Books(L, E)
  BY <1>1, BooksOpen DEF OpensBooks, BooksOpenNow, IsInjected
<1> QED BY <1>1, <1>2 DEF BooksRight

LEMMA BooksAreOpenedNext == BooksOpenNow' => BooksRight'
BY BooksAreOpened, PTL

LEMMA CompileBooks ==
  ASSUME RunInv, BooksInv, Compile, InjectInv', CodeInv'
  PROVE  BooksInv'
<1>1. module' = module /\ phase # "injected"
  BY ModuleStays DEF Compile
<1>2. /\ threads' = threads /\ lineOpen' = lineOpen /\ stdout' = stdout /\ status' = status
      /\ entered' = entered /\ taken' = taken /\ called' = called
  BY DEF Compile, runVars
<1>3. Fresh'
  BY <1>1, <1>2 DEF BooksInv, Fresh
<1>4. NotStarted'
  BY <1>1, <1>2 DEF RunInv, NotStarted, Start
<1>5. phase' = "injected" => BooksRight'
  BY <1>3, <1>4, BooksAreOpenedNext DEF BooksOpenNow, IsInjected
<1> QED BY <1>3, <1>5 DEF BooksInv, BooksRight

LEMMA StillBooks ==
  ASSUME BooksInv, UNCHANGED <<buildVars, runVars>>
  PROVE  BooksInv'
<1>1. UNCHANGED buildVars
  OBVIOUS
<1>2. /\ module' = module /\ phase' = phase /\ Keys' = Keys
  BY <1>1, KeysStay DEF buildVars, builderVars
<1>3. /\ threads' = threads /\ lineOpen' = lineOpen /\ stdout' = stdout /\ status' = status
      /\ entered' = entered /\ taken' = taken /\ called' = called
  BY DEF runVars
<1>4. CASE phase # "injected"
  BY <1>2, <1>3, <1>4 DEF BooksInv, Fresh
<1>5. CASE phase = "injected"
  <2>1. PICK L, E : Debts(L, E) /\ Books(L, E)
    BY <1>5 DEF BooksInv
  <2>2. Debts(L, E)'
    BY <1>1, <2>1, DebtsStay
  <2>3. Books(L, E)'
    BY <1>2, <1>3, <2>1 DEF Books, CountersOK, InBooks
  <2> QED BY <1>2, <1>5, <2>2, <2>3 DEF BooksInv
<1> QED BY <1>4, <1>5

LEMMA StepKeepsBooks ==
  ASSUME "open" \notin Texts
  PROVE  /\ InjectInv /\ CodeInv /\ RunInv /\ InjectInv' /\ CodeInv'
         /\ BooksInv /\ [RunNext]_<<buildVars, runVars>>
         => BooksInv'
<1> SUFFICES ASSUME InjectInv, CodeInv, RunInv, InjectInv', CodeInv', BooksInv,
                    [RunNext]_<<buildVars, runVars>>
             PROVE  BooksInv'
  OBVIOUS
<1>1. CASE Compile
  BY <1>1, CompileBooks
<1>2. CASE Run
  BY <1>2, RunBooks
<1>3. CASE UNCHANGED <<buildVars, runVars>>
  BY <1>3, StillBooks
<1> QED BY <1>1, <1>2, <1>3 DEF RunNext

\* The inductive invariant: at every moment of a run, what has been logged and what
\* the threads owe at their places in the code is what has happened.
THEOREM BooksHold ==
  ASSUME "open" \notin Texts
  PROVE  RunSpec => []BooksInv
<1>1. RunInit => BooksInv
  BY DEF RunInit, InjectInit, Init, BooksInv, Fresh
<1> QED BY <1>1, StepKeepsBooks, RunInvHolds, PTL DEF RunSpec


------------------------------------------------------------------------------
(***************************************************************************)
(* The threads that owe are different for different keys of a kind.        *)
(***************************************************************************)
KindsHeld(N, L, E, ts) ==
  \A t \in DOMAIN ts : ts[t] # <<>> => KindsOwed(N, L[Last(ts[t])], E[Last(ts[t])])
LiveIn(ts) == {t \in DOMAIN ts : ts[t] # <<>>}
Bearers(L, E, ts, x) == Owing(L, ts, x) \cup Owing(E, ts, x)
OfOneKind(S, key) == \A x, y \in S : x # y => key[x] # key[y] /\ key[x][1] = key[y][1]

\* Threads and what they owe, their number finite.
Holding(N, L, E, ts, live) ==
  KindsHeld(N, L, E, ts) /\ live = LiveIn(ts) /\ IsFiniteSet(live)

LEMMA BearersCount ==
  ASSUME NEW N, NEW L, NEW E, NEW ts, NEW live, Holding(N, L, E, ts, live), NEW x
  PROVE  /\ Bearers(L, E, ts, x) \in SUBSET live
         /\ \A late, early : late = Cardinality(Owing(L, ts, x)) /\ early = Cardinality(Owing(E, ts, x))
              => /\ late \in Nat /\ early \in Nat
                 /\ Cardinality(Bearers(L, E, ts, x)) = late + early
<1>1. IsFiniteSet(live)
  BY DEF Holding
<1>2. Owing(L, ts, x) \in SUBSET live /\ Owing(E, ts, x) \in SUBSET live
  BY DEF Holding, LiveIn, Owing, InDebt
<1>3. Owing(L, ts, x) \cap Owing(E, ts, x) = {}
  BY DEF Holding, KindsHeld, KindsOwed, Owing, InDebt
<1>4. PICK P, Q : P = Owing(L, ts, x) /\ Q = Owing(E, ts, x)
  OBVIOUS
<1>5. IsFiniteSet(P) /\ IsFiniteSet(Q)
  BY <1>1, <1>2, <1>4, FS_Subset
<1>6. /\ Cardinality(P) \in Nat /\ Cardinality(Q) \in Nat
      /\ Cardinality(P \cup Q) = Cardinality(P) + Cardinality(Q)
  BY <1>3, <1>4, <1>5, CountTogether
<1> QED BY <1>2, <1>4, <1>6 DEF Bearers

LEMMA BearersApart ==
  ASSUME NEW N, NEW L, NEW E, NEW ts, NEW live, Holding(N, L, E, ts, live),
         NEW x, NEW y, x # y, x[1] = y[1]
  PROVE  Bearers(L, E, ts, x) \cap Bearers(L, E, ts, y) = {}
<1> SUFFICES ASSUME NEW t \in DOMAIN ts, t \in Bearers(L, E, ts, x), t \in Bearers(L, E, ts, y)
             PROVE FALSE
  BY DEF Bearers, Owing
<1>1. PICK p : p = Last(ts[t])
  OBVIOUS
<1>2. ts[t] # <<>> /\ x \in L[p] \cup E[p] /\ y \in L[p] \cup E[p]
  BY <1>1 DEF Bearers, Owing, InDebt
<1>3. KindsOwed(N, L[p], E[p])
  BY <1>1, <1>2 DEF Holding, KindsHeld
<1> QED BY <1>2, <1>3 DEF KindsOwed

\* So what they owe of one kind is no more than there are threads.
LEMMA WithinLive ==
  ASSUME NEW N, NEW L, NEW E, NEW ts, NEW live, Holding(N, L, E, ts, live),
         NEW S, IsFiniteSet(S), NEW key, OfOneKind(S, key), NEW f \in [S -> Nat],
         \A x \in S : f[x] <= Cardinality(Bearers(L, E, ts, key[x]))
  PROVE  Total(f) <= Cardinality(live)
<1>1. PICK A : A = [x \in S |-> Bearers(L, E, ts, key[x])]
  OBVIOUS
<1>2. IsFiniteSet(live)
  BY DEF Holding
<1>3. A \in [S -> SUBSET live] /\ \A x \in S : A[x] = Bearers(L, E, ts, key[x])
  BY <1>1, BearersCount
<1>4. Apart(A, S)
  <2> SUFFICES ASSUME NEW x \in S, NEW y \in S, x # y PROVE A[x] \cap A[y] = {}
    BY DEF Apart
  <2>1. key[x] # key[y] /\ key[x][1] = key[y][1]
    BY DEF OfOneKind
  <2>2. PICK u, w : u = key[x] /\ w = key[y]
    OBVIOUS
  <2>3. Bearers(L, E, ts, u) \cap Bearers(L, E, ts, w) = {}
    BY <2>1, <2>2, BearersApart
  <2> QED BY <1>3, <2>2, <2>3
<1>5. \A x \in S : f[x] <= Cardinality(A[x])
  BY <1>3
<1>6. /\ Total(f) \in Nat /\ Cardinality(Parts(A, S)) \in Nat /\ Cardinality(live) \in Nat
      /\ Total(f) <= Cardinality(Parts(A, S)) /\ Cardinality(Parts(A, S)) <= Cardinality(live)
  BY <1>2, <1>3, <1>4, <1>5, SumOfParts
<1> QED BY <1>6

(***************************************************************************)
(* What a cut log can tell too much under a key: of each thread the edge   *)
(* logged early, and for c that of q, a thread that owes nothing.          *)
(***************************************************************************)
Charge(E, ts, q, c, x) == Owing(E, ts, x) \cup {t \in {q} : x = c}
Charged(E, ts, q, c, X) == UNION {Charge(E, ts, q, c, x) : x \in X}

Charging(N, L, E, ts, live, q) ==
  Holding(N, L, E, ts, live) /\ q \in live /\ Clear(L, E, Last(ts[q]))

LEMMA ChargeApart ==
  ASSUME NEW N, NEW L, NEW E, NEW ts, NEW live, NEW q, Charging(N, L, E, ts, live, q), NEW c
  PROVE  /\ \A x : Charge(E, ts, q, c, x) \in SUBSET live
         /\ \A x, y : x # y => Charge(E, ts, q, c, x) \cap Charge(E, ts, q, c, y) = {}
<1>1. Holding(N, L, E, ts, live) /\ q \in live /\ q \in DOMAIN ts /\ ts[q] # <<>>
  BY DEF Charging, Holding, LiveIn
<1>2. \A x : q \notin Owing(E, ts, x)
  BY DEF Charging, Clear, Owing, InDebt
<1>3. \A x : Owing(E, ts, x) \in SUBSET live
  BY <1>1 DEF Holding, LiveIn, Owing, InDebt
<1>4. ASSUME NEW x, NEW y, x # y PROVE Owing(E, ts, x) \cap Owing(E, ts, y) = {}
  <2> SUFFICES ASSUME NEW t, t \in Owing(E, ts, x), t \in Owing(E, ts, y) PROVE FALSE
    OBVIOUS
  <2>1. PICK p : p = Last(ts[t])
    OBVIOUS
  <2>2. t \in DOMAIN ts /\ ts[t] # <<>> /\ x \in E[p] /\ y \in E[p]
    BY <2>1 DEF Owing, InDebt
  <2>3. KindsOwed(N, L[p], E[p])
    BY <1>1, <2>1, <2>2 DEF Holding, KindsHeld
  <2>4. x[1] = "edge" /\ y[1] = "edge"
    BY <2>2, <2>3 DEF KindsOwed
  <2> QED BY <1>4, <2>2, <2>3, <2>4 DEF KindsOwed
<1>5. \A x : Charge(E, ts, q, c, x) \in SUBSET live
  BY <1>1, <1>3 DEF Charge
<1>6. ASSUME NEW x, NEW y, x # y
      PROVE  Charge(E, ts, q, c, x) \cap Charge(E, ts, q, c, y) = {}
  BY <1>2, <1>4, <1>6 DEF Charge
<1> QED BY <1>5, <1>6

LEMMA ChargedApart ==
  ASSUME NEW N, NEW L, NEW E, NEW ts, NEW live, NEW q, Charging(N, L, E, ts, live, q), NEW c
  PROVE  /\ \A X : /\ Charged(E, ts, q, c, X) \in SUBSET live
                   /\ IsFiniteSet(Charged(E, ts, q, c, X))
                   /\ Cardinality(Charged(E, ts, q, c, X)) \in Nat
         /\ \A X, Y : X \cap Y = {} => Charged(E, ts, q, c, X) \cap Charged(E, ts, q, c, Y) = {}
<1>1. ASSUME NEW X
      PROVE  /\ Charged(E, ts, q, c, X) \in SUBSET live
             /\ IsFiniteSet(Charged(E, ts, q, c, X))
             /\ Cardinality(Charged(E, ts, q, c, X)) \in Nat
  <2>1. Charged(E, ts, q, c, X) \in SUBSET live
    BY ChargeApart DEF Charged
  <2>2. IsFiniteSet(live)
    BY DEF Charging, Holding
  <2> QED BY <2>1, <2>2, FS_Subset, FS_CardinalityType
<1>2. ASSUME NEW X, NEW Y, X \cap Y = {}
      PROVE  Charged(E, ts, q, c, X) \cap Charged(E, ts, q, c, Y) = {}
  <2> SUFFICES ASSUME NEW t, NEW x \in X, NEW y \in Y,
                      t \in Charge(E, ts, q, c, x), t \in Charge(E, ts, q, c, y)
               PROVE  FALSE
    BY DEF Charged
  <2>1. x # y
    BY <1>2
  <2> QED BY <2>1, ChargeApart
<1> QED BY <1>1, <1>2

\* Sums whose terms belong to sets of keys that have nothing in common.
LEMMA ChargesAdd ==
  ASSUME NEW N, NEW L, NEW E, NEW ts, NEW live, NEW q, Charging(N, L, E, ts, live, q), NEW c,
         NEW S, IsFiniteSet(S), NEW K, Apart(K, S), NEW f \in [S -> Nat],
         \A x \in S : f[x] <= Cardinality(Charged(E, ts, q, c, K[x]))
  PROVE  /\ Total(f) \in Nat
         /\ Total(f) <= Cardinality(Charged(E, ts, q, c, Parts(K, S)))
<1>1. PICK A : A = [x \in S |-> Charged(E, ts, q, c, K[x])]
  OBVIOUS
<1>2. IsFiniteSet(live)
  BY DEF Charging, Holding
<1>3. A \in [S -> SUBSET live] /\ \A x \in S : A[x] = Charged(E, ts, q, c, K[x])
  BY <1>1, ChargedApart
<1>4. Apart(A, S)
  <2> SUFFICES ASSUME NEW x \in S, NEW y \in S, x # y PROVE A[x] \cap A[y] = {}
    BY DEF Apart
  <2>1. PICK X, Y : X = K[x] /\ Y = K[y]
    OBVIOUS
  <2>2. X \cap Y = {}
    BY <2>1 DEF Apart
  <2>3. Charged(E, ts, q, c, X) \cap Charged(E, ts, q, c, Y) = {}
    BY <2>2, ChargedApart
  <2> QED BY <1>3, <2>1, <2>3
<1>5. \A x \in S : f[x] <= Cardinality(A[x])
  BY <1>3
<1>6. Total(f) \in Nat /\ Total(f) <= Cardinality(Parts(A, S))
  BY <1>2, <1>3, <1>4, <1>5, SumOfParts
<1>7. Parts(A, S) = Charged(E, ts, q, c, Parts(K, S))
  BY <1>3 DEF Parts, Charged
<1> QED BY <1>6, <1>7


------------------------------------------------------------------------------
(***************************************************************************)
(* The log keeps pace with the program.                                    *)
(***************************************************************************)
Settled(L, E) ==
  /\ Runnable /\ WellFormed(module) /\ Ready /\ KeysTell(Keys)
  /\ Holding(Keys, L, E, threads, Live)
  /\ stdout \in Seq(AnyLines) /\ entered \in [Blocks(module) -> Nat]
  /\ taken \in [CfgEdges(module) -> Nat] /\ called \in [Pointers(module) -> Nat]
  /\ InBooks(L, E)

LEMMA NowSettled ==
  ASSUME InjectInv, CodeInv, RunInv, BooksInv, phase = "injected"
  PROVE  \E L, E : Settled(L, E)
<1>1. Runnable /\ WellFormed(module) /\ Ready
  BY InjectedRuns, NowSplit, PhaseSets DEF Stages
<1>2. InGraph /\ Logging /\ EntriesOK
  BY <1>1 DEF Runnable, RunInv
<1>3. KeysTell(Keys)
  BY <1>1, <1>2, KeysAreNames
<1>4. PICK L, E : Debts(L, E) /\ Books(L, E)
  BY DEF BooksInv
<1>5. threads \in Seq(Seq(CodePlaces)) /\ stdout \in Seq(AnyLines)
  BY <1>2 DEF Logging, ThreadsOK
<1>6. IsFiniteSet(Live)
  <2>1. Len(threads) \in Nat /\ DOMAIN threads = 1..Len(threads)
    BY <1>5
  <2>2. IsFiniteSet(1..Len(threads))
    BY <2>1, FS_Interval
  <2> QED BY <2>1, <2>2, FS_Subset DEF Live
<1>7. KindsHeld(Keys, L, E, threads)
  <2> SUFFICES ASSUME NEW t \in DOMAIN threads, threads[t] # <<>>
               PROVE  KindsOwed(Keys, L[Last(threads[t])], E[Last(threads[t])])
    BY DEF KindsHeld
  <2>1. PICK s : s = threads[t]
    OBVIOUS
  <2>2. s \in Seq(CodePlaces) /\ s # <<>>
    BY <1>5, <2>1
  <2>3. Last(s) \in CodePlaces
    BY <2>2 DEF Last
  <2> QED BY <1>4, <2>1, <2>3 DEF Debts, OwesAt
<1>8. Holding(Keys, L, E, threads, Live)
  BY <1>6, <1>7 DEF Holding, Live, LiveIn
<1>9. Settled(L, E)
  BY <1>1, <1>2, <1>3, <1>4, <1>5, <1>8 DEF Settled, EntriesOK, Books, CountersOK
<1> QED BY <1>9

\* What the log has under each key, but for who bears the difference.
LEMMA PaceOfKeys ==
  ASSUME NEW L, NEW E, Settled(L, E), status # "quit",
         NEW N, N = Keys, NEW ts, ts = threads, NEW live, live = Live
  PROVE  /\ \A b \in Blocks(module) :
              /\ Late(b) \in Nat /\ Late(b) <= Cardinality(Bearers(L, E, ts, BlockKey(b)))
         /\ \A p \in DirectCalls :
              /\ Announced(p) \in Nat /\ Announced(p) <= Cardinality(Bearers(L, E, ts, N.calls[p]))
         /\ \A e \in LoggedEdges :
              /\ Abs(Gap(e)) \in Nat /\ Abs(Gap(e)) <= Cardinality(Bearers(L, E, ts, N.edges[e]))
<1>1. /\ WellFormed(module) /\ KeysTell(N) /\ Holding(N, L, E, ts, live)
      /\ Accounted(N, entered, taken, called, L, E, stdout, ts)
      /\ entered \in [Blocks(module) -> Nat] /\ stdout \in Seq(AnyLines)
      /\ taken \in [CfgEdges(module) -> Nat] /\ called \in [Pointers(module) -> Nat]
  BY DEF Settled, InBooks
<1>2. /\ N.m = module /\ DOMAIN N.calls = DirectCalls /\ DOMAIN N.edges = LoggedEdges
      /\ DirectCalls \subseteq Pointers(module) /\ LoggedEdges \subseteq CfgEdges(module)
      /\ \A p \in DirectCalls : N.calls[p] = <<"edge", callEdgeIds[CallKey(p)]>>
      /\ \A e \in LoggedEdges : N.edges[e] = <<"edge", cfgEdgeIds[CfgKey(e[1], e[2])]>>
  BY <1>1, KeyFields
<1>3. ASSUME NEW x
      PROVE  \E late, early \in Nat :
               /\ late = Cardinality(Owing(L, ts, x)) /\ early = Cardinality(Owing(E, ts, x))
               /\ Cardinality(Bearers(L, E, ts, x)) = late + early
               /\ Logged(x) \in Nat
               /\ Tells(N, entered, taken, called, x, Logged(x) + (late - early))
  <2>1. PICK late, early : late = Cardinality(Owing(L, ts, x)) /\ early = Cardinality(Owing(E, ts, x))
    OBVIOUS
  <2>2. late \in Nat /\ early \in Nat /\ Cardinality(Bearers(L, E, ts, x)) = late + early
    BY <1>1, <2>1, BearersCount
  <2>3. Logged(x) \in Nat
    BY <1>1, HitsCounted DEF Logged
  <2>4. Tells(N, entered, taken, called, x, Told(L, E, stdout, ts, x))
    BY <1>1 DEF Accounted
  <2>5. Told(L, E, stdout, ts, x) = Logged(x) + (late - early)
    BY <2>1 DEF Told, Tally, Logged
  <2> QED BY <2>1, <2>2, <2>3, <2>4, <2>5
<1>4. \A x : x[1] # "edge" => Owing(E, ts, x) = {}
  BY <1>1 DEF Holding, KindsHeld, KindsOwed, Owing, InDebt
<1>5. \A p \in DirectCalls : Owing(L, ts, N.calls[p]) = {}
  <2> SUFFICES ASSUME NEW p \in DirectCalls, NEW t, t \in Owing(L, ts, N.calls[p]) PROVE FALSE
    OBVIOUS
  <2>1. PICK u, x : u = Last(ts[t]) /\ x = N.calls[p]
    OBVIOUS
  <2>2. t \in DOMAIN ts /\ ts[t] # <<>> /\ x \in L[u]
    BY <2>1 DEF Owing, InDebt
  <2>3. KindsOwed(N, L[u], E[u])
    BY <1>1, <2>1, <2>2 DEF Holding, KindsHeld
  <2>4. x[1] = "edge"
    BY <1>2, <2>1
  <2>5. PICK e \in DOMAIN N.edges : x = N.edges[e]
    BY <2>2, <2>3, <2>4 DEF KindsOwed
  <2> QED BY <1>1, <1>2, <2>1, <2>5 DEF KeysTell
<1>6. ASSUME NEW b \in Blocks(module)
      PROVE  Late(b) \in Nat /\ Late(b) <= Cardinality(Bearers(L, E, ts, BlockKey(b)))
  <2>1. PICK x : x = BlockKey(b)
    OBVIOUS
  <2>2. PICK late, early \in Nat :
          /\ late = Cardinality(Owing(L, ts, x)) /\ early = Cardinality(Owing(E, ts, x))
          /\ Cardinality(Bearers(L, E, ts, x)) = late + early /\ Logged(x) \in Nat
          /\ Tells(N, entered, taken, called, x, Logged(x) + (late - early))
    BY <1>3
  <2>3. early = 0
    <3>1. x[1] # "edge"
      BY <2>1 DEF BlockKey
    <3> QED BY <1>4, <2>2, <3>1, FS_EmptySet
  <2>4. Logged(x) + (late - early) = entered[b]
    BY <1>2, <2>1, <2>2 DEF Tells
  <2>5. Late(b) = entered[b] - Logged(x)
    BY <2>1 DEF Late, BlockKey
  <2>6. entered[b] \in Nat
    BY <1>1
  <2>7. Late(b) = late
    BY <2>2, <2>3, <2>4, <2>5, <2>6
  <2> QED BY <2>1, <2>2, <2>3, <2>7
<1>7. ASSUME NEW p \in DirectCalls
      PROVE  Announced(p) \in Nat /\ Announced(p) <= Cardinality(Bearers(L, E, ts, N.calls[p]))
  <2>1. PICK x : x = N.calls[p]
    OBVIOUS
  <2>2. PICK late, early \in Nat :
          /\ late = Cardinality(Owing(L, ts, x)) /\ early = Cardinality(Owing(E, ts, x))
          /\ Cardinality(Bearers(L, E, ts, x)) = late + early /\ Logged(x) \in Nat
          /\ Tells(N, entered, taken, called, x, Logged(x) + (late - early))
    BY <1>3
  <2>3. late = 0
    BY <1>5, <2>1, <2>2, FS_EmptySet
  <2>4. Logged(x) + (late - early) = called[p]
    BY <1>2, <2>1, <2>2 DEF Tells
  <2>5. Announced(p) = Logged(x) - called[p]
    <3>1. EdgeKey(callEdgeIds[CallKey(p)]) = x
      BY <1>2, <2>1 DEF EdgeKey
    <3> QED BY <3>1 DEF Announced
  <2>6. called[p] \in Nat
    BY <1>1, <1>2
  <2>7. Announced(p) = early
    BY <2>2, <2>3, <2>4, <2>5, <2>6
  <2> QED BY <2>1, <2>2, <2>3, <2>7
<1>8. ASSUME NEW e \in LoggedEdges
      PROVE  Abs(Gap(e)) \in Nat /\ Abs(Gap(e)) <= Cardinality(Bearers(L, E, ts, N.edges[e]))
  <2>1. PICK x : x = N.edges[e]
    OBVIOUS
  <2>2. PICK late, early \in Nat :
          /\ late = Cardinality(Owing(L, ts, x)) /\ early = Cardinality(Owing(E, ts, x))
          /\ Cardinality(Bearers(L, E, ts, x)) = late + early /\ Logged(x) \in Nat
          /\ Tells(N, entered, taken, called, x, Logged(x) + (late - early))
    BY <1>3
  <2>3. Logged(x) + (late - early) = taken[e]
    BY <1>2, <2>1, <2>2 DEF Tells
  <2>4. Gap(e) = taken[e] - Logged(x)
    <3>1. EdgeKey(cfgEdgeIds[CfgKey(e[1], e[2])]) = x
      BY <1>2, <2>1 DEF EdgeKey
    <3> QED BY <3>1 DEF Gap
  <2>5. PICK n, h, g : n = taken[e] /\ h = Logged(x) /\ g = Gap(e)
    OBVIOUS
  <2>6. n \in Nat /\ h \in Nat /\ h + (late - early) = n /\ g = n - h
    BY <1>1, <1>2, <2>2, <2>3, <2>4, <2>5
  <2>7. g = late - early
    BY <2>6
  <2>8. Abs(g) \in Nat /\ Abs(g) <= late + early
    BY <2>7 DEF Abs
  <2> QED BY <2>1, <2>2, <2>5, <2>8
<1> QED BY <1>6, <1>7, <1>8

\* The sets the sums range over.
LEMMA FiniteParts ==
  ASSUME NEW m, WellFormed(m)
  PROVE  /\ IsFiniteSet(Blocks(m)) /\ IsFiniteSet(Functions(m)) /\ IsFiniteSet(CfgEdges(m))
         /\ IsFiniteSet(Pointers(m)) /\ IsFiniteSet(Blocks(m) \X Blocks(m))
<1>1. IsFiniteSet(Blocks(m)) /\ IsFiniteSet(Functions(m))
  <2>1. Len(m.body) \in Nat /\ DOMAIN m.body = 1..Len(m.body)
    BY BodyType
  <2>2. m.functions \in Nat
    BY DEF WellFormed
  <2>3. PICK a, z : a = Len(m.body) /\ z = m.functions
    OBVIOUS
  <2>4. a \in Int /\ z \in Int
    BY <2>1, <2>2, <2>3
  <2>5. IsFiniteSet(1..a)
    BY <2>4, FS_Interval
  <2>6. IsFiniteSet(1..z)
    BY <2>4, FS_Interval
  <2> QED BY <2>1, <2>3, <2>5, <2>6 DEF Blocks, Functions
<1>2. IsFiniteSet(CfgEdges(m))
  BY CfgEdgesFinite
<1>3. IsFiniteSet(Pointers(m))
  <2>1. PICK F : F = {{b} \X (1..Len(m.body[b])) : b \in Blocks(m)}
    OBVIOUS
  <2>2. \A P \in F : IsFiniteSet(P)
    <3> SUFFICES ASSUME NEW b \in Blocks(m) PROVE IsFiniteSet({b} \X (1..Len(m.body[b])))
      BY <2>1
    <3>1. Len(m.body[b]) \in Nat
      BY BodyType
    <3>2. PICK n, one, upto : n = Len(m.body[b]) /\ one = {b} /\ upto = 1..n
      OBVIOUS
    <3>3. IsFiniteSet(one)
      BY <3>2, FS_Singleton
    <3>4. IsFiniteSet(upto)
      BY <3>1, <3>2, FS_Interval
    <3> QED BY <3>2, <3>3, <3>4, FS_Product
  <2>3. IsFiniteSet(F)
    <3>1. PICK B, row : B = Blocks(m) /\ row = [b \in B |-> {b} \X (1..Len(m.body[b]))]
      OBVIOUS
    <3>2. row \in Surjection(B, F)
      BY <2>1, <3>1 DEF Surjection
    <3> QED BY <1>1, <3>1, <3>2, FS_Surjection
  <2> QED BY <2>1, <2>2, <2>3, FS_UNION DEF Pointers
<1> QED BY <1>1, <1>2, <1>3, FS_Product

LEMMA PaceIsKept == InjectInv /\ CodeInv /\ RunInv /\ BooksInv => LogKeepsPace
<1> SUFFICES ASSUME InjectInv, CodeInv, RunInv, BooksInv, phase = "injected", status # "quit"
             PROVE  LogKeepsPace
  BY DEF LogKeepsPace
<1>1. PICK L, E : Settled(L, E)
  BY NowSettled
<1>2. PICK N, ts, live : N = Keys /\ ts = threads /\ live = Live
  OBVIOUS
<1>3. WellFormed(module) /\ KeysTell(N) /\ Holding(N, L, E, ts, live)
  BY <1>1, <1>2 DEF Settled
<1>4. PICK B, C, G : B = Blocks(module) /\ C = DirectCalls /\ G = LoggedEdges
  OBVIOUS
<1>5. IsFiniteSet(B) /\ IsFiniteSet(C) /\ IsFiniteSet(G)
  <2>1. C \subseteq Pointers(module) /\ G \subseteq CfgEdges(module)
    BY <1>3, <1>4, KeyFields
  <2> QED BY <1>3, <1>4, <2>1, FiniteParts, FS_Subset
<1>6. PICK late, announced, gap :
        /\ late = [b \in B |-> Late(b)] /\ announced = [p \in C |-> Announced(p)]
        /\ gap = [e \in G |-> Abs(Gap(e))]
  OBVIOUS
<1>7. /\ late \in [B -> Nat]
      /\ \A b \in B : late[b] <= Cardinality(Bearers(L, E, ts, BlockKey(b)))
  BY <1>1, <1>2, <1>4, <1>6, PaceOfKeys
<1>8. /\ announced \in [C -> Nat]
      /\ \A p \in C : announced[p] <= Cardinality(Bearers(L, E, ts, N.calls[p]))
  BY <1>1, <1>2, <1>4, <1>6, PaceOfKeys
<1>9. /\ gap \in [G -> Nat]
      /\ \A e \in G : gap[e] <= Cardinality(Bearers(L, E, ts, N.edges[e]))
  BY <1>1, <1>2, <1>4, <1>6, PaceOfKeys
<1>10. Total(late) <= Cardinality(live)
  <2>1. PICK key : key = [b \in B |-> BlockKey(b)]
    OBVIOUS
  <2>2. OfOneKind(B, key)
    BY <1>4, <2>1 DEF OfOneKind, BlockKey, Blocks
  <2>3. \A b \in B : late[b] <= Cardinality(Bearers(L, E, ts, key[b]))
    BY <1>7, <2>1
  <2> QED BY <1>3, <1>5, <1>7, <2>2, <2>3, WithinLive
<1>11. Total(announced) <= Cardinality(live)
  <2>1. PICK key : key = N.calls
    OBVIOUS
  <2>2. OfOneKind(C, key)
    <3>1. DOMAIN key = C
      BY <1>2, <1>3, <1>4, <2>1, KeyFields
    <3> QED BY <1>3, <2>1, <3>1 DEF OfOneKind, KeysTell, OneToOne
  <2>3. \A p \in C : announced[p] <= Cardinality(Bearers(L, E, ts, key[p]))
    BY <1>8, <2>1
  <2> QED BY <1>3, <1>5, <1>8, <2>2, <2>3, WithinLive
<1>12. Total(gap) <= Cardinality(live)
  <2>1. PICK key : key = N.edges
    OBVIOUS
  <2>2. OfOneKind(G, key)
    <3>1. DOMAIN key = G
      BY <1>2, <1>3, <1>4, <2>1, KeyFields
    <3> QED BY <1>3, <2>1, <3>1 DEF OfOneKind, KeysTell, OneToOne
  <2>3. \A e \in G : gap[e] <= Cardinality(Bearers(L, E, ts, key[e]))
    BY <1>9, <2>1
  <2> QED BY <1>3, <1>5, <1>9, <2>2, <2>3, WithinLive
<1>13. /\ SumOf(late) <= Cardinality(Live) /\ SumOf(announced) <= Cardinality(Live)
       /\ SumOf(gap) <= Cardinality(Live)
  BY <1>2, <1>10, <1>11, <1>12 DEF SumOf, Total
<1>14. /\ \A b \in DOMAIN late : late[b] >= 0
       /\ \A p \in DOMAIN announced : announced[p] >= 0
  BY <1>7, <1>8
<1> QED BY <1>4, <1>6, <1>13, <1>14 DEF LogKeepsPace, LoggedEdges

\* At every moment of a run, a crash included, the log is at most one event for
\* every thread away from what has happened (the code InjectPass puts before and
\* behind the instructions).
THEOREM LogAlwaysKeepsPace ==
  ASSUME "open" \notin Texts
  PROVE  RunSpec => []LogKeepsPace
BY BooksHold, RunInvHolds, PaceIsKept, PTL

==============================================================================
