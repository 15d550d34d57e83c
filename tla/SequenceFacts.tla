---------------------------- MODULE SequenceFacts ----------------------------
(***************************************************************************)
(* Induction over sets of natural numbers, and with it the types of the    *)
(* sequences that FlattenSeq returns and how often they hold an element;   *)
(* facts about vectors; sums over finite sets.                             *)
(***************************************************************************)
EXTENDS Integers, SequencesExt, SequenceTheorems, FiniteSetTheorems, WellFoundedInduction, TLAPS

\* A nonempty set of natural numbers has a least element.
LEMMA Minimum ==
  ASSUME NEW T, T \subseteq Nat, T # {}
  PROVE  \E x \in T : \A y \in T : x <= y
<1> DEFINE R == OpToRel(<, Nat)
<1>1. \A x, y \in Nat : <<y, x>> \in R <=> y < x
  BY DEF OpToRel
<1>2. IsWellFoundedOn(R, Nat)
  BY NatLessThanWellFounded
<1> HIDE DEF R
<1>3. PICK x \in T : \A y \in T : ~ (<<y, x>> \in R)
  BY <1>2, WFMin
<1>4. ASSUME NEW y \in T PROVE x <= y
  <2>1. x \in Nat /\ y \in Nat /\ ~ (y < x)
    BY <1>1, <1>3
  <2> QED BY <2>1
<1> QED BY <1>4

\* A set of natural numbers that has 0 and with each of its elements the next.
LEMMA SetInduction ==
  ASSUME NEW S, S \subseteq Nat, 0 \in S, \A n \in S : n + 1 \in S
  PROVE  S = Nat
<1> SUFFICES ASSUME Nat \ S # {} PROVE FALSE
  OBVIOUS
<1>1. PICK x \in Nat \ S : \A y \in Nat \ S : x <= y
  BY Minimum
<1>2. x # 0 /\ x - 1 \in Nat /\ x - 1 < x
  BY <1>1
<1>3. x - 1 \in S
  BY <1>1, <1>2
<1> QED BY <1>1, <1>2, <1>3

------------------------------------------------------------------------------
\* g holds the concatenations of the first n elements of ss.
IsFlatten(g, ss, n) == g = [i \in 1..n |-> IF i = 1 THEN ss[i] ELSE g[i - 1] \o ss[i]]

\* The concatenations of the first n elements exist, for every n.
LEMMA FlattenExists ==
  ASSUME NEW ss, NEW n \in Nat
  PROVE  \E g : IsFlatten(g, ss, n)
<1> DEFINE S == {k \in Nat : \E g : IsFlatten(g, ss, k)}
<1>1. 0 \in S
  <2>1. IsFlatten([i \in 1..0 |-> <<>>], ss, 0)
    BY DEF IsFlatten
  <2> QED BY <2>1
<1>2. ASSUME NEW k \in S PROVE k + 1 \in S
  <2>1. PICK g : IsFlatten(g, ss, k)
    OBVIOUS
  <2> DEFINE h == [i \in 1..(k + 1) |->
                     IF i \in 1..k THEN g[i] ELSE IF i = 1 THEN ss[i] ELSE g[k] \o ss[i]]
  <2>2. ASSUME NEW i \in 1..(k + 1)
        PROVE  h[i] = IF i = 1 THEN ss[i] ELSE h[i - 1] \o ss[i]
    <3>1. CASE i \in 1..k
      <4>1. h[i] = g[i] /\ (i # 1 => h[i - 1] = g[i - 1])
        BY <3>1
      <4>2. g[i] = IF i = 1 THEN ss[i] ELSE g[i - 1] \o ss[i]
        BY <2>1, <3>1 DEF IsFlatten
      <4> QED BY <4>1, <4>2
    <3>2. CASE i \notin 1..k
      <4>1. i = k + 1
        BY <3>2
      <4>2. i # 1 => h[i - 1] = g[k]
        BY <4>1
      <4>3. h[i] = IF i = 1 THEN ss[i] ELSE g[k] \o ss[i]
        BY <3>2
      <4> QED BY <4>2, <4>3
    <3> QED BY <3>1, <3>2
  <2>3. IsFlatten(h, ss, k + 1)
    <3>1. h = [i \in 1..(k + 1) |-> h[i]]
      OBVIOUS
    <3> HIDE DEF h
    <3> QED BY <2>2, <3>1 DEF IsFlatten
  <2> HIDE DEF h
  <2> QED BY <2>3
<1> HIDE DEF S
<1>3. S \subseteq Nat
  BY DEF S
<1>4. S = Nat
  BY <1>1, <1>2, <1>3, SetInduction
<1> QED BY <1>4 DEF S

\* What is put together of sequences over S is one.
LEMMA FlattenType ==
  ASSUME NEW S, NEW ss \in Seq(Seq(S))
  PROVE  FlattenSeq(ss) \in Seq(S)
<1> DEFINE n == Len(ss)
           f == CHOOSE g : IsFlatten(g, ss, n)
<1>1. n \in Nat
  OBVIOUS
<1>2. IsFlatten(f, ss, n)
  BY <1>1, FlattenExists
<1>3. FlattenSeq(ss) = IF n = 0 THEN ss ELSE f[n]
  BY DEF FlattenSeq, IsFlatten
<1> HIDE DEF f
<1> DEFINE T == {k \in Nat : k + 1 \in 1..n => f[k + 1] \in Seq(S)}
<1>4. 0 \in T
  <2>1. 1 \in 1..n => f[1] = ss[1]
    BY <1>2 DEF IsFlatten
  <2>2. 1 \in 1..n => ss[1] \in Seq(S)
    OBVIOUS
  <2> QED BY <2>1, <2>2
<1>5. ASSUME NEW k \in T PROVE k + 1 \in T
  <2> SUFFICES ASSUME (k + 1) + 1 \in 1..n PROVE f[(k + 1) + 1] \in Seq(S)
    OBVIOUS
  <2>1. k + 1 \in 1..n /\ (k + 1) + 1 # 1 /\ ((k + 1) + 1) - 1 = k + 1
    OBVIOUS
  <2>2. f[(k + 1) + 1] = f[k + 1] \o ss[(k + 1) + 1]
    BY <1>2, <2>1 DEF IsFlatten
  <2>3. ss[(k + 1) + 1] \in Seq(S) /\ f[k + 1] \in Seq(S)
    BY <2>1
  <2> QED BY <2>2, <2>3
<1>6. T = Nat
  <2>1. T \subseteq Nat
    OBVIOUS
  <2> HIDE DEF T
  <2> QED BY <1>4, <1>5, <2>1, SetInduction
<1>7. n # 0 => f[n] \in Seq(S)
  <2> SUFFICES ASSUME n # 0 PROVE f[n] \in Seq(S)
    OBVIOUS
  <2>1. n - 1 \in Nat /\ (n - 1) + 1 = n /\ n \in 1..n
    BY <1>1
  <2>2. n - 1 \in T
    BY <1>6, <2>1
  <2> HIDE DEF n
  <2> QED BY <2>1, <2>2
<1>8. n = 0 => ss \in Seq(S)
  OBVIOUS
<1> QED BY <1>3, <1>7, <1>8
------------------------------------------------------------------------------
IsVector(v) == v \in Seq(ToSet(v))

\* A function on 1..n is a vector of n elements.
LEMMA VectorIntro ==
  ASSUME NEW n \in Nat, NEW v, v = [k \in 1..n |-> v[k]]
  PROVE  IsVector(v) /\ Len(v) = n
<1>1. \A k \in 1..n : v[k] \in ToSet(v)
  BY DEF ToSet
<1>2. v \in [1..n -> ToSet(v)]
  BY <1>1
<1>3. v \in Seq(ToSet(v))
  BY <1>2
<1> QED BY <1>2, <1>3 DEF IsVector

\* A vector is a function on 1..n.
LEMMA VectorDomain ==
  ASSUME NEW v, IsVector(v)
  PROVE  /\ Len(v) \in Nat /\ DOMAIN v = 1..Len(v)
         /\ v = [k \in 1..Len(v) |-> v[k]]
BY DEF IsVector

\* A sequence over any set is a vector.
LEMMA VectorOf ==
  ASSUME NEW S, NEW v \in Seq(S)
  PROVE  IsVector(v) /\ \A k \in 1..Len(v) : v[k] \in S
<1>1. Len(v) \in Nat /\ v = [k \in 1..Len(v) |-> v[k]]
  OBVIOUS
<1>2. \A k \in 1..Len(v) : v[k] \in S
  OBVIOUS
<1> QED BY <1>1, <1>2, VectorIntro

\* What is in a vector put behind another.
LEMMA Appending ==
  ASSUME NEW v, NEW w, IsVector(v), IsVector(w)
  PROVE  /\ IsVector(v \o w) /\ Len(v \o w) = Len(v) + Len(w)
         /\ \A k \in 1..Len(v) : (v \o w)[k] = v[k]
         /\ \A k \in 1..Len(w) : (v \o w)[Len(v) + k] = w[k]
         /\ \A k \in 1..Len(v \o w) :
              \/ k \in 1..Len(v)
              \/ k - Len(v) \in 1..Len(w) /\ (v \o w)[k] = w[k - Len(v)]
<1> DEFINE S == ToSet(v) \cup ToSet(w)
           r == v \o w
<1>1. v \in Seq(S) /\ w \in Seq(S)
  <2>1. v \in Seq(ToSet(v)) /\ w \in Seq(ToSet(w))
    BY DEF IsVector
  <2>2. \A T \in SUBSET S : Seq(T) \subseteq Seq(S)
    OBVIOUS
  <2> QED BY <2>1, <2>2
<1> HIDE DEF S
<1>2. r \in Seq(S) /\ Len(r) = Len(v) + Len(w)
  BY <1>1
<1>3. /\ \A k \in 1..Len(v) : r[k] = v[k]
      /\ \A k \in 1..Len(w) : r[Len(v) + k] = w[k]
  BY <1>1
<1>4. IsVector(r)
  BY <1>2, VectorOf
<1>5. Len(v) \in Nat /\ Len(w) \in Nat
  BY VectorDomain
<1>6. ASSUME NEW k \in 1..Len(r), k \notin 1..Len(v)
      PROVE  k - Len(v) \in 1..Len(w) /\ r[k] = w[k - Len(v)]
  <2>1. k - Len(v) \in 1..Len(w) /\ Len(v) + (k - Len(v)) = k
    BY <1>2, <1>5, <1>6
  <2> QED BY <1>3, <2>1
<1> QED BY <1>2, <1>3, <1>4, <1>6

------------------------------------------------------------------------------
\* A set of numbers up to n + m, counted below and above n.
LEMMA SplitCount ==
  ASSUME NEW n \in Nat, NEW m \in Nat, NEW K \in SUBSET (1..(n + m))
  PROVE  LET low == K \cap 1..n
             high == {j \in 1..m : n + j \in K}
         IN /\ IsFiniteSet(K) /\ Cardinality(K) \in Nat
            /\ Cardinality(low) \in Nat /\ Cardinality(high) \in Nat
            /\ Cardinality(K) = Cardinality(low) + Cardinality(high)
<1> DEFINE low == K \cap 1..n
           rest == K \ (1..n)
           high == {j \in 1..m : n + j \in K}
           f == [j \in high |-> n + j]
<1>1. IsFiniteSet(1..(n + m)) /\ IsFiniteSet(1..m)
  BY FS_Interval
<1>2. IsFiniteSet(K) /\ IsFiniteSet(low) /\ IsFiniteSet(rest) /\ IsFiniteSet(high)
  <2>1. low \subseteq K /\ rest \subseteq K /\ high \subseteq 1..m
    OBVIOUS
  <2> HIDE DEF low, rest, high
  <2> QED BY <1>1, <2>1, FS_Subset
<1>3. K = low \cup rest /\ low \cap rest = {}
  OBVIOUS
<1>4. Cardinality(rest) = Cardinality(high)
  <2>1. f \in [high -> rest]
    OBVIOUS
  <2>2. \A i, j \in high : f[i] = f[j] => i = j
    OBVIOUS
  <2>3. ASSUME NEW k \in rest PROVE \E j \in high : f[j] = k
    <3>1. k - n \in 1..m /\ n + (k - n) = k
      OBVIOUS
    <3>2. k - n \in high
      BY <3>1
    <3> QED BY <3>1, <3>2
  <2> HIDE DEF f, high, rest
  <2>4. f \in Bijection(high, rest)
    BY <2>1, <2>2, <2>3 DEF Bijection, Injection, IsInjective, Surjection
  <2> QED BY <1>2, <2>4, FS_Bijection DEF ExistsBijection
<1>5. /\ Cardinality(low) \in Nat /\ Cardinality(rest) \in Nat /\ Cardinality(high) \in Nat
      /\ Cardinality(K) \in Nat
  BY <1>2, FS_CardinalityType
<1>6. Cardinality(K) = Cardinality(low) + Cardinality(rest) - Cardinality({})
  <2> HIDE DEF low, rest
  <2> QED BY <1>2, <1>3, FS_Union
<1> HIDE DEF low, rest, high
<1>7. Cardinality(K) = Cardinality(low) + Cardinality(high)
  BY <1>4, <1>5, <1>6, FS_EmptySet
<1> QED BY <1>2, <1>5, <1>7 DEF low, high

\* Where x is in a sequence, and how often.
Places(v, x) == {k \in 1..Len(v) : v[k] = x}
Count(v, x) == Cardinality(Places(v, x))

LEMMA CountType ==
  ASSUME NEW v, Len(v) \in Nat, NEW x
  PROVE  /\ IsFiniteSet(Places(v, x)) /\ Count(v, x) \in Nat
         /\ Count(v, x) = 0 <=> \A k \in 1..Len(v) : v[k] # x
<1>1. IsFiniteSet(1..Len(v)) /\ Places(v, x) \subseteq 1..Len(v)
  BY FS_Interval DEF Places
<1>2. IsFiniteSet(Places(v, x))
  BY <1>1, FS_Subset
<1>3. Count(v, x) = 0 <=> Places(v, x) = {}
  BY <1>2, FS_EmptySet DEF Count
<1> QED BY <1>2, <1>3, FS_CardinalityType DEF Count, Places

\* One sequence behind another.
LEMMA CountJoined ==
  ASSUME NEW v, NEW w, IsVector(v), IsVector(w), NEW x
  PROVE  Count(v \o w, x) = Count(v, x) + Count(w, x)
<1> DEFINE n == Len(v)
           m == Len(w)
           K == Places(v \o w, x)
<1>1. n \in Nat /\ m \in Nat
  BY VectorDomain
<1>2. /\ Len(v \o w) = n + m
      /\ \A k \in 1..n : (v \o w)[k] = v[k]
      /\ \A k \in 1..m : (v \o w)[n + k] = w[k]
  BY Appending
<1>3. K \subseteq 1..(n + m)
  BY <1>2 DEF Places
<1>4. K \cap 1..n = Places(v, x)
  BY <1>1, <1>2 DEF Places
<1>5. {j \in 1..m : n + j \in K} = Places(w, x)
  BY <1>1, <1>2 DEF Places
<1> HIDE DEF K, n, m
<1>6. Cardinality(K) = Cardinality(K \cap 1..n) + Cardinality({j \in 1..m : n + j \in K})
  <2>1. K \in SUBSET (1..(n + m))
    BY <1>3
  <2> QED BY <1>1, <2>1, SplitCount
<1> QED BY <1>4, <1>5, <1>6 DEF Count, K

\* What FlattenSeq returns, as the last of the concatenations of more and more.
LEMMA FlattenUnfold ==
  ASSUME NEW S, NEW ss \in Seq(Seq(S))
  PROVE  \E f : /\ f[0] = <<>>
                /\ \A i \in 1..Len(ss) : f[i] = f[i - 1] \o ss[i]
                /\ \A i \in 0..Len(ss) : f[i] \in Seq(S)
                /\ FlattenSeq(ss) = f[Len(ss)]
<1> DEFINE n == Len(ss)
           g == CHOOSE h : IsFlatten(h, ss, n)
           f == [i \in 0..n |-> IF i = 0 THEN <<>> ELSE g[i]]
<1>1. n \in Nat
  OBVIOUS
<1>2. IsFlatten(g, ss, n)
  BY <1>1, FlattenExists
<1>3. FlattenSeq(ss) = IF n = 0 THEN ss ELSE g[n]
  BY DEF FlattenSeq, IsFlatten
<1> HIDE DEF g
<1>4. FlattenSeq(ss) = f[n]
  <2>1. n = 0 => ss = <<>>
    OBVIOUS
  <2> QED BY <1>1, <1>3, <2>1
<1>5. f[0] = <<>>
  BY <1>1
<1>6. ASSUME NEW i \in 1..n PROVE f[i] = f[i - 1] \o ss[i]
  <2>1. f[i] = g[i] /\ (i # 1 => f[i - 1] = g[i - 1])
    BY <1>1
  <2> HIDE DEF f
  <2>2. g[i] = IF i = 1 THEN ss[i] ELSE g[i - 1] \o ss[i]
    BY <1>2 DEF IsFlatten
  <2>3. ss[i] \in Seq(S)
    OBVIOUS
  <2>4. i = 1 => f[i - 1] = <<>> /\ <<>> \o ss[i] = ss[i]
    BY <1>5, <2>3
  <2> QED BY <2>1, <2>2, <2>4
<1> DEFINE T == {i \in Nat : i \in 0..n => f[i] \in Seq(S)}
<1>7. 0 \in T
  BY <1>5
<1> HIDE DEF f
<1>8. ASSUME NEW i \in T PROVE i + 1 \in T
  <2> SUFFICES ASSUME i + 1 \in 0..n PROVE f[i + 1] \in Seq(S)
    OBVIOUS
  <2>1. i + 1 \in 1..n /\ i \in 0..n /\ (i + 1) - 1 = i
    BY <1>1
  <2>2. f[i + 1] = f[i] \o ss[i + 1]
    BY <1>6, <2>1
  <2>3. f[i] \in Seq(S) /\ ss[i + 1] \in Seq(S)
    BY <2>1
  <2> QED BY <2>2, <2>3
<1>9. T = Nat
  <2>1. T \subseteq Nat
    OBVIOUS
  <2> HIDE DEF T
  <2> QED BY <1>7, <1>8, <2>1, SetInduction
<1>10. \A i \in 0..n : f[i] \in Seq(S)
  BY <1>1, <1>9
<1> QED BY <1>4, <1>5, <1>6, <1>10

\* A place for every natural number up to n that is the same as the one before.
LEMMA IntervalInduction ==
  ASSUME NEW n \in Nat, NEW T, 0 \in T, \A i \in 0..(n - 1) : i \in T => i + 1 \in T
  PROVE  \A i \in 0..n : i \in T
<1> DEFINE S == {i \in Nat : i \in 0..n => i \in T}
<1>1. 0 \in S
  OBVIOUS
<1>2. ASSUME NEW i \in S PROVE i + 1 \in S
  OBVIOUS
<1>3. S = Nat
  <2>1. S \subseteq Nat
    OBVIOUS
  <2> HIDE DEF S
  <2> QED BY <1>1, <1>2, <2>1, SetInduction
<1> QED BY <1>3

\* An element that only one of the sequences has.
LEMMA CountInOne ==
  ASSUME NEW S, NEW ss \in Seq(Seq(S)), NEW x, NEW j \in 1..Len(ss),
         \A i \in 1..Len(ss) : i # j => \A k \in 1..Len(ss[i]) : ss[i][k] # x
  PROVE  Count(FlattenSeq(ss), x) = Count(ss[j], x)
<1> DEFINE n == Len(ss)
<1>1. n \in Nat
  OBVIOUS
<1>2. PICK f : /\ f[0] = <<>>
               /\ \A i \in 1..n : f[i] = f[i - 1] \o ss[i]
               /\ \A i \in 0..n : f[i] \in Seq(S)
               /\ FlattenSeq(ss) = f[n]
  BY FlattenUnfold
<1>3. ASSUME NEW i \in 1..n PROVE Count(ss[i], x) = IF i = j THEN Count(ss[j], x) ELSE 0
  <2>1. Len(ss[i]) \in Nat
    OBVIOUS
  <2> QED BY <2>1, CountType
<1>4. ASSUME NEW i \in 1..n PROVE Count(f[i], x) = Count(f[i - 1], x) + Count(ss[i], x)
  <2>1. i - 1 \in 0..n /\ f[i - 1] \in Seq(S) /\ ss[i] \in Seq(S)
    BY <1>1, <1>2
  <2>2. IsVector(f[i - 1]) /\ IsVector(ss[i])
    BY <2>1, VectorOf
  <2>3. Count(f[i - 1] \o ss[i], x) = Count(f[i - 1], x) + Count(ss[i], x)
    BY <2>2, CountJoined
  <2>4. f[i] = f[i - 1] \o ss[i]
    BY <1>2
  <2> QED BY <2>3, <2>4
<1>5. Count(f[0], x) = 0
  <2> DEFINE v == f[0]
  <2>1. Len(v) = 0 /\ Len(v) \in Nat
    BY <1>2
  <2>2. \A k \in 1..Len(v) : v[k] # x
    BY <2>1
  <2> HIDE DEF v
  <2>3. Count(v, x) = 0
    BY <2>1, <2>2, CountType
  <2> QED BY <2>3 DEF v
<1>6. Count(ss[j], x) \in Nat
  <2>1. Len(ss[j]) \in Nat
    OBVIOUS
  <2> QED BY <2>1, CountType
<1> DEFINE T == {i \in 0..n : Count(f[i], x) = IF i < j THEN 0 ELSE Count(ss[j], x)}
<1>7. 0 \in T
  BY <1>1, <1>5
<1>8. ASSUME NEW i \in 0..(n - 1), i \in T PROVE i + 1 \in T
  <2>1. i + 1 \in 1..n /\ (i + 1) - 1 = i
    BY <1>1
  <2>2. Count(f[i + 1], x) = Count(f[i], x) + Count(ss[i + 1], x)
    BY <1>4, <2>1
  <2>3. Count(f[i], x) = IF i < j THEN 0 ELSE Count(ss[j], x)
    BY <1>8
  <2>4. Count(f[i + 1], x) = IF i + 1 < j THEN 0 ELSE Count(ss[j], x)
    BY <1>3, <1>6, <2>1, <2>2, <2>3
  <2> QED BY <2>1, <2>4
<1>9. n \in T
  <2> HIDE DEF T, n
  <2>1. \A i \in 0..n : i \in T
    BY <1>1, <1>7, <1>8, IntervalInduction
  <2> QED BY <1>1, <2>1
<1> QED BY <1>2, <1>9

------------------------------------------------------------------------------
\* Every element of a sequence replaced by the sequence that g has for it.
Spread(v, g) == FlattenSeq([k \in DOMAIN v |-> g[v[k]]])

\* For each element of S the rule has a sequence over R.
IsRule(g, S, R) == g \in [S -> Seq(R)]

LEMMA SpreadEmpty ==
  ASSUME NEW g
  PROVE  Spread(<<>>, g) = <<>>
<1>1. [k \in DOMAIN <<>> |-> g[<<>>[k]]] = <<>>
  OBVIOUS
<1>2. <<>> \in Seq(Seq({}))
  OBVIOUS
<1>3. PICK f : f[0] = <<>> /\ FlattenSeq(<<>>) = f[Len(<<>>)]
  BY <1>2, FlattenUnfold
<1> QED BY <1>1, <1>3 DEF Spread

\* One element more.
LEMMA FlattenAppended ==
  ASSUME NEW S, NEW ss \in Seq(Seq(S)), NEW s \in Seq(S), NEW tt, tt = Append(ss, s)
  PROVE  FlattenSeq(tt) = FlattenSeq(ss) \o s
<1> DEFINE n == Len(ss)
<1>1. /\ tt \in Seq(Seq(S)) /\ Len(tt) = n + 1 /\ n \in Nat
      /\ tt[n + 1] = s /\ \A i \in 1..n : tt[i] = ss[i]
  OBVIOUS
<1>2. PICK f : /\ f[0] = <<>>
               /\ \A i \in 1..Len(ss) : f[i] = f[i - 1] \o ss[i]
               /\ \A i \in 0..Len(ss) : f[i] \in Seq(S)
               /\ FlattenSeq(ss) = f[Len(ss)]
  BY FlattenUnfold
<1>3. PICK h : /\ h[0] = <<>>
               /\ \A i \in 1..Len(tt) : h[i] = h[i - 1] \o tt[i]
               /\ \A i \in 0..Len(tt) : h[i] \in Seq(S)
               /\ FlattenSeq(tt) = h[Len(tt)]
  BY <1>1, FlattenUnfold
<1> HIDE DEF n
<1> DEFINE T == {i \in 0..n : h[i] = f[i]}
<1>4. 0 \in T
  BY <1>1, <1>2, <1>3
<1>5. ASSUME NEW i \in 0..(n - 1), i \in T PROVE i + 1 \in T
  <2>1. i + 1 \in 1..n /\ i + 1 \in 1..Len(tt) /\ (i + 1) - 1 = i /\ h[i] = f[i]
    BY <1>1, <1>5
  <2>2. f[i + 1] = f[i] \o ss[i + 1]
    BY <1>2, <2>1 DEF n
  <2>3. h[i + 1] = h[i] \o tt[i + 1]
    BY <1>3, <2>1
  <2>4. tt[i + 1] = ss[i + 1]
    BY <1>1, <2>1
  <2>5. h[i + 1] = f[i + 1] /\ i + 1 \in 0..n
    BY <2>1, <2>2, <2>3, <2>4
  <2> QED BY <2>5
<1>6. n \in T
  <2> HIDE DEF T
  <2>1. \A i \in 0..n : i \in T
    BY <1>1, <1>4, <1>5, IntervalInduction
  <2> QED BY <1>1, <2>1
<1>7. h[n + 1] = h[n] \o s
  <2>1. n + 1 \in 1..Len(tt) /\ (n + 1) - 1 = n
    BY <1>1
  <2> QED BY <1>1, <1>3, <2>1
<1> QED BY <1>1, <1>2, <1>3, <1>6, <1>7 DEF n

LEMMA SpreadAppend ==
  ASSUME NEW S, NEW R, NEW g, IsRule(g, S, R), NEW v \in Seq(S), NEW x \in S
  PROVE  /\ Spread(v, g) \in Seq(R)
         /\ Spread(Append(v, x), g) = Spread(v, g) \o g[x]
<1> DEFINE ss == [k \in DOMAIN v |-> g[v[k]]]
           w == Append(v, x)
           tt == [k \in DOMAIN w |-> g[w[k]]]
<1>1. ss \in Seq(Seq(R)) /\ Len(ss) = Len(v) /\ Len(v) \in Nat
  <2>1. DOMAIN v = 1..Len(v) /\ Len(v) \in Nat /\ \A k \in 1..Len(v) : v[k] \in S
    OBVIOUS
  <2>2. \A k \in 1..Len(v) : g[v[k]] \in Seq(R)
    BY <2>1 DEF IsRule
  <2>3. ss = [k \in 1..Len(v) |-> g[v[k]]]
    BY <2>1
  <2> HIDE DEF ss
  <2> QED BY <2>1, <2>2, <2>3
<1>2. /\ w \in Seq(S) /\ Len(w) = Len(v) + 1
      /\ \A k \in 1..Len(v) : w[k] = v[k] /\ w[Len(v) + 1] = x
  OBVIOUS
<1>3. tt = Append(ss, g[x])
  <2> HIDE DEF w
  <2>0. /\ DOMAIN w = 1..(Len(v) + 1) /\ \A k \in 1..(Len(v) + 1) : w[k] \in S
        /\ DOMAIN v = 1..Len(v)
    BY <1>2
  <2>1. tt \in Seq(Seq(R)) /\ Len(tt) = Len(v) + 1
    <3>1. \A k \in 1..(Len(v) + 1) : g[w[k]] \in Seq(R)
      BY <2>0 DEF IsRule
    <3>2. tt = [k \in 1..(Len(v) + 1) |-> g[w[k]]]
      BY <2>0
    <3> HIDE DEF tt
    <3> QED BY <1>1, <3>1, <3>2
  <2>2. Append(ss, g[x]) \in Seq(Seq(R)) /\ Len(Append(ss, g[x])) = Len(v) + 1
    <3>1. g[x] \in Seq(R)
      BY DEF IsRule
    <3> HIDE DEF ss
    <3> QED BY <1>1, <3>1
  <2>3. ASSUME NEW k \in 1..Len(tt) PROVE tt[k] = Append(ss, g[x])[k]
    <3>1. CASE k = Len(v) + 1
      <4>1. k \in DOMAIN w /\ w[k] = x
        <5>1. Len(v) + 1 \in 1..(Len(v) + 1) /\ w[Len(v) + 1] = x
          BY DEF w
        <5> QED BY <2>0, <3>1, <5>1
      <4>2. tt[k] = g[x]
        BY <4>1
      <4>3. Append(ss, g[x])[k] = g[x]
        BY <1>1, <3>1
      <4> QED BY <4>2, <4>3
    <3>2. CASE k # Len(v) + 1
      <4>1. k \in 1..Len(v) /\ w[k] = v[k] /\ k \in DOMAIN w /\ k \in DOMAIN v
        BY <1>1, <1>2, <2>0, <2>1, <3>2
      <4>2. tt[k] = g[v[k]] /\ ss[k] = g[v[k]]
        BY <4>1
      <4>3. Append(ss, g[x])[k] = ss[k]
        BY <1>1, <4>1
      <4> QED BY <4>2, <4>3
    <3> QED BY <3>1, <3>2
  <2> HIDE DEF tt, ss
  <2> QED BY <2>1, <2>2, <2>3, SeqEqual
<1>4. g[x] \in Seq(R)
  BY DEF IsRule
<1> HIDE DEF ss, tt
<1>5. FlattenSeq(tt) = FlattenSeq(ss) \o g[x]
  BY <1>1, <1>3, <1>4, FlattenAppended
<1>6. FlattenSeq(ss) \in Seq(R)
  BY <1>1, FlattenType
<1> QED BY <1>5, <1>6 DEF Spread, ss, tt, w

\* The sequences over S are those that appending makes of the empty one.
LEMMA SequenceInduction ==
  ASSUME NEW S, NEW P, <<>> \in P,
         \A v \in Seq(S) : v \in P => \A x \in S : Append(v, x) \in P
  PROVE  Seq(S) \subseteq P
<1> SUFFICES ASSUME NEW v \in Seq(S) PROVE v \in P
  OBVIOUS
<1> DEFINE n == Len(v)
           T == {i \in 0..n : SubSeq(v, 1, i) \in P}
<1>1. n \in Nat
  OBVIOUS
<1>2. 0 \in T
  <2>1. SubSeq(v, 1, 0) = <<>>
    OBVIOUS
  <2>2. 0 \in 0..n
    BY <1>1
  <2> HIDE DEF n
  <2> QED BY <2>1, <2>2
<1>3. ASSUME NEW i \in 0..(n - 1), i \in T PROVE i + 1 \in T
  <2>1. i + 1 \in 1..n /\ i \in Nat
    BY <1>1
  <2>2. SubSeq(v, 1, i) \in Seq(S) /\ v[i + 1] \in S
    BY <2>1
  <2>3. SubSeq(v, 1, i + 1) = Append(SubSeq(v, 1, i), v[i + 1])
    BY <2>1
  <2>4. SubSeq(v, 1, i) \in P
    BY <1>3
  <2>5. SubSeq(v, 1, i + 1) \in P
    BY <2>2, <2>3, <2>4
  <2>6. i + 1 \in 0..n
    BY <2>1
  <2> HIDE DEF n
  <2> QED BY <2>5, <2>6
<1>4. n \in T
  <2> HIDE DEF T, n
  <2>1. \A i \in 0..n : i \in T
    BY <1>1, <1>2, <1>3, IntervalInduction
  <2> QED BY <1>1, <2>1
<1>5. SubSeq(v, 1, n) = v
  OBVIOUS
<1> QED BY <1>4, <1>5

\* Of a concatenation it is the concatenation.
LEMMA SpreadJoined ==
  ASSUME NEW S, NEW R, NEW g, IsRule(g, S, R), NEW v \in Seq(S), NEW w \in Seq(S)
  PROVE  /\ Spread(v, g) \in Seq(R)
         /\ Spread(v \o w, g) = Spread(v, g) \o Spread(w, g)
<1> DEFINE P == {u \in Seq(S) : Spread(v \o u, g) = Spread(v, g) \o Spread(u, g)}
<1>1. ASSUME NEW u \in Seq(S) PROVE Spread(u, g) \in Seq(R)
  <2>1. CASE S = {}
    <3>1. u = <<>>
      BY <2>1
    <3>2. Spread(u, g) = <<>>
      BY <3>1, SpreadEmpty
    <3> QED BY <3>2
  <2>2. CASE S # {}
    <3>1. PICK x : x \in S
      BY <2>2
    <3> QED BY <3>1, SpreadAppend
  <2> QED BY <2>1, <2>2
<1>2. <<>> \in P
  <2>1. v \o <<>> = v /\ Spread(v, g) \o <<>> = Spread(v, g)
    BY <1>1, ConcatEmptySeq
  <2>2. Spread(<<>>, g) = <<>> /\ <<>> \in Seq(S)
    BY SpreadEmpty
  <2> QED BY <2>1, <2>2
<1>3. ASSUME NEW u \in Seq(S), u \in P, NEW x \in S PROVE Append(u, x) \in P
  <2>1. Append(u, x) \in Seq(S) /\ v \o u \in Seq(S) /\ v \o Append(u, x) = Append(v \o u, x)
    <3>1. /\ v \o u \in Seq(S) /\ <<x>> \in Seq(S)
          /\ Append(u, x) = u \o <<x>> /\ Append(v \o u, x) = (v \o u) \o <<x>>
      BY AppendIsConcat
    <3>2. v \o (u \o <<x>>) = (v \o u) \o <<x>>
      BY <3>1, ConcatAssociative
    <3> QED BY <3>1, <3>2
  <2>2. Spread(Append(v \o u, x), g) = Spread(v \o u, g) \o g[x]
    <3>1. PICK z \in Seq(S) : z = v \o u
      BY <2>1
    <3>2. Spread(Append(z, x), g) = Spread(z, g) \o g[x]
      BY SpreadAppend
    <3> QED BY <3>1, <3>2
  <2>3. Spread(Append(u, x), g) = Spread(u, g) \o g[x]
    BY SpreadAppend
  <2>4. Spread(v \o u, g) = Spread(v, g) \o Spread(u, g)
    BY <1>3
  <2>5. (Spread(v, g) \o Spread(u, g)) \o g[x] = Spread(v, g) \o (Spread(u, g) \o g[x])
    <3>1. Spread(v, g) \in Seq(R) /\ Spread(u, g) \in Seq(R) /\ g[x] \in Seq(R)
      BY <1>1 DEF IsRule
    <3>2. \A a, b, c \in Seq(R) : (a \o b) \o c = a \o (b \o c)
      BY ConcatAssociative, SMTT(30)
    <3> QED BY <3>1, <3>2
  <2> QED BY <2>1, <2>2, <2>3, <2>4, <2>5
<1> HIDE DEF P
<1>4. Seq(S) \subseteq P
  BY <1>2, <1>3, SequenceInduction
<1> QED BY <1>1, <1>4 DEF P

LEMMA SpreadOfAll ==
  ASSUME NEW S, NEW R, NEW g, IsRule(g, S, R)
  PROVE  \A v, w \in Seq(S) : Spread(v \o w, g) = Spread(v, g) \o Spread(w, g)
<1> SUFFICES ASSUME NEW v \in Seq(S), NEW w \in Seq(S)
             PROVE  Spread(v \o w, g) = Spread(v, g) \o Spread(w, g)
  OBVIOUS
<1> QED BY SpreadJoined

\* Of one element, it is what g has for it.
LEMMA SpreadOne ==
  ASSUME NEW S, NEW R, NEW g, IsRule(g, S, R), NEW x \in S
  PROVE  Spread(<<x>>, g) = g[x]
<1>1. <<>> \in Seq(S) /\ Append(<<>>, x) = <<x>>
  OBVIOUS
<1>2. Spread(Append(<<>>, x), g) = Spread(<<>>, g) \o g[x]
  <2>1. PICK z \in Seq(S) : z = <<>>
    BY <1>1
  <2>2. Spread(Append(z, x), g) = Spread(z, g) \o g[x]
    BY SpreadAppend
  <2> QED BY <2>1, <2>2
<1>3. g[x] \in Seq(R) /\ <<>> \o g[x] = g[x]
  BY DEF IsRule
<1> QED BY <1>1, <1>2, <1>3, SpreadEmpty

\* Nothing is replaced, or everything dropped.
LEMMA SpreadKeeps ==
  ASSUME NEW S, NEW R, NEW g, IsRule(g, S, R), NEW v \in Seq(S)
  PROVE  /\ (\A x \in S : g[x] = <<x>>) => Spread(v, g) = v
         /\ (\A x \in S : g[x] = <<>>) => Spread(v, g) = <<>>
<1> DEFINE P == {u \in Seq(S) : Spread(u, g) = u}
           Q == {u \in Seq(S) : Spread(u, g) = <<>>}
<1>1. ASSUME \A x \in S : g[x] = <<x>> PROVE Spread(v, g) = v
  <2>1. <<>> \in P
    BY SpreadEmpty
  <2>2. ASSUME NEW u \in Seq(S), u \in P, NEW x \in S PROVE Append(u, x) \in P
    <3>1. Spread(Append(u, x), g) = Spread(u, g) \o g[x]
      BY SpreadAppend
    <3>2. u \o <<x>> = Append(u, x) /\ Append(u, x) \in Seq(S)
      OBVIOUS
    <3> QED BY <1>1, <2>2, <3>1, <3>2
  <2> HIDE DEF P
  <2>3. Seq(S) \subseteq P
    BY <2>1, <2>2, SequenceInduction
  <2> QED BY <2>3 DEF P
<1>2. ASSUME \A x \in S : g[x] = <<>> PROVE Spread(v, g) = <<>>
  <2>1. <<>> \in Q
    BY SpreadEmpty
  <2>2. ASSUME NEW u \in Seq(S), u \in Q, NEW x \in S PROVE Append(u, x) \in Q
    <3>1. Spread(Append(u, x), g) = Spread(u, g) \o g[x]
      BY SpreadAppend
    <3>2. Append(u, x) \in Seq(S)
      OBVIOUS
    <3> QED BY <1>2, <2>2, <3>1, <3>2
  <2> HIDE DEF Q
  <2>3. Seq(S) \subseteq Q
    BY <2>1, <2>2, SequenceInduction
  <2> QED BY <2>3 DEF Q
<1> QED BY <1>1, <1>2

\* A second replacement that undoes what the first adds.
LEMMA SpreadTwice ==
  ASSUME NEW S, NEW R, NEW g, IsRule(g, S, S), NEW h, IsRule(h, S, R), NEW v \in Seq(S),
         \A x \in S : Spread(g[x], h) = h[x]
  PROVE  Spread(Spread(v, g), h) = Spread(v, h)
<1>0. \A c, d \in Seq(S) : Spread(c \o d, h) = Spread(c, h) \o Spread(d, h)
  BY SpreadOfAll, SMTT(30)
<1> DEFINE P == {u \in Seq(S) : Spread(Spread(u, g), h) = Spread(u, h)}
<1>1. <<>> \in P
  BY SpreadEmpty
<1>2. ASSUME NEW u \in Seq(S), u \in P, NEW x \in S PROVE Append(u, x) \in P
  <2>1. Spread(Append(u, x), g) = Spread(u, g) \o g[x] /\ Spread(u, g) \in Seq(S)
    BY SpreadAppend, SMTT(30)
  <2>2. Spread(Append(u, x), h) = Spread(u, h) \o h[x]
    BY SpreadAppend, SMTT(30)
  <2>3. g[x] \in Seq(S) /\ Append(u, x) \in Seq(S)
    BY DEF IsRule
  <2>4. Spread(Spread(u, g) \o g[x], h) = Spread(Spread(u, g), h) \o Spread(g[x], h)
    BY <1>0, <2>1, <2>3
  <2> QED BY <1>2, <2>1, <2>2, <2>3, <2>4
<1> HIDE DEF P
<1>3. Seq(S) \subseteq P
  BY <1>1, <1>2, SequenceInduction
<1> QED BY <1>3 DEF P

------------------------------------------------------------------------------
\* What is somewhere in a sequence, and a sequence that has nothing twice.
Holds(v, y) == \E k \in 1..Len(v) : v[k] = y
Distinct(v) == \A i, j \in 1..Len(v) : v[i] = v[j] => i = j

LEMMA HoldsJoined ==
  ASSUME NEW S, NEW v \in Seq(S), NEW w \in Seq(S)
  PROVE  \A y : Holds(v \o w, y) <=> Holds(v, y) \/ Holds(w, y)
<1>1. IsVector(v) /\ IsVector(w)
  BY VectorOf
<1>2. /\ Len(v \o w) = Len(v) + Len(w) /\ Len(v) \in Nat /\ Len(w) \in Nat
      /\ \A k \in 1..Len(v) : (v \o w)[k] = v[k]
      /\ \A k \in 1..Len(w) : (v \o w)[Len(v) + k] = w[k]
      /\ \A k \in 1..Len(v \o w) :
           \/ k \in 1..Len(v)
           \/ k - Len(v) \in 1..Len(w) /\ (v \o w)[k] = w[k - Len(v)]
  BY <1>1, Appending, VectorDomain
<1>3. /\ \A k \in 1..Len(v) : k \in 1..Len(v \o w)
      /\ \A k \in 1..Len(w) : Len(v) + k \in 1..Len(v \o w)
  BY <1>2
<1> QED BY <1>2, <1>3 DEF Holds

\* The replaced sequence holds what replaces an element of the first.
LEMMA SpreadHolds ==
  ASSUME NEW S, NEW R, NEW g, IsRule(g, S, R), NEW v \in Seq(S)
  PROVE  \A y : Holds(Spread(v, g), y) <=> \E k \in 1..Len(v) : Holds(g[v[k]], y)
<1> DEFINE P == {u \in Seq(S) : \A y : Holds(Spread(u, g), y)
                                        <=> \E k \in 1..Len(u) : Holds(g[u[k]], y)}
<1>1. <<>> \in P
  BY SpreadEmpty DEF Holds
<1>2. ASSUME NEW u \in Seq(S), u \in P, NEW x \in S PROVE Append(u, x) \in P
  <2>0. Append(u, x) \in Seq(S)
    OBVIOUS
  <2>1. PICK w \in Seq(S) : w = Append(u, x)
    BY <2>0
  <2>2. Spread(w, g) = Spread(u, g) \o g[x] /\ Spread(u, g) \in Seq(R) /\ g[x] \in Seq(R)
    <3>1. Spread(Append(u, x), g) = Spread(u, g) \o g[x] /\ Spread(u, g) \in Seq(R)
      BY SpreadAppend
    <3> QED BY <2>1, <3>1 DEF IsRule
  <2>3. \A y : Holds(Spread(u, g) \o g[x], y) <=> Holds(Spread(u, g), y) \/ Holds(g[x], y)
    BY <2>2, HoldsJoined
  <2>4. /\ Len(w) = Len(u) + 1 /\ Len(u) \in Nat /\ w[Len(u) + 1] = x
        /\ \A k \in 1..Len(u) : w[k] = u[k]
    BY <2>1
  <2>5. ASSUME NEW y PROVE (\E k \in 1..Len(w) : Holds(g[w[k]], y))
                            <=> (\E k \in 1..Len(u) : Holds(g[u[k]], y)) \/ Holds(g[x], y)
    <3>1. \A k \in 1..Len(w) : k \in 1..Len(u) \/ k = Len(u) + 1
      BY <2>4
    <3>2. Len(u) + 1 \in 1..Len(w) /\ \A k \in 1..Len(u) : k \in 1..Len(w)
      BY <2>4
    <3> QED BY <2>4, <3>1, <3>2
  <2>6. \A y : Holds(Spread(u, g), y) <=> \E k \in 1..Len(u) : Holds(g[u[k]], y)
    BY <1>2
  <2>7. \A y : Holds(Spread(w, g), y) <=> \E k \in 1..Len(w) : Holds(g[w[k]], y)
    BY <2>2, <2>3, <2>5, <2>6
  <2> QED BY <2>1, <2>7
<1> HIDE DEF P
<1>3. Seq(S) \subseteq P
  BY <1>1, <1>2, SequenceInduction
<1> QED BY <1>3 DEF P

LEMMA DistinctJoined ==
  ASSUME NEW S, NEW v \in Seq(S), NEW w \in Seq(S), Distinct(v), Distinct(w),
         \A y : ~ (Holds(v, y) /\ Holds(w, y))
  PROVE  Distinct(v \o w)
<1> SUFFICES ASSUME NEW i \in 1..Len(v \o w), NEW j \in 1..Len(v \o w), (v \o w)[i] = (v \o w)[j]
             PROVE  i = j
  BY DEF Distinct
<1>1. IsVector(v) /\ IsVector(w)
  BY VectorOf
<1>2. /\ Len(v \o w) = Len(v) + Len(w) /\ Len(v) \in Nat /\ Len(w) \in Nat
      /\ \A k \in 1..Len(v) : (v \o w)[k] = v[k]
      /\ \A k \in 1..Len(v \o w) :
           \/ k \in 1..Len(v)
           \/ k - Len(v) \in 1..Len(w) /\ (v \o w)[k] = w[k - Len(v)]
  BY <1>1, Appending, VectorDomain
<1>3. CASE i \in 1..Len(v) /\ j \in 1..Len(v)
  BY <1>2, <1>3 DEF Distinct
<1>4. CASE i \notin 1..Len(v) /\ j \notin 1..Len(v)
  <2>1. /\ i - Len(v) \in 1..Len(w) /\ (v \o w)[i] = w[i - Len(v)]
        /\ j - Len(v) \in 1..Len(w) /\ (v \o w)[j] = w[j - Len(v)]
    BY <1>2, <1>4
  <2>2. i - Len(v) = j - Len(v)
    BY <2>1 DEF Distinct
  <2> QED BY <1>2, <2>2
<1>5. CASE i \in 1..Len(v) /\ j \notin 1..Len(v)
  BY <1>2, <1>5 DEF Holds
<1>6. CASE i \notin 1..Len(v) /\ j \in 1..Len(v)
  BY <1>2, <1>6 DEF Holds
<1> QED BY <1>3, <1>4, <1>5, <1>6

\* Different elements replaced by what has nothing in common.
LEMMA SpreadDistinct ==
  ASSUME NEW S, NEW R, NEW g, IsRule(g, S, R), NEW v \in Seq(S), Distinct(v),
         \A x \in S : Distinct(g[x]),
         \A x, z \in S : x # z => \A y : ~ (Holds(g[x], y) /\ Holds(g[z], y))
  PROVE  Distinct(Spread(v, g))
<1> DEFINE P == {u \in Seq(S) : Distinct(u) => Distinct(Spread(u, g))}
<1>1. <<>> \in P
  BY SpreadEmpty DEF Distinct
<1>2. ASSUME NEW u \in Seq(S), u \in P, NEW x \in S PROVE Append(u, x) \in P
  <2>0. Append(u, x) \in Seq(S)
    OBVIOUS
  <2>1. PICK w \in Seq(S) : w = Append(u, x)
    BY <2>0
  <2> SUFFICES ASSUME Distinct(w) PROVE Distinct(Spread(w, g))
    BY <2>1
  <2>2. /\ Len(w) = Len(u) + 1 /\ Len(u) \in Nat /\ w[Len(u) + 1] = x
        /\ \A k \in 1..Len(u) : w[k] = u[k] /\ u[k] \in S
    BY <2>1
  <2>3. Distinct(u)
    <3>1. \A k \in 1..Len(u) : k \in 1..Len(w)
      BY <2>2
    <3> QED BY <2>2, <3>1 DEF Distinct
  <2>4. \A k \in 1..Len(u) : u[k] # x
    <3>1. \A k \in 1..Len(u) : k \in 1..Len(w) /\ k # Len(u) + 1
      BY <2>2
    <3>2. Len(u) + 1 \in 1..Len(w)
      BY <2>2
    <3> QED BY <2>2, <3>1, <3>2 DEF Distinct
  <2>5. Spread(w, g) = Spread(u, g) \o g[x] /\ Spread(u, g) \in Seq(R) /\ g[x] \in Seq(R)
    <3>1. Spread(Append(u, x), g) = Spread(u, g) \o g[x] /\ Spread(u, g) \in Seq(R)
      BY SpreadAppend
    <3> QED BY <2>1, <3>1 DEF IsRule
  <2>6. \A y : Holds(Spread(u, g), y) <=> \E k \in 1..Len(u) : Holds(g[u[k]], y)
    BY SpreadHolds
  <2>7. \A y : ~ (Holds(Spread(u, g), y) /\ Holds(g[x], y))
    BY <2>2, <2>4, <2>6
  <2>8. Distinct(Spread(u, g)) /\ Distinct(g[x])
    BY <1>2, <2>3
  <2>9. Distinct(Spread(u, g) \o g[x])
    BY <2>5, <2>7, <2>8, DistinctJoined
  <2> QED BY <2>5, <2>9
<1> HIDE DEF P
<1>3. Seq(S) \subseteq P
  BY <1>1, <1>2, SequenceInduction
<1> QED BY <1>3 DEF P

------------------------------------------------------------------------------
\* The elements of a sequence that are in T, in their order.
KeptIn(v, T) == FlattenSeq([k \in DOMAIN v |-> IF v[k] \in T THEN <<v[k]>> ELSE <<>>])

LEMMA KeptAsSpread ==
  ASSUME NEW S, NEW T
  PROVE  \E g : /\ IsRule(g, S, S)
                /\ \A x \in S : g[x] = IF x \in T THEN <<x>> ELSE <<>>
                /\ \A v \in Seq(S) : KeptIn(v, T) = Spread(v, g)
<1> DEFINE g == [x \in S |-> IF x \in T THEN <<x>> ELSE <<>>]
<1>1. IsRule(g, S, S)
  BY DEF IsRule
<1>2. ASSUME NEW v \in Seq(S) PROVE KeptIn(v, T) = Spread(v, g)
  <2>1. \A k \in DOMAIN v : v[k] \in S
    OBVIOUS
  <2>2. [k \in DOMAIN v |-> IF v[k] \in T THEN <<v[k]>> ELSE <<>>] = [k \in DOMAIN v |-> g[v[k]]]
    BY <2>1
  <2> HIDE DEF g
  <2> QED BY <2>2 DEF KeptIn, Spread
<1> QED BY <1>1, <1>2

LEMMA KeptJoined ==
  ASSUME NEW S, NEW T, NEW v \in Seq(S), NEW w \in Seq(S)
  PROVE  /\ KeptIn(v, T) \in Seq(S)
         /\ KeptIn(v \o w, T) = KeptIn(v, T) \o KeptIn(w, T)
<1>1. PICK g : /\ IsRule(g, S, S)
               /\ \A u \in Seq(S) : KeptIn(u, T) = Spread(u, g)
  BY KeptAsSpread
<1>2. Spread(v, g) \in Seq(S) /\ Spread(v \o w, g) = Spread(v, g) \o Spread(w, g)
  <2>1. IsRule(g, S, S)
    BY <1>1
  <2>2. Spread(v, g) \in Seq(S)
    BY <2>1, SpreadJoined
  <2> QED BY <2>1, <2>2, SpreadOfAll
<1>3. v \o w \in Seq(S)
  OBVIOUS
<1> QED BY <1>1, <1>2, <1>3

LEMMA KeptOne ==
  ASSUME NEW S, NEW T, NEW x \in S
  PROVE  KeptIn(<<x>>, T) = IF x \in T THEN <<x>> ELSE <<>>
<1>1. PICK g : /\ IsRule(g, S, S)
               /\ \A z \in S : g[z] = IF z \in T THEN <<z>> ELSE <<>>
               /\ \A u \in Seq(S) : KeptIn(u, T) = Spread(u, g)
  BY KeptAsSpread
<1>2. Spread(<<x>>, g) = g[x]
  BY <1>1, SpreadOne
<1>3. <<x>> \in Seq(S)
  OBVIOUS
<1> QED BY <1>1, <1>2, <1>3

LEMMA KeptAll ==
  ASSUME NEW S, NEW T, NEW v \in Seq(S)
  PROVE  /\ S \subseteq T => KeptIn(v, T) = v
         /\ S \cap T = {} => KeptIn(v, T) = <<>>
<1>1. PICK g : /\ IsRule(g, S, S)
               /\ \A z \in S : g[z] = IF z \in T THEN <<z>> ELSE <<>>
               /\ \A u \in Seq(S) : KeptIn(u, T) = Spread(u, g)
  BY KeptAsSpread
<1>2. /\ (\A x \in S : g[x] = <<x>>) => Spread(v, g) = v
      /\ (\A x \in S : g[x] = <<>>) => Spread(v, g) = <<>>
  BY <1>1, SpreadKeeps
<1> QED BY <1>1, <1>2

LEMMA KeptHolds ==
  ASSUME NEW S, NEW T, NEW v \in Seq(S)
  PROVE  \A y : Holds(KeptIn(v, T), y) <=> Holds(v, y) /\ y \in T
<1>1. PICK g : /\ IsRule(g, S, S)
               /\ \A z \in S : g[z] = IF z \in T THEN <<z>> ELSE <<>>
               /\ \A u \in Seq(S) : KeptIn(u, T) = Spread(u, g)
  BY KeptAsSpread
<1>2. \A y : Holds(Spread(v, g), y) <=> \E k \in 1..Len(v) : Holds(g[v[k]], y)
  BY <1>1, SpreadHolds
<1>3. \A k \in 1..Len(v) : v[k] \in S
  OBVIOUS
<1>4. ASSUME NEW z \in S, NEW y PROVE Holds(g[z], y) <=> z = y /\ y \in T
  <2>1. \A x, c : Holds(<<x>>, c) <=> x = c
    BY DEF Holds
  <2>2. ~ Holds(<<>>, y)
    BY DEF Holds
  <2>3. g[z] = IF z \in T THEN <<z>> ELSE <<>>
    BY <1>1
  <2>4. CASE z \in T
    BY <2>1, <2>3, <2>4
  <2>5. CASE z \notin T
    BY <2>2, <2>3, <2>5
  <2> QED BY <2>4, <2>5
<1>5. ASSUME NEW y PROVE (\E k \in 1..Len(v) : Holds(g[v[k]], y)) <=> Holds(v, y) /\ y \in T
  BY <1>3, <1>4 DEF Holds
<1>6. KeptIn(v, T) = Spread(v, g)
  BY <1>1
<1> QED BY <1>2, <1>5, <1>6

\* What a replacement adds outside T is not seen by what keeps T only.
LEMMA KeptOfSpread ==
  ASSUME NEW S, NEW T, NEW g, IsRule(g, S, S), NEW v \in Seq(S),
         \A x \in S : KeptIn(g[x], T) = IF x \in T THEN <<x>> ELSE <<>>
  PROVE  KeptIn(Spread(v, g), T) = KeptIn(v, T)
<1>1. PICK h : /\ IsRule(h, S, S)
               /\ \A z \in S : h[z] = IF z \in T THEN <<z>> ELSE <<>>
               /\ \A u \in Seq(S) : KeptIn(u, T) = Spread(u, h)
  BY KeptAsSpread
<1>2. \A x \in S : Spread(g[x], h) = h[x]
  BY <1>1 DEF IsRule
<1>3. Spread(Spread(v, g), h) = Spread(v, h)
  BY <1>1, <1>2, SpreadTwice
<1>4. Spread(v, g) \in Seq(S)
  BY SpreadJoined
<1> QED BY <1>1, <1>3, <1>4

------------------------------------------------------------------------------
\* A concatenation cut where its parts meet.
LEMMA CutBetween ==
  ASSUME NEW S, NEW v \in Seq(S), NEW w \in Seq(S), NEW u, u = v \o w, NEW n, n = Len(v)
  PROVE  /\ u \in Seq(S) /\ n \in Nat
         /\ SubSeq(u, 1, n) = v /\ SubSeq(u, n + 1, Len(u)) = w
<1>1. u \in Seq(S) /\ Len(u) = n + Len(w) /\ n \in Nat /\ Len(w) \in Nat
  OBVIOUS
<1>2. SubSeq(u, 1, n) = v
  <2>1. SubSeq(u, 1, n) \in Seq(S) /\ Len(SubSeq(u, 1, n)) = n
    BY <1>1
  <2>2. ASSUME NEW i \in 1..n PROVE SubSeq(u, 1, n)[i] = v[i]
    BY <1>1
  <2> QED BY <2>1, <2>2, SeqEqual
<1>3. SubSeq(u, n + 1, Len(u)) = w
  <2>1. SubSeq(u, n + 1, Len(u)) \in Seq(S) /\ Len(SubSeq(u, n + 1, Len(u))) = Len(w)
    BY <1>1
  <2>2. ASSUME NEW i \in 1..Len(w) PROVE SubSeq(u, n + 1, Len(u))[i] = w[i]
    <3>1. SubSeq(u, n + 1, Len(u))[i] = u[n + i]
      BY <1>1
    <3>2. u[n + i] = w[i]
      BY <1>1
    <3> QED BY <3>1, <3>2
  <2> QED BY <2>1, <2>2, SeqEqual
<1> QED BY <1>1, <1>2, <1>3

\* A sequence is what is up to a place and what is behind it: v, a sequence over
\* S, is a followed by c, and a has n elements.
AreParts(S, v, n, a, c) ==
  /\ a \in Seq(S) /\ c \in Seq(S) /\ Len(a) = n /\ Len(c) = Len(v) - n
  /\ \A i \in 1..n : a[i] = v[i]
  /\ \A i \in 1..(Len(v) - n) : c[i] = v[n + i]
  /\ v = a \o c

LEMMA PartsOfCut ==
  ASSUME NEW S, NEW v \in Seq(S), NEW n \in 0..Len(v)
  PROVE  AreParts(S, v, n, SubSeq(v, 1, n), SubSeq(v, n + 1, Len(v)))
<1>1. SubSeq(v, 1, n) \in Seq(S) /\ Len(SubSeq(v, 1, n)) = n
  OBVIOUS
<1>2. SubSeq(v, n + 1, Len(v)) \in Seq(S) /\ Len(SubSeq(v, n + 1, Len(v))) = Len(v) - n
  OBVIOUS
<1>7. \A i \in 1..n : SubSeq(v, 1, n)[i] = v[i]
  OBVIOUS
<1>8. \A i \in 1..(Len(v) - n) : SubSeq(v, n + 1, Len(v))[i] = v[n + i]
  OBVIOUS
<1>3. PICK a \in Seq(S), c \in Seq(S) : a = SubSeq(v, 1, n) /\ c = SubSeq(v, n + 1, Len(v))
  BY <1>1, <1>2
<1>0. /\ Len(a) = n /\ Len(c) = Len(v) - n
      /\ \A i \in 1..n : a[i] = v[i]
      /\ \A i \in (n + 1)..Len(v) : i - n \in 1..Len(c) /\ c[i - n] = v[i]
  BY <1>1, <1>2, <1>3
<1>4. /\ a \o c \in Seq(S) /\ Len(a \o c) = Len(v)
      /\ \A i \in 1..n : (a \o c)[i] = a[i]
      /\ \A i \in (n + 1)..Len(v) : (a \o c)[i] = c[i - n]
  <2>1. n \in Nat /\ Len(v) \in Nat
    OBVIOUS
  <2> QED BY <1>0, <2>1, ConcatProperties
<1>5. ASSUME NEW i \in 1..Len(v) PROVE v[i] = (a \o c)[i]
  <2>1. i \in 1..n \/ i \in (n + 1)..Len(v)
    OBVIOUS
  <2> QED BY <1>0, <1>4, <2>1
<1>6. v = a \o c
  BY <1>4, <1>5, SeqEqual
<1> QED BY <1>1, <1>2, <1>3, <1>6, <1>7, <1>8 DEF AreParts

LEMMA JoinCut ==
  ASSUME NEW S, NEW v \in Seq(S), NEW n \in 0..Len(v)
  PROVE  /\ SubSeq(v, 1, n) \in Seq(S) /\ SubSeq(v, n + 1, Len(v)) \in Seq(S)
         /\ Len(SubSeq(v, 1, n)) = n /\ Len(SubSeq(v, n + 1, Len(v))) = Len(v) - n
         /\ \A i \in 1..n : SubSeq(v, 1, n)[i] = v[i]
         /\ \A i \in 1..(Len(v) - n) : SubSeq(v, n + 1, Len(v))[i] = v[n + i]
         /\ v = SubSeq(v, 1, n) \o SubSeq(v, n + 1, Len(v))
<1>1. AreParts(S, v, n, SubSeq(v, 1, n), SubSeq(v, n + 1, Len(v)))
  BY PartsOfCut
<1> QED BY <1>1, Zenon DEF AreParts

\* Only what the rule has for the elements of the sequence matters.
LEMMA SpreadAgrees ==
  ASSUME NEW S, NEW v \in Seq(S), NEW g, NEW h, \A x \in S : g[x] = h[x]
  PROVE  Spread(v, g) = Spread(v, h)
<1>1. \A k \in DOMAIN v : v[k] \in S
  OBVIOUS
<1>2. [k \in DOMAIN v |-> g[v[k]]] = [k \in DOMAIN v |-> h[v[k]]]
  BY <1>1
<1> QED BY <1>2 DEF Spread

LEMMA SpreadKeepsThese ==
  ASSUME NEW S, NEW v \in Seq(S), NEW g, \A x \in S : g[x] = <<x>>
  PROVE  Spread(v, g) = v
<1> DEFINE h == [x \in S |-> <<x>>]
<1>1. IsRule(h, S, S) /\ \A x \in S : h[x] = <<x>>
  BY DEF IsRule
<1>2. \A x \in S : g[x] = h[x]
  BY <1>1
<1> HIDE DEF h
<1>3. Spread(v, h) = v
  BY <1>1, SpreadKeeps
<1>4. Spread(v, g) = Spread(v, h)
  BY <1>2, SpreadAgrees
<1> QED BY <1>3, <1>4

\* Concatenation, as an operator whose definition the provers need not see.
Join(v, w) == v \o w

\* A place to cut at, and the two parts.
IsCut(v, n, a, c) ==
  /\ v = Join(a, c) /\ Len(a) = n /\ Len(c) = Len(v) - n
  /\ \A i \in 1..n : a[i] = v[i]
  /\ \A i \in 1..(Len(v) - n) : c[i] = v[n + i]
IsPlaceIn(v, n) == n \in 0..Len(v)

LEMMA CutAt ==
  ASSUME NEW S, NEW v \in Seq(S), NEW n, IsPlaceIn(v, n)
  PROVE  \E a, c \in Seq(S) : IsCut(v, n, a, c)
<1> DEFINE a == SubSeq(v, 1, n)
           c == SubSeq(v, n + 1, Len(v))
<1>0. n \in 0..Len(v)
  BY DEF IsPlaceIn
<1>1. AreParts(S, v, n, a, c)
  BY <1>0, PartsOfCut
<1> HIDE DEF a, c
<1> QED BY <1>1 DEF AreParts, IsCut, Join

------------------------------------------------------------------------------
\* Both parts are over S and u is one behind the other.
IsJoin(S, v, w, u) == v \in Seq(S) /\ w \in Seq(S) /\ u = Join(v, w)

LEMMA JoinType ==
  ASSUME NEW S
  PROVE  \A v, w \in Seq(S) : Join(v, w) \in Seq(S)
BY DEF Join

LEMMA JoinEmpty ==
  ASSUME NEW S
  PROVE  \A v \in Seq(S) : Join(v, <<>>) = v /\ Join(<<>>, v) = v
BY DEF Join

LEMMA ShortSequences ==
  ASSUME NEW S
  PROVE  <<>> \in Seq(S) /\ \A x \in S : <<x>> \in Seq(S)
OBVIOUS

LEMMA JoinAssociative ==
  ASSUME NEW S
  PROVE  \A v, w, u \in Seq(S) : Join(Join(v, w), u) = Join(v, Join(w, u))
BY ConcatAssociative, SMTT(30) DEF Join

\* The elements of a concatenation.
LEMMA JoinParts ==
  ASSUME NEW S, NEW v, NEW w, NEW u, IsJoin(S, v, w, u)
  PROVE  /\ IsVector(u) /\ Len(u) = Len(v) + Len(w) /\ Len(v) \in Nat /\ Len(w) \in Nat
         /\ \A k \in 1..Len(v) : k \in 1..Len(u) /\ u[k] = v[k]
         /\ \A k \in 1..Len(w) : Len(v) + k \in 1..Len(u) /\ u[Len(v) + k] = w[k]
         /\ \A k \in 1..Len(u) :
              \/ k \in 1..Len(v) /\ u[k] = v[k]
              \/ k - Len(v) \in 1..Len(w) /\ u[k] = w[k - Len(v)]
<1>0. v \in Seq(S) /\ w \in Seq(S) /\ u = Join(v, w)
  BY DEF IsJoin
<1>1. IsVector(v) /\ IsVector(w)
  BY <1>0, VectorOf
<1>2. /\ IsVector(v \o w) /\ Len(v \o w) = Len(v) + Len(w)
      /\ \A k \in 1..Len(v) : (v \o w)[k] = v[k]
      /\ \A k \in 1..Len(w) : (v \o w)[Len(v) + k] = w[k]
      /\ \A k \in 1..Len(v \o w) :
           \/ k \in 1..Len(v)
           \/ k - Len(v) \in 1..Len(w) /\ (v \o w)[k] = w[k - Len(v)]
  BY <1>1, Appending
<1>3. u = v \o w
  BY <1>0 DEF Join
<1>4. Len(v) \in Nat /\ Len(w) \in Nat
  BY <1>0
<1>5. /\ \A k \in 1..Len(v) : k \in 1..(Len(v) + Len(w))
      /\ \A k \in 1..Len(w) : Len(v) + k \in 1..(Len(v) + Len(w))
  BY <1>4
<1> QED BY <1>2, <1>3, <1>4, <1>5

IsJoinAt(S, v, w, u, n) == IsJoin(S, v, w, u) /\ n = Len(v)
Upto(v, n) == SubSeq(v, 1, n)
After(v, n) == SubSeq(v, n + 1, Len(v))

LEMMA CutJoin ==
  ASSUME NEW S, NEW v, NEW w, NEW u, NEW n, IsJoinAt(S, v, w, u, n)
  PROVE  Upto(u, n) = v /\ After(u, n) = w
BY CutBetween DEF Join, IsJoin, IsJoinAt, Upto, After

LEMMA HoldsOfJoin ==
  ASSUME NEW S
  PROVE  \A v, w \in Seq(S) : \A y : Holds(Join(v, w), y) <=> Holds(v, y) \/ Holds(w, y)
BY HoldsJoined DEF Join

LEMMA SpreadOfJoin ==
  ASSUME NEW S, NEW R, NEW g, IsRule(g, S, R)
  PROVE  \A v, w \in Seq(S) : Spread(Join(v, w), g) = Join(Spread(v, g), Spread(w, g))
BY SpreadOfAll DEF Join

LEMMA SpreadType ==
  ASSUME NEW S, NEW R, NEW g, IsRule(g, S, R)
  PROVE  \A v \in Seq(S) : Spread(v, g) \in Seq(R)
BY SpreadJoined

LEMMA KeptOfJoin ==
  ASSUME NEW S
  PROVE  \A T : \A v, w \in Seq(S) : KeptIn(Join(v, w), T) = Join(KeptIn(v, T), KeptIn(w, T))
<1> SUFFICES ASSUME NEW T
             PROVE  \A v, w \in Seq(S) : KeptIn(Join(v, w), T) = Join(KeptIn(v, T), KeptIn(w, T))
  OBVIOUS
<1>1. PICK g : /\ IsRule(g, S, S)
               /\ \A u \in Seq(S) : KeptIn(u, T) = Spread(u, g)
  BY KeptAsSpread
<1>2. \A v, w \in Seq(S) : Spread(Join(v, w), g) = Join(Spread(v, g), Spread(w, g))
  BY <1>1, SpreadOfJoin
<1>3. \A v, w \in Seq(S) : Join(v, w) \in Seq(S)
  BY JoinType
<1> QED BY <1>1, <1>2, <1>3


------------------------------------------------------------------------------
\* A sequence over S with an element behind it.
IsEndedBy(S, a, x, v) == a \in Seq(S) /\ x \in S /\ v = Join(a, <<x>>)

LEMMA Ending ==
  ASSUME NEW S, NEW a, NEW x, NEW v, IsEndedBy(S, a, x, v)
  PROVE  Last(v) = x /\ Front(v) = a /\ v \in Seq(S) /\ v # <<>>
<1>1. a \in Seq(S) /\ x \in S /\ v = a \o <<x>>
  BY DEF IsEndedBy, Join
<1>2. PICK last : last = <<x>>
  OBVIOUS
<1>3. last \in Seq(S) /\ Len(last) = 1 /\ last[1] = x
  BY <1>1, <1>2
<1>4. IsJoinAt(S, a, last, v, Len(a))
  BY <1>1, <1>2, <1>3 DEF IsJoinAt, IsJoin, Join
<1>5. Upto(v, Len(a)) = a
  BY <1>4, CutJoin
<1>6. IsJoin(S, a, last, v)
  BY <1>4 DEF IsJoinAt
<1>7. /\ IsVector(v) /\ Len(v) = Len(a) + Len(last) /\ Len(a) \in Nat
      /\ v[Len(a) + 1] = last[1]
  <2>1. /\ IsVector(v) /\ Len(v) = Len(a) + Len(last) /\ Len(a) \in Nat
        /\ \A k \in 1..Len(last) : v[Len(a) + k] = last[k]
    BY <1>6, JoinParts
  <2>2. 1 \in 1..Len(last)
    BY <1>3
  <2> QED BY <2>1, <2>2
<1>8. Len(v) = Len(a) + 1 /\ Len(v) - 1 = Len(a)
  BY <1>3, <1>7
<1>9. Last(v) = x
  BY <1>3, <1>7, <1>8 DEF Last
<1>10. Front(v) = a
  BY <1>5, <1>8 DEF Front, Upto
<1>11. v \in Seq(S)
  BY <1>1
<1>12. v # <<>>
  <2>1. Len(v) # 0
    BY <1>7, <1>8
  <2> QED BY <2>1
<1> QED BY <1>9, <1>10, <1>11, <1>12

LEMMA AppendIsJoin ==
  ASSUME NEW S
  PROVE  \A v \in Seq(S) : \A x \in S : Append(v, x) = Join(v, <<x>>)
BY DEF Join

\* A vector with a new element at i and one more at its end.
IsGrown(v, i, x, y, u) ==
  IsVector(v) /\ i \in 1..Len(v) /\ u = Append([v EXCEPT ![i] = x], y)

LEMMA Growing ==
  ASSUME NEW v, NEW i, NEW x, NEW y, NEW u, IsGrown(v, i, x, y, u)
  PROVE  /\ IsVector(u) /\ Len(u) = Len(v) + 1 /\ Len(v) \in Nat
         /\ u[i] = x /\ u[Len(v) + 1] = y
         /\ \A k \in 1..Len(v) : k # i => u[k] = v[k]
<1>1. IsVector(v) /\ i \in 1..Len(v) /\ u = Append([v EXCEPT ![i] = x], y)
  BY DEF IsGrown
<1>2. Len(v) \in Nat /\ DOMAIN v = 1..Len(v) /\ v \in Seq(ToSet(v))
  BY <1>1, VectorDomain DEF IsVector
<1>3. PICK w : w = [v EXCEPT ![i] = x]
  OBVIOUS
<1> DEFINE T == ToSet(v) \cup {x, y}
<1>4. w \in [1..Len(v) -> T] /\ w[i] = x /\ \A k \in 1..Len(v) : k # i => w[k] = v[k]
  <2>1. \A k \in 1..Len(v) : v[k] \in T
    BY <1>2
  <2>2. v \in [1..Len(v) -> T]
    BY <1>2, <2>1
  <2> QED BY <1>1, <1>2, <1>3, <2>2
<1> HIDE DEF T
<1>5. w \in Seq(T) /\ Len(w) = Len(v)
  BY <1>2, <1>4
<1>6. y \in T
  BY DEF T
<1>7. u = Append(w, y)
  BY <1>1, <1>3
<1>8. u \in Seq(T) /\ Len(u) = Len(v) + 1 /\ u[Len(v) + 1] = y
  BY <1>5, <1>6, <1>7
<1>9. \A k \in 1..Len(v) : u[k] = w[k]
  BY <1>5, <1>6, <1>7
<1>10. IsVector(u)
  BY <1>8, VectorOf
<1> QED BY <1>1, <1>2, <1>4, <1>8, <1>9, <1>10


LEMMA KeptDistinct ==
  ASSUME NEW S, NEW T, NEW v \in Seq(S), Distinct(v)
  PROVE  Distinct(KeptIn(v, T))
<1>1. PICK g : /\ IsRule(g, S, S)
               /\ \A z \in S : g[z] = IF z \in T THEN <<z>> ELSE <<>>
               /\ \A u \in Seq(S) : KeptIn(u, T) = Spread(u, g)
  BY KeptAsSpread
<1>2. ASSUME NEW x \in S
      PROVE  Distinct(g[x]) /\ \A y : Holds(g[x], y) => y = x
  <2>1. PICK s : s = g[x]
    OBVIOUS
  <2>2. \A i \in 1..Len(s) : i = 1 /\ s[i] = x
    <3>1. CASE x \in T
      <4>1. s = <<x>>
        BY <1>1, <2>1, <3>1
      <4> QED BY <4>1
    <3>2. CASE x \notin T
      <4>1. s = <<>>
        BY <1>1, <2>1, <3>2
      <4> QED BY <4>1
    <3> QED BY <3>1, <3>2
  <2> QED BY <2>1, <2>2 DEF Distinct, Holds
<1>3. \A x, z \in S : x # z => \A y : ~ (Holds(g[x], y) /\ Holds(g[z], y))
  BY <1>2
<1>4. Distinct(Spread(v, g))
  BY <1>1, <1>2, <1>3, SpreadDistinct
<1> QED BY <1>1, <1>4


\* The first of the elements of a sequence that has nothing twice, and the others.
LEMMA FirstOfDistinct ==
  ASSUME NEW S, NEW v \in Seq(S), v # <<>>, Distinct(v)
  PROVE  /\ Head(v) \in S /\ Holds(v, Head(v))
         /\ Tail(v) \in Seq(S) /\ Distinct(Tail(v)) /\ ~ Holds(Tail(v), Head(v))
         /\ \A y : Holds(v, y) <=> y = Head(v) \/ Holds(Tail(v), y)
<1>1. PICK w, n : w = Tail(v) /\ n = Len(v)
  OBVIOUS
<1>2. /\ n \in Nat \ {0} /\ w \in Seq(S) /\ Len(w) = n - 1 /\ Head(v) = v[1]
      /\ \A k \in 1..(n - 1) : w[k] = v[k + 1]
      /\ \A k \in 1..n : v[k] \in S
  BY <1>1
<1>3. \A k \in 1..n : k = 1 \/ (k - 1 \in 1..(n - 1) /\ w[k - 1] = v[k])
  BY <1>2
<1>4. \A k \in 1..(n - 1) : k + 1 \in 1..n /\ k + 1 # 1
  BY <1>2
<1>5. 1 \in 1..n
  BY <1>2
<1>6. \A i, j \in 1..n : v[i] = v[j] => i = j
  BY <1>1 DEF Distinct
<1>7. \A y : Holds(v, y) <=> y = v[1] \/ Holds(w, y)
  BY <1>1, <1>2, <1>3, <1>4, <1>5 DEF Holds
<1>8. ~ Holds(w, v[1])
  BY <1>2, <1>4, <1>5, <1>6 DEF Holds
<1>9. Distinct(w)
  <2> SUFFICES ASSUME NEW i \in 1..(n - 1), NEW j \in 1..(n - 1), w[i] = w[j] PROVE i = j
    BY <1>2 DEF Distinct
  <2>1. i + 1 = j + 1
    BY <1>2, <1>4, <1>6
  <2> QED BY <1>2, <2>1
<1>10. Holds(v, v[1])
  BY <1>1, <1>5 DEF Holds
<1> QED BY <1>1, <1>2, <1>5, <1>7, <1>8, <1>9, <1>10


LEMMA PairIsJoin ==
  ASSUME NEW S, NEW x \in S, NEW y \in S
  PROVE  <<x, y>> = Join(<<x>>, <<y>>)
<1>1. PICK v, w : v = <<x>> /\ w = <<y>>
  OBVIOUS
<1>2. v \in Seq(S)
  BY <1>1, ShortSequences
<1>3. Append(v, y) = Join(v, w)
  BY <1>1, <1>2, AppendIsJoin
<1>4. PICK p, q : p = Append(v, y) /\ q = <<x, y>>
  OBVIOUS
<1>5. Len(v) = 1 /\ v[1] = x
  BY <1>1
<1>6. p \in Seq(S) /\ Len(p) = 2 /\ p[1] = x /\ p[2] = y
  BY <1>2, <1>4, <1>5
<1>7. q \in Seq(S) /\ Len(q) = 2 /\ q[1] = x /\ q[2] = y
  BY <1>4
<1>8. \A k \in 1..2 : p[k] = q[k]
  BY <1>6, <1>7
<1>9. p = [k \in 1..2 |-> p[k]] /\ q = [k \in 1..2 |-> q[k]]
  BY <1>6, <1>7
<1>10. p = q
  BY <1>8, <1>9
<1> QED BY <1>1, <1>3, <1>4, <1>10


------------------------------------------------------------------------------
(***************************************************************************)
(* Sums over finite sets.                                                  *)
(***************************************************************************)
Pick(s) == CHOOSE x \in s : TRUE

\* g holds the sum of f over every subset of S.
SumStep(f, g, s) == IF s = {} THEN 0 ELSE f[Pick(s)] + g[s \ {Pick(s)}]
IsSum(f, S, g) == g = [s \in SUBSET S |-> SumStep(f, g, s)]

Total(f) == FoldFunction(+, 0, f)

\* FoldFunction adds up what such a g holds.
LEMMA FoldIsSum ==
  ASSUME NEW f
  PROVE  Total(f) = (CHOOSE sum : IsSum(f, DOMAIN f, sum))[DOMAIN f]
BY Zenon DEF Total, FoldFunction, FoldFunctionOnSet, MapThenFoldSet, IsSum, SumStep, Pick

LEMMA PickIn ==
  ASSUME NEW s, s # {}
  PROVE  Pick(s) \in s
BY DEF Pick

\* The sums exist.
LEMMA SumExists ==
  ASSUME NEW f, NEW S, IsFiniteSet(S)
  PROVE  \E g : IsSum(f, S, g)
<1> DEFINE D(n) == {s \in SUBSET S : Cardinality(s) <= n}
           Sums(g, n) == g = [s \in D(n) |-> SumStep(f, g, s)]
           N == {n \in Nat : \E g : Sums(g, n)}
<1>1. \A s \in SUBSET S : IsFiniteSet(s) /\ Cardinality(s) \in Nat
  BY FS_Subset, FS_CardinalityType
<1>2. \A s \in SUBSET S : s # {} => /\ s \ {Pick(s)} \in SUBSET S
                                    /\ Cardinality(s \ {Pick(s)}) = Cardinality(s) - 1
                                    /\ Cardinality(s) # 0
  BY <1>1, PickIn, FS_RemoveElement, FS_EmptySet
<1>3. 0 \in N
  <2> DEFINE g == [s \in D(0) |-> 0]
  <2>1. ASSUME NEW s \in D(0) PROVE s = {}
    <3>1. s \in SUBSET S /\ Cardinality(s) <= 0
      OBVIOUS
    <3>2. Cardinality(s) = 0
      BY <1>1, <3>1
    <3> QED BY <1>2, <3>1, <3>2
  <2>2. \A s \in D(0) : SumStep(f, g, s) = 0
    BY <2>1 DEF SumStep
  <2>3. Sums(g, 0)
    BY <2>2
  <2> QED BY <2>3
<1>4. ASSUME NEW n \in N PROVE n + 1 \in N
  <2>1. PICK g : Sums(g, n)
    OBVIOUS
  <2> DEFINE h == [s \in D(n + 1) |-> SumStep(f, g, s)]
  <2>2. ASSUME NEW s \in D(n + 1) PROVE SumStep(f, h, s) = SumStep(f, g, s)
    <3>1. CASE s = {}
      BY <3>1 DEF SumStep
    <3>2. CASE s # {}
      <4>1. PICK r : r = s \ {Pick(s)}
        OBVIOUS
      <4>2. r \in SUBSET S /\ Cardinality(r) <= n
        BY <1>1, <1>2, <3>2, <4>1
      <4>3. r \in D(n) /\ r \in D(n + 1)
        BY <1>1, <4>2
      <4>4. h[r] = g[r]
        BY <2>1, <4>3
      <4> QED BY <3>2, <4>1, <4>4 DEF SumStep
    <3> QED BY <3>1, <3>2
  <2>3. Sums(h, n + 1)
    BY <2>2
  <2>4. n + 1 \in Nat
    OBVIOUS
  <2> HIDE DEF Sums, h
  <2> QED BY <2>3, <2>4
<1>5. N = Nat
  <2> HIDE DEF D, Sums
  <2>1. N \subseteq Nat
    OBVIOUS
  <2> QED BY <1>3, <1>4, <2>1, SetInduction
<1>6. PICK n \in Nat : n = Cardinality(S)
  BY FS_CardinalityType
<1>7. D(n) = SUBSET S
  BY <1>1, <1>6, FS_Subset
<1>8. PICK g : Sums(g, n)
  BY <1>5
<1> QED BY <1>7, <1>8 DEF IsSum

\* Sums of natural numbers are natural numbers; of two functions whose values are
\* the same but at one place, the sums differ as they do there.
LEMMA SumsDiffer ==
  ASSUME NEW f, NEW d, NEW S, IsFiniteSet(S), NEW g, NEW h, IsSum(f, S, g), IsSum(d, S, h),
         NEW b \in S, NEW n \in Nat,
         \A x \in S : f[x] \in Nat /\ d[x] = IF x = b THEN f[x] + n ELSE f[x]
  PROVE  \A s \in SUBSET S : g[s] \in Nat /\ h[s] = IF b \in s THEN g[s] + n ELSE g[s]
<1> DEFINE OK(s) == g[s] \in Nat /\ h[s] = IF b \in s THEN g[s] + n ELSE g[s]
           N == {k \in Nat : \A s \in SUBSET S : Cardinality(s) = k => OK(s)}
<1>1. \A s \in SUBSET S : IsFiniteSet(s) /\ Cardinality(s) \in Nat
  BY FS_Subset, FS_CardinalityType
<1>2. \A s \in SUBSET S : g[s] = SumStep(f, g, s) /\ h[s] = SumStep(d, h, s)
  BY DEF IsSum
<1>3. 0 \in N
  <2>1. ASSUME NEW s \in SUBSET S, Cardinality(s) = 0 PROVE OK(s)
    <3>1. s = {}
      BY <1>1, <2>1, FS_EmptySet
    <3> QED BY <1>2, <3>1 DEF SumStep
  <2> QED BY <2>1
<1>4. ASSUME NEW k \in N PROVE k + 1 \in N
  <2>1. ASSUME NEW s \in SUBSET S, Cardinality(s) = k + 1 PROVE OK(s)
    <3>1. s # {}
      <4>1. k + 1 # 0 /\ Cardinality({}) = 0
        BY FS_EmptySet
      <4> QED BY <2>1, <4>1
    <3>2. PICK x, r : x = Pick(s) /\ r = s \ {x}
      OBVIOUS
    <3>3. x \in s /\ x \in S /\ r \in SUBSET S
      BY <3>1, <3>2, PickIn
    <3>4. Cardinality(r) = k
      <4>1. Cardinality(r) = Cardinality(s) - 1
        BY <1>1, <3>2, <3>3, FS_RemoveElement
      <4> QED BY <2>1, <4>1
    <3>5. OK(r)
      BY <3>3, <3>4
    <3>6. g[s] = f[x] + g[r] /\ h[s] = d[x] + h[r]
      BY <1>2, <3>1, <3>2 DEF SumStep
    <3>7. f[x] \in Nat /\ d[x] = IF x = b THEN f[x] + n ELSE f[x]
      BY <3>3
    <3>8. b \in s <=> (b = x \/ b \in r)
      BY <3>2, <3>3
    <3>9. x \notin r
      BY <3>2
    <3> HIDE DEF N
    <3> QED BY <3>5, <3>6, <3>7, <3>8, <3>9
  <2> QED BY <2>1
<1>5. N = Nat
  <2>1. N \subseteq Nat
    OBVIOUS
  <2> HIDE DEF N
  <2> QED BY <1>3, <1>4, <2>1, SetInduction
<1> QED BY <1>1, <1>5

\* A sum grows by as much as one of its terms.
LEMMA SumGrows ==
  ASSUME NEW S, IsFiniteSet(S), NEW f \in [S -> Nat], NEW b \in S, NEW n \in Nat,
         NEW d \in [S -> Nat], d[b] = f[b] + n, \A x \in S : x # b => d[x] = f[x]
  PROVE  Total(f) \in Nat /\ Total(d) = Total(f) + n
<1>2. DOMAIN f = S /\ DOMAIN d = S
  OBVIOUS
<1>3. PICK g, h : g = (CHOOSE sum : IsSum(f, S, sum)) /\ h = (CHOOSE sum : IsSum(d, S, sum))
  OBVIOUS
<1>4. IsSum(f, S, g) /\ IsSum(d, S, h)
  BY <1>3, SumExists
<1>5. \A x \in S : f[x] \in Nat /\ d[x] = IF x = b THEN f[x] + n ELSE f[x]
  OBVIOUS
<1>6. g[S] \in Nat /\ h[S] = g[S] + n
  BY <1>4, <1>5, SumsDiffer
<1>7. Total(f) = g[S] /\ Total(d) = h[S]
  BY <1>2, <1>3, FoldIsSum
<1> QED BY <1>6, <1>7


\* The sum of nothing but 0 is 0.
LEMMA SumOfNothing ==
  ASSUME NEW S, IsFiniteSet(S), NEW f \in [S -> Nat], \A x \in S : f[x] = 0
  PROVE  Total(f) = 0
<1>1. PICK g : g = (CHOOSE sum : IsSum(f, S, sum))
  OBVIOUS
<1>2. IsSum(f, S, g)
  BY <1>1, SumExists
<1> DEFINE N == {k \in Nat : \A s \in SUBSET S : Cardinality(s) = k => g[s] = 0}
<1>3. \A s \in SUBSET S : IsFiniteSet(s) /\ Cardinality(s) \in Nat
  BY FS_Subset, FS_CardinalityType
<1>4. \A s \in SUBSET S : g[s] = SumStep(f, g, s)
  BY <1>2 DEF IsSum
<1>5. 0 \in N
  <2>1. ASSUME NEW s \in SUBSET S, Cardinality(s) = 0 PROVE g[s] = 0
    <3>1. s = {}
      BY <1>3, <2>1, FS_EmptySet
    <3> QED BY <1>4, <3>1 DEF SumStep
  <2> QED BY <2>1
<1>6. ASSUME NEW k \in N PROVE k + 1 \in N
  <2>1. ASSUME NEW s \in SUBSET S, Cardinality(s) = k + 1 PROVE g[s] = 0
    <3>1. s # {}
      <4>1. k + 1 # 0 /\ Cardinality({}) = 0
        BY FS_EmptySet
      <4> QED BY <2>1, <4>1
    <3>2. PICK x, r : x = Pick(s) /\ r = s \ {x}
      OBVIOUS
    <3>3. x \in s /\ x \in S /\ r \in SUBSET S
      BY <3>1, <3>2, PickIn
    <3>4. Cardinality(r) = k
      <4>1. Cardinality(r) = Cardinality(s) - 1
        BY <1>3, <3>2, <3>3, FS_RemoveElement
      <4> QED BY <2>1, <4>1
    <3>5. g[r] = 0
      BY <3>3, <3>4
    <3>6. g[s] = f[x] + g[r]
      BY <1>4, <3>1, <3>2 DEF SumStep
    <3> QED BY <3>3, <3>5, <3>6
  <2> QED BY <2>1
<1>7. N = Nat
  <2>1. N \subseteq Nat
    OBVIOUS
  <2> HIDE DEF N
  <2> QED BY <1>5, <1>6, <2>1, SetInduction
<1>8. g[S] = 0
  BY <1>3, <1>7
<1> QED BY <1>1, <1>8, FoldIsSum

\* A nonempty set of numbers up to n has a greatest.
LEMMA Greatest ==
  ASSUME NEW n \in Nat, NEW K, K \subseteq 1..n, K # {}
  PROVE  Max(K) \in K /\ \A k \in K : k <= Max(K)
<1> DEFINE T == {n - k : k \in K}
<1>1. T \subseteq Nat /\ T # {}
  <2>1. \A k \in K : n - k \in Nat
    OBVIOUS
  <2>2. PICK k : k \in K
    OBVIOUS
  <2>3. n - k \in T
    BY <2>2
  <2> QED BY <2>1, <2>3
<1>2. PICK x \in T : \A y \in T : x <= y
  BY <1>1, Minimum
<1>3. PICK k \in K : x = n - k
  BY <1>2
<1>4. \A j \in K : k >= j
  <2> SUFFICES ASSUME NEW j \in K PROVE k >= j
    OBVIOUS
  <2>1. x <= n - j
    BY <1>2
  <2> QED BY <1>3, <2>1
<1>5. \E m \in K : \A j \in K : m >= j
  BY <1>4
<1>6. Max(K) \in K /\ \A j \in K : Max(K) >= j
  BY <1>5, Zenon DEF Max
<1> QED BY <1>6

(***************************************************************************)
(* Sums over finite sets, and sets that have nothing in common.            *)
(***************************************************************************)
Parts(A, s) == UNION {A[x] : x \in s}
Apart(A, S) == \A x, y \in S : x # y => A[x] \cap A[y] = {}

LEMMA CountTogether ==
  ASSUME NEW P, NEW Q, IsFiniteSet(P), IsFiniteSet(Q), P \cap Q = {}
  PROVE  /\ IsFiniteSet(P \cup Q) /\ Cardinality(P) \in Nat /\ Cardinality(Q) \in Nat
         /\ Cardinality(P \cup Q) = Cardinality(P) + Cardinality(Q)
<1>1. /\ IsFiniteSet(P \cup Q)
      /\ Cardinality(P \cup Q) = Cardinality(P) + Cardinality(Q) - Cardinality(P \cap Q)
  BY FS_Union
<1>2. Cardinality(P) \in Nat /\ Cardinality(Q) \in Nat
  BY FS_CardinalityType
<1>3. Cardinality(P \cap Q) = 0
  BY FS_EmptySet
<1> QED BY <1>1, <1>2, <1>3

IsMore(S, s, x, r) == s \in SUBSET S /\ x \in s /\ r = s \ {x}

AddsPart(A, s, x, r) ==
  /\ Cardinality(Parts(A, r)) \in Nat /\ Cardinality(A[x]) \in Nat
  /\ Cardinality(Parts(A, s)) = Cardinality(Parts(A, r)) + Cardinality(A[x])

LEMMA PartsMore ==
  ASSUME NEW S, NEW T, IsFiniteSet(T), NEW A \in [S -> SUBSET T], Apart(A, S),
         NEW s, NEW x, NEW r, IsMore(S, s, x, r)
  PROVE  AddsPart(A, s, x, r)
<1>1. Parts(A, s) = Parts(A, r) \cup A[x]
  BY DEF Parts, IsMore
<1>2. Parts(A, r) \cap A[x] = {}
  BY DEF Parts, Apart, IsMore
<1>3. Parts(A, r) \in SUBSET T /\ A[x] \in SUBSET T
  BY DEF Parts, IsMore
<1>4. IsFiniteSet(Parts(A, r)) /\ IsFiniteSet(A[x])
  BY <1>3, FS_Subset
<1>5. PICK P, Q : P = Parts(A, r) /\ Q = A[x]
  OBVIOUS
<1>6. /\ Cardinality(P) \in Nat /\ Cardinality(Q) \in Nat
      /\ Cardinality(P \cup Q) = Cardinality(P) + Cardinality(Q)
  BY <1>2, <1>4, <1>5, CountTogether
<1> QED BY <1>1, <1>5, <1>6 DEF AddsPart

\* Terms that exceed those of another sum by no more than sets that have nothing
\* in common have elements.
LEMMA SumWithin ==
  ASSUME NEW S, IsFiniteSet(S), NEW T, IsFiniteSet(T), NEW A \in [S -> SUBSET T], Apart(A, S),
         NEW f \in [S -> Nat], NEW r \in [S -> Nat],
         \A x \in S : f[x] <= r[x] + Cardinality(A[x])
  PROVE  /\ Total(f) \in Nat /\ Total(r) \in Nat /\ Cardinality(Parts(A, S)) \in Nat
         /\ Total(f) <= Total(r) + Cardinality(Parts(A, S))
<1>1. PICK g, h : g = (CHOOSE sum : IsSum(f, S, sum)) /\ h = (CHOOSE sum : IsSum(r, S, sum))
  OBVIOUS
<1>2. IsSum(f, S, g) /\ IsSum(r, S, h)
  BY <1>1, SumExists
<1> DEFINE OK(s) == /\ g[s] \in Nat /\ h[s] \in Nat /\ Cardinality(Parts(A, s)) \in Nat
                    /\ g[s] <= h[s] + Cardinality(Parts(A, s))
           N == {k \in Nat : \A s \in SUBSET S : Cardinality(s) = k => OK(s)}
<1>3. \A s \in SUBSET S : IsFiniteSet(s) /\ Cardinality(s) \in Nat
  BY FS_Subset, FS_CardinalityType
<1>4. \A s \in SUBSET S : g[s] = SumStep(f, g, s) /\ h[s] = SumStep(r, h, s)
  BY <1>2 DEF IsSum
<1>5. 0 \in N
  <2>1. ASSUME NEW s \in SUBSET S, Cardinality(s) = 0 PROVE OK(s)
    <3>1. s = {}
      BY <1>3, <2>1, FS_EmptySet
    <3>2. g[s] = 0 /\ h[s] = 0
      BY <1>4, <3>1 DEF SumStep
    <3>3. Parts(A, s) = {}
      BY <3>1 DEF Parts
    <3>4. Cardinality(Parts(A, s)) = 0
      BY <3>3, FS_EmptySet
    <3> QED BY <3>2, <3>4
  <2> HIDE DEF OK
  <2> QED BY <2>1
<1>6. ASSUME NEW k \in N PROVE k + 1 \in N
  <2>1. ASSUME NEW s \in SUBSET S, Cardinality(s) = k + 1 PROVE OK(s)
    <3>1. s # {}
      <4>1. k + 1 # 0 /\ Cardinality({}) = 0
        BY FS_EmptySet
      <4> QED BY <2>1, <4>1
    <3>2. PICK x, u : x = Pick(s) /\ u = s \ {x}
      OBVIOUS
    <3>3. x \in s /\ x \in S /\ u \in SUBSET S
      BY <3>1, <3>2, PickIn
    <3>4. Cardinality(u) = k
      <4>1. Cardinality(u) = Cardinality(s) - 1
        BY <1>3, <3>2, <3>3, FS_RemoveElement
      <4> QED BY <2>1, <4>1
    <3>5. OK(u)
      BY <3>3, <3>4
    <3>6. g[s] = f[x] + g[u] /\ h[s] = r[x] + h[u]
      BY <1>4, <3>1, <3>2 DEF SumStep
    <3>7. /\ Cardinality(A[x]) \in Nat
          /\ Cardinality(Parts(A, s)) = Cardinality(Parts(A, u)) + Cardinality(A[x])
      <4>1. IsMore(S, s, x, u)
        BY <3>2, <3>3 DEF IsMore
      <4>2. AddsPart(A, s, x, u)
        BY <4>1, PartsMore
      <4> QED BY <4>2 DEF AddsPart
    <3>8. f[x] \in Nat /\ r[x] \in Nat /\ f[x] <= r[x] + Cardinality(A[x])
      BY <3>3
    <3> HIDE DEF N
    <3> QED BY <3>5, <3>6, <3>7, <3>8
  <2> HIDE DEF OK
  <2> QED BY <2>1
<1>7. N = Nat
  <2>1. N \subseteq Nat
    OBVIOUS
  <2> HIDE DEF N
  <2> QED BY <1>5, <1>6, <2>1, SetInduction
<1>8. OK(S)
  BY <1>3, <1>7
<1>9. Total(f) = g[S] /\ Total(r) = h[S]
  BY <1>1, FoldIsSum
<1> QED BY <1>8, <1>9

\* The same of a sum of nothing.
LEMMA SumOfParts ==
  ASSUME NEW S, IsFiniteSet(S), NEW T, IsFiniteSet(T), NEW A \in [S -> SUBSET T], Apart(A, S),
         NEW f \in [S -> Nat], \A x \in S : f[x] <= Cardinality(A[x])
  PROVE  /\ Total(f) \in Nat /\ Cardinality(Parts(A, S)) \in Nat /\ Cardinality(T) \in Nat
         /\ Total(f) <= Cardinality(Parts(A, S)) /\ Cardinality(Parts(A, S)) <= Cardinality(T)
<1>1. PICK z : z = [x \in S |-> 0]
  OBVIOUS
<1>2. z \in [S -> Nat] /\ \A x \in S : z[x] = 0
  BY <1>1
<1>3. Total(z) = 0
  BY <1>2, SumOfNothing
<1>4. \A x \in S : Cardinality(A[x]) \in Nat
  BY FS_Subset, FS_CardinalityType
<1>5. \A x \in S : f[x] <= z[x] + Cardinality(A[x])
  BY <1>2, <1>4
<1>6. /\ Total(f) \in Nat /\ Cardinality(Parts(A, S)) \in Nat
      /\ Total(f) <= Total(z) + Cardinality(Parts(A, S))
  BY <1>2, <1>5, SumWithin
<1>7. Parts(A, S) \in SUBSET T
  BY DEF Parts
<1>8. Cardinality(Parts(A, S)) <= Cardinality(T) /\ Cardinality(T) \in Nat
  BY <1>7, FS_Subset, FS_CardinalityType
<1> QED BY <1>3, <1>6, <1>8

\* One term of a sum, and the sum of which it is the only one.
LEMMA OneTerm ==
  ASSUME NEW S, IsFiniteSet(S), NEW f \in [S -> Nat], NEW b \in S
  PROVE  /\ Total(f) \in Nat /\ f[b] <= Total(f)
         /\ (\A x \in S : x # b => f[x] = 0) => Total(f) = f[b]
<1>1. PICK d : d = [x \in S |-> IF x = b THEN 0 ELSE f[x]]
  OBVIOUS
<1>2. d \in [S -> Nat] /\ d[b] = 0 /\ \A x \in S : x # b => f[x] = d[x]
  BY <1>1
<1>3. f[b] \in Nat /\ f[b] = d[b] + f[b]
  BY <1>2
<1>4. PICK n : n = f[b]
  OBVIOUS
<1>5. n \in Nat /\ f[b] = d[b] + n
  BY <1>3, <1>4
<1>6. Total(d) \in Nat /\ Total(f) = Total(d) + n
  BY <1>2, <1>5, SumGrows
<1>7. (\A x \in S : x # b => f[x] = 0) => Total(d) = 0
  <2>1. SUFFICES ASSUME \A x \in S : x # b => f[x] = 0 PROVE Total(d) = 0
    OBVIOUS
  <2>2. \A x \in S : d[x] = 0
    BY <1>2, <2>1
  <2> QED BY <1>2, <2>2, SumOfNothing
<1>8. n <= Total(f) /\ Total(f) \in Nat
  BY <1>5, <1>6
<1>9. Total(d) = 0 => Total(f) = n
  BY <1>5, <1>6
<1> QED BY <1>4, <1>7, <1>8, <1>9
==============================================================================
