--------------------------- MODULE SelectionProofs ---------------------------
(***************************************************************************)
(* What the operators of the routing decision and of placement memory      *)
(* return, for any set of nodes, any scores and any load factor.  The      *)
(* proofs about Routing and Router cite these lemmas.                      *)
(***************************************************************************)
EXTENDS PlacementOps, FiniteSetTheorems, TLAPS

-----------------------------------------------------------------------------
(* Least elements, which stand in for induction.                           *)

\* A non-empty set of naturals has a least element.
LEMMA LeastNat ==
  ASSUME NEW S, S \subseteq Nat, S # {}
  PROVE  \E x \in S : \A y \in S : x <= y
<1>1. \E x \in S : \A y \in S : ~(<<y, x>> \in OpToRel(<, Nat))
  BY NatLessThanWellFounded, WFMin
<1>2. PICK x \in S : \A y \in S : ~(<<y, x>> \in OpToRel(<, Nat))
  BY <1>1
<1>3. ASSUME NEW y \in S PROVE x <= y
  <2>1. x \in Nat /\ y \in Nat
    OBVIOUS
  <2>2. y < x => <<y, x>> \in OpToRel(<, Nat)
    BY <2>1 DEF OpToRel
  <2>3. ~(y < x)
    BY <1>2, <2>2, Zenon
  <2> QED BY <2>1, <2>3
<1> QED BY <1>3

LEMMA MinInSet ==
  ASSUME NEW S, S \subseteq Nat, S # {}
  PROVE  Min(S) \in S /\ \A y \in S : Min(S) <= y
<1>1. PICK x \in S : \A y \in S : x <= y
  BY LeastNat
<1> QED BY <1>1 DEF Min

\* A non-empty set of nodes has one with the lowest score for a key.
LEMMA LowestScore ==
  ASSUME NEW k \in Keys, NEW S \in SUBSET Nodes, S # {}
  PROVE  \E m \in S : \A x \in S \ {m} : Score[k][x] > Score[k][m]
<1>s. \A x, y \in Nodes : Score[k][x] \in Nat /\ (Score[k][x] = Score[k][y] => x = y)
  BY SelectionAssumption
<1> DEFINE V == {Score[k][x] : x \in S}
<1>1. V \subseteq Nat /\ V # {}
  BY <1>s
<1>2. PICK v \in V : \A w \in V : v <= w
  BY <1>1, LeastNat
<1>3. PICK m \in S : v = Score[k][m]
  BY <1>2
<1>4. ASSUME NEW x \in S \ {m} PROVE Score[k][x] > Score[k][m]
  <2>1. v <= Score[k][x]
    BY <1>2
  <2>2. Score[k][x] # Score[k][m] /\ Score[k][x] \in Nat /\ Score[k][m] \in Nat
    BY <1>s
  <2> QED BY <1>3, <2>1, <2>2
<1> QED BY <1>4

-----------------------------------------------------------------------------
(* The rank order.                                                         *)

\* The enumerations of a finite set without repetition hit every member.
Orders(S) ==
  {f \in [1 .. Cardinality(S) -> S] : \A i, j \in DOMAIN f : f[i] = f[j] => i = j}

LEMMA SeqsOfSet ==
  ASSUME NEW S, IsFiniteSet(S), NEW f \in Orders(S)
  PROVE  /\ f \in Seq(S) /\ Len(f) = Cardinality(S) /\ Len(f) \in Nat
         /\ DOMAIN f = 1 .. Len(f)
         /\ \A i, j \in 1 .. Len(f) : f[i] = f[j] => i = j
         /\ \A x \in S : \E i \in 1 .. Len(f) : f[i] = x
         /\ Range(f) = S
<1> DEFINE n == Cardinality(S)
<1>1. n \in Nat
  BY FS_CardinalityType
<1>2. f \in [1..n -> S] /\ \A i, j \in 1..n : f[i] = f[j] => i = j
  BY DEF Orders
<1>3. f \in Injection(1..n, S)
  BY <1>2 DEF Injection, IsInjective
<1>4. Cardinality(1..n) = n
  BY <1>1, FS_Interval
<1>5. f \in Surjection(1..n, S)
  BY <1>3, <1>4, FS_Injection
<1>6. \A x \in S : \E i \in 1..n : f[i] = x
  BY <1>5 DEF Surjection
<1>7. f \in Seq(S) /\ Len(f) = n /\ DOMAIN f = 1..n
  BY <1>1, <1>2
<1>8. Range(f) = S
  BY <1>2, <1>6, <1>7 DEF Range
<1> QED BY <1>1, <1>2, <1>6, <1>7, <1>8

\* Every set of candidates can be ranked: add the node with the lowest score
\* to the ranking of the others.
LEMMA RankingExists ==
  ASSUME NEW k \in Keys, NEW S \in SUBSET Nodes
  PROVE  \E order \in Orders(S) : BestFirst(k, order)
<1> DEFINE Bad == {T \in SUBSET Nodes : ~\E order \in Orders(T) : BestFirst(k, order)}
           Sizes == {Cardinality(T) : T \in Bad}
<1>f. \A T \in SUBSET Nodes : IsFiniteSet(T) /\ Cardinality(T) \in Nat
  BY SelectionAssumption, FS_Subset, FS_CardinalityType
<1> SUFFICES ASSUME Bad # {} PROVE FALSE
  OBVIOUS
<1>1. Sizes \subseteq Nat /\ Sizes # {}
  BY <1>f
<1>2. PICK n \in Sizes : \A y \in Sizes : n <= y
  BY <1>1, LeastNat
<1>3. PICK T \in Bad : n = Cardinality(T)
  BY <1>2
<1>4. CASE T = {}
  <2>1. Cardinality({}) = 0
    BY FS_EmptySet
  <2> DEFINE e == [i \in 1..0 |-> i]
  <2>2. e \in Orders({})
    BY <2>1 DEF Orders
  <2>3. BestFirst(k, e)
    BY DEF BestFirst
  <2> QED BY <1>4, <2>2, <2>3
<1>5. CASE T # {}
  <2>1. PICK m \in T : \A x \in T \ {m} : Score[k][x] > Score[k][m]
    BY <1>5, LowestScore
  <2> DEFINE R == T \ {m}
  <2>2. Cardinality(R) = n - 1 /\ n - 1 \in Nat /\ n \in Nat
    <3>1. IsFiniteSet(T) /\ R \in SUBSET Nodes
      BY <1>f
    <3>2. Cardinality(R) = n - 1
      BY <1>3, <3>1, FS_RemoveElement
    <3> QED BY <1>f, <1>1, <3>1, <3>2
  <2>3. R \notin Bad
    BY <1>2, <2>2
  <2>4. PICK g \in Orders(R) : BestFirst(k, g)
    BY <2>3
  <2>5. g \in [1..(n-1) -> R] /\ \A i, j \in 1..(n-1) : i # j => g[i] # g[j]
    BY <2>2 DEF Orders
  <2> DEFINE f == [i \in 1..n |-> IF i = n THEN m ELSE g[i]]
  <2>6. f \in [1..n -> T] /\ \A i \in 1..n : i # n => i \in 1..(n-1) /\ f[i] = g[i] /\ f[i] \in R
    BY <2>2, <2>5
  <2>6a. f[n] = m /\ n \in 1..n
    BY <2>2
  <2>7. \A i, j \in 1..n : i # j => f[i] # f[j]
    BY <2>5, <2>6, <2>6a
  <2>8. f \in Orders(T)
    <3>1. DOMAIN f = 1..n
      OBVIOUS
    <3> HIDE DEF f
    <3> QED BY <1>3, <2>6, <2>7, <3>1 DEF Orders
  <2>9. BestFirst(k, f)
    <3> SUFFICES ASSUME NEW i \in 1..n, NEW j \in 1..n, i < j
                 PROVE  Score[k][f[i]] > Score[k][f[j]]
      BY DEF BestFirst
    <3>1. i # n
      BY <2>2
    <3>2. CASE j = n
      BY <2>1, <2>6, <2>6a, <3>1, <3>2
    <3>3. CASE j # n
      BY <2>4, <2>5, <2>6, <3>1, <3>3 DEF BestFirst
    <3> QED BY <3>2, <3>3
  <2> QED BY <1>3, <2>8, <2>9
<1> QED BY <1>4, <1>5

\* So Ranking is a ranking, of all candidates and of nothing else.
LEMMA RankingIs ==
  ASSUME NEW k \in Keys, NEW S \in SUBSET Nodes
  PROVE  Ranking(k, S) \in Orders(S) /\ BestFirst(k, Ranking(k, S))
<1> DEFINE order == Ranking(k, S)
<1>1. \E o \in [1 .. Cardinality(S) -> S] : BestFirst(k, o)
  BY RankingExists, SMTT(30) DEF Orders
<1>2. order \in [1 .. Cardinality(S) -> S] /\ BestFirst(k, order)
  BY <1>1 DEF Ranking
<1>3. \A x \in Nodes : Score[k][x] \in Nat
  BY SelectionAssumption
<1> HIDE DEF order
<1>4. Cardinality(S) \in Nat
  BY SelectionAssumption, FS_Subset, FS_CardinalityType
<1>5. \A i, j \in DOMAIN order : order[i] = order[j] => i = j
  BY <1>2, <1>3, <1>4 DEF BestFirst
<1> QED BY <1>2, <1>5 DEF Orders, order

\* ... and the only one: where two rankings differ first, each would have to put
\* the other's choice further down.
LEMMA RankingUnique ==
  ASSUME NEW k \in Keys, NEW S \in SUBSET Nodes,
         NEW f \in Orders(S), NEW g \in Orders(S), BestFirst(k, f), BestFirst(k, g)
  PROVE  f = g
<1>s. \A x \in Nodes : Score[k][x] \in Nat
  BY SelectionAssumption
<1>f. IsFiniteSet(S)
  BY SelectionAssumption, FS_Subset
<1>1. /\ f \in Seq(S) /\ g \in Seq(S) /\ Len(f) = Len(g) /\ Len(f) \in Nat
      /\ DOMAIN f = 1 .. Len(f) /\ DOMAIN g = 1 .. Len(f)
  BY <1>f, SeqsOfSet
<1>2. /\ \A x \in S : \E i \in 1 .. Len(f) : f[i] = x
      /\ \A x \in S : \E i \in 1 .. Len(f) : g[i] = x
      /\ \A i, j \in 1 .. Len(f) : f[i] = f[j] => i = j
      /\ \A i, j \in 1 .. Len(f) : g[i] = g[j] => i = j
  <2>1. /\ \A x \in S : \E i \in 1 .. Len(f) : f[i] = x
        /\ \A i, j \in 1 .. Len(f) : f[i] = f[j] => i = j
    BY <1>f, SeqsOfSet
  <2>2. /\ \A x \in S : \E i \in 1 .. Len(g) : g[i] = x
        /\ \A i, j \in 1 .. Len(g) : g[i] = g[j] => i = j
    BY <1>f, SeqsOfSet
  <2> QED BY <1>1, <2>1, <2>2
<1> DEFINE D == {i \in 1 .. Len(f) : f[i] # g[i]}
<1>3. CASE D = {}
  BY <1>1, <1>3
<1>4. CASE D # {}
  <2>1. D \subseteq Nat
    OBVIOUS
  <2>2. PICK i \in D : \A y \in D : i <= y
    BY <1>4, <2>1, LeastNat
  <2>3. \A h \in 1 .. Len(f) : h < i => f[h] = g[h]
    BY <1>1, <2>2
  <2>4. f[i] \in S /\ g[i] \in S /\ f[i] # g[i] /\ i \in 1 .. Len(f)
    BY <1>1, <2>2
  <2>5. PICK j \in 1 .. Len(f) : g[j] = f[i]
    BY <1>2, <2>4
  <2>6. PICK h \in 1 .. Len(f) : f[h] = g[i]
    BY <1>2, <2>4
  <2>n. i \in Nat /\ j \in Nat /\ h \in Nat
    BY <2>2
  <2>7. i < j
    <3>1. j # i
      BY <2>4, <2>5
    <3>2. j < i => f[j] = f[i]
      BY <2>3, <2>5
    <3>3. ~(j < i)
      BY <1>2, <2>4, <3>1, <3>2
    <3> QED BY <2>n, <3>1, <3>3
  <2>8. i < h
    <3>1. h # i
      BY <2>4, <2>6
    <3>2. h < i => g[h] = g[i]
      BY <2>3, <2>6
    <3>3. ~(h < i)
      BY <1>2, <2>4, <3>1, <3>2
    <3> QED BY <2>n, <3>1, <3>3
  <2>9. Score[k][g[i]] > Score[k][f[i]]
    BY <1>1, <2>4, <2>5, <2>7 DEF BestFirst
  <2>10. Score[k][f[i]] > Score[k][g[i]]
    BY <1>1, <2>4, <2>6, <2>8 DEF BestFirst
  <2> QED BY <1>s, <2>4, <2>9, <2>10
<1> QED BY <1>3, <1>4

-----------------------------------------------------------------------------
(* The load bound.                                                         *)

Some(s) == CHOOSE x \in s : TRUE

\* One step of the fold that adds up f over a set.
Added(f, g, s) == IF s = {} THEN 0 ELSE f[Some(s)] + g[s \ {Some(s)}]

\* The fold is well defined on the subsets of a finite set, by their size.
LEMMA FoldExists ==
  ASSUME NEW S, IsFiniteSet(S), NEW f
  PROVE  \E iter : iter = [s \in SUBSET S |-> Added(f, iter, s)]
<1> DEFINE Up(n, g) == \A s \in SUBSET S : Cardinality(s) <= n => g[s] = Added(f, g, s)
           Bad == {n \in Nat : ~\E g : Up(n, g)}
<1>f. \A s \in SUBSET S : IsFiniteSet(s) /\ Cardinality(s) \in Nat
  BY FS_Subset, FS_CardinalityType
<1>1. Bad = {}
  <2> SUFFICES ASSUME Bad # {} PROVE FALSE
    OBVIOUS
  <2>1. PICK n \in Bad : \A y \in Bad : n <= y
    BY LeastNat
  <2>2. CASE n = 0
    <3> DEFINE g == [s \in SUBSET S |-> 0]
    <3>1. \A s \in SUBSET S : Cardinality(s) <= 0 => s = {}
      BY <1>f, FS_EmptySet
    <3>2. Up(0, g)
      BY <3>1 DEF Added
    <3> QED BY <2>1, <2>2, <3>2
  <2>3. CASE n # 0
    <3>1. n - 1 \in Nat /\ n \in Nat
      BY <2>1, <2>3
    <3>2. n - 1 \notin Bad
      BY <2>1, <3>1
    <3>3. PICK g : Up(n - 1, g)
      BY <3>1, <3>2
    <3> DEFINE h == [s \in SUBSET S |-> Added(f, g, s)]
    <3>4. \A s \in SUBSET S : Cardinality(s) <= n - 1 => h[s] = g[s]
      BY <3>3
    <3>5. ASSUME NEW s \in SUBSET S, Cardinality(s) <= n
          PROVE  h[s] = Added(f, h, s)
      <4>1. CASE s = {}
        BY <4>1 DEF Added
      <4>2. CASE s # {}
        <5> DEFINE t == s \ {Some(s)}
        <5>1. Some(s) \in s
          BY <4>2 DEF Some
        <5>2. Cardinality(t) = Cardinality(s) - 1 /\ t \in SUBSET S
          BY <1>f, <5>1, FS_RemoveElement
        <5>3. Cardinality(t) <= n - 1
          <6>1. Cardinality(s) \in Nat
            BY <1>f
          <6> QED BY <3>1, <3>5, <5>2, <6>1
        <5>4. h[t] = g[t]
          BY <3>4, <5>2, <5>3
        <5>5. h[s] = Added(f, g, s)
          OBVIOUS
        <5> QED BY <4>2, <5>4, <5>5 DEF Added
      <4> QED BY <4>1, <4>2
    <3>6. Up(n, h)
      BY <3>5
    <3> QED BY <2>1, <3>6
  <2> QED BY <2>2, <2>3
<1>2. Cardinality(S) \in Nat
  BY FS_CardinalityType
<1>3. PICK g : Up(Cardinality(S), g)
  BY <1>1, <1>2
<1>4. \A s \in SUBSET S : g[s] = Added(f, g, s)
  <2>1. \A s \in SUBSET S : Cardinality(s) <= Cardinality(S)
    BY FS_Subset
  <2> QED BY <1>3, <2>1
<1> DEFINE it == [s \in SUBSET S |-> g[s]]
<1>5. ASSUME NEW s \in SUBSET S PROVE it[s] = Added(f, it, s)
  <2>1. s \ {Some(s)} \in SUBSET S
    OBVIOUS
  <2>2. it[s \ {Some(s)}] = g[s \ {Some(s)}] /\ it[s] = g[s]
    BY <2>1
  <2> QED BY <1>4, <2>2 DEF Added
<1>6. it = [s \in SUBSET S |-> Added(f, it, s)]
  BY <1>5
<1> QED BY <1>6

Total(f, S) == MapThenSumSet(LAMBDA n : f[n], S)

\* The sum of naturals over a finite set is a natural.
LEMMA SumIsNat ==
  ASSUME NEW S, IsFiniteSet(S), NEW f, \A x \in S : f[x] \in Nat
  PROVE  Total(f, S) \in Nat
<1> DEFINE it == CHOOSE iter : iter = [s \in SUBSET S |-> Added(f, iter, s)]
<1>1. it = [s \in SUBSET S |-> Added(f, it, s)]
  BY FoldExists
<1>2. Total(f, S) = it[S]
  BY DEF Total, MapThenSumSet, MapThenFoldSet, Added, Some
<1> HIDE DEF it
<1> DEFINE Bad == {s \in SUBSET S : it[s] \notin Nat}
           Sizes == {Cardinality(s) : s \in Bad}
<1>f. \A s \in SUBSET S : IsFiniteSet(s) /\ Cardinality(s) \in Nat
  BY FS_Subset, FS_CardinalityType
<1>3. Bad = {}
  <2> SUFFICES ASSUME Bad # {} PROVE FALSE
    OBVIOUS
  <2>1. Sizes \subseteq Nat /\ Sizes # {}
    BY <1>f
  <2>2. PICK n \in Sizes : \A y \in Sizes : n <= y
    BY <2>1, LeastNat
  <2>3. PICK s \in Bad : n = Cardinality(s)
    BY <2>2
  <2>4. it[s] = Added(f, it, s)
    BY <1>1
  <2>5. s # {}
    BY <2>3, <2>4 DEF Added
  <2> DEFINE t == s \ {Some(s)}
  <2>6. Some(s) \in s /\ t \in SUBSET S
    BY <2>5 DEF Some
  <2>7. Cardinality(t) = n - 1
    BY <1>f, <2>3, <2>6, FS_RemoveElement
  <2>8. n - 1 \notin Sizes
    <3> HIDE DEF Sizes
    <3>1. n \in Nat
      BY <2>1
    <3> QED BY <2>2, <3>1
  <2>9. it[t] \in Nat
    BY <2>6, <2>7, <2>8
  <2>10. f[Some(s)] \in Nat
    BY <2>6
  <2> QED BY <2>3, <2>4, <2>5, <2>9, <2>10 DEF Added
<1> QED BY <1>2, <1>3

\* The bound is a number, and never below the affinity floor.
LEMMA LimitIs ==
  ASSUME NEW load \in [Nodes -> Nat], NEW S \in SUBSET Nodes, S # {}
  PROVE  Limit(load, S) \in Int /\ Limit(load, S) >= affinityFloor
<1>1. IsFiniteSet(S) /\ Cardinality(S) \in Nat /\ Cardinality(S) # 0
  BY SelectionAssumption, FS_Subset, FS_CardinalityType, FS_EmptySet
<1> DEFINE total == Total(load, S)
           den == LoadDen * Cardinality(S)
           bound == (loadNum * (total + 1) + den - 1) \div den
<1>2. total \in Nat
  <2>1. \A x \in S : load[x] \in Nat
    OBVIOUS
  <2> QED BY <1>1, <2>1, SumIsNat
<1>3. den \in Nat /\ den # 0
  <2>1. LoadDen \in Nat /\ LoadDen # 0
    BY SelectionAssumption
  <2> QED BY <1>1, <2>1
<1>4. loadNum \in Int
  BY SelectionAssumption DEF loadNum
<1>5. affinityFloor \in Int
  BY SelectionAssumption DEF affinityFloor
<1>6. Limit(load, S) = IF bound < affinityFloor THEN affinityFloor ELSE bound
  BY DEF Limit, Total
<1> HIDE DEF total, den
<1>7. bound \in Int
  <2> DEFINE num == loadNum * (total + 1) + den - 1
  <2>1. num \in Int
    BY <1>2, <1>3, <1>4
  <2> HIDE DEF num
  <2>2. num \div den \in Int
    BY <1>3, <2>1
  <2> QED BY <2>2 DEF num
<1> HIDE DEF bound
<1> QED BY <1>5, <1>6, <1>7

-----------------------------------------------------------------------------
(* The choice of a node from a rank order.                                 *)

\* The position tried next is one with room, the first from i on.
LEMMA TriedNext ==
  ASSUME NEW load, NEW order \in Seq(Nodes), NEW i \in Nat \ {0},
         TryAt(load, order, i) # {}
  PROVE  LET t == Min(TryAt(load, order, i))
         IN  /\ t \in i .. Len(order) /\ t \in DOMAIN order
             /\ HasRoom(load, Range(order), order[t])
             /\ \A j \in i .. Len(order) : HasRoom(load, Range(order), order[j]) => t <= j
<1> DEFINE T == TryAt(load, order, i)
<1>1. T \subseteq Nat
  BY DEF TryAt
<1>2. Min(T) \in T /\ \A y \in T : Min(T) <= y
  BY <1>1, MinInSet
<1> QED BY <1>2 DEF TryAt

\* A spilled request goes to a free slot on one of the least loaded nodes ...
LEMMA SpillsToLeast ==
  ASSUME NEW load \in [Nodes -> Nat], NEW order \in Seq(Nodes),
         NEW j \in SpillAt(load, order)
  PROVE  /\ j \in DOMAIN order /\ HasSlot(load, order[j])
         /\ \A h \in DOMAIN order :
              HasSlot(load, order[h]) => load[order[j]] <= load[order[h]]
<1>1. \A h \in DOMAIN order : order[h] \in Nodes /\ load[order[h]] \in Nat
  OBVIOUS
<1> QED BY <1>1 DEF SpillAt

\* ... and finds one whenever there is a free slot at all.
LEMMA SpillsIfOpen ==
  ASSUME NEW load \in [Nodes -> Nat], NEW order \in Seq(Nodes),
         NEW h \in DOMAIN order, HasSlot(load, order[h])
  PROVE  SpillAt(load, order) # {}
<1> DEFINE open == {j \in DOMAIN order : HasSlot(load, order[j])}
           V == {load[order[j]] : j \in open}
<1>1. \A j \in DOMAIN order : j \in Nat /\ order[j] \in Nodes /\ load[order[j]] \in Nat
  OBVIOUS
<1>2. V \subseteq Nat /\ V # {}
  BY <1>1
<1>3. PICK v \in V : \A w \in V : v <= w
  BY <1>2, LeastNat
<1> DEFINE J == {j \in open : load[order[j]] = v}
<1>4. J \subseteq Nat /\ J # {}
  BY <1>1, <1>3
<1>5. PICK j \in J : \A g \in J : j <= g
  BY <1>4, LeastNat
<1>6. ASSUME NEW g \in open
      PROVE  \/ load[order[j]] < load[order[g]]
             \/ load[order[j]] = load[order[g]] /\ j <= g
  <2>1. load[order[j]] = v /\ v <= load[order[g]] /\ v \in Nat /\ load[order[g]] \in Nat
    BY <1>1, <1>2, <1>3, <1>5, SMTT(30)
  <2>2. load[order[g]] = v => j <= g
    BY <1>5
  <2> QED BY <2>1, <2>2
<1>7. j \in SpillAt(load, order)
  BY <1>5, <1>6 DEF SpillAt
<1> QED BY <1>7

-----------------------------------------------------------------------------
(* Sequences with one element taken out or moved to the front.             *)

LEMMA RemoveAtIs ==
  ASSUME NEW S, NEW s \in Seq(S), NEW i \in DOMAIN s
  PROVE  /\ RemoveAt(s, i) \in Seq(S)
         /\ Len(RemoveAt(s, i)) = Len(s) - 1
         /\ \A j \in 1 .. Len(s) - 1 :
              RemoveAt(s, i)[j] = IF j < i THEN s[j] ELSE s[j + 1]
<1>1. i \in 1 .. Len(s) /\ Len(s) \in Nat
  OBVIOUS
<1> DEFINE a == SubSeq(s, 1, i - 1)
           b == SubSeq(s, i + 1, Len(s))
<1>2. a \in Seq(S) /\ Len(a) = i - 1 /\ \A j \in 1 .. i - 1 : a[j] = s[j]
  <2>1. \A j \in 1 .. i - 1 : s[j] \in S
    BY <1>1
  <2> QED BY <1>1, <2>1
<1>3. b \in Seq(S) /\ Len(b) = Len(s) - i /\ \A j \in 1 .. Len(s) - i : b[j] = s[i + j]
  <2>1. \A j \in i + 1 .. Len(s) : s[j] \in S
    BY <1>1
  <2> QED BY <1>1, <2>1
<1> HIDE DEF a, b
<1>4. /\ a \o b \in Seq(S) /\ Len(a \o b) = Len(a) + Len(b)
      /\ \A j \in 1 .. Len(a) + Len(b) : (a \o b)[j] = IF j <= Len(a) THEN a[j] ELSE b[j - Len(a)]
  <2>1. a \in Seq(S) /\ b \in Seq(S)
    BY <1>2, <1>3
  <2> QED BY <2>1
<1>4a. Len(a) = i - 1 /\ Len(b) = Len(s) - i
  BY <1>2, <1>3
<1>5. RemoveAt(s, i) = a \o b
  BY DEF RemoveAt, a, b
<1>6. ASSUME NEW j \in 1 .. Len(s) - 1
      PROVE  (a \o b)[j] = IF j < i THEN s[j] ELSE s[j + 1]
  <2>1. CASE j < i
    <3>1. j \in 1 .. i - 1 /\ j \in 1 .. Len(a) + Len(b) /\ j <= Len(a)
      BY <1>1, <1>4a, <2>1
    <3>2. (a \o b)[j] = a[j]
      BY <1>4, <3>1
    <3> QED BY <1>2, <2>1, <3>1, <3>2
  <2>2. CASE ~(j < i)
    <3>1. j - (i - 1) \in 1 .. Len(s) - i /\ j \in 1 .. Len(a) + Len(b) /\ ~(j <= Len(a))
      BY <1>1, <1>4a, <2>2, SMTT(30)
    <3>2. (a \o b)[j] = b[j - (i - 1)]
      BY <1>4, <1>4a, <3>1, SMTT(30)
    <3>3. PICK m \in 1 .. Len(s) - i : m = j - (i - 1)
      BY <3>1
    <3>4. b[m] = s[i + m]
      BY <1>3
    <3>5. i + m = j + 1
      BY <1>1, <3>3
    <3> QED BY <2>2, <3>2, <3>3, <3>4, <3>5
  <2> QED BY <2>1, <2>2
<1>7. Len(a \o b) = Len(s) - 1
  BY <1>1, <1>4, <1>4a
<1> QED BY <1>4, <1>5, <1>6, <1>7

\* An element put in front.
LEMMA ConsIs ==
  ASSUME NEW S, NEW s \in Seq(S), NEW e \in S
  PROVE  LET c == <<e>> \o s
         IN  /\ c \in Seq(S) /\ Len(c) = Len(s) + 1 /\ DOMAIN c = 1 .. Len(s) + 1
             /\ c[1] = e /\ \A j \in 1 .. Len(s) : c[j + 1] = s[j]
<1>1. <<e>> \in Seq(S) /\ Len(<<e>>) = 1 /\ <<e>>[1] = e
  OBVIOUS
<1> DEFINE c == <<e>> \o s
<1>2. /\ c \in Seq(S) /\ Len(c) = 1 + Len(s)
      /\ \A i \in 1 .. 1 + Len(s) : c[i] = IF i <= 1 THEN <<e>>[i] ELSE s[i - 1]
  BY <1>1
<1>3. Len(s) \in Nat
  OBVIOUS
<1> HIDE DEF c
<1>4. DOMAIN c = 1 .. Len(s) + 1 /\ c[1] = e
  BY <1>1, <1>2, <1>3
<1>5. ASSUME NEW j \in 1 .. Len(s) PROVE c[j + 1] = s[j]
  <2>1. j + 1 \in 1 .. 1 + Len(s) /\ ~(j + 1 <= 1) /\ (j + 1) - 1 = j
    BY <1>3
  <2> QED BY <1>2, <2>1
<1>6. Len(c) = Len(s) + 1
  BY <1>2, <1>3
<1> QED BY <1>2, <1>4, <1>5, <1>6 DEF c

\* A one-to-one map onto a set keeps the size.
LEMMA SameSize ==
  ASSUME NEW A, NEW B, IsFiniteSet(A), NEW f \in [A -> B],
         \A x, y \in A : f[x] = f[y] => x = y,
         \A z \in B : \E x \in A : f[x] = z
  PROVE  IsFiniteSet(B) /\ Cardinality(B) = Cardinality(A)
<1>1. f \in Bijection(A, B)
  BY DEF Bijection, Injection, Surjection, IsInjective
<1>2. ExistsBijection(A, B)
  BY <1>1 DEF ExistsBijection
<1> QED BY <1>2, FS_Bijection

-----------------------------------------------------------------------------
(* How many entries of a placement list name a node.                       *)

Entries == [key : Keys, node : Nodes]

On(s, n) == {i \in DOMAIN s : s[i].node = n}

Count(s, n) == Cardinality(On(s, n))

LEMMA OnFinite ==
  ASSUME NEW S, NEW s \in Seq(S), NEW n
  PROVE  IsFiniteSet(On(s, n)) /\ Count(s, n) \in Nat
<1>1. On(s, n) \in SUBSET (1 .. Len(s)) /\ Len(s) \in Nat
  BY DEF On
<1>2. IsFiniteSet(1 .. Len(s))
  BY <1>1, FS_Interval
<1> QED BY <1>1, <1>2, FS_Subset, FS_CardinalityType DEF Count

LEMMA CountCons ==
  ASSUME NEW S, NEW s \in Seq(S), NEW e \in S, NEW n
  PROVE  Count(<<e>> \o s, n) = Count(s, n) + (IF e.node = n THEN 1 ELSE 0)
<1> DEFINE c == <<e>> \o s
           B == On(c, n) \ {1}
           f == [i \in On(s, n) |-> i + 1]
<1>1. /\ Len(s) \in Nat /\ DOMAIN c = 1 .. Len(s) + 1 /\ DOMAIN s = 1 .. Len(s)
      /\ c[1] = e /\ \A j \in 1 .. Len(s) : c[j + 1] = s[j]
  BY ConsIs
<1> HIDE DEF c
<1>2. f \in [On(s, n) -> B]
  <2> SUFFICES ASSUME NEW i \in On(s, n) PROVE i + 1 \in B
    OBVIOUS
  <2> QED BY <1>1 DEF On
<1>3. \A x, y \in On(s, n) : f[x] = f[y] => x = y
  BY <1>1 DEF On
<1>4. ASSUME NEW z \in B PROVE \E x \in On(s, n) : f[x] = z
  <2>1. z - 1 \in 1 .. Len(s) /\ (z - 1) + 1 = z
    BY <1>1 DEF On
  <2>2. c[(z - 1) + 1] = s[z - 1]
    BY <1>1, <2>1
  <2>3. z - 1 \in On(s, n)
    BY <1>1, <2>1, <2>2 DEF On
  <2> QED BY <2>1, <2>3
<1>5. IsFiniteSet(On(s, n)) /\ Count(s, n) \in Nat
  BY OnFinite
<1>6. IsFiniteSet(B) /\ Cardinality(B) = Count(s, n)
  <2> HIDE DEF f, B
  <2> QED BY <1>2, <1>3, <1>4, <1>5, SameSize DEF Count
<1>7. On(c, n) = IF e.node = n THEN B \cup {1} ELSE B
  <2>1. 1 \in On(c, n) <=> e.node = n
    BY <1>1 DEF On
  <2> QED BY <2>1
<1>8. Cardinality(B \cup {1}) = Cardinality(B) + 1
  BY <1>6, FS_AddElement
<1> HIDE DEF B
<1> QED BY <1>5, <1>6, <1>7, <1>8 DEF c, Count

LEMMA CountRemoveAt ==
  ASSUME NEW S, NEW s \in Seq(S), NEW i \in DOMAIN s, NEW n
  PROVE  Count(RemoveAt(s, i), n) = Count(s, n) - (IF s[i].node = n THEN 1 ELSE 0)
<1> DEFINE t == RemoveAt(s, i)
           B == On(s, n) \ {i}
           f == [j \in On(t, n) |-> IF j < i THEN j ELSE j + 1]
<1>1. /\ t \in Seq(S) /\ Len(t) = Len(s) - 1 /\ i \in 1 .. Len(s)
      /\ \A j \in 1 .. Len(s) - 1 : t[j] = IF j < i THEN s[j] ELSE s[j + 1]
  BY RemoveAtIs
<1> HIDE DEF t
<1>2. DOMAIN t = 1 .. Len(s) - 1 /\ DOMAIN s = 1 .. Len(s) /\ Len(s) \in Nat
  BY <1>1
<1>3. f \in [On(t, n) -> B]
  <2> SUFFICES ASSUME NEW j \in On(t, n) PROVE (IF j < i THEN j ELSE j + 1) \in B
    OBVIOUS
  <2> QED BY <1>1, <1>2 DEF On
<1>4. \A x, y \in On(t, n) : f[x] = f[y] => x = y
  BY <1>1, <1>2 DEF On
<1>5. ASSUME NEW z \in B PROVE \E x \in On(t, n) : f[x] = z
  <2>0. z \in 1 .. Len(s) /\ z # i /\ s[z].node = n
    BY <1>2 DEF On
  <2>1. CASE z < i
    <3>1. z \in 1 .. Len(s) - 1 /\ t[z] = s[z]
      BY <1>1, <1>2, <2>0, <2>1
    <3> QED BY <1>2, <2>0, <2>1, <3>1 DEF On
  <2>2. CASE z > i
    <3>1. PICK x \in 1 .. Len(s) - 1 : x = z - 1
      BY <1>1, <1>2, <2>0, <2>2
    <3>2. ~(x < i) /\ x + 1 = z
      BY <1>1, <2>0, <2>2, <3>1
    <3>3. t[x] = s[z]
      BY <1>1, <3>2
    <3> QED BY <1>2, <2>0, <3>2, <3>3 DEF On
  <2> QED BY <1>1, <2>0, <2>1, <2>2
<1>6. IsFiniteSet(On(t, n)) /\ Count(t, n) \in Nat /\ IsFiniteSet(On(s, n)) /\ Count(s, n) \in Nat
  BY <1>1, OnFinite
<1>7. Cardinality(B) = Count(t, n)
  BY <1>3, <1>4, <1>5, <1>6, SameSize DEF Count
<1>8. Cardinality(B) = IF i \in On(s, n) THEN Count(s, n) - 1 ELSE Count(s, n)
  BY <1>6, FS_RemoveElement DEF Count
<1>9. i \in On(s, n) <=> s[i].node = n
  BY DEF On
<1> HIDE DEF B
<1> QED BY <1>6, <1>7, <1>8, <1>9 DEF t

-----------------------------------------------------------------------------
(* The operations of placement memory keep map, list and counters agreed.  *)

Distinct(s) == \A i, j \in DOMAIN s : s[i].key = s[j].key => i = j

Agree(q) ==
  /\ q = [lru |-> q.lru, placed |-> q.placed]
  /\ q.lru \in Seq(Entries) /\ q.placed \in [Nodes -> Nat]
  /\ Len(q.lru) <= PlacementSize
  /\ Distinct(q.lru)
  /\ \A n \in Nodes : q.placed[n] = Count(q.lru, n)

One(b) == IF b THEN 1 ELSE 0

LEMMA EntryIs ==
  ASSUME NEW k \in Keys, NEW n \in Nodes
  PROVE  Entry(k, n) \in Entries /\ Entry(k, n).key = k /\ Entry(k, n).node = n
BY DEF Entry, Entries

LEMMA EntryParts ==
  ASSUME NEW e \in Entries
  PROVE  e.key \in Keys /\ e.node \in Nodes /\ e = Entry(e.key, e.node)
BY DEF Entry, Entries

\* An entry is taken out and put in front, with its old node or another.
LEMMA FrontIs ==
  ASSUME NEW s \in Seq(Entries), Distinct(s), NEW i \in DOMAIN s, NEW n \in Nodes
  PROVE  LET e == Entry(s[i].key, n)
             t == <<e>> \o RemoveAt(s, i)
         IN  /\ t \in Seq(Entries) /\ Len(t) = Len(s) /\ Distinct(t)
             /\ Range(t) = (Range(s) \ {s[i]}) \cup {e}
             /\ \A m : Count(t, m) = Count(s, m) - One(s[i].node = m) + One(n = m)
<1> DEFINE e == Entry(s[i].key, n)
           r == RemoveAt(s, i)
           t == <<e>> \o r
<1>0. /\ s[i] \in Entries /\ s[i].key \in Keys /\ e \in Entries
      /\ e.key = s[i].key /\ e.node = n
  <2>1. s[i] \in Entries
    OBVIOUS
  <2>2. s[i].key \in Keys
    BY <2>1, EntryParts
  <2> QED BY <2>1, <2>2, EntryIs
<1>1. /\ r \in Seq(Entries) /\ Len(r) = Len(s) - 1 /\ i \in 1 .. Len(s) /\ Len(s) \in Nat
      /\ DOMAIN s = 1 .. Len(s)
      /\ \A j \in 1 .. Len(s) - 1 : r[j] = IF j < i THEN s[j] ELSE s[j + 1]
  <2>1. /\ r \in Seq(Entries) /\ Len(r) = Len(s) - 1
        /\ \A j \in 1 .. Len(s) - 1 : r[j] = IF j < i THEN s[j] ELSE s[j + 1]
    BY RemoveAtIs
  <2>2. i \in 1 .. Len(s) /\ Len(s) \in Nat /\ DOMAIN s = 1 .. Len(s)
    OBVIOUS
  <2> QED BY <2>1, <2>2
<1> HIDE DEF e
<1>2. /\ t \in Seq(Entries) /\ Len(t) = Len(s) /\ DOMAIN t = 1 .. Len(s)
      /\ t[1] = e /\ \A j \in 1 .. Len(s) - 1 : t[j + 1] = r[j]
  <2> HIDE DEF r
  <2>1. /\ t \in Seq(Entries) /\ Len(t) = Len(r) + 1 /\ DOMAIN t = 1 .. Len(r) + 1
        /\ t[1] = e /\ \A j \in 1 .. Len(r) : t[j + 1] = r[j]
    BY <1>0, <1>1, ConsIs
  <2>2. Len(r) + 1 = Len(s)
    BY <1>1
  <2> QED BY <1>1, <2>1, <2>2
<1>3. \A m : Count(t, m) = Count(s, m) - One(s[i].node = m) + One(n = m)
  <2> TAKE m
  <2>1. Count(r, m) = Count(s, m) - One(s[i].node = m)
    BY CountRemoveAt DEF One
  <2> HIDE DEF r
  <2>2. Count(t, m) = Count(r, m) + One(e.node = m)
    BY <1>0, <1>1, CountCons DEF One
  <2> QED BY <1>0, <2>1, <2>2
<1> HIDE DEF r, t
\* where t[j] was in s
<1> DEFINE old(j) == IF j = 1 THEN i ELSE IF j - 1 < i THEN j - 1 ELSE j
<1>4. /\ \A j \in 1 .. Len(s) : old(j) \in 1 .. Len(s) /\ (j # 1 => t[j] = s[old(j)] /\ old(j) # i)
      /\ \A j, h \in 1 .. Len(s) : old(j) = old(h) => j = h
      /\ \A h \in 1 .. Len(s) : \E j \in 1 .. Len(s) : old(j) = h
  <2>1. \A j \in 1 .. Len(s) : old(j) \in 1 .. Len(s) /\ (j # 1 => old(j) # i)
    BY <1>1
  <2>2. \A j, h \in 1 .. Len(s) : old(j) = old(h) => j = h
    BY <1>1
  <2>3. ASSUME NEW j \in 1 .. Len(s), j # 1 PROVE t[j] = s[old(j)]
    <3>1. PICK h \in 1 .. Len(s) - 1 : j = h + 1
      <4>1. j - 1 \in 1 .. Len(s) - 1 /\ j = (j - 1) + 1
        BY <1>1, <2>3
      <4> QED BY <4>1
    <3>2. t[j] = r[h] /\ r[h] = IF h < i THEN s[h] ELSE s[h + 1]
      BY <1>1, <1>2, <3>1
    <3>3. old(j) = IF h < i THEN h ELSE h + 1
      BY <1>1, <3>1
    <3> QED BY <3>2, <3>3
  <2>4. ASSUME NEW h \in 1 .. Len(s) PROVE \E j \in 1 .. Len(s) : old(j) = h
    <3>1. CASE h = i
      <4>1. 1 \in 1 .. Len(s) /\ old(1) = h
        BY <1>1, <3>1
      <4> QED BY <4>1
    <3>2. CASE h < i
      <4>1. h + 1 \in 1 .. Len(s) /\ old(h + 1) = h
        BY <1>1, <3>2
      <4> QED BY <4>1
    <3>3. CASE h > i
      <4>1. old(h) = h
        BY <1>1, <3>3
      <4> QED BY <4>1
    <3> QED BY <1>1, <3>1, <3>2, <3>3
  <2> QED BY <2>1, <2>2, <2>3, <2>4
<1>4a. old(1) = i /\ 1 \in 1 .. Len(s)
  BY <1>1
<1> HIDE DEF old
<1>5. \A j \in 1 .. Len(s) : t[j].key = s[old(j)].key
  BY <1>0, <1>2, <1>4, <1>4a
<1>6. Distinct(t)
  <2> SUFFICES ASSUME NEW j \in 1 .. Len(s), NEW h \in 1 .. Len(s), t[j].key = t[h].key
               PROVE  j = h
    BY <1>2 DEF Distinct
  <2>1. s[old(j)].key = s[old(h)].key /\ old(j) \in DOMAIN s /\ old(h) \in DOMAIN s
    BY <1>1, <1>4, <1>5
  <2>2. old(j) = old(h)
    BY <2>1 DEF Distinct
  <2> QED BY <1>4, <2>2
<1>7. Range(t) = (Range(s) \ {s[i]}) \cup {e}
  <2>0. /\ Range(t) = {t[j] : j \in 1 .. Len(s)} /\ Range(s) = {s[j] : j \in 1 .. Len(s)}
        /\ \A a, b \in 1 .. Len(s) : s[a] = s[b] => a = b
    <3>1. Range(t) = {t[j] : j \in 1 .. Len(s)}
      BY <1>2 DEF Range
    <3>2. Range(s) = {s[j] : j \in 1 .. Len(s)}
      BY <1>1 DEF Range
    <3>3. \A a, b \in 1 .. Len(s) : s[a] = s[b] => a = b
      BY <1>1, SMTT(30) DEF Distinct
    <3> QED BY <3>1, <3>2, <3>3
  <2>1. ASSUME NEW x \in Range(t) PROVE x \in (Range(s) \ {s[i]}) \cup {e}
    <3>1. PICK j \in 1 .. Len(s) : x = t[j]
      BY <2>0
    <3>2. CASE j = 1
      BY <1>2, <3>1, <3>2
    <3>3. CASE j # 1
      <4>1. x = s[old(j)] /\ old(j) \in 1 .. Len(s) /\ old(j) # i
        BY <1>4, <3>1, <3>3
      <4>2. s[old(j)] # s[i]
        BY <1>1, <2>0, <4>1
      <4> QED BY <2>0, <4>1, <4>2
    <3> QED BY <3>2, <3>3
  <2>2. ASSUME NEW x \in (Range(s) \ {s[i]}) \cup {e} PROVE x \in Range(t)
    <3>1. CASE x = e
      BY <1>2, <1>4a, <2>0, <3>1
    <3>2. CASE x # e
      <4>1. PICK h \in 1 .. Len(s) : x = s[h] /\ h # i
        BY <2>0, <2>2, <3>2
      <4>2. PICK j \in 1 .. Len(s) : old(j) = h
        BY <1>4
      <4>3. j # 1
        BY <1>4a, <4>1, <4>2
      <4>4. t[j] = x
        BY <1>4, <4>1, <4>2, <4>3, SMTT(30)
      <4> QED BY <2>0, <4>4
    <3> QED BY <3>1, <3>2
  <2> QED BY <2>1, <2>2
<1> QED BY <1>2, <1>3, <1>6, <1>7 DEF e, r, t

LEMMA MoveToFrontIs ==
  ASSUME NEW q, Agree(q), NEW i \in DOMAIN q.lru
  PROVE  LET a == MoveToFront(q, i)
         IN  Agree(a) /\ Range(a.lru) = Range(q.lru) /\ a.placed = q.placed
<1> DEFINE s == q.lru
           t == <<Entry(s[i].key, s[i].node)>> \o RemoveAt(s, i)
           a == MoveToFront(q, i)
<1>1. /\ s \in Seq(Entries) /\ Distinct(s) /\ s[i] \in Entries
      /\ s[i].node \in Nodes /\ s[i] = Entry(s[i].key, s[i].node)
  BY EntryParts DEF Agree
<1>2. a = [lru |-> t, placed |-> q.placed]
  <2>1. q = [lru |-> q.lru, placed |-> q.placed]
    BY DEF Agree
  <2>2. a = [q EXCEPT !.lru = t]
    BY <1>1 DEF MoveToFront
  <2> HIDE DEF t
  <2> QED BY <2>1, <2>2
<1>3. /\ t \in Seq(Entries) /\ Len(t) = Len(s) /\ Distinct(t)
      /\ Range(t) = (Range(s) \ {s[i]}) \cup {s[i]}
      /\ \A m : Count(t, m) = Count(s, m) - One(s[i].node = m) + One(s[i].node = m)
  BY <1>1, FrontIs
<1>4. \A m : Count(t, m) = Count(s, m)
  <2>1. \A m : Count(s, m) \in Nat
    BY <1>1, OnFinite
  <2> QED BY <1>3, <2>1 DEF One
<1>5. s[i] \in Range(s)
  BY DEF Range
<1> HIDE DEF t
<1>6. a.lru = t /\ a.placed = q.placed /\ a = [lru |-> a.lru, placed |-> a.placed]
  BY <1>2
<1> HIDE DEF a
<1>7. Agree(a)
  BY <1>3, <1>4, <1>6 DEF Agree
<1> QED BY <1>3, <1>5, <1>6, <1>7 DEF a

LEMMA ReplaceIs ==
  ASSUME NEW q, Agree(q), NEW i \in DOMAIN q.lru, NEW n \in Nodes
  PROVE  LET a == Replace(q, i, n)
         IN  /\ Agree(a)
             /\ Range(a.lru) = (Range(q.lru) \ {q.lru[i]}) \cup {Entry(q.lru[i].key, n)}
<1> DEFINE s == q.lru
           t == <<Entry(s[i].key, n)>> \o RemoveAt(s, i)
           a == Replace(q, i, n)
           c == IF s[i].node = n THEN q.placed
                ELSE [q.placed EXCEPT ![s[i].node] = @ - 1, ![n] = @ + 1]
<1>1. /\ s \in Seq(Entries) /\ Distinct(s) /\ s[i] \in Entries /\ s[i].node \in Nodes
      /\ q.placed \in [Nodes -> Nat] /\ \A m \in Nodes : q.placed[m] = Count(s, m)
  BY EntryParts DEF Agree
<1>2. a = [lru |-> t, placed |-> c]
  BY DEF Replace
<1>3. /\ t \in Seq(Entries) /\ Len(t) = Len(s) /\ Distinct(t)
      /\ Range(t) = (Range(s) \ {s[i]}) \cup {Entry(s[i].key, n)}
      /\ \A m : Count(t, m) = Count(s, m) - One(s[i].node = m) + One(n = m)
  BY <1>1, FrontIs
<1>c. \A m : Count(s, m) \in Nat /\ Count(t, m) \in Nat
  <2> HIDE DEF t
  <2> QED BY <1>1, <1>3, OnFinite
<1> HIDE DEF t
<1>4. c = [m \in Nodes |-> c[m]]
  BY <1>1
<1>5. \A m \in Nodes : c[m] = Count(t, m)
  BY <1>1, <1>3, <1>c, SMTT(30) DEF One
<1> HIDE DEF c
<1>6. c \in [Nodes -> Nat]
  BY <1>4, <1>5, <1>c
<1>7. a.lru = t /\ a.placed = c /\ a = [lru |-> a.lru, placed |-> a.placed]
  BY <1>2
<1> HIDE DEF a
<1>8. Agree(a)
  BY <1>3, <1>5, <1>6, <1>7 DEF Agree
<1> QED BY <1>3, <1>7, <1>8 DEF a

\* A new key: nothing is forgotten while there is space, else the oldest entry is.
Inserted(q, k, n, a) ==
  LET c == <<Entry(k, n)>> \o q.lru IN
  /\ Len(q.lru) < PlacementSize =>
       /\ Range(a.lru) = Range(q.lru) \cup {Entry(k, n)}
       /\ \A m \in Nodes : a.placed[m] = q.placed[m] + One(m = n)
  /\ Len(q.lru) = PlacementSize =>
       Range(a.lru) = (Range(q.lru) \cup {Entry(k, n)}) \ {c[PlacementSize + 1]}

LEMMA InsertIs ==
  ASSUME NEW q, Agree(q), NEW k \in Keys, At(q, k) = {}, NEW n \in Nodes
  PROVE  Agree(Insert(q, k, n)) /\ Inserted(q, k, n, Insert(q, k, n))
<1> DEFINE s == q.lru
           e == Entry(k, n)
           c == <<e>> \o s
           L == Len(s)
           gone == {i \in DOMAIN c : i > PlacementSize}
           lost(m) == {i \in gone : c[i].node = m}
           a == Insert(q, k, n)
<1>1. /\ s \in Seq(Entries) /\ Distinct(s) /\ L \in Nat /\ DOMAIN s = 1 .. L
      /\ L <= PlacementSize /\ PlacementSize \in Nat
      /\ q.placed \in [Nodes -> Nat] /\ \A m \in Nodes : q.placed[m] = Count(s, m)
  BY PlacementAssumption DEF Agree
<1>2. e \in Entries /\ e.key = k /\ e.node = n
  BY EntryIs
<1> HIDE DEF e
<1>3. /\ c \in Seq(Entries) /\ Len(c) = L + 1 /\ DOMAIN c = 1 .. L + 1
      /\ c[1] = e /\ \A j \in 1 .. L : c[j + 1] = s[j]
  BY <1>1, <1>2, ConsIs
<1>4. \A m : Count(c, m) = Count(s, m) + One(n = m) /\ Count(s, m) \in Nat
  BY <1>1, <1>2, CountCons, OnFinite DEF One
<1> HIDE DEF c
<1>5. \A j \in 1 .. L : s[j].key # k
  BY <1>1 DEF At
<1>5a. \A j \in 2 .. L + 1 : j - 1 \in 1 .. L /\ c[j] = s[j - 1]
  <2> TAKE j \in 2 .. L + 1
  <2>1. j - 1 \in 1 .. L /\ (j - 1) + 1 = j
    BY <1>1
  <2> QED BY <1>3, <2>1
<1>6. Distinct(c)
  <2> SUFFICES ASSUME NEW i \in 1 .. L + 1, NEW j \in 1 .. L + 1, c[i].key = c[j].key
               PROVE  i = j
    BY <1>3 DEF Distinct
  <2>1. CASE i = 1 /\ j # 1
    BY <1>1, <1>2, <1>3, <1>5, <1>5a, <2>1, SMTT(30)
  <2>2. CASE i # 1 /\ j = 1
    BY <1>1, <1>2, <1>3, <1>5, <1>5a, <2>2, SMTT(30)
  <2>3. CASE i # 1 /\ j # 1
    <3>1. i \in 2 .. L + 1 /\ j \in 2 .. L + 1
      BY <1>1, <2>3
    <3>2. s[i - 1].key = s[j - 1].key /\ i - 1 \in 1 .. L /\ j - 1 \in 1 .. L
      BY <1>5a, <3>1
    <3>3. i - 1 = j - 1
      BY <1>1, <3>2, SMTT(30) DEF Distinct
    <3> QED BY <3>1, <3>3
  <2> QED BY <2>1, <2>2, <2>3
<1>7. Range(c) = Range(s) \cup {e}
  <2>1. /\ Range(c) = {c[j] : j \in 1 .. L + 1} /\ Range(s) = {s[j] : j \in 1 .. L}
    BY <1>1, <1>3 DEF Range
  <2>2. ASSUME NEW j \in 1 .. L + 1 PROVE c[j] \in Range(s) \cup {e}
    <3>1. j = 1 \/ j \in 2 .. L + 1
      BY <1>1
    <3> QED BY <1>3, <1>5a, <2>1, <3>1
  <2>3. ASSUME NEW j \in 1 .. L PROVE s[j] \in Range(c)
    <3>1. j + 1 \in 1 .. L + 1
      BY <1>1
    <3> QED BY <1>3, <2>1, <3>1
  <2>4. e \in Range(c)
    BY <1>1, <1>3, <2>1
  <2> QED BY <2>1, <2>2, <2>3, <2>4, SMTT(30)
<1>8. /\ a = [lru |-> a.lru, placed |-> a.placed]
      /\ a.lru = SubSeq(c, 1, (L + 1) - Cardinality(gone))
      /\ a.placed = [m \in Nodes |-> q.placed[m] + (IF m = n THEN 1 ELSE 0) - Cardinality(lost(m))]
  <2> DEFINE l  == SubSeq(c, 1, Len(c) - Cardinality(gone))
             pl == [m \in Nodes |->
                      q.placed[m] + (IF m = n THEN 1 ELSE 0) - Cardinality(lost(m))]
  <2>1. a = [lru |-> l, placed |-> pl]
    BY DEF Insert, c, e
  <2> HIDE DEF l, pl, a
  <2>2. a.lru = l /\ a.placed = pl /\ a = [lru |-> a.lru, placed |-> a.placed]
    BY <2>1
  <2> HIDE DEF lost, gone
  <2>3. l = SubSeq(c, 1, (L + 1) - Cardinality(gone))
    <3>1. Len(c) = L + 1
      BY <1>3
    <3> HIDE DEF L
    <3> QED BY <3>1 DEF l
  <2> QED BY <2>2, <2>3 DEF pl
<1> HIDE DEF a
<1>9. CASE L < PlacementSize
  <2>1. gone = {} /\ \A m : lost(m) = {}
    BY <1>1, <1>3, <1>9
  <2> HIDE DEF gone, lost
  <2>2. a.lru = c
    <3>1. (L + 1) - Cardinality(gone) = Len(c)
      BY <1>1, <1>3, <2>1, FS_EmptySet
    <3> QED BY <1>3, <1>8, <3>1
  <2>3. \A m \in Nodes : a.placed[m] = q.placed[m] + One(m = n)
    <3>1. \A m : Cardinality(lost(m)) = 0
      BY <2>1, FS_EmptySet
    <3>2. \A m \in Nodes : q.placed[m] \in Nat
      BY <1>1
    <3> QED BY <1>8, <3>1, <3>2 DEF One
  <2>4. \A m \in Nodes : a.placed[m] = Count(c, m) /\ a.placed[m] \in Nat
    BY <1>1, <1>4, <2>3 DEF One
  <2>5. a.placed \in [Nodes -> Nat]
    BY <1>8, <2>4
  <2>6. Agree(a)
    <3>1. Len(a.lru) <= PlacementSize
      BY <1>1, <1>3, <1>9, <2>2
    <3> QED BY <1>3, <1>6, <1>8, <2>2, <2>4, <2>5, <3>1 DEF Agree
  <2> QED BY <1>7, <1>9, <2>2, <2>3, <2>6 DEF a, e, c, Inserted
<1>10. CASE L = PlacementSize
  <2>1. gone = {L + 1} /\ \A m : lost(m) = IF c[L + 1].node = m THEN {L + 1} ELSE {}
    BY <1>1, <1>3, <1>10
  <2>2. Cardinality(gone) = 1 /\ \A m : Cardinality(lost(m)) = One(c[L + 1].node = m)
    <3> HIDE DEF gone, lost
    <3> QED BY <2>1, FS_Singleton, FS_EmptySet DEF One
  <2> HIDE DEF gone, lost
  <2> DEFINE r == RemoveAt(c, L + 1)
  <2>3. a.lru = SubSeq(c, 1, L)
    BY <1>1, <1>8, <2>2
  <2>4. r = SubSeq(c, 1, L)
    <3>1. SubSeq(c, L + 2, L + 1) = <<>>
      BY <1>1
    <3>2. SubSeq(c, 1, L) \in Seq(Entries)
      <4>1. \A i \in 1 .. L : c[i] \in Entries
        BY <1>1, <1>3
      <4> QED BY <1>1, <4>1
    <3>3. r = SubSeq(c, 1, (L + 1) - 1) \o SubSeq(c, (L + 1) + 1, Len(c))
      <4> HIDE DEF L
      <4> QED BY DEF RemoveAt
    <3>4. (L + 1) - 1 = L /\ (L + 1) + 1 = L + 2 /\ Len(c) = L + 1
      BY <1>1, <1>3
    <3> QED BY <3>1, <3>2, <3>3, <3>4
  <2>5. L + 1 \in DOMAIN c
    BY <1>1, <1>3
  <2>6. /\ r \in Seq(Entries) /\ Len(r) = L /\ DOMAIN r = 1 .. L
        /\ \A j \in 1 .. L : r[j] = c[j]
    <3>1. /\ r \in Seq(Entries) /\ Len(r) = Len(c) - 1
          /\ \A j \in 1 .. Len(c) - 1 : r[j] = IF j < L + 1 THEN c[j] ELSE c[j + 1]
      BY <1>3, <2>5, RemoveAtIs, SMTT(30)
    <3> HIDE DEF r
    <3> QED BY <1>1, <1>3, <3>1
  <2>7. \A m : Count(r, m) = Count(c, m) - One(c[L + 1].node = m) /\ Count(r, m) \in Nat
    BY <1>3, <2>5, <2>6, CountRemoveAt, OnFinite DEF One
  <2> HIDE DEF r
  <2>8. Distinct(r)
    BY <1>1, <1>3, <1>6, <2>6 DEF Distinct
  <2>9. \A m \in Nodes : a.placed[m] = Count(r, m)
    BY <1>1, <1>4, <1>8, <2>2, <2>7, SMTT(30) DEF One
  <2>10. a.placed \in [Nodes -> Nat]
    BY <1>8, <2>7, <2>9
  <2>11. Agree(a)
    BY <1>1, <1>8, <1>10, <2>3, <2>4, <2>6, <2>8, <2>9, <2>10 DEF Agree
  <2>12. Range(r) = Range(c) \ {c[L + 1]}
    <3>1. Range(r) = {c[j] : j \in 1 .. L} /\ Range(c) = {c[j] : j \in 1 .. L + 1}
      BY <1>3, <2>6, SMTT(30) DEF Range
    <3>2. \A i, j \in 1 .. L + 1 : c[i] = c[j] => i = j
      BY <1>3, <1>6, SMTT(30) DEF Distinct
    <3>3. \A j \in 1 .. L + 1 : j \in 1 .. L <=> j # L + 1
      BY <1>1
    <3>4. L + 1 \in 1 .. L + 1
      BY <1>1
    <3> QED BY <3>1, <3>2, <3>3, <3>4
  <2> QED BY <1>7, <1>10, <2>3, <2>4, <2>11, <2>12 DEF a, e, c, Inserted
<1> QED BY <1>1, <1>9, <1>10

\* leastPlaced finds one: the fewest keys placed, then the fewest requests in
\* flight, then the best rank.
LEMMA LeastPlacedIs ==
  ASSUME NEW q, q.placed \in [Nodes -> Nat], NEW load \in [Nodes -> Nat],
         NEW order \in Seq(Nodes), DOMAIN order # {}
  PROVE  LET i == leastPlaced(q, load, order)
         IN  /\ i \in DOMAIN order
             /\ \A j \in DOMAIN order : q.placed[order[i]] <= q.placed[order[j]]
<1> DEFINE c(j) == q.placed[order[j]]
           l(j) == load[order[j]]
           Before(i, j) == \/ c(i) < c(j)
                           \/ c(i) = c(j) /\ l(i) < l(j)
                           \/ c(i) = c(j) /\ l(i) = l(j) /\ i <= j
           C == {c(j) : j \in DOMAIN order}
<1>1. \A j \in DOMAIN order : j \in Nat /\ order[j] \in Nodes /\ c(j) \in Nat /\ l(j) \in Nat
  OBVIOUS
<1> HIDE DEF c, l
<1>2. C \subseteq Nat /\ C # {}
  BY <1>1
<1>3. PICK v \in C : \A w \in C : v <= w
  BY <1>2, LeastNat
<1> DEFINE L == {l(j) : j \in {h \in DOMAIN order : c(h) = v}}
<1>4. L \subseteq Nat /\ L # {}
  BY <1>1, <1>3, SMTT(30)
<1>5. PICK u \in L : \A w \in L : u <= w
  BY <1>4, LeastNat
<1> DEFINE J == {j \in DOMAIN order : c(j) = v /\ l(j) = u}
<1>6. J \subseteq Nat /\ J # {}
  BY <1>1, <1>5, SMTT(30)
<1>7. PICK x \in J : \A w \in J : x <= w
  BY <1>6, LeastNat
<1>8. ASSUME NEW j \in DOMAIN order PROVE Before(x, j)
  <2>1. c(x) = v /\ l(x) = u /\ v \in Nat /\ u \in Nat /\ c(j) \in Nat /\ l(j) \in Nat
    BY <1>1, <1>2, <1>3, <1>4, <1>5, <1>7
  <2>2. v <= c(j)
    BY <1>3
  <2>3. c(j) = v => u <= l(j)
    BY <1>5
  <2>4. c(j) = v /\ l(j) = u => x <= j
    BY <1>7
  <2> QED BY <2>1, <2>2, <2>3, <2>4, SMTT(30)
<1>9. x \in DOMAIN order
  BY <1>7
<1> DEFINE i == leastPlaced(q, load, order)
<1>10. i = CHOOSE z \in DOMAIN order : \A j \in DOMAIN order : Before(z, j)
  BY DEF leastPlaced, c, l
<1> HIDE DEF i, Before
<1>11. i \in DOMAIN order /\ \A j \in DOMAIN order : Before(i, j)
  BY <1>8, <1>9, <1>10, SMTT(30)
<1>12. ASSUME NEW j \in DOMAIN order PROVE c(i) <= c(j)
  <2>1. Before(i, j) /\ c(i) \in Nat /\ c(j) \in Nat
    BY <1>1, <1>11
  <2> QED BY <2>1, SMTT(30) DEF Before
<1> QED BY <1>11, <1>12 DEF i, c

\* What placeLocked may do to the memory: refresh the key, leave a key whose
\* node only this request has tried, remember a new key, or move a key whose
\* node is not available.
PlaceOutcome(q, k, order, load, exclude, avail) ==
  LET a == placeLocked(q, k, order, load, exclude, avail)
      n == order[leastPlaced(q, load, order)]
  IN  /\ a.at \in DOMAIN order
      /\ \/ \E i \in At(q, k) : a.p = MoveToFront(q, i)
         \/ At(q, k) # {} /\ a.p = q
         \/ At(q, k) = {} /\ a.p = Insert(q, k, n)
         \/ \E i \in At(q, k) :
              /\ a.p = Replace(q, i, n)
              /\ q.lru[i].node \notin Range(order)
              /\ q.lru[i].node \notin exclude \cap avail

LEMMA PlaceCases ==
  ASSUME NEW q, Agree(q), NEW k \in Keys, NEW order \in Seq(Nodes), DOMAIN order # {},
         NEW load \in [Nodes -> Nat], NEW exclude, NEW avail
  PROVE  PlaceOutcome(q, k, order, load, exclude, avail)
<1> DEFINE a == placeLocked(q, k, order, load, exclude, avail)
           at == At(q, k)
           here == {j \in DOMAIN order : \E i \in at : q.lru[i].node = order[j]}
           least == leastPlaced(q, load, order)
           keep == \E i \in at : q.lru[i].node \in exclude \cap avail
           one == CHOOSE i \in at : TRUE
<1>1. least \in DOMAIN order
  BY LeastPlacedIs DEF Agree
<1>2. CASE here # {}
  <2>1. a = [p |-> MoveToFront(q, one), at |-> CHOOSE j \in here : TRUE]
    BY <1>2 DEF placeLocked
  <2>2. one \in at /\ (CHOOSE j \in here : TRUE) \in here
    BY <1>2
  <2> HIDE DEF a, one
  <2>3. a.p = MoveToFront(q, one) /\ a.at \in DOMAIN order
    BY <2>1, <2>2
  <2> QED BY <2>2, <2>3 DEF a, PlaceOutcome
<1>3. CASE here = {} /\ keep
  <2>1. a = [p |-> q, at |-> least]
    BY <1>3 DEF placeLocked
  <2> QED BY <1>1, <1>3, <2>1 DEF PlaceOutcome
<1>4. CASE here = {} /\ ~keep
  <2>1. a = [p |-> setPlacementLocked(q, k, order[least]), at |-> least]
    BY <1>4 DEF placeLocked
  <2>2. a.p = setPlacementLocked(q, k, order[least]) /\ a.at = least
    BY <2>1
  <2> HIDE DEF least, a
  <2>3. CASE at = {}
    <3>1. a.p = Insert(q, k, order[least])
      BY <2>2, <2>3 DEF setPlacementLocked
    <3> QED BY <1>1, <2>2, <2>3, <3>1 DEF a, least, PlaceOutcome
  <2>4. CASE at # {}
    <3>1. a.p = Replace(q, one, order[least]) /\ one \in at
      BY <2>2, <2>4 DEF setPlacementLocked
    <3>2. q.lru[one].node \notin Range(order)
      BY <1>4, <3>1 DEF Range
    <3>3. q.lru[one].node \notin exclude \cap avail
      BY <1>4, <3>1
    <3> QED BY <1>1, <2>2, <3>1, <3>2, <3>3 DEF a, least, PlaceOutcome
  <2> QED BY <2>3, <2>4
<1> QED BY <1>2, <1>3, <1>4

\* Whatever it does, map, list and counters agree afterwards.
LEMMA PlaceAgrees ==
  ASSUME NEW q, Agree(q), NEW k \in Keys, NEW order \in Seq(Nodes), DOMAIN order # {},
         NEW load \in [Nodes -> Nat], NEW exclude, NEW avail
  PROVE  Agree(placeLocked(q, k, order, load, exclude, avail).p)
<1> DEFINE a == placeLocked(q, k, order, load, exclude, avail)
           n == order[leastPlaced(q, load, order)]
<1>1. n \in Nodes
  <2>1. leastPlaced(q, load, order) \in DOMAIN order
    BY LeastPlacedIs DEF Agree
  <2> QED BY <2>1
<1>2. \A i \in At(q, k) : i \in DOMAIN q.lru
  BY DEF At
<1>3. /\ a.at \in DOMAIN order
      /\ \/ \E i \in At(q, k) : a.p = MoveToFront(q, i)
         \/ At(q, k) # {} /\ a.p = q
         \/ At(q, k) = {} /\ a.p = Insert(q, k, n)
         \/ \E i \in At(q, k) :
              /\ a.p = Replace(q, i, n)
              /\ q.lru[i].node \notin Range(order)
              /\ q.lru[i].node \notin exclude \cap avail
  <2>1. PlaceOutcome(q, k, order, load, exclude, avail)
    BY PlaceCases
  <2> QED BY <2>1 DEF PlaceOutcome
<1> HIDE DEF a, n
<1>4. CASE \E i \in At(q, k) : a.p = MoveToFront(q, i)
  BY <1>2, <1>4, MoveToFrontIs DEF a
<1>5. CASE At(q, k) = {} /\ a.p = Insert(q, k, n)
  <2>1. Agree(Insert(q, k, n))
    BY <1>1, <1>5, InsertIs
  <2> QED BY <1>5, <2>1 DEF a
<1>6. CASE \E i \in At(q, k) : a.p = Replace(q, i, n)
  BY <1>1, <1>2, <1>6, ReplaceIs DEF a
<1> QED BY <1>3, <1>4, <1>5, <1>6 DEF a

\* The preferred node moves to the front; the candidates stay the same.
LEMMA PreferIs ==
  ASSUME NEW S, NEW order \in Seq(S), NEW j \in DOMAIN order
  PROVE  /\ Prefer(order, j) \in Seq(S) /\ Len(Prefer(order, j)) = Len(order)
         /\ Range(Prefer(order, j)) = Range(order)
<1> DEFINE r == RemoveAt(order, j)
           t == <<order[j]>> \o r
           L == Len(order)
<1>1. /\ r \in Seq(S) /\ Len(r) = L - 1
      /\ \A h \in 1 .. L - 1 : r[h] = IF h < j THEN order[h] ELSE order[h + 1]
  BY RemoveAtIs
<1>2. L \in Nat /\ j \in 1 .. L /\ DOMAIN order = 1 .. L /\ order[j] \in S
  OBVIOUS
<1> HIDE DEF r
<1>3. /\ t \in Seq(S) /\ Len(t) = Len(r) + 1 /\ DOMAIN t = 1 .. Len(r) + 1
      /\ t[1] = order[j] /\ \A h \in 1 .. Len(r) : t[h + 1] = r[h]
  BY <1>1, <1>2, ConsIs
<1>4. Len(r) + 1 = L /\ Len(t) = L /\ DOMAIN t = 1 .. L
  <2> HIDE DEF L
  <2> QED BY <1>1, <1>2, <1>3
<1> HIDE DEF t, L
<1>5. Range(t) = {t[h] : h \in 1 .. L} /\ Range(order) = {order[h] : h \in 1 .. L}
  BY <1>2, <1>4 DEF Range
<1>6. ASSUME NEW h \in 1 .. L PROVE t[h] \in Range(order)
  <2>1. CASE h = 1
    BY <1>2, <1>3, <1>5, <2>1
  <2>2. CASE h # 1
    <3>1. PICK g \in 1 .. L - 1 : h = g + 1
      <4>1. h - 1 \in 1 .. L - 1 /\ h = (h - 1) + 1
        BY <1>2, <2>2
      <4> QED BY <4>1
    <3>2. t[h] = r[g] /\ g \in 1 .. L /\ g + 1 \in 1 .. L
      BY <1>1, <1>2, <1>3, <3>1
    <3> QED BY <1>1, <1>5, <3>2
  <2> QED BY <2>1, <2>2
<1>7. ASSUME NEW h \in 1 .. L PROVE order[h] \in Range(t)
  <2>1. CASE h = j
    <3>1. 1 \in 1 .. L
      BY <1>2
    <3> QED BY <1>3, <1>5, <2>1, <3>1
  <2>2. CASE h < j
    <3>1. h \in 1 .. L - 1 /\ h + 1 \in 1 .. L
      BY <1>2, <2>2
    <3>2. t[h + 1] = order[h]
      BY <1>1, <1>3, <2>2, <3>1
    <3> QED BY <1>5, <3>1, <3>2
  <2>3. CASE h > j
    <3>1. PICK g \in 1 .. L - 1 : h = g + 1
      <4>1. h - 1 \in 1 .. L - 1 /\ h = (h - 1) + 1
        BY <1>2, <2>3
      <4> QED BY <4>1
    <3>2. ~(g < j)
      BY <1>2, <2>3, <3>1
    <3>3. t[h] = order[h]
      BY <1>1, <1>3, <3>1, <3>2
    <3> QED BY <1>5, <3>3
  <2> QED BY <1>2, <2>1, <2>2, <2>3
<1>8. Range(t) = Range(order)
  BY <1>5, <1>6, <1>7
<1> QED BY <1>3, <1>4, <1>8 DEF t, r, L, Prefer
=============================================================================
