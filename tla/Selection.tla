------------------------------ MODULE Selection ------------------------------
(***************************************************************************)
(* How the router ranks candidates and bounds their load: the pure part of *)
(* tryPickLocked (router/router.go).  A 64-bit rendezvous score is any     *)
(* value of the constant Score; all the code does with scores is to sort.  *)
(* The load factor, a float in the code, is the fraction LoadNum/LoadDen.  *)
(***************************************************************************)
EXTENDS Integers, Sequences, FiniteSets, FiniteSetsExt

CONSTANTS
  Nodes,           \* the SGLang nodes
  Keys,            \* routing keys (hashes of the system prompt)
  Score,           \* Score[k][n]: rendezvous score of node n for key k
  MaxConcurrent,   \* MaxConcurrent[n]: concurrency limit of node n
  LoadNum,         \* numerator of Options.BoundedLoadFactor
  LoadDen,         \* its denominator
  AffinityFloor    \* Options.AffinityFloor

ASSUME SelectionAssumption ==
  /\ IsFiniteSet(Nodes)
  /\ Score \in [Keys -> [Nodes -> Nat]]
  /\ \A k \in Keys : \A m, n \in Nodes : Score[k][m] = Score[k][n] => m = n
  /\ MaxConcurrent \in [Nodes -> Int]
  /\ LoadNum \in Int /\ LoadDen \in Nat \ {0}
  /\ AffinityFloor \in Int

\* New raises a factor below 1 and a floor below 1 to 1.
loadNum       == IF LoadNum < LoadDen THEN LoadDen ELSE LoadNum
affinityFloor == IF AffinityFloor < 1 THEN 1 ELSE AffinityFloor

\* A sequence without its element at position i.
RemoveAt(s, i) == SubSeq(s, 1, i - 1) \o SubSeq(s, i + 1, Len(s))

BestFirst(k, order) ==
  \A i, j \in DOMAIN order : i < j => Score[k][order[i]] > Score[k][order[j]]

\* Mutant: the best node is picked by counting, as hash % N does.
Ranking_ByCount(k, cands) ==
  LET order == CHOOSE o \in [1 .. Cardinality(cands) -> cands] : BestFirst(k, o)
      shift == IF cands = {} THEN 0 ELSE 4 % Cardinality(cands)
  IN  SubSeq(order, shift + 1, Len(order)) \o SubSeq(order, 1, shift)

\* The candidates in rendezvous order, best score first.  Scores that fall
\* strictly repeat no node, so as many places as candidates list them all.
Ranking(k, cands) ==
  CHOOSE order \in [1 .. Cardinality(cands) -> cands] : BestFirst(k, order)

\* Mutant: the floor is left out.
Limit_NoFloor(inflight, cands) ==
  LET total == MapThenSumSet(LAMBDA n : inflight[n], cands)
      den   == LoadDen * Cardinality(cands)
  IN  (loadNum * (total + 1) + den - 1) \div den

\* The bounded-load limit: the load factor times the mean load of the
\* candidates with this request added, rounded up, and at least the floor.
Limit(inflight, cands) ==
  LET total == MapThenSumSet(LAMBDA n : inflight[n], cands)
      den   == LoadDen * Cardinality(cands)
      bound == (loadNum * (total + 1) + den - 1) \div den
  IN  IF bound < affinityFloor THEN affinityFloor ELSE bound

\* Mutant: one request too many.
HasSlot_OffByOne(inflight, n) == inflight[n] <= MaxConcurrent[n]

HasSlot(inflight, n) == inflight[n] < MaxConcurrent[n]

\* Mutant: the bound is forgotten.
HasRoom_Unbounded(inflight, cands, n) == HasSlot(inflight, n)

\* A node the request may go to in rank order: a free slot, and under the bound.
HasRoom(inflight, cands, n) ==
  HasSlot(inflight, n) /\ inflight[n] < Limit(inflight, cands)

\* Mutant: a preferred node is waited for although it has a free slot.
PreferredBusy_Always(inflight, cands, n) == inflight[n] < Limit(inflight, cands)

\* A preferred node worth waiting for: full, but not over the hot-spot bound.
PreferredBusy(inflight, cands, n) ==
  ~HasSlot(inflight, n) /\ inflight[n] < Limit(inflight, cands)

\* The positions of order, from position i on, at which a lease is tried.
TryAt(inflight, order, i) ==
  {j \in i .. Len(order) : HasRoom(inflight, Range(order), order[j])}

\* Mutant: no spilling.
SpillAt_Never(inflight, order) == {}

\* The last resort: the first of the least loaded nodes with a free slot.
SpillAt(inflight, order) ==
  LET open == {j \in DOMAIN order : HasSlot(inflight, order[j])}
  IN  {j \in open : \A h \in open :
         \/ inflight[order[j]] < inflight[order[h]]
         \/ inflight[order[j]] = inflight[order[h]] /\ j <= h}
=============================================================================
