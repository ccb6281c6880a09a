---------------------------- MODULE RoutingProofs ----------------------------
(***************************************************************************)
(* Proofs about the routing decision and its placement memory (Routing),   *)
(* for any number of nodes and keys, any scores, limits, load factor and   *)
(* floor, and any size of the memory, none included.                       *)
(***************************************************************************)
EXTENDS Routing, SelectionProofs

-----------------------------------------------------------------------------
(***************************************************************************)
(* What a decision does is a matter of what the operators return, given    *)
(* the types of the counters.  SpreadEvenly is inductive only together     *)
(* with the agreement of counters and list, and with what smooth implies:  *)
(* while it holds every node is available, so that no remembered key has   *)
(* to move.                                                                *)
(***************************************************************************)
IInv ==
  /\ inflight \in [Nodes -> Nat]
  /\ Agree(p)
  /\ avail \in SUBSET Nodes
  /\ smooth \in BOOLEAN
  /\ smooth => avail = Nodes
  /\ SpreadEvenly

\* The rank order of the candidates.
LEMMA OrderIs ==
  ASSUME IInv, NEW k \in Keys, NEW exclude, avail \ exclude # {}
  PROVE  LET order == Ranking(k, avail \ exclude)
         IN  order \in Seq(Nodes) /\ DOMAIN order # {} /\ Range(order) = avail \ exclude
<1> DEFINE cands == avail \ exclude
           order == Ranking(k, cands)
<1>1. cands \in SUBSET Nodes /\ IsFiniteSet(cands)
  BY SelectionAssumption, FS_Subset DEF IInv
<1>2. order \in Orders(cands)
  BY <1>1, RankingIs
<1> HIDE DEF order, cands
<1>3. /\ order \in Seq(cands) /\ DOMAIN order = 1 .. Len(order)
      /\ \A n \in cands : \E i \in 1 .. Len(order) : order[i] = n
      /\ Range(order) = cands
  <2>1. IsFiniteSet(cands)
    BY <1>1
  <2> QED BY <1>2, <2>1, SeqsOfSet
<1>4. order \in Seq(Nodes)
  BY <1>1, <1>3
<1>5. DOMAIN order # {}
  BY <1>3 DEF cands
<1> QED BY <1>3, <1>4, <1>5 DEF order, cands

\* The placed node is one of the candidates.
LEMMA PlacedIs ==
  ASSUME IInv, NEW k \in Keys, NEW exclude, avail \ exclude # {}
  PROVE  Placed(k, exclude).at \in DOMAIN Ranking(k, avail \ exclude)
<1> DEFINE order == Ranking(k, avail \ exclude)
<1>1. order \in Seq(Nodes) /\ DOMAIN order # {}
  BY OrderIs
<1>2. Agree(p) /\ inflight \in [Nodes -> Nat]
  BY DEF IInv
<1>3. Placed(k, exclude) = placeLocked(p, k, order, inflight, exclude, avail)
  BY DEF Placed
<1> HIDE DEF order
<1>4. PlaceOutcome(p, k, order, inflight, exclude, avail)
  BY <1>1, <1>2, PlaceCases
<1> QED BY <1>3, <1>4 DEF PlaceOutcome, order

LEMMA PreferredFirst ==
  ASSUME NEW S, NEW order \in Seq(S), NEW j \in DOMAIN order
  PROVE  Prefer(order, j)[1] = order[j]
<1> DEFINE r == RemoveAt(order, j)
<1>1. r \in Seq(S) /\ order[j] \in S
  BY RemoveAtIs
<1> HIDE DEF r
<1>2. (<<order[j]>> \o r)[1] = order[j]
  BY <1>1, ConsIs
<1> QED BY <1>2 DEF Prefer, r

\* The order in which the candidates are tried lists all of them.
LEMMA OrderedIs ==
  ASSUME IInv, NEW k \in Keys, NEW exclude \in Excludes
  PROVE  LET order == Ordered(k, exclude)
         IN  /\ order \in Seq(Nodes) /\ Range(order) = avail \ exclude
             /\ Len(order) \in Nat /\ DOMAIN order = 1 .. Len(order) /\ 1 \in DOMAIN order
             /\ \A n \in avail \ exclude : \E i \in DOMAIN order : order[i] = n
             /\ \A i \in DOMAIN order : order[i] \in avail \ exclude
<1> DEFINE cands == avail \ exclude
           rank == Ranking(k, cands)
           order == Ordered(k, exclude)
<1>1. rank \in Seq(Nodes) /\ DOMAIN rank # {} /\ Range(rank) = cands
  BY OrderIs DEF Excludes
<1>2. order = rank \/ order = Prefer(rank, Placed(k, exclude).at)
  BY DEF Ordered
<1>3. Placed(k, exclude).at \in DOMAIN rank
  BY PlacedIs DEF Excludes
<1> HIDE DEF rank
<1>4. order \in Seq(Nodes) /\ Range(order) = cands /\ Len(order) = Len(rank)
  <2>1. CASE order = rank
    BY <1>1, <2>1
  <2>2. CASE order = Prefer(rank, Placed(k, exclude).at)
    <3>1. rank \in Seq(Nodes)
      BY <1>1
    <3> QED BY <1>1, <1>3, <2>2, <3>1, PreferIs
  <2> QED BY <1>2, <2>1, <2>2
<1> HIDE DEF order, cands
<1>5. Len(order) \in Nat /\ DOMAIN order = 1 .. Len(order) /\ 1 \in DOMAIN order
  BY <1>1, <1>4
<1>6. /\ \A n \in cands : \E i \in DOMAIN order : order[i] = n
      /\ \A i \in DOMAIN order : order[i] \in cands
  BY <1>4 DEF Range
<1> QED BY <1>4, <1>5, <1>6 DEF order, cands

\* Who is chosen: the first candidate with room in that order, else one of the
\* least loaded candidates with a free slot when no candidate has room.
LEMMA ChosenIs ==
  ASSUME IInv, NEW k \in Keys, NEW exclude \in Excludes, NEW n \in Chosen(k, exclude)
  PROVE  LET cands == avail \ exclude IN
         /\ n \in cands /\ HasSlot(inflight, n)
         /\ \/ HasRoom(inflight, cands, n)
            \/ /\ \A m \in cands : ~HasRoom(inflight, cands, m)
               /\ \A m \in cands : HasSlot(inflight, m) => inflight[n] <= inflight[m]
<1> DEFINE cands == avail \ exclude
           order == Ordered(k, exclude)
           try == TryAt(inflight, order, 1)
<1>1. /\ order \in Seq(Nodes) /\ Range(order) = cands
      /\ DOMAIN order = 1 .. Len(order)
      /\ \A m \in cands : \E i \in DOMAIN order : order[i] = m
      /\ \A i \in DOMAIN order : order[i] \in cands
  BY OrderedIs
<1>2. inflight \in [Nodes -> Nat]
  BY DEF IInv
<1>2a. n \in Pick(order)
  BY DEF Chosen
<1> HIDE DEF order, cands
<1>3. CASE try # {}
  <2>1. n = order[Min(try)]
    BY <1>2a, <1>3 DEF Pick
  <2>2. Min(try) \in DOMAIN order /\ HasRoom(inflight, Range(order), order[Min(try)])
    <3>1. order \in Seq(Nodes) /\ 1 \in Nat \ {0}
      BY <1>1
    <3>2. TryAt(inflight, order, 1) # {}
      BY <1>3
    <3> QED BY <3>1, <3>2, TriedNext, SMTT(30)
  <2> HIDE DEF try
  <2>3. HasRoom(inflight, cands, n) /\ n \in cands
    BY <1>1, <2>1, <2>2
  <2> QED BY <2>3 DEF HasRoom, cands
<1>4. CASE try = {}
  <2>1. PICK j \in SpillAt(inflight, order) : n = order[j]
    BY <1>2a, <1>4 DEF Pick
  <2>2. /\ j \in DOMAIN order /\ HasSlot(inflight, order[j])
        /\ \A h \in DOMAIN order :
             HasSlot(inflight, order[h]) => inflight[order[j]] <= inflight[order[h]]
    <3>1. order \in Seq(Nodes)
      BY <1>1
    <3> QED BY <1>2, <3>1, SpillsToLeast
  <2>3. \A m \in cands : ~HasRoom(inflight, cands, m)
    BY <1>1, <1>4 DEF TryAt
  <2> QED BY <1>1, <2>1, <2>2, <2>3 DEF cands
<1> QED BY <1>3, <1>4

\* The keys and nodes a list holds, without their order.
Where(q, k) == {q.lru[i].node : i \in At(q, k)}

LEMMA WhereIs ==
  ASSUME NEW q, NEW k
  PROVE  Where(q, k) = {e.node : e \in {x \in Range(q.lru) : x.key = k}}
BY DEF Where, At, Range

\* What one request does to the memory.
Refreshes == Range(p'.lru) = Range(p.lru) /\ p'.placed = p.placed

Remembers(k, n) ==
  LET c == <<Entry(k, n)>> \o p.lru IN
  /\ At(p, k) = {}
  /\ \/ /\ Len(p.lru) < PlacementSize
        /\ Range(p'.lru) = Range(p.lru) \cup {Entry(k, n)}
        /\ \A m \in Nodes : p'.placed[m] = p.placed[m] + One(m = n)
     \/ /\ Len(p.lru) = PlacementSize
        /\ Range(p'.lru) = (Range(p.lru) \cup {Entry(k, n)}) \ {c[PlacementSize + 1]}

Moves(k, n) ==
  \E i \in At(p, k) :
    /\ p.lru[i].node \notin avail
    /\ Range(p'.lru) = (Range(p.lru) \ {p.lru[i]}) \cup {Entry(k, n)}

LEMMA TryPickIs ==
  ASSUME IInv, NEW k \in Keys, NEW exclude \in SUBSET Nodes, TryPick(k, exclude)
  PROVE  /\ Agree(p')
         /\ \E n \in avail \ exclude :
              /\ \A m \in avail \ exclude : p.placed[n] <= p.placed[m]
              /\ Refreshes \/ Remembers(k, n) \/ Moves(k, n)
<1> DEFINE order == Ranking(k, avail \ exclude)
           l == leastPlaced(p, inflight, order)
           n == order[l]
<1>1. order \in Seq(Nodes) /\ DOMAIN order # {} /\ Range(order) = avail \ exclude
  BY OrderIs DEF TryPick
<1>2. Agree(p) /\ inflight \in [Nodes -> Nat] /\ p.placed \in [Nodes -> Nat]
  BY DEF IInv, Agree
<1>3. p' = p \/ p' = placeLocked(p, k, order, inflight, exclude, avail).p
  BY DEF TryPick, Placed
<1> HIDE DEF order
<1>4. Agree(p')
  <2>1. CASE p' = p
    BY <1>2, <2>1
  <2>2. CASE p' = placeLocked(p, k, order, inflight, exclude, avail).p
    BY <1>1, <1>2, <2>2, PlaceAgrees
  <2> QED BY <1>3, <2>1, <2>2
<1>5. l \in DOMAIN order /\ \A j \in DOMAIN order : p.placed[n] <= p.placed[order[j]]
  BY <1>1, <1>2, LeastPlacedIs
<1> HIDE DEF l
<1>6. n \in avail \ exclude /\ \A m \in avail \ exclude : p.placed[n] <= p.placed[m]
  BY <1>1, <1>5 DEF Range
<1>7. n \in Nodes
  BY <1>6 DEF IInv
<1>8. \/ \E i \in At(p, k) : p' = MoveToFront(p, i)
      \/ p' = p
      \/ At(p, k) = {} /\ p' = Insert(p, k, n)
      \/ \E i \in At(p, k) :
           /\ p' = Replace(p, i, n)
           /\ p.lru[i].node \notin Range(order)
           /\ p.lru[i].node \notin exclude \cap avail
  <2>1. PlaceOutcome(p, k, order, inflight, exclude, avail)
    <3>1. Agree(p) /\ inflight \in [Nodes -> Nat]
      BY <1>2
    <3>2. order \in Seq(Nodes) /\ DOMAIN order # {}
      BY <1>1
    <3> QED BY <3>1, <3>2, PlaceCases
  <2> QED BY <1>3, <2>1 DEF PlaceOutcome, l
<1> HIDE DEF n
<1>9. \A i \in At(p, k) : i \in DOMAIN p.lru
  BY DEF At
<1>10. CASE \E i \in At(p, k) : p' = MoveToFront(p, i)
  <2>1. Refreshes
    BY <1>2, <1>9, <1>10, MoveToFrontIs DEF Refreshes
  <2> QED BY <1>4, <1>6, <2>1
<1>11. CASE p' = p
  BY <1>4, <1>6, <1>11 DEF Refreshes
<1>12. CASE At(p, k) = {} /\ p' = Insert(p, k, n)
  <2>1. Len(p.lru) < PlacementSize \/ Len(p.lru) = PlacementSize
    BY <1>2, PlacementAssumption DEF Agree
  <2>2. Inserted(p, k, n, p')
    BY <1>2, <1>7, <1>12, InsertIs
  <2>3. Remembers(k, n)
    BY <1>12, <2>1, <2>2 DEF Remembers, Inserted
  <2> QED BY <1>4, <1>6, <2>3
<1>13. CASE \E i \in At(p, k) :
              /\ p' = Replace(p, i, n)
              /\ p.lru[i].node \notin Range(order)
              /\ p.lru[i].node \notin exclude \cap avail
  <2>1. PICK i \in At(p, k) :
              /\ p' = Replace(p, i, n)
              /\ p.lru[i].node \notin Range(order)
              /\ p.lru[i].node \notin exclude \cap avail
    BY <1>13
  <2>2. p.lru[i].node \notin avail
    BY <1>1, <2>1
  <2>3. i \in At(p, k) /\ p.lru[i].key = k
    BY DEF At
  <2>4. Range(p'.lru) = (Range(p.lru) \ {p.lru[i]}) \cup {Entry(p.lru[i].key, n)}
    BY <1>2, <1>7, <1>9, <2>1, ReplaceIs
  <2>5. Moves(k, n)
    BY <2>2, <2>3, <2>4 DEF Moves
  <2> QED BY <1>4, <1>6, <2>5
<1> QED BY <1>8, <1>10, <1>11, <1>12, <1>13

LEMMA InitInv == Init => IInv
<1> SUFFICES ASSUME Init PROVE IInv
  OBVIOUS
<1>1. p.lru = <<>> /\ p.placed = [n \in Nodes |-> 0] /\ p = [lru |-> p.lru, placed |-> p.placed]
  BY DEF Init, NoPlacements
<1>2. p.lru \in Seq(Entries) /\ Len(p.lru) = 0 /\ DOMAIN p.lru = {}
  BY <1>1
<1>3. \A n : Count(p.lru, n) = 0
  <2> SUFFICES ASSUME NEW n PROVE Count(p.lru, n) = 0
    OBVIOUS
  <2>1. On(p.lru, n) = {}
    BY <1>2 DEF On
  <2> QED BY <2>1, FS_EmptySet DEF Count
<1>4. Agree(p)
  BY <1>1, <1>2, <1>3, PlacementAssumption DEF Agree, Distinct
<1>5. SpreadEvenly
  BY <1>1 DEF SpreadEvenly
<1> QED BY <1>4, <1>5 DEF Init, IInv

\* A new key goes to a node that holds the fewest, so the spread stays at one; a
\* remembered key stays where it is while every node is available.
LEMMA TryPickInv ==
  ASSUME IInv, NEW k \in Keys, NEW exclude \in SUBSET Nodes, TryPick(k, exclude)
  PROVE  IInv'
<1>1. Agree(p')
  BY TryPickIs
<1>2. PICK n \in avail \ exclude :
        /\ \A m \in avail \ exclude : p.placed[n] <= p.placed[m]
        /\ Refreshes \/ Remembers(k, n) \/ Moves(k, n)
  BY TryPickIs
<1>3. avail' = avail /\ smooth' \in BOOLEAN /\ (smooth' => smooth)
  BY DEF TryPick, IInv
<1>3a. smooth' /\ At(p, k) = {} => exclude = {} /\ Len(p.lru) < PlacementSize
  BY DEF TryPick, IInv
<1>4. SpreadEvenly'
  <2> SUFFICES ASSUME smooth', NEW m1 \in Nodes, NEW m2 \in Nodes
               PROVE  p'.placed[m1] - p'.placed[m2] <= 1
    BY DEF SpreadEvenly
  <2>0. /\ avail = Nodes /\ p.placed \in [Nodes -> Nat] /\ n \in Nodes
        /\ \A m, h \in Nodes : p.placed[m] - p.placed[h] <= 1
    <3>1. smooth /\ n \in avail
      BY <1>3
    <3>2. avail = Nodes
      BY <3>1 DEF IInv
    <3>3. p.placed \in [Nodes -> Nat]
      BY DEF IInv, Agree
    <3>4. \A m, h \in Nodes : p.placed[m] - p.placed[h] <= 1
      BY <3>1 DEF IInv, SpreadEvenly
    <3> QED BY <3>1, <3>2, <3>3, <3>4
  <2>1. CASE Refreshes
    BY <2>0, <2>1 DEF Refreshes
  <2>2. CASE Remembers(k, n)
    <3>1. exclude = {} /\ Len(p.lru) < PlacementSize
      BY <1>3a, <2>2 DEF Remembers
    <3>2. \A m \in Nodes : p'.placed[m] = p.placed[m] + One(m = n)
      BY <2>2, <3>1, PlacementAssumption DEF Remembers, IInv, Agree
    <3>3. \A m \in Nodes : p.placed[n] <= p.placed[m]
      BY <1>2, <2>0, <3>1
    <3>4. p.placed[m1] \in Nat /\ p.placed[m2] \in Nat /\ p.placed[n] \in Nat
      BY <2>0
    <3>5. /\ p.placed[n] <= p.placed[m2] /\ p.placed[m1] - p.placed[m2] <= 1
          /\ p'.placed[m1] = p.placed[m1] + One(m1 = n)
          /\ p'.placed[m2] = p.placed[m2] + One(m2 = n)
      BY <2>0, <3>2, <3>3
    <3>6. CASE m1 = n
      BY <3>4, <3>5, <3>6 DEF One
    <3>7. CASE m1 # n
      BY <3>4, <3>5, <3>7 DEF One
    <3> QED BY <3>6, <3>7
  <2>3. CASE Moves(k, n)
    <3>1. PICK i \in DOMAIN p.lru : p.lru[i].node \notin avail
      BY <2>3 DEF Moves, At
    <3>2. p.lru[i] \in Entries
      BY DEF IInv, Agree
    <3> QED BY <2>0, <3>1, <3>2, EntryParts
  <2> QED BY <1>2, <2>1, <2>2, <2>3
<1>5. inflight' \in [Nodes -> Nat]
  BY DEF TryPick, IInv
<1> QED BY <1>1, <1>3, <1>4, <1>5 DEF IInv

LEMMA NextInv == IInv /\ [Next]_vars => IInv'
<1> SUFFICES ASSUME IInv, [Next]_vars PROVE IInv'
  OBVIOUS
<1>1. ASSUME NEW k \in Keys, NEW exclude \in SUBSET Nodes, TryPick(k, exclude)
      PROVE  IInv'
  BY <1>1, TryPickInv
<1>2. ASSUME NEW n \in Nodes, Lose(n) PROVE IInv'
  BY <1>2 DEF Lose, IInv, SpreadEvenly
<1>3. ASSUME NEW n \in Nodes, Recover(n) PROVE IInv'
  BY <1>3 DEF Recover, IInv, SpreadEvenly
<1>4. ASSUME NEW n \in Nodes, Leave(n) PROVE IInv'
  BY <1>4 DEF Leave, IInv, SpreadEvenly
<1>5. CASE UNCHANGED vars
  BY <1>5 DEF vars, IInv, SpreadEvenly
<1> QED BY <1>1, <1>2, <1>3, <1>4, <1>5 DEF Next

LEMMA Inductive == Spec => []IInv
BY InitInv, NextInv, PTL DEF Spec

-----------------------------------------------------------------------------
\* The bound sends a request elsewhere but never away: while any candidate has a
\* free slot, tryPickLocked finds a node, by rank or by spilling.
THEOREM FreeSlotIsFound == Spec => []WorkConserving
<1>1. ASSUME IInv PROVE WorkConserving
  <2> SUFFICES ASSUME NEW k \in Keys, NEW exclude \in Excludes
               PROVE  Chosen(k, exclude) = {} <=> \A n \in avail \ exclude : ~HasSlot(inflight, n)
    BY DEF WorkConserving
  <2> DEFINE order == Ordered(k, exclude)
  <2>1. ASSUME NEW n \in avail \ exclude, HasSlot(inflight, n) PROVE Chosen(k, exclude) # {}
    <3>1. PICK h \in DOMAIN order : order[h] = n
      BY <1>1, OrderedIs
    <3>2. order \in Seq(Nodes) /\ inflight \in [Nodes -> Nat]
      BY <1>1, OrderedIs DEF IInv
    <3> HIDE DEF order
    <3>3. SpillAt(inflight, order) # {}
      BY <2>1, <3>1, <3>2, SpillsIfOpen
    <3>4. Pick(order) # {}
      BY <3>3 DEF Pick
    <3> QED BY <3>4 DEF Chosen, order
  <2>2. ASSUME NEW n \in Chosen(k, exclude) PROVE \E m \in avail \ exclude : HasSlot(inflight, m)
    BY <1>1, ChosenIs
  <2> QED BY <2>1, <2>2
<1> QED BY <1>1, Inductive, PTL

\* Losing a node leaves the rank order of the others as it was: the rest of the old
\* ranking is a ranking of the rest, and there is only one.
THEOREM OthersKeepTheirOrder == Spec => []OnlyLostKeysMove
<1>1. ASSUME IInv PROVE OnlyLostKeysMove
  <2> SUFFICES ASSUME NEW k \in Keys, NEW n \in avail
               PROVE  LET order == Ranking(k, avail) IN
                      \E i \in DOMAIN order :
                        order[i] = n /\ Ranking(k, avail \ {n}) = RemoveAt(order, i)
    BY DEF OnlyLostKeysMove
  <2> DEFINE order == Ranking(k, avail)
             R == avail \ {n}
             c == Len(order)
  <2>1. avail \in SUBSET Nodes /\ R \in SUBSET Nodes /\ IsFiniteSet(avail) /\ IsFiniteSet(R)
    BY <1>1, SelectionAssumption, FS_Subset DEF IInv
  <2>2. order \in Orders(avail) /\ BestFirst(k, order)
    BY <2>1, RankingIs
  <2>3. /\ order \in Seq(avail) /\ c = Cardinality(avail) /\ c \in Nat
        /\ DOMAIN order = 1 .. c
        /\ \A i, j \in 1 .. c : order[i] = order[j] => i = j
        /\ \A x \in avail : \E i \in 1 .. c : order[i] = x
    <3> HIDE DEF order
    <3> QED BY <2>1, <2>2, SeqsOfSet
  <2>4. PICK i \in DOMAIN order : order[i] = n
    BY <2>3
  <2> DEFINE rest == RemoveAt(order, i)
  <2> HIDE DEF order
  <2>5. /\ rest \in Seq(avail) /\ Len(rest) = c - 1
        /\ \A j \in 1 .. c - 1 : rest[j] = IF j < i THEN order[j] ELSE order[j + 1]
    <3>1. order \in Seq(avail)
      BY <2>3
    <3> QED BY <3>1, RemoveAtIs
  <2> HIDE DEF rest
  <2>6. Cardinality(R) = c - 1 /\ c - 1 \in Nat
    BY <2>1, <2>3, FS_RemoveElement, FS_CardinalityType
  <2> DEFINE at(j) == IF j < i THEN j ELSE j + 1
  <2>7. /\ \A j \in 1 .. c - 1 : at(j) \in 1 .. c /\ at(j) # i /\ rest[j] = order[at(j)]
        /\ \A j, h \in 1 .. c - 1 : j < h => at(j) < at(h)
    <3>1. i \in 1 .. c
      BY <2>3
    <3> HIDE DEF c
    <3>2. \A j \in 1 .. c - 1 : at(j) \in 1 .. c /\ at(j) # i
      BY <2>3, <3>1
    <3>3. \A j, h \in 1 .. c - 1 : j < h => at(j) < at(h)
      BY <2>3, <3>1
    <3>4. \A j \in 1 .. c - 1 : rest[j] = order[at(j)]
      BY <2>5
    <3> QED BY <3>2, <3>3, <3>4
  <2>8. DOMAIN rest = 1 .. c - 1 /\ rest \in [1 .. c - 1 -> avail]
    BY <2>5
  <2> HIDE DEF at
  <2>9. \A j \in 1 .. c - 1 : rest[j] # n
    BY <2>3, <2>4, <2>7
  <2>10. rest \in [1 .. c - 1 -> R]
    BY <2>8, <2>9
  <2>11. \A j, h \in 1 .. c - 1 : j # h => rest[j] # rest[h]
    <3> SUFFICES ASSUME NEW j \in 1 .. c - 1, NEW h \in 1 .. c - 1, j < h
                 PROVE  rest[j] # rest[h]
      BY <2>6
    <3>1. at(j) < at(h) /\ at(j) \in 1 .. c /\ at(h) \in 1 .. c
      BY <2>7
    <3>2. at(j) # at(h)
      BY <3>1
    <3> QED BY <2>3, <2>7, <3>1, <3>2
  <2>12. rest \in Orders(R)
    BY <2>6, <2>10, <2>11 DEF Orders
  <2>13. BestFirst(k, rest)
    BY <2>2, <2>3, <2>7, <2>8 DEF BestFirst
  <2>14. Ranking(k, R) \in Orders(R) /\ BestFirst(k, Ranking(k, R))
    BY <2>1, RankingIs
  <2>15. Ranking(k, R) = rest
    BY <2>1, <2>12, <2>13, <2>14, RankingUnique
  <2> QED BY <2>4, <2>15 DEF order, rest
<1> QED BY <1>1, Inductive, PTL

\* The load bound is exceeded only by spilling: no candidate below it has a free slot,
\* and the request goes to one of the least loaded nodes that have one.
THEOREM BoundIsKept == Spec => []ExceedsOnlyWhenForced
<1>1. ASSUME IInv PROVE ExceedsOnlyWhenForced
  <2> DEFINE limit(exclude) == Limit(inflight, avail \ exclude)
  <2> SUFFICES ASSUME NEW k \in Keys, NEW exclude \in Excludes, NEW n \in Chosen(k, exclude),
                      inflight[n] >= limit(exclude),
                      NEW m \in avail \ exclude, HasSlot(inflight, m)
               PROVE  inflight[m] >= limit(exclude) /\ inflight[m] >= inflight[n]
    BY DEF ExceedsOnlyWhenForced
  <2>1. inflight \in [Nodes -> Nat] /\ avail \ exclude \in SUBSET Nodes /\ avail \ exclude # {}
    BY <1>1 DEF IInv
  <2>2. limit(exclude) \in Int
    BY <2>1, LimitIs
  <2>3. /\ n \in avail \ exclude
        /\ \/ HasRoom(inflight, avail \ exclude, n)
           \/ /\ \A h \in avail \ exclude : ~HasRoom(inflight, avail \ exclude, h)
              /\ \A h \in avail \ exclude : HasSlot(inflight, h) => inflight[n] <= inflight[h]
    BY <1>1, ChosenIs
  <2>4. inflight[m] \in Nat /\ inflight[n] \in Nat
    BY <2>1, <2>3
  <2>5. ~HasRoom(inflight, avail \ exclude, n)
    BY <2>2, <2>4 DEF HasRoom
  <2>6. ~HasRoom(inflight, avail \ exclude, m) /\ inflight[n] <= inflight[m]
    BY <2>3, <2>5
  <2>7. ~(inflight[m] < limit(exclude))
    BY <2>6 DEF HasRoom
  <2> HIDE DEF limit
  <2> QED BY <2>2, <2>4, <2>6, <2>7
<1> QED BY <1>1, Inductive, PTL

\* The remembered node of a key, if it is a candidate, is tried first.
LEMMA RememberedFirst ==
  ASSUME IInv, NEW k \in Keys, NEW exclude \in Excludes, NodeOf(k) \cap (avail \ exclude) # {}
  PROVE  NodeOf(k) = {Ordered(k, exclude)[1]}
<1> DEFINE rank == Ranking(k, avail \ exclude)
           a == Placed(k, exclude)
           here == {j \in DOMAIN rank : \E i \in At(p, k) : p.lru[i].node = rank[j]}
<1>1. rank \in Seq(Nodes) /\ DOMAIN rank # {} /\ Range(rank) = avail \ exclude
  BY OrderIs DEF Excludes
<1>2. PICK i \in At(p, k) : p.lru[i].node \in avail \ exclude
  BY DEF NodeOf
<1>3. here # {}
  <2>1. p.lru[i].node \in Range(rank)
    BY <1>1, <1>2
  <2> HIDE DEF rank
  <2> QED BY <2>1 DEF Range
<1>4. a.at = CHOOSE j \in here : TRUE
  BY <1>3 DEF Placed, placeLocked
<1>5. a.at \in here
  BY <1>3, <1>4
<1>6. \A h \in At(p, k) : h = i
  BY DEF IInv, Agree, Distinct, At
<1>7. NodeOf(k) = {p.lru[i].node} /\ p.lru[i].node = rank[a.at]
  BY <1>5, <1>6, SMTT(30) DEF NodeOf
<1>8. PlacementSize # 0
  <2>1. i \in DOMAIN p.lru /\ p.lru \in Seq(Entries) /\ Len(p.lru) <= PlacementSize
    BY DEF At, IInv, Agree
  <2> QED BY <2>1, PlacementAssumption
<1>9. Ordered(k, exclude) = Prefer(rank, a.at)
  BY <1>8 DEF Ordered
<1> HIDE DEF rank, a
<1>10. Prefer(rank, a.at)[1] = rank[a.at]
  BY <1>1, <1>5, PreferredFirst
<1> QED BY <1>7, <1>9, <1>10

\* Below the affinity floor a key goes to its first candidate while that has a free
\* slot, since the load bound is never under the floor; and the first candidate of a
\* remembered key is its remembered node, if that is a candidate at all.
THEOREM LowLoadKeepsAffinity == Spec => []AffinityAtLowLoad
<1>1. ASSUME IInv PROVE AffinityAtLowLoad
  <2> SUFFICES ASSUME NEW k \in Keys, NEW exclude \in Excludes
               PROVE  LET first == Head(Ordered(k, exclude)) IN
                      /\ inflight[first] < affinityFloor /\ HasSlot(inflight, first)
                           => Chosen(k, exclude) = {first}
                      /\ NodeOf(k) \cap (avail \ exclude) # {} => NodeOf(k) = {first}
    BY DEF AffinityAtLowLoad
  <2> DEFINE cands == avail \ exclude
             order == Ordered(k, exclude)
             try == TryAt(inflight, order, 1)
  <2>1. inflight \in [Nodes -> Nat] /\ cands \in SUBSET Nodes /\ cands # {}
    BY <1>1 DEF IInv, Excludes
  <2>2. /\ order \in Seq(Nodes) /\ Range(order) = cands /\ DOMAIN order = 1 .. Len(order)
        /\ Len(order) \in Nat /\ 1 \in DOMAIN order
    BY <1>1, OrderedIs
  <2>3. NodeOf(k) \cap cands # {} => NodeOf(k) = {order[1]}
    BY <1>1, RememberedFirst
  <2>4. Chosen(k, exclude) = Pick(order)
    BY DEF Chosen
  <2> HIDE DEF order, cands
  <2>5. Head(order) = order[1] /\ order[1] \in Nodes
    BY <2>2
  <2>6. ASSUME inflight[order[1]] < affinityFloor, HasSlot(inflight, order[1])
        PROVE  Pick(order) = {order[1]}
    <3>1. Limit(inflight, cands) \in Int /\ Limit(inflight, cands) >= affinityFloor
      BY <2>1, LimitIs
    <3>2. affinityFloor \in Int
      BY SelectionAssumption DEF affinityFloor
    <3>3. HasRoom(inflight, cands, order[1])
      BY <2>1, <2>5, <2>6, <3>1, <3>2 DEF HasRoom
    <3>4. 1 \in try
      BY <2>2, <3>3 DEF TryAt
    <3>5. Min(try) \in 1 .. Len(order) /\ Min(try) <= 1
      BY <2>2, <3>3, <3>4, TriedNext
    <3>6. Min(try) = 1
      BY <3>5
    <3> QED BY <3>4, <3>6 DEF Pick
  <2> QED BY <2>3, <2>4, <2>5, <2>6 DEF order, cands
<1> QED BY <1>1, Inductive, PTL

-----------------------------------------------------------------------------
\* placeMap, placeLRU and the counters Node.placed always agree, whatever
\* setPlacementLocked inserts, moves or evicts.
THEOREM MemoryAgrees == Spec => []CountersAgree
<1>1. IInv => CountersAgree
  BY DEF IInv, Agree, Distinct, Count, On, CountersAgree
<1> QED BY <1>1, Inductive, PTL

\* While no node is lost and no key forgotten, leastPlaced keeps the keys spread
\* within one of each other over all nodes.
THEOREM KeysAreSpread == Spec => []SpreadEvenly
<1>1. IInv => SpreadEvenly
  BY DEF IInv
<1> QED BY <1>1, Inductive, PTL

\* The entries of one key are one entry.
LEMMA OneEntry ==
  ASSUME NEW q, Agree(q), NEW e \in Range(q.lru), NEW x \in Range(q.lru), e.key = x.key
  PROVE  e = x
BY DEF Agree, Distinct, Range

\* placeLocked moves a remembered key only off an unavailable node.
THEOREM KeysStick == Spec => Sticky
<1> DEFINE Stay == \A k \in Keys :
       NodeOf(k) # {} /\ NodeOf(k)' # {} /\ NodeOf(k)' # NodeOf(k)
         => NodeOf(k) \cap avail = {}
<1>1. IInv /\ [Next]_vars => [Stay]_vars
  <2> SUFFICES ASSUME IInv, Next, NEW h \in Keys,
                      Where(p, h) # {}, Where(p', h) # {}, Where(p', h) # Where(p, h)
               PROVE  Where(p, h) \cap avail = {}
    BY DEF NodeOf, Where
  <2>1. PICK k \in Keys, exclude \in SUBSET Nodes : TryPick(k, exclude)
    BY DEF Next, Leave, Lose, Recover
  <2>2. PICK n \in Nodes : Refreshes \/ Remembers(k, n) \/ Moves(k, n)
    BY <2>1, TryPickIs DEF IInv
  <2>3. /\ Where(p, h) = {e.node : e \in {x \in Range(p.lru) : x.key = h}}
        /\ Where(p', h) = {e.node : e \in {x \in Range(p'.lru) : x.key = h}}
    BY WhereIs
  <2>4. Agree(p) /\ Entry(k, n).key = k
    BY EntryIs DEF IInv
  <2>5. CASE Refreshes
    BY <2>3, <2>5 DEF Refreshes
  <2>6. CASE Remembers(k, n)
    <3>1. h # k
      BY <2>6 DEF Remembers, Where
    <3>2. Range(p'.lru) \subseteq Range(p.lru) \cup {Entry(k, n)}
      BY <2>6 DEF Remembers
    <3>3. PICK e \in Range(p'.lru) : e.key = h
      BY <2>3
    <3>4. e \in Range(p.lru)
      BY <2>4, <3>1, <3>2, <3>3
    <3>5. \A x \in Range(p.lru) : x.key = h => x = e
      BY <2>4, <3>3, <3>4, OneEntry
    <3>6. \A x \in Range(p'.lru) : x.key = h => x = e
      BY <2>4, <3>1, <3>2, <3>5
    <3> QED BY <2>3, <3>3, <3>4, <3>5, <3>6
  <2>7. CASE Moves(k, n)
    <3>1. PICK i \in At(p, k) :
            /\ p.lru[i].node \notin avail
            /\ Range(p'.lru) = (Range(p.lru) \ {p.lru[i]}) \cup {Entry(k, n)}
      BY <2>7 DEF Moves
    <3>2. p.lru[i] \in Range(p.lru) /\ p.lru[i].key = k
      BY DEF At, Range
    <3>3. CASE h = k
      <4>1. \A x \in Range(p.lru) : x.key = h => x = p.lru[i]
        BY <2>4, <3>2, <3>3, OneEntry
      <4> QED BY <2>3, <3>1, <4>1
    <3>4. CASE h # k
      <4>1. \A x : x.key = h => (x \in Range(p'.lru) <=> x \in Range(p.lru))
        BY <2>4, <3>1, <3>2, <3>4
      <4> QED BY <2>3, <4>1
    <3> QED BY <3>3, <3>4
  <2> QED BY <2>2, <2>5, <2>6, <2>7
<1> QED BY <1>1, Inductive, PTL DEF Spec, Sticky

\* setPlacementLocked forgets a key only from the back of a full list.
THEOREM OldestIsForgotten == Spec => ForgetsOldest
<1> DEFINE Oldest == \A k \in Keys : NodeOf(k) # {} /\ NodeOf(k)' = {} =>
       /\ Len(p.lru) = PlacementSize
       /\ p.lru[PlacementSize].key = k
<1>1. IInv /\ [Next]_vars => [Oldest]_vars
  <2> SUFFICES ASSUME IInv, Next, NEW h \in Keys, Where(p, h) # {}, Where(p', h) = {}
               PROVE  /\ Len(p.lru) = PlacementSize
                      /\ p.lru[PlacementSize].key = h
    BY DEF NodeOf, Where
  <2>1. PICK k \in Keys, exclude \in SUBSET Nodes : TryPick(k, exclude)
    BY DEF Next, Leave, Lose, Recover
  <2>2. PICK n \in Nodes : Refreshes \/ Remembers(k, n) \/ Moves(k, n)
    BY <2>1, TryPickIs DEF IInv
  <2>3. /\ Where(p, h) = {e.node : e \in {x \in Range(p.lru) : x.key = h}}
        /\ Where(p', h) = {e.node : e \in {x \in Range(p'.lru) : x.key = h}}
    BY WhereIs
  <2>4. PICK e \in Range(p.lru) : e.key = h
    BY <2>3
  <2>5. \A x \in Range(p'.lru) : x.key # h
    BY <2>3
  <2>6. Entry(k, n).key = k /\ Entry(k, n) \in Entries
    BY EntryIs
  <2>7. CASE Refreshes
    BY <2>4, <2>5, <2>7 DEF Refreshes
  <2>8. CASE Moves(k, n)
    <3>1. PICK i \in At(p, k) :
            Range(p'.lru) = (Range(p.lru) \ {p.lru[i]}) \cup {Entry(k, n)}
      BY <2>8 DEF Moves
    <3>2. p.lru[i].key = k
      BY DEF At
    <3> QED BY <2>4, <2>5, <2>6, <3>1, <3>2
  <2>9. CASE Remembers(k, n)
    <3> DEFINE c == <<Entry(k, n)>> \o p.lru
    <3>1. /\ Len(p.lru) = PlacementSize
          /\ Range(p'.lru) = (Range(p.lru) \cup {Entry(k, n)}) \ {c[PlacementSize + 1]}
      BY <2>4, <2>5, <2>9 DEF Remembers
    <3>2. e = c[PlacementSize + 1]
      BY <2>4, <2>5, <3>1
    <3>3. p.lru \in Seq(Entries) /\ Len(p.lru) \in Nat /\ DOMAIN p.lru = 1 .. Len(p.lru)
      BY DEF IInv, Agree
    <3>4. PlacementSize \in 1 .. Len(p.lru)
      BY <2>4, <3>1, <3>3 DEF Range
    <3>5. c[PlacementSize + 1] = p.lru[PlacementSize]
      BY <2>6, <3>3, <3>4, ConsIs
    <3> QED BY <2>4, <3>1, <3>2, <3>5
  <2> QED BY <2>2, <2>7, <2>8, <2>9
<1> QED BY <1>1, Inductive, PTL DEF Spec, ForgetsOldest
=============================================================================
