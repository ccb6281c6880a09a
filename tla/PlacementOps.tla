---------------------------- MODULE PlacementOps ----------------------------
(***************************************************************************)
(* Placement memory (router/router.go): which node each routing key was    *)
(* placed on, for the PlacementSize most recently used keys.  A placement  *)
(* record p holds placeMap and placeLRU as one sequence, p.lru, of entries *)
(* [key, node], most recently used first, and p.placed, the counter each   *)
(* Node keeps.  The caller holds the router's mutex throughout.            *)
(***************************************************************************)
EXTENDS Selection

CONSTANT PlacementSize   \* Options.PlacementSize; 0 disables the memory

ASSUME PlacementAssumption == PlacementSize \in Nat

NoPlacements == [lru |-> <<>>, placed |-> [n \in Nodes |-> 0]]

\* The position of key k in the list, as a set with at most one member.
At(p, k) == {i \in DOMAIN p.lru : p.lru[i].key = k}

Entry(k, n) == [key |-> k, node |-> n]

MoveToFront(p, i) == [p EXCEPT !.lru = <<p.lru[i]>> \o RemoveAt(p.lru, i)]

\* Mutant: the requests in flight are compared before the placed keys.
leastPlaced_ByLoad(p, inflight, order) ==
  CHOOSE i \in DOMAIN order : \A j \in DOMAIN order :
    \/ inflight[order[i]] < inflight[order[j]]
    \/ inflight[order[i]] = inflight[order[j]] /\ i <= j

\* The position of the candidate with the fewest placed keys, then the fewest
\* requests in flight, then the best rank.
leastPlaced(p, inflight, order) ==
  CHOOSE i \in DOMAIN order : \A j \in DOMAIN order :
    LET a == order[i]
        b == order[j]
    IN  \/ p.placed[a] < p.placed[b]
        \/ p.placed[a] = p.placed[b] /\ inflight[a] < inflight[b]
        \/ p.placed[a] = p.placed[b] /\ inflight[a] = inflight[b] /\ i <= j

\* Mutant: the node a key leaves keeps counting it.
Replace_NoDecrement(p, i, n) ==
  LET old == p.lru[i] IN
  [lru    |-> <<Entry(old.key, n)>> \o RemoveAt(p.lru, i),
   placed |-> IF old.node = n THEN p.placed ELSE [p.placed EXCEPT ![n] = @ + 1]]

\* setPlacementLocked for a remembered key: it moves to node n.
Replace(p, i, n) ==
  LET old == p.lru[i] IN
  [lru    |-> <<Entry(old.key, n)>> \o RemoveAt(p.lru, i),
   placed |-> IF old.node = n THEN p.placed
              ELSE [p.placed EXCEPT ![old.node] = @ - 1, ![n] = @ + 1]]

\* Mutant: the memory holds one key less than its size.
Insert_OffByOne(p, k, n) ==
  LET lru  == <<Entry(k, n)>> \o p.lru
      gone == {i \in DOMAIN lru : i >= PlacementSize}
  IN  [lru    |-> SubSeq(lru, 1, Len(lru) - Cardinality(gone)),
       placed |-> [m \in Nodes |->
                     p.placed[m] + (IF m = n THEN 1 ELSE 0)
                       - Cardinality({i \in gone : lru[i].node = m})]]

\* setPlacementLocked for a new key: the oldest entries past the size go.
Insert(p, k, n) ==
  LET lru  == <<Entry(k, n)>> \o p.lru
      gone == {i \in DOMAIN lru : i > PlacementSize}
  IN  [lru    |-> SubSeq(lru, 1, Len(lru) - Cardinality(gone)),
       placed |-> [m \in Nodes |->
                     p.placed[m] + (IF m = n THEN 1 ELSE 0)
                       - Cardinality({i \in gone : lru[i].node = m})]]

setPlacementLocked(p, k, n) ==
  IF At(p, k) = {} THEN Insert(p, k, n)
  ELSE Replace(p, CHOOSE i \in At(p, k) : TRUE, n)

\* Mutant: a retry that excludes the node moves the key.
placeLocked_RetryMoves(p, k, order, inflight, exclude, avail) ==
  LET at    == At(p, k)
      here  == {j \in DOMAIN order : \E i \in at : p.lru[i].node = order[j]}
      least == leastPlaced(p, inflight, order)
  IN  IF here # {}
      THEN [p |-> MoveToFront(p, CHOOSE i \in at : TRUE), at |-> CHOOSE j \in here : TRUE]
      ELSE [p |-> setPlacementLocked(p, k, order[least]), at |-> least]

\* placeLocked: the placement after, and the position in order of the node the
\* key should go to.  exclude holds the nodes the request has tried already,
\* avail the nodes for which available() holds.
placeLocked(p, k, order, inflight, exclude, avail) ==
  LET at    == At(p, k)
      here  == {j \in DOMAIN order : \E i \in at : p.lru[i].node = order[j]}
      least == leastPlaced(p, inflight, order)
      \* the node is left out only because this request failed on it
      keep  == \E i \in at : p.lru[i].node \in exclude \cap avail
  IN  CASE here # {} -> [p  |-> MoveToFront(p, CHOOSE i \in at : TRUE),
                         at |-> CHOOSE j \in here : TRUE]
        [] here = {} /\ keep -> [p |-> p, at |-> least]
        [] OTHER -> [p  |-> setPlacementLocked(p, k, order[least]),
                     at |-> least]

\* tryPickLocked moves the chosen node to the front of the rank order.
Prefer(order, j) == <<order[j]>> \o RemoveAt(order, j)
=============================================================================
