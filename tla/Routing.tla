------------------------------- MODULE Routing -------------------------------
(***************************************************************************)
(* The routing decision, tryPickLocked (router/router.go), with the memory *)
(* of placements it keeps.  A request for a key, which has already failed  *)
(* on some nodes, looks for a node among the available ones; requests      *)
(* leave and nodes come and go in between.  A decision is one step, since  *)
(* the router's mutex is held, and no breaker refuses: what races do to a  *)
(* decision is the subject of Router.                                      *)
(***************************************************************************)
EXTENDS PlacementOps

VARIABLES
  inflight,   \* Node.inflight
  avail,      \* the nodes for which available() holds
  p,          \* placeMap, placeLRU and the counters Node.placed
  smooth      \* history: no node was lost, no key forgotten, no key placed by a retry

vars == <<inflight, avail, p, smooth>>

Init ==
  /\ inflight = [n \in Nodes |-> 0]
  /\ avail = Nodes
  /\ p = NoPlacements
  /\ smooth = TRUE

Placed(k, exclude) ==
  placeLocked(p, k, Ranking(k, avail \ exclude), inflight, exclude, avail)

\* The candidates as they are tried: the placed node first, then by rank.
Ordered(k, exclude) ==
  LET order == Ranking(k, avail \ exclude)
  IN  IF PlacementSize = 0 THEN order ELSE Prefer(order, Placed(k, exclude).at)

\* The node that gets the request, if any has a slot.
Pick(order) ==
  LET try == TryAt(inflight, order, 1)
  IN  {order[j] : j \in IF try # {} THEN {Min(try)} ELSE SpillAt(inflight, order)}

Chosen(k, exclude) == Pick(Ordered(k, exclude))

\* tryPickLocked.  A key is placed also when the request then has to wait.
TryPick(k, exclude) ==
  /\ avail \ exclude # {}
  /\ inflight' = [n \in Nodes |->
       IF n \in Chosen(k, exclude) THEN inflight[n] + 1 ELSE inflight[n]]
  /\ p' = IF PlacementSize = 0 THEN p ELSE Placed(k, exclude).p
  /\ smooth' = /\ smooth
               /\ At(p, k) # {} \/ (exclude = {} /\ Len(p.lru) < PlacementSize)
  /\ UNCHANGED avail

Leave(n) ==
  /\ inflight[n] > 0
  /\ inflight' = [inflight EXCEPT ![n] = @ - 1]
  /\ UNCHANGED <<avail, p, smooth>>

Lose(n) ==
  /\ n \in avail
  /\ avail' = avail \ {n}
  /\ smooth' = FALSE
  /\ UNCHANGED <<inflight, p>>

Recover(n) ==
  /\ n \notin avail
  /\ avail' = avail \cup {n}
  /\ UNCHANGED <<inflight, p, smooth>>

Next ==
  \/ \E k \in Keys, exclude \in SUBSET Nodes : TryPick(k, exclude)
  \/ \E n \in Nodes : Leave(n) \/ Lose(n) \/ Recover(n)

Spec == Init /\ [][Next]_vars

-----------------------------------------------------------------------------
\* The sets of nodes a request may have failed on with a candidate left.
Excludes == {exclude \in SUBSET Nodes : avail \ exclude # {}}

\* As docs/RELIABILITY.md has it: "A node may hold at most
\* ceil(bounded_load_factor x (in-flight + 1) / candidates) requests (never
\* below affinity_floor)".  No request is given to a node that then holds more.
\* The code does so when every other candidate is full.
BoundHolds ==
  \A k \in Keys, exclude \in Excludes : \A n \in Chosen(k, exclude) :
    inflight[n] + 1 <= Limit(inflight, avail \ exclude)

\* What the code does instead of keeping the bound whatever happens: a node is
\* loaded past it only when all candidates below it are full, and then it is one
\* of the least loaded nodes with a free slot.
ExceedsOnlyWhenForced ==
  \A k \in Keys, exclude \in Excludes : \A n \in Chosen(k, exclude) :
    LET cands == avail \ exclude IN
    inflight[n] >= Limit(inflight, cands) =>
      \A m \in cands : HasSlot(inflight, m) =>
        inflight[m] >= Limit(inflight, cands) /\ inflight[m] >= inflight[n]

\* A request is turned away only when every candidate is full: the bound sends
\* it elsewhere but never into the queue (the spill after the ranked loop).
WorkConserving ==
  \A k \in Keys, exclude \in Excludes :
    Chosen(k, exclude) = {} <=> \A n \in avail \ exclude : ~HasSlot(inflight, n)

\* Losing a node moves only that node's keys: the order of the others stands.
OnlyLostKeysMove ==
  \A k \in Keys, n \in avail :
    LET order == Ranking(k, avail) IN
    \E i \in DOMAIN order :
      order[i] = n /\ Ranking(k, avail \ {n}) = RemoveAt(order, i)

NodeOf(k) == {p.lru[i].node : i \in At(p, k)}

\* At low load a key goes to its first candidate whatever the others do: below
\* the floor the bound never sends it away.  A remembered key has its remembered
\* node first, unless that is down or has failed this request.
AffinityAtLowLoad ==
  \A k \in Keys, exclude \in Excludes :
    LET first == Head(Ordered(k, exclude)) IN
    /\ inflight[first] < affinityFloor /\ HasSlot(inflight, first)
         => Chosen(k, exclude) = {first}
    /\ NodeOf(k) \cap (avail \ exclude) # {} => NodeOf(k) = {first}

\* The counters, the map and the list agree: every key is remembered once, at
\* most PlacementSize of them, and placed counts the keys on each node.
CountersAgree ==
  /\ Len(p.lru) <= PlacementSize
  /\ \A i, j \in DOMAIN p.lru : p.lru[i].key = p.lru[j].key => i = j
  /\ \A n \in Nodes :
       p.placed[n] = Cardinality({i \in DOMAIN p.lru : p.lru[i].node = n})

\* A remembered key leaves its node only when that node is unavailable: not
\* for a retry that excludes the node, and not when a lost node comes back.
Sticky ==
  [][\A k \in Keys :
       NodeOf(k) # {} /\ NodeOf(k)' # {} /\ NodeOf(k)' # NodeOf(k)
         => NodeOf(k) \cap avail = {}]_vars

\* While nothing is lost or forgotten, the keys are spread evenly: no node
\* holds two more than another, whatever the hash and the loads say.
SpreadEvenly ==
  smooth => \A m, n \in Nodes : p.placed[m] - p.placed[n] <= 1

\* A remembered key is forgotten only when it is the least recently used one
\* and the memory is full.
ForgetsOldest ==
  [][\A k \in Keys : NodeOf(k) # {} /\ NodeOf(k)' = {} =>
       /\ Len(p.lru) = PlacementSize
       /\ p.lru[PlacementSize].key = k]_vars
=============================================================================
