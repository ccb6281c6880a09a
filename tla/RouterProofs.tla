---------------------------- MODULE RouterProofs ----------------------------
(***************************************************************************)
(* Proofs about the admission queue and the slots of the router, for any   *)
(* number of requests, nodes, attempts and places in the queue, the facts  *)
(* about one step of the router that RouterWaitProofs builds on, and the   *)
(* clauses of JInv about lock, queue, values, picker and retries.          *)
(***************************************************************************)
EXTENDS Router, SelectionProofs

(***************************************************************************)
(* The inductive invariant.  Of the values that ranking and placement      *)
(* compute it says nothing: whichever node they name, a slot is taken on   *)
(* that node and given back on the same one.                               *)
(***************************************************************************)
PCs == {"lock", "scan", "try", "parked", "leaving", "serving", "releasing", "done"}

LocalsTyped ==
  /\ pc \in [Requests -> PCs]
  /\ queued \subseteq Requests
  /\ pick = [i |-> pick.i, cands |-> pick.cands, order |-> pick.order]
  /\ pick.i \in Nat
  /\ lease = [r \in Requests |-> lease[r]]

Typed == LocalsTyped /\ inflight \in [Nodes -> Nat]

IInv == Typed /\ QueueAccounting /\ SlotAccounting

-----------------------------------------------------------------------------
(* Facts about numbers and sets.                                           *)

\* The node a request is tried on next has a free slot.
LEMMA TriedHasSlot ==
  ASSUME NEW order, NEW i \in Nat, TryAt(inflight, order, i) # {}
  PROVE  /\ Min(TryAt(inflight, order, i)) \in Nat
         /\ HasSlot(inflight, order[Min(TryAt(inflight, order, i))])
<1>1. TryAt(inflight, order, i) \subseteq Nat
  BY DEF TryAt
<1>2. Min(TryAt(inflight, order, i)) \in TryAt(inflight, order, i)
  BY <1>1, MinInSet
<1> QED BY <1>1, <1>2 DEF TryAt, HasRoom

LEMMA HoldersFinite == \A n : IsFiniteSet(Holders(n)) /\ Cardinality(Holders(n)) \in Nat
<1> TAKE n
<1>1. Holders(n) \subseteq Requests /\ IsFiniteSet(Requests)
  BY RouterAssumption DEF Holders
<1> QED BY <1>1, FS_Subset, FS_CardinalityType

LEMMA QueuedFinite ==
  ASSUME Typed
  PROVE  IsFiniteSet(queued) /\ Cardinality(queued) \in Nat
<1>1. queued \subseteq Requests /\ IsFiniteSet(Requests)
  BY RouterAssumption DEF Typed, LocalsTyped
<1> QED BY <1>1, FS_Subset, FS_CardinalityType

-----------------------------------------------------------------------------
LEMMA SlotsIs ==
  ASSUME NEW n \in Nodes
  PROVE  /\ Slots(n) \in Int /\ MaxConcurrent[n] \in Int
         /\ 0 <= Slots(n) /\ MaxConcurrent[n] <= Slots(n)
<1>1. MaxConcurrent[n] \in Int
  BY SelectionAssumption
<1> QED BY <1>1 DEF Slots, AtLeast

LEMMA InitInv == Init => IInv
<1> SUFFICES ASSUME Init PROVE IInv
  OBVIOUS
<1>1. Typed
  BY DEF Init, Typed, LocalsTyped, PCs, NoPick
<1>2. QueueAccounting
  BY RouterAssumption, FS_EmptySet DEF Init, QueueAccounting
<1>3. SlotAccounting
  <2>1. \A n \in Nodes : Holders(n) = {}
    BY DEF Init, Holders
  <2>2. \A n \in Nodes : inflight[n] = 0 /\ 0 <= Slots(n)
    BY SlotsIs DEF Init
  <2> QED BY <2>1, <2>2, FS_EmptySet DEF SlotAccounting
<1> QED BY <1>1, <1>2, <1>3 DEF IInv

-----------------------------------------------------------------------------
(***************************************************************************)
(* What a step does to the queue is one of three things: nothing, letting  *)
(* one request out (Acquire returns, or gives up), or parking one.         *)
(***************************************************************************)
InQueue == {"parked", "leaving"}
PastQueue == {"serving", "releasing", "done"}

QueueKept ==
  /\ UNCHANGED <<queued, waiting>>
  /\ \A q \in Requests : /\ pc'[q] \in InQueue => pc[q] \in InQueue
                         /\ pc'[q] \in PastQueue => pc[q] \in PastQueue

QueueLeft(r) ==
  /\ queued' = queued \ {r}
  /\ waiting' = IF r \in queued THEN waiting - 1 ELSE waiting
  /\ \E s \in PastQueue : pc' = [pc EXCEPT ![r] = s]

QueueJoined(r) ==
  /\ r \in queued \/ waiting < MaxQueue
  /\ queued' = queued \cup {r}
  /\ waiting' = IF r \in queued THEN waiting ELSE waiting + 1
  /\ pc' = [pc EXCEPT ![r] = "parked"]

\* The queue stays accounted for under each of the three.
LEMMA QueueInv ==
  ASSUME Typed, QueueAccounting,
         QueueKept \/ \E r \in Requests : QueueLeft(r) \/ QueueJoined(r)
  PROVE  QueueAccounting'
<1>a. MaxQueue \in Nat
  BY RouterAssumption
<1>1. IsFiniteSet(queued) /\ Cardinality(queued) \in Nat
  BY QueuedFinite
<1>2. CASE QueueKept
  BY <1>2 DEF QueueKept, QueueAccounting, InQueue, PastQueue
<1>3. ASSUME NEW r \in Requests, QueueLeft(r)
      PROVE  QueueAccounting'
  <2>1. PICK s \in PastQueue : pc' = [pc EXCEPT ![r] = s]
    BY <1>3, ZenonT(30) DEF QueueLeft
  <2>2. \A q \in Requests : pc'[q] = IF q = r THEN s ELSE pc[q]
    BY <2>1 DEF Typed, LocalsTyped
  <2>3. Cardinality(queued') = waiting' /\ waiting' <= MaxQueue
    <3>1. CASE r \in queued
      <4>1. Cardinality(queued \ {r}) = Cardinality(queued) - 1
        BY <1>1, <3>1, FS_RemoveElement, ZenonT(30)
      <4>2. waiting' = Cardinality(queued) - 1 /\ queued' = queued \ {r}
        BY <1>3, <3>1 DEF QueueLeft, QueueAccounting
      <4>3. Cardinality(queued) <= MaxQueue /\ MaxQueue \in Nat
        BY <1>a DEF QueueAccounting
      <4> QED BY <1>1, <4>1, <4>2, <4>3
    <3>2. CASE r \notin queued
      <4>1. queued' = queued
        BY <1>3, <3>2 DEF QueueLeft
      <4> QED BY <1>3, <3>2, <4>1 DEF QueueLeft, QueueAccounting
    <3> QED BY <3>1, <3>2
  <2>4. \A q \in Requests : /\ pc'[q] \in InQueue => q \in queued'
                            /\ pc'[q] \in PastQueue => q \notin queued'
    BY <1>3, <2>2 DEF QueueLeft, QueueAccounting, InQueue, PastQueue
  <2> QED BY <2>3, <2>4 DEF QueueAccounting, InQueue, PastQueue
<1>4. ASSUME NEW r \in Requests, QueueJoined(r)
      PROVE  QueueAccounting'
  <2>1. \A q \in Requests : pc'[q] = IF q = r THEN "parked" ELSE pc[q]
    BY <1>4 DEF Typed, LocalsTyped, QueueJoined
  <2>2. Cardinality(queued') = waiting' /\ waiting' <= MaxQueue
    <3>1. CASE r \in queued
      <4>1. queued' = queued
        BY <1>4, <3>1 DEF QueueJoined
      <4> QED BY <1>4, <3>1, <4>1 DEF QueueJoined, QueueAccounting
    <3>2. CASE r \notin queued
      <4>1. Cardinality(queued \cup {r}) = Cardinality(queued) + 1
        BY <1>1, <3>2, FS_AddElement
      <4>2. /\ waiting' = Cardinality(queued) + 1 /\ queued' = queued \cup {r}
            /\ Cardinality(queued) < MaxQueue /\ MaxQueue \in Nat
        BY <1>a, <1>4, <3>2 DEF QueueJoined, QueueAccounting
      <4> QED BY <1>1, <4>1, <4>2
    <3> QED BY <3>1, <3>2
  <2>3. \A q \in Requests : /\ pc'[q] \in InQueue => q \in queued'
                            /\ pc'[q] \in PastQueue => q \notin queued'
    BY <1>4, <2>1 DEF QueueJoined, QueueAccounting, InQueue, PastQueue
  <2> QED BY <2>2, <2>3 DEF QueueAccounting, InQueue, PastQueue
<1> QED BY <1>2, <1>3, <1>4

-----------------------------------------------------------------------------
(***************************************************************************)
(* To the slots a step does one of three things as well.  A node that is   *)
(* not one of Nodes is allowed for and never matters.                      *)
(***************************************************************************)
Serves(r, n) == pc[r] \in {"serving", "releasing"} /\ lease[r].node = n

SlotsKept ==
  /\ inflight' = inflight
  /\ \A q \in Requests, n \in Nodes : Serves(q, n)' <=> Serves(q, n)

SlotTaken(r, n) ==
  /\ HasSlot(inflight, n)
  /\ inflight' = [inflight EXCEPT ![n] = @ + 1]
  /\ pc[r] = "try"
  /\ \A q \in Requests, m \in Nodes :
       Serves(q, m)' <=> Serves(q, m) \/ (q = r /\ m = n)

SlotFreed(r, n) ==
  /\ inflight' = [inflight EXCEPT ![n] = @ - 1]
  /\ pc[r] = "releasing" /\ lease[r].node = n
  /\ \A q \in Requests, m \in Nodes : Serves(q, m)' <=> Serves(q, m) /\ q # r

LEMMA SlotsInv ==
  ASSUME Typed, SlotAccounting,
         SlotsKept \/ \E r \in Requests : \E n : SlotTaken(r, n) \/ SlotFreed(r, n)
  PROVE  SlotAccounting' /\ inflight' \in [Nodes -> Nat]
<1>0. \A n : IsFiniteSet(Holders(n)) /\ Cardinality(Holders(n)) \in Nat
  BY HoldersFinite
<1>m. \A n \in Nodes : Slots(n) \in Int /\ MaxConcurrent[n] \in Int /\ MaxConcurrent[n] <= Slots(n)
  BY SlotsIs
<1>1. CASE SlotsKept
  <2>1. \A n \in Nodes : Holders(n)' = Holders(n)
    BY <1>1 DEF SlotsKept, Holders, Serves
  <2> QED BY <1>1, <2>1 DEF SlotsKept, SlotAccounting, Typed, LocalsTyped
<1>2. ASSUME NEW r \in Requests, NEW n, SlotTaken(r, n)
      PROVE  SlotAccounting' /\ inflight' \in [Nodes -> Nat]
  <2>1. \A m \in Nodes : Holders(m)' = IF m = n THEN Holders(m) \cup {r} ELSE Holders(m)
    BY <1>2 DEF SlotTaken, Holders, Serves
  <2>2. \A m \in Nodes : r \notin Holders(m)
    BY <1>2 DEF SlotTaken, Holders
  <2>3. \A m \in Nodes : inflight'[m] = IF m = n THEN inflight[m] + 1 ELSE inflight[m]
    BY <1>2 DEF SlotTaken, Typed, LocalsTyped
  <2>4. inflight' \in [Nodes -> Nat]
    <3>1. inflight \in [Nodes -> Nat] /\ inflight' = [inflight EXCEPT ![n] = @ + 1]
      BY <1>2 DEF SlotTaken, Typed, LocalsTyped
    <3>2. inflight' = [m \in Nodes |-> inflight'[m]]
      BY <3>1, ZenonT(30)
    <3>3. \A m \in Nodes : inflight'[m] \in Nat
      BY <2>3, <3>1
    <3> QED BY <3>2, <3>3
  <2>5. ASSUME NEW m \in Nodes
        PROVE  inflight'[m] = Cardinality(Holders(m)') /\ inflight'[m] <= Slots(m)
    <3>1. CASE m = n
      <4>1. Cardinality(Holders(m) \cup {r}) = Cardinality(Holders(m)) + 1
        BY <1>0, <2>2, FS_AddElement, ZenonT(30)
      <4>2. inflight[m] < MaxConcurrent[m]
        BY <1>2, <3>1 DEF SlotTaken, HasSlot
      <4>3. /\ inflight[m] = Cardinality(Holders(m)) /\ MaxConcurrent[m] \in Int
            /\ Slots(m) \in Int /\ MaxConcurrent[m] <= Slots(m)
        BY <1>m DEF SlotAccounting
      <4>4. Holders(m)' = Holders(m) \cup {r} /\ inflight'[m] = inflight[m] + 1
        BY <2>1, <2>3, <3>1
      <4>5. Cardinality(Holders(m)) \in Nat
        BY <1>0
      <4> QED BY <4>1, <4>2, <4>3, <4>4, <4>5
    <3>2. CASE m # n
      BY <2>1, <2>3, <3>2 DEF SlotAccounting
    <3> QED BY <3>1, <3>2
  <2> QED BY <2>4, <2>5 DEF SlotAccounting
<1>3. ASSUME NEW r \in Requests, NEW n, SlotFreed(r, n)
      PROVE  SlotAccounting' /\ inflight' \in [Nodes -> Nat]
  <2>1. \A m \in Nodes : Holders(m)' = Holders(m) \ {r}
    BY <1>3 DEF SlotFreed, Holders, Serves
  <2>2. \A m \in Nodes : r \in Holders(m) <=> m = n
    BY <1>3 DEF SlotFreed, Holders
  <2>3. \A m \in Nodes : inflight'[m] = IF m = n THEN inflight[m] - 1 ELSE inflight[m]
    BY <1>3 DEF SlotFreed, Typed, LocalsTyped
  <2>4. ASSUME NEW m \in Nodes
        PROVE  /\ inflight'[m] = Cardinality(Holders(m)')
               /\ inflight'[m] <= Slots(m) /\ inflight'[m] \in Nat
    <3>1. inflight[m] = Cardinality(Holders(m)) /\ inflight[m] <= Slots(m)
      BY DEF SlotAccounting
    <3>2. CASE m = n
      <4>1. /\ Cardinality(Holders(m) \ {r}) = Cardinality(Holders(m)) - 1
            /\ Cardinality(Holders(m) \ {r}) \in Nat
        BY <1>0, <2>2, <3>2, FS_RemoveElement, FS_CardinalityType
      <4>2. Holders(m)' = Holders(m) \ {r} /\ inflight'[m] = inflight[m] - 1
        BY <2>1, <2>3, <3>2
      <4>3. Slots(m) \in Int /\ Cardinality(Holders(m)) \in Nat
        BY <1>0, <1>m
      <4> HIDE DEF Holders
      <4> QED BY <3>1, <4>1, <4>2, <4>3
    <3>3. CASE m # n
      <4>1. Holders(m)' = Holders(m)
        BY <2>1, <2>2, <3>3
      <4> QED BY <1>0, <2>3, <3>1, <3>3, <4>1
    <3> QED BY <3>2, <3>3
  <2>5. inflight' \in [Nodes -> Nat]
    BY <1>3, <2>4, ZenonT(30) DEF SlotFreed, Typed, LocalsTyped
  <2> QED BY <2>4, <2>5 DEF SlotAccounting
<1> QED BY <1>1, <1>2, <1>3

-----------------------------------------------------------------------------
(***************************************************************************)
(* Every action has one of the shapes above.                               *)
(***************************************************************************)
QueueShape == QueueKept \/ \E r \in Requests : QueueLeft(r) \/ QueueJoined(r)
SlotShape  == SlotsKept \/ \E r \in Requests : \E n : SlotTaken(r, n) \/ SlotFreed(r, n)

Shape == LocalsTyped' /\ QueueShape /\ SlotShape

LEMMA ShapeInv ==
  ASSUME IInv, Shape
  PROVE  IInv'
<1>1. QueueAccounting'
  BY QueueInv DEF IInv, Shape, QueueShape
<1>2. SlotAccounting' /\ inflight' \in [Nodes -> Nat]
  BY SlotsInv DEF IInv, Shape, SlotShape
<1> QED BY <1>1, <1>2 DEF IInv, Shape, Typed

\* A request that moves between two places on the same side of the queue and
\* holds a lease in both or in neither.
LEMMA Moved ==
  ASSUME Typed, NEW r \in Requests, NEW s \in PCs,
         pc' = [pc EXCEPT ![r] = s],
         UNCHANGED <<queued, waiting, inflight, lease>>,
         s \in InQueue => pc[r] \in InQueue,
         s \in PastQueue => pc[r] \in PastQueue,
         s \in {"serving", "releasing"} <=> pc[r] \in {"serving", "releasing"}
  PROVE  QueueKept /\ SlotsKept /\ pc' \in [Requests -> PCs]
<1>1. \A q \in Requests : pc'[q] = IF q = r THEN s ELSE pc[q]
  BY DEF Typed, LocalsTyped
<1>2. QueueKept
  BY <1>1 DEF QueueKept
<1>3. SlotsKept
  BY <1>1 DEF SlotsKept, Serves
<1> QED BY <1>2, <1>3 DEF Typed, LocalsTyped

LEMMA Stays ==
  ASSUME UNCHANGED <<queued, waiting, inflight, lease, pc>>
  PROVE  QueueKept /\ SlotsKept
BY DEF QueueKept, SlotsKept, Serves

\* A rejected request, or one that gives up, held no slot and holds none.
LEMMA Gone ==
  ASSUME Typed, NEW r \in Requests, pc[r] \in {"scan", "try", "leaving"},
         pc' = [pc EXCEPT ![r] = "done"], QueueLeft(r),
         lease' = [lease EXCEPT ![r] = NoLease], inflight' = inflight,
         UNCHANGED pick \/ pick' = NoPick
  PROVE  Shape
<1>1. \A q \in Requests : /\ pc'[q] = IF q = r THEN "done" ELSE pc[q]
                          /\ lease'[q] = IF q = r THEN NoLease ELSE lease[q]
  BY DEF Typed, LocalsTyped
<1>2. SlotsKept
  BY <1>1 DEF SlotsKept, Serves
<1>3. LocalsTyped'
  <2>1. pc' \in [Requests -> PCs] /\ queued' \subseteq Requests
    BY DEF Typed, LocalsTyped, PCs, QueueLeft
  <2>2. /\ pick' = [i |-> pick'.i, cands |-> pick'.cands, order |-> pick'.order]
        /\ pick'.i \in Nat
    BY DEF Typed, LocalsTyped, NoPick
  <2>3. lease' = [q \in Requests |-> lease'[q]]
    BY DEF Typed, LocalsTyped
  <2> QED BY <2>1, <2>2, <2>3 DEF LocalsTyped
<1> QED BY <1>2, <1>3 DEF Shape, QueueShape, SlotShape

LEMMA RejectShape ==
  ASSUME Typed, NEW r \in Requests, NEW err, pc[r] \in {"scan", "try"}, Reject(r, err)
  PROVE  Shape
<1>1. QueueLeft(r)
  BY DEF Reject, Return, QueueLeft, PastQueue
<1> QED BY <1>1, Gone, ZenonT(30) DEF Reject, Return, Forget

LEMMA GrantShape ==
  ASSUME Typed, NEW r \in Requests, NEW n, pc[r] = "try", HasSlot(inflight, n), Grant(r, n)
  PROVE  Shape
<1>1. QueueLeft(r)
  BY DEF Grant, Return, QueueLeft, PastQueue
<1>2. LocalsTyped'
  BY ZenonT(30) DEF Grant, Return, Typed, LocalsTyped, PCs, NoPick
<1>3. \A q \in Requests : /\ pc'[q] = IF q = r THEN "serving" ELSE pc[q]
                          /\ q # r => lease'[q] = lease[q]
                          /\ q = r => lease'[q].node = n
  BY DEF Grant, Return, Typed, LocalsTyped
<1>4. SlotTaken(r, n)
  BY <1>3 DEF Grant, SlotTaken, Serves
<1> QED BY <1>1, <1>2, <1>4 DEF Shape, QueueShape, SlotShape

LEMMA PickingShape ==
  ASSUME Typed, NEW r \in Requests,
         \/ Lock(r) \/ Scan(r) \/ NoCandidate(r) \/ Rank(r)
         \/ TryRanked(r) \/ Spill(r)
  PROVE  Shape
<1>1. CASE Lock(r)
  <2>1. QueueKept /\ SlotsKept /\ pc' \in [Requests -> PCs]
    BY <1>1, Moved, ZenonT(30) DEF Lock, PCs, InQueue, PastQueue
  <2>2. LocalsTyped'
    BY <1>1, <2>1, ZenonT(30) DEF Lock, NoPick, Typed, LocalsTyped
  <2> QED BY <2>1, <2>2 DEF Shape, QueueShape, SlotShape
<1>2. CASE Scan(r)
  <2>1. QueueKept /\ SlotsKept
    BY <1>2, Stays DEF Scan, locals
  <2>2. PICK c : pick' = [pick EXCEPT !.i = @ + 1, !.cands = c]
    BY <1>2, ZenonT(30) DEF Scan
  <2>3. LocalsTyped'
    <3>1. UNCHANGED <<pc, queued, lease>>
      BY <1>2 DEF Scan, locals
    <3>2. pick' = [i |-> pick.i + 1, cands |-> c, order |-> pick.order]
      <4>1. pick = [i |-> pick.i, cands |-> pick.cands, order |-> pick.order]
        BY DEF Typed, LocalsTyped
      <4> QED BY <2>2, <4>1, ZenonT(30)
    <3>3. /\ pick' = [i |-> pick'.i, cands |-> pick'.cands, order |-> pick'.order]
          /\ pick'.i \in Nat
      BY <3>2 DEF Typed, LocalsTyped
    <3> QED BY <3>1, <3>3 DEF Typed, LocalsTyped
  <2> QED BY <2>1, <2>3 DEF Shape, QueueShape, SlotShape
<1>3. CASE NoCandidate(r)
  BY <1>3, RejectShape DEF NoCandidate
<1>4. CASE Rank(r)
  <2>1. QueueKept /\ SlotsKept /\ pc' \in [Requests -> PCs]
    BY <1>4, Moved, ZenonT(30) DEF Rank, locals, PCs, InQueue, PastQueue
  <2>2. PICK o : pick' = [pick EXCEPT !.i = 1, !.order = o]
    BY <1>4, ZenonT(30) DEF Rank
  <2>3. LocalsTyped'
    BY <1>4, <2>1, <2>2, ZenonT(30) DEF Rank, locals, Typed, LocalsTyped
  <2> QED BY <2>1, <2>3 DEF Shape, QueueShape, SlotShape
<1>5. CASE TryRanked(r)
  <2> DEFINE j == Min(TryAt(inflight, pick.order, pick.i))
  <2>1. j \in Nat /\ HasSlot(inflight, pick.order[j])
    BY <1>5, TriedHasSlot DEF TryRanked, Typed, LocalsTyped
  <2>2. CASE Grant(r, pick.order[j])
    BY <1>5, <2>1, <2>2, GrantShape DEF TryRanked
  <2>3. CASE /\ pick' = [pick EXCEPT !.i = j + 1]
             /\ UNCHANGED <<up, br, inflight, p, waiting, mu, pc, locals, quiet>>
    <3>1. QueueKept /\ SlotsKept
      BY <2>3, Stays DEF locals
    <3>2. LocalsTyped'
      BY <2>1, <2>3 DEF locals, Typed, LocalsTyped
    <3> QED BY <3>1, <3>2 DEF Shape, QueueShape, SlotShape
  <2> QED BY <1>5, <2>2, <2>3 DEF TryRanked
<1>6. CASE Spill(r)
  <2>1. PICK j \in SpillAt(inflight, pick.order) :
          \/ Grant(r, pick.order[j])
          \/ Reject(r, "no_node")
    BY <1>6 DEF Spill
  <2>2. HasSlot(inflight, pick.order[j]) /\ pc[r] = "try"
    BY <1>6 DEF Spill, RankedExhausted, SpillAt
  <2> QED BY <2>1, <2>2, GrantShape, RejectShape
<1> QED BY <1>1, <1>2, <1>3, <1>4, <1>5, <1>6

LEMMA QueueingShape ==
  ASSUME IInv, NEW r \in Requests,
         \/ QueueFull(r) \/ Park(r) \/ Wake(r) \/ Leave(r) \/ AffinityExpires(r)
         \/ \E err \in {"queue_timeout", "ctx"} : StopWaiting(r, err)
  PROVE  Shape
<1> USE DEF IInv
<1>1. CASE QueueFull(r)
  BY <1>1, RejectShape DEF QueueFull, MustWait, RankedExhausted
<1>2. CASE Park(r)
  <2>1. QueueJoined(r)
    BY <1>2 DEF Park, QueueJoined
  <2>2. pc[r] = "try"
    BY <1>2 DEF Park, MustWait, RankedExhausted
  <2>3. \A q \in Requests : pc'[q] = IF q = r THEN "parked" ELSE pc[q]
    BY <1>2 DEF Park, Typed, LocalsTyped
  <2>4. SlotsKept
    BY <1>2, <2>2, <2>3 DEF Park, SlotsKept, Serves
  <2>5. LocalsTyped'
    BY <1>2 DEF Park, Typed, LocalsTyped, PCs, NoPick
  <2> QED BY <2>1, <2>4, <2>5 DEF Shape, QueueShape, SlotShape
<1>3. CASE Wake(r) \/ AffinityExpires(r)
  <2>1. QueueKept /\ SlotsKept /\ pc' \in [Requests -> PCs]
    BY <1>3, Moved DEF Wake, AffinityExpires, locals, PCs, InQueue, PastQueue
  <2>2. LocalsTyped'
    BY <1>3, <2>1 DEF Wake, AffinityExpires, locals, Typed, LocalsTyped
  <2> QED BY <2>1, <2>2 DEF Shape, QueueShape, SlotShape
<1>4. CASE Leave(r)
  <2>1. r \in queued
    BY <1>4 DEF Leave, QueueAccounting
  <2>2. QueueLeft(r)
    BY <1>4, <2>1 DEF Leave, QueueLeft, PastQueue
  <2> QED BY <1>4, <2>2, Gone, ZenonT(30) DEF Leave, Forget
<1>5. CASE \E err \in {"queue_timeout", "ctx"} : StopWaiting(r, err)
  <2>1. QueueKept /\ SlotsKept /\ pc' \in [Requests -> PCs]
    BY <1>5, Moved, ZenonT(30) DEF StopWaiting, PCs, InQueue, PastQueue
  <2>2. LocalsTyped'
    BY <1>5, <2>1 DEF StopWaiting, Typed, LocalsTyped
  <2> QED BY <2>1, <2>2 DEF Shape, QueueShape, SlotShape
<1> QED BY <1>1, <1>2, <1>3, <1>4, <1>5

LEMMA ServingShape ==
  ASSUME IInv, NEW r \in Requests, Attempt(r) \/ Release(r)
  PROVE  Shape
<1> USE DEF IInv
<1>1. CASE Attempt(r)
  <2>1. QueueKept /\ SlotsKept /\ pc' \in [Requests -> PCs]
    BY <1>1, Moved, ZenonT(30) DEF Attempt, Verdict, PCs, InQueue, PastQueue
  <2>2. LocalsTyped'
    BY <1>1, <2>1 DEF Attempt, Verdict, Typed, LocalsTyped
  <2> QED BY <2>1, <2>2 DEF Shape, QueueShape, SlotShape
<1>2. CASE Release(r)
  <2>1. PICK s \in {"lock", "done"} : pc' = [pc EXCEPT ![r] = s]
    BY <1>2 DEF Release, Free
  <2>2. /\ pc[r] = "releasing" /\ UNCHANGED <<queued, waiting, pick>>
        /\ lease' = [lease EXCEPT ![r] = NoLease]
        /\ inflight' = [inflight EXCEPT ![lease[r].node] = @ - 1]
    BY <1>2 DEF Release, Free, Forget
  <2>3. \A q \in Requests : /\ pc'[q] = IF q = r THEN s ELSE pc[q]
                            /\ q # r => lease'[q] = lease[q]
    BY <2>1, <2>2 DEF Typed, LocalsTyped
  <2>4. QueueKept
    BY <2>2, <2>3 DEF QueueKept, InQueue, PastQueue
  <2>5. SlotFreed(r, lease[r].node)
    BY <2>2, <2>3 DEF SlotFreed, Serves
  <2>6. LocalsTyped'
    BY <2>1, <2>2 DEF Typed, LocalsTyped, PCs
  <2> QED BY <2>4, <2>5, <2>6 DEF Shape, QueueShape, SlotShape
<1> QED BY <1>1, <1>2

-----------------------------------------------------------------------------
LEMMA NextInv == IInv /\ [Next]_vars => IInv'
<1> SUFFICES ASSUME IInv, [Next]_vars PROVE Shape
  BY ShapeInv
<1>1. ASSUME NEW r \in Requests, Step(r) \/ Event(r) \/ Attempt(r)
      PROVE  Shape
  BY <1>1, PickingShape, QueueingShape, ServingShape DEF Step, Event, IInv
<1>2. CASE UNCHANGED <<inflight, waiting, pc, pick, locals>>
  <2>1. QueueKept /\ SlotsKept
    BY <1>2, Stays DEF locals
  <2>2. LocalsTyped'
    BY <1>2 DEF locals, IInv, Typed, LocalsTyped
  <2> QED BY <2>1, <2>2 DEF Shape, QueueShape, SlotShape
<1>3. CASE Tick \/ UNCHANGED vars \/ \E n \in Nodes : SetUp(n) \/ Poll(n)
  BY <1>2, <1>3 DEF Tick, SetUp, Poll, vars
<1> QED BY <1>1, <1>3 DEF Next

\* The inductive invariant holds of every reachable state of the router.
LEMMA Inductive == Spec => []IInv
BY InitInv, NextInv, PTL DEF Spec

\* Router.release and Acquire keep inflight exact for any number of requests
\* and nodes: it is the number of leases not yet released, within the limit.
THEOREM SlotsAreAccountedFor == Spec => []SlotAccounting
<1>1. IInv => SlotAccounting
  BY DEF IInv
<1> QED BY <1>1, Inductive, PTL

\* Router.waiting is the number of queued requests, for any bound MaxQueue:
\* every way out of Acquire decrements it once, and no wait goes uncounted.
THEOREM QueueIsAccountedFor == Spec => []QueueAccounting
<1>1. IInv => QueueAccounting
  BY DEF IInv
<1> QED BY <1>1, Inductive, PTL

-----------------------------------------------------------------------------
(***************************************************************************)
(* The second layer: what the requests, the breakers and the mutex know of *)
(* each other.  The request that holds mu is the one that picks; what it   *)
(* has collected is eligible; a node it has passed over was not available, *)
(* and can have become so only by a verdict whose broadcast is still to    *)
(* come, or quietly; and a ticket is never ahead of its breaker.           *)
(***************************************************************************)
Picking == {"scan", "try"}

Locked ==
  /\ mu \in Requests \cup {NoRequest}
  /\ \A r \in Requests : pc[r] \in Picking <=> mu = r

Picked ==
  /\ pick.cands \in SUBSET Nodes /\ pick.order \in Seq(Nodes)
  /\ \A r \in Requests : pc[r] \in Picking =>
       /\ pick.i >= 1
       /\ \A n \in pick.cands : Eligible(r, n)
       /\ pc[r] = "try" => pick.cands # {} /\ Range(pick.order) = pick.cands

Seen(r) == {n \in Nodes : pc[r] = "scan" => \E j \in 1 .. pick.i - 1 : NodeList[j] = n}

Missed ==
  \A r \in Requests : pc[r] \in Picking =>
    \A n \in Seen(r) \ (pick.cands \cup quiet) :
      Eligible(r, n) /\ available(n) => \E q \in Holders(n) : pc[q] = "releasing"

TicketOf(r, b) ==
  LET t == lease[r].ticket
  IN  t.gen <= b.gen /\ (b.state = "half_open" /\ t.gen = b.gen => t.probe)

Tickets ==
  /\ \A r \in Requests : pc[r] = "serving" => TicketOf(r, br[lease[r].node])
  /\ BreakerEnabled \/ \A n \in Nodes : br[n].state = "closed"

Results == {"none", "no_node", "queue_full", "queue_timeout", "ctx", "retry", "served"}

Values ==
  /\ up \in [Nodes -> BOOLEAN]
  /\ br \in [Nodes -> BreakerType]
  /\ holding \subseteq Requests /\ armed \subseteq Requests /\ woken \subseteq Requests
  /\ exclude \in [Requests -> SUBSET Nodes]
  /\ lease \in [Requests -> [node : Nodes, ticket : Ticket]]
  /\ result \in [Requests -> Results]
  /\ quiet \subseteq Nodes
  /\ Agree(p)

-----------------------------------------------------------------------------
(* Facts about one breaker.  Aged: its generation never goes back, and a   *)
(* change of state shows in it.                                            *)

Aged(b, c) ==
  /\ c \in BreakerType
  /\ b.gen <= c.gen
  /\ c.gen = b.gen => c.state = b.state

Reopened(b, c) == c.halfInFlight = 0 /\ c.gen = b.gen + 1

LEMMA ConfigIs == openDuration \in Nat /\ maxOpenDuration \in Nat
BY BreakerConfigAssumption DEF openDuration, maxOpenDuration, AtLeast

LEMMA NewIs == New \in BreakerType /\ New.state = "closed"
BY ConfigIs DEF New, BreakerType, States

LEMMA BreakerParts ==
  ASSUME NEW b \in BreakerType
  PROVE  /\ b = [state |-> b.state, gen |-> b.gen, consecFail |-> b.consecFail,
                 cool |-> b.cool, curOpen |-> b.curOpen, halfInFlight |-> b.halfInFlight]
         /\ b.state \in States /\ b.gen \in Nat /\ b.consecFail \in Nat
         /\ b.cool \in Nat /\ b.curOpen \in Nat /\ b.halfInFlight \in Nat
BY DEF BreakerType

LEMMA AdvanceIs ==
  ASSUME NEW b \in BreakerType
  PROVE  /\ Aged(b, advanceLocked(b))
         /\ advanceLocked(b) # b => Reopened(b, advanceLocked(b))
         /\ advanceLocked(b).state = "closed" <=> b.state = "closed"
         /\ advanceLocked(advanceLocked(b)) = advanceLocked(b)
<1>1. CASE b.state = "open" /\ b.cool = 0
  <2> DEFINE c == [state |-> "half_open", gen |-> b.gen + 1, consecFail |-> b.consecFail,
                   cool |-> b.cool, curOpen |-> b.curOpen, halfInFlight |-> 0]
  <2>1. advanceLocked(b) = c
    <3>1. advanceLocked(b) = setLocked([b EXCEPT !.halfInFlight = 0], "half_open")
      BY <1>1 DEF advanceLocked
    <3>2. [b EXCEPT !.halfInFlight = 0] =
            [state |-> b.state, gen |-> b.gen, consecFail |-> b.consecFail,
             cool |-> b.cool, curOpen |-> b.curOpen, halfInFlight |-> 0]
      BY DEF BreakerType
    <3> QED BY <1>1, <3>1, <3>2, ZenonT(30) DEF setLocked
  <2>2. c \in BreakerType
    BY BreakerParts DEF BreakerType, States
  <2>3. advanceLocked(c) = c
    BY DEF advanceLocked
  <2>4. b.gen \in Nat
    BY BreakerParts
  <2> QED BY <1>1, <2>1, <2>2, <2>3, <2>4 DEF Aged, Reopened
<1>2. CASE ~(b.state = "open" /\ b.cool = 0)
  BY <1>2, BreakerParts DEF advanceLocked, Aged
<1> QED BY <1>1, <1>2

LEMMA AvailableAdvanced ==
  ASSUME NEW b \in BreakerType
  PROVE  Available(advanceLocked(b)) <=> Available(b)
BY AdvanceIs DEF Available

LEMMA AllowIs ==
  ASSUME NEW b \in BreakerType
  PROVE  /\ Aged(b, Allow(b))
         /\ AllowTicket(b) \in Ticket
         /\ AllowTicket(b).gen = Allow(b).gen
         /\ Allow(b).state = "half_open" => AllowTicket(b).probe
         /\ Allow(b).state = "half_open" =>
              \/ Allow(b).gen = b.gen + 1 /\ Allow(b).halfInFlight = 1
              \/ Allow(b).gen = b.gen /\ Allow(b).halfInFlight = b.halfInFlight + 1
<1> DEFINE a == advanceLocked(b)
<1>1. Aged(b, a) /\ (a # b => Reopened(b, a))
  BY AdvanceIs
<1>2. a \in BreakerType
  BY <1>1 DEF Aged
<1>3. b.gen \in Nat /\ b.halfInFlight \in Nat /\ a.gen \in Nat /\ a.halfInFlight \in Nat
  BY <1>2, BreakerParts
<1> DEFINE t == AllowTicket(b)
<1>4. t = [probe |-> a.state = "half_open", gen |-> a.gen]
  BY DEF AllowTicket
<1> HIDE DEF a, t
<1>5. t \in Ticket /\ t.gen = a.gen /\ t.probe = (a.state = "half_open")
  BY <1>2, <1>4 DEF Ticket, BreakerType
<1>6. CASE a.state = "half_open"
  <2> DEFINE c == [state |-> a.state, gen |-> a.gen, consecFail |-> a.consecFail,
                   cool |-> a.cool, curOpen |-> a.curOpen,
                   halfInFlight |-> a.halfInFlight + 1]
  <2>1. Allow(b) = c
    BY <1>2, <1>6, BreakerParts DEF Allow, a
  <2>2. c \in BreakerType /\ c.gen = a.gen /\ c.state = a.state
          /\ c.halfInFlight = a.halfInFlight + 1
    BY <1>2, BreakerParts DEF BreakerType
  <2> HIDE DEF c
  <2>3. Aged(b, c)
    BY <1>1, <2>2 DEF Aged
  <2>4. \/ c.gen = b.gen + 1 /\ c.halfInFlight = 1
        \/ c.gen = b.gen /\ c.halfInFlight = b.halfInFlight + 1
    BY <1>1, <1>3, <2>2 DEF Reopened
  <2> QED BY <1>5, <1>6, <2>1, <2>2, <2>3, <2>4, ZenonT(30) DEF t
<1>7. CASE a.state # "half_open"
  <2>1. Allow(b) = a
    BY <1>7 DEF Allow, a
  <2> QED BY <1>1, <1>5, <1>7, <2>1 DEF t
<1> QED BY <1>6, <1>7

LEMMA SetIs ==
  ASSUME NEW b \in BreakerType, NEW to \in States
  PROVE  Aged(b, setLocked(b, to)) /\ setLocked(b, to).state = to
<1> DEFINE z == [b EXCEPT !.state = to, !.gen = @ + 1]
<1>1. z \in BreakerType /\ z.state = to /\ z.gen = b.gen + 1 /\ b.gen \in Nat
  <2>1. b.gen + 1 \in Nat
    BY DEF BreakerType
  <2>2. z \in BreakerType
    BY <2>1, ZenonT(30) DEF BreakerType, States
  <2>3. z.state = to /\ z.gen = b.gen + 1 /\ b.gen \in Nat
    BY DEF BreakerType
  <2> QED BY <2>2, <2>3
<1>2. setLocked(b, to) = IF b.state = to THEN b ELSE z
  BY DEF setLocked
<1> HIDE DEF z
<1> QED BY <1>1, <1>2 DEF Aged

LEMMA TripIs ==
  ASSUME NEW b \in BreakerType
  PROVE  Aged(b, tripLocked(b)) /\ tripLocked(b).state = "open"
<1> DEFINE z == [b EXCEPT !.consecFail = 0, !.cool = b.curOpen]
<1>1. z \in BreakerType /\ z.state = b.state /\ z.gen = b.gen
  BY ZenonT(30) DEF BreakerType
<1>2. tripLocked(b) = setLocked(z, "open")
  BY DEF tripLocked
<1> HIDE DEF z
<1> QED BY <1>1, <1>2, SetIs DEF Aged, States

\* A verdict with a ticket of the current generation ends a half-open period.
LEMMA SucceedIs ==
  ASSUME NEW b \in BreakerType, NEW t, b.state = "half_open" => t.probe
  PROVE  Aged(b, Succeed(b, t)) /\ Succeed(b, t).state # "half_open"
<1> DEFINE y == [b EXCEPT !.consecFail = 0]
           z == [b EXCEPT !.consecFail = 0, !.curOpen = openDuration]
<1>1. y \in BreakerType /\ y.state = b.state /\ y.gen = b.gen /\ b.gen \in Nat
  BY DEF BreakerType
<1>2. z \in BreakerType /\ z.state = b.state /\ z.gen = b.gen
  BY ConfigIs, ZenonT(30) DEF BreakerType
<1>3. /\ b.state = "closed" => Succeed(b, t) = y
      /\ b.state = "half_open" => Succeed(b, t) = setLocked(z, "closed")
      /\ b.state = "open" => Succeed(b, t) = b
  BY DEF Succeed
<1> HIDE DEF y, z
<1>4. Aged(z, setLocked(z, "closed")) /\ setLocked(z, "closed").state = "closed"
  BY <1>2, SetIs DEF States
<1>5. b.state \in States
  BY BreakerParts
<1> QED BY <1>1, <1>2, <1>3, <1>4, <1>5 DEF Aged, States

LEMMA FailIs ==
  ASSUME NEW b \in BreakerType, NEW t, b.state = "half_open" => t.probe
  PROVE  Aged(b, Fail(b, t)) /\ Fail(b, t).state # "half_open"
<1> DEFINE d == IF 2 * b.curOpen > maxOpenDuration THEN maxOpenDuration ELSE 2 * b.curOpen
           y == [b EXCEPT !.consecFail = @ + 1]
           z == [b EXCEPT !.curOpen = d]
<1>1. y \in BreakerType /\ y.state = b.state /\ y.gen = b.gen /\ b.gen \in Nat
  BY DEF BreakerType
<1>2. d \in Nat
  BY ConfigIs, BreakerParts
<1>3. /\ b.state = "closed" => Fail(b, t) \in {y, tripLocked(b)}
      /\ b.state = "half_open" => Fail(b, t) = tripLocked(z)
      /\ b.state = "open" => Fail(b, t) = b
  BY DEF Fail
<1> HIDE DEF d, y
<1>4. z \in BreakerType /\ z.state = b.state /\ z.gen = b.gen
  BY <1>2 DEF BreakerType
<1> HIDE DEF z
<1>5. /\ Aged(b, tripLocked(b)) /\ tripLocked(b).state = "open"
      /\ Aged(z, tripLocked(z)) /\ tripLocked(z).state = "open"
  BY <1>4, TripIs
<1>6. b.state \in States
  BY BreakerParts
<1>7. CASE b.state = "closed"
  BY <1>1, <1>3, <1>5, <1>7 DEF Aged
<1>8. CASE b.state = "half_open"
  BY <1>3, <1>4, <1>5, <1>8 DEF Aged
<1>9. CASE b.state = "open"
  BY <1>1, <1>3, <1>9 DEF Aged
<1> QED BY <1>6, <1>7, <1>8, <1>9 DEF States

\* After a verdict a breaker is half-open only if the ticket was stale and
\* nothing happened, or if its cool-down had passed and nobody has probed yet.
LEMMA DoneIs ==
  ASSUME NEW b \in BreakerType, NEW t \in Ticket, NEW success \in BOOLEAN,
         t.gen <= b.gen, b.state = "half_open" /\ t.gen = b.gen => t.probe
  PROVE  /\ Aged(b, Done(b, t, success))
         /\ Done(b, t, success).state = "half_open" =>
              \/ Done(b, t, success) = b /\ t.gen # b.gen
              \/ Reopened(b, Done(b, t, success))
<1> DEFINE a == advanceLocked(b)
<1>1. Aged(b, a) /\ (a # b => Reopened(b, a))
  BY AdvanceIs
<1>2. Done(b, t, success) =
        IF t.gen # a.gen THEN a ELSE IF success THEN Succeed(a, t) ELSE Fail(a, t)
  BY DEF Done
<1>3. t.gen \in Nat /\ b.gen \in Nat
  BY BreakerParts DEF Ticket
<1> HIDE DEF a
<1>4. CASE t.gen # a.gen
  <2>1. Done(b, t, success) = a
    BY <1>2, <1>4
  <2> QED BY <1>1, <1>4, <2>1
<1>5. CASE t.gen = a.gen
  <2>1. a = b
    BY <1>1, <1>3, <1>5 DEF Reopened
  <2>2. /\ Aged(b, Succeed(b, t)) /\ Succeed(b, t).state # "half_open"
        /\ Aged(b, Fail(b, t)) /\ Fail(b, t).state # "half_open"
    BY <1>5, <2>1, SucceedIs, FailIs, ZenonT(30)
  <2>3. Done(b, t, success) \in {Succeed(b, t), Fail(b, t)}
    BY <1>2, <1>5, <2>1
  <2> QED BY <2>2, <2>3
<1> QED BY <1>4, <1>5

LEMMA CancelIs ==
  ASSUME NEW b \in BreakerType, NEW t \in Ticket
  PROVE  /\ Aged(b, Cancel(b, t))
         /\ Cancel(b, t).state = b.state /\ Cancel(b, t).gen = b.gen
         /\ Cancel(b, t).halfInFlight =
              IF t.probe /\ b.state = "half_open" /\ t.gen = b.gen /\ b.halfInFlight > 0
              THEN b.halfInFlight - 1 ELSE b.halfInFlight
<1> DEFINE z == [b EXCEPT !.halfInFlight = @ - 1]
           c == t.probe /\ b.state = "half_open" /\ t.gen = b.gen /\ b.halfInFlight > 0
<1>1. b.halfInFlight > 0 =>
        z \in BreakerType /\ z.state = b.state /\ z.gen = b.gen
          /\ z.halfInFlight = b.halfInFlight - 1
  BY DEF BreakerType
<1>2. Cancel(b, t) = IF c THEN z ELSE b
  BY DEF Cancel
<1>3. b.gen \in Nat
  BY BreakerParts
<1>4. c => b.halfInFlight > 0
  OBVIOUS
<1> HIDE DEF z
<1>5. CASE c
  BY <1>1, <1>2, <1>3, <1>4, <1>5 DEF Aged
<1>6. CASE ~c
  BY <1>2, <1>3, <1>6 DEF Aged
<1> QED BY <1>5, <1>6

\* A tick makes a breaker available only when it ends a cool-down.
LEMMA ElapseIs ==
  ASSUME NEW b \in BreakerType
  PROVE  /\ Aged(b, Elapse(b))
         /\ Elapse(b).state = b.state /\ Elapse(b).gen = b.gen
         /\ Elapse(b).halfInFlight = b.halfInFlight
         /\ Available(Elapse(b)) /\ b.cool # 1 => Available(b)
<1> DEFINE e == Elapse(b)
<1>1. /\ e \in BreakerType /\ e.state = b.state /\ e.gen = b.gen
      /\ e.halfInFlight = b.halfInFlight
      /\ e.cool = IF b.cool > 0 THEN b.cool - 1 ELSE 0
      /\ b.gen \in Nat /\ b.cool \in Nat /\ b.state \in States
  BY DEF Elapse, BreakerType
<1>2. ASSUME b.cool # 1, b.state = "open", b.cool # 0
      PROVE  ~Available(e)
  <2>1. e.cool # 0 /\ e.state = "open"
    BY <1>1, <1>2
  <2>2. advanceLocked(e) = e
    BY <2>1 DEF advanceLocked
  <2> QED BY <2>1, <2>2 DEF Available
<1> HIDE DEF e
<1>3. ASSUME b.state # "open", Available(e)
      PROVE  Available(b)
  <2>1. advanceLocked(e) = e /\ advanceLocked(b) = b
    BY <1>1, <1>3 DEF advanceLocked
  <2> QED BY <1>1, <1>3, <2>1 DEF Available
<1>4. ASSUME b.state = "open", b.cool = 0, Available(e)
      PROVE  Available(b)
  <2>1. b = e
    BY <1>4 DEF e, Elapse, BreakerType
  <2> QED BY <1>4, <2>1
<1> QED BY <1>1, <1>2, <1>3, <1>4 DEF Aged, e

-----------------------------------------------------------------------------
\* WakeupComing for any limits: the node that is slept on may have no slots.
WakeupOrNoSlots ==
  \A r \in Parked \ woken : \E n \in Nodes :
    Eligible(r, n) /\ (Holders(n) # {} \/ MaxConcurrent[n] < 1)

JInv ==
  /\ IInv
  /\ Locked /\ Picked /\ Missed /\ Tickets /\ Values
  /\ ProbesHeld /\ NoLostWakeup /\ WakeupOrNoSlots /\ RetryElsewhere

LEMMA NoLeaseIs == NoLease \in [node : Nodes, ticket : Ticket]
<1>1. NodeList \in Seq(Nodes) /\ NodeList # <<>>
  BY RouterAssumption
<1>2. NodeList[1] \in Nodes
  BY <1>1
<1>3. NoTicket \in Ticket
  BY DEF NoTicket, Ticket
<1> QED BY <1>2, <1>3 DEF NoLease

LEMMA NoPlacementsAgree == Agree(NoPlacements)
<1> DEFINE q == NoPlacements
<1>1. q = [lru |-> q.lru, placed |-> q.placed] /\ q.lru = <<>>
      /\ q.placed = [n \in Nodes |-> 0]
  BY DEF NoPlacements
<1>2. q.lru \in Seq(Entries) /\ Len(q.lru) = 0 /\ Len(q.lru) <= PlacementSize
  BY <1>1, PlacementAssumption
<1>3. Distinct(q.lru)
  BY <1>1 DEF Distinct
<1>4. \A n : Count(q.lru, n) = 0
  <2>1. \A n : On(q.lru, n) = {}
    BY <1>1 DEF On
  <2> QED BY <2>1, FS_EmptySet DEF Count
<1> HIDE DEF q
<1> QED BY <1>1, <1>2, <1>3, <1>4 DEF Agree, q

LEMMA InitJ == Init => JInv
<1> SUFFICES ASSUME Init PROVE JInv
  OBVIOUS
<1>0. IInv
  BY InitInv
<1>1. /\ pc = [r \in Requests |-> "lock"] /\ mu = NoRequest /\ pick = NoPick
      /\ br = [n \in Nodes |-> New] /\ up = [n \in Nodes |-> TRUE]
      /\ p = NoPlacements
  BY DEF Init
<1>2. \A r \in Requests : pc[r] = "lock"
  BY <1>1
<1>3. Locked
  BY <1>1, <1>2, RouterAssumption DEF Locked, Picking
<1>4. Picked
  <2>1. pick.cands = {} /\ pick.order = <<>>
    BY <1>1 DEF NoPick
  <2>2. <<>> \in Seq(Nodes)
    OBVIOUS
  <2> QED BY <1>2, <2>1, <2>2 DEF Picked, Picking
<1>5. Missed
  BY <1>2 DEF Missed, Picking
<1>6. br \in [Nodes -> BreakerType] /\ \A n \in Nodes : br[n].state = "closed"
  BY <1>1, NewIs
<1>7. Tickets
  BY <1>2, <1>6 DEF Tickets
<1>8. Values
  <2>1. holding \subseteq Requests /\ armed \subseteq Requests /\ woken \subseteq Requests
        /\ exclude \in [Requests -> SUBSET Nodes] /\ quiet \subseteq Nodes
    BY DEF Init
  <2>2. lease \in [Requests -> [node : Nodes, ticket : Ticket]]
    BY NoLeaseIs DEF Init
  <2>3. result \in [Requests -> Results]
    BY DEF Init, Results
  <2> QED BY <1>1, <1>6, <2>1, <2>2, <2>3, NoPlacementsAgree DEF Values
<1>9. ProbesHeld
  BY <1>6 DEF ProbesHeld
<1>10. NoLostWakeup /\ WakeupOrNoSlots
  BY <1>2 DEF NoLostWakeup, WakeupOrNoSlots, Parked
<1>11. RetryElsewhere
  BY <1>2 DEF RetryElsewhere, Holders
<1> QED BY <1>0, <1>3, <1>4, <1>5, <1>7, <1>8, <1>9, <1>10, <1>11 DEF JInv

-----------------------------------------------------------------------------
(***************************************************************************)
(* The steps again, with what the invariant adds to their guards: a lease  *)
(* is granted on a candidate with a free slot, and who must wait has a     *)
(* candidate that is full, and holds out for it or has only full ones.     *)
(***************************************************************************)
Grants(r, n) == pc[r] = "try" /\ n \in pick.cands /\ HasSlot(inflight, n) /\ Grant(r, n)

Refused(r) ==
  /\ pc[r] = "try"
  /\ \E j \in Nat : pick' = [pick EXCEPT !.i = j + 1]
  /\ UNCHANGED <<up, br, inflight, p, waiting, mu, pc, locals, quiet>>

Rejected(r) == pc[r] \in Picking /\ \E err \in {"no_node", "queue_full"} : Reject(r, err)

Parks(r) ==
  /\ pc[r] = "try" /\ Park(r)
  /\ \E m \in pick.cands : ~HasSlot(inflight, m)
  /\ r \in holding \/ \A n \in pick.cands : ~HasSlot(inflight, n)

GivesUp(r) == \E err \in {"queue_timeout", "ctx"} : StopWaiting(r, err)

Kinds(r) ==
  \/ Lock(r) \/ Scan(r) \/ Rank(r) \/ Refused(r) \/ Rejected(r) \/ Parks(r)
  \/ \E n \in Nodes : Grants(r, n)
  \/ Wake(r) \/ AffinityExpires(r) \/ GivesUp(r) \/ Leave(r) \/ Attempt(r) \/ Release(r)

Around == Tick \/ UNCHANGED vars \/ \E n \in Nodes : SetUp(n) \/ Poll(n)

LEMMA OrderIs ==
  ASSUME JInv, NEW r \in Requests, pc[r] = "try"
  PROVE  /\ pick.order \in Seq(Nodes) /\ DOMAIN pick.order = 1 .. Len(pick.order)
         /\ 1 \in DOMAIN pick.order
         /\ \A j \in DOMAIN pick.order : pick.order[j] \in pick.cands
         /\ \A n \in pick.cands : \E j \in DOMAIN pick.order : pick.order[j] = n
         /\ pick.i \in Nat \ {0}
<1>1. /\ pick.order \in Seq(Nodes) /\ pick.cands # {} /\ Range(pick.order) = pick.cands
      /\ pick.i \in Nat /\ pick.i >= 1
  BY DEF JInv, Picked, Picking, IInv, Typed, LocalsTyped
<1>2. DOMAIN pick.order = 1 .. Len(pick.order) /\ Len(pick.order) \in Nat
  BY <1>1
<1>3. pick.cands = {pick.order[j] : j \in DOMAIN pick.order}
  BY <1>1 DEF Range
<1>4. DOMAIN pick.order # {}
  BY <1>1, <1>3
<1>5. 1 \in DOMAIN pick.order
  BY <1>2, <1>4
<1> QED BY <1>1, <1>2, <1>3, <1>5

LEMMA ParkIs ==
  ASSUME JInv, NEW r \in Requests, Park(r)
  PROVE  Parks(r)
<1>1. pc[r] = "try" /\ MustWait(r)
  BY DEF Park, MustWait, RankedExhausted
<1>2. /\ pick.order \in Seq(Nodes) /\ 1 \in DOMAIN pick.order
      /\ \A j \in DOMAIN pick.order : pick.order[j] \in pick.cands
      /\ \A n \in pick.cands : \E j \in DOMAIN pick.order : pick.order[j] = n
  BY <1>1, OrderIs
<1>3. inflight \in [Nodes -> Nat]
  BY DEF JInv, IInv, Typed
<1>4. CASE WaitsForPreferred(r)
  <2>1. r \in holding /\ ~HasSlot(inflight, pick.order[1])
    BY <1>4 DEF WaitsForPreferred, PreferredBusy
  <2> QED BY <1>1, <1>2, <2>1 DEF Parks
<1>5. CASE SpillAt(inflight, pick.order) = {}
  <2>1. \A j \in DOMAIN pick.order : ~HasSlot(inflight, pick.order[j])
    BY <1>2, <1>3, <1>5, SpillsIfOpen, ZenonT(30)
  <2>2. \A n \in pick.cands : ~HasSlot(inflight, n)
    BY <1>2, <2>1
  <2>3. pick.order[1] \in pick.cands
    BY <1>2
  <2> QED BY <1>1, <2>2, <2>3 DEF Parks
<1> QED BY <1>1, <1>4, <1>5 DEF MustWait

LEMMA StepKinds ==
  ASSUME JInv, NEW r \in Requests, Step(r) \/ Event(r) \/ Attempt(r)
  PROVE  Kinds(r)
<1>0. pick.cands \subseteq Nodes
  BY ZenonT(30) DEF JInv, Picked
<1>1. CASE TryRanked(r)
  <2> DEFINE j == Min(TryAt(inflight, pick.order, pick.i))
  <2>1. /\ pc[r] = "try" /\ TryAt(inflight, pick.order, pick.i) # {}
        /\ \/ Grant(r, pick.order[j])
           \/ /\ pick' = [pick EXCEPT !.i = j + 1]
              /\ UNCHANGED <<up, br, inflight, p, waiting, mu, pc, locals, quiet>>
    BY <1>1 DEF TryRanked
  <2>2. /\ pick.order \in Seq(Nodes) /\ pick.i \in Nat \ {0}
        /\ \A h \in DOMAIN pick.order : pick.order[h] \in pick.cands
    BY <2>1, OrderIs
  <2>3. j \in pick.i .. Len(pick.order) /\ j \in DOMAIN pick.order
        /\ HasRoom(inflight, Range(pick.order), pick.order[j])
    BY <2>1, <2>2, TriedNext, ZenonT(30)
  <2>4. j \in Nat
    BY <2>2, <2>3
  <2> HIDE DEF j
  <2>5. pick.order[j] \in pick.cands /\ HasSlot(inflight, pick.order[j])
    BY <2>2, <2>3 DEF HasRoom
  <2> QED BY <1>0, <2>1, <2>4, <2>5 DEF Kinds, Grants, Refused
<1>2. CASE Spill(r)
  <2>1. PICK j \in SpillAt(inflight, pick.order) :
          Grant(r, pick.order[j]) \/ Reject(r, "no_node")
    BY <1>2 DEF Spill
  <2>2. pc[r] = "try"
    BY <1>2 DEF Spill, RankedExhausted
  <2>3. j \in DOMAIN pick.order /\ HasSlot(inflight, pick.order[j])
    BY DEF SpillAt
  <2>4. pick.order[j] \in pick.cands
    BY <2>2, <2>3, OrderIs
  <2> QED BY <1>0, <2>1, <2>2, <2>3, <2>4, ZenonT(30) DEF Kinds, Grants, Rejected, Picking
<1>3. CASE NoCandidate(r) \/ QueueFull(r)
  BY <1>3, ZenonT(30)
     DEF NoCandidate, QueueFull, MustWait, RankedExhausted, Kinds, Rejected, Picking
<1>4. CASE Park(r)
  BY <1>4, ParkIs DEF Kinds
<1> QED BY <1>1, <1>2, <1>3, <1>4 DEF Step, Event, Kinds, GivesUp

-----------------------------------------------------------------------------
(***************************************************************************)
(* Where the requests are after a step.                                    *)
(***************************************************************************)
LEMMA PcIs ==
  ASSUME JInv, NEW r \in Requests, NEW s, pc' = [pc EXCEPT ![r] = s]
  PROVE  \A q \in Requests : pc'[q] = IF q = r THEN s ELSE pc[q]
BY DEF JInv, IInv, Typed, LocalsTyped

\* Only the request that holds the mutex is picking.
LEMMA LockedInv ==
  ASSUME JInv, Around \/ \E r \in Requests : Kinds(r)
  PROVE  Locked'
<1>0. Locked /\ NoRequest \notin Requests
  BY RouterAssumption DEF JInv
<1>1. CASE UNCHANGED <<mu, pc>>
  BY <1>0, <1>1 DEF Locked
<1>2. CASE Around
  BY <1>1, <1>2 DEF Around, Tick, SetUp, Poll, vars
<1>3. ASSUME NEW r \in Requests, Kinds(r) PROVE Locked'
  <2>1. CASE Scan(r) \/ Refused(r)
    BY <1>1, <2>1 DEF Scan, Refused
  <2>2. CASE Lock(r)
    <3>1. \A q \in Requests : pc'[q] = IF q = r THEN "scan" ELSE pc[q]
      BY <2>2, PcIs, ZenonT(30) DEF Lock
    <3> QED BY <1>0, <2>2, <3>1 DEF Lock, Locked, Picking
  <2>3. CASE Rank(r)
    <3>1. \A q \in Requests : pc'[q] = IF q = r THEN "try" ELSE pc[q]
      BY <2>3, PcIs, ZenonT(30) DEF Rank
    <3> QED BY <1>0, <2>3, <3>1 DEF Rank, Locked, Picking
  <2>4. ASSUME pc[r] \in Picking, mu' = NoRequest,
               NEW s \in {"serving", "done", "parked"}, pc' = [pc EXCEPT ![r] = s]
        PROVE  Locked'
    <3>1. \A q \in Requests : pc'[q] = IF q = r THEN s ELSE pc[q]
      BY <2>4, PcIs, ZenonT(30)
    <3> QED BY <1>0, <2>4, <3>1 DEF Locked, Picking
  <2>5. CASE Rejected(r)
    BY <2>4, <2>5 DEF Rejected, Reject, Return
  <2>6. CASE Parks(r)
    BY <2>4, <2>6 DEF Parks, Park, Picking
  <2>7. CASE \E n \in Nodes : Grants(r, n)
    BY <2>4, <2>7 DEF Grants, Grant, Return, Picking
  <2>8. ASSUME pc[r] \notin Picking, mu' = mu,
               NEW s \in {"lock", "leaving", "releasing", "done"}, pc' = [pc EXCEPT ![r] = s]
        PROVE  Locked'
    <3>1. \A q \in Requests : pc'[q] = IF q = r THEN s ELSE pc[q]
      BY <2>8, PcIs, ZenonT(30)
    <3> QED BY <1>0, <2>8, <3>1 DEF Locked, Picking
  <2>9. CASE Wake(r) \/ AffinityExpires(r) \/ GivesUp(r)
    BY <2>8, <2>9 DEF Wake, AffinityExpires, GivesUp, StopWaiting, Picking
  <2>10. CASE Leave(r)
    BY <2>8, <2>10 DEF Leave, Picking
  <2>11. CASE Attempt(r)
    BY <2>8, <2>11 DEF Attempt, Verdict, Picking
  <2>12. CASE Release(r)
    BY <2>8, <2>12 DEF Release, Free, Picking
  <2> QED BY <1>3, <2>1, <2>2, <2>3, <2>5, <2>6, <2>7, <2>9, <2>10, <2>11, <2>12 DEF Kinds
<1> QED BY <1>2, <1>3

-----------------------------------------------------------------------------
(***************************************************************************)
(* The breakers age in every step.                                         *)
(***************************************************************************)
BreakersAge == br' \in [Nodes -> BreakerType] /\ \A n \in Nodes : Aged(br[n], br'[n])

LEMMA OneAges ==
  ASSUME JInv, NEW n \in Nodes, NEW c, Aged(br[n], c),
         br' = br \/ br' = [br EXCEPT ![n] = c]
  PROVE  BreakersAge
<1>1. br \in [Nodes -> BreakerType]
  BY DEF JInv, Values
<1>2. \A m \in Nodes : br[m] \in BreakerType /\ br[m].gen \in Nat
  BY <1>1, BreakerParts
<1>3. \A m \in Nodes : Aged(br[m], br[m])
  BY <1>2 DEF Aged
<1>4. c \in BreakerType
  BY DEF Aged
<1> QED BY <1>1, <1>3, <1>4 DEF BreakersAge

LEMMA SameAge ==
  ASSUME JInv, br' = br
  PROVE  BreakersAge
<1>1. br \in [Nodes -> BreakerType]
  BY DEF JInv, Values
<1>2. \A m \in Nodes : br[m] \in BreakerType /\ br[m].gen \in Nat
  BY <1>1, BreakerParts
<1> QED BY <1>1, <1>2 DEF Aged, BreakersAge

\* What a verdict does to the breaker of the node.
LEMMA VerdictIs ==
  ASSUME JInv, NEW r \in Requests, NEW verdict \in {"ok", "fail", "cancel"},
         NEW again, Verdict(r, verdict, again), BreakerEnabled
  PROVE  LET n == lease[r].node
             c == IF verdict = "cancel" THEN Cancel(br[n], lease[r].ticket)
                  ELSE Done(br[n], lease[r].ticket, verdict = "ok")
         IN  /\ n \in Nodes /\ lease[r].ticket \in Ticket /\ br[n] \in BreakerType
             /\ TicketOf(r, br[n])
             /\ br' = [br EXCEPT ![n] = c] /\ Aged(br[n], c)
<1> DEFINE n == lease[r].node
           t == lease[r].ticket
           c == IF verdict = "cancel" THEN Cancel(br[n], t) ELSE Done(br[n], t, verdict = "ok")
<1>1. n \in Nodes /\ t \in Ticket /\ br[n] \in BreakerType
  BY DEF JInv, Values
<1>2. TicketOf(r, br[n])
  BY DEF JInv, Tickets, Verdict
<1>3. br' = [br EXCEPT ![n] = c]
  <2>1. br' = [br EXCEPT ![n] = IF verdict = "cancel" THEN Cancel(@, t)
                                ELSE Done(@, t, verdict = "ok")]
    BY ZenonT(30) DEF Verdict, Report
  <2> QED BY <2>1
<1>4. (verdict = "ok") \in BOOLEAN
  OBVIOUS
<1>5. Aged(br[n], Cancel(br[n], t))
  BY <1>1, CancelIs
<1>6. Aged(br[n], Done(br[n], t, verdict = "ok"))
  BY <1>1, <1>2, <1>4, DoneIs, ZenonT(30) DEF TicketOf
<1> QED BY <1>1, <1>2, <1>3, <1>5, <1>6

LEMMA AgeInv ==
  ASSUME JInv, Around \/ \E r \in Requests : Kinds(r)
  PROVE  BreakersAge
<1>0. br \in [Nodes -> BreakerType]
  BY DEF JInv, Values
<1>1. CASE Tick
  <2>1. br' = [n \in Nodes |-> Elapse(br[n])]
    BY <1>1 DEF Tick
  <2>2. \A n \in Nodes : Aged(br[n], Elapse(br[n]))
    BY <1>0, ElapseIs
  <2> QED BY <2>1, <2>2 DEF BreakersAge, Aged
<1>2. ASSUME NEW n \in Nodes, SetUp(n) \/ Poll(n) PROVE BreakersAge
  <2>1. Aged(br[n], advanceLocked(br[n]))
    BY <1>0, AdvanceIs
  <2> QED BY <1>2, <2>1, OneAges DEF SetUp, Poll
<1>3. CASE UNCHANGED vars
  BY <1>3, SameAge DEF vars
<1>4. ASSUME NEW r \in Requests, Kinds(r) PROVE BreakersAge
  <2>1. CASE Scan(r)
    <3> DEFINE n == NodeList[pick.i]
    <3>1. br' = br \/ br' = [br EXCEPT ![n] = advanceLocked(br[n])]
      BY <2>1 DEF Scan
    <3>2. n \in Nodes
      <4>1. /\ NodeList \in Seq(Nodes) /\ pick.i \in Nat /\ pick.i >= 1
            /\ pick.i <= Len(NodeList)
        BY <2>1, RouterAssumption DEF Scan, JInv, Picked, Picking, IInv, Typed, LocalsTyped
      <4> QED BY <4>1
    <3> HIDE DEF n
    <3>3. Aged(br[n], advanceLocked(br[n]))
      BY <1>0, <3>2, AdvanceIs
    <3> QED BY <3>1, <3>2, <3>3, OneAges
  <2>2. ASSUME NEW n \in Nodes, Grants(r, n) PROVE BreakersAge
    <3>1. br' = br \/ br' = [br EXCEPT ![n] = Allow(br[n])]
      BY <2>2 DEF Grants, Grant
    <3>2. Aged(br[n], Allow(br[n]))
      BY <1>0, AllowIs
    <3> QED BY <3>1, <3>2, OneAges
  <2>3. CASE Attempt(r)
    <3>1. PICK verdict \in {"ok", "fail", "cancel"}, again \in BOOLEAN :
            Verdict(r, verdict, again)
      BY <2>3 DEF Attempt
    <3>2. CASE BreakerEnabled
      <4> DEFINE n == lease[r].node
                 c == IF verdict = "cancel" THEN Cancel(br[n], lease[r].ticket)
                      ELSE Done(br[n], lease[r].ticket, verdict = "ok")
      <4>1. n \in Nodes /\ br' = [br EXCEPT ![n] = c] /\ Aged(br[n], c)
        BY <3>1, <3>2, VerdictIs
      <4> HIDE DEF n, c
      <4> QED BY <4>1, OneAges, ZenonT(30)
    <3>3. CASE ~BreakerEnabled
      BY <3>1, <3>3, SameAge, ZenonT(30) DEF Verdict, Report
    <3> QED BY <3>2, <3>3
  <2>4. CASE Lock(r) \/ Rank(r) \/ Refused(r) \/ Rejected(r) \/ Parks(r)
    BY <2>4, SameAge DEF Lock, Rank, Refused, Rejected, Reject, Parks, Park
  <2>5. CASE Wake(r) \/ AffinityExpires(r) \/ GivesUp(r) \/ Leave(r) \/ Release(r)
    BY <2>5, SameAge, ZenonT(30)
       DEF Wake, AffinityExpires, GivesUp, StopWaiting, Leave, Release, Free
  <2> QED BY <1>4, <2>1, <2>2, <2>3, <2>4, <2>5 DEF Kinds
<1> QED BY <1>1, <1>2, <1>3, <1>4 DEF Around

-----------------------------------------------------------------------------
(***************************************************************************)
(* Types, and what the picking request has collected.                      *)
(***************************************************************************)
LEMMA RankIs ==
  ASSUME JInv, NEW r \in Requests, Rank(r)
  PROVE  /\ Agree(p')
         /\ pick'.i = 1 /\ pick'.cands = pick.cands /\ pick.cands # {}
         /\ pick'.order \in Seq(Nodes) /\ Range(pick'.order) = pick.cands
<1> DEFINE k == KeyOf[r]
           order == Ranking(k, pick.cands)
           avail == {n \in Nodes : available(n)}
           after == placeLocked(p, k, order, inflight, exclude[r], avail)
<1>1. /\ pick.cands \in SUBSET Nodes /\ pick.cands # {} /\ k \in Keys
      /\ inflight \in [Nodes -> Nat] /\ Agree(p)
      /\ pick = [i |-> pick.i, cands |-> pick.cands, order |-> pick.order]
  BY RouterAssumption, ZenonT(30) DEF Rank, JInv, Picked, Values, IInv, Typed, LocalsTyped
<1>2. \/ /\ p' = after.p
         /\ pick' = [pick EXCEPT !.i = 1, !.order = Prefer(order, after.at)]
      \/ /\ pick' = [pick EXCEPT !.i = 1, !.order = order]
         /\ p' = p
  BY DEF Rank
<1>3. IsFiniteSet(pick.cands)
  BY <1>1, SelectionAssumption, FS_Subset
<1> HIDE DEF k
<1>4. order \in Orders(pick.cands)
  BY <1>1, RankingIs
<1> HIDE DEF order
<1>5. /\ order \in Seq(pick.cands) /\ Range(order) = pick.cands
      /\ DOMAIN order = 1 .. Len(order)
      /\ \A x \in pick.cands : \E i \in 1 .. Len(order) : order[i] = x
  BY <1>3, <1>4, SeqsOfSet
<1>6. DOMAIN order # {}
  BY <1>1, <1>5
<1>7. order \in Seq(Nodes)
  BY <1>1, <1>5
<1> HIDE DEF avail
<1>8. Agree(after.p)
  BY <1>1, <1>6, <1>7, PlaceAgrees, ZenonT(30)
<1>9. after.at \in DOMAIN order
  <2>1. PlaceOutcome(p, k, order, inflight, exclude[r], avail)
    BY <1>1, <1>6, <1>7, PlaceCases, SMTT(30)
  <2> QED BY <2>1 DEF PlaceOutcome
<1> HIDE DEF after
<1>10. Prefer(order, after.at) \in Seq(Nodes) /\ Range(Prefer(order, after.at)) = pick.cands
  BY <1>5, <1>7, <1>9, PreferIs
<1>11. PICK o \in {order, Prefer(order, after.at)} : pick' = [pick EXCEPT !.i = 1, !.order = o]
  BY <1>2
<1>12. pick' = [i |-> 1, cands |-> pick.cands, order |-> o]
  BY <1>1, <1>11, ZenonT(30)
<1>13. o \in Seq(Nodes) /\ Range(o) = pick.cands
  BY <1>5, <1>7, <1>10
<1>14. Agree(p')
  BY <1>1, <1>2, <1>8
<1> QED BY <1>1, <1>12, <1>13, <1>14

LEMMA ValuesInv ==
  ASSUME JInv, Around \/ \E r \in Requests : Kinds(r)
  PROVE  Values'
<1>0. Values /\ br' \in [Nodes -> BreakerType]
  BY AgeInv DEF JInv, BreakersAge
<1>1. CASE UNCHANGED <<p, locals>> /\ up' \in [Nodes -> BOOLEAN] /\ quiet' \subseteq Nodes
  BY <1>0, <1>1 DEF Values, locals
<1>2. CASE Around
  <2>1. CASE Tick
    BY <1>0, <1>1, <2>1 DEF Tick, Values
  <2>2. ASSUME NEW n \in Nodes, SetUp(n) PROVE Values'
    <3>1. up' \in [Nodes -> BOOLEAN]
      BY <1>0, <2>2 DEF SetUp, Values
    <3> QED BY <1>0, <1>1, <2>2, <3>1 DEF SetUp, Values
  <2>3. ASSUME NEW n \in Nodes, Poll(n) PROVE Values'
    BY <1>0, <1>1, <2>3 DEF Poll, Values
  <2>4. CASE UNCHANGED vars
    BY <1>0, <1>1, <2>4 DEF vars, Values
  <2> QED BY <1>2, <2>1, <2>2, <2>3, <2>4 DEF Around
<1>3. ASSUME NEW r \in Requests, Kinds(r) PROVE Values'
  <2>1. CASE Scan(r) \/ Refused(r) \/ Wake(r)
    BY <1>0, <1>1, <2>1 DEF Scan, Refused, Wake, Values
  <2>2. CASE Rank(r)
    <3>1. Agree(p')
      BY <2>2, RankIs
    <3> QED BY <1>0, <2>2, <3>1 DEF Rank, Values, locals
  <2>3. CASE Lock(r) \/ Parks(r) \/ AffinityExpires(r)
    BY <1>0, <2>3 DEF Lock, Parks, Park, AffinityExpires, Values
  <2>4. CASE GivesUp(r)
    <3>1. result' \in [Requests -> Results]
      BY <1>0, <2>4 DEF GivesUp, StopWaiting, Values, Results
    <3> QED BY <1>0, <2>4, <3>1 DEF GivesUp, StopWaiting, Values
  <2>5. ASSUME Forget(r) PROVE
            /\ holding' \subseteq Requests
            /\ exclude' \in [Requests -> SUBSET Nodes]
            /\ lease' \in [Requests -> [node : Nodes, ticket : Ticket]]
    BY <1>0, <2>5, NoLeaseIs DEF Forget, Values
  <2>6. CASE Rejected(r)
    <3>1. PICK err \in {"no_node", "queue_full"} : Reject(r, err)
      BY <2>6 DEF Rejected
    <3>2. result' \in [Requests -> Results]
      BY <1>0, <3>1 DEF Reject, Values, Results
    <3>3. armed' \subseteq Requests /\ UNCHANGED <<up, p, woken, quiet>> /\ Forget(r)
      BY <1>0, <3>1 DEF Reject, Return, Values
    <3> QED BY <1>0, <2>5, <3>2, <3>3 DEF Values
  <2>7. CASE Leave(r)
    <3>1. /\ armed' \subseteq Requests /\ woken' \subseteq Requests
          /\ UNCHANGED <<up, p, result, quiet>> /\ Forget(r)
      BY <1>0, <2>7 DEF Leave, Values
    <3> QED BY <1>0, <2>5, <3>1 DEF Values
  <2>8. ASSUME NEW n \in Nodes, Grants(r, n) PROVE Values'
    <3>1. /\ armed' \subseteq Requests
          /\ UNCHANGED <<up, p, holding, woken, exclude, result, quiet>>
      BY <1>0, <2>8, ZenonT(30) DEF Grants, Grant, Return, Values
    <3>2. PICK t : t = (IF BreakerEnabled THEN AllowTicket(br[n]) ELSE NoTicket)
      OBVIOUS
    <3>3. lease' = [lease EXCEPT ![r] = [node |-> n, ticket |-> t]]
      BY <2>8, <3>2, ZenonT(30) DEF Grants, Grant
    <3>4. t \in Ticket
      <4>1. br[n] \in BreakerType
        BY <1>0 DEF Values
      <4>2. AllowTicket(br[n]) \in Ticket
        BY <4>1, AllowIs, ZenonT(30)
      <4>3. NoTicket \in Ticket
        BY DEF NoTicket, Ticket
      <4> QED BY <3>2, <4>2, <4>3
    <3>5. lease' \in [Requests -> [node : Nodes, ticket : Ticket]]
      BY <1>0, <3>3, <3>4 DEF Values
    <3> QED BY <1>0, <3>1, <3>5 DEF Values
  <2>9. CASE Attempt(r)
    <3>1. result' \in [Requests -> Results]
      BY <1>0, <2>9 DEF Attempt, Verdict, Values, Results
    <3> QED BY <1>0, <2>9, <3>1, ZenonT(30) DEF Attempt, Verdict, Values
  <2>10. CASE Release(r)
    <3>1. /\ woken' \subseteq Requests /\ quiet' = {} /\ UNCHANGED <<up, p, armed, result>>
      BY <1>0, <2>10 DEF Release, Free, Parked, Values
    <3>2. CASE result[r] = "retry"
      <4>1. /\ exclude' = [exclude EXCEPT ![r] = @ \cup {lease[r].node}]
            /\ holding' \in {holding, holding \cup {r}}
            /\ lease' = [lease EXCEPT ![r] = NoLease]
        BY <2>10, <3>2, ZenonT(30) DEF Release, Free
      <4>2. exclude' \in [Requests -> SUBSET Nodes] /\ holding' \subseteq Requests
        BY <1>0, <4>1 DEF Values
      <4>3. lease' \in [Requests -> [node : Nodes, ticket : Ticket]]
        BY <1>0, <4>1, NoLeaseIs DEF Values
      <4> QED BY <1>0, <3>1, <4>2, <4>3 DEF Values
    <3>3. CASE result[r] # "retry"
      <4>1. Forget(r)
        BY <2>10, <3>3 DEF Release, Free
      <4> QED BY <1>0, <2>5, <3>1, <4>1 DEF Values
    <3> QED BY <3>2, <3>3
  <2> QED BY <1>3, <2>1, <2>2, <2>3, <2>4, <2>6, <2>7, <2>8, <2>9, <2>10 DEF Kinds
<1> QED BY <1>2, <1>3

-----------------------------------------------------------------------------
(* What the picker in its critical section has gathered.                   *)

\* The exclusions of a request that goes on picking, or goes on sleeping, stand.
SameEligible(r) == exclude'[r] = exclude[r]

LEMMA EligibleSame ==
  ASSUME NEW r \in Requests, SameEligible(r), NEW n
  PROVE  Eligible(r, n)' <=> Eligible(r, n)
BY DEF SameEligible, Eligible

LEMMA ScannedIs ==
  ASSUME JInv, NEW r \in Requests, Scan(r)
  PROVE  LET n == NodeList[pick.i]
         IN  /\ n \in Nodes /\ pick.i \in Nat /\ pick.i >= 1
             /\ pick'.i = pick.i + 1 /\ pick'.order = pick.order
             /\ Eligible(r, n) /\ available(n) => pick'.cands = pick.cands \cup {n}
             /\ ~(Eligible(r, n) /\ available(n)) => pick'.cands = pick.cands
<1> DEFINE n == NodeList[pick.i]
           c == IF Eligible(r, n) /\ available(n) THEN pick.cands \cup {n} ELSE pick.cands
<1>1. /\ NodeList \in Seq(Nodes) /\ pick.i \in Nat /\ pick.i >= 1 /\ pick.i <= Len(NodeList)
      /\ pick = [i |-> pick.i, cands |-> pick.cands, order |-> pick.order]
  BY RouterAssumption DEF Scan, JInv, Picked, Picking, IInv, Typed, LocalsTyped
<1>2. n \in Nodes
  BY <1>1
<1>3. pick' = [pick EXCEPT !.i = @ + 1, !.cands = c]
  BY DEF Scan
<1>4. /\ Eligible(r, n) /\ available(n) => c = pick.cands \cup {n}
      /\ ~(Eligible(r, n) /\ available(n)) => c = pick.cands
  OBVIOUS
<1> HIDE DEF c, n
<1>5. pick' = [i |-> pick.i + 1, cands |-> c, order |-> pick.order]
  BY <1>1, <1>3, ZenonT(30)
<1>6. pick'.i = pick.i + 1 /\ pick'.cands = c /\ pick'.order = pick.order
  BY <1>5
<1> QED BY <1>1, <1>2, <1>4, <1>6 DEF n

LEMMA PickedInv ==
  ASSUME JInv, Around \/ \E r \in Requests : Kinds(r)
  PROVE  Picked'
<1>0. Picked /\ Locked /\ Locked'
  BY LockedInv DEF JInv
<1>1. CASE UNCHANGED <<pc, pick, exclude>>
  BY <1>0, <1>1, ZenonT(30) DEF Picked, Eligible
<1>2. CASE Around
  BY <1>1, <1>2, ZenonT(30) DEF Around, Tick, SetUp, Poll, vars, locals
<1>3. CASE pick' = NoPick /\ \A q \in Requests : pc'[q] \notin Picking
  <2>1. pick'.cands = {} /\ pick'.order = <<>>
    BY <1>3 DEF NoPick
  <2>2. <<>> \in Seq(Nodes)
    OBVIOUS
  <2> QED BY <1>3, <2>1, <2>2 DEF Picked
<1>4. ASSUME NEW r \in Requests, pick' = pick,
             \A q \in Requests : q # r => pc'[q] = pc[q] /\ exclude'[q] = exclude[q],
             pc'[r] \notin Picking
      PROVE  Picked'
  BY <1>0, <1>4, ZenonT(30) DEF Picked, Eligible
<1>5. ASSUME NEW r \in Requests, Kinds(r) PROVE Picked'
  <2>0. pc \in [Requests -> PCs] /\ exclude \in [Requests -> SUBSET Nodes]
    BY DEF JInv, IInv, Typed, LocalsTyped, Values
  <2>1. CASE Lock(r)
    <3>1. pick'.i = 1 /\ pick'.cands = {} /\ pick'.order = <<>>
      BY <2>1 DEF Lock, NoPick
    <3>2. \A q \in Requests : pc'[q] = IF q = r THEN "scan" ELSE pc[q]
      BY <2>1, PcIs, ZenonT(30) DEF Lock
    <3>3. \A q \in Requests : pc[q] \notin Picking
      BY <1>0, <2>1, RouterAssumption DEF Lock, Locked
    <3>4. <<>> \in Seq(Nodes)
      OBVIOUS
    <3> QED BY <3>1, <3>2, <3>3, <3>4 DEF Picked, Picking
  <2>2. CASE Scan(r)
    <3> DEFINE n == NodeList[pick.i]
    <3>1. /\ n \in Nodes /\ pick.i \in Nat /\ pick.i >= 1
          /\ pick'.i = pick.i + 1 /\ pick'.order = pick.order
          /\ Eligible(r, n) /\ available(n) => pick'.cands = pick.cands \cup {n}
          /\ ~(Eligible(r, n) /\ available(n)) => pick'.cands = pick.cands
      BY <2>2, ScannedIs
    <3> HIDE DEF n
    <3>2. UNCHANGED <<pc, exclude, mu>> /\ pc[r] = "scan"
      BY <2>2 DEF Scan, locals
    <3>3. \A q \in Requests : pc'[q] \in Picking => q = r
      BY <1>0, <3>2 DEF Locked, Picking
    <3>4. \A m \in pick'.cands : m \in Nodes /\ Eligible(r, m)
      BY <1>0, <3>1, <3>2 DEF Picked, Picking
    <3>5. \A m \in pick'.cands : Eligible(r, m)'
      BY <3>2, <3>4, ZenonT(30) DEF Eligible
    <3>6. pick'.cands \in SUBSET Nodes /\ pick'.order \in Seq(Nodes)
      BY <1>0, <3>1, <3>4 DEF Picked
    <3>7. pick'.i >= 1 /\ pc'[r] # "try"
      BY <3>1, <3>2
    <3>8. ASSUME NEW q \in Requests, pc'[q] \in Picking
          PROVE  /\ pick'.i >= 1 /\ pc'[q] # "try"
                 /\ \A m \in pick'.cands : Eligible(q, m)'
      <4>1. q = r
        BY <3>3, <3>8
      <4> QED BY <3>5, <3>7, <4>1
    <3> QED BY <3>6, <3>8 DEF Picked
  <2>3. CASE Rank(r)
    <3>1. /\ pick'.i = 1 /\ pick'.cands = pick.cands /\ pick.cands # {}
          /\ pick'.order \in Seq(Nodes) /\ Range(pick'.order) = pick.cands
      BY <2>3, RankIs
    <3>2. exclude' = exclude /\ mu' = mu /\ pc[r] = "scan"
      BY <2>3 DEF Rank, locals
    <3>3. \A q \in Requests : pc'[q] \in Picking => q = r
      BY <1>0, <3>2 DEF Locked, Picking
    <3>4. \A n \in pick.cands : Eligible(r, n)'
      BY <1>0, <3>2, ZenonT(30) DEF Picked, Picking, Eligible
    <3> QED BY <1>0, <3>1, <3>3, <3>4 DEF Picked
  <2>4. CASE Refused(r)
    <3>1. PICK j \in Nat : pick' = [pick EXCEPT !.i = j + 1]
      BY <2>4 DEF Refused
    <3>2. pick'.i = j + 1 /\ pick'.cands = pick.cands /\ pick'.order = pick.order
      BY <3>1 DEF JInv, IInv, Typed, LocalsTyped
    <3>3. UNCHANGED <<pc, exclude>> /\ j + 1 >= 1
      BY <2>4 DEF Refused, locals
    <3> QED BY <1>0, <3>2, <3>3, ZenonT(30) DEF Picked, Eligible
  <2>5. CASE Rejected(r) \/ Parks(r) \/ \E n \in Nodes : Grants(r, n)
    <3>1. pick' = NoPick /\ mu' = NoRequest
      BY <2>5, ZenonT(30) DEF Rejected, Reject, Parks, Park, Grants, Grant, Return
    <3> QED BY <1>0, <1>3, <3>1, RouterAssumption, ZenonT(30) DEF Locked
  <2>6. CASE Wake(r) \/ AffinityExpires(r) \/ GivesUp(r) \/ Leave(r)
    BY <1>4, <2>0, <2>6
       DEF Wake, AffinityExpires, GivesUp, StopWaiting, Leave, Forget, locals, Picking
  <2>7. CASE Attempt(r)
    BY <1>4, <2>0, <2>7 DEF Attempt, Verdict, Picking
  <2>8. CASE Release(r)
    BY <1>4, <2>0, <2>8 DEF Release, Free, Forget, Picking
  <2> QED BY <1>5, <2>1, <2>2, <2>3, <2>4, <2>5, <2>6, <2>7, <2>8 DEF Kinds
<1> QED BY <1>2, <1>5

-----------------------------------------------------------------------------
(***************************************************************************)
(* A retry goes elsewhere.                                                 *)
(***************************************************************************)
LEMMA RetryInv ==
  ASSUME JInv, Around \/ \E r \in Requests : Kinds(r)
  PROVE  RetryElsewhere'
<1>0. RetryElsewhere
  BY DEF JInv
<1>t. /\ pc \in [Requests -> PCs] /\ exclude \in [Requests -> SUBSET Nodes]
      /\ lease \in [Requests -> [node : Nodes, ticket : Ticket]]
  BY DEF JInv, IInv, Typed, LocalsTyped, Values
<1>1. CASE UNCHANGED <<pc, lease, exclude>>
  BY <1>0, <1>1 DEF RetryElsewhere, Holders
<1>2. CASE Around
  BY <1>1, <1>2, ZenonT(30) DEF Around, Tick, SetUp, Poll, vars, locals
<1>3. ASSUME NEW r \in Requests,
             \A q \in Requests : q # r => /\ pc'[q] = pc[q] /\ lease'[q] = lease[q]
                                          /\ exclude'[q] = exclude[q],
             \/ pc'[r] \notin {"serving", "releasing"}
             \/ lease'[r].node \notin exclude'[r]
      PROVE  RetryElsewhere'
  BY <1>0, <1>3, ZenonT(30) DEF RetryElsewhere, Holders
<1>4. ASSUME NEW r \in Requests, Kinds(r) PROVE RetryElsewhere'
  <2>1. CASE Scan(r) \/ Refused(r)
    BY <1>1, <2>1 DEF Scan, Refused, locals
  <2>2. CASE Lock(r) \/ Rank(r) \/ Parks(r)
    BY <1>3, <1>t, <2>2 DEF Lock, Rank, Parks, Park, locals
  <2>3. CASE Rejected(r)
    BY <1>3, <1>t, <2>3 DEF Rejected, Reject, Return, Forget
  <2>4. ASSUME NEW n \in Nodes, Grants(r, n) PROVE RetryElsewhere'
    <3>1. Eligible(r, n)
      BY <2>4, ZenonT(30) DEF Grants, JInv, Picked, Picking
    <3>2. /\ exclude' = exclude /\ pc' = [pc EXCEPT ![r] = "serving"]
          /\ lease'[r].node = n /\ \A q \in Requests : q # r => lease'[q] = lease[q]
      BY <1>t, <2>4, ZenonT(30) DEF Grants, Grant, Return
    <3> QED BY <1>3, <1>t, <3>1, <3>2, ZenonT(30) DEF Eligible
  <2>5. CASE Wake(r) \/ AffinityExpires(r) \/ GivesUp(r) \/ Leave(r)
    BY <1>3, <1>t, <2>5 DEF Wake, AffinityExpires, GivesUp, StopWaiting, Leave, Forget, locals
  <2>6. CASE Attempt(r)
    <3>1. /\ UNCHANGED <<exclude, lease>> /\ pc[r] = "serving"
          /\ pc' = [pc EXCEPT ![r] = "releasing"]
      BY <2>6 DEF Attempt, Verdict
    <3>2. r \in Holders(lease[r].node) /\ lease[r].node \in Nodes
      BY <1>t, <3>1 DEF Holders
    <3>3. lease[r].node \notin exclude[r]
      BY <1>0, <3>2 DEF RetryElsewhere
    <3> QED BY <1>3, <1>t, <3>1, <3>3
  <2>7. CASE Release(r)
    BY <1>3, <1>t, <2>7, ZenonT(30) DEF Release, Free, Forget
  <2> QED BY <1>4, <2>1, <2>2, <2>3, <2>4, <2>5, <2>6, <2>7 DEF Kinds
<1> QED BY <1>2, <1>4
=============================================================================
