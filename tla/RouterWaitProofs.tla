-------------------------- MODULE RouterWaitProofs --------------------------
(***************************************************************************)
(* Proofs about the router's sleepers and probes, for any number of        *)
(* requests, nodes, attempts and places in the queue: that the clauses of  *)
(* JInv about them are kept by every step, that JInv is inductive, and the *)
(* invariants that follow from it.                                         *)
(***************************************************************************)
EXTENDS RouterProofs

-----------------------------------------------------------------------------
(***************************************************************************)
(* Between two releases slots are only taken, leases are only added, and a *)
(* node outside quiet becomes available only by a verdict, whose release   *)
(* is then still to come.                                                  *)
(***************************************************************************)
Releasing(n) == \E q \in Holders(n) : pc[q] = "releasing"

NothingFreed ==
  /\ quiet \subseteq quiet'
  /\ \A n \in Nodes : /\ Holders(n) \subseteq Holders(n)'
                      /\ Releasing(n) => Releasing(n)'
                      /\ HasSlot(inflight', n) => HasSlot(inflight, n)
  /\ \A n \in Nodes \ quiet' : available(n)' => available(n) \/ Releasing(n)'

\* Who sleeps after the step slept before it, except for the request that parks.
SleepsOn(r) ==
  /\ r \in Parked \ woken
  /\ SameEligible(r)
  /\ r \in holding => r \in holding'

LEMMA FreedOnly ==
  ASSUME JInv, \A q \in Requests, n \in Nodes : Serves(q, n) => Serves(q, n)',
         \A q \in Requests : pc[q] = "releasing" => pc'[q] = "releasing"
  PROVE  \A n \in Nodes : Holders(n) \subseteq Holders(n)' /\ (Releasing(n) => Releasing(n)')
BY DEF Serves, Holders, Releasing

\* A request that holds no lease moves or is gone; nothing else happens.
LEMMA NotServing ==
  ASSUME JInv, NEW r \in Requests, pc[r] \notin {"serving", "releasing"},
         NEW s, pc' = [pc EXCEPT ![r] = s],
         \A q \in Requests : q # r => lease'[q] = lease[q],
         UNCHANGED <<inflight, up, br, quiet>>
  PROVE  NothingFreed
<1>0. pc \in [Requests -> PCs]
  BY DEF JInv, IInv, Typed, LocalsTyped
<1>1. \A q \in Requests : pc'[q] = IF q = r THEN s ELSE pc[q]
  BY <1>0
<1>2. \A n \in Nodes : Holders(n) \subseteq Holders(n)' /\ (Releasing(n) => Releasing(n)')
  BY <1>1, FreedOnly DEF Serves
<1>3. \A n \in Nodes : available(n)' <=> available(n)
  BY DEF available, Admits
<1> QED BY <1>2, <1>3 DEF NothingFreed

\* A step of the breakers, the clock or the health checker.
LEMMA NobodyMoves ==
  ASSUME UNCHANGED <<inflight, pc, lease>>, quiet \subseteq quiet',
         \A n \in Nodes \ quiet' : available(n)' => available(n)
  PROVE  NothingFreed
<1>1. \A n \in Nodes : Holders(n)' = Holders(n) /\ (Releasing(n) => Releasing(n)')
  BY DEF Holders, Releasing
<1> QED BY <1>1 DEF NothingFreed

LEMMA AdvancedAvailable ==
  ASSUME JInv, NEW n \in Nodes, up' = up,
         br' = br \/ br' = [br EXCEPT ![n] = advanceLocked(@)]
  PROVE  \A m \in Nodes : available(m)' <=> available(m)
<1>0. br \in [Nodes -> BreakerType]
  BY DEF JInv, Values
<1>1. Available(advanceLocked(br[n])) <=> Available(br[n])
  BY <1>0, AvailableAdvanced
<1>2. \A m \in Nodes : br'[m] = br[m] \/ (m = n /\ br'[m] = advanceLocked(br[n]))
  BY <1>0
<1>3. \A m \in Nodes : Available(br'[m]) <=> Available(br[m])
  BY <1>1, <1>2
<1> QED BY <1>3 DEF available, Admits

LEMMA AroundFrees ==
  ASSUME JInv, Around
  PROVE  NothingFreed
<1>0. br \in [Nodes -> BreakerType] /\ up \in [Nodes -> BOOLEAN]
  BY DEF JInv, Values
<1>1. CASE Tick
  <2>1. /\ br' = [n \in Nodes |-> Elapse(br[n])] /\ up' = up
        /\ quiet' = quiet \cup {n \in Nodes : br[n].cool = 1}
        /\ UNCHANGED <<inflight, pc, lease>>
    BY <1>1 DEF Tick, locals
  <2>2. ASSUME NEW n \in Nodes \ quiet', available(n)' PROVE available(n)
    <3>1. br[n].cool # 1 /\ br[n] \in BreakerType /\ br'[n] = Elapse(br[n])
      BY <1>0, <2>1
    <3>2. Available(Elapse(br[n])) => Available(br[n])
      BY <3>1, ElapseIs
    <3>3. up'[n] /\ (BreakerEnabled => Available(br'[n]))
      BY <2>2 DEF available, Admits
    <3> QED BY <2>1, <3>1, <3>2, <3>3 DEF available, Admits
  <2> QED BY <2>1, <2>2, NobodyMoves
<1>2. ASSUME NEW n \in Nodes, SetUp(n) PROVE NothingFreed
  <2>1. /\ up' = [up EXCEPT ![n] = ~@] /\ quiet' = quiet \cup {n} /\ br' = br
        /\ UNCHANGED <<inflight, pc, lease>>
    BY <1>2 DEF SetUp, locals
  <2>2. \A m \in Nodes \ quiet' : up'[m] = up[m]
    BY <1>0, <2>1
  <2>3. \A m \in Nodes \ quiet' : available(m)' => available(m)
    BY <2>1, <2>2 DEF available, Admits
  <2> QED BY <2>1, <2>3, NobodyMoves
<1>3. ASSUME NEW n \in Nodes, Poll(n) PROVE NothingFreed
  <2>1. /\ br' = [br EXCEPT ![n] = advanceLocked(@)]
        /\ UNCHANGED <<up, quiet, inflight, pc, lease>>
    BY <1>3 DEF Poll, locals
  <2> QED BY <2>1, AdvancedAvailable, NobodyMoves, ZenonT(30)
<1>4. CASE UNCHANGED vars
  <2>1. UNCHANGED <<up, br, quiet, inflight, pc, lease>>
    BY <1>4 DEF vars, locals
  <2>2. \A m \in Nodes : available(m)' <=> available(m)
    BY <2>1 DEF available, Admits
  <2> QED BY <2>1, <2>2, NobodyMoves
<1> QED BY <1>1, <1>2, <1>3, <1>4 DEF Around

LEMMA KindsFree ==
  ASSUME JInv, NEW r \in Requests, Kinds(r), ~Release(r)
  PROVE  NothingFreed
<1>0. /\ br \in [Nodes -> BreakerType] /\ inflight \in [Nodes -> Nat]
      /\ lease \in [Requests -> [node : Nodes, ticket : Ticket]]
      /\ MaxConcurrent \in [Nodes -> Int]
      /\ pc \in [Requests -> PCs]
  BY SelectionAssumption DEF JInv, IInv, Typed, LocalsTyped, Values
<1>1. CASE Lock(r) \/ Rank(r) \/ Parks(r) \/ Wake(r) \/ AffinityExpires(r) \/ GivesUp(r)
  BY <1>1, NotServing
     DEF Lock, Rank, Parks, Park, Wake, AffinityExpires, GivesUp, StopWaiting, locals
<1>2. CASE Rejected(r)
  BY <1>0, <1>2, NotServing, ZenonT(30) DEF Rejected, Picking, Reject, Return, Forget
<1>3. CASE Leave(r)
  BY <1>0, <1>3, NotServing, ZenonT(30) DEF Leave, Forget
<1>4. CASE Refused(r)
  <2>1. UNCHANGED <<up, br, quiet, inflight, pc, lease>>
    BY <1>4 DEF Refused, locals
  <2>2. \A m \in Nodes : available(m)' <=> available(m)
    BY <2>1 DEF available, Admits
  <2> QED BY <2>1, <2>2, NobodyMoves
<1>5. CASE Scan(r)
  <2> DEFINE n == NodeList[pick.i]
  <2>1. n \in Nodes
    BY <1>5, ScannedIs
  <2>2. /\ br' = br \/ br' = [br EXCEPT ![n] = advanceLocked(@)]
        /\ UNCHANGED <<up, quiet, inflight, pc, lease>>
    BY <1>5 DEF Scan, locals
  <2> HIDE DEF n
  <2>3. \A m \in Nodes : available(m)' <=> available(m)
    BY <2>1, <2>2, AdvancedAvailable
  <2> QED BY <2>2, <2>3, NobodyMoves
<1>6. ASSUME NEW n \in Nodes, Grants(r, n) PROVE NothingFreed
  <2>1. /\ pc[r] = "try" /\ pc' = [pc EXCEPT ![r] = "serving"]
        /\ inflight' = [inflight EXCEPT ![n] = @ + 1] /\ Admits(n)
        /\ br' \in {br, [br EXCEPT ![n] = Allow(@)]} /\ UNCHANGED <<up, quiet>>
        /\ \A q \in Requests : q # r => lease'[q] = lease[q]
    BY <1>0, <1>6 DEF Grants, Grant, Return
  <2>2. \A q \in Requests : pc'[q] = IF q = r THEN "serving" ELSE pc[q]
    BY <1>0, <2>1
  <2>3. \A m \in Nodes : Holders(m) \subseteq Holders(m)' /\ (Releasing(m) => Releasing(m)')
    BY <2>1, <2>2, FreedOnly DEF Serves
  <2>4. ASSUME NEW m \in Nodes, HasSlot(inflight', m) PROVE HasSlot(inflight, m)
    <3>1. inflight'[m] < MaxConcurrent[m] /\ MaxConcurrent[m] \in Int /\ inflight[m] \in Nat
      BY <1>0, <2>4 DEF HasSlot
    <3>2. inflight'[m] = inflight[m] \/ inflight'[m] = inflight[m] + 1
      BY <1>0, <2>1
    <3> QED BY <3>1, <3>2 DEF HasSlot
  <2>5. ASSUME NEW m \in Nodes, available(m)' PROVE available(m)
    <3>1. CASE m = n
      BY <2>1, <2>5, <3>1 DEF available
    <3>2. CASE m # n
      <4>1. br'[m] = br[m]
        BY <1>0, <2>1, <3>2
      <4> QED BY <2>1, <2>5, <4>1 DEF available, Admits
    <3> QED BY <3>1, <3>2
  <2> QED BY <2>1, <2>3, <2>4, <2>5, ZenonT(30) DEF NothingFreed
<1>7. CASE Attempt(r)
  <2>0. PICK n \in Nodes : n = lease[r].node
    BY <1>0
  <2>1. /\ pc[r] = "serving" /\ pc' = [pc EXCEPT ![r] = "releasing"]
        /\ UNCHANGED <<up, quiet, inflight, lease>>
        /\ \A m \in Nodes : m # n => br'[m] = br[m]
    BY <1>0, <1>7, <2>0 DEF Attempt, Verdict, Report
  <2>2. \A q \in Requests : pc'[q] = IF q = r THEN "releasing" ELSE pc[q]
    BY <1>0, <2>1
  <2>3. \A m \in Nodes : Holders(m) \subseteq Holders(m)' /\ (Releasing(m) => Releasing(m)')
    BY <2>1, <2>2, FreedOnly DEF Serves
  <2>4. Releasing(n)'
    BY <2>0, <2>1, <2>2 DEF Releasing, Holders
  <2>5. \A m \in Nodes : available(m)' => available(m) \/ Releasing(m)'
    <3> TAKE m \in Nodes
    <3>1. CASE m = n
      BY <2>4, <3>1
    <3>2. CASE m # n
      BY <2>1, <3>2 DEF available, Admits
    <3> QED BY <3>1, <3>2
  <2> QED BY <2>1, <2>3, <2>5 DEF NothingFreed
<1> QED BY <1>1, <1>2, <1>3, <1>4, <1>5, <1>6, <1>7 DEF Kinds

\* A release leaves nobody asleep, and nobody was picking.
LEMMA ReleaseWakes ==
  ASSUME JInv, NEW r \in Requests, Release(r)
  PROVE  (Parked \ woken)' = {} /\ \A q \in Requests : pc'[q] \notin Picking
<1>1. /\ pc[r] = "releasing" /\ mu = NoRequest /\ woken' = woken \cup Parked
      /\ \E s \in {"lock", "done"} : pc' = [pc EXCEPT ![r] = s]
  BY DEF Release, Free
<1>2. PICK s \in {"lock", "done"} : pc' = [pc EXCEPT ![r] = s]
  BY <1>1, ZenonT(30)
<1>3. \A q \in Requests : pc'[q] = IF q = r THEN s ELSE pc[q]
  BY <1>2, PcIs, ZenonT(30)
<1>4. (Parked \ woken)' = {}
  BY <1>1, <1>3 DEF Parked
<1>5. \A q \in Requests : pc[q] \notin Picking
  BY <1>1, RouterAssumption DEF JInv, Locked
<1> QED BY <1>3, <1>4, <1>5 DEF Picking

LEMMA SleepersAre ==
  ASSUME JInv, \/ Around
               \/ \E q \in Requests : Kinds(q) /\ ~Release(q),
         NEW r \in (Parked \ woken)'
  PROVE  SleepsOn(r) \/ Parks(r)
<1>t. /\ pc \in [Requests -> PCs] /\ exclude \in [Requests -> SUBSET Nodes]
      /\ r \in Requests /\ pc'[r] = "parked" /\ r \notin woken'
  BY DEF JInv, IInv, Typed, LocalsTyped, Values, Parked
<1>1. CASE Around
  BY <1>1, <1>t DEF Around, Tick, SetUp, Poll, vars, locals, SleepsOn, SameEligible, Parked
<1>2. ASSUME NEW q \in Requests, Kinds(q), ~Release(q)
      PROVE  SleepsOn(r) \/ Parks(r)
  <2>1. CASE Lock(q)
    BY <1>t, <2>1 DEF Lock, SleepsOn, SameEligible, Parked
  <2>2. CASE Scan(q) \/ Refused(q) \/ Rank(q) \/ Wake(q)
    BY <1>t, <2>2 DEF Scan, Refused, Rank, Wake, locals, SleepsOn, SameEligible, Parked
  <2>3. CASE Rejected(q)
    BY <1>t, <2>3 DEF Rejected, Reject, Return, Forget, SleepsOn, SameEligible, Parked
  <2>4. CASE Parks(q)
    BY <1>t, <2>4, ZenonT(30) DEF Parks, Park, SleepsOn, SameEligible, Parked
  <2>5. CASE \E n \in Nodes : Grants(q, n)
    BY <1>t, <2>5 DEF Grants, Grant, Return, SleepsOn, SameEligible, Parked
  <2>6. CASE AffinityExpires(q) \/ GivesUp(q)
    BY <1>t, <2>6 DEF AffinityExpires, GivesUp, StopWaiting, SleepsOn, SameEligible, Parked
  <2>7. CASE Leave(q)
    BY <1>t, <2>7 DEF Leave, Forget, SleepsOn, SameEligible, Parked
  <2>8. CASE Attempt(q)
    BY <1>t, <2>8 DEF Attempt, Verdict, SleepsOn, SameEligible, Parked
  <2> QED BY <1>2, <2>1, <2>2, <2>3, <2>4, <2>5, <2>6, <2>7, <2>8 DEF Kinds
<1> QED BY <1>1, <1>2

-----------------------------------------------------------------------------
(***************************************************************************)
(* No wakeup is lost.                                                      *)
(***************************************************************************)
Misses(q) ==
  \A n \in Seen(q) \ (pick.cands \cup quiet) :
    Eligible(q, n) /\ available(n) => Releasing(n)

LEMMA MissedIs == Missed <=> \A q \in Requests : pc[q] \in Picking => Misses(q)
BY DEF Missed, Misses, Releasing

\* A request goes on picking, and has seen no further node but those in new.
LEMMA MissesOn ==
  ASSUME NothingFreed, NEW q \in Requests, Misses(q), SameEligible(q), NEW new,
         Seen(q)' \subseteq Seen(q) \cup new, pick.cands \subseteq pick'.cands,
         \A n \in new \ pick'.cands : ~(Eligible(q, n)' /\ available(n)')
  PROVE  Misses(q)'
<1>1. \A n : Eligible(q, n)' <=> Eligible(q, n)
  BY EligibleSame
<1>2. ASSUME NEW n \in Seen(q)' \ (pick'.cands \cup quiet'), Eligible(q, n)', available(n)'
      PROVE  Releasing(n)'
  <2>1. n \in Seen(q) /\ n \notin pick.cands /\ n \notin quiet /\ n \notin quiet'
    BY <1>2 DEF NothingFreed
  <2>2. n \in Nodes
    BY <2>1 DEF Seen
  <2>3. available(n) \/ Releasing(n)'
    BY <1>2, <2>1, <2>2 DEF NothingFreed
  <2>4. available(n) => Releasing(n)
    BY <1>1, <1>2, <2>1 DEF Misses
  <2>5. Releasing(n) => Releasing(n)'
    BY <2>2 DEF NothingFreed
  <2> QED BY <2>3, <2>4, <2>5
<1> QED BY <1>2 DEF Misses

LEMMA MissedInv ==
  ASSUME JInv, Around \/ \E r \in Requests : Kinds(r)
  PROVE  Missed'
<1>0. /\ \A q \in Requests : pc[q] \in Picking => Misses(q)
      /\ Locked /\ Locked' /\ pc \in [Requests -> PCs]
      /\ exclude \in [Requests -> SUBSET Nodes]
  BY MissedIs, LockedInv DEF JInv, IInv, Typed, LocalsTyped, Values
<1> SUFFICES ASSUME NEW q \in Requests, pc'[q] \in Picking PROVE Misses(q)'
  BY DEF Missed, Misses, Releasing
<1>1. ASSUME NothingFreed, pick' = pick, pc'[q] = pc[q], exclude'[q] = exclude[q]
      PROVE  Misses(q)'
  <2>1. Seen(q)' = Seen(q)
    BY <1>1 DEF Seen
  <2> QED BY <1>0, <1>1, <2>1, MissesOn DEF SameEligible
<1>2. CASE Around
  <2>1. NothingFreed
    BY <1>2, AroundFrees
  <2> QED BY <1>1, <1>2, <2>1, ZenonT(30) DEF Around, Tick, SetUp, Poll, vars, locals
<1>3. ASSUME NEW r \in Requests, Kinds(r) PROVE Misses(q)'
  <2>1. CASE Release(r)
    BY <2>1, ReleaseWakes
  <2>2. CASE ~Release(r)
    <3>0. NothingFreed
      BY <1>3, <2>2, KindsFree
    <3>1. CASE Lock(r)
      <4>1. pick'.i = 1 /\ mu' = r /\ pc'[r] = "scan"
        BY <1>0, <3>1 DEF Lock, NoPick
      <4>2. q = r
        BY <1>0, <4>1 DEF Locked
      <4>3. Seen(q)' = {}
        BY <4>1, <4>2 DEF Seen
      <4> QED BY <4>3 DEF Misses
    <3>2. CASE Scan(r)
      <4> DEFINE m == NodeList[pick.i]
      <4>1. /\ m \in Nodes /\ pick.i \in Nat /\ pick.i >= 1 /\ pick'.i = pick.i + 1
            /\ Eligible(r, m) /\ available(m) => pick'.cands = pick.cands \cup {m}
            /\ ~(Eligible(r, m) /\ available(m)) => pick'.cands = pick.cands
        BY <3>2, ScannedIs
      <4>2. /\ pc[r] = "scan" /\ UNCHANGED <<pc, exclude, mu, up>>
            /\ br' = br \/ br' = [br EXCEPT ![m] = advanceLocked(@)]
        BY <3>2 DEF Scan, locals
      <4>3. PICK n \in Nodes : n = m
        BY <4>1
      <4>4. q = r
        BY <1>0, <4>2 DEF Locked, Picking
      <4>5. available(n)' <=> available(n)
        BY <4>2, <4>3, AdvancedAvailable
      <4>6. Eligible(q, n)' <=> Eligible(q, n)
        BY <4>2 DEF Eligible
      <4>7. Seen(q)' \subseteq Seen(q) \cup {n}
        <5> SUFFICES ASSUME NEW x \in Seen(q)', x # n PROVE x \in Seen(q)
          OBVIOUS
        <5>1. x \in Nodes /\ pc'[q] = "scan"
          BY <4>2, <4>4 DEF Seen
        <5>2. PICK j \in 1 .. pick'.i - 1 : NodeList[j] = x
          BY <5>1 DEF Seen
        <5>3. j \in 1 .. pick.i /\ j # pick.i
          BY <4>1, <4>3, <5>2
        <5>4. j \in 1 .. pick.i - 1
          BY <4>1, <5>3
        <5> QED BY <5>1, <5>2, <5>4 DEF Seen
      <4>8. pick.cands \subseteq pick'.cands
            /\ (n \notin pick'.cands => ~(Eligible(q, n) /\ available(n)))
        BY <4>1, <4>3, <4>4
      <4>9. Misses(q) /\ SameEligible(q)
        BY <1>0, <4>2, <4>4 DEF SameEligible, Picking
      <4>10. \A x \in {n} \ pick'.cands : ~(Eligible(q, x)' /\ available(x)')
        BY <4>5, <4>6, <4>8
      <4> HIDE DEF m
      <4> QED BY <3>0, <4>7, <4>8, <4>9, <4>10, MissesOn, ZenonT(30)
    <3>3. CASE Rank(r)
      <4>1. pick'.cands = pick.cands
        BY <3>3, RankIs
      <4>2. pc[r] = "scan" /\ pick.i > Len(NodeList) /\ UNCHANGED <<exclude, mu>>
        BY <3>3 DEF Rank, locals
      <4>3. q = r
        BY <1>0, <4>2 DEF Locked, Picking
      <4>4. pick.i \in Nat /\ NodeList \in Seq(Nodes) /\ Nodes = Range(NodeList)
        BY RouterAssumption DEF JInv, IInv, Typed, LocalsTyped
      <4>5. Seen(q) = Nodes
        <5> SUFFICES ASSUME NEW n \in Nodes PROVE \E j \in 1 .. pick.i - 1 : NodeList[j] = n
          BY DEF Seen
        <5>1. PICK j \in DOMAIN NodeList : NodeList[j] = n
          BY <4>4 DEF Range
        <5>2. j \in 1 .. pick.i - 1
          BY <4>2, <4>4
        <5> QED BY <5>1, <5>2
      <4>6. Seen(q)' \subseteq Seen(q) \cup {}
        BY <4>5 DEF Seen
      <4>7. Misses(q) /\ SameEligible(q)
        BY <1>0, <4>2, <4>3 DEF SameEligible, Picking
      <4> QED BY <3>0, <4>1, <4>6, <4>7, MissesOn
    <3>4. CASE Refused(r)
      <4>1. pc[r] = "try" /\ UNCHANGED <<pc, exclude, mu>> /\ pick'.cands = pick.cands
        BY <3>4 DEF Refused, locals, JInv, IInv, Typed, LocalsTyped
      <4>2. q = r
        BY <1>0, <4>1 DEF Locked, Picking
      <4>3. Seen(q)' \subseteq Seen(q) \cup {}
        BY <4>1, <4>2 DEF Seen
      <4>4. Misses(q) /\ SameEligible(q)
        BY <1>0, <4>1, <4>2 DEF SameEligible, Picking
      <4> QED BY <3>0, <4>1, <4>3, <4>4, MissesOn
    <3>5. CASE Rejected(r) \/ Parks(r) \/ \E n \in Nodes : Grants(r, n)
      <4>1. mu' = NoRequest
        BY <3>5 DEF Rejected, Reject, Parks, Park, Grants, Grant, Return
      <4> QED BY <1>0, <4>1, RouterAssumption DEF Locked
    <3>6. CASE Leave(r)
      <4>1. mu' = NoRequest
        BY <3>6 DEF Leave
      <4> QED BY <1>0, <4>1, RouterAssumption DEF Locked
    <3>7. CASE Wake(r) \/ AffinityExpires(r) \/ GivesUp(r)
      <4>1. q # r
        BY <1>0, <3>7 DEF Wake, AffinityExpires, GivesUp, StopWaiting, Picking
      <4>2. pick' = pick /\ pc'[q] = pc[q] /\ exclude' = exclude
        BY <1>0, <3>7, <4>1 DEF Wake, AffinityExpires, GivesUp, StopWaiting, locals
      <4> QED BY <1>1, <3>0, <4>2
    <3>8. CASE Attempt(r)
      <4>1. q # r
        BY <1>0, <3>8 DEF Attempt, Verdict, Picking
      <4>2. pick' = pick /\ pc'[q] = pc[q] /\ exclude' = exclude
        BY <1>0, <3>8, <4>1 DEF Attempt, Verdict
      <4> QED BY <1>1, <3>0, <4>2
    <3> QED BY <1>3, <2>2, <3>1, <3>2, <3>3, <3>4, <3>5, <3>6, <3>7, <3>8 DEF Kinds
  <2> QED BY <2>1, <2>2
<1> QED BY <1>2, <1>3

\* A full node that has slots has a lease out.
LEMMA FullIsHeld ==
  ASSUME JInv, NEW n \in Nodes, ~HasSlot(inflight, n), ~(MaxConcurrent[n] < 1)
  PROVE  Holders(n) # {}
<1>1. inflight[n] = Cardinality(Holders(n)) /\ inflight[n] \in Nat
  BY DEF JInv, IInv, Typed, SlotAccounting
<1>2. MaxConcurrent[n] \in Int /\ MaxConcurrent[n] >= 1
  BY SelectionAssumption
<1>3. inflight[n] # 0
  BY <1>1, <1>2 DEF HasSlot
<1> QED BY <1>1, <1>3, FS_EmptySet

LEMMA ParkedIs ==
  ASSUME JInv, NEW r \in Requests, Parks(r)
  PROVE  /\ UNCHANGED <<up, br, inflight, holding, exclude, lease, quiet>>
         /\ \A n \in Nodes : Holders(n)' = Holders(n) /\ (Releasing(n)' <=> Releasing(n))
         /\ Seen(r) = Nodes /\ Misses(r) /\ \A n \in pick.cands : n \in Nodes /\ Eligible(r, n)
<1>1. /\ pc[r] = "try" /\ pc' = [pc EXCEPT ![r] = "parked"]
      /\ UNCHANGED <<up, br, inflight, holding, exclude, lease, quiet>>
  BY DEF Parks, Park
<1>2. \A q \in Requests : pc'[q] = IF q = r THEN "parked" ELSE pc[q]
  BY <1>1, PcIs, ZenonT(30)
<1>3. \A n \in Nodes : Holders(n)' = Holders(n) /\ (Releasing(n)' <=> Releasing(n))
  BY <1>1, <1>2 DEF Holders, Releasing
<1>4. Seen(r) = Nodes
  BY <1>1 DEF Seen
<1>5. Misses(r) /\ \A n \in pick.cands : n \in Nodes /\ Eligible(r, n)
  BY <1>1, MissedIs DEF JInv, Picked, Picking
<1> QED BY <1>1, <1>3, <1>4, <1>5

LEMMA ComingInv ==
  ASSUME JInv, Around \/ \E r \in Requests : Kinds(r)
  PROVE  WakeupOrNoSlots'
<1>1. CASE \E r \in Requests : Release(r)
  BY <1>1, ReleaseWakes DEF WakeupOrNoSlots
<1>2. CASE Around \/ \E r \in Requests : Kinds(r) /\ ~Release(r)
  <2>0. NothingFreed
    BY <1>2, AroundFrees, KindsFree
  <2> SUFFICES ASSUME NEW r \in (Parked \ woken)'
               PROVE  \E n \in Nodes : Eligible(r, n)' /\ (Holders(n)' # {} \/ MaxConcurrent[n] < 1)
    BY DEF WakeupOrNoSlots
  <2>1. r \in Requests
    BY DEF Parked
  <2>2. CASE SleepsOn(r)
    <3>1. PICK n \in Nodes : Eligible(r, n) /\ (Holders(n) # {} \/ MaxConcurrent[n] < 1)
      BY <2>2 DEF SleepsOn, JInv, WakeupOrNoSlots
    <3>2. Eligible(r, n)'
      BY <2>1, <2>2, <3>1, EligibleSame DEF SleepsOn
    <3>3. Holders(n) \subseteq Holders(n)'
      BY <2>0 DEF NothingFreed
    <3> QED BY <3>1, <3>2, <3>3
  <2>3. CASE Parks(r)
    <3>1. PICK m \in pick.cands : ~HasSlot(inflight, m)
      BY <2>3 DEF Parks
    <3>2. m \in Nodes /\ Eligible(r, m) /\ exclude' = exclude /\ Holders(m)' = Holders(m)
      BY <2>1, <2>3, ParkedIs
    <3>3. Holders(m) # {} \/ MaxConcurrent[m] < 1
      BY <3>1, <3>2, FullIsHeld
    <3>4. Eligible(r, m)'
      BY <3>2, ZenonT(30) DEF Eligible
    <3> QED BY <3>2, <3>3, <3>4
  <2> QED BY <1>2, <2>2, <2>3, SleepersAre
<1> QED BY <1>1, <1>2

LEMMA LostInv ==
  ASSUME JInv, Around \/ \E r \in Requests : Kinds(r)
  PROVE  NoLostWakeup'
<1>1. CASE \E r \in Requests : Release(r)
  BY <1>1, ReleaseWakes DEF NoLostWakeup
<1>2. CASE Around \/ \E r \in Requests : Kinds(r) /\ ~Release(r)
  <2>0. NothingFreed
    BY <1>2, AroundFrees, KindsFree
  <2> SUFFICES ASSUME NEW r \in (Parked \ woken)', NEW n \in Nodes \ quiet',
                      Eligible(r, n)', available(n)', HasSlot(inflight', n), ~Releasing(n)'
               PROVE  r \in holding' /\ \E m \in Nodes : Eligible(r, m)' /\ ~HasSlot(inflight', m)
    BY DEF NoLostWakeup, Usable, SleepIsJustified, Releasing, HasSlot
  <2>1. r \in Requests
    BY DEF Parked
  <2>2. CASE SleepsOn(r)
    <3>1. \A m : Eligible(r, m)' <=> Eligible(r, m)
      BY <2>1, <2>2, EligibleSame DEF SleepsOn
    <3>2. n \notin quiet /\ available(n) /\ HasSlot(inflight, n) /\ ~Releasing(n)
      BY <2>0 DEF NothingFreed
    <3>3. r \in Parked \ woken /\ n \in Nodes \ quiet /\ Usable(r, n)
      BY <2>2, <3>1, <3>2 DEF SleepsOn, Usable
    <3>4. SleepIsJustified(r, n)
      BY <3>3 DEF JInv, NoLostWakeup
    <3>5. r \in holding
      BY <3>2, <3>4 DEF SleepIsJustified, Releasing
    <3>6. PICK m \in Nodes : Eligible(r, m) /\ ~HasSlot(inflight, m)
      BY <3>2, <3>4 DEF SleepIsJustified, Releasing
    <3>7. ~HasSlot(inflight', m)
      BY <2>0, <3>6 DEF NothingFreed
    <3> QED BY <2>2, <3>1, <3>5, <3>6, <3>7 DEF SleepsOn
  <2>3. CASE Parks(r)
    <3>1. /\ UNCHANGED <<up, br, inflight, holding, exclude, lease, quiet>>
          /\ Releasing(n)' <=> Releasing(n)
          /\ Seen(r) = Nodes /\ Misses(r)
          /\ \A m \in pick.cands : m \in Nodes /\ Eligible(r, m)
      BY <2>1, <2>3, ParkedIs, ZenonT(30)
    <3>2. \A m : Eligible(r, m)' <=> Eligible(r, m)
      BY <3>1, ZenonT(30) DEF Eligible
    <3>3. available(n)
      BY <3>1 DEF available, Admits
    <3>4. n \in pick.cands
      BY <3>1, <3>2, <3>3 DEF Misses
    <3>5. HasSlot(inflight, n)
      BY <3>1
    <3>6. r \in holding
      BY <2>3, <3>4, <3>5 DEF Parks
    <3>7. PICK m \in pick.cands : ~HasSlot(inflight, m)
      BY <2>3 DEF Parks
    <3> QED BY <3>1, <3>2, <3>6, <3>7
  <2> QED BY <1>2, <2>2, <2>3, SleepersAre
<1> QED BY <1>1, <1>2

-----------------------------------------------------------------------------
(***************************************************************************)
(* The probe slots of half-open breakers.                                  *)
(***************************************************************************)
Probers(n, g) ==
  {r \in Requests : pc[r] = "serving" /\ lease[r].node = n /\ lease[r].ticket.gen = g}

LEMMA ProbersFinite ==
  \A n, g : IsFiniteSet(Probers(n, g)) /\ Cardinality(Probers(n, g)) \in Nat
<1> TAKE n, g
<1>1. Probers(n, g) \subseteq Requests /\ IsFiniteSet(Requests)
  BY RouterAssumption DEF Probers
<1> QED BY <1>1, FS_Subset, FS_CardinalityType

\* Nobody holds a ticket of a generation that is yet to come.
LEMMA NoneAhead ==
  ASSUME JInv, NEW n \in Nodes
  PROVE  Probers(n, br[n].gen + 1) = {}
<1>1. ASSUME NEW r \in Probers(n, br[n].gen + 1) PROVE FALSE
  <2>1. /\ r \in Requests /\ pc[r] = "serving" /\ lease[r].node = n
        /\ lease[r].ticket.gen = br[n].gen + 1
    BY <1>1 DEF Probers
  <2>2. lease[r].ticket.gen <= br[n].gen
    BY <2>1 DEF JInv, Tickets, TicketOf
  <2>3. br[n] \in BreakerType
    BY DEF JInv, Values
  <2>4. br[n].gen \in Nat
    BY <2>3, BreakerParts
  <2> QED BY <2>1, <2>2, <2>4
<1> QED BY <1>1

LEMMA ProbesHeldIs ==
  ProbesHeld <=> \A n \in Nodes : br[n].state = "half_open" =>
                   br[n].halfInFlight = Cardinality(Probers(n, br[n].gen))
BY DEF ProbesHeld, Probers

\* The tickets stay valid while the breakers age: who is served now was served
\* before, with the same lease, or holds a ticket that its breaker has just cut.
LEMMA TicketsInv ==
  ASSUME JInv, BreakersAge,
         \A r \in Requests : pc'[r] = "serving" =>
           \/ pc[r] = "serving" /\ lease'[r] = lease[r]
           \/ /\ lease'[r].node \in Nodes
              /\ lease'[r].ticket.gen <= br'[lease'[r].node].gen
              /\ br'[lease'[r].node].state = "half_open" => lease'[r].ticket.probe,
         BreakerEnabled \/ \A n \in Nodes : br'[n].state = br[n].state
  PROVE  Tickets'
<1>1. ASSUME NEW r \in Requests, pc'[r] = "serving" PROVE TicketOf(r, br[lease[r].node])'
  <2>1. CASE pc[r] = "serving" /\ lease'[r] = lease[r]
    <3> DEFINE n == lease[r].node
    <3>1. TicketOf(r, br[n])
      BY <2>1 DEF JInv, Tickets
    <3>2. n \in Nodes /\ lease[r].ticket \in Ticket /\ br[n] \in BreakerType
      BY DEF JInv, Values
    <3>3. Aged(br[n], br'[n])
      BY <3>2 DEF BreakersAge
    <3>4. br[n].gen \in Nat /\ br'[n].gen \in Nat /\ lease[r].ticket.gen \in Nat
      BY <3>2, <3>3, BreakerParts DEF Aged, Ticket
    <3>5. /\ lease[r].ticket.gen <= br'[n].gen
          /\ br'[n].state = "half_open" /\ lease[r].ticket.gen = br'[n].gen =>
               lease[r].ticket.probe
      <4>1. /\ lease[r].ticket.gen <= br[n].gen
            /\ br[n].state = "half_open" /\ lease[r].ticket.gen = br[n].gen =>
                 lease[r].ticket.probe
        BY <3>1 DEF TicketOf
      <4>2. br[n].gen <= br'[n].gen /\ (br'[n].gen = br[n].gen => br'[n].state = br[n].state)
        BY <3>3 DEF Aged
      <4> HIDE DEF n
      <4>3. lease[r].ticket.gen <= br'[n].gen
        BY <3>4, <4>1, <4>2
      <4>4. lease[r].ticket.gen = br'[n].gen => br'[n].gen = br[n].gen
        BY <3>4, <4>1, <4>2
      <4> QED BY <4>1, <4>2, <4>3, <4>4
    <3> QED BY <2>1, <3>5 DEF TicketOf
  <2>2. CASE /\ lease'[r].node \in Nodes
             /\ lease'[r].ticket.gen <= br'[lease'[r].node].gen
             /\ br'[lease'[r].node].state = "half_open" => lease'[r].ticket.probe
    BY <2>2 DEF TicketOf
  <2> QED BY <1>1, <2>1, <2>2
<1>2. BreakerEnabled \/ \A n \in Nodes : br'[n].state = "closed"
  BY DEF JInv, Tickets
<1> QED BY <1>1, <1>2 DEF Tickets

\* Nobody begins or ends an attempt; a breaker may become half-open.
LEMMA ProbesKept ==
  ASSUME JInv, BreakersAge,
         \A r \in Requests : /\ pc'[r] = "serving" <=> pc[r] = "serving"
                             /\ pc[r] = "serving" => lease'[r] = lease[r],
         \A n \in Nodes : br'[n].state = "half_open" =>
           \/ /\ br[n].state = "half_open" /\ br'[n].gen = br[n].gen
              /\ br'[n].halfInFlight = br[n].halfInFlight
           \/ Reopened(br[n], br'[n]),
         BreakerEnabled \/ \A n \in Nodes : br'[n].state = br[n].state
  PROVE  Tickets' /\ ProbesHeld'
<1>1. Tickets'
  BY TicketsInv
<1>2. ASSUME NEW n \in Nodes, br'[n].state = "half_open"
      PROVE  br'[n].halfInFlight = Cardinality(Probers(n, br[n].gen)')
  <2>1. PICK g : g = br'[n].gen
    OBVIOUS
  <2>2. Probers(n, br[n].gen)' = Probers(n, g)
    BY <2>1 DEF Probers
  <2>3. CASE /\ br[n].state = "half_open" /\ br'[n].gen = br[n].gen
             /\ br'[n].halfInFlight = br[n].halfInFlight
    BY <2>1, <2>2, <2>3, ProbesHeldIs DEF JInv
  <2>4. CASE Reopened(br[n], br'[n])
    <3>1. Probers(n, g) = {}
      BY <2>1, <2>4, NoneAhead DEF Reopened
    <3> QED BY <2>2, <2>4, <3>1, FS_EmptySet DEF Reopened
  <2> QED BY <1>2, <2>3, <2>4
<1>3. ProbesHeld'
  BY <1>2 DEF ProbesHeld, Probers
<1> QED BY <1>1, <1>3

LEMMA AdvancedProbes ==
  ASSUME JInv, BreakersAge, UNCHANGED <<pc, lease>>, NEW n \in Nodes,
         br' = br \/ (BreakerEnabled /\ br' = [br EXCEPT ![n] = advanceLocked(@)])
  PROVE  Tickets' /\ ProbesHeld'
<1>0. br \in [Nodes -> BreakerType]
  BY DEF JInv, Values
<1>1. advanceLocked(br[n]) # br[n] => Reopened(br[n], advanceLocked(br[n]))
  BY <1>0, AdvanceIs
<1>2. \A m \in Nodes : br'[m] = br[m] \/ Reopened(br[m], br'[m])
  BY <1>0, <1>1
<1>3. BreakerEnabled \/ br' = br
  OBVIOUS
<1> QED BY <1>2, <1>3, ProbesKept

\* An admitted request on a half-open node is one prober more.
LEMMA GrantProbes ==
  ASSUME JInv, BreakersAge, NEW r \in Requests, NEW n \in Nodes, Grants(r, n)
  PROVE  Tickets' /\ ProbesHeld'
<1>0. /\ br \in [Nodes -> BreakerType] /\ pc \in [Requests -> PCs]
      /\ lease \in [Requests -> [node : Nodes, ticket : Ticket]]
  BY DEF JInv, IInv, Typed, LocalsTyped, Values
<1>1. PICK t : /\ t = (IF BreakerEnabled THEN AllowTicket(br[n]) ELSE NoTicket)
               /\ lease' = [lease EXCEPT ![r] = [node |-> n, ticket |-> t]]
  BY ZenonT(30) DEF Grants, Grant
<1>2. /\ pc[r] = "try" /\ pc' = [pc EXCEPT ![r] = "serving"]
      /\ BreakerEnabled => br' = [br EXCEPT ![n] = Allow(br[n])]
      /\ ~BreakerEnabled => br' = br
  BY DEF Grants, Grant, Return
<1>3. /\ \A q \in Requests : q # r => pc'[q] = pc[q] /\ lease'[q] = lease[q]
      /\ pc'[r] = "serving" /\ lease'[r].node = n /\ lease'[r].ticket = t
  BY <1>0, <1>1, <1>2
<1>4. br[n] \in BreakerType /\ br[n].gen \in Nat /\ br[n].halfInFlight \in Nat
  BY <1>0, BreakerParts
<1>5. CASE BreakerEnabled
  <2>1. br'[n] = Allow(br[n]) /\ t = AllowTicket(br[n])
        /\ \A m \in Nodes : m # n => br'[m] = br[m]
    BY <1>0, <1>1, <1>2, <1>5, ZenonT(30)
  <2>2. /\ Aged(br[n], br'[n]) /\ t.gen = br'[n].gen
        /\ br'[n].state = "half_open" => t.probe
        /\ br'[n].state = "half_open" =>
             \/ br'[n].gen = br[n].gen + 1 /\ br'[n].halfInFlight = 1
             \/ br'[n].gen = br[n].gen /\ br'[n].halfInFlight = br[n].halfInFlight + 1
    BY <1>4, <2>1, AllowIs
  <2>3. br'[n].gen \in Nat
    BY <2>2, BreakerParts DEF Aged
  <2>4. Tickets'
    <3>1. t.gen <= br'[n].gen
      BY <2>2, <2>3
    <3> QED BY <1>3, <1>5, <2>2, <3>1, TicketsInv
  <2>5. ASSUME NEW m \in Nodes, br'[m].state = "half_open"
        PROVE  br'[m].halfInFlight = Cardinality(Probers(m, br[m].gen)')
    <3>1. PICK g : g = br'[m].gen
      OBVIOUS
    <3>2. Probers(m, br[m].gen)' = IF m = n THEN Probers(m, g) \cup {r} ELSE Probers(m, g)
      BY <1>2, <1>3, <2>2, <3>1 DEF Probers
    <3>3. CASE m # n
      BY <2>1, <2>5, <3>1, <3>2, <3>3, ProbesHeldIs DEF JInv
    <3>4. CASE m = n /\ br'[n].gen = br[n].gen + 1 /\ br'[n].halfInFlight = 1
      <4>1. Probers(m, g) = {}
        <5>1. g = br[m].gen + 1
          BY <3>1, <3>4
        <5> QED BY <5>1, NoneAhead
      <4>2. Cardinality({r}) = 1
        BY FS_Singleton, SMTT(30)
      <4>3. Probers(m, br[m].gen)' = {r}
        BY <3>2, <3>4, <4>1
      <4> QED BY <3>4, <4>2, <4>3
    <3>5. CASE m = n /\ br'[n].gen = br[n].gen /\ br'[n].halfInFlight = br[n].halfInFlight + 1
      <4>1. br[n].state = "half_open"
        BY <2>2, <2>5, <3>5 DEF Aged
      <4>2. br[n].halfInFlight = Cardinality(Probers(n, g))
        BY <3>1, <3>5, <4>1, ProbesHeldIs DEF JInv
      <4>3. r \notin Probers(n, g) /\ IsFiniteSet(Probers(n, g))
        <5>1. r \notin Probers(n, g)
          BY <1>2 DEF Probers
        <5> QED BY <5>1, ProbersFinite
      <4>4. Cardinality(Probers(n, g) \cup {r}) = Cardinality(Probers(n, g)) + 1
        BY <4>3, FS_AddElement, ZenonT(30)
      <4> QED BY <3>2, <3>5, <4>2, <4>4
    <3> QED BY <2>2, <2>5, <3>3, <3>4, <3>5, ZenonT(30)
  <2> QED BY <2>4, <2>5 DEF ProbesHeld, Probers
<1>6. CASE ~BreakerEnabled
  <2>1. br' = br /\ \A m \in Nodes : br'[m].state = "closed"
    BY <1>2, <1>6 DEF JInv, Tickets
  <2>2. t.gen = 0
    BY <1>1, <1>6 DEF NoTicket
  <2>3. t.gen <= br'[n].gen /\ br'[n].state # "half_open"
    BY <1>4, <2>1, <2>2
  <2>4. Tickets'
    BY <1>3, <2>1, <2>3, TicketsInv
  <2>5. ProbesHeld'
    BY <2>1 DEF ProbesHeld
  <2> QED BY <2>4, <2>5
<1> QED BY <1>5, <1>6

\* A verdict or a cancel gives the probe slot back exactly once.
LEMMA VerdictProbes ==
  ASSUME JInv, BreakersAge, NEW r \in Requests, NEW verdict \in {"ok", "fail", "cancel"},
         NEW again, Verdict(r, verdict, again)
  PROVE  Tickets' /\ ProbesHeld'
<1>0. /\ br \in [Nodes -> BreakerType] /\ pc \in [Requests -> PCs]
  BY DEF JInv, IInv, Typed, LocalsTyped, Values
<1>1. pc[r] = "serving" /\ pc' = [pc EXCEPT ![r] = "releasing"] /\ lease' = lease
  BY DEF Verdict
<1>2. \A q \in Requests : /\ q # r => pc'[q] = pc[q]
                          /\ pc'[q] = "serving" <=> q # r /\ pc[q] = "serving"
  BY <1>0, <1>1
<1>3. CASE ~BreakerEnabled
  <2>1. br' = br /\ \A m \in Nodes : br'[m].state = "closed"
    BY <1>3 DEF Verdict, Report, JInv, Tickets
  <2>2. Tickets'
    BY <1>1, <1>2, <2>1, TicketsInv
  <2> QED BY <2>1, <2>2 DEF ProbesHeld
<1>4. CASE BreakerEnabled
  <2>1. Tickets'
    BY <1>1, <1>2, <1>4, TicketsInv
  <2>2. PICK n \in Nodes, t \in Ticket : n = lease[r].node /\ t = lease[r].ticket
    BY <1>4, VerdictIs
  <2>3. /\ TicketOf(r, br[n]) /\ br[n] \in BreakerType
        /\ br' = [br EXCEPT ![n] = IF verdict = "cancel" THEN Cancel(br[n], t)
                                   ELSE Done(br[n], t, verdict = "ok")]
    BY <1>4, <2>2, VerdictIs
  <2>4. /\ t.gen <= br[n].gen
        /\ br[n].state = "half_open" /\ t.gen = br[n].gen => t.probe
    BY <2>2, <2>3, ZenonT(30) DEF TicketOf
  <2>5. /\ verdict = "cancel" => br'[n] = Cancel(br[n], t)
        /\ verdict # "cancel" => br'[n] = Done(br[n], t, verdict = "ok")
        /\ \A m \in Nodes : m # n => br'[m] = br[m]
    BY <1>0, <2>3
  <2>6. ASSUME NEW m \in Nodes, br'[m].state = "half_open"
        PROVE  br'[m].halfInFlight = Cardinality(Probers(m, br[m].gen)')
    <3>1. PICK g : g = br'[m].gen
      OBVIOUS
    <3>2. Probers(m, br[m].gen)' = Probers(m, g) \ {r}
      BY <1>1, <1>2, <3>1 DEF Probers
    <3>3. r \in Probers(m, g) <=> m = n /\ t.gen = g
      BY <1>1, <2>2 DEF Probers
    <3>4. ASSUME br[m].state = "half_open", br'[m].gen = br[m].gen,
                 br'[m].halfInFlight = br[m].halfInFlight, r \notin Probers(m, g)
          PROVE  br'[m].halfInFlight = Cardinality(Probers(m, br[m].gen)')
      <4>1. Probers(m, br[m].gen)' = Probers(m, br[m].gen)
        BY <3>1, <3>2, <3>4
      <4> QED BY <3>4, <4>1, ProbesHeldIs DEF JInv
    <3>5. CASE m # n
      BY <2>5, <2>6, <3>3, <3>4, <3>5, ZenonT(30)
    <3>6. CASE m = n /\ verdict = "cancel"
      <4>1. /\ br'[m].state = br[m].state /\ br'[m].gen = br[m].gen
            /\ br'[m].halfInFlight =
                 IF t.probe /\ br[m].state = "half_open" /\ t.gen = br[m].gen
                    /\ br[m].halfInFlight > 0
                 THEN br[m].halfInFlight - 1 ELSE br[m].halfInFlight
        <5>1. br'[m] = Cancel(br[m], t) /\ br[m] \in BreakerType
          BY <2>3, <2>5, <3>6
        <5>2. /\ Cancel(br[m], t).state = br[m].state /\ Cancel(br[m], t).gen = br[m].gen
              /\ Cancel(br[m], t).halfInFlight =
                   IF t.probe /\ br[m].state = "half_open" /\ t.gen = br[m].gen
                      /\ br[m].halfInFlight > 0
                   THEN br[m].halfInFlight - 1 ELSE br[m].halfInFlight
          BY <5>1, CancelIs
        <5> QED BY <5>1, <5>2
      <4>2. CASE t.gen = br[m].gen
        <5>1. r \in Probers(m, g) /\ IsFiniteSet(Probers(m, g))
              /\ Cardinality(Probers(m, g)) \in Nat
          BY <3>1, <3>3, <3>6, <4>1, <4>2, ProbersFinite
        <5>2. br[m].halfInFlight = Cardinality(Probers(m, g))
          BY <2>6, <3>1, <4>1, ProbesHeldIs DEF JInv
        <5>3. Cardinality(Probers(m, g) \ {r}) = Cardinality(Probers(m, g)) - 1
              /\ Cardinality(Probers(m, g) \ {r}) \in Nat
          BY <5>1, FS_RemoveElement, FS_CardinalityType
        <5>4. br[m].halfInFlight > 0
          BY <5>1, <5>2, <5>3
        <5>5. t.probe
          BY <2>4, <2>6, <3>6, <4>1, <4>2
        <5>6. br'[m].halfInFlight = br[m].halfInFlight - 1
          BY <2>6, <4>1, <4>2, <5>4, <5>5
        <5> QED BY <3>2, <5>2, <5>3, <5>6
      <4>3. CASE t.gen # br[m].gen
        BY <2>6, <3>1, <3>3, <3>4, <4>1, <4>3
      <4> QED BY <4>2, <4>3, ZenonT(30)
    <3>7. CASE m = n /\ verdict # "cancel"
      <4>1. PICK success \in BOOLEAN : success = (verdict = "ok")
        BY ZenonT(30)
      <4>a. br'[n] = Done(br[n], t, success) /\ br'[n].state = "half_open"
        BY <2>5, <2>6, <3>7, <4>1
      <4>b. (br'[n] = br[n] /\ t.gen # br[n].gen) \/ Reopened(br[n], br'[n])
        BY <2>3, <2>4, <4>a, DoneIs
      <4>2. \/ br'[m] = br[m] /\ t.gen # br[m].gen
            \/ Reopened(br[m], br'[m])
        BY <3>7, <4>b
      <4>3. CASE br'[m] = br[m] /\ t.gen # br[m].gen
        BY <2>6, <3>1, <3>3, <3>4, <4>3
      <4>4. CASE Reopened(br[m], br'[m])
        <5>1. Probers(m, g) = {}
          <6>1. g = br[m].gen + 1
            BY <3>1, <4>4 DEF Reopened
          <6> QED BY <6>1, NoneAhead
        <5>2. Probers(m, br[m].gen)' = {}
          BY <3>2, <5>1
        <5> QED BY <4>4, <5>2, FS_EmptySet DEF Reopened
      <4> QED BY <4>2, <4>3, <4>4
    <3> QED BY <3>5, <3>6, <3>7
  <2> QED BY <2>1, <2>6 DEF ProbesHeld, Probers
<1> QED BY <1>3, <1>4

LEMMA ProbesInv ==
  ASSUME JInv, Around \/ \E r \in Requests : Kinds(r)
  PROVE  Tickets' /\ ProbesHeld'
<1>0. /\ BreakersAge /\ br \in [Nodes -> BreakerType] /\ pc \in [Requests -> PCs]
      /\ lease \in [Requests -> [node : Nodes, ticket : Ticket]]
  BY AgeInv DEF JInv, IInv, Typed, LocalsTyped, Values
<1>1. ASSUME br' = br, \A r \in Requests : /\ pc'[r] = "serving" <=> pc[r] = "serving"
                                           /\ pc[r] = "serving" => lease'[r] = lease[r]
      PROVE  Tickets' /\ ProbesHeld'
  BY <1>0, <1>1, ProbesKept, ZenonT(30)
<1>2. CASE Tick
  <2>1. br' = [n \in Nodes |-> Elapse(br[n])] /\ UNCHANGED <<pc, lease>>
    BY <1>2, ZenonT(30) DEF Tick, locals
  <2>2. \A n \in Nodes : /\ br'[n].state = br[n].state /\ br'[n].gen = br[n].gen
                         /\ br'[n].halfInFlight = br[n].halfInFlight
    BY <1>0, <2>1, ElapseIs
  <2> QED BY <1>0, <2>1, <2>2, ProbesKept, ZenonT(30)
<1>3. ASSUME NEW n \in Nodes, SetUp(n) \/ Poll(n) PROVE Tickets' /\ ProbesHeld'
  <2>1. /\ br' = br \/ (BreakerEnabled /\ br' = [br EXCEPT ![n] = advanceLocked(@)])
        /\ UNCHANGED <<pc, lease>>
    BY <1>3 DEF SetUp, Poll, locals
  <2> QED BY <1>0, <2>1, AdvancedProbes
<1>4. CASE UNCHANGED vars
  BY <1>1, <1>4, ZenonT(30) DEF vars, locals
<1>5. ASSUME NEW r \in Requests, Kinds(r) PROVE Tickets' /\ ProbesHeld'
  <2>1. CASE Scan(r)
    <3>1. PICK n \in Nodes : n = NodeList[pick.i]
      BY <2>1, ScannedIs
    <3>2. /\ br' = br \/ (BreakerEnabled /\ br' = [br EXCEPT ![n] = advanceLocked(@)])
          /\ UNCHANGED <<pc, lease>>
      BY <2>1, <3>1 DEF Scan, locals
    <3> QED BY <1>0, <3>2, AdvancedProbes
  <2>2. CASE \E n \in Nodes : Grants(r, n)
    BY <1>0, <2>2, GrantProbes
  <2>3. CASE Attempt(r)
    BY <1>0, <2>3, VerdictProbes DEF Attempt
  <2>4. CASE Refused(r)
    BY <1>1, <2>4 DEF Refused, locals
  <2>5. CASE Lock(r) \/ Rank(r) \/ Parks(r) \/ Wake(r) \/ AffinityExpires(r) \/ GivesUp(r)
    BY <1>0, <1>1, <2>5
       DEF Lock, Rank, Parks, Park, Wake, AffinityExpires, GivesUp, StopWaiting, locals
  <2>6. CASE Rejected(r)
    BY <1>0, <1>1, <2>6 DEF Rejected, Picking, Reject, Return, Forget
  <2>7. CASE Leave(r)
    BY <1>0, <1>1, <2>7 DEF Leave, Forget
  <2>8. CASE Release(r)
    BY <1>0, <1>1, <2>8 DEF Release, Free, Forget
  <2> QED BY <1>5, <2>1, <2>2, <2>3, <2>4, <2>5, <2>6, <2>7, <2>8 DEF Kinds
<1> QED BY <1>2, <1>3, <1>4, <1>5 DEF Around

-----------------------------------------------------------------------------
LEMMA NextJ == JInv /\ [Next]_vars => JInv'
<1> SUFFICES ASSUME JInv, [Next]_vars PROVE JInv'
  OBVIOUS
<1>1. IInv'
  BY NextInv DEF JInv
<1>2. Around \/ \E r \in Requests : Kinds(r)
  BY StepKinds DEF Next, Around
<1>3. Locked' /\ Picked' /\ Missed' /\ Values'
  BY <1>2, LockedInv, PickedInv, MissedInv, ValuesInv
<1>4. Tickets' /\ ProbesHeld' /\ NoLostWakeup' /\ WakeupOrNoSlots' /\ RetryElsewhere'
  BY <1>2, ProbesInv, LostInv, ComingInv, RetryInv
<1> QED BY <1>1, <1>3, <1>4 DEF JInv

LEMMA InductiveJ == Spec => []JInv
BY InitJ, NextJ, PTL DEF Spec

\* The fields of Router, its nodes and breakers and the locals of Acquire keep
\* their types, for any pool: no counter goes below zero (Acquire, release).
THEOREM TypeCorrect == Spec => []TypeOK
<1>1. JInv => TypeOK
  <2> SUFFICES ASSUME JInv PROVE TypeOK
    OBVIOUS
  <2>1. /\ pc \in [Requests -> PCs] /\ queued \subseteq Requests /\ pick.i \in Nat
        /\ inflight \in [Nodes -> Nat]
    BY DEF JInv, IInv, Typed, LocalsTyped
  <2>2. waiting \in Nat
    <3>1. Typed /\ waiting = Cardinality(queued)
      BY DEF JInv, IInv, QueueAccounting
    <3> QED BY <3>1, QueuedFinite
  <2>3. /\ mu \in Requests \cup {NoRequest} /\ pick.cands \in SUBSET Nodes
        /\ pick.order \in Seq(Nodes)
    BY DEF JInv, Locked, Picked
  <2>4. Values
    BY DEF JInv
  <2> QED BY <2>1, <2>2, <2>3, <2>4 DEF TypeOK, Values, PCs, Results
<1> QED BY <1>1, InductiveJ, PTL

\* Every probe slot of a half-open breaker is held by a request being served on
\* that node, however grants, verdicts, cancels, retries, polls and ticks of the
\* clock interleave (Allow, Done, Cancel as Acquire and Lease call them).
THEOREM ProbesAreHeld == Spec => []ProbesHeld
<1>1. JInv => ProbesHeld
  BY DEF JInv
<1> QED BY <1>1, InductiveJ, PTL

\* No request sleeps beside a usable node but for a broadcast about to come, a
\* preferred node it holds out for, or a node that came back by itself: Acquire
\* reads availability and parks under one hold of mu, and release broadcasts.
THEOREM NoWakeupIsLost == Spec => []NoLostWakeup
<1>1. JInv => NoLostWakeup
  BY DEF JInv
<1> QED BY <1>1, InductiveJ, PTL

\* If every node has a slot, whoever sleeps in Acquire has an eligible node with a
\* lease out, whose release will broadcast: nobody waits for an event that cannot
\* come.  Without slots it is false: the default limit max_concurrent_per_node is
\* not validated, and nothing wakes a request parked on a node whose limit is zero.
THEOREM WakeupsAreComing ==
  ASSUME HasSlots
  PROVE  Spec => []WakeupComing
<1>1. JInv => WakeupComing
  <2> SUFFICES ASSUME JInv, NEW r \in Parked \ woken
               PROVE  \E n \in Nodes : Eligible(r, n) /\ Holders(n) # {}
    BY DEF WakeupComing
  <2>1. PICK n \in Nodes : Eligible(r, n) /\ (Holders(n) # {} \/ MaxConcurrent[n] < 1)
    BY DEF JInv, WakeupOrNoSlots
  <2>2. MaxConcurrent[n] \in Int /\ MaxConcurrent[n] >= 1
    BY SelectionAssumption DEF HasSlots
  <2> QED BY <2>1, <2>2
<1> QED BY <1>1, InductiveJ, PTL

\* A retry is never given the node it failed on, for any number of attempts
\* (tryPickLocked filters by exclude, which only grows within a request).
THEOREM RetriesGoElsewhere == Spec => []RetryElsewhere
<1>1. JInv => RetryElsewhere
  BY DEF JInv
<1> QED BY <1>1, InductiveJ, PTL
=============================================================================
