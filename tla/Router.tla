------------------------------- MODULE Router -------------------------------
(***************************************************************************)
(* The router (router/router.go): concurrent requests acquire a lease on a *)
(* node, wait in the bounded queue when they cannot get one, serve, report *)
(* a verdict to the node's breaker, release the slot and perhaps try again *)
(* on another node.                                                        *)
(*                                                                         *)
(* Granularity.  Everything a request does under Router.mu is hidden from  *)
(* the other requests, but not from the breakers, the health checker or    *)
(* the clock, which do not take that mutex.  So tryPickLocked is split at  *)
(* every read of a node's availability and at every Allow, and Lease.Done  *)
(* and Release are split between the breaker and the router.  Timers and   *)
(* the request context may fire whenever a request is parked.              *)
(***************************************************************************)
EXTENDS PlacementOps, BreakerOps

CONSTANTS
  Requests,        \* client requests
  NoRequest,       \* mu is free
  NodeList,        \* Router.nodes
  KeyOf,           \* KeyOf[r]: the routing key of r, the prefix and the group
  Group,           \* Group[n]: Node.Group
  Role,            \* Role[n]: Node.Role
  Target,          \* Target[r]: the group r asks for, "" for any
  MaxQueue,        \* Options.MaxQueue
  AffinityWait,    \* is Options.AffinityWait positive?
  BreakerEnabled,  \* is Options.Breaker set?
  HealthEnabled,   \* are active health checks running?
  MaxAttempts      \* attempts of the handler's retry loop

ASSUME RouterAssumption ==
  /\ IsFiniteSet(Requests)
  /\ NoRequest \notin Requests
  /\ NodeList \in Seq(Nodes) /\ Nodes = Range(NodeList)
  /\ NodeList # <<>>   \* main refuses an empty pool
  /\ KeyOf \in [Requests -> Keys]
  /\ \A q, r \in Requests : KeyOf[q] = KeyOf[r] => Target[q] = Target[r]
  /\ MaxQueue \in Nat
  /\ {AffinityWait, BreakerEnabled, HealthEnabled} \subseteq BOOLEAN
  /\ MaxAttempts \in Nat \ {0}

VARIABLES
  up,        \* Node.up
  br,        \* Node.br
  inflight,  \* Node.inflight
  p,         \* placement memory
  waiting,   \* Router.waiting
  mu,        \* holder of Router.mu
  pc,        \* where each request is
  pick,      \* locals of tryPickLocked, of the request that holds mu
  queued,    \* requests with the local queued set
  holding,   \* requests with the local hold set
  armed,     \* requests whose affinity timer is running
  woken,     \* parked requests whose notify channel has been closed
  exclude,   \* exclude[r]: nodes r has already tried
  lease,     \* lease[r]: node and ticket of the latest lease
  result,    \* result[r]: how the latest Acquire or attempt of r ended
  quiet      \* history: nodes that became available since the last broadcast
             \* without one, by a health check or the end of a cool-down

locals == <<queued, holding, armed, woken, exclude, lease, result>>
vars   == <<up, br, inflight, p, waiting, mu, pc, pick, locals, quiet>>

NoPick  == [i |-> 0, cands |-> {}, order |-> <<>>]
NoLease == [node |-> NodeList[1], ticket |-> NoTicket]

Init ==
  /\ up = [n \in Nodes |-> TRUE]
  /\ br = [n \in Nodes |-> New]
  /\ inflight = [n \in Nodes |-> 0]
  /\ p = NoPlacements
  /\ waiting = 0
  /\ mu = NoRequest
  /\ pc = [r \in Requests |-> "lock"]
  /\ pick = NoPick
  /\ queued = {}
  /\ holding = IF AffinityWait THEN Requests ELSE {}
  /\ armed = {}
  /\ woken = {}
  /\ exclude = [r \in Requests |-> {}]
  /\ lease = [r \in Requests |-> NoLease]
  /\ result = [r \in Requests |-> "none"]
  /\ quiet = {}

-----------------------------------------------------------------------------
\* EntryPoint: prefill-only nodes are not request entry points.
EntryPoint(n) == Role[n] # "prefill"

\* Mutant: a retry may go to a node that has failed.
Eligible_Again(r, n) ==
  /\ Target[r] = "" \/ Group[n] = Target[r]
  /\ EntryPoint(n)

\* The node passes the group filter, the role filter and the exclusions.
Eligible(r, n) ==
  /\ Target[r] = "" \/ Group[n] = Target[r]
  /\ EntryPoint(n)
  /\ n \notin exclude[r]

\* Node.allow would admit; Node.available asks for the node to be up as well.
Admits(n)    == BreakerEnabled => Available(br[n])
available(n) == up[n] /\ Admits(n)

\* Acquire takes the mutex and starts a round of tryPickLocked.
Lock(r) ==
  /\ pc[r] = "lock"
  /\ mu = NoRequest
  /\ mu' = r
  /\ pc' = [pc EXCEPT ![r] = "scan"]
  /\ pick' = [NoPick EXCEPT !.i = 1]
  /\ woken' = woken \ {r}
  /\ UNCHANGED <<up, br, inflight, p, waiting, queued, holding, armed,
                 exclude, lease, result, quiet>>

\* One step of the loop that collects candidates.  Available() advances.
Scan(r) ==
  /\ pc[r] = "scan" /\ pick.i <= Len(NodeList)
  /\ LET n == NodeList[pick.i] IN
       /\ pick' = [pick EXCEPT
                     !.i = @ + 1,
                     !.cands = IF Eligible(r, n) /\ available(n)
                               THEN @ \cup {n} ELSE @]
       /\ br' = IF Eligible(r, n) /\ up[n] /\ BreakerEnabled
                THEN [br EXCEPT ![n] = advanceLocked(@)] ELSE br
  /\ UNCHANGED <<up, inflight, p, waiting, mu, pc, locals, quiet>>

\* Mutant: the queue counter goes down for a request that never queued.
Return_AlwaysLeaves(r, state) ==
  /\ mu' = NoRequest
  /\ pick' = NoPick
  /\ pc' = [pc EXCEPT ![r] = state]
  /\ queued' = queued \ {r}
  /\ waiting' = waiting - 1
  /\ armed' = armed \ {r}

\* Leaving tryPickLocked and Acquire: unlock, and leave the queue if in it.
Return(r, state) ==
  /\ mu' = NoRequest
  /\ pick' = NoPick
  /\ pc' = [pc EXCEPT ![r] = state]
  /\ queued' = queued \ {r}
  /\ waiting' = IF r \in queued THEN waiting - 1 ELSE waiting
  /\ armed' = armed \ {r}

\* The locals of a request that is done are gone, all but its result.
Forget(r) ==
  /\ holding' = holding \ {r}
  /\ exclude' = [exclude EXCEPT ![r] = {}]
  /\ lease' = [lease EXCEPT ![r] = NoLease]

Reject(r, err) ==
  /\ Return(r, "done")
  /\ Forget(r)
  /\ result' = [result EXCEPT ![r] = err]
  /\ UNCHANGED <<up, br, inflight, p, woken, quiet>>

\* Mutant: a request without a candidate waits in the queue.
NoCandidate_Waits(r) ==
  /\ pc[r] = "scan" /\ pick.i > Len(NodeList) /\ pick.cands = {}
  /\ r \in queued \/ waiting < MaxQueue
  /\ queued' = queued \cup {r}
  /\ waiting' = IF r \in queued THEN waiting ELSE waiting + 1
  /\ pc' = [pc EXCEPT ![r] = "parked"]
  /\ mu' = NoRequest
  /\ pick' = NoPick
  /\ UNCHANGED <<up, br, inflight, p, holding, armed, woken, exclude, lease, result, quiet>>

NoCandidate(r) ==
  /\ pc[r] = "scan" /\ pick.i > Len(NodeList) /\ pick.cands = {}
  /\ Reject(r, "no_node")

\* Sort the candidates, and let placement memory put its choice first.
Rank(r) ==
  /\ pc[r] = "scan" /\ pick.i > Len(NodeList) /\ pick.cands # {}
  /\ LET order == Ranking(KeyOf[r], pick.cands)
         after == placeLocked(p, KeyOf[r], order, inflight, exclude[r],
                              {n \in Nodes : available(n)})
     IN  IF PlacementSize > 0
         THEN /\ p' = after.p
              /\ pick' = [pick EXCEPT !.i = 1, !.order = Prefer(order, after.at)]
         ELSE /\ pick' = [pick EXCEPT !.i = 1, !.order = order]
              /\ UNCHANGED p
  /\ pc' = [pc EXCEPT ![r] = "try"]
  /\ UNCHANGED <<up, br, inflight, waiting, mu, locals, quiet>>

\* tryLeaseLocked, admitted: the lease is granted and Acquire returns it.
Grant(r, n) ==
  /\ Admits(n)
  /\ br' = IF BreakerEnabled THEN [br EXCEPT ![n] = Allow(@)] ELSE br
  /\ inflight' = [inflight EXCEPT ![n] = @ + 1]
  /\ lease' = [lease EXCEPT ![r] =
       [node   |-> n,
        ticket |-> IF BreakerEnabled THEN AllowTicket(br[n]) ELSE NoTicket]]
  /\ Return(r, "serving")
  /\ UNCHANGED <<up, p, holding, woken, exclude, result, quiet>>

\* The preferred node is full but not over the bound, and r still holds for it.
WaitsForPreferred(r) ==
  /\ pick.i = 1 /\ r \in holding
  /\ PreferredBusy(inflight, pick.cands, pick.order[1])

\* The ranked loop: the next node with room is tried.
TryRanked(r) ==
  /\ pc[r] = "try" /\ ~WaitsForPreferred(r)
  /\ LET try == TryAt(inflight, pick.order, pick.i) IN
       /\ try # {}
       /\ LET n == pick.order[Min(try)] IN
            \/ Grant(r, n)
            \/ /\ ~Admits(n)
               /\ pick' = [pick EXCEPT !.i = Min(try) + 1]
               /\ UNCHANGED <<up, br, inflight, p, waiting, mu, pc, locals, quiet>>

\* No ranked node took the request, and spilling is next.
RankedExhausted(r) ==
  /\ pc[r] = "try" /\ ~WaitsForPreferred(r)
  /\ TryAt(inflight, pick.order, pick.i) = {}

\* The last resort: the least loaded candidate, or fail fast if it refuses.
\* A node refused in the ranked loop still has its slot and so is a candidate
\* here: there is no way to be denied before and to find nothing to spill to.
Spill(r) ==
  /\ RankedExhausted(r)
  /\ \E j \in SpillAt(inflight, pick.order) :
       LET n == pick.order[j] IN
         \/ Grant(r, n)
         \/ ~Admits(n) /\ Reject(r, "no_node")

\* errPreferredBusy or errAtCapacity.
MustWait(r) ==
  \/ pc[r] = "try" /\ WaitsForPreferred(r)
  \/ RankedExhausted(r) /\ SpillAt(inflight, pick.order) = {}

QueueFull(r) ==
  /\ MustWait(r)
  /\ r \notin queued /\ waiting >= MaxQueue
  /\ Reject(r, "queue_full")

Park(r) ==
  /\ MustWait(r)
  /\ r \in queued \/ waiting < MaxQueue
  /\ queued' = queued \cup {r}
  /\ waiting' = IF r \in queued THEN waiting ELSE waiting + 1
  /\ armed' = IF WaitsForPreferred(r) THEN armed \cup {r} ELSE armed
  /\ pc' = [pc EXCEPT ![r] = "parked"]
  /\ mu' = NoRequest
  /\ pick' = NoPick
  /\ UNCHANGED <<up, br, inflight, p, holding, woken, exclude, lease, result, quiet>>

-----------------------------------------------------------------------------
\* The select of Acquire: the four ways to leave it.
Wake(r) ==
  /\ pc[r] = "parked" /\ r \in woken
  /\ pc' = [pc EXCEPT ![r] = "lock"]
  /\ UNCHANGED <<up, br, inflight, p, waiting, mu, pick, locals, quiet>>

AffinityExpires(r) ==
  /\ pc[r] = "parked" /\ r \in armed
  /\ holding' = holding \ {r}
  /\ armed' = armed \ {r}
  /\ pc' = [pc EXCEPT ![r] = "lock"]
  /\ UNCHANGED <<up, br, inflight, p, waiting, mu, pick, queued, woken,
                 exclude, lease, result, quiet>>

\* The queue deadline passes or the context ends; the mutex comes next.
StopWaiting(r, err) ==
  /\ pc[r] = "parked"
  /\ result' = [result EXCEPT ![r] = err]
  /\ pc' = [pc EXCEPT ![r] = "leaving"]
  /\ UNCHANGED <<up, br, inflight, p, waiting, mu, pick, queued, holding, armed,
                 woken, exclude, lease, quiet>>

\* Mutant: the queue counter keeps a request that gave up.
Leave_StaysCounted(r) ==
  /\ pc[r] = "leaving"
  /\ mu = NoRequest
  /\ queued' = queued \ {r}
  /\ armed' = armed \ {r}
  /\ woken' = woken \ {r}
  /\ pc' = [pc EXCEPT ![r] = "done"]
  /\ Forget(r)
  /\ UNCHANGED <<up, br, inflight, p, waiting, mu, pick, result, quiet>>

Leave(r) ==
  /\ pc[r] = "leaving"
  /\ mu = NoRequest
  /\ waiting' = waiting - 1
  /\ queued' = queued \ {r}
  /\ armed' = armed \ {r}
  /\ woken' = woken \ {r}
  /\ pc' = [pc EXCEPT ![r] = "done"]
  /\ Forget(r)
  /\ UNCHANGED <<up, br, inflight, p, mu, pick, result, quiet>>

-----------------------------------------------------------------------------
\* Mutant: a cancelled request tells the breaker nothing.
Report_SkipsCancel(r, verdict) ==
  IF ~BreakerEnabled \/ verdict = "cancel" THEN br
  ELSE [br EXCEPT ![lease[r].node] = Done(@, lease[r].ticket, verdict = "ok")]

\* Lease.Done and Lease.Release, first half: the verdict reaches the breaker.
\* "ok" and "fail" are Done, "cancel" is Release.
Report(r, verdict) ==
  LET n == lease[r].node
      t == lease[r].ticket
  IN  IF ~BreakerEnabled THEN br
      ELSE [br EXCEPT ![n] = IF verdict = "cancel" THEN Cancel(@, t)
                             ELSE Done(@, t, verdict = "ok")]

\* The attempt ends; the handler may try another node unless it succeeded.
Verdict(r, verdict, again) ==
  /\ pc[r] = "serving"
  /\ again => verdict # "ok" /\ Cardinality(exclude[r]) + 1 < MaxAttempts
  /\ br' = Report(r, verdict)
  /\ result' = [result EXCEPT ![r] = IF again THEN "retry" ELSE "served"]
  /\ pc' = [pc EXCEPT ![r] = "releasing"]
  /\ UNCHANGED <<up, inflight, p, waiting, mu, pick, queued, holding, armed,
                 woken, exclude, lease, quiet>>

Parked == {r \in Requests : pc[r] = "parked"}

\* Second half: free the slot, and wake those who wait.  A retry excludes the
\* node and calls Acquire afresh.
Free(r, wakes) ==
  /\ pc[r] = "releasing"
  /\ mu = NoRequest
  /\ inflight' = [inflight EXCEPT ![lease[r].node] = @ - 1]
  /\ woken' = woken \cup wakes
  /\ quiet' = {}
  /\ IF result[r] = "retry"
     THEN /\ pc' = [pc EXCEPT ![r] = "lock"]
          /\ exclude' = [exclude EXCEPT ![r] = @ \cup {lease[r].node}]
          /\ holding' = IF AffinityWait THEN holding \cup {r} ELSE holding
          /\ lease' = [lease EXCEPT ![r] = NoLease]
     ELSE /\ pc' = [pc EXCEPT ![r] = "done"]
          /\ Forget(r)
  /\ UNCHANGED <<up, br, p, waiting, mu, pick, queued, armed, result>>

\* Mutant: one of the parked requests is woken, not all.
Release_WakesOne(r) ==
  \E wakes \in SUBSET Parked :
    Cardinality(wakes) = Min({1, Cardinality(Parked)}) /\ Free(r, wakes)

\* Mutant: the slot is freed silently.
Release_Silent(r) == Free(r, {})

\* release closes the channel that every parked request waits on.
Release(r) == Free(r, Parked)

-----------------------------------------------------------------------------
\* The health checker marks a node up or down.  Nobody is notified.
SetUp(n) ==
  /\ HealthEnabled
  /\ up' = [up EXCEPT ![n] = ~@]
  /\ quiet' = quiet \cup {n}
  /\ UNCHANGED <<br, inflight, p, waiting, mu, pc, pick, locals>>

\* Time passes for every breaker.  Nobody is notified when a cool-down ends.
Tick ==
  /\ \E n \in Nodes : br[n].cool > 0
  /\ br' = [n \in Nodes |-> Elapse(br[n])]
  /\ quiet' = quiet \cup {n \in Nodes : br[n].cool = 1}
  /\ UNCHANGED <<up, inflight, p, waiting, mu, pc, pick, locals>>

\* The status page, the metrics and readyz ask a breaker for its state.
Poll(n) ==
  /\ BreakerEnabled
  /\ br[n] # advanceLocked(br[n])
  /\ br' = [br EXCEPT ![n] = advanceLocked(@)]
  /\ UNCHANGED <<up, inflight, p, waiting, mu, pc, pick, locals, quiet>>

\* What the goroutine of r does by itself ...
Step(r) ==
  \/ Lock(r) \/ Scan(r) \/ NoCandidate(r) \/ Rank(r)
  \/ TryRanked(r) \/ Spill(r) \/ QueueFull(r) \/ Park(r)
  \/ Wake(r) \/ Leave(r) \/ Release(r)

\* ... and what its timers, its client and its node do to it.
Event(r) ==
  \/ AffinityExpires(r)
  \/ \E err \in {"queue_timeout", "ctx"} : StopWaiting(r, err)

Attempt(r) ==
  \E verdict \in {"ok", "fail", "cancel"}, again \in BOOLEAN : Verdict(r, verdict, again)

Next ==
  \/ \E r \in Requests : Step(r) \/ Event(r) \/ Attempt(r)
  \/ \E n \in Nodes : SetUp(n) \/ Poll(n)
  \/ Tick
  \/ (\A r \in Requests : pc[r] = "done") /\ UNCHANGED vars

Spec == Init /\ [][Next]_vars

\* The scheduler runs every goroutine, mutexes are handed over, and every
\* attempt ends (the handler bounds it by timers).  The timers of the queue,
\* the clients and the health checker are not assumed to help.
Fairness == \A r \in Requests : WF_vars(Step(r)) /\ WF_vars(Attempt(r))

FairSpec == Spec /\ Fairness

-----------------------------------------------------------------------------
TypeOK ==
  /\ up \in [Nodes -> BOOLEAN]
  /\ br \in [Nodes -> BreakerType]
  /\ inflight \in [Nodes -> Nat]
  /\ waiting \in Nat
  /\ mu \in Requests \cup {NoRequest}
  /\ pc \in [Requests -> {"lock", "scan", "try", "parked", "leaving", "serving",
                          "releasing", "done"}]
  /\ pick.i \in Nat /\ pick.cands \in SUBSET Nodes
  /\ pick.order \in Seq(Nodes)
  /\ {queued, holding, armed, woken} \subseteq SUBSET Requests
  /\ exclude \in [Requests -> SUBSET Nodes]
  /\ lease \in [Requests -> [node : Nodes, ticket : Ticket]]
  /\ result \in [Requests -> {"none", "no_node", "queue_full", "queue_timeout",
                              "ctx", "retry", "served"}]
  /\ quiet \in SUBSET Nodes

\* The requests that hold a slot on node n.
Holders(n) ==
  {r \in Requests : pc[r] \in {"serving", "releasing"} /\ lease[r].node = n}

\* The slots of a node: none if its limit is negative.
Slots(n) == AtLeast(MaxConcurrent[n], 0)

\* inflight counts exactly the leases not yet released, and never exceeds the
\* node's slots, whatever fails, retries or is cancelled (Acquire, release).
SlotAccounting ==
  \A n \in Nodes :
    /\ inflight[n] = Cardinality(Holders(n))
    /\ inflight[n] <= Slots(n)

\* waiting counts exactly the queued requests, is bounded by MaxQueue, and no
\* request is parked or served on the wrong side of it (Acquire).
QueueAccounting ==
  /\ waiting = Cardinality(queued)
  /\ waiting <= MaxQueue
  /\ \A r \in Requests :
       /\ pc[r] \in {"parked", "leaving"} => r \in queued
       /\ pc[r] \in {"serving", "releasing", "done"} => r \notin queued

\* Every probe slot of a half-open breaker is held by a request that is being
\* served on that node: retries, cancels and queue exits leak none.
ProbesHeld ==
  \A n \in Nodes : br[n].state = "half_open" =>
    br[n].halfInFlight =
      Cardinality({r \in Requests : /\ pc[r] = "serving"
                                    /\ lease[r].node = n
                                    /\ lease[r].ticket.gen = br[n].gen})

\* A node that r could be served on right now.
Usable(r, n) == Eligible(r, n) /\ available(n) /\ HasSlot(inflight, n)

\* Why r may sleep although n is usable: the release of a slot on n is about to
\* broadcast, or r holds out for a preferred node that is still full.
SleepIsJustified(r, n) ==
  \/ \E q \in Holders(n) : pc[q] = "releasing"
  \/ r \in holding /\ \E m \in Nodes : Eligible(r, m) /\ ~HasSlot(inflight, m)

\* No wakeup is lost: a request sleeps beside a usable node only for one of
\* those reasons, or when the node came back by itself (SetUp, the end of a
\* cool-down), which notifies nobody.
NoLostWakeup ==
  \A r \in Parked \ woken, n \in Nodes \ quiet :
    Usable(r, n) => SleepIsJustified(r, n)

\* Every node has a slot.  New gives a node without a limit of its own the
\* default max_concurrent_per_node, which Validate does not look at.
HasSlots == \A n \in Nodes : MaxConcurrent[n] >= 1

\* A sleeping request can count on a broadcast: some lease it could use is out.
\* This needs HasSlots: a request parks on nodes without slots all the same.
WakeupComing ==
  \A r \in Parked \ woken : \E n \in Nodes : Eligible(r, n) /\ Holders(n) # {}

\* A retry never goes back to a node the request has already failed on.
RetryElsewhere ==
  \A n \in Nodes : \A r \in Holders(n) : n \notin exclude[r]

\* Every call returns, with neither queue timeout nor cancellation to help.
EveryCallReturns == \A r \in Requests : <>(pc[r] = "done")

-----------------------------------------------------------------------------
\* RELIABILITY.md says that a node that is down is never waited for: who holds
\* out for a preferred node has one that is up and full.
WaitsForUpNode ==
  \A r \in (Parked \ woken) \cap armed :
    \E n \in Nodes : Eligible(r, n) /\ up[n] /\ ~HasSlot(inflight, n)
=============================================================================
