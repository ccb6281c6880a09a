# A TLA+ model of the RadixGates gateway

RadixGates is an HTTP gateway in front of a pool of SGLang inference nodes. It keeps requests with the same system prompt on the
same node, bounds the load of each node, queues what does not fit, retries failed attempts on other nodes while nothing has been
sent to the client, and takes sick nodes out of rotation by a circuit breaker and by health checks. Demo scripts check a deployment
and load it through the gateway.

## The system and its modules

| Part | Source (`src/gateway-go/` unless given) | Modules |
| --- | --- | --- |
| Circuit breaker | `breaker/breaker.go` | `BreakerOps` (the methods as operators on the breaker record), `Breaker` (concurrent callers), `BreakerAbstract` (what it promises), `BreakerProofs` |
| Routing decision | `router/router.go`: `Ranking`, `tryPickLocked` | `Selection` (ranking, load bound, spill), `Routing` (decisions, departures, nodes that come and go), `SelectionProofs`, `RoutingProofs` |
| Placement memory | `router/router.go`: `placeLocked`, `leastPlaced`, `setPlacementLocked` | `PlacementOps`, `Routing`, `SelectionProofs`, `RoutingProofs` |
| Admission and leases | `router/router.go`: `Acquire`, `Lease`, `release` | `Router`, which composes `BreakerOps`, `PlacementOps` and `Selection`; `RouterProofs`, `RouterWaitProofs` |
| Health checks | `router/health.go` | `Health`, `HealthProofs` |
| Request handler | `handler/direct.go`, part of `config/config.go` | `Handler`, `ClientView` (what a client may see), `HandlerProofs` |
| Demo scripts and the long-context benchmark | `src/examples/*.py`, `src/scripts/benchmark_long_context.py` | `DemoReplies` (what a script makes of a reply), `DemoEvidence` (what it concludes about the parallel sizes), `Demo` (a run of a script with its threads, its user and the containers), `DemoProofs` |

How they interact: the handler asks the router for a lease, forwards the request to the leased node, and settles the lease with a
verdict. The verdict goes to the node's breaker first; then the slot is freed and all parked requests are woken. Health checks set a
node's `up` flag at any time and take no lock of the router. The scripts are clients of the gateway: the replies they meet are those
`Handler` can send.

`MC*.tla` modules give the constants their values; each `.cfg` is one question. Operators commented "Mutant" are deliberately broken
variants of the definition that follows them. None is used in a specification: putting one in place of its original must make TLC
report the property it is listed with in `PROJECT.json`, which shows that the property depends on the code.

## How state and actions correspond to the code

* **Breaker.** The record has the fields of the Go struct. Only the difference between `openUntil` and the clock matters, so `cool` holds
  the remaining ticks. Every method runs under the breaker's mutex and is one step. `New`'s clamping of the configuration is modelled:
  the constants are the raw values. `reopened` is a history variable for the back-off law.
* **Selection, Routing.** Scores are an arbitrary injective table, because the code only sorts by them; `Ranking` is the order of the
  candidates in which scores fall (`BestFirst`), which injectivity makes unique. The float load factor is a fraction, and the ceiling is
  computed exactly. The placement memory's map and list are one sequence, most recently used first; the routing key stands for the
  (group, prefix) pair. `TryPick` is a whole decision of a request that has failed on the nodes in `exclude`: ranking, placement, the
  ranked loop and the spill. It also changes the memory when no node has a slot, as the code does. `smooth` is a history variable.
* **Router.** One process per request. The router's mutex is a variable, since breakers, health checks and the clock do not take it:
  `tryPickLocked` is split at every look at a node and at every `Allow`; `Lease.Done` and `Release` are split between breaker and
  router. `woken` holds the parked requests whose channel has been closed. `quiet` is a history variable: nodes that became available
  since the last broadcast without causing one. The code's case "refused by a breaker, and nothing to spill to" cannot arise (a
  refused node still has its slot), so it is not an action. The handler's retry loop appears as `Verdict` with `again`.
* **Handler.** One request. Node, client, timers and context act between any two steps. `fault`, `verdicts` and `outcomes` are history.
  What `Acquire` answers is left open. A deadline is an event, without a clock: any order of timeouts is possible except that the
  first-byte timer of a request that is not streamed never precedes the overall deadline, which started earlier with the same length.
  The pause before a retry is computed as in the code, in an integer of `Width` bits, from the configured `retry_backoff` as `Validate`
  and the default leave it; a pause that makes `rand.Int63n` panic ends the request as the server's recovery does.
* **Health.** One goroutine per node and round; `answers` is the history of what nodes said. `Router` lets `up` flip at any time, which
  includes everything `Health` does.
* **Demo.** `Main` lists the steps of each script's `main()`; `at` is the current one. A load test is a pool: a future per request,
  `as_completed` in any order, and the wait of the `with` block, which also an exception has to go through. Ctrl-C may come at any
  step. A reply is a short sequence of kinds of lines with a flag for a connection that breaks; latencies and times are classes.
  Containers change between `docker ps` and `docker logs`. The checks that catch every error and only print (hardware, worker health,
  GPU memory, All-to-All lines) are steps without a result, and the way from `.env` to the choice of Docker, SSH or neither is left open.
  `measure_ttft`, `benchmark_ttft` and `benchmark_throughput` are the same in `tp_demo`, `ep_demo` and `pd_demo`; `PROJECT.json` names one
  of them. `found` holds what the last step reported and what it had seen. `first` is history: what came of the first request of each
  context.

## Runs

| Run | What it shows | Bounds |
| --- | --- | --- |
| `breaker` | Probe slots are accounted for, the back-off law holds, the code implements `BreakerAbstract`, and the breaker always admits again | 3 callers, 2 probe slots, a cool-down of 0 that `New` replaces, `MaxGen` 8: trip, two failed probes and a recovery with stale tickets about |
| `routing` | Work is conserved, the load bound gives way only when forced, a lost node moves only its keys, affinity below the floor; the memory's counters agree, keys stay, spread evenly, the oldest is forgotten | 3 nodes with 1, 1 and 3 slots, factor 11/10, floor 2, 4 keys, memory of 3: spills past the bound, eviction and uneven nodes happen. Keys with equal scores are interchangeable (symmetry) |
| `router` | Slots, queue and probes are accounted for; no wakeup is lost; a sleeper has someone to wake it; retries go elsewhere | 3 requests, 2 nodes with 2 and 1 slots, 2 attempts, queue of 1 |
| `router_affinity` | No wakeup is lost with affinity wait, placement memory and health flips; every call returns | 3 requests for one key, 1 slot per node, 1 attempt, queue of 2, no breaker |
| `handler` | Lease settled once, metric counted once, fair verdicts, an answer for every connected client, first-byte commit, termination | 3 attempts, 2 chunks; 16 bits and eighths of a second, so that the second pause reaches the limit |
| `health` | The latest full streak decides | 2 nodes, 4 rounds, thresholds 2 |
| `demo` | What the scripts report is what happened: load figures account for every request, the load is over when memory is read, warm follows cold, a size is reported only if a source states it, running containers have their logs saved, refusals end no benchmark; a pool whose requests have returned is left | 3 requests per pool, 2 prompts of 2 runs, replies of 2 lines, 3 launch logs, 2 containers, 2 interrupts |

Bounds are named constants: `MaxGen`, `MaxChunks`, `MaxRounds`, and in `Demo` `MaxLines`, `LogFiles`, `Requests`, `Prompts`, `Repeats`,
`Latencies`, `MaxInterrupts`, where the code's own figures are mostly larger; the number of requests and attempts bounds
`Router`, and the slots of the nodes bound `Routing`. In `demo`, two lines tell an error before, after and instead of a token apart;
three requests leave one running while one is counted and one has failed, and make P95 differ from the median; a second Ctrl-C is the one
that breaks the wait for the pool. Three requests over two nodes are enough for two holders and a sleeper, for two sleepers woken by one
release, for a sleeper and a newcomer that takes its slot, and for a breaker that trips under a request that is being placed.

Runs that find a disagreement between a document and the code:

| Run | Disagreement |
| --- | --- |
| `routing_bound` | `docs/RELIABILITY.md` says that a node holds at most the load bound; when the nodes below it are full, the least loaded one with a slot is loaded past it |
| `router_down` | A preferred node that goes down during an affinity wait is still waited for |
| `handler_truncated` | A deadline in mid-stream ends the response as if it were complete |
| `handler_backoff` | `Validate` accepts a negative `retry_backoff`, with which the first retry panics |
| `demo_ttft` | A refusal, or a reply without a token, becomes a sample of the time to first token |

Behaviour that a reader may not expect is written into the passing properties as their exceptions, so that they say exactly what holds:

* `ExceedsOnlyWhenForced`: the spill goes past the load bound when every node below it is full (the run `routing_bound` shows it).
* `NoLostWakeup`: a node that comes back by a health check or the end of a cool-down (`quiet`) wakes nobody.
* `VerdictIsFair`: a slow client (`stalled`) lets the idle timer fire, and the node is charged.
* `Answered`: a deadline during the backoff pause ends the request with nothing written, which a connected client receives as an empty
  200.
* `LoadIsOver`: after a second Ctrl-C (in `dp_demo`, the first) threads of a pool outlive it.
* `SurvivesTheGateway`: `dp_demo`'s rounds, the question and the stream of `streaming_demo` and the server arguments in `ep_demo` catch
  nothing.
* `VerdictIsStated`: the first source that states a size is believed. `check_tp_active` and `check_ep_active` call any one confirming source
  sufficient; in fact one that states a single GPU keeps the later ones from being heard, and an old launch log is believed before the
  live `/get_model_info`.
* `ColdThenWarm`: an empty 200 is taken for a cold time of zero and warm requests follow it, but no speedup is reported.

And `Spill` follows the code in a case its comment names: when the breaker
of a candidate trips between `Available` and `Allow`, the request fails with `ErrNoNode` even if another candidate is only full.

## Fairness

* `breaker`: time passes and every admitted caller hands its ticket back. The handler settles its lease on every return and runs
  under the overall timeout (`LeaseSettledOnce`, `Terminates`).
* `router_affinity`: goroutines run, the mutex is handed over, attempts end. The queue timeout, the affinity timer, clients and the
  clock are not assumed to help.
* `handler`: the goroutine runs and the overall timeout comes. No node, no client and no shorter timer has to help. A cancelled attempt
  makes the transport return; a `Write` returns within the server's write timeout (`main.go`); `Acquire` returns by its queue timeout.
* `demo`: the main thread takes finished futures from `as_completed` and leaves a pool whose threads have returned, which is its own
  computation. Nothing else is assumed: the timeouts given to `requests` bound each read and not a whole reply, `docker`, `ssh` and
  `nvidia-smi` run without one, `urlopen` has none, and `input()` waits for the user. So that a script ends is not claimed.

## Proofs

Each holds for every value of the constants that satisfies the named assumptions of the modules.

**`BreakerProofs`**: `TypeCorrect` (`Spec => []TypeOK`), `ProbeSlots` (`Spec => []ProbeAccounting`) and `Refinement`
(`Spec => AbstractSpec`). They rest on `Invariant`, `Spec => []IInv`. `ProbeAccounting` is not inductive: a stale ticket must never become
current again, so `IInv` adds that tickets never come from a later generation than the breaker's, that an open breaker has no current
ticket (which makes the counter right when it is reset to zero on promotion), and bounds on the cool-down. One lemma per operator says
what it does to the record; the step proofs use those only. Assumptions: the raw configuration values are integers, `Callers` is
finite, and a second is at least a tick.

**`RouterProofs`**: `SlotsAreAccountedFor` (`Spec => []SlotAccounting`) and `QueueIsAccountedFor` (`Spec => []QueueAccounting`), for any
number of requests, nodes, attempts and places in the queue. The two properties are inductive once the types of the program counter
and the locals are added (`IInv`). To the queue a step does one of three things (nothing, one request leaves, one joins) and to the slots
one of three (nothing, one is taken, one is freed); two lemmas show that each keeps its count, and one lemma per group of actions shows
which shape a step has. For these two theorems nothing is assumed of what ranking, placement or the breakers answer, nor of who holds
the mutex in between: the only fact the limit rests on is that a node is tried, or spilled to, after its free slot was seen under the
same mutex. The module also holds the facts about one breaker operation and one
router step that the next module builds on, and the steps for the clauses of `JInv` below on the lock, the values, the picker and retries.

**`RouterWaitProofs`**: `TypeCorrect` (`Spec => []TypeOK`), `ProbesAreHeld` (`[]ProbesHeld`), `NoWakeupIsLost` (`[]NoLostWakeup`),
`WakeupsAreComing` (`[]WakeupComing`, if every node has a slot) and `RetriesGoElsewhere` (`[]RetryElsewhere`), under the same generality.
None of the last four is inductive, and they need each other: a request that parks is safe because of what it saw while it picked, and what it saw may be
outdated by a breaker that nobody locks. `JInv` adds to `IInv` and the four properties

* `Locked`: the request that holds `mu` is exactly the one that is picking;
* `Picked`: what it has collected is eligible, and the rank order it walks through is an order of these candidates;
* `Missed`: a node it has looked at and not collected was not available, or has become so since by a verdict whose release, and so whose
  broadcast, is still to come, or quietly (a health check, the end of a cool-down). This is why parking loses no wakeup: it happens under
  the same hold of `mu`;
* `Tickets`: the ticket of a request being served is never of a later generation than its node's breaker, and is a probe's if the breaker
  is half-open in that generation. This is what makes the counter of a half-open period right from its start at zero;
* `Values`: the types, with the agreement of placement memory that makes the preferred node a node.

`WakeupComing` rests on the spill: a request parks only when no candidate has a slot or the one it holds out for has none, and
`SlotAccounting` turns a full node into a lease that is out. That takes a node with at least one slot, the hypothesis `HasSlots` of this
theorem alone: `Validate` does not look at `max_concurrent_per_node`, and with a value below one requests sleep until their queue
timeout. TLC checked the added clauses as invariants of the instances of `router` and `router_affinity` before they were proved.
Assumptions: the pool is a non-empty list (`main` refuses an empty one), limits are integers, requests for the same key share their
target, and the breaker's configuration is any integers.

**`SelectionProofs`** holds the lemmas on the operators of routing and placement: that a ranking exists, is unique and lists each candidate
once; that the load bound is an integer not below the floor; what the ranked loop and the spill choose; what `placeLocked` does to the memory.
Where an induction over data would be used, they take the least element of a set of naturals instead (a lowest score, a first position).

**`RoutingProofs`** has the theorems of `Routing`, for any nodes, keys, injective scores, limits, load factor, floor and size of the memory.

* The decision: `FreeSlotIsFound` (`Spec => []WorkConserving`), `OthersKeepTheirOrder` (`Spec => []OnlyLostKeysMove`), `BoundIsKept`
  (`Spec => []ExceedsOnlyWhenForced`) and `LowLoadKeepsAffinity` (`Spec => []AffinityAtLowLoad`). The argument is about what the operators
  return: `OrderedIs` says that placement only moves a candidate to the front of the ranking, so that what is tried is still an order of the
  candidates. `AffinityAtLowLoad` needs the agreement of the memory for the remembered node to be the one in front.
* The memory: `MemoryAgrees` (`Spec => []CountersAgree`), `KeysAreSpread` (`Spec => []SpreadEvenly`), and the action properties
  `KeysStick` (`Spec => Sticky`) and `OldestIsForgotten` (`Spec => ForgetsOldest`).
  `SpreadEvenly` is inductive only with the agreement of counters and list, and with the fact that all nodes are available as long as none
  was lost, so that no remembered key has to move.

**`HandlerProofs`**: `TypeCorrect` (`Spec => []TypeOK`), `LeaseIsSettledOnce` (`Spec => []LeaseSettledOnce`), `VerdictsAreFair`
(`Spec => []VerdictIsFair`), `ClientIsAnswered` (`Spec => []Answered`), `RequestIsCountedOnce` (`Spec => []FinishedOnce`) and
`ClientSeesOneResponse` (`Spec => ClientSpec`, the refinement of `ClientView`), for any number of attempts and chunks. The inductive
invariant `IInv` ties the place in the code to what has been sent (nothing before the commit, chunks of the committed attempt after it, an end
only at the end) and to how often a verdict and an outcome were recorded. The last two theorems assume `NoPanic`, that no pause the
configuration leads to makes `backoff` panic. The configuration of the run `handler` satisfies it; `handler_backoff` shows one that does
not. The others need no such assumption: `attempt` settles the lease before the pause. For the verdicts
and answers `JInv` adds what the handler knows at each point of node, timers and context (`Blame`): a broken read means a fault, a timer
or a context that has ended; a cancelled context means a client that is gone.

**`HealthProofs`**: `StreaksDecide` (`Spec => []StreakDecides`), for any nodes, thresholds and number of rounds. The inductive invariant
says that each counter is the length of the run of equal answers at the end of the node's history, and, while a goroutine is between its
answer and `SetUp`, that the counters or the flag lag behind by exactly that answer. `ExpectedNext` then shows that the decision
taken from the counters is the one the longer history asks for.

**`DemoProofs`**: `LoadEnds` (`Spec => []LoadIsOver`), `WarmRoundIsWarm` (`[]WarmAfterCold`), `BenchmarksSurvive`
(`[]SurvivesTheGateway`), `RunningAreSaved` (`[]RunningContainersSaved`), `VerdictHasSource` (`[]VerdictIsStated`), `ColdComesFirst`
(`[]ColdThenWarm`), `LoadIsReported` (`[]EveryRequestReported`) and `DemoTypes` (`[]TypeOK`): every safety property of the run `demo`, for any
number of requests, prompts, repeats, containers, launch logs, reply lines, latencies and interrupts. All rest on where `main()` can be.
`Laid` is what the proofs use of the seven step lists (only `dp_demo` has rounds, a load is followed by the step the scripts resume at), and
most steps are `Plain`: they stay, go on or end the script and touch no pool. Around that there are five invariants:

* `IInv`: the first three properties with `Control` (which step goes with which mode, and what `__exit__` may hold back: an error only
  in `dp_demo`'s rounds, or an interrupt, which is then counted) and `Pooled` (what the loop over `as_completed` has seen). `LoadIsOver` needs
  it because a pool is left in three ways, and only a second Ctrl-C skips the wait;
* `LogsInv`: the names before the current one are dealt with, apart from the one whose `docker logs` is running, and a container is
  steady only while it runs;
* `Contexts`: no context after the current one has been asked about, and the first sample of the loop is what came of the context's first
  request;
* `Totals`: the totals are the number of futures counted so far in this pool, and there is a latency for each success;
* `Samples`: the kinds of samples kept and the bounds of the loops.

`EveryRequestReported` also needs that sorting works: `SortExists` takes a shortest sequence of naturals that has no sorting order and
inserts its last member into an order of the others (`Insertion`), so that no induction is used; `PercentileIs` compares the positions of
P95 and the median. Assumptions: `Requests` is finite, `Prompts` and `Repeats` are positive, latencies are naturals, and
the number of launch logs and of interrupts is a natural. TLC checked the five invariants on the instance of `demo` before they were proved.

Only model-checked:

* all liveness (`NeverWedged`, `EveryCallReturns`, `Terminates`, `PoolIsLeft`): fairness and `ENABLED` are out of the prover's reach;
* `BackoffLaw`: it is about `2^n`, of which the provers know nothing without an induction over `n`.

## What the model shows of the demo scripts without a run

These are visible in the operators and actions but contradict no property worth its own run:

* The error event of the gateway ends `streaming_demo` with a `KeyError`; one interrupted by the user still prints "Complete".
* A request that fails in `dp_demo`'s rounds ends the script before the logs are saved.
* A `docker logs` that fails still leaves a file that is listed as saved.

## Not modelled

* Request parsing, the routing key and the hash functions: pure data. Scores are an arbitrary injective table instead. Two configured
  nodes with the same address are assumed away.
* Metrics and logging, which influence nothing; that `finish` runs once is checked in `Handler`.
* Loading of the configuration, and `Validate` beyond the values the handler uses; server start and shutdown, which are wiring.
* The simulated worker, the load generator and its statistics: test doubles and tooling outside the deployed system.
* The remaining benchmarks, plots and shell scripts: straight-line drivers that start processes.
* What the demos' checks of hardware, workers, GPU memory and All-to-All lines print, the lines of `.env`, and log file names.
* Starvation in the queue by an endless stream of newcomers: the requests of `Router` are finite.
* The end of the scripts: commands, the user and a slowly dripping reply can hold them up for as long as they like.
