----------------------------- MODULE DemoProofs -----------------------------
(***************************************************************************)
(* Proofs about the demo scripts, for any number of requests, prompts,     *)
(* repeats, containers, launch logs and interrupts.                        *)
(***************************************************************************)
EXTENDS Demo, FiniteSetTheorems, TLAPS

-----------------------------------------------------------------------------
(* The order of the steps of each main().                                  *)

LEMMA ScriptNames == Scripts = {"dp", "tp", "ep", "pd", "qa", "streaming", "long"}
BY DEF Scripts, Main

ContextSteps == {"cold_ctx", "warm_ctx", "tokens"}

\* What the proofs use of a main() with steps m.
Laid(s, m) ==
  /\ Len(m) \in Nat \ {0} /\ DOMAIN m = 1 .. Len(m)
  /\ \A i \in 1 .. Len(m) :
       /\ m[i] \in {"cold", "warm"} => s = "dp"
       /\ m[i] \in ContextSteps <=> s = "long"
       /\ m[i] # "over"
       /\ m[i] = "load" => i < Len(m) /\ m[i + 1] \in {"save", "memory"}
       /\ i < Len(m) /\ m[i + 1] = "warm" => m[i] = "cold"
       /\ m[i] = "cold_ctx" => i + 2 <= Len(m)
  /\ m[1] # "warm"
  /\ s \in {"dp", "tp", "ep", "pd"} => \E i \in 1 .. Len(m) : m[i] = "load"

LEMMA Order == ASSUME NEW s \in Scripts PROVE Laid(s, Main[s])
<1>1. CASE s = "dp"
  <2>1. Main[s] = DpMain
    BY <1>1 DEF Main
  <2> QED BY <1>1, <2>1 DEF DpMain, Laid, ContextSteps
<1>2. CASE s = "tp"
  <2>1. Main[s] = TpMain
    BY <1>2 DEF Main
  <2> QED BY <1>2, <2>1 DEF TpMain, Laid, ContextSteps
<1>3. CASE s = "ep"
  <2>1. Main[s] = EpMain
    BY <1>3 DEF Main
  <2> QED BY <1>3, <2>1 DEF EpMain, Laid, ContextSteps
<1>4. CASE s = "pd"
  <2>1. Main[s] = PdMain
    BY <1>4 DEF Main
  <2> QED BY <1>4, <2>1 DEF PdMain, Laid, ContextSteps
<1>5. CASE s = "qa"
  <2>1. Main[s] = QaMain
    BY <1>5 DEF Main
  <2> QED BY <1>5, <2>1 DEF QaMain, Laid, ContextSteps
<1>6. CASE s = "streaming"
  <2>1. Main[s] = StreamingMain
    BY <1>6 DEF Main
  <2> QED BY <1>6, <2>1 DEF StreamingMain, Laid, ContextSteps
<1>7. CASE s = "long"
  <2>1. Main[s] = LongContextLoop
    BY <1>7 DEF Main
  <2> QED BY <1>7, <2>1 DEF LongContextLoop, Laid, ContextSteps
<1> QED BY <1>1, <1>2, <1>3, <1>4, <1>5, <1>6, <1>7, ScriptNames

-----------------------------------------------------------------------------
(***************************************************************************)
(* The inductive invariant, in parts.  Control says where main() can be,   *)
(* and what the pool's __exit__ may be holding back.  Pooled says what the *)
(* loop over as_completed has seen of the current pool.                    *)
(***************************************************************************)
Futures == [st : {"idle", "running", "ok", "fail", "raises"}, lat : Latencies \cup {0}]

Typed ==
  /\ script \in Scripts /\ at \in 1 .. Len(Main[script]) + 1
  /\ mode \in {"main", "pool", "exit", "collect", "fetch"}
  /\ exc \in {"none", "interrupt", "error"}
  /\ end \in {"no", "done", "exit1", "traceback"}
  /\ interrupts \in 0 .. MaxInterrupts
  /\ pool \in [Requests -> Futures]
  /\ counted \subseteq Requests /\ cold \subseteq Requests

InPool == mode \in {"pool", "exit"}
Saving == mode \in {"collect", "fetch"}

Control ==
  /\ end = "no" => at <= Len(Main[script])
  /\ end # "no" => mode = "main"
  /\ InPool => Step \in PoolSteps
  /\ Saving => Step = "save"
  /\ mode # "exit" => exc = "none"
  /\ mode = "exit" => \/ exc = "interrupt" /\ interrupts >= 1
                      \/ exc = "error" /\ Step \in {"cold", "warm"}

Pooled ==
  /\ ~InPool => counted = {}
  /\ mode = "pool" => \A r \in Requests : pool[r].st = "raises" => Step \in {"cold", "warm"}
  /\ mode = "pool" /\ Step = "cold" => counted \subseteq cold

IInv == Typed /\ Control /\ Pooled /\ LoadIsOver /\ WarmAfterCold /\ SurvivesTheGateway

(***************************************************************************)
(* Of the collection of logs: the names before the current one are dealt   *)
(* with, and a container is steady only while it runs.                     *)
(***************************************************************************)
LogsTyped ==
  /\ docker \in [Range(Containers) -> {"running", "stopped", "gone"}]
  /\ files \in [Range(Containers) -> {"none", "no_logs", "logs"}]
  /\ steady \subseteq Range(Containers)

Collected ==
  /\ \A c \in steady : docker[c] = "running"
  /\ ~Saving /\ end # "traceback" => \A c \in steady : files[c] = "logs"
  /\ Saving => /\ round \in 1 .. Len(Containers) + 1
               /\ \A i \in 1 .. round - 1 :
                    Containers[i] \in steady =>
                      files[Containers[i]] = "logs" \/ (mode = "fetch" /\ Containers[i] = Name)
  /\ mode = "fetch" => round <= Len(Containers)

\* Of the contexts: none from the current one on has been asked about before its cold
\* request, and the loop's first sample is what came of that request.
Contexts ==
  /\ first \in [(1 .. 3) \X {"earlier", "now"} -> {"unseen", "none", "zero", "ms"}]
  /\ script = "long" => \A l \in 1 .. 3 : first[<<l, "now">>] # "unseen" =>
       l <= Label /\ (Step = "cold_ctx" => l < Label)
  /\ end = "no" /\ Step \in {"warm_ctx", "tokens"} =>
       /\ times \in Seq({"ms", "zero"}) /\ times # <<>>
       /\ first[<<Label, "now">>] = times[1]

\* Of the totals: the loop has put every future it has seen in one of them.
Totals ==
  /\ tally \in [success : Nat, fail : Nat, latencies : Seq(Latencies \cup {0})]
  /\ tally.success + tally.fail = IF InPool /\ Step = "load" THEN Cardinality(counted) ELSE 0
  /\ script # "qa" => Len(tally.latencies) = tally.success

Samples ==
  /\ times \in Seq({"ttft", "elapsed", "ms", "zero"})
  /\ ~Saving => round \in 0 .. Prompts * Repeats

-----------------------------------------------------------------------------
(* The steps of main() and of the pools.                                   *)

LEMMA InitInv == Init => IInv
<1> SUFFICES ASSUME Init PROVE IInv
  OBVIOUS
<1>1. Laid(script, Main[script])
  BY Order DEF Init
<1>2. Idle \in Futures
  BY DEF Idle, Futures
<1>3. Typed
  BY <1>1, <1>2, DemoAssumption DEF Init, Typed, Laid
<1>4. Step = Main[script][1]
  BY <1>1 DEF Init, Step, Laid
<1>5. Control /\ Pooled
  BY <1>1 DEF Init, Control, Pooled, InPool, Saving, Laid
<1>6. LoadIsOver
  BY DEF Init, LoadIsOver, InFlight, Idle
<1>7. WarmAfterCold /\ SurvivesTheGateway
  BY <1>1, <1>4 DEF Init, WarmAfterCold, SurvivesTheGateway, Laid
<1> QED BY <1>3, <1>5, <1>6, <1>7 DEF IInv

\* Outside the pools main() stays at its step, goes on, or ends the script.
StaysAt ==
  /\ at' = at /\ end' = end
  /\ mode' \in {"main", "collect", "fetch"} /\ (mode' # "main" => Step = "save")

GoesOn ==
  /\ at' = at + 1 \/ (at' = at + 3 /\ Step = "cold_ctx")
  /\ end' = (IF at' > Len(Main[script]) THEN "done" ELSE "no")
  /\ mode' = "main"

GivesUp ==
  /\ at' = at /\ mode' = "main"
  /\ end' = "exit1" \/ (end' = "traceback" /\ Step \in {"input", "stream", "evidence"})

Plain ==
  /\ end = "no" /\ ~InPool /\ Step \notin PoolSteps
  /\ script' = script /\ exc' \in {"none", exc} /\ UNCHANGED <<interrupts, load>>
  /\ StaysAt \/ GoesOn \/ GivesUp

LEMMA ReplyMeasured == \A t \in TtftOutcomes : t \in {"ttft", "elapsed", "error"}
BY DEF TtftOutcomes, measure_ttft

LEMMA ChecksArePlain == ASSUME Checks PROVE Plain
<1> USE DEF Plain, StaysAt, GoesOn, GivesUp, InPool, At, PoolSteps, quiet, load, control
<1>1. CASE PrintHwInfo \/ CheckAllNodes \/ CheckGpuMemory \/ CheckAllToAll
  BY <1>1 DEF PrintHwInfo, CheckAllNodes, CheckGpuMemory, CheckAllToAll, PrintAndGoOn, Goto, GotoWith
<1>2. CASE CheckGateway
  BY <1>2 DEF CheckGateway, Die, Goto, GotoWith
<1>3. CASE CheckTpActive
  BY <1>3 DEF CheckTpActive, Goto, GotoWith
<1>4. CASE CheckEpActive
  BY <1>4 DEF CheckEpActive, Raise, Die, Goto, GotoWith
<1> QED BY <1>1, <1>2, <1>3, <1>4 DEF Checks

LEMMA BenchmarksArePlain ==
  ASSUME BenchmarkTtft \/ TtftDone \/ Input \/ StreamChat \/ LongContext
  PROVE  Plain
<1> USE DEF Plain, StaysAt, GoesOn, GivesUp, InPool, At, PoolSteps, quiet, load, control
<1>1. CASE BenchmarkTtft
  <2>1. ~\E t \in TtftOutcomes : t = "raises"
    BY ReplyMeasured
  <2> QED BY <1>1, <2>1 DEF BenchmarkTtft
<1>2. CASE TtftDone
  BY <1>2 DEF TtftDone, Goto, GotoWith
<1>3. CASE Input
  BY <1>3 DEF Input, Raise, Die, Goto, GotoWith
<1>4. CASE StreamChat
  BY <1>4 DEF StreamChat, Raise, Die, Goto, GotoWith
<1>5. CASE ColdContext
  BY <1>5 DEF ColdContext, Goto, GotoWith
<1>6. CASE WarmContext
  BY <1>6 DEF WarmContext, GotoWith
<1>7. CASE TokenCounts
  BY <1>7 DEF TokenCounts, Goto, GotoWith
<1> QED BY <1>1, <1>2, <1>3, <1>4, <1>5, <1>6, <1>7 DEF LongContext

LEMMA SavingIsPlain ==
  ASSUME Control,
         SaveContainerLogs \/ DockerPs \/ DockerLogs \/ CollectDone \/ ContainerChanges
  PROVE  Plain
<1> USE DEF Plain, StaysAt, GoesOn, GivesUp, InPool, At, PoolSteps, load, control, Control, Saving
<1>1. CASE SaveContainerLogs
  BY <1>1 DEF SaveContainerLogs, Goto, GotoWith
<1>2. CASE DockerPs
  BY <1>2 DEF DockerPs
<1>3. CASE DockerLogs
  BY <1>3 DEF DockerLogs
<1>4. CASE CollectDone
  BY <1>4 DEF CollectDone, Goto, GotoWith
<1>5. CASE ContainerChanges
  BY <1>5 DEF ContainerChanges
<1> QED BY <1>1, <1>2, <1>3, <1>4, <1>5

\* The step main() has reached, and the one it goes on to.
LEMMA StepIs ==
  ASSUME Typed, Control
  PROVE  /\ Laid(script, Main[script])
         /\ at \in Nat \ {0}
         /\ end = "no" => at \in 1 .. Len(Main[script]) /\ Step = Main[script][at]
<1>1. Laid(script, Main[script])
  BY Order DEF Typed
<1>2. at \in Nat \ {0} /\ Len(Main[script]) \in Nat
  BY <1>1 DEF Typed, Laid
<1>3. end = "no" => at \in 1 .. Len(Main[script])
  BY <1>2 DEF Control
<1>4. end = "no" => Step = Main[script][at]
  BY <1>2, <1>3 DEF Step
<1> QED BY <1>1, <1>2, <1>3, <1>4

LEMMA PlainInv ==
  ASSUME IInv, Plain
  PROVE  IInv'
<1> DEFINE m == Main[script]
<1>0. /\ Typed /\ Control /\ Pooled /\ LoadIsOver /\ WarmAfterCold /\ SurvivesTheGateway
  BY DEF IInv
<1>1. /\ Laid(script, m) /\ at \in 1 .. Len(m) /\ Step = m[at] /\ Len(m) \in Nat
  BY <1>0, StepIs DEF Plain, Laid
<1>2. /\ script' = script /\ exc' = "none" /\ UNCHANGED <<interrupts, pool, counted, tally, cold>>
      /\ mode' \in {"main", "collect", "fetch"} /\ ~InPool /\ ~InPool' /\ end = "no"
      /\ Step \notin {"cold", "warm", "load"}
  BY <1>0 DEF Plain, StaysAt, GoesOn, GivesUp, Control, InPool, load, PoolSteps
<1>3. Step' = IF at' <= Len(m) THEN m[at'] ELSE "over"
  BY <1>2 DEF Step
<1> HIDE DEF m
<1>4. /\ at' \in 1 .. Len(m) + 1 /\ (end' = "no" => at' <= Len(m)) /\ Step' # "warm"
      /\ end' \in {"no", "done", "exit1", "traceback"}
  <2>1. CASE StaysAt \/ GivesUp
    BY <1>1, <1>2, <1>3, <2>1 DEF StaysAt, GivesUp
  <2>2. CASE GoesOn
    <3>1. CASE at' = at + 1
      BY <1>1, <1>2, <1>3, <2>2, <3>1 DEF GoesOn, Laid, m
    <3>2. CASE at' = at + 3 /\ Step = "cold_ctx"
      <4>1. script = "long" /\ at + 2 <= Len(m)
        BY <1>1, <3>2, ZenonT(30) DEF Laid, ContextSteps
      <4>2. \A i \in 1 .. Len(m) : m[i] # "warm"
        BY <1>1, <4>1 DEF Laid
      <4> QED BY <1>1, <1>3, <2>2, <3>2, <4>1, <4>2 DEF GoesOn, m
    <3> QED BY <2>2, <3>1, <3>2 DEF GoesOn
  <2> QED BY <2>1, <2>2 DEF Plain
<1>5. /\ mode' # "main" => end' = "no" /\ Step' = "save"
      /\ end' = "traceback" => Step' \in {"input", "stream", "evidence"}
  BY <1>1, <1>2, <1>3 DEF Plain, StaysAt, GoesOn, GivesUp
<1>6. Typed'
  BY <1>0, <1>2, <1>4 DEF Typed, m
<1>7. Control'
  BY <1>2, <1>4, <1>5 DEF Control, InPool, Saving, m
<1>8. Pooled'
  BY <1>0, <1>2 DEF Pooled, InPool
<1>9. LoadIsOver'
  BY <1>0, <1>2 DEF LoadIsOver, InFlight, InPool
<1>10. WarmAfterCold' /\ SurvivesTheGateway'
  BY <1>4, <1>5 DEF WarmAfterCold, SurvivesTheGateway
<1> QED BY <1>6, <1>7, <1>8, <1>9, <1>10 DEF IInv

\* What an exception does to a main() that is outside its pools again: Ctrl-C in a
\* benchmark goes on after the load test, anything else ends the script.
Raised(e) ==
  /\ script' = script /\ mode' = "main" /\ exc' = "none"
  /\ \/ /\ e = "interrupt" /\ end' = "no" /\ at' \in 1 .. Len(Main[script])
        /\ Step' \in {"save", "memory"}
     \/ at' = at /\ end' = "traceback" /\ Step' = Step

LEMMA RaiseIs ==
  ASSUME Typed, Control, NEW e, Raise(e)
  PROVE  Raised(e)
<1> DEFINE m == Main[script]
<1>1. Laid(script, m) /\ Len(m) \in Nat
  BY StepIs DEF Laid
<1>2. CASE e = "interrupt" /\ Guarded
  <2>1. \E i \in DOMAIN m : m[i] = "load"
    BY <1>1, <1>2 DEF Guarded, Laid
  <2>2. PICK i \in DOMAIN m : m[i] = "load" /\ Resume = 1 + i
    BY <2>1, ZenonT(30) DEF Resume
  <2>3. i \in 1 .. Len(m) /\ i < Len(m) /\ m[i + 1] \in {"save", "memory"}
    BY <1>1, <2>2 DEF Laid
  <2>4. /\ script' = script /\ mode' = "main" /\ exc' = "none" /\ at' = 1 + i
        /\ end' = IF at' > Len(m) THEN "done" ELSE "no"
    BY <1>2, <2>2 DEF Raise, Goto, GotoWith
  <2>5. Step' = IF at' <= Len(m) THEN m[at'] ELSE "over"
    BY <2>4 DEF Step
  <2> HIDE DEF m
  <2>6. at' \in 1 .. Len(m) /\ end' = "no" /\ Step' \in {"save", "memory"}
    BY <1>1, <2>3, <2>4, <2>5
  <2> QED BY <1>2, <2>4, <2>6 DEF Raised, m
<1>3. CASE ~(e = "interrupt" /\ Guarded)
  BY <1>3 DEF Raise, Die, Raised, Step
<1> QED BY <1>2, <1>3

\* A request of a load test never raises: single and simulate_employee catch.
LEMMA ResultsAre ==
  ASSUME Step \in PoolSteps, NEW x \in Results
  PROVE  x \in Futures /\ (x.st = "raises" => Step \in {"cold", "warm"})
<1>1. \A ok : LoadResult(ok) \subseteq [st : {"ok", "fail"}, lat : Latencies \cup {0}]
  BY DEF LoadResult
<1>2. CASE Step = "load"
  <2>1. x \in [st : {"ok", "fail"}, lat : Latencies \cup {0}]
    BY <1>1, <1>2 DEF Results
  <2> QED BY <2>1 DEF Futures
<1>3. CASE Step # "load"
  <2>1. x \in [st : SendOutcomes, lat : {0}]
    BY <1>3 DEF Results
  <2>2. SendOutcomes \subseteq {"raises", "ok"}
    BY DEF SendOutcomes
  <2> QED BY <1>3, <2>1, <2>2, ZenonT(30) DEF Futures, PoolSteps
<1> QED BY <1>2, <1>3

LEMMA SubmitInv ==
  ASSUME IInv, Submit
  PROVE  IInv'
<1>0. /\ Typed /\ Control /\ Pooled /\ LoadIsOver /\ WarmAfterCold /\ SurvivesTheGateway
  BY DEF IInv
<1>1. /\ end = "no" /\ mode = "main" /\ mode' = "pool" /\ Step \in PoolSteps
      /\ UNCHANGED <<script, at, exc, end, interrupts, counted, cold>>
      /\ pool' = [r \in Requests |-> [st |-> "running", lat |-> 0]]
  BY DEF Submit
<1>2. Step' = Step
  BY <1>1 DEF Step
<1>3. Typed'
  BY <1>0, <1>1 DEF Typed, Futures
<1>4. Control'
  BY <1>0, <1>1, <1>2 DEF Control, InPool, Saving
<1>5. Pooled'
  BY <1>0, <1>1 DEF Pooled, InPool
<1>6. LoadIsOver' /\ WarmAfterCold' /\ SurvivesTheGateway'
  BY <1>0, <1>1, <1>2 DEF LoadIsOver, WarmAfterCold, SurvivesTheGateway
<1> QED BY <1>3, <1>4, <1>5, <1>6 DEF IInv

LEMMA FinishInv ==
  ASSUME IInv, NEW r \in Requests, Finish(r)
  PROVE  IInv'
<1>0. /\ Typed /\ Control /\ Pooled /\ LoadIsOver /\ WarmAfterCold /\ SurvivesTheGateway
  BY DEF IInv
<1>1. UNCHANGED <<script, at, mode, exc, end, interrupts, counted, cold>> /\ Step' = Step
  BY DEF Finish, control, Step
<1>2. PICK x : /\ pool' = [pool EXCEPT ![r] = x]
               /\ mode = "pool" => x \in Results
               /\ mode # "pool" => x = Idle
  BY DEF Finish
<1>3. x \in Futures /\ (mode = "pool" /\ x.st = "raises" => Step \in {"cold", "warm"})
  <2>1. CASE mode = "pool"
    BY <1>0, <1>2, <2>1, ResultsAre DEF Control, InPool
  <2>2. CASE mode # "pool"
    BY <1>2, <2>2 DEF Idle, Futures
  <2> QED BY <2>1, <2>2
<1>4. Typed'
  BY <1>0, <1>1, <1>2, <1>3 DEF Typed
<1>5. Control'
  BY <1>0, <1>1 DEF Control, InPool, Saving
<1>6. Pooled'
  BY <1>0, <1>1, <1>2, <1>3 DEF Pooled, InPool, Typed
<1>7. LoadIsOver'
  <2>1. mode # "pool" => InFlight' \subseteq InFlight
    BY <1>0, <1>2 DEF InFlight, Typed, Idle
  <2> QED BY <1>0, <1>1, <2>1 DEF LoadIsOver
<1>8. WarmAfterCold' /\ SurvivesTheGateway'
  BY <1>0, <1>1 DEF WarmAfterCold, SurvivesTheGateway
<1> QED BY <1>4, <1>5, <1>6, <1>7, <1>8 DEF IInv

LEMMA CountInv ==
  ASSUME IInv, NEW r \in Requests, Count(r)
  PROVE  IInv'
<1>0. /\ Typed /\ Control /\ Pooled /\ LoadIsOver /\ WarmAfterCold /\ SurvivesTheGateway
  BY DEF IInv
<1>1. /\ end = "no" /\ mode = "pool" /\ UNCHANGED <<script, at, end, interrupts, pool>>
      /\ Step' = Step
  BY DEF Count, Step
<1>2. CASE pool[r].st = "raises"
  <2>1. mode' = "exit" /\ exc' = "error" /\ UNCHANGED <<counted, cold>>
    BY <1>2 DEF Count
  <2>2. Typed'
    BY <1>0, <1>1, <2>1 DEF Typed
  <2>3. Control'
    BY <1>0, <1>1, <1>2, <2>1 DEF Control, Pooled, InPool, Saving
  <2>4. Pooled'
    BY <2>1 DEF Pooled, InPool
  <2>5. LoadIsOver' /\ WarmAfterCold' /\ SurvivesTheGateway'
    BY <1>0, <1>1, <2>1 DEF LoadIsOver, WarmAfterCold, SurvivesTheGateway
  <2> QED BY <2>2, <2>3, <2>4, <2>5 DEF IInv
<1>3. CASE pool[r].st # "raises"
  <2>1. /\ UNCHANGED <<mode, exc>> /\ counted' = counted \cup {r}
        /\ cold' = IF Step = "cold" THEN cold \cup {r} ELSE cold
    BY <1>3 DEF Count
  <2>2. Typed'
    BY <1>0, <1>1, <2>1 DEF Typed
  <2>3. Control'
    BY <1>0, <1>1, <2>1 DEF Control, InPool, Saving
  <2>4. Pooled'
    BY <1>0, <1>1, <2>1 DEF Pooled, InPool
  <2>5. LoadIsOver' /\ WarmAfterCold' /\ SurvivesTheGateway'
    BY <1>0, <1>1, <2>1 DEF LoadIsOver, WarmAfterCold, SurvivesTheGateway
  <2> QED BY <2>2, <2>3, <2>4, <2>5 DEF IInv
<1> QED BY <1>2, <1>3

\* Threads outlive the pool's object; nothing else does.
LEMMA DropPoolIs ==
  ASSUME Typed, DropPool
  PROVE  pool' \in [Requests -> Futures] /\ InFlight' = InFlight /\ counted' = {}
<1>1. Idle \in Futures
  BY DEF Idle, Futures
<1>2. pool' \in [Requests -> Futures] /\ counted' = {}
  BY <1>1 DEF DropPool, Typed
<1>3. ASSUME NEW r \in Requests
      PROVE  pool'[r].st = "running" <=> pool[r].st = "running"
  <2>1. pool'[r] = IF pool[r].st = "running" THEN pool[r] ELSE Idle
    BY DEF DropPool
  <2>2. Idle.st = "idle"
    BY DEF Idle
  <2> QED BY <2>1, <2>2
<1>4. InFlight' = InFlight
  BY <1>3 DEF InFlight
<1> QED BY <1>2, <1>4

LEMMA LeavePoolInv ==
  ASSUME IInv, LeavePool
  PROVE  IInv'
<1> DEFINE m == Main[script]
<1>0. /\ Typed /\ Control /\ Pooled /\ LoadIsOver /\ WarmAfterCold /\ SurvivesTheGateway
  BY DEF IInv
<1>1. /\ Laid(script, m) /\ at \in 1 .. Len(m) /\ Step = m[at] /\ Len(m) \in Nat
  BY <1>0, StepIs DEF LeavePool, Laid
<1>2. /\ mode = "pool" /\ end = "no" /\ counted = Requests /\ InFlight = {}
      /\ script' = script /\ at' = at + 1 /\ mode' = "main" /\ exc' = "none"
      /\ end' = (IF at' > Len(m) THEN "done" ELSE "no") /\ interrupts' = interrupts
      /\ cold' = IF Step = "warm" THEN {} ELSE cold
  BY DEF LeavePool, PoolDone, ThreadsJoined, Goto, GotoWith
<1>3. pool' \in [Requests -> Futures] /\ InFlight' = {} /\ counted' = {}
  BY <1>0, <1>2, DropPoolIs DEF LeavePool
<1>4. Step' = IF at' <= Len(m) THEN m[at'] ELSE "over"
  BY <1>2 DEF Step
<1> HIDE DEF m
<1>5. Typed'
  BY <1>0, <1>1, <1>2, <1>3 DEF Typed, m
<1>6. Control'
  BY <1>1, <1>2 DEF Control, InPool, Saving, m
<1>7. Pooled' /\ LoadIsOver' /\ SurvivesTheGateway'
  BY <1>2, <1>3 DEF Pooled, InPool, LoadIsOver, SurvivesTheGateway
<1>8. WarmAfterCold'
  <2> SUFFICES ASSUME Step' = "warm" PROVE cold' = Requests
    BY DEF WarmAfterCold
  <2>1. Step = "cold"
    BY <1>1, <1>2, <1>4 DEF Laid
  <2>2. counted \subseteq cold /\ cold \subseteq Requests
    BY <1>0, <1>2, <2>1 DEF Pooled, Typed
  <2>3. cold' = cold
    BY <1>2, <2>1
  <2> QED BY <1>2, <2>2, <2>3
<1> QED BY <1>5, <1>6, <1>7, <1>8 DEF IInv

\* main() after an exception has left the pool, or Ctrl-C came outside one.
LEMMA RaisedInv ==
  ASSUME IInv, end = "no", NEW e, Raised(e), DropPool, cold' = {},
         interrupts' \in interrupts .. MaxInterrupts,
         e # "interrupt" => Step \in {"cold", "warm"} \/ interrupts' >= 1,
         e = "interrupt" => interrupts' >= 1,
         InFlight # {} => interrupts' >= 2 \/ (script = "dp" /\ interrupts' >= 1)
  PROVE  IInv'
<1>0. Typed /\ Control
  BY DEF IInv
<1>1. pool' \in [Requests -> Futures] /\ InFlight' = InFlight /\ counted' = {}
  BY <1>0, DropPoolIs
<1>2. script' = script /\ mode' = "main" /\ exc' = "none"
  BY DEF Raised
<1>3. Laid(script, Main[script]) /\ at \in 1 .. Len(Main[script]) /\ Len(Main[script]) \in Nat
  BY <1>0, StepIs DEF Laid
<1>4. at' \in 1 .. Len(Main[script]) /\ end' \in {"no", "traceback"}
  BY <1>3 DEF Raised
<1>5. interrupts' \in 0 .. MaxInterrupts
  BY <1>0, DemoAssumption DEF Typed
<1>6. Typed'
  BY <1>0, <1>1, <1>2, <1>3, <1>4, <1>5 DEF Typed
<1>7. Control'
  BY <1>2, <1>4 DEF Control, InPool, Saving
<1>8. Pooled' /\ LoadIsOver'
  BY <1>1, <1>2 DEF Pooled, InPool, LoadIsOver
<1>9. WarmAfterCold' /\ SurvivesTheGateway'
  BY <1>5 DEF WarmAfterCold, SurvivesTheGateway, Raised
<1> QED BY <1>6, <1>7, <1>8, <1>9 DEF IInv

LEMMA UnwindInv ==
  ASSUME IInv, Unwind
  PROVE  IInv'
<1>0. Typed /\ Control
  BY DEF IInv
<1>1. /\ end = "no" /\ mode = "exit" /\ InFlight = {} /\ DropPool /\ cold' = {}
      /\ Raise(exc) /\ interrupts' = interrupts
  BY DEF Unwind, ThreadsJoined
<1>2. Raised(exc)
  BY <1>0, <1>1, RaiseIs
<1>3. /\ exc # "interrupt" => Step \in {"cold", "warm"}
      /\ exc = "interrupt" => interrupts >= 1
  BY <1>0, <1>1 DEF Control
<1>4. interrupts' \in interrupts .. MaxInterrupts
  BY <1>0, <1>1, DemoAssumption DEF Typed
<1> QED BY <1>1, <1>2, <1>3, <1>4, RaisedInv

LEMMA InterruptInv ==
  ASSUME IInv, Interrupt
  PROVE  IInv'
<1>0. Typed /\ Control /\ Pooled /\ LoadIsOver /\ WarmAfterCold /\ SurvivesTheGateway
  BY DEF IInv
<1>1. /\ end = "no" /\ interrupts \in Nat /\ interrupts' = interrupts + 1
      /\ interrupts' \in 0 .. MaxInterrupts /\ interrupts' \in interrupts .. MaxInterrupts
  BY <1>0, DemoAssumption DEF Interrupt, Typed
<1>2. CASE At("stream") /\ Goto(at + 1) /\ UNCHANGED load
  <2> DEFINE m == Main[script]
  <2>1. /\ Laid(script, m) /\ at \in 1 .. Len(m) /\ Step = m[at] /\ Len(m) \in Nat
    <3>1. Laid(script, m) /\ at \in 1 .. Len(m) /\ Step = m[at]
      BY <1>0, <1>1, StepIs
    <3> QED BY <3>1 DEF Laid
  <2>2. /\ mode = "main" /\ Step = "stream" /\ script' = script /\ at' = at + 1
        /\ mode' = "main" /\ exc' = "none" /\ UNCHANGED <<pool, counted, cold>>
        /\ end' = IF at' > Len(m) THEN "done" ELSE "no"
    BY <1>2 DEF At, Goto, GotoWith, load
  <2>3. Step' = IF at' <= Len(m) THEN m[at'] ELSE "over"
    BY <2>2 DEF Step
  <2> HIDE DEF m
  <2>4. Typed'
    BY <1>0, <1>1, <2>1, <2>2 DEF Typed, m
  <2>5. Control'
    BY <2>1, <2>2 DEF Control, InPool, Saving, m
  <2>6. Pooled'
    BY <1>0, <2>2 DEF Pooled, InPool
  <2>7. LoadIsOver'
    BY <1>0, <1>1, <2>2 DEF LoadIsOver, InFlight
  <2>8. WarmAfterCold'
    <3> SUFFICES ASSUME Step' = "warm" PROVE FALSE
      BY DEF WarmAfterCold
    <3>1. at < Len(m) /\ m[at + 1] = "warm"
      BY <2>1, <2>2, <2>3
    <3>2. m[at] = "cold"
      BY <2>1, <3>1 DEF Laid
    <3> QED BY <2>1, <2>2, <3>2, ZenonT(30)
  <2>9. SurvivesTheGateway'
    BY <2>2 DEF SurvivesTheGateway
  <2> QED BY <2>4, <2>5, <2>6, <2>7, <2>8, <2>9 DEF IInv
<1>3. CASE mode = "pool" /\ mode' = "exit" /\ exc' = "interrupt" /\ UNCHANGED <<script, at, end, load>>
  <2>1. UNCHANGED <<script, at, end, pool, counted, cold>> /\ Step' = Step
    BY <1>3 DEF load, Step
  <2>2. Typed'
    BY <1>0, <1>1, <1>3, <2>1 DEF Typed
  <2>3. Control'
    BY <1>0, <1>1, <1>3, <2>1 DEF Control, InPool, Saving
  <2>4. Pooled' /\ LoadIsOver'
    BY <1>3 DEF Pooled, InPool, LoadIsOver
  <2>5. WarmAfterCold' /\ SurvivesTheGateway'
    BY <1>0, <1>1, <2>1 DEF WarmAfterCold, SurvivesTheGateway
  <2> QED BY <2>2, <2>3, <2>4, <2>5 DEF IInv
<1>4. CASE mode # "pool" /\ DropPool /\ cold' = {} /\ Raise("interrupt")
  <2>1. Raised("interrupt")
    BY <1>0, <1>4, RaiseIs
  <2>2. InFlight # {} => interrupts' >= 2 \/ (script = "dp" /\ interrupts' >= 1)
    <3>1. CASE mode = "exit" /\ exc = "error"
      <4>1. Step \in {"cold", "warm"}
        BY <1>0, <3>1 DEF Control
      <4>2. script = "dp"
        BY <1>0, <1>1, <4>1, StepIs DEF Laid
      <4> QED BY <1>1, <4>2
    <3>2. CASE mode = "exit" /\ exc # "error"
      BY <1>0, <1>1, <3>2 DEF Control
    <3>3. CASE mode # "exit"
      BY <1>0, <1>1, <1>4, <3>3 DEF LoadIsOver
    <3> QED BY <3>1, <3>2, <3>3
  <2>3. interrupts' >= 1
    BY <1>1
  <2> QED BY <1>1, <1>4, <2>1, <2>2, <2>3, RaisedInv
<1> QED BY <1>2, <1>3, <1>4 DEF Interrupt

LEMMA NextInv == IInv /\ [Next]_vars => IInv'
<1> SUFFICES ASSUME IInv, [Next]_vars PROVE IInv'
  OBVIOUS
<1>1. CASE UNCHANGED vars
  BY <1>1 DEF vars, control, load, IInv, Typed, Control, Pooled, InPool, Saving, Step,
    LoadIsOver, InFlight, WarmAfterCold, SurvivesTheGateway
<1>2. CASE MainThread
  <2>1. Control
    BY DEF IInv
  <2> QED BY <1>2, <2>1, ChecksArePlain, BenchmarksArePlain, SavingIsPlain, PlainInv, SubmitInv,
             CountInv, LeavePoolInv, UnwindInv DEF MainThread
<1>3. CASE LongContext
  BY <1>3, BenchmarksArePlain, PlainInv
<1>4. CASE ContainerChanges
  BY <1>4, SavingIsPlain, PlainInv DEF IInv
<1> QED BY <1>1, <1>2, <1>3, <1>4, InterruptInv, FinishInv DEF Next, Ended

LEMMA Inductive == Spec => []IInv
BY InitInv, NextInv, PTL DEF Spec

\* However the threads, the gateway and Ctrl-C interleave, the memory "after the load
\* test" is read and the logs are collected with no request in flight, but for the
\* interrupts that __exit__ cannot hold back.
THEOREM LoadEnds == Spec => []LoadIsOver
BY Inductive, PTL DEF IInv

\* For any number of prefixes, the warm round of dp_demo starts with all of them measured.
THEOREM WarmRoundIsWarm == Spec => []WarmAfterCold
BY Inductive, PTL DEF IInv

\* Whatever the gateway answers, no benchmark ends its script with a traceback.
THEOREM BenchmarksSurvive == Spec => []SurvivesTheGateway
BY Inductive, PTL DEF IInv

-----------------------------------------------------------------------------
(* The collection of the logs.                                             *)

LogsInv == LogsTyped /\ Collected

\* The steps that have nothing to do with the collection, and Ctrl-C, which ends it.
LogsLeft ==
  /\ UNCHANGED logs
  /\ \/ UNCHANGED <<mode, round, end>>
     \/ ~Saving /\ ~Saving' /\ end = "no"
     \/ ~Saving' /\ end' = "traceback"

LEMMA LogsLeftInv ==
  ASSUME LogsInv, LogsLeft
  PROVE  LogsInv'
<1>1. docker' = docker /\ steady' = steady /\ files' = files
  BY DEF LogsLeft, logs
<1>2. LogsTyped'
  BY <1>1 DEF LogsInv, LogsTyped
<1>3. CASE UNCHANGED <<mode, round, end>>
  BY <1>1, <1>2, <1>3 DEF LogsInv, Collected, Saving, Name
<1>4. CASE ~Saving' /\ (end' = "traceback" \/ (~Saving /\ end = "no"))
  <2>1. mode' # "fetch"
    BY <1>4 DEF Saving
  <2> QED BY <1>1, <1>2, <1>4, <2>1 DEF LogsInv, Collected
<1> QED BY <1>3, <1>4 DEF LogsLeft

LEMMA OthersLeaveLogs ==
  ASSUME IInv,
         \/ Checks \/ BenchmarkTtft \/ TtftDone \/ Submit \/ LeavePool \/ Unwind
         \/ Input \/ StreamChat \/ LongContext \/ Interrupt
         \/ \E r \in Requests : Count(r) \/ Finish(r)
  PROVE  LogsLeft
<1>0. Typed /\ Control
  BY DEF IInv
<1> USE DEF LogsLeft, Saving
<1>1. CASE Checks
  BY <1>1, ZenonT(30)
     DEF Checks, PrintHwInfo, CheckGateway, CheckAllNodes, CheckTpActive, CheckEpActive,
    CheckGpuMemory, CheckAllToAll, PrintAndGoOn, At, quiet, Goto, GotoWith, Raise, Die
<1>2. CASE BenchmarkTtft \/ TtftDone \/ Input \/ StreamChat
  BY <1>2 DEF BenchmarkTtft, TtftDone, Input, StreamChat, At, quiet, control, Goto, GotoWith, Raise, Die
<1>3. CASE LongContext
  BY <1>3, ZenonT(30)
     DEF LongContext, ColdContext, WarmContext, TokenCounts, At, quiet, control, Goto, GotoWith
<1>4. CASE Submit \/ LeavePool \/ \E r \in Requests : Count(r)
  BY <1>4 DEF Submit, LeavePool, Count, Goto, GotoWith
<1>5. CASE Unwind
  <2>1. Raised(exc)
    BY <1>0, <1>5, RaiseIs DEF Unwind
  <2> QED BY <1>5, <2>1 DEF Unwind, Raised
<1>6. CASE Interrupt
  <2>1. UNCHANGED logs /\ end = "no"
    BY <1>6 DEF Interrupt
  <2>2. CASE Saving
    <3>1. Step = "save" /\ ~Guarded /\ mode # "pool" /\ ~At("stream")
      BY <1>0, <2>2 DEF Control, Guarded, At
    <3>2. Die("traceback")
      BY <1>6, <3>1 DEF Interrupt, Raise
    <3> QED BY <2>1, <3>2 DEF Die
  <2>3. CASE ~Saving
    <3>1. Raise("interrupt") => mode' = "main"
      BY <1>0, RaiseIs DEF Raised
    <3> QED BY <1>6, <2>1, <2>3, <3>1 DEF Interrupt, Goto, GotoWith
  <2> QED BY <2>2, <2>3
<1>7. CASE \E r \in Requests : Finish(r)
  BY <1>7 DEF Finish, control, loop
<1> QED BY <1>1, <1>2, <1>3, <1>4, <1>5, <1>6, <1>7

LEMMA NamesAre ==
  /\ Len(Containers) \in Nat
  /\ \A i \in 1 .. Len(Containers) : Containers[i] \in Range(Containers)
  /\ \A c \in Range(Containers) : \E i \in 1 .. Len(Containers) : Containers[i] = c
<1>1. Len(Containers) \in Nat /\ DOMAIN Containers = 1 .. Len(Containers)
  BY DemoAssumption
<1> QED BY <1>1 DEF Range

LEMMA SaveLogs ==
  ASSUME LogsInv, SaveContainerLogs
  PROVE  LogsInv'
<1>1. mode = "main" /\ end = "no"
  BY DEF SaveContainerLogs, At
<1>2. CASE Goto(at + 1) /\ UNCHANGED logs
  BY <1>1, <1>2, LogsLeftInv DEF LogsLeft, Saving, Goto, GotoWith
<1>3. CASE /\ mode' = "collect" /\ round' = 1
           /\ docker' \in [Range(Containers) -> {"running", "stopped", "gone"}]
           /\ steady' = {c \in Range(Containers) : docker'[c] = "running"}
           /\ files' = files
  <2>1. LogsTyped'
    BY <1>3 DEF LogsInv, LogsTyped
  <2>2. \A c \in steady' : docker'[c] = "running"
    BY <1>3
  <2>3. round' \in 1 .. Len(Containers) + 1 /\ 1 .. round' - 1 = {}
    BY <1>3, NamesAre
  <2> QED BY <1>3, <2>1, <2>2, <2>3 DEF LogsInv, Collected, Saving
<1> QED BY <1>2, <1>3 DEF SaveContainerLogs

\* Past the current name: it is dealt with, and so are those before it.
LEMMA NextName ==
  ASSUME LogsInv, Saving, round <= Len(Containers), mode' = "collect", round' = round + 1,
         docker' = docker, steady' \subseteq steady,
         files' \in [Range(Containers) -> {"none", "no_logs", "logs"}],
         \A c \in Range(Containers) : c # Name => files'[c] = files[c],
         Name \in steady' => files'[Name] = "logs"
  PROVE  LogsInv'
<1>1. /\ LogsTyped /\ round \in 1 .. Len(Containers) /\ Len(Containers) \in Nat
      /\ \A c \in steady : docker[c] = "running"
      /\ \A i \in 1 .. round - 1 : Containers[i] \in steady =>
           files[Containers[i]] = "logs" \/ Containers[i] = Name
  BY NamesAre DEF LogsInv, Collected
<1>2. LogsTyped'
  BY <1>1 DEF LogsTyped
<1>3. ASSUME NEW i \in 1 .. round, Containers[i] \in steady' PROVE files'[Containers[i]] = "logs"
  <2>1. CASE Containers[i] = Name
    BY <1>3, <2>1
  <2>2. CASE Containers[i] # Name
    <3>1. i \in 1 .. round - 1
      BY <1>1, <2>2 DEF Name
    <3>2. Containers[i] \in Range(Containers)
      BY <1>1, NamesAre
    <3> QED BY <1>1, <1>3, <2>2, <3>1, <3>2
  <2> QED BY <2>1, <2>2
<1>4. round' \in 1 .. Len(Containers) + 1 /\ 1 .. round' - 1 = 1 .. round
  BY <1>1
<1> QED BY <1>1, <1>2, <1>3, <1>4 DEF LogsInv, Collected, Saving

LEMMA PsLogs ==
  ASSUME LogsInv, DockerPs
  PROVE  LogsInv'
<1>1. /\ mode = "collect" /\ end = "no" /\ Saving /\ docker' = docker
      /\ round \in 1 .. Len(Containers) /\ Len(Containers) \in Nat /\ Name \in Range(Containers)
      /\ LogsTyped
  BY NamesAre DEF DockerPs, LogsInv, Collected, Saving, Name
<1>2. PICK ok \in BOOLEAN :
        /\ IF ok /\ docker[Name] = "running"
             THEN mode' = "fetch" /\ round' = round /\ files' = [files EXCEPT ![Name] = "no_logs"]
             ELSE mode' = "collect" /\ round' = round + 1 /\ files' = files
        /\ steady' = IF ok THEN steady ELSE steady \ {Name}
  BY DEF DockerPs, AfterMissing
<1>3. CASE ok /\ docker[Name] = "running"
  <2>1. /\ mode' = "fetch" /\ round' = round /\ files' = [files EXCEPT ![Name] = "no_logs"]
        /\ steady' = steady /\ Name' = Name
    BY <1>2, <1>3 DEF Name
  <2>2. LogsTyped'
    BY <1>1, <2>1 DEF LogsTyped
  <2>3. ASSUME NEW i \in 1 .. round - 1, Containers[i] \in steady, Containers[i] # Name
        PROVE  files'[Containers[i]] = "logs"
    <3>1. Containers[i] \in Range(Containers)
      BY <1>1, NamesAre
    <3>2. files[Containers[i]] = "logs"
      BY <1>1, <2>3 DEF LogsInv, Collected
    <3> QED BY <1>1, <2>1, <2>3, <3>1, <3>2 DEF LogsTyped
  <2> QED BY <1>1, <2>1, <2>2, <2>3 DEF LogsInv, Collected, Saving
<1>4. CASE ~(ok /\ docker[Name] = "running")
  <2>1. mode' = "collect" /\ round' = round + 1 /\ files' = files /\ steady' \subseteq steady
    BY <1>2, <1>4
  <2>2. Name \notin steady'
    BY <1>2, <1>4 DEF LogsInv, Collected
  <2> QED BY <1>1, <2>1, <2>2, NextName DEF LogsTyped
<1> QED BY <1>3, <1>4

LEMMA FetchLogs ==
  ASSUME LogsInv, DockerLogs
  PROVE  LogsInv'
<1>1. /\ mode = "fetch" /\ mode' = "collect" /\ Saving /\ docker' = docker /\ round' = round + 1
      /\ round \in 1 .. Len(Containers) /\ Name \in Range(Containers) /\ LogsTyped
  BY NamesAre DEF DockerLogs, LogsInv, Collected, Saving, Name
<1>2. PICK ok \in BOOLEAN :
        /\ files' = IF ok /\ docker[Name] # "gone" THEN [files EXCEPT ![Name] = "logs"] ELSE files
        /\ steady' = IF ok THEN steady ELSE steady \ {Name}
  BY DEF DockerLogs
<1>3. /\ files' \in [Range(Containers) -> {"none", "no_logs", "logs"}]
      /\ \A c \in Range(Containers) : c # Name => files'[c] = files[c]
      /\ steady' \subseteq steady
  BY <1>1, <1>2 DEF LogsTyped
<1>4. Name \in steady' => files'[Name] = "logs"
  <2>1. Name \in steady' => ok /\ docker[Name] = "running"
    BY <1>2 DEF LogsInv, Collected
  <2> QED BY <1>1, <1>2, <2>1 DEF LogsTyped
<1>5. round <= Len(Containers)
  BY <1>1, NamesAre
<1> QED BY <1>1, <1>3, <1>4, <1>5, NextName

LEMMA DoneLogs ==
  ASSUME LogsInv, CollectDone
  PROVE  LogsInv'
<1>1. /\ mode = "collect" /\ mode' = "main" /\ round > Len(Containers) /\ LogsTyped
      /\ docker' = docker /\ steady' = steady /\ files' = files
  BY DEF CollectDone, Goto, GotoWith, LogsInv, logs
<1>2. ASSUME NEW c \in steady PROVE files[c] = "logs"
  <2>1. PICK i \in 1 .. Len(Containers) : Containers[i] = c
    BY <1>1, <1>2, NamesAre DEF LogsTyped
  <2>2. i \in 1 .. round - 1
    BY <1>1, NamesAre DEF LogsInv, Collected, Saving
  <2> QED BY <1>1, <1>2, <2>1, <2>2 DEF LogsInv, Collected, Saving
<1>3. LogsTyped'
  BY <1>1 DEF LogsTyped
<1> QED BY <1>1, <1>2, <1>3 DEF LogsInv, Collected, Saving

LEMMA ChangesLogs ==
  ASSUME LogsInv, ContainerChanges
  PROVE  LogsInv'
<1>1. /\ UNCHANGED <<mode, round, files>> /\ Saving /\ Saving' /\ Name' = Name /\ LogsTyped
  BY DEF ContainerChanges, control, loop, Saving, Name, LogsInv
<1>2. PICK c \in Range(Containers), now \in {"running", "stopped", "gone"} :
        docker' = [docker EXCEPT ![c] = now] /\ steady' = steady \ {c}
  BY ZenonT(30) DEF ContainerChanges
<1>3. LogsTyped'
  BY <1>1, <1>2 DEF LogsTyped
<1>4. \A d \in steady' : docker'[d] = "running"
  BY <1>1, <1>2 DEF LogsInv, LogsTyped, Collected
<1> QED BY <1>1, <1>2, <1>3, <1>4 DEF LogsInv, Collected

LEMMA NextLogs == IInv /\ LogsInv /\ [Next]_vars => LogsInv'
<1> SUFFICES ASSUME IInv, LogsInv, [Next]_vars PROVE LogsInv'
  OBVIOUS
<1>1. CASE UNCHANGED vars
  <2>1. LogsLeft
    BY <1>1 DEF vars, control, loop, LogsLeft
  <2> QED BY <2>1, LogsLeftInv
<1>2. CASE MainThread
  BY <1>2, OthersLeaveLogs, LogsLeftInv, SaveLogs, PsLogs, FetchLogs, DoneLogs DEF MainThread
<1>3. CASE LongContext \/ Interrupt \/ \E r \in Requests : Finish(r)
  BY <1>3, OthersLeaveLogs, LogsLeftInv
<1> QED BY <1>1, <1>2, <1>3, ChangesLogs DEF Next, Ended

LEMMA InitLogs == Init => LogsInv
BY DEF Init, LogsInv, LogsTyped, Collected, Saving

LEMMA Logging == Spec => []LogsInv
BY Inductive, InitLogs, NextLogs, PTL DEF Spec

\* For any list of containers that start, stop and vanish while they are looked at,
\* and whichever commands fail: a container that ran throughout has its logs saved.
THEOREM RunningAreSaved == Spec => []RunningContainersSaved
<1>1. IInv /\ LogsInv => RunningContainersSaved
  BY DEF IInv, Control, LogsInv, Collected, Saving, RunningContainersSaved
<1> QED BY <1>1, Inductive, Logging, PTL

-----------------------------------------------------------------------------
(* benchmark_long_context.                                                 *)

\* The contexts follow each other: the cold request of each, the warm ones, the row.
LEMMA LongOrder ==
  ASSUME script = "long", at \in 1 .. Len(Main[script])
  PROVE  /\ Len(Main[script]) = 9 /\ Label \in 1 .. 3
         /\ Step = "cold_ctx" <=> at \in {1, 4, 7}
         /\ Step = "warm_ctx" <=> at \in {2, 5, 8}
         /\ Step = "tokens" <=> at \in {3, 6, 9}
<1>1. Main[script] = LongContextLoop
  BY DEF Main
<1>2. Len(Main[script]) = 9
  BY <1>1 DEF LongContextLoop
<1>3. Step = LongContextLoop[at]
  BY <1>1, <1>2 DEF Step
<1>4. at \in {1, 2, 3, 4, 5, 6, 7, 8, 9}
  BY <1>2
<1>5. Label \in 1 .. 3
  BY <1>4 DEF Label
<1> QED BY <1>2, <1>3, <1>4, <1>5 DEF LongContextLoop

\* The steps that report neither sizes, contexts nor loads.
LEMMA OthersReport ==
  ASSUME \/ PrintHwInfo \/ CheckGateway \/ CheckAllNodes \/ CheckGpuMemory \/ CheckAllToAll
         \/ BenchmarkTtft \/ TtftDone \/ Submit \/ Unwind
         \/ Input \/ StreamChat \/ SaveContainerLogs \/ DockerPs \/ DockerLogs \/ CollectDone
         \/ Interrupt \/ ContainerChanges
         \/ \E r \in Requests : Count(r) \/ Finish(r)
  PROVE  found' = found \/ found'.kind = "nothing"
<1>1. Nothing.kind = "nothing"
  BY DEF Nothing
<1>2. CASE \/ PrintHwInfo \/ CheckGateway \/ CheckAllNodes \/ CheckGpuMemory \/ CheckAllToAll
  BY <1>1, <1>2
     DEF PrintHwInfo, CheckGateway, CheckAllNodes, CheckGpuMemory, CheckAllToAll, PrintAndGoOn
<1>3. CASE BenchmarkTtft \/ TtftDone \/ Submit \/ Unwind \/ Input \/ DockerPs
  BY <1>1, <1>3 DEF BenchmarkTtft, TtftDone, Submit, Unwind, Input, DockerPs
<1>4. CASE StreamChat \/ SaveContainerLogs \/ Interrupt
  BY <1>1, <1>4, ZenonT(30) DEF StreamChat, SaveContainerLogs, Interrupt
<1>5. CASE DockerLogs \/ CollectDone \/ ContainerChanges \/ \E r \in Requests : Count(r) \/ Finish(r)
  BY <1>5 DEF DockerLogs, CollectDone, ContainerChanges, Count, Finish
<1> QED BY <1>2, <1>3, <1>4, <1>5

\* Only benchmark_long_context asks about contexts, and Ctrl-C ends it where it is.
LEMMA OthersLeaveContexts ==
  ASSUME IInv,
         \/ MainThread \/ Interrupt \/ ContainerChanges \/ \E r \in Requests : Finish(r)
  PROVE  /\ first' = first /\ script' = script
         /\ script = "long" => at' = at /\ (end' = "no" => end = "no" /\ times' = times)
<1>0. Typed /\ Control
  BY DEF IInv
<1>1. end = "no" /\ script = "long" => Step \in ContextSteps
  BY <1>0, StepIs DEF Laid
<1>2. CASE Checks
  <2>1. first' = first /\ script' = script
    BY <1>2, ChecksArePlain, ZenonT(30)
       DEF Plain, Checks, PrintHwInfo, CheckGateway, CheckAllNodes, CheckTpActive,
      CheckEpActive, CheckGpuMemory, CheckAllToAll, PrintAndGoOn, quiet
  <2>2. end = "no" /\ Step \notin ContextSteps
    BY <1>2 DEF Checks, PrintHwInfo, CheckGateway, CheckAllNodes, CheckTpActive, CheckEpActive,
      CheckGpuMemory, CheckAllToAll, PrintAndGoOn, At, ContextSteps
  <2> QED BY <1>1, <2>1, <2>2
<1>3. CASE BenchmarkTtft \/ TtftDone \/ Input \/ StreamChat
  <2>1. first' = first /\ script' = script
    BY <1>3, BenchmarksArePlain DEF Plain, BenchmarkTtft, TtftDone, Input, StreamChat, quiet
  <2>2. end = "no" /\ Step \notin ContextSteps
    BY <1>3 DEF BenchmarkTtft, TtftDone, Input, StreamChat, At, ContextSteps
  <2> QED BY <1>1, <2>1, <2>2
<1>4. CASE SaveContainerLogs \/ DockerPs \/ DockerLogs \/ CollectDone \/ ContainerChanges
  <2>1. first' = first /\ script' = script
    BY <1>0, <1>4, SavingIsPlain, ZenonT(30)
       DEF Plain, SaveContainerLogs, DockerPs, DockerLogs, CollectDone,
      ContainerChanges
  <2>2. end = "no" /\ Step \notin ContextSteps
    BY <1>0, <1>4 DEF SaveContainerLogs, DockerPs, DockerLogs, CollectDone, ContainerChanges, At,
      Control, Saving, ContextSteps
  <2> QED BY <1>1, <2>1, <2>2
<1>5. CASE Submit \/ LeavePool \/ \E r \in Requests : Count(r)
  <2>1. first' = first /\ script' = script
    BY <1>5 DEF Submit, LeavePool, Count, Goto, GotoWith
  <2>2. end = "no" /\ Step \notin ContextSteps
    BY <1>0, <1>5 DEF Submit, LeavePool, Count, Control, InPool, PoolSteps, ContextSteps
  <2> QED BY <1>1, <2>1, <2>2
<1>6. CASE Unwind
  <2>1. first' = first /\ script' = script
    BY <1>0, <1>6, RaiseIs DEF Unwind, Raised
  <2>2. end = "no" /\ Step \notin ContextSteps
    BY <1>0, <1>6 DEF Unwind, Control, InPool, PoolSteps, ContextSteps
  <2> QED BY <1>1, <2>1, <2>2
<1>7. CASE Interrupt
  <2>1. first' = first /\ end = "no"
    BY <1>7 DEF Interrupt
  <2>2. script' = script
    BY <1>0, <1>7, RaiseIs DEF Interrupt, Raised, Goto, GotoWith
  <2>3. ASSUME script = "long" PROVE at' = at /\ end' # "no"
    <3>1. ~At("stream") /\ ~Guarded
      BY <1>1, <2>1, <2>3 DEF At, ContextSteps, Guarded
    <3>2. mode # "pool"
      BY <1>0, <1>1, <2>1, <2>3 DEF Control, InPool, PoolSteps, ContextSteps
    <3> QED BY <1>7, <3>1, <3>2 DEF Interrupt, Raise, Die
  <2> QED BY <2>1, <2>2, <2>3
<1>8. CASE \E r \in Requests : Finish(r)
  BY <1>8 DEF Finish, control, loop
<1> QED BY <1>2, <1>3, <1>4, <1>5, <1>6, <1>7, <1>8 DEF MainThread

\* A step that asks about no context keeps what is known of the contexts.
LEMMA StayContexts ==
  ASSUME IInv, IInv', Contexts,
         first' = first, script' = script,
         script = "long" => at' = at /\ (end' = "no" => end = "no" /\ times' = times)
  PROVE  Contexts'
<1>1. CASE script = "long"
  <2>1. at' = at /\ Label' = Label /\ Step' = Step
    BY <1>1 DEF Label, Step
  <2>2. end' = "no" => end = "no" /\ times' = times
    BY <1>1
  <2> QED BY <1>1, <2>1, <2>2 DEF Contexts
<1>2. CASE script # "long"
  <2>1. Typed' /\ script' # "long"
    BY <1>2 DEF IInv
  <2>2. Laid(script', Main[script'])
    BY <2>1, Order DEF Typed
  <2>3. Step' \notin {"warm_ctx", "tokens"}
    <3>1. CASE at' <= Len(Main[script'])
      <4>1. Step' = Main[script'][at'] /\ at' \in 1 .. Len(Main[script'])
        BY <2>1, <2>2, <3>1 DEF Step, Typed, Laid
      <4> QED BY <2>1, <2>2, <4>1 DEF Laid, ContextSteps
    <3>2. CASE ~(at' <= Len(Main[script']))
      BY <3>2 DEF Step
    <3> QED BY <3>1, <3>2
  <2> QED BY <2>1, <2>3 DEF Contexts
<1> QED BY <1>1, <1>2

LEMMA OutcomeIs == \A reply : chat_stream_ttft(reply) \in {"none", "zero", "ms"}
BY DEF chat_stream_ttft

\* A request about the current context, and what is known of the contexts after it.
LEMMA AskIs ==
  ASSUME Contexts, Label \in 1 .. 3, NEW reply, Ask(reply)
  PROVE  /\ first' \in [(1 .. 3) \X {"earlier", "now"} -> {"unseen", "none", "zero", "ms"}]
         /\ \A l \in 1 .. 3 : l # Label => first'[<<l, "now">>] = first[<<l, "now">>]
         /\ first'[<<Label, "now">>] = IF first[<<Label, "now">>] = "unseen"
                                         THEN chat_stream_ttft(reply)
                                         ELSE first[<<Label, "now">>]
<1> DEFINE D == (1 .. 3) \X {"earlier", "now"}
           V == {"unseen", "none", "zero", "ms"}
           x == <<Label, "now">>
           v == IF first[x] = "unseen" THEN chat_stream_ttft(reply) ELSE first[x]
<1>1. first \in [D -> V] /\ x \in D /\ first' = [first EXCEPT ![x] = v]
  BY DEF Contexts, Ask, ctx_unique
<1>2. v \in V
  BY <1>1, OutcomeIs
<1>3. \A l \in 1 .. 3 : <<l, "now">> \in D /\ (l # Label => <<l, "now">> # x)
  OBVIOUS
<1> HIDE DEF D, V, x, v
<1>4. first' \in [D -> V] /\ first'[x] = v /\ \A y \in D : y # x => first'[y] = first[y]
  BY <1>1, <1>2
<1>5. \A l \in 1 .. 3 : l # Label => first'[<<l, "now">>] = first[<<l, "now">>]
  BY <1>3, <1>4
<1> QED BY <1>4, <1>5 DEF D, V, x, v

\* A step of benchmark_long_context reports as promised, and goes on to the warm
\* requests only of a context whose first request returned.
LEMMA LongContexts ==
  ASSUME IInv, Contexts, ColdThenWarm, LongContext
  PROVE  Contexts' /\ ColdThenWarm'
<1>1. /\ end = "no" /\ Step \in ContextSteps
      /\ Typed /\ Control
  BY ZenonT(30) DEF LongContext, ColdContext, WarmContext, TokenCounts, At, IInv, ContextSteps
<1>2. script = "long" /\ at \in 1 .. Len(Main[script])
  BY <1>1, StepIs DEF Laid
<1>3. /\ Len(Main[script]) = 9
      /\ Step = "cold_ctx" <=> at \in {1, 4, 7}
      /\ Step = "warm_ctx" <=> at \in {2, 5, 8}
      /\ Step = "tokens" <=> at \in {3, 6, 9}
  BY <1>2, LongOrder
<1>4. Label \in 1 .. 3
  BY <1>2, LongOrder
<1>5. ASSUME script' = "long", at' \in 1 .. 10
      PROVE  /\ Step' = "cold_ctx" => at' \in {1, 4, 7}
             /\ Step' = "warm_ctx" => at' \in {2, 5, 8}
             /\ Step' = "tokens" => at' \in {3, 6, 9}
  <2>1. Main[script'] = LongContextLoop /\ Len(Main[script']) = 9
    BY <1>2, <1>3, <1>5 DEF Main
  <2>2. CASE at' \in 1 .. 9
    <3>1. Step' = LongContextLoop[at']
      BY <2>1, <2>2 DEF Step
    <3>2. at' \in {1, 2, 3, 4, 5, 6, 7, 8, 9}
      BY <2>2
    <3> QED BY <3>1, <3>2 DEF LongContextLoop
  <2>3. CASE at' = 10
    BY <2>1, <2>3 DEF Step
  <2> QED BY <1>5, <2>2, <2>3
<1>6. CASE ColdContext
  <2>1. at \in {1, 4, 7} /\ Step = "cold_ctx"
    BY <1>3, <1>6 DEF ColdContext, At
  <2>2. PICK reply \in Replies :
          /\ Report("cold", chat_stream_ttft(reply), first[ctx_unique])
          /\ Ask(reply)
          /\ IF chat_stream_ttft(reply) = "none"
               THEN Goto(at + 3) ELSE GotoWith(at + 1, <<chat_stream_ttft(reply)>>)
    BY <1>6 DEF ColdContext
  <2>3. first[<<Label, "now">>] = "unseen"
    BY <1>2, <1>4, <2>1 DEF Contexts
  <2>4. ColdThenWarm'
    BY <2>2, <2>3, ZenonT(30) DEF Report, ColdThenWarm, ctx_unique
  <2>5. /\ first' \in [(1 .. 3) \X {"earlier", "now"} -> {"unseen", "none", "zero", "ms"}]
        /\ \A l \in 1 .. 3 : first'[<<l, "now">>] # "unseen" => l <= Label
        /\ first'[<<Label, "now">>] = chat_stream_ttft(reply)
    <3>1. \A l \in 1 .. 3 : first[<<l, "now">>] # "unseen" => l <= Label
      BY <1>2 DEF Contexts
    <3> QED BY <1>4, <2>2, <2>3, <3>1, AskIs
  <2>6. CASE chat_stream_ttft(reply) = "none"
    <3>1. script' = "long" /\ at' = at + 3 /\ at' \in {4, 7, 10}
      BY <1>2, <2>1, <2>2, <2>6 DEF Goto, GotoWith
    <3>2. Label' > Label /\ Label' \in Int
      BY <2>1, <3>1 DEF Label
    <3>3. Step' \notin {"warm_ctx", "tokens"}
      BY <1>5, <3>1
    <3> QED BY <1>4, <2>4, <2>5, <3>1, <3>2, <3>3 DEF Contexts
  <2>7. CASE chat_stream_ttft(reply) # "none"
    <3>1. /\ script' = "long" /\ at' = at + 1 /\ at' \in {2, 5, 8}
          /\ times' = <<chat_stream_ttft(reply)>>
      BY <1>2, <2>1, <2>2, <2>7 DEF GotoWith
    <3>2. Label' = Label
      BY <2>1, <3>1 DEF Label
    <3>3. Step' # "cold_ctx"
      BY <1>5, <3>1
    <3>4. chat_stream_ttft(reply) \in {"ms", "zero"}
      BY <2>7, OutcomeIs
    <3>5. times' \in Seq({"ms", "zero"}) /\ times' # <<>> /\ times'[1] = chat_stream_ttft(reply)
      BY <3>1, <3>4
    <3> QED BY <1>4, <2>4, <2>5, <3>1, <3>2, <3>3, <3>5 DEF Contexts
  <2> QED BY <2>6, <2>7
<1>7. CASE WarmContext
  <2>1. at \in {2, 5, 8} /\ Step = "warm_ctx"
    BY <1>3, <1>7 DEF WarmContext, At
  <2>2. /\ times \in Seq({"ms", "zero"}) /\ times # <<>>
        /\ first[<<Label, "now">>] = times[1]
    BY <1>1, <2>1 DEF Contexts
  <2>3. times[1] \in {"ms", "zero"}
    BY <2>2
  <2>4. PICK reply \in Replies :
          LET kept == IF chat_stream_ttft(reply) = "ms" THEN Append(times, "ms") ELSE times
          IN  /\ Report("warm", chat_stream_ttft(reply), first[ctx_unique])
              /\ Ask(reply)
              /\ times' = kept
    BY <1>7 DEF WarmContext, GotoWith
  <2>5. ColdThenWarm'
    BY <2>2, <2>3, <2>4 DEF Report, ColdThenWarm, ctx_unique
  <2>6. /\ first' \in [(1 .. 3) \X {"earlier", "now"} -> {"unseen", "none", "zero", "ms"}]
        /\ \A l \in 1 .. 3 : first'[<<l, "now">>] = first[<<l, "now">>]
    BY <1>4, <2>2, <2>3, <2>4, AskIs
  <2>7. times' \in Seq({"ms", "zero"}) /\ times' # <<>> /\ times'[1] = times[1]
    <3>1. CASE times' = Append(times, "ms")
      BY <2>2, <3>1
    <3> QED BY <2>2, <2>4, <3>1
  <2>8. script' = "long" /\ (at' = at \/ at' = at + 1)
    BY <1>2, <1>7 DEF WarmContext, GotoWith, control
  <2>9. Label' = Label /\ at' \in {2, 3, 5, 6, 8, 9}
    BY <2>1, <2>8 DEF Label
  <2>10. Step' # "cold_ctx"
    BY <1>5, <2>8, <2>9
  <2>11. \A l \in 1 .. 3 : first[<<l, "now">>] # "unseen" => l <= Label
    BY <1>2 DEF Contexts
  <2> QED BY <1>4, <2>2, <2>5, <2>6, <2>7, <2>8, <2>9, <2>10, <2>11 DEF Contexts
<1>8. CASE TokenCounts
  <2>1. at \in {3, 6, 9} /\ Step = "tokens"
    BY <1>3, <1>8 DEF TokenCounts, At
  <2>2. first[<<Label, "now">>] = times[1]
    BY <1>1, <2>1 DEF Contexts
  <2>3. ColdThenWarm'
    <3>1. /\ found'.kind = "row" /\ found'.basis = first[<<Label, "now">>]
          /\ found'.claim.speedup = (times[1] = "ms" /\ Len(times) > 1)
      BY <1>8 DEF TokenCounts, Report, ctx_unique
    <3> QED BY <2>2, <3>1, ZenonT(30) DEF ColdThenWarm
  <2>4. first' = first /\ script' = "long" /\ at' = at + 1 /\ at' \in {4, 7, 10}
    BY <1>2, <1>8, <2>1 DEF TokenCounts, Goto, GotoWith, quiet
  <2>5. Label' > Label /\ Label' \in Int
    BY <2>1, <2>4 DEF Label
  <2>6. Step' \notin {"warm_ctx", "tokens"}
    BY <1>5, <2>4
  <2> QED BY <1>2, <1>4, <2>3, <2>4, <2>5, <2>6 DEF Contexts
<1> QED BY <1>6, <1>7, <1>8 DEF LongContext

LEMMA InitContexts == Init => Contexts
<1> SUFFICES ASSUME Init PROVE Contexts
  OBVIOUS
<1> DEFINE D == (1 .. 3) \X {"earlier", "now"}
<1>1. /\ first \in [D -> {"unseen", "none", "zero", "ms"}]
      /\ \A l \in 1 .. 3 : first[<<l, "now">>] = "unseen"
  <2>1. first = [c \in D |-> IF c[2] = "earlier" THEN "ms" ELSE "unseen"]
    BY DEF Init
  <2>2. \A l \in 1 .. 3 : <<l, "now">> \in D /\ <<l, "now">>[2] = "now"
    OBVIOUS
  <2> HIDE DEF D
  <2> QED BY <2>1, <2>2
<1>2. Laid(script, Main[script]) /\ at = 1
  BY Order DEF Init
<1>3. Step = Main[script][1] /\ at \in 1 .. Len(Main[script])
  BY <1>2 DEF Step, Laid
<1>4. Step \notin {"warm_ctx", "tokens"}
  <2>1. CASE script = "long"
    BY <1>2, <1>3, <2>1, LongOrder
  <2>2. CASE script # "long"
    BY <1>2, <1>3, <2>2 DEF Laid, ContextSteps
  <2> QED BY <2>1, <2>2
<1> QED BY <1>1, <1>4 DEF Contexts

-----------------------------------------------------------------------------
(* The parallel sizes.                                                     *)

LEMMA LeastIn ==
  ASSUME NEW S, S \subseteq Nat, S # {}
  PROVE  /\ \E x \in S : \A y \in S : x <= y
         /\ Min(S) \in S
<1>1. PICK x \in S : \A y \in S : ~(<<y, x>> \in OpToRel(<, Nat))
  BY NatLessThanWellFounded, WFMin, ZenonT(30)
<1>2. ASSUME NEW y \in S PROVE x <= y
  <2>1. x \in Nat /\ y \in Nat
    OBVIOUS
  <2>2. ~(y < x)
    BY <1>1, <2>1, ZenonT(30) DEF OpToRel
  <2> QED BY <2>1, <2>2
<1> QED BY <1>2, ZenonT(30) DEF Min

\* The first log that states a size, if there is one.
LEMMA FirstLog ==
  ASSUME NEW list \in LogLists, NEW S, S \subseteq DOMAIN list, S # {}
  PROVE  Min(S) \in S /\ Min(S) \in 1 .. LogFiles
<1>1. DOMAIN list = 1 .. LogFiles
  BY DEF LogLists
<1>2. S \subseteq Nat
  BY <1>1, EvidenceAssumption
<1> QED BY <1>1, <1>2, LeastIn

LEMMA TpVerdict ==
  ASSUME NEW api, NEW list \in LogLists, NEW info
  PROVE  LET sizes == ({api.tp, info} \cup {list[i].tp : i \in 1 .. LogFiles}) \ {"none"}
             size  == check_tp_active(api, list, info)
         IN  IF sizes = {} THEN size = "none" ELSE size \in sizes
<1> DEFINE stating == {i \in DOMAIN list : list[i].tp # "none"}
           sizes == ({api.tp, info} \cup {list[i].tp : i \in 1 .. LogFiles}) \ {"none"}
           size == check_tp_active(api, list, info)
<1>1. stating # {} => Min(stating) \in stating /\ Min(stating) \in 1 .. LogFiles
  BY FirstLog
<1>2. size = CASE api.tp # "none" -> api.tp
               [] api.tp = "none" /\ stating # {} -> list[Min(stating)].tp
               [] OTHER -> info
  BY DEF check_tp_active
<1>3. stating # {} => list[Min(stating)].tp # "none"
  BY <1>1
<1>4. stating = {} => \A i \in 1 .. LogFiles : list[i].tp = "none"
  BY DEF LogLists
<1> HIDE DEF stating, size
<1>5. CASE api.tp # "none"
  BY <1>2, <1>5 DEF size
<1>6. CASE api.tp = "none" /\ stating # {}
  BY <1>1, <1>2, <1>3, <1>6 DEF size
<1>7. CASE api.tp = "none" /\ stating = {}
  BY <1>2, <1>4, <1>7 DEF size
<1> QED BY <1>5, <1>6, <1>7

LEMMA EpVerdict ==
  ASSUME NEW api \in ServerArgs, NEW list \in LogLists
  PROVE  LET flag  == CASE api.ep = "true"  -> {api.tp}
                        [] api.ep = "false" -> {"one"}
                        [] OTHER            -> {api.ep} \ {"text"}
             sizes == (flag \cup {list[i].ep : i \in 1 .. LogFiles}) \ {"none"}
             size  == check_ep_active(api, list)
         IN  IF sizes = {} THEN size = "none" ELSE size \in sizes
<1> DEFINE ep0 == CASE api.ep = "true"  -> api.tp
                    [] api.ep = "false" -> "one"
                    [] api.ep = "text"  -> "none"
                    [] OTHER            -> api.ep
           stating == {i \in DOMAIN list : list[i].ep # "none"}
           flag == CASE api.ep = "true"  -> {api.tp}
                     [] api.ep = "false" -> {"one"}
                     [] OTHER            -> {api.ep} \ {"text"}
           sizes == (flag \cup {list[i].ep : i \in 1 .. LogFiles}) \ {"none"}
           size == check_ep_active(api, list)
           logged == {list[i].ep : i \in 1 .. LogFiles}
<1> SUFFICES IF sizes = {} THEN size = "none" ELSE size \in sizes
  OBVIOUS
<1>1. stating # {} => Min(stating) \in stating /\ Min(stating) \in 1 .. LogFiles
  BY FirstLog
<1>2. size = IF ep0 # "none" \/ stating = {} THEN ep0 ELSE list[Min(stating)].ep
  BY DEF check_ep_active
<1>3. stating # {} => list[Min(stating)].ep # "none"
  BY <1>1
<1>4. stating = {} => \A i \in 1 .. LogFiles : list[i].ep = "none"
  BY DEF LogLists
<1>5. sizes = ({ep0} \cup logged) \ {"none"}
  <2>1. flag \ {"none"} = {ep0} \ {"none"}
    BY DEF ServerArgs
  <2> HIDE DEF flag, ep0, logged
  <2> QED BY <2>1 DEF logged
<1> HIDE DEF ep0, stating, flag, size, sizes
<1>6. CASE ep0 # "none"
  BY <1>2, <1>5, <1>6
<1>7. CASE ep0 = "none" /\ stating # {}
  BY <1>1, <1>2, <1>3, <1>5, <1>7
<1>8. CASE ep0 = "none" /\ stating = {}
  BY <1>2, <1>4, <1>5, <1>8
<1> QED BY <1>6, <1>7, <1>8

LEMMA TpReported ==
  ASSUME CheckTpActive
  PROVE  VerdictIsStated' /\ ColdThenWarm'
<1>1. PICK tp \in {"none", "one", "many", "text"}, list \in LogLists,
           info \in {"none", "one", "many", "text"} :
        LET api == [tp |-> tp, ep |-> "none"]
        IN  Report("tp", check_tp_active(api, list, info), [api |-> api, list |-> list, info |-> info])
  BY DEF CheckTpActive
<1> DEFINE api == [tp |-> tp, ep |-> "none"]
           size == check_tp_active(api, list, info)
           basis == [api |-> api, list |-> list, info |-> info]
           sizes == ({api.tp, info} \cup {list[i].tp : i \in 1 .. LogFiles}) \ {"none"}
<1>2. found' = [kind |-> "tp", claim |-> size, basis |-> basis]
  BY <1>1 DEF Report
<1>3. IF sizes = {} THEN size = "none" ELSE size \in sizes
  BY TpVerdict, ZenonT(30)
<1>4. Stated("tp", basis) = sizes
  BY DEF Stated
<1> HIDE DEF size, api, basis, sizes
<1>5. found'.kind = "tp" /\ found'.claim = size /\ found'.basis = basis
  BY <1>2
<1> QED BY <1>3, <1>4, <1>5 DEF VerdictIsStated, ColdThenWarm

LEMMA EpReported ==
  ASSUME CheckEpActive
  PROVE  VerdictIsStated' /\ ColdThenWarm'
<1>1. PICK api \in ServerArgs, list \in LogLists :
        Report("ep", check_ep_active(api, list), [api |-> api, list |-> list, info |-> "none"])
  BY DEF CheckEpActive
<1> DEFINE size == check_ep_active(api, list)
           basis == [api |-> api, list |-> list, info |-> "none"]
           flag == CASE api.ep = "true"  -> {api.tp}
                     [] api.ep = "false" -> {"one"}
                     [] OTHER            -> {api.ep} \ {"text"}
           sizes == (flag \cup {list[i].ep : i \in 1 .. LogFiles}) \ {"none"}
<1>2. found' = [kind |-> "ep", claim |-> size, basis |-> basis]
  BY <1>1 DEF Report
<1>3. IF sizes = {} THEN size = "none" ELSE size \in sizes
  BY EpVerdict, ZenonT(30)
<1>4. Stated("ep", basis) = sizes
  BY DEF Stated
<1> HIDE DEF size, basis, flag, sizes
<1>5. found'.kind = "ep" /\ found'.claim = size /\ found'.basis = basis
  BY <1>2
<1> QED BY <1>3, <1>4, <1>5 DEF VerdictIsStated, ColdThenWarm

LEMMA LongReport == LongContext => found'.kind \in {"cold", "warm", "row"}
<1>1. ColdContext => found'.kind = "cold"
  BY DEF ColdContext, Report
<1>2. WarmContext => found'.kind = "warm"
  BY DEF WarmContext, Report
<1>3. TokenCounts => found'.kind = "row"
  BY DEF TokenCounts, Report
<1> QED BY <1>1, <1>2, <1>3 DEF LongContext

LEMMA NextFound ==
  ASSUME IInv, IInv', Contexts, ColdThenWarm, VerdictIsStated, [Next]_vars
  PROVE  Contexts' /\ ColdThenWarm' /\ VerdictIsStated'
<1>1. ASSUME found' = found \/ found'.kind = "nothing"
      PROVE  ColdThenWarm' /\ VerdictIsStated'
  BY <1>1 DEF ColdThenWarm, VerdictIsStated
<1>2. CASE LongContext
  <2>1. VerdictIsStated'
    BY <1>2, LongReport, ZenonT(30) DEF VerdictIsStated
  <2> QED BY <1>2, <2>1, LongContexts
<1>3. CASE MainThread \/ Interrupt \/ ContainerChanges \/ \E r \in Requests : Finish(r)
  <2>1. Contexts'
    BY <1>3, OthersLeaveContexts, StayContexts
  <2>2. CASE CheckTpActive \/ CheckEpActive \/ LeavePool
    <3>1. LeavePool => found'.kind \in {"nothing", "load"}
      BY DEF LeavePool, Report, Nothing
    <3>2. LeavePool => ColdThenWarm' /\ VerdictIsStated'
      BY <3>1 DEF ColdThenWarm, VerdictIsStated
    <3> QED BY <2>1, <2>2, <3>2, TpReported, EpReported
  <2>3. CASE ~(CheckTpActive \/ CheckEpActive \/ LeavePool)
    <3>1. found' = found \/ found'.kind = "nothing"
      BY <1>3, <2>3, OthersReport DEF MainThread, Checks
    <3> QED BY <1>1, <2>1, <3>1
  <2> QED BY <2>2, <2>3
<1>4. CASE UNCHANGED vars
  <2>1. UNCHANGED <<script, at, end, times, first, found>>
    BY <1>4 DEF vars, control, loop
  <2> QED BY <1>1, <2>1, StayContexts
<1> QED BY <1>2, <1>3, <1>4 DEF Next, Ended

LEMMA Reporting == Spec => [](Contexts /\ ColdThenWarm /\ VerdictIsStated)
<1>1. Init => Contexts /\ ColdThenWarm /\ VerdictIsStated
  BY InitContexts DEF Init, Nothing, ColdThenWarm, VerdictIsStated
<1>2. IInv /\ IInv' /\ (Contexts /\ ColdThenWarm /\ VerdictIsStated) /\ [Next]_vars
        => (Contexts /\ ColdThenWarm /\ VerdictIsStated)'
  BY NextFound
<1> QED BY <1>1, <1>2, Inductive, PTL DEF Spec

\* check_tp_active and check_ep_active, with any number of launch logs: the verdict is
\* a size some source states, and "not found" only when none does.
THEOREM VerdictHasSource == Spec => []VerdictIsStated
BY Reporting, PTL

\* benchmark_long_context, with any number of warm requests: a cold request is the
\* server's first of its context, the warm ones follow a first request that returned,
\* and a speedup is reported only when that one was answered.
THEOREM ColdComesFirst == Spec => []ColdThenWarm
BY Reporting, PTL

-----------------------------------------------------------------------------
(* Sorting, for the percentiles.                                           *)

\* The orders that sort the first n members of s.
SortsBy(n, s) ==
  {p \in Bijection(1 .. n, 1 .. n) : \A i, j \in 1 .. n : i < j => s[p[i]] <= s[p[j]]}

\* An order of the first n members is one of the first n + 1 with the last inserted
\* before the first member that is not below it.
LEMMA Insertion ==
  ASSUME NEW n \in Nat, NEW s \in [1 .. n + 1 -> Nat], NEW q \in SortsBy(n, s)
  PROVE  SortsBy(n + 1, s) # {}
<1> DEFINE last == n + 1
           Places == {k \in 1 .. last : k = last \/ s[last] <= s[q[k]]}
<1>1. /\ q \in [1 .. n -> 1 .. n]
      /\ \A i, j \in 1 .. n : q[i] = q[j] => i = j
      /\ \A j \in 1 .. n : \E i \in 1 .. n : q[i] = j
      /\ \A i, j \in 1 .. n : i < j => s[q[i]] <= s[q[j]]
  BY ZenonT(30) DEF SortsBy, Bijection, Injection, Surjection, IsInjective
<1>m. \A i, j \in 1 .. n : i < j => s[q[i]] <= s[q[j]]
  BY <1>1, ZenonT(30)
<1>v. /\ \A h \in 1 .. n : q[h] \in 1 .. n /\ q[h] \in 1 .. last /\ q[h] # last
      /\ last \in 1 .. last
  <2>1. ASSUME NEW h \in 1 .. n PROVE q[h] \in 1 .. n
    BY <1>1, ZenonT(30)
  <2>2. \A x \in 1 .. n : x \in 1 .. last /\ x # last
    OBVIOUS
  <2> QED BY <2>1, <2>2
<1>w. s[last] \in Nat /\ \A h \in 1 .. n : s[q[h]] \in Nat
  BY <1>v
<1>2. PICK k \in Places : \A h \in Places : k <= h
  <2>1. last \in Places /\ Places \subseteq Nat
    OBVIOUS
  <2> HIDE DEF Places
  <2> QED BY <2>1, LeastIn, ZenonT(30)
<1>3. k \in 1 .. last /\ (k < last => s[last] <= s[q[k]])
  OBVIOUS
<1>4. \A i \in 1 .. n : i < k => s[q[i]] <= s[last]
  <2> SUFFICES ASSUME NEW i \in 1 .. n, i < k PROVE s[q[i]] <= s[last]
    OBVIOUS
  <2>1. i \notin Places
    BY <1>2, <1>3
  <2>2. ~(s[last] <= s[q[i]])
    BY <2>1
  <2> QED BY <1>w, <2>2
<1> HIDE DEF Places
<1> DEFINE p == [i \in 1 .. last |-> IF i < k THEN q[i] ELSE IF i = k THEN last ELSE q[i - 1]]
<1>5. /\ \A i \in 1 .. last : i < k => p[i] = q[i] /\ i \in 1 .. n
      /\ p[k] = last
      /\ \A i \in 1 .. last : i > k => p[i] = q[i - 1] /\ i - 1 \in 1 .. n
  BY <1>3
<1>6. p \in [1 .. last -> 1 .. last]
  <2>1. DOMAIN p = 1 .. last /\ p = [i \in DOMAIN p |-> p[i]]
    OBVIOUS
  <2> HIDE DEF p
  <2>2. ASSUME NEW i \in 1 .. last PROVE p[i] \in 1 .. last
    <3>1. i < k \/ i = k \/ i > k
      BY <1>3
    <3> QED BY <1>5, <1>v, <3>1, ZenonT(30)
  <2> QED BY <2>1, <2>2
<1> HIDE DEF p
<1>7. \A i, j \in 1 .. last : p[i] = p[j] => i = j
  <2> SUFFICES ASSUME NEW i \in 1 .. last, NEW j \in 1 .. last, p[i] = p[j] PROVE i = j
    OBVIOUS
  <2>1. k \in Nat
    BY <1>3
  <2>2. ASSUME NEW h \in 1 .. last, h # k PROVE p[h] # p[k]
    <3>1. CASE h < k
      BY <1>5, <1>v, <3>1, ZenonT(30)
    <3>2. CASE h > k
      BY <1>5, <1>v, <3>2, ZenonT(30)
    <3> QED BY <2>1, <2>2, <3>1, <3>2
  <2>3. CASE i < k /\ j < k
    BY <1>1, <1>5, <2>3
  <2>4. CASE i > k /\ j > k
    <3>1. i - 1 = j - 1
      BY <1>1, <1>5, <2>4
    <3> QED BY <3>1
  <2>5. ASSUME NEW h \in 1 .. last, h < k, NEW g \in 1 .. last, g > k PROVE p[h] # p[g]
    <3>1. p[h] = q[h] /\ h \in 1 .. n /\ p[g] = q[g - 1] /\ g - 1 \in 1 .. n
      BY <1>5, <2>5
    <3>2. h # g - 1
      BY <2>1, <2>5
    <3> QED BY <1>1, <3>1, <3>2
  <2>6. i = k \/ j = k \/ (i < k /\ j < k) \/ (i > k /\ j > k) \/ (i < k /\ j > k) \/ (i > k /\ j < k)
    BY <2>1
  <2> QED BY <2>2, <2>3, <2>4, <2>5, <2>6
<1>8. \A j \in 1 .. last : \E i \in 1 .. last : p[i] = j
  <2> SUFFICES ASSUME NEW j \in 1 .. last PROVE \E i \in 1 .. last : p[i] = j
    BY ZenonT(30)
  <2>1. CASE j = last
    BY <1>3, <1>5, <2>1
  <2>2. CASE j # last
    <3>1. PICK h \in 1 .. n : q[h] = j
      BY <1>1, <2>2
    <3>2. CASE h < k
      BY <1>5, <3>1, <3>2
    <3>3. CASE ~(h < k)
      <4>1. h + 1 \in 1 .. last /\ h + 1 > k /\ (h + 1) - 1 = h
        BY <1>3, <3>3
      <4> QED BY <1>5, <3>1, <4>1
    <3> QED BY <3>2, <3>3
  <2> QED BY <2>1, <2>2
<1>9. \A i, j \in 1 .. last : i < j => s[p[i]] <= s[p[j]]
  <2> SUFFICES ASSUME NEW i \in 1 .. last, NEW j \in 1 .. last, i < j PROVE s[p[i]] <= s[p[j]]
    OBVIOUS
  <2>0. k \in Nat
    BY <1>3
  <2>1. CASE j < k
    <3>1. p[i] = q[i] /\ p[j] = q[j] /\ i \in 1 .. n /\ j \in 1 .. n
      BY <1>5, <2>0, <2>1
    <3> QED BY <1>m, <3>1
  <2>2. CASE j = k
    <3>1. p[j] = last /\ p[i] = q[i] /\ i \in 1 .. n /\ i < k
      BY <1>5, <2>2
    <3> QED BY <1>4, <3>1
  <2>3. CASE i = k
    <3>1. s[last] <= s[q[k]] /\ p[i] = last /\ p[j] = q[j - 1] /\ j - 1 \in 1 .. n /\ k \in 1 .. n
      BY <1>3, <1>5, <2>3
    <3>2. k = j - 1 \/ s[q[k]] <= s[q[j - 1]]
      BY <1>1, <2>0, <2>3, <3>1
    <3>3. s[last] \in Nat /\ s[q[k]] \in Nat /\ s[q[j - 1]] \in Nat
      BY <1>w, <3>1, SMTT(30)
    <3>4. s[last] <= s[q[j - 1]]
      <4>1. \A x, y, z \in Nat : x <= y /\ (y = z \/ y <= z) => x <= z
        OBVIOUS
      <4>2. s[q[k]] = s[q[j - 1]] \/ s[q[k]] <= s[q[j - 1]]
        BY <3>2, Zenon
      <4> QED BY <3>1, <3>3, <4>1, <4>2, Zenon
    <3> QED BY <3>1, <3>4
  <2>4. CASE i < k /\ j > k
    <3>1. p[i] = q[i] /\ p[j] = q[j - 1] /\ i \in 1 .. n /\ j - 1 \in 1 .. n /\ i < j - 1
      BY <1>5, <2>0, <2>4
    <3> QED BY <1>m, <3>1, SMTT(30)
  <2>5. CASE i > k
    <3>1. p[i] = q[i - 1] /\ p[j] = q[j - 1] /\ i - 1 \in 1 .. n /\ j - 1 \in 1 .. n /\ i - 1 < j - 1
      BY <1>5, <2>0, <2>5
    <3> QED BY <1>m, <3>1, SMTT(30)
  <2> QED BY <2>0, <2>1, <2>2, <2>3, <2>4, <2>5
<1>10. p \in SortsBy(last, s)
  BY <1>6, <1>7, <1>8, <1>9, ZenonT(30) DEF SortsBy, Bijection, Injection, Surjection, IsInjective
<1> QED BY <1>10

\* Every sequence of naturals can be sorted: a shortest one that cannot be is longer
\* by one than one that can.
LEMMA SortExists ==
  ASSUME NEW n \in Nat, NEW s \in [1 .. n -> Nat]
  PROVE  SortsBy(n, s) # {}
<1> DEFINE Unsorted == {m \in Nat : \E t \in [1 .. m -> Nat] : SortsBy(m, t) = {}}
<1>1. SUFFICES ASSUME Unsorted # {} PROVE FALSE
  BY <1>1
<1>2. PICK m \in Unsorted : \A h \in Unsorted : m <= h
  <2>1. Unsorted \subseteq Nat
    OBVIOUS
  <2> HIDE DEF Unsorted
  <2> QED BY <1>1, <2>1, LeastIn, ZenonT(30)
<1>3. m \in Nat
  OBVIOUS
<1>4. PICK t \in [1 .. m -> Nat] : SortsBy(m, t) = {}
  OBVIOUS
<1>5. m # 0
  <2>1. SUFFICES ASSUME m = 0 PROVE FALSE
    OBVIOUS
  <2>2. 1 .. m = {}
    BY <2>1
  <2>3. [i \in 1 .. m |-> i] \in SortsBy(m, t)
    BY <2>2, ZenonT(30) DEF SortsBy, Bijection, Injection, Surjection, IsInjective
  <2> QED BY <1>4, <2>3
<1>6. m - 1 \in Nat /\ (m - 1) + 1 = m /\ ~(m <= m - 1)
  BY <1>3, <1>5
<1> DEFINE u == [i \in 1 .. m - 1 |-> t[i]]
<1>7. u \in [1 .. m - 1 -> Nat] /\ \A i \in 1 .. m - 1 : u[i] = t[i]
  BY <1>6
<1>8. m - 1 \notin Unsorted
  BY <1>2, <1>6, ZenonT(30)
<1> HIDE DEF u
<1>9. PICK q : q \in SortsBy(m - 1, u)
  BY <1>6, <1>7, <1>8, ZenonT(30)
<1> HIDE DEF Unsorted
<1>10. q \in Bijection(1 .. m - 1, 1 .. m - 1) /\ \A i \in 1 .. m - 1 : q[i] \in 1 .. m - 1
  BY <1>9 DEF SortsBy, Bijection, Injection
<1>11. \A i, j \in 1 .. m - 1 : i < j => t[q[i]] <= t[q[j]]
  BY <1>7, <1>9, <1>10 DEF SortsBy
<1>12. q \in SortsBy(m - 1, t)
  BY <1>10, <1>11 DEF SortsBy
<1>13. t \in [1 .. (m - 1) + 1 -> Nat]
  BY <1>6
<1>14. SortsBy((m - 1) + 1, t) # {}
  BY <1>6, <1>12, <1>13, Insertion, ZenonT(30)
<1> QED BY <1>4, <1>6, <1>14

\* What sorted() returns.
LEMMA SortedIs ==
  ASSUME NEW s \in Seq(Nat)
  PROVE  /\ Len(sorted(s)) = Len(s) /\ DOMAIN sorted(s) = 1 .. Len(s)
         /\ \A i \in 1 .. Len(s) : sorted(s)[i] \in Range(s) /\ sorted(s)[i] \in Nat
         /\ \A i, j \in 1 .. Len(s) : i < j => sorted(s)[i] <= sorted(s)[j]
<1> DEFINE n == Len(s)
           order == CHOOSE p \in Bijection(1 .. n, 1 .. n) :
                      \A i, j \in 1 .. n : i < j => s[p[i]] <= s[p[j]]
<1>1. n \in Nat /\ s \in [1 .. n -> Nat] /\ DOMAIN s = 1 .. n
  OBVIOUS
<1>2. sorted(s) = [i \in 1 .. n |-> s[order[i]]]
  BY <1>1 DEF sorted
<1>3. \E p \in Bijection(1 .. n, 1 .. n) : \A i, j \in 1 .. n : i < j => s[p[i]] <= s[p[j]]
  BY <1>1, SortExists, ZenonT(30) DEF SortsBy
<1>4. /\ order \in Bijection(1 .. n, 1 .. n)
      /\ \A i, j \in 1 .. n : i < j => s[order[i]] <= s[order[j]]
  BY <1>3, ZenonT(30)
<1> HIDE DEF order, n
<1>5. \A i \in 1 .. n : order[i] \in 1 .. n
  BY <1>4 DEF Bijection, Injection
<1>6. \A i \in 1 .. n : s[order[i]] \in Nat /\ s[order[i]] \in Range(s)
  BY <1>1, <1>5 DEF Range
<1>7. sorted(s) \in Seq(Nat) /\ Len(sorted(s)) = n
  BY <1>1, <1>2, <1>6
<1> QED BY <1>2, <1>4, <1>6, <1>7 DEF n

\* The percentile of some latencies is one of them and not below the median.
LEMMA PercentileIs ==
  ASSUME NEW s \in Seq(Nat), s # <<>>
  PROVE  P95(s) \in Range(s) /\ 2 * P95(s) >= P50x2(s)
<1> DEFINE n == Len(s)
           t == sorted(s)
           lo == (n + 1) \div 2
           hi == n \div 2 + 1
           top == (n * 95) \div 100 + 1
<1>1. n \in Nat /\ n >= 1
  OBVIOUS
<1>2. Len(t) = n /\ P95(s) = t[top] /\ P50x2(s) = t[lo] + t[hi]
  BY SortedIs, ZenonT(30) DEF P95, P50x2
<1>3. /\ \A i \in 1 .. n : t[i] \in Range(s) /\ t[i] \in Nat
      /\ \A i, j \in 1 .. n : i < j => t[i] <= t[j]
  BY SortedIs
<1> HIDE DEF n, t
<1>4. lo \in 1 .. n /\ hi \in 1 .. n /\ top \in 1 .. n
  BY <1>1
<1>5. lo <= hi /\ hi <= top
  BY <1>1
<1> HIDE DEF lo, hi, top
<1>6. t[lo] <= t[top] /\ t[hi] <= t[top]
  BY <1>3, <1>4, <1>5
<1>7. t[lo] \in Nat /\ t[hi] \in Nat /\ t[top] \in Nat /\ t[top] \in Range(s)
  BY <1>3, <1>4
<1> QED BY <1>2, <1>6, <1>7, SMTT(30)

-----------------------------------------------------------------------------
(* The totals of a load test, and what is reported of them.                *)

LEMMA PlainTotals ==
  ASSUME Totals, Plain
  PROVE  Totals' /\ script' = script
<1>1. ~InPool /\ ~InPool' /\ tally' = tally /\ script' = script
  BY DEF Plain, StaysAt, GoesOn, GivesUp, InPool, load
<1> QED BY <1>1 DEF Totals

LEMMA NoTotals ==
  ASSUME tally' = NoTally, mode' = "main"
  PROVE  Totals'
<1>1. /\ tally' = [success |-> 0, fail |-> 0, latencies |-> <<>>]
      /\ <<>> \in Seq(Latencies \cup {0}) /\ ~InPool'
  BY DEF NoTally, InPool
<1> QED BY <1>1 DEF Totals

LEMMA CountTotals ==
  ASSUME IInv, Totals, NEW r \in Requests, Count(r)
  PROVE  Totals' /\ script' = script /\ found' = found
<1>0. Typed /\ Control
  BY DEF IInv
<1>1. /\ script' = script /\ at' = at /\ found' = found /\ mode = "pool" /\ r \notin counted
      /\ InPool /\ InPool'
  BY DEF Count, InPool
<1>2. Step' = Step
  BY <1>1 DEF Step
<1>3. CASE pool[r].st = "raises" \/ Step # "load"
  <2>1. tally' = tally /\ (Step = "load" => counted' = counted)
    BY <1>3 DEF Count
  <2> QED BY <1>1, <1>2, <2>1 DEF Totals
<1>4. CASE pool[r].st # "raises" /\ Step = "load"
  <2>1. counted' = counted \cup {r} /\ tally' = Tallied(pool[r])
    BY <1>4 DEF Count
  <2>2. IsFiniteSet(counted)
    BY <1>0, DemoAssumption, FS_Subset DEF Typed
  <2>3. Cardinality(counted') = Cardinality(counted) + 1 /\ Cardinality(counted) \in Nat
    BY <1>1, <2>1, <2>2, FS_AddElement, FS_CardinalityType, ZenonT(30)
  <2>4. /\ tally \in [success : Nat, fail : Nat, latencies : Seq(Latencies \cup {0})]
        /\ tally.success + tally.fail = Cardinality(counted)
        /\ script # "qa" => Len(tally.latencies) = tally.success
    BY <1>1, <1>4 DEF Totals
  <2>5. pool[r].lat \in Latencies \cup {0}
    BY <1>0 DEF Typed, Futures
  <2>6. CASE pool[r].st = "ok" /\ script # "qa"
    <3>1. tally' = [tally EXCEPT !.success = @ + 1, !.latencies = Append(@, pool[r].lat)]
      BY <2>1, <2>6 DEF Tallied
    <3>2. /\ Append(tally.latencies, pool[r].lat) \in Seq(Latencies \cup {0})
          /\ Len(Append(tally.latencies, pool[r].lat)) = Len(tally.latencies) + 1
      BY <2>4, <2>5
    <3>3. tally' = [success |-> tally.success + 1, fail |-> tally.fail,
                    latencies |-> Append(tally.latencies, pool[r].lat)]
      BY <2>4, <3>1, ZenonT(30)
    <3>4. tally.success \in Nat /\ tally.fail \in Nat
      BY <2>4
    <3>5. /\ tally'.success = tally.success + 1 /\ tally'.fail = tally.fail
          /\ tally'.latencies = Append(tally.latencies, pool[r].lat)
      BY <3>3
    <3>6. tally' \in [success : Nat, fail : Nat, latencies : Seq(Latencies \cup {0})]
      <4>1. tally.success + 1 \in Nat
        BY <3>4
      <4> QED BY <3>2, <3>3, <3>4, <4>1, ZenonT(30)
    <3>7. Len(tally'.latencies) = tally'.success
      BY <2>4, <2>6, <3>2, <3>5
    <3>8. tally'.success + tally'.fail = Cardinality(counted')
      <4>1. tally.success + tally.fail = Cardinality(counted)
        BY <2>4
      <4> QED BY <2>3, <3>4, <3>5, <4>1
    <3> QED BY <1>1, <1>2, <1>4, <3>6, <3>7, <3>8 DEF Totals
  <2>7. CASE pool[r].st = "ok" /\ script = "qa"
    <3>1. tally' = [tally EXCEPT !.success = @ + 1]
      BY <2>1, <2>4, <2>7, ZenonT(30) DEF Tallied
    <3> QED BY <1>1, <1>2, <1>4, <2>3, <2>4, <2>7, <3>1 DEF Totals
  <2>8. CASE pool[r].st # "ok"
    <3>1. tally' = [tally EXCEPT !.fail = @ + 1]
      BY <2>1, <2>8 DEF Tallied
    <3> QED BY <1>1, <1>2, <1>4, <2>3, <2>4, <2>8, <3>1, SMTT(30) DEF Totals
  <2> QED BY <2>6, <2>7, <2>8
<1> QED BY <1>1, <1>3, <1>4

LEMMA PoolTotals ==
  ASSUME IInv, Totals, Submit \/ Unwind \/ Interrupt \/ \E r \in Requests : Finish(r)
  PROVE  Totals' /\ script' = script
<1>0. Typed /\ Control /\ Pooled
  BY DEF IInv
<1>1. CASE Submit
  <2>1. /\ counted' = {} /\ Cardinality({}) = 0 /\ tally' = tally /\ script' = script
        /\ ~InPool
    BY <1>0, <1>1, FS_EmptySet DEF Submit, Pooled, InPool
  <2> QED BY <2>1 DEF Totals
<1>2. CASE Unwind
  <2>1. tally' = NoTally /\ mode' = "main" /\ script' = script
    BY <1>0, <1>2, RaiseIs DEF Unwind, DropPool, Raised
  <2> QED BY <2>1, NoTotals
<1>3. CASE Interrupt /\ At("stream")
  <2>1. tally' = tally /\ script' = script /\ ~InPool /\ ~InPool'
    BY <1>3 DEF Interrupt, At, Goto, GotoWith, load, InPool
  <2> QED BY <2>1 DEF Totals
<1>4. CASE Interrupt /\ mode = "pool"
  <2>1. UNCHANGED <<tally, counted, script, at>> /\ InPool /\ InPool'
    BY <1>4 DEF Interrupt, At, load, InPool
  <2>2. Step' = Step
    BY <2>1 DEF Step
  <2> QED BY <2>1, <2>2, ZenonT(30) DEF Totals
<1>5. CASE Interrupt /\ mode # "pool" /\ ~At("stream")
  <2>1. tally' = NoTally /\ Raise("interrupt")
    BY <1>5 DEF Interrupt, DropPool
  <2>2. mode' = "main" /\ script' = script
    BY <1>0, <2>1, RaiseIs DEF Raised
  <2> QED BY <2>1, <2>2, NoTotals
<1>6. CASE \E r \in Requests : Finish(r)
  <2>1. UNCHANGED <<tally, counted, script, at, mode>>
    BY <1>6 DEF Finish, control
  <2>2. Step' = Step /\ InPool' = InPool
    BY <2>1 DEF Step, InPool
  <2> QED BY <2>1, <2>2 DEF Totals
<1> QED BY <1>1, <1>2, <1>3, <1>4, <1>5, <1>6

LEMMA LeavePoolTotals ==
  ASSUME IInv, Totals, LeavePool
  PROVE  Totals' /\ EveryRequestReported'
<1>1. tally' = NoTally /\ mode' = "main" /\ script' = script
  BY DEF LeavePool, DropPool, Goto, GotoWith
<1>2. CASE Step = "load"
  <2>1. found' = [kind |-> "load", claim |-> Summary, basis |-> counted]
    BY <1>2 DEF LeavePool, Report
  <2>2. /\ tally.success + tally.fail = Cardinality(Requests)
        /\ script # "qa" => Len(tally.latencies) = tally.success
    BY <1>2 DEF LeavePool, PoolDone, Totals, InPool
  <2>3. /\ Summary.success = tally.success /\ Summary.fail = tally.fail
        /\ Summary.latencies = tally.latencies
    BY ZenonT(30) DEF Summary
  <2>4. tally.latencies \in Seq(Nat)
    <3>1. Latencies \cup {0} \subseteq Nat
      BY DemoAssumption
    <3> QED BY <3>1 DEF Totals
  <2>5. ASSUME tally.latencies # <<>>
        PROVE  Summary.p95 \in Range(tally.latencies) /\ 2 * Summary.p95 >= Summary.p50x2
    <3>1. Summary.p95 = P95(tally.latencies) /\ Summary.p50x2 = P50x2(tally.latencies)
      BY <2>5, ZenonT(30) DEF Summary
    <3> QED BY <2>4, <2>5, <3>1, PercentileIs
  <2>6. found'.kind = "load" /\ found'.claim = Summary
    BY <2>1
  <2> HIDE DEF Summary
  <2> QED BY <1>1, <2>2, <2>3, <2>5, <2>6, NoTotals DEF EveryRequestReported
<1>3. CASE Step # "load"
  <2>1. found'.kind = "nothing"
    BY <1>3 DEF LeavePool, Nothing
  <2> QED BY <1>1, <2>1, NoTotals DEF EveryRequestReported
<1> QED BY <1>2, <1>3

LEMMA NextTotals ==
  ASSUME IInv, Totals, EveryRequestReported, [Next]_vars
  PROVE  Totals' /\ EveryRequestReported'
<1>0. Control
  BY DEF IInv
<1>1. ASSUME found' = found \/ found'.kind # "load", script' = script
      PROVE  EveryRequestReported'
  BY <1>1 DEF EveryRequestReported
<1>2. CASE LeavePool
  BY <1>2, LeavePoolTotals
<1>3. CASE \E r \in Requests : Count(r)
  BY <1>1, <1>3, CountTotals
<1>4. CASE LongContext \/ CheckTpActive \/ CheckEpActive
  <2>1. Totals' /\ script' = script
    BY <1>4, ChecksArePlain, BenchmarksArePlain, PlainTotals DEF Checks
  <2>2. found'.kind # "load"
    <3>1. CheckTpActive => found'.kind = "tp"
      BY DEF CheckTpActive, Report
    <3>2. CheckEpActive => found'.kind = "ep"
      BY DEF CheckEpActive, Report
    <3> QED BY <1>4, <3>1, <3>2, LongReport
  <2> QED BY <1>1, <2>1, <2>2
<1>5. CASE \/ Checks \/ BenchmarkTtft \/ TtftDone \/ Input \/ StreamChat
           \/ SaveContainerLogs \/ DockerPs \/ DockerLogs \/ CollectDone \/ ContainerChanges
  <2>1. Totals' /\ script' = script
    BY <1>0, <1>5, ChecksArePlain, BenchmarksArePlain, SavingIsPlain, PlainTotals
  <2>2. CASE CheckTpActive \/ CheckEpActive
    BY <1>4, <2>2
  <2>3. CASE ~(CheckTpActive \/ CheckEpActive)
    <3>1. found' = found \/ found'.kind = "nothing"
      BY <1>5, <2>3, OthersReport DEF Checks
    <3> QED BY <1>1, <2>1, <3>1
  <2> QED BY <2>2, <2>3
<1>6. CASE Submit \/ Unwind \/ Interrupt \/ \E r \in Requests : Finish(r)
  <2>1. Totals' /\ script' = script
    BY <1>6, PoolTotals
  <2>2. found' = found \/ found'.kind = "nothing"
    BY <1>6, OthersReport
  <2> QED BY <1>1, <2>1, <2>2
<1>7. CASE UNCHANGED vars
  <2>1. UNCHANGED <<script, at, mode, tally, counted, found>>
    BY <1>7 DEF vars, control, load
  <2>2. Step' = Step /\ InPool' = InPool
    BY <2>1 DEF Step, InPool
  <2> QED BY <1>1, <2>1, <2>2 DEF Totals
<1> QED BY <1>2, <1>3, <1>4, <1>5, <1>6, <1>7 DEF Next, MainThread, Ended

LEMMA Adding == Spec => [](Totals /\ EveryRequestReported)
<1>1. Init => Totals /\ EveryRequestReported
  <2> SUFFICES ASSUME Init PROVE Totals /\ EveryRequestReported
    OBVIOUS
  <2>1. /\ tally = [success |-> 0, fail |-> 0, latencies |-> <<>>]
        /\ <<>> \in Seq(Latencies \cup {0}) /\ ~InPool /\ found.kind = "nothing"
    BY DEF Init, NoTally, InPool, Nothing
  <2> QED BY <2>1 DEF Totals, EveryRequestReported
<1>2. IInv /\ (Totals /\ EveryRequestReported) /\ [Next]_vars => (Totals /\ EveryRequestReported)'
  BY NextTotals
<1> QED BY <1>1, <1>2, Inductive, PTL DEF Spec

\* What a load test prints: in whatever order the futures complete, the report counts
\* every request once, as a success or as a failure, and has a latency for each
\* success; its P95 is one of them and not below the median, for any number of them.
THEOREM LoadIsReported == Spec => []EveryRequestReported
BY Adding, PTL

-----------------------------------------------------------------------------
(* The samples, and with them the types.                                   *)

LEMMA Rounds == Repeats \in Nat \ {0} /\ Prompts * Repeats \in Nat /\ Repeats <= Prompts * Repeats
<1>1. Prompts \in Nat \ {0} /\ Repeats \in Nat \ {0}
  BY DemoAssumption
<1>2. Prompts * Repeats \in Nat
  BY <1>1
<1>3. Prompts * Repeats = (Prompts - 1) * Repeats + Repeats /\ (Prompts - 1) * Repeats >= 0
  BY <1>1
<1> QED BY <1>1, <1>2, <1>3

LEMMA SamplesStay ==
  ASSUME Samples,
         \/ times' = <<>> /\ round' = 0
         \/ times' = times /\ (Saving' \/ (~Saving /\ round' = round))
  PROVE  Samples'
<1>1. CASE times' = <<>> /\ round' = 0
  <2>1. 0 \in 0 .. Prompts * Repeats
    BY Rounds
  <2>2. <<>> \in Seq({"ttft", "elapsed", "ms", "zero"})
    OBVIOUS
  <2> QED BY <1>1, <2>1, <2>2 DEF Samples
<1>2. CASE times' = times /\ (Saving' \/ (~Saving /\ round' = round))
  BY <1>2 DEF Samples
<1> QED BY <1>1, <1>2

LEMMA RaiseResets == ASSUME NEW e, Raise(e) PROVE times' = <<>> /\ round' = 0
BY DEF Raise, Die, Goto, GotoWith

\* The steps that start a loop anew, leave one or have none.
LEMMA OtherSamples ==
  ASSUME Control,
         Samples,
         \/ Checks \/ TtftDone \/ Submit \/ LeavePool \/ Unwind \/ Input \/ StreamChat
         \/ SaveContainerLogs \/ DockerPs \/ DockerLogs \/ CollectDone
         \/ TokenCounts \/ Interrupt \/ ContainerChanges
         \/ \E r \in Requests : Count(r) \/ Finish(r)
  PROVE  Samples'
<1>1. CASE Checks
  <2>1. times' = <<>> /\ round' = 0
    BY <1>1, RaiseResets, ZenonT(30)
       DEF Checks, PrintHwInfo, CheckGateway, CheckAllNodes, CheckTpActive,
      CheckEpActive, CheckGpuMemory, CheckAllToAll, PrintAndGoOn, Die, Goto, GotoWith
  <2> QED BY <2>1, SamplesStay
<1>2. CASE TtftDone \/ LeavePool \/ Unwind \/ Input \/ StreamChat \/ CollectDone \/ TokenCounts
  <2>1. times' = <<>> /\ round' = 0
    BY <1>2, RaiseResets, ZenonT(30)
       DEF TtftDone, LeavePool, Unwind, Input, StreamChat, CollectDone, TokenCounts,
      Goto, GotoWith
  <2> QED BY <2>1, SamplesStay
<1>3. CASE Submit \/ \E r \in Requests : Count(r)
  <2>1. times' = times /\ round' = round /\ ~Saving
    BY <1>3 DEF Submit, Count, Saving, loop
  <2> QED BY <2>1, SamplesStay
<1>4. CASE SaveContainerLogs \/ DockerPs \/ DockerLogs
  <2>1. (times' = <<>> /\ round' = 0) \/ (times' = times /\ Saving')
    BY <1>4, ZenonT(30) DEF SaveContainerLogs, DockerPs, DockerLogs, Goto, GotoWith, Saving
  <2> QED BY <2>1, SamplesStay
<1>5. CASE ContainerChanges \/ \E r \in Requests : Finish(r)
  <2>1. times' = times /\ round' = round /\ Saving' = Saving
    BY <1>5 DEF ContainerChanges, Finish, control, loop, Saving
  <2> QED BY <2>1, SamplesStay
<1>6. CASE Interrupt
  <2>1. \/ times' = <<>> /\ round' = 0
        \/ times' = times /\ round' = round /\ mode = "pool"
    BY <1>6, RaiseResets DEF Interrupt, Goto, GotoWith, loop
  <2> QED BY <2>1, SamplesStay DEF Saving
<1> QED BY <1>1, <1>2, <1>3, <1>4, <1>5, <1>6

LEMMA LoopSamples ==
  ASSUME Samples, BenchmarkTtft \/ ColdContext \/ WarmContext
  PROVE  Samples'
<1> DEFINE Kinds == {"ttft", "elapsed", "ms", "zero"}
<1>1. ~Saving /\ times \in Seq(Kinds) /\ round \in 0 .. Prompts * Repeats
  BY DEF BenchmarkTtft, ColdContext, WarmContext, At, Saving, Samples
<1>2. ASSUME times' \in Seq(Kinds), round' \in 0 .. Prompts * Repeats
      PROVE  Samples'
  BY <1>2 DEF Samples
<1>3. CASE BenchmarkTtft
  <2>1. PICK t \in TtftOutcomes :
          IF t = "raises"
            THEN Raise("error")
            ELSE /\ times' = Kept(IF round % Repeats = 0 THEN <<>> ELSE times, t)
                 /\ round' = round + 1
                 /\ UNCHANGED control
    BY <1>3 DEF BenchmarkTtft
  <2>2. /\ t \in {"ttft", "elapsed", "error"} /\ round' = round + 1
        /\ times' = Kept(IF round % Repeats = 0 THEN <<>> ELSE times, t)
    BY <2>1, ReplyMeasured
  <2>3. (IF round % Repeats = 0 THEN <<>> ELSE times) \in Seq(Kinds)
    BY <1>1
  <2>4. times' \in Seq(Kinds)
    BY <2>2, <2>3 DEF Kept
  <2>5. round' \in 0 .. Prompts * Repeats
    BY <1>1, <1>3, <2>2, Rounds DEF BenchmarkTtft
  <2> QED BY <1>2, <2>4, <2>5
<1>4. CASE ColdContext
  <2>1. PICK reply \in Replies :
          IF chat_stream_ttft(reply) = "none"
            THEN Goto(at + 3) ELSE GotoWith(at + 1, <<chat_stream_ttft(reply)>>)
    BY <1>4 DEF ColdContext
  <2>2. chat_stream_ttft(reply) \in {"ms", "zero", "none"}
    BY DEF chat_stream_ttft
  <2>3. round' = 0 /\ (times' = <<>> \/ times' = <<"ms">> \/ times' = <<"zero">>)
    BY <2>1, <2>2 DEF Goto, GotoWith
  <2>4. /\ <<>> \in Seq(Kinds) /\ <<"ms">> \in Seq(Kinds) /\ <<"zero">> \in Seq(Kinds)
    OBVIOUS
  <2>5. round' \in 0 .. Prompts * Repeats
    BY <2>3, Rounds
  <2> QED BY <1>2, <2>3, <2>4, <2>5, ZenonT(30)
<1>5. CASE WarmContext
  <2>1. times' \in {times, Append(times, "ms")}
    BY <1>5 DEF WarmContext, GotoWith
  <2>2. times' \in Seq(Kinds)
    BY <1>1, <2>1
  <2>3. round' = 0 \/ (round' = round + 1 /\ round + 1 < Repeats)
    BY <1>5 DEF WarmContext, GotoWith
  <2>4. round' \in 0 .. Prompts * Repeats
    BY <1>1, <2>3, Rounds
  <2> QED BY <1>2, <2>2, <2>4
<1> QED BY <1>3, <1>4, <1>5

LEMMA Sampling == Spec => []Samples
<1>1. Init => Samples
  BY Rounds DEF Init, Samples
<1>2. IInv /\ Samples /\ [Next]_vars => Samples'
  <2> SUFFICES ASSUME IInv, Samples, [Next]_vars PROVE Samples'
    OBVIOUS
  <2>1. CASE UNCHANGED vars
    <3>1. UNCHANGED <<mode, times, round>>
      BY <2>1 DEF vars, control, loop
    <3> QED BY <3>1, SamplesStay DEF Saving
  <2> QED BY <2>1, OtherSamples, LoopSamples DEF IInv, Next, MainThread, LongContext, Ended
<1> QED BY <1>1, <1>2, Inductive, PTL DEF Spec

\* The types of the demo scripts' state, for any bounds.
THEOREM DemoTypes == Spec => []TypeOK
<1>1. IInv /\ LogsInv /\ Totals /\ Samples => TypeOK
  <2> SUFFICES ASSUME IInv, LogsInv, Totals, Samples PROVE TypeOK
    OBVIOUS
  <2>1. Typed /\ LogsTyped /\ Collected
    BY DEF IInv, LogsInv
  <2>2. tally.success + tally.fail <= Cardinality(Requests)
    <3>1. /\ Cardinality(counted) \in Nat /\ Cardinality(Requests) \in Nat
          /\ Cardinality(counted) <= Cardinality(Requests)
      BY <2>1, DemoAssumption, FS_Subset, FS_CardinalityType DEF Typed
    <3> QED BY <3>1 DEF Totals
  <2>3. Range(times) \subseteq {"ttft", "elapsed", "ms", "zero"}
    BY DEF Samples, Range
  <2>4. round \in 0 .. Prompts * Repeats + Len(Containers) + 1
    <3>1. Prompts * Repeats \in Nat /\ Len(Containers) \in Nat
      BY Rounds, DemoAssumption
    <3>2. round \in 0 .. Prompts * Repeats \/ round \in 1 .. Len(Containers) + 1
      BY <2>1 DEF Samples, Collected
    <3>3. \A a, b \in Nat : \A x \in 0 .. a \cup 1 .. b + 1 : x \in 0 .. a + b + 1
      OBVIOUS
    <3> QED BY <3>1, <3>2, <3>3, ZenonT(30)
  <2> QED BY <2>1, <2>2, <2>3, <2>4 DEF TypeOK, Typed, Futures, LogsTyped
<1> QED BY <1>1, Inductive, Logging, Adding, Sampling, PTL
=============================================================================
