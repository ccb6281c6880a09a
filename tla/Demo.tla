-------------------------------- MODULE Demo --------------------------------
(***************************************************************************)
(* One run of a demo script beside a gateway that may refuse, break off or *)
(* never answer, on a machine whose containers come and go, with a user    *)
(* who may press Ctrl-C.  A script is the sequence of its main()'s steps;  *)
(* the load tests run a pool of threads.  Locals of a step are forgotten   *)
(* when it is left.                                                        *)
(***************************************************************************)
EXTENDS DemoReplies, DemoEvidence

CONSTANTS
  Requests,       \* bound: requests of a load test or a round (4 to 40 in the code)
  Prompts,        \* bound: prompts of the TTFT benchmark (three)
  Repeats,        \* bound: runs of each prompt, warm requests of a context (five, three)
  Latencies,      \* bound: latencies told apart
  Containers,     \* the container names, in CONTAINERS' order (ten)
  MaxInterrupts   \* bound: Ctrl-C

ASSUME DemoAssumption ==
  /\ IsFiniteSet(Requests)
  /\ {Prompts, Repeats} \subseteq Nat \ {0}
  /\ Latencies \subseteq Nat
  /\ Containers \in Seq(STRING)
  /\ MaxInterrupts \in Nat

VARIABLES
  script, at,     \* the script and the step of its main()
  mode,           \* "main", "pool" (as_completed), "exit" (the pool's __exit__),
                  \* "collect" and "fetch" (docker ps and docker logs)
  exc,            \* the exception __exit__ holds back
  end,            \* "no", "done", "exit1" (sys.exit(1)), "traceback"
  interrupts,
  pool, counted, tally,   \* the futures; those as_completed has yielded; the totals
  cold,           \* dp_demo's cold_times: the prefixes measured
  times, round,   \* the samples kept and the iterations done by a loop
  found,          \* what the last step reported, and what it had in hand
  docker, steady, files,  \* the containers; those that ran throughout; the log files
  first           \* what came of the first request of each context, in this run or an earlier one

control == <<script, at, mode, exc, end>>
load    == <<pool, counted, tally, cold>>
loop    == <<times, round>>
logs    == <<docker, steady, files>>
vars    == <<control, interrupts, load, loop, found, logs, first>>

-----------------------------------------------------------------------------
(* The scripts.                                                            *)

DpMain == <<"hw", "gateway", "nodes", "memory", "cold", "warm", "load", "save">>
TpMain == <<"hw", "gateway", "evidence", "memory", "ttft", "load", "memory", "save">>
EpMain == <<"hw", "gateway", "evidence", "memory", "alltoall", "ttft", "load", "memory", "save">>
PdMain == <<"gateway", "ttft", "load", "save">>
QaMain == <<"gateway", "load", "save">>
StreamingMain == <<"gateway", "input", "stream", "save">>
LongContextLoop == <<"cold_ctx", "warm_ctx", "tokens", "cold_ctx", "warm_ctx", "tokens",
                     "cold_ctx", "warm_ctx", "tokens">>

Main == [dp |-> DpMain, tp |-> TpMain, ep |-> EpMain, pd |-> PdMain, qa |-> QaMain,
         streaming |-> StreamingMain, long |-> LongContextLoop]

Scripts == DOMAIN Main
Step    == IF at <= Len(Main[script]) THEN Main[script][at] ELSE "over"

\* main() catches KeyboardInterrupt around its benchmarks and goes on after them.
Guarded == script \in {"dp", "tp", "ep", "pd"} /\ Step \in {"cold", "warm", "ttft", "load"}
Resume  == 1 + CHOOSE i \in DOMAIN Main[script] : Main[script][i] = "load"

Idle    == [st |-> "idle", lat |-> 0]
InFlight == {r \in Requests : pool[r].st = "running"}
NoTally == [success |-> 0, fail |-> 0, latencies |-> <<>>]
Nothing == [kind |-> "nothing"]

GotoWith(i, kept) ==
  /\ at' = i
  /\ end' = IF i > Len(Main[script]) THEN "done" ELSE "no"
  /\ mode' = "main" /\ exc' = "none"
  /\ times' = kept /\ round' = 0
  /\ UNCHANGED script

Goto(i) == GotoWith(i, <<>>)

\* The pool's object is gone; its threads are not.
DropPool ==
  /\ pool' = [r \in Requests |-> IF pool[r].st = "running" THEN pool[r] ELSE Idle]
  /\ counted' = {} /\ tally' = NoTally

Die(how) ==
  /\ end' = how /\ mode' = "main" /\ exc' = "none"
  /\ times' = <<>> /\ round' = 0
  /\ UNCHANGED <<script, at>>

Raise(e) == IF e = "interrupt" /\ Guarded THEN Goto(Resume) ELSE Die("traceback")

At(step) == end = "no" /\ mode = "main" /\ Step = step

Report(kind, claim, basis) == found' = [kind |-> kind, claim |-> claim, basis |-> basis]

-----------------------------------------------------------------------------
(* The checks before the load.                                             *)

quiet == UNCHANGED <<interrupts, load, logs, first>>

\* A check that prints what it sees, whatever goes wrong in it, and goes on.
PrintAndGoOn(step) ==
  /\ At(step)
  /\ found' = Nothing
  /\ Goto(at + 1)
  /\ quiet

\* Each command and request of these checks is in a try that catches every error,
\* and what they return is at most printed or made part of a file's name.
PrintHwInfo    == PrintAndGoOn("hw")
CheckAllNodes  == PrintAndGoOn("nodes")
CheckGpuMemory == PrintAndGoOn("memory")
CheckAllToAll  == PrintAndGoOn("alltoall")

\* pd_demo, enterprise_qa_demo and streaming_demo want the mode to be direct.
NeedsDirect == script \in {"pd", "qa", "streaming"}

CheckGateway ==
  /\ At("gateway")
  /\ found' = Nothing
  /\ \E answer \in {"direct", "other_mode", "unreachable"} :
       IF answer = "unreachable" \/ (NeedsDirect /\ answer # "direct")
         THEN Die("exit1") ELSE Goto(at + 1)
  /\ quiet

CheckTpActive ==
  /\ At("evidence") /\ script = "tp"
  /\ \E tp \in {"none", "one", "many", "text"}, list \in LogLists,
        info \in {"none", "one", "many", "text"} :
       LET api == [tp |-> tp, ep |-> "none"]
       IN  Report("tp", check_tp_active(api, list, info), [api |-> api, list |-> list, info |-> info])
  /\ Goto(at + 1)
  /\ quiet

\* Comparing text with 1 raises a TypeError.
CheckEpActive ==
  /\ At("evidence") /\ script = "ep"
  /\ \E api \in ServerArgs, list \in LogLists :
       LET size == check_ep_active(api, list)
       IN  /\ Report("ep", size, [api |-> api, list |-> list, info |-> "none"])
           /\ IF size = "text" THEN Raise("error") ELSE Goto(at + 1)
  /\ quiet

Checks == \/ PrintHwInfo \/ CheckGateway \/ CheckAllNodes \/ CheckTpActive
          \/ CheckEpActive \/ CheckGpuMemory \/ CheckAllToAll

-----------------------------------------------------------------------------
(* The TTFT benchmark: Repeats requests for each prompt, one at a time.    *)

TtftOutcomes == {measure_ttft(reply) : reply \in Replies}

\* Mutant: every sample is kept.
Kept_All(samples, t) == Append(samples, t)

\* A sample is kept when it is positive; the median is taken of those kept.
Kept(samples, t) == IF t = "error" THEN samples ELSE Append(samples, t)

BenchmarkTtft ==
  /\ At("ttft")
  /\ found' = Nothing
  /\ \E t \in TtftOutcomes :
       IF t = "raises"
         THEN Raise("error")
         ELSE /\ times' = Kept(IF round % Repeats = 0 THEN <<>> ELSE times, t)
              /\ round' = round + 1
              /\ UNCHANGED control
  /\ round < Prompts * Repeats
  /\ quiet

TtftDone ==
  /\ At("ttft") /\ round = Prompts * Repeats
  /\ found' = Nothing
  /\ Goto(at + 1)
  /\ quiet

-----------------------------------------------------------------------------
(* The pools: the rounds of dp_demo and the load tests.                    *)

PoolSteps == {"cold", "warm", "load"}

\* submit() hands every request to a thread: there are as many workers.  One
\* not yet submitted when Ctrl-C comes is as one that returned at once.
Submit ==
  /\ end = "no" /\ mode = "main" /\ Step \in PoolSteps
  /\ pool' = [r \in Requests |-> [st |-> "running", lat |-> 0]]
  /\ mode' = "pool"
  /\ found' = Nothing
  /\ UNCHANGED <<script, at, exc, end, interrupts, counted, tally, cold, loop, logs, first>>

LoadResult(ok) == IF ok THEN [st : {"ok"}, lat : Latencies] ELSE [st : {"fail"}, lat : {0}]

SendOutcomes == {IF send(reply) = "raises" THEN "raises" ELSE "ok" : reply \in Replies}

\* What a thread of the current step may end with.
Results ==
  CASE Step = "load" /\ script = "qa" -> UNION {LoadResult(simulate_employee(a)) : a \in Answers}
    [] Step = "load" /\ script # "qa" -> UNION {LoadResult(single(a)) : a \in Answers}
    [] OTHER -> [st : SendOutcomes, lat : {0}]

\* A request returns; nobody looks at one whose pool is being left.
Finish(r) ==
  /\ pool[r].st = "running"
  /\ IF mode = "pool" THEN \E result \in Results : pool' = [pool EXCEPT ![r] = result]
                      ELSE pool' = [pool EXCEPT ![r] = Idle]
  /\ UNCHANGED <<control, interrupts, counted, tally, cold, loop, found, logs, first>>

\* Mutant: a failed request is printed and not counted.
Tallied_Drops(result) ==
  IF result.st = "ok"
    THEN [tally EXCEPT !.success = @ + 1, !.latencies = Append(@, result.lat)]
    ELSE tally

\* enterprise_qa_demo counts without keeping the latencies.
Tallied(result) ==
  IF result.st = "ok"
    THEN [tally EXCEPT !.success = @ + 1,
                       !.latencies = IF script = "qa" THEN @ ELSE Append(@, result.lat)]
    ELSE [tally EXCEPT !.fail = @ + 1]

\* as_completed yields a finished future; result() raises what send raised, and
\* the pool's __exit__ holds it back until the other threads are done.
Count(r) ==
  /\ end = "no" /\ mode = "pool"
  /\ pool[r].st \notin {"idle", "running"} /\ r \notin counted
  /\ IF pool[r].st = "raises"
       THEN /\ mode' = "exit" /\ exc' = "error"
            /\ UNCHANGED <<counted, tally, cold>>
       ELSE /\ counted' = counted \cup {r}
            /\ tally' = IF Step = "load" THEN Tallied(pool[r]) ELSE tally
            /\ cold' = IF Step = "cold" THEN cold \cup {r} ELSE cold
            /\ UNCHANGED <<mode, exc>>
  /\ UNCHANGED <<script, at, end, interrupts, pool, loop, found, logs, first>>

\* What benchmark_throughput prints.
Summary ==
  [success |-> tally.success, fail |-> tally.fail, latencies |-> tally.latencies,
   p50x2 |-> IF tally.latencies = <<>> THEN 0 ELSE P50x2(tally.latencies),
   p95   |-> IF tally.latencies = <<>> THEN 0 ELSE P95(tally.latencies)]

\* Mutant: the loop of the cold round is left with the first result.
PoolDone_First == IF Step = "cold" THEN counted # {} ELSE counted = Requests

\* Mutant: the loop waits for as many successes.
PoolDone_Successes == IF Step = "load" THEN tally.success = Cardinality(Requests) ELSE counted = Requests

PoolDone == counted = Requests

\* Mutant: shutdown(wait=False).
ThreadsJoined_NoWait == TRUE

ThreadsJoined == InFlight = {}

\* The loop is over, and the with block joins its threads.
LeavePool ==
  /\ end = "no" /\ mode = "pool" /\ PoolDone /\ ThreadsJoined
  /\ IF Step = "load" THEN Report("load", Summary, counted) ELSE found' = Nothing
  /\ DropPool
  /\ cold' = IF Step = "warm" THEN {} ELSE cold
  /\ Goto(at + 1)
  /\ UNCHANGED <<interrupts, logs, first>>

\* __exit__ returns, and the exception goes on.
Unwind ==
  /\ end = "no" /\ mode = "exit" /\ ThreadsJoined
  /\ found' = Nothing
  /\ DropPool /\ cold' = {}
  /\ Raise(exc)
  /\ UNCHANGED <<interrupts, logs, first>>

-----------------------------------------------------------------------------
(* streaming_demo.                                                         *)

\* The user's question; the end of the input raises an EOFError.
Input ==
  /\ At("input")
  /\ found' = Nothing
  /\ Goto(at + 1) \/ Raise("error")
  /\ quiet

StreamChat ==
  /\ At("stream")
  /\ \E reply \in Replies :
       IF stream_chat(reply) = "raises" THEN Raise("error") ELSE Goto(at + 1)
  /\ found' = Nothing
  /\ quiet

-----------------------------------------------------------------------------
(* save_container_logs: which Docker, then docker ps and docker logs for   *)
(* each name.                                                              *)

\* The local Docker, or the host that SSH_TARGET names in the environment or in
\* .env, or neither: then it only says what to configure.
SaveContainerLogs ==
  /\ At("save")
  /\ found' = Nothing
  /\ \/ Goto(at + 1) /\ UNCHANGED logs
     \/ /\ mode' = "collect" /\ round' = 1
        /\ docker' \in [Range(Containers) -> {"running", "stopped", "gone"}]
        /\ steady' = {c \in Range(Containers) : docker'[c] = "running"}
        /\ UNCHANGED <<script, at, exc, end, times, files>>
  /\ UNCHANGED <<interrupts, load, first>>

Name == Containers[round]

\* Mutant: break for continue.
AfterMissing_Break == Len(Containers) + 1

AfterMissing == round + 1

\* A docker or ssh command may fail: then no name is printed.  The file is opened
\* before docker logs runs.
DockerPs ==
  /\ end = "no" /\ mode = "collect" /\ round <= Len(Containers)
  /\ \E ok \in BOOLEAN :
       /\ IF ok /\ docker[Name] = "running"
            THEN mode' = "fetch" /\ round' = round /\ files' = [files EXCEPT ![Name] = "no_logs"]
            ELSE mode' = "collect" /\ round' = AfterMissing /\ files' = files
       /\ steady' = IF ok THEN steady ELSE steady \ {Name}
  /\ found' = Nothing
  /\ UNCHANGED <<script, at, exc, end, interrupts, load, times, docker, first>>

\* The file is listed as saved whatever the command returns; a stopped container
\* still has its logs, a removed one does not.
DockerLogs ==
  /\ end = "no" /\ mode = "fetch"
  /\ \E ok \in BOOLEAN :
       /\ files' = IF ok /\ docker[Name] # "gone" THEN [files EXCEPT ![Name] = "logs"] ELSE files
       /\ steady' = IF ok THEN steady ELSE steady \ {Name}
  /\ mode' = "collect" /\ round' = round + 1
  /\ UNCHANGED <<script, at, exc, end, interrupts, load, times, found, docker, first>>

CollectDone ==
  /\ end = "no" /\ mode = "collect" /\ round > Len(Containers)
  /\ Goto(at + 1)
  /\ UNCHANGED <<interrupts, load, found, logs, first>>

\* Containers are started, stopped and removed while they are looked at.
ContainerChanges ==
  /\ end = "no" /\ mode \in {"collect", "fetch"}
  /\ \E c \in Range(Containers), now \in {"running", "stopped", "gone"} :
       /\ docker[c] # now
       /\ docker' = [docker EXCEPT ![c] = now]
       /\ steady' = steady \ {c}
  /\ UNCHANGED <<control, interrupts, load, loop, found, files, first>>

-----------------------------------------------------------------------------
(* benchmark_long_context: a cold request, warm ones, and the token counts *)
(* of each context.                                                        *)

Label == (at + 2) \div 3

\* Mutant: the label alone, as an earlier run sent it.
ctx_unique_Label == <<Label, "earlier">>

\* The context's text starts with its label and the time of this run.
ctx_unique == <<Label, "now">>

\* The outcome of a request counts as the context's when none was made before.
Ask(reply) ==
  first' = [first EXCEPT ![ctx_unique] = IF @ = "unseen" THEN chat_stream_ttft(reply) ELSE @]

ColdContext ==
  /\ At("cold_ctx")
  /\ \E reply \in Replies :
       LET cold_ttft == chat_stream_ttft(reply)
       IN  /\ Report("cold", cold_ttft, first[ctx_unique])
           /\ Ask(reply)
           /\ IF cold_ttft = "none" THEN Goto(at + 3) ELSE GotoWith(at + 1, <<cold_ttft>>)
  /\ UNCHANGED <<interrupts, load, logs>>

\* A warm sample is kept when it is neither None nor zero.
WarmContext ==
  /\ At("warm_ctx")
  /\ \E reply \in Replies :
       LET ttft == chat_stream_ttft(reply)
           kept == IF ttft = "ms" THEN Append(times, ttft) ELSE times
       IN  /\ Report("warm", ttft, first[ctx_unique])
           /\ Ask(reply)
           /\ IF round + 1 < Repeats
                THEN times' = kept /\ round' = round + 1 /\ UNCHANGED control
                ELSE GotoWith(at + 1, kept)
  /\ UNCHANGED <<interrupts, load, logs>>

\* The row of this context; its divisions are guarded.
TokenCounts ==
  /\ At("tokens")
  /\ \E usage \in Usages :
       LET tokens == chat_non_stream_for_tokens(usage)
           cached == tokens[1]
           total  == tokens[2]
       IN  Report("row", [speedup  |-> times[1] = "ms" /\ Len(times) > 1,
                          hit_rate |-> IF total > 0 THEN (100 * cached) \div total ELSE 0],
                  first[ctx_unique])
  /\ Goto(at + 1)
  /\ quiet

-----------------------------------------------------------------------------
(* Ctrl-C reaches the main thread.                                         *)

\* stream_chat catches it and reports as if the stream were over; a pool's
\* __exit__ holds the first one back and lets go of the threads at the second.
Interrupt ==
  /\ end = "no" /\ interrupts < MaxInterrupts
  /\ interrupts' = interrupts + 1
  /\ \/ /\ At("stream")
        /\ found' = Nothing
        /\ Goto(at + 1)
        /\ UNCHANGED load
     \/ /\ mode = "pool"
        /\ mode' = "exit" /\ exc' = "interrupt"
        /\ found' = Nothing
        /\ UNCHANGED <<script, at, end, load, loop>>
     \/ /\ mode # "pool" /\ ~At("stream")
        /\ found' = Nothing
        /\ DropPool /\ cold' = {}
        /\ Raise("interrupt")
  /\ UNCHANGED <<logs, first>>

-----------------------------------------------------------------------------
Init ==
  /\ script \in Scripts /\ at = 1 /\ mode = "main" /\ exc = "none" /\ end = "no"
  /\ interrupts = 0
  /\ pool = [r \in Requests |-> Idle] /\ counted = {} /\ tally = NoTally /\ cold = {}
  /\ times = <<>> /\ round = 0
  /\ found = Nothing
  /\ docker = [c \in Range(Containers) |-> "gone"] /\ steady = {}
  /\ files = [c \in Range(Containers) |-> "none"]
  /\ first = [c \in (1 .. 3) \X {"earlier", "now"} |-> IF c[2] = "earlier" THEN "ms" ELSE "unseen"]

\* The steps of the main thread, apart from those of benchmark_long_context.
MainThread ==
  \/ Checks \/ BenchmarkTtft \/ TtftDone
  \/ Submit \/ (\E r \in Requests : Count(r)) \/ LeavePool \/ Unwind
  \/ Input \/ StreamChat
  \/ SaveContainerLogs \/ DockerPs \/ DockerLogs \/ CollectDone

LongContext == ColdContext \/ WarmContext \/ TokenCounts

\* The script has ended, and the interpreter has joined its threads.
Ended == end # "no" /\ InFlight = {} /\ UNCHANGED vars

Next ==
  \/ MainThread \/ LongContext \/ Interrupt \/ ContainerChanges
  \/ \E r \in Requests : Finish(r)
  \/ Ended

\* What the main thread does with a pool whose threads have returned is its own
\* computation, and nothing can hold it up.  Nothing is assumed of the rest: the
\* timeouts the requests are given bound each read and not the whole reply,
\* docker, ssh and nvidia-smi run without one, and input() waits for the user.
PoolThread == (\E r \in Requests : Count(r)) \/ LeavePool \/ Unwind
Fairness   == WF_vars(PoolThread)

Spec == Init /\ [][Next]_vars /\ Fairness

-----------------------------------------------------------------------------
(* Properties.                                                             *)

\* Every variable keeps its type.
TypeOK ==
  /\ script \in Scripts /\ at \in 1 .. Len(Main[script]) + 1
  /\ mode \in {"main", "pool", "exit", "collect", "fetch"}
  /\ exc \in {"none", "interrupt", "error"}
  /\ end \in {"no", "done", "exit1", "traceback"}
  /\ interrupts \in 0 .. MaxInterrupts
  /\ pool \in [Requests -> [st : {"idle", "running", "ok", "fail", "raises"}, lat : Latencies \cup {0}]]
  /\ counted \subseteq Requests /\ cold \subseteq Requests
  /\ tally.success + tally.fail <= Cardinality(Requests)
  /\ Range(times) \subseteq {"ttft", "elapsed", "ms", "zero"}
  /\ round \in 0 .. Prompts * Repeats + Len(Containers) + 1
  /\ steady \subseteq Range(Containers)
  /\ docker \in [Range(Containers) -> {"running", "stopped", "gone"}]
  /\ files \in [Range(Containers) -> {"none", "no_logs", "logs"}]

\* The memory reading "after the load test" is taken with no request of the test
\* in flight, and so are the logs collected, unless Ctrl-C was pressed twice: the
\* pool's with block waits for its threads, also when an exception leaves it.
LoadIsOver ==
  mode # "pool" /\ mode # "exit" /\ InFlight # {} =>
    interrupts >= 2 \/ (script = "dp" /\ interrupts >= 1)

\* dp_demo compares each prefix with itself: the warm round starts when every cold
\* request has been answered and measured, however the threads are scheduled.
WarmAfterCold == end = "no" /\ Step = "warm" => cold = Requests

\* What a load test reports accounts for every request once, and its P95 is one
\* of the latencies and not below the median, also when few or one succeeded.
EveryRequestReported ==
  found.kind = "load" =>
    LET s == found.claim
    IN  /\ s.success + s.fail = Cardinality(Requests)
        /\ script # "qa" => Len(s.latencies) = s.success
        /\ s.latencies # <<>> => s.p95 \in Range(s.latencies) /\ 2 * s.p95 >= s.p50x2

\* Whatever the gateway answers to the benchmarks, and however its connections
\* break, no script is ended by it in them: a traceback without Ctrl-C comes from
\* dp_demo's rounds, streaming_demo's question or stream, or ep_demo's server
\* arguments, where the code catches nothing.
SurvivesTheGateway ==
  end = "traceback" /\ interrupts = 0 =>
    Step \in {"cold", "warm", "input", "stream", "evidence"}

\* The sizes that the sources at hand state.  ep_demo reads a flag as the TP size,
\* or as one when it is off, and takes nothing from the model info.
Stated(kind, basis) ==
  LET api  == basis.api
      flag == CASE api.ep = "true"  -> {api.tp}
                [] api.ep = "false" -> {"one"}
                [] OTHER            -> {api.ep} \ {"text"}
  IN  (IF kind = "tp" THEN {api.tp, basis.info} \cup {basis.list[i].tp : i \in 1 .. LogFiles}
                      ELSE flag \cup {basis.list[i].ep : i \in 1 .. LogFiles}) \ {"none"}

\* check_tp_active and check_ep_active look at every source until one states a
\* size: the verdict is a size some source states, and is "not found in the
\* available sources" only when none does.  Not every source has its say: the
\* first that states a size is believed, so one that would confirm the parallelism
\* may be passed over, and an old log may be believed before the model info.
VerdictIsStated ==
  found.kind \in {"tp", "ep"} =>
    LET sizes == Stated(found.kind, found.basis)
    IN  IF sizes = {} THEN found.claim = "none" ELSE found.claim \in sizes

\* A container that ran throughout the collection, and for which no command failed,
\* has its logs in its file at the end, whichever others were missing, stopped or
\* removed meanwhile.
RunningContainersSaved ==
  end = "done" => \A c \in steady : files[c] = "logs"

\* The cold request of benchmark_long_context is the server's first of that context,
\* whatever an earlier run sent; the warm ones follow a first request that returned,
\* and a speedup is reported only when that one was answered with a chunk.  (An empty
\* 200 is taken for a cold time of zero, and the warm requests follow.)
ColdThenWarm ==
  /\ found.kind = "cold" => found.basis = "unseen"
  /\ found.kind = "warm" => found.basis \in {"ms", "zero"}
  /\ found.kind = "row" /\ found.claim.speedup => found.basis = "ms"

\* The TTFT benchmark keeps times to a first token and nothing else.
SamplesAreFirstTokens == Range(times) \cap {"elapsed"} = {}

\* A pool whose requests have all returned, with an answer, a failure or an
\* exception, is left: as_completed yields every future or raises, Ctrl-C or not.
PoolIsLeft == mode \in {"pool", "exit"} /\ InFlight = {} ~> mode \notin {"pool", "exit"}
=============================================================================
