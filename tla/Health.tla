------------------------------- MODULE Health -------------------------------
(***************************************************************************)
(* Active health checks (router/health.go): rounds of concurrent probes,   *)
(* one goroutine per node, that mark a node down or up after a streak of   *)
(* equal results.  Shutdown may abort a round at any point.                *)
(***************************************************************************)
EXTENDS Integers, Sequences, FiniteSetsExt

CONSTANTS
  Nodes,
  UnhealthyThreshold,  \* HealthOptions.UnhealthyThreshold
  HealthyThreshold,    \* HealthOptions.HealthyThreshold
  MaxRounds            \* bound: rounds of ProbeAll

ASSUME HealthAssumption ==
  {UnhealthyThreshold, HealthyThreshold, MaxRounds} \subseteq Nat \ {0}

VARIABLES
  running,  \* the context of StartHealthChecks has not ended
  pc,       \* each probe goroutine: "idle", "probing", "counting" or "setting"
  ok,       \* ok[n]: what the probe of n returned
  fails,    \* probeState.fails
  oks,      \* probeState.oks
  up,       \* Node.up
  round,    \* rounds started
  answers   \* history: the answers of each node, aborted probes left out

vars == <<running, pc, ok, fails, oks, up, round, answers>>

Init ==
  /\ running = TRUE
  /\ pc = [n \in Nodes |-> "idle"]
  /\ ok = [n \in Nodes |-> FALSE]
  /\ fails = [n \in Nodes |-> 0]
  /\ oks = [n \in Nodes |-> 0]
  /\ up = [n \in Nodes |-> TRUE]
  /\ round = 0
  /\ answers = [n \in Nodes |-> <<>>]

\* The ticker starts ProbeAll again once wg.Wait has returned.
StartRound ==
  /\ running
  /\ \A n \in Nodes : pc[n] = "idle"
  /\ round < MaxRounds
  /\ round' = round + 1
  /\ pc' = [n \in Nodes |-> "probing"]
  /\ UNCHANGED <<running, ok, fails, oks, up, answers>>

\* probe returns the node's answer; a node that is silent for too long says no.
\* After the context has ended the result is dropped.
Answer(n, answer) ==
  /\ pc[n] = "probing" /\ running
  /\ ok' = [ok EXCEPT ![n] = answer]
  /\ answers' = [answers EXCEPT ![n] = Append(@, answer)]
  /\ pc' = [pc EXCEPT ![n] = "counting"]
  /\ UNCHANGED <<running, fails, oks, up, round>>

Aborted(n) ==
  /\ pc[n] = "probing" /\ ~running
  /\ pc' = [pc EXCEPT ![n] = "idle"]
  /\ UNCHANGED <<running, ok, fails, oks, up, round, answers>>

\* Mutant: a success does not interrupt a run of failures.
Count_NoReset(n) ==
  /\ pc[n] = "counting"
  /\ oks' = [oks EXCEPT ![n] = IF ok[n] THEN @ + 1 ELSE 0]
  /\ fails' = [fails EXCEPT ![n] = IF ok[n] THEN @ ELSE @ + 1]
  /\ pc' = [pc EXCEPT ![n] = "setting"]
  /\ UNCHANGED <<running, ok, up, round, answers>>

\* The counters, under the mutex of the round.
Count(n) ==
  /\ pc[n] = "counting"
  /\ oks' = [oks EXCEPT ![n] = IF ok[n] THEN @ + 1 ELSE 0]
  /\ fails' = [fails EXCEPT ![n] = IF ok[n] THEN 0 ELSE @ + 1]
  /\ pc' = [pc EXCEPT ![n] = "setting"]
  /\ UNCHANGED <<running, ok, up, round, answers>>

\* SetUp, after the mutex is released.
Mark(n) ==
  /\ pc[n] = "setting"
  /\ up' = [up EXCEPT ![n] = \/ ok[n] /\ oks[n] >= HealthyThreshold
                             \/ @ /\ (ok[n] \/ fails[n] < UnhealthyThreshold)]
  /\ pc' = [pc EXCEPT ![n] = "idle"]
  /\ UNCHANGED <<running, ok, fails, oks, round, answers>>

Shutdown ==
  /\ running
  /\ running' = FALSE
  /\ UNCHANGED <<pc, ok, fails, oks, up, round, answers>>

Next ==
  \/ StartRound
  \/ \E n \in Nodes : Aborted(n) \/ Count(n) \/ Mark(n)
  \/ \E n \in Nodes, answer \in BOOLEAN : Answer(n, answer)
  \/ Shutdown
  \/ ~running /\ (\A n \in Nodes : pc[n] = "idle") /\ UNCHANGED vars

Spec == Init /\ [][Next]_vars

-----------------------------------------------------------------------------
\* The ends of the streaks of k answers a in the history h.
StreakEnds(h, a, k) ==
  {i \in k..Len(h) : \A j \in (i - k + 1)..i : h[j] = a}

\* What a reader of StartHealthChecks expects: the latest full streak decides,
\* and a node nobody has answered for is up.
Expected(h) ==
  LET good == StreakEnds(h, TRUE, HealthyThreshold)
      bad  == StreakEnds(h, FALSE, UnhealthyThreshold)
  IN  good \cup bad # {} => Max(good \cup bad) \in good

\* Whenever a node's goroutine is not at work, the node is up exactly when its
\* answers say so: no streak is missed, cut short or counted across a node, and
\* probes aborted by the shutdown leave no trace.
StreakDecides ==
  \A n \in Nodes : pc[n] \in {"idle", "probing"} => up[n] = Expected(answers[n])
=============================================================================
