---------------------------- MODULE HealthProofs ----------------------------
(***************************************************************************)
(* Proof that the counters of the health checks decide as the history of   *)
(* answers says, for any nodes, thresholds and number of rounds.           *)
(***************************************************************************)
EXTENDS Health, TLAPS

(***************************************************************************)
(* The inductive invariant.  Each counter is the length of the run of      *)
(* equal answers at the end of the history.  While a goroutine is at work  *)
(* its last answer is in the history but not yet in the counters, or not   *)
(* yet in up.                                                              *)
(***************************************************************************)
History == Seq(BOOLEAN)

EndRun(h, a, k) ==
  /\ k \in 0..Len(h)
  /\ \A j \in (Len(h) - k + 1)..Len(h) : h[j] = a
  /\ k < Len(h) => h[Len(h) - k] # a

Counted(h, good, bad) == EndRun(h, TRUE, good) /\ EndRun(h, FALSE, bad)

Typed ==
  /\ running \in BOOLEAN
  /\ pc \in [Nodes -> {"idle", "probing", "counting", "setting"}]
  /\ ok \in [Nodes -> BOOLEAN]
  /\ fails \in [Nodes -> Nat] /\ oks \in [Nodes -> Nat]
  /\ up \in [Nodes -> BOOLEAN]
  /\ answers \in [Nodes -> History]

\* What is true of one node's history, answer, counters and up flag.
Settled(h, good, bad, isUp) == Counted(h, good, bad) /\ isUp = Expected(h)

Answered(h, a, good, bad, isUp) ==
  \E g \in History : h = Append(g, a) /\ Settled(g, good, bad, isUp)

Summed(h, a, good, bad, isUp) ==
  /\ Counted(h, good, bad)
  /\ \E g \in History : h = Append(g, a) /\ isUp = Expected(g)

NodeInv(n) ==
  /\ pc[n] \in {"idle", "probing"} => Settled(answers[n], oks[n], fails[n], up[n])
  /\ pc[n] = "counting" => Answered(answers[n], ok[n], oks[n], fails[n], up[n])
  /\ pc[n] = "setting" => Summed(answers[n], ok[n], oks[n], fails[n], up[n])

IInv == Typed /\ \A n \in Nodes : NodeInv(n)

-----------------------------------------------------------------------------
(* Facts about histories.                                                  *)

LEMMA Appended ==
  ASSUME NEW g \in History, NEW a \in BOOLEAN
  PROVE  /\ Append(g, a) \in History
         /\ Len(g) \in Nat /\ Len(Append(g, a)) = Len(g) + 1
         /\ Append(g, a)[Len(g) + 1] = a
         /\ \A j \in 1..Len(g) : Append(g, a)[j] = g[j] /\ g[j] \in BOOLEAN
BY DEF History

\* An answer that agrees makes the run one longer, any other ends it.
LEMMA RunGrows ==
  ASSUME NEW g \in History, NEW a \in BOOLEAN, NEW k \in Nat, EndRun(g, a, k)
  PROVE  EndRun(Append(g, a), a, k + 1)
<1> DEFINE h == Append(g, a)
<1>1. Len(g) \in Nat /\ Len(h) = Len(g) + 1 /\ h[Len(g) + 1] = a
  BY Appended
<1>2. \A j \in 1..Len(g) : h[j] = g[j]
  BY Appended
<1> HIDE DEF h
<1>3. k <= Len(g)
  BY <1>1 DEF EndRun
<1>4. ASSUME NEW j \in (Len(h) - (k + 1) + 1)..Len(h) PROVE h[j] = a
  <2>1. CASE j = Len(g) + 1
    BY <1>1, <2>1
  <2>2. CASE j # Len(g) + 1
    <3>1. j \in (Len(g) - k + 1)..Len(g) /\ j \in 1..Len(g)
      BY <1>1, <1>3, <2>2
    <3> QED BY <1>2, <3>1 DEF EndRun
  <2> QED BY <2>1, <2>2
<1>5. k + 1 < Len(h) => h[Len(h) - (k + 1)] # a
  <2> SUFFICES ASSUME k + 1 < Len(h) PROVE h[Len(h) - (k + 1)] # a
    OBVIOUS
  <2>1. k < Len(g) /\ Len(h) - (k + 1) = Len(g) - k /\ Len(g) - k \in 1..Len(g)
    BY <1>1
  <2> QED BY <1>2, <2>1 DEF EndRun
<1>6. k + 1 \in 0..Len(h)
  BY <1>1, <1>3
<1> QED BY <1>4, <1>5, <1>6 DEF EndRun, h

LEMMA RunEnds ==
  ASSUME NEW g \in History, NEW a \in BOOLEAN, NEW b \in BOOLEAN, a # b
  PROVE  EndRun(Append(g, b), a, 0)
<1> DEFINE h == Append(g, b)
<1>1. Len(h) = Len(g) + 1 /\ Len(g) \in Nat /\ h[Len(g) + 1] = b
  BY Appended
<1> HIDE DEF h
<1>2. h[Len(h) - 0] # a /\ 0 \in 0 .. Len(h)
  BY <1>1
<1>3. \A j \in (Len(h) - 0 + 1) .. Len(h) : h[j] = a
  BY <1>1
<1> QED BY <1>2, <1>3 DEF EndRun, h

\* A new answer adds an end of a streak exactly when the run is long enough.
LEMMA StreakAdded ==
  ASSUME NEW g \in History, NEW a \in BOOLEAN, NEW b \in BOOLEAN,
         NEW k \in Nat \ {0}, NEW c \in Nat, EndRun(Append(g, b), a, c)
  PROVE  StreakEnds(Append(g, b), a, k) =
           IF c >= k THEN StreakEnds(g, a, k) \cup {Len(g) + 1} ELSE StreakEnds(g, a, k)
<1> DEFINE h == Append(g, b)
<1>1. Len(g) \in Nat /\ Len(h) = Len(g) + 1
  BY Appended
<1>2. \A j \in 1..Len(g) : h[j] = g[j]
  BY Appended
<1> HIDE DEF h
<1>3. EndRun(h, a, c)
  BY DEF h
<1>4. ASSUME NEW i \in k..Len(g)
      PROVE  i \in StreakEnds(h, a, k) <=> i \in StreakEnds(g, a, k)
  <2>1. \A j \in (i - k + 1)..i : h[j] = g[j]
    BY <1>1, <1>2
  <2>2. i \in k..Len(h)
    BY <1>1
  <2> QED BY <2>1, <2>2 DEF StreakEnds
<1>5. c >= k => Len(g) + 1 \in StreakEnds(h, a, k)
  <2> SUFFICES ASSUME c >= k PROVE Len(h) \in StreakEnds(h, a, k)
    BY <1>1
  <2>1. c <= Len(h) /\ \A j \in (Len(h) - c + 1)..Len(h) : h[j] = a
    BY <1>1, <1>3 DEF EndRun
  <2>2. \A j \in (Len(h) - k + 1)..Len(h) : j \in (Len(h) - c + 1)..Len(h)
    BY <1>1
  <2>3. Len(h) \in k..Len(h)
    BY <1>1, <2>1
  <2> QED BY <2>1, <2>2, <2>3 DEF StreakEnds
<1>6. c < k => Len(g) + 1 \notin StreakEnds(h, a, k)
  <2> SUFFICES ASSUME c < k, Len(h) \in StreakEnds(h, a, k) PROVE FALSE
    BY <1>1
  <2>1. Len(h) \in k..Len(h) /\ \A j \in (Len(h) - k + 1)..Len(h) : h[j] = a
    BY DEF StreakEnds
  <2>2. c < Len(h) /\ Len(h) - c \in (Len(h) - k + 1)..Len(h)
    BY <1>1, <2>1
  <2> QED BY <1>3, <2>1, <2>2, SMTT(30) DEF EndRun
<1>7. StreakEnds(h, a, k) \subseteq k..(Len(g) + 1) /\ StreakEnds(g, a, k) \subseteq k..Len(g)
  BY <1>1 DEF StreakEnds
<1>8. \A i \in k..(Len(g) + 1) : i \in k..Len(g) \/ i = Len(g) + 1
  BY <1>1
<1>9. Len(g) + 1 \notin k..Len(g)
  BY <1>1
<1>10. CASE c >= k
  <2>1. StreakEnds(h, a, k) = StreakEnds(g, a, k) \cup {Len(g) + 1}
    BY <1>4, <1>5, <1>7, <1>8, <1>10
  <2> QED BY <1>10, <2>1 DEF h
<1>11. CASE c < k
  <2>1. StreakEnds(h, a, k) = StreakEnds(g, a, k)
    BY <1>4, <1>6, <1>7, <1>8, <1>11
  <2> QED BY <1>11, <2>1 DEF h
<1> QED BY <1>10, <1>11

LEMMA MaxIs ==
  ASSUME NEW S, S \subseteq Nat, NEW m \in S, \A s \in S : s <= m
  PROVE  Max(S) = m
<1>1. \A s \in S : m >= s
  OBVIOUS
<1>2. \A x \in S : (\A s \in S : x >= s) => x = m
  OBVIOUS
<1> QED BY <1>1, <1>2 DEF Max

\* What Mark computes from the counters is what the longer history says.
LEMMA ExpectedNext ==
  ASSUME NEW g \in History, NEW b \in BOOLEAN, NEW good \in Nat, NEW bad \in Nat,
         Counted(Append(g, b), good, bad)
  PROVE  Expected(Append(g, b)) <=>
           \/ b /\ good >= HealthyThreshold
           \/ Expected(g) /\ (b \/ bad < UnhealthyThreshold)
<1> DEFINE h == Append(g, b)
           G == StreakEnds(g, TRUE, HealthyThreshold)
           B == StreakEnds(g, FALSE, UnhealthyThreshold)
           last == Len(g) + 1
<1>1. HealthyThreshold \in Nat \ {0} /\ UnhealthyThreshold \in Nat \ {0}
  BY HealthAssumption
<1>2. StreakEnds(h, TRUE, HealthyThreshold) = IF good >= HealthyThreshold THEN G \cup {last} ELSE G
  BY <1>1, StreakAdded DEF Counted
<1>3. StreakEnds(h, FALSE, UnhealthyThreshold) = IF bad >= UnhealthyThreshold THEN B \cup {last} ELSE B
  BY <1>1, StreakAdded DEF Counted
<1>4. Len(g) \in Nat /\ Len(h) = last /\ h[last] = b
  BY Appended
<1>5. G \subseteq 1..Len(g) /\ B \subseteq 1..Len(g)
  BY <1>1, <1>4 DEF StreakEnds
<1>6. (b => bad = 0) /\ (~b => good = 0)
  <2>1. ASSUME NEW a \in BOOLEAN, NEW k \in Nat, EndRun(h, a, k), k # 0
        PROVE  b = a
    <3>1. last \in (Len(h) - k + 1)..Len(h)
      BY <1>4, <2>1
    <3> QED BY <1>4, <2>1, <3>1 DEF EndRun
  <2> QED BY <2>1 DEF Counted
<1>7. /\ Expected(g) <=> (G \cup B # {} => Max(G \cup B) \in G)
      /\ Expected(h) <=>
           LET S == StreakEnds(h, TRUE, HealthyThreshold)
               T == StreakEnds(h, FALSE, UnhealthyThreshold)
           IN  S \cup T # {} => Max(S \cup T) \in S
  BY DEF Expected
<1> HIDE DEF h, G, B
<1>8. \A S : S \subseteq 1..Len(g) => Max(S \cup {last}) = last
  <2> SUFFICES ASSUME NEW S, S \subseteq 1..Len(g) PROVE Max(S \cup {last}) = last
    OBVIOUS
  <2>1. ASSUME NEW s \in S \cup {last} PROVE s \in Nat /\ s <= last
    BY <1>4
  <2> QED BY <2>1, MaxIs
<1>9. CASE good >= HealthyThreshold
  <2>1. b /\ bad < UnhealthyThreshold
    BY <1>1, <1>6, <1>9
  <2>2. StreakEnds(h, TRUE, HealthyThreshold) = G \cup {last}
    BY <1>2, <1>9
  <2>3. StreakEnds(h, FALSE, UnhealthyThreshold) = B
    <3>1. ~(bad >= UnhealthyThreshold)
      BY <1>1, <2>1
    <3> QED BY <1>3, <3>1
  <2>4. (G \cup {last}) \cup B = (G \cup B) \cup {last} /\ G \cup B \subseteq 1..Len(g)
    BY <1>5
  <2>5. Expected(h)
    BY <1>7, <1>8, <2>2, <2>3, <2>4
  <2> QED BY <1>9, <2>1, <2>5 DEF h
<1>10. CASE bad >= UnhealthyThreshold
  <2>1. ~b /\ ~(good >= HealthyThreshold)
    BY <1>1, <1>6, <1>10
  <2>2. StreakEnds(h, TRUE, HealthyThreshold) = G
    BY <1>2, <2>1
  <2>3. StreakEnds(h, FALSE, UnhealthyThreshold) = B \cup {last}
    BY <1>3, <1>10
  <2>4. G \cup (B \cup {last}) = (G \cup B) \cup {last} /\ G \cup B \subseteq 1..Len(g)
    BY <1>5
  <2>5. last \notin G
    BY <1>4, <1>5
  <2>6. ~Expected(h)
    BY <1>7, <1>8, <2>2, <2>3, <2>4, <2>5
  <2>7. ~(bad < UnhealthyThreshold)
    BY <1>1, <1>10
  <2> QED BY <2>1, <2>6, <2>7 DEF h
<1>11. CASE ~(good >= HealthyThreshold) /\ ~(bad >= UnhealthyThreshold)
  <2>1. Expected(h) <=> Expected(g)
    <3>1. StreakEnds(h, TRUE, HealthyThreshold) = G
      BY <1>2, <1>11
    <3>2. StreakEnds(h, FALSE, UnhealthyThreshold) = B
      BY <1>3, <1>11
    <3> QED BY <1>7, <3>1, <3>2
  <2>2. bad < UnhealthyThreshold
    BY <1>1, <1>11
  <2> QED BY <1>11, <2>1, <2>2 DEF h
<1> QED BY <1>9, <1>10, <1>11

-----------------------------------------------------------------------------
LEMMA InitInv == Init => IInv
<1> SUFFICES ASSUME Init PROVE IInv
  OBVIOUS
<1>1. Typed
  BY DEF Init, Typed, History
<1>2. Counted(<<>>, 0, 0)
  BY DEF Counted, EndRun
<1>3. Expected(<<>>) = TRUE
  <2>1. StreakEnds(<<>>, TRUE, HealthyThreshold) = {} /\ StreakEnds(<<>>, FALSE, UnhealthyThreshold) = {}
    BY HealthAssumption DEF StreakEnds
  <2> QED BY <2>1 DEF Expected
<1>4. \A n \in Nodes : NodeInv(n)
  BY <1>2, <1>3 DEF Init, NodeInv, Settled
<1> QED BY <1>1, <1>4 DEF IInv

\* A step that leaves a node's goroutine alone, or is not seen by it.
LEMMA OtherNode ==
  ASSUME NEW m \in Nodes, NodeInv(m),
         \/ pc'[m] = pc[m]
         \/ pc[m] \in {"idle", "probing"} /\ pc'[m] \in {"idle", "probing"},
         ok'[m] = ok[m], fails'[m] = fails[m], oks'[m] = oks[m],
         up'[m] = up[m], answers'[m] = answers[m]
  PROVE  NodeInv(m)'
BY DEF NodeInv

LEMMA AnswerInv ==
  ASSUME IInv, NEW n \in Nodes, NEW a \in BOOLEAN, Answer(n, a)
  PROVE  IInv'
<1>1. answers[n] \in History
  BY DEF IInv, Typed
<1>2. Typed'
  BY <1>1, Appended DEF IInv, Typed, Answer
<1>3. NodeInv(n)'
  <2>1. Settled(answers[n], oks[n], fails[n], up[n])
    BY DEF IInv, NodeInv, Answer
  <2>2. /\ answers'[n] = Append(answers[n], a) /\ ok'[n] = a /\ pc'[n] = "counting"
        /\ oks' = oks /\ fails' = fails /\ up' = up
    BY DEF IInv, Typed, Answer
  <2>3. Answered(answers'[n], ok'[n], oks'[n], fails'[n], up'[n])
    BY <1>1, <2>1, <2>2 DEF Answered
  <2> QED BY <2>2, <2>3 DEF NodeInv
<1>4. \A m \in Nodes \ {n} : NodeInv(m)'
  BY OtherNode DEF IInv, Typed, Answer
<1> QED BY <1>2, <1>3, <1>4 DEF IInv

LEMMA CountInv ==
  ASSUME IInv, NEW n \in Nodes, Count(n)
  PROVE  IInv'
<1>1. Typed'
  BY DEF IInv, Typed, Count
<1>2. NodeInv(n)'
  <2>1. PICK g \in History : /\ answers[n] = Append(g, ok[n])
                             /\ Settled(g, oks[n], fails[n], up[n])
    BY DEF IInv, NodeInv, Count, Answered
  <2>2. ok[n] \in BOOLEAN /\ oks[n] \in Nat /\ fails[n] \in Nat
    BY DEF IInv, Typed
  <2>3. /\ pc'[n] = "setting" /\ ok' = ok /\ up' = up /\ answers' = answers
        /\ oks'[n] = IF ok[n] THEN oks[n] + 1 ELSE 0
        /\ fails'[n] = IF ok[n] THEN 0 ELSE fails[n] + 1
    BY DEF IInv, Typed, Count
  <2>4. Counted(answers[n], oks'[n], fails'[n])
    <3>1. CASE ok[n] = TRUE
      BY <2>1, <2>2, <2>3, <3>1, RunGrows, RunEnds DEF Settled, Counted
    <3>2. CASE ok[n] = FALSE
      BY <2>1, <2>2, <2>3, <3>2, RunGrows, RunEnds DEF Settled, Counted
    <3> QED BY <2>2, <3>1, <3>2
  <2>5. Summed(answers'[n], ok'[n], oks'[n], fails'[n], up'[n])
    BY <2>1, <2>3, <2>4 DEF Summed, Settled
  <2> QED BY <2>3, <2>5 DEF NodeInv
<1>3. \A m \in Nodes \ {n} : NodeInv(m)'
  BY OtherNode DEF IInv, Typed, Count
<1> QED BY <1>1, <1>2, <1>3 DEF IInv

LEMMA MarkInv ==
  ASSUME IInv, NEW n \in Nodes, Mark(n)
  PROVE  IInv'
<1>0. up[n] \in BOOLEAN /\ ok[n] \in BOOLEAN /\ oks[n] \in Nat /\ fails[n] \in Nat
  BY DEF IInv, Typed
<1>1. /\ pc'[n] = "idle" /\ oks' = oks /\ fails' = fails /\ answers' = answers
      /\ up'[n] = (\/ ok[n] /\ oks[n] >= HealthyThreshold
                   \/ up[n] /\ (ok[n] \/ fails[n] < UnhealthyThreshold))
  BY DEF IInv, Typed, Mark
<1>2. Typed'
  BY <1>0 DEF IInv, Typed, Mark
<1>3. NodeInv(n)'
  <2>1. PICK g \in History : answers[n] = Append(g, ok[n]) /\ up[n] = Expected(g)
    BY DEF IInv, NodeInv, Mark, Summed
  <2>2. Counted(answers[n], oks[n], fails[n])
    BY DEF IInv, NodeInv, Mark, Summed
  <2>3. up'[n] <=> Expected(answers[n])
    BY <1>0, <1>1, <2>1, <2>2, ExpectedNext
  <2>4. Expected(answers[n]) \in BOOLEAN
    BY DEF Expected
  <2>5. Settled(answers'[n], oks'[n], fails'[n], up'[n])
    BY <1>0, <1>1, <2>2, <2>3, <2>4 DEF Settled
  <2> QED BY <1>1, <2>5 DEF NodeInv
<1>4. \A m \in Nodes \ {n} : NodeInv(m)'
  BY OtherNode DEF IInv, Typed, Mark
<1> QED BY <1>2, <1>3, <1>4 DEF IInv

LEMMA NextInv == IInv /\ [Next]_vars => IInv'
<1> SUFFICES ASSUME IInv, [Next]_vars PROVE IInv'
  OBVIOUS
<1>1. CASE StartRound
  <2>1. Typed'
    BY <1>1 DEF IInv, Typed, StartRound
  <2>2. \A m \in Nodes : NodeInv(m)'
    BY <1>1, OtherNode DEF IInv, StartRound
  <2> QED BY <2>1, <2>2 DEF IInv
<1>2. ASSUME NEW n \in Nodes, Aborted(n) PROVE IInv'
  <2>1. Typed'
    BY <1>2 DEF IInv, Typed, Aborted
  <2>2. \A m \in Nodes : NodeInv(m)'
    BY <1>2, OtherNode DEF IInv, Typed, Aborted
  <2> QED BY <2>1, <2>2 DEF IInv
<1>3. CASE Shutdown \/ UNCHANGED vars
  <2>1. Typed'
    BY <1>3 DEF IInv, Typed, Shutdown, vars
  <2>2. \A m \in Nodes : NodeInv(m)'
    BY <1>3, OtherNode DEF IInv, Shutdown, vars
  <2> QED BY <2>1, <2>2 DEF IInv
<1> QED BY <1>1, <1>2, <1>3, AnswerInv, CountInv, MarkInv DEF Next

\* Whatever the thresholds, the nodes and the number of rounds, ProbeAll's
\* counters mark a node up or down exactly as the history of its answers says.
THEOREM StreaksDecide == Spec => []StreakDecides
<1>1. IInv => StreakDecides
  BY DEF IInv, NodeInv, Settled, StreakDecides
<1> QED BY <1>1, InitInv, NextInv, PTL DEF Spec
=============================================================================
