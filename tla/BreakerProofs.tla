---------------------------- MODULE BreakerProofs ----------------------------
(***************************************************************************)
(* Proofs about the circuit breaker, for any number of callers, any        *)
(* configuration New accepts and any bound on the generation.              *)
(***************************************************************************)
EXTENDS Breaker, FiniteSetTheorems, TLAPS

(***************************************************************************)
(* The inductive invariant.  ProbeAccounting is not inductive by itself:   *)
(* it needs to know that no ticket comes from the future, that an open     *)
(* breaker has no ticket of its own generation (so that the half-open      *)
(* period starts with no probe), and where the counters are zero.          *)
(***************************************************************************)
TicketsFromThePast == \A c \in holds : ticket[c].gen <= br.gen

Bounds ==
  /\ br.curOpen \in openDuration .. maxOpenDuration
  /\ br.cool <= br.curOpen
  /\ br.state # "open" => br.cool = 0
  /\ br.state # "closed" => br.consecFail = 0
  /\ br.state = "closed" => br.consecFail < failureThreshold

IInv ==
  /\ TypeOK
  /\ Bounds
  /\ TicketsFromThePast
  /\ br.state = "open" => Current = {}
  /\ ProbeAccounting

-----------------------------------------------------------------------------
\* New clamps any configuration to usable values.
LEMMA ConfigClamped ==
  /\ failureThreshold \in Nat \ {0}
  /\ halfOpenMax \in Nat \ {0}
  /\ openDuration \in Nat \ {0}
  /\ maxOpenDuration \in Nat
  /\ openDuration <= maxOpenDuration
BY BreakerConfigAssumption
DEF failureThreshold, halfOpenMax, openDuration, maxOpenDuration, AtLeast

\* setLocked to another state moves to a new generation and nothing else.
LEMMA SetEffect ==
  ASSUME NEW b \in BreakerType, NEW to \in States, b.state # to
  PROVE  /\ setLocked(b, to) \in BreakerType
         /\ setLocked(b, to).state = to
         /\ setLocked(b, to).gen = b.gen + 1
         /\ setLocked(b, to).consecFail = b.consecFail
         /\ setLocked(b, to).cool = b.cool
         /\ setLocked(b, to).curOpen = b.curOpen
         /\ setLocked(b, to).halfInFlight = b.halfInFlight
<1> DEFINE z == [b EXCEPT !.state = to, !.gen = @ + 1]
<1>0. b.gen + 1 \in Nat
  BY DEF BreakerType
<1>1. z \in BreakerType
  BY <1>0 DEF BreakerType, States
<1>2. /\ z.state = to /\ z.gen = b.gen + 1 /\ z.consecFail = b.consecFail
      /\ z.cool = b.cool /\ z.curOpen = b.curOpen
      /\ z.halfInFlight = b.halfInFlight
  BY DEF BreakerType
<1>3. setLocked(b, to) = z
  BY DEF setLocked
<1> HIDE DEF z
<1> QED BY <1>1, <1>2, <1>3

\* advanceLocked starts an empty half-open period once the cool-down is over.
LEMMA AdvanceEffect ==
  ASSUME NEW b \in BreakerType
  PROVE  /\ advanceLocked(b) \in BreakerType
         /\ advanceLocked(b).consecFail = b.consecFail
         /\ advanceLocked(b).cool = b.cool
         /\ advanceLocked(b).curOpen = b.curOpen
         /\ b.state = "open" /\ b.cool = 0 =>
              /\ advanceLocked(b).state = "half_open"
              /\ advanceLocked(b).gen = b.gen + 1
              /\ advanceLocked(b).halfInFlight = 0
         /\ ~(b.state = "open" /\ b.cool = 0) => advanceLocked(b) = b
<1> DEFINE z == [b EXCEPT !.halfInFlight = 0]
<1>1. z \in BreakerType
  BY DEF BreakerType
<1>2. /\ z.state = b.state /\ z.gen = b.gen /\ z.consecFail = b.consecFail
      /\ z.cool = b.cool /\ z.curOpen = b.curOpen /\ z.halfInFlight = 0
  BY DEF BreakerType
<1>3. b.state = "open" /\ b.cool = 0 => advanceLocked(b) = setLocked(z, "half_open")
  BY DEF advanceLocked
<1>4. ~(b.state = "open" /\ b.cool = 0) => advanceLocked(b) = b
  BY DEF advanceLocked
<1> HIDE DEF z
<1> QED BY <1>1, <1>2, <1>3, <1>4, SetEffect DEF States

\* tripLocked opens the breaker for curOpen ticks and starts a new generation.
LEMMA TripEffect ==
  ASSUME NEW b \in BreakerType, b.state # "open"
  PROVE  /\ tripLocked(b) \in BreakerType
         /\ tripLocked(b).state = "open"
         /\ tripLocked(b).gen = b.gen + 1
         /\ tripLocked(b).consecFail = 0
         /\ tripLocked(b).cool = b.curOpen
         /\ tripLocked(b).curOpen = b.curOpen
<1> DEFINE z == [b EXCEPT !.consecFail = 0, !.cool = b.curOpen]
<1>1. z \in BreakerType
  BY DEF BreakerType
<1>2. /\ z.state = b.state /\ z.gen = b.gen /\ z.consecFail = 0
      /\ z.cool = b.curOpen /\ z.curOpen = b.curOpen
  BY DEF BreakerType
<1>3. tripLocked(b) = setLocked(z, "open")
  BY DEF tripLocked
<1> HIDE DEF z
<1> QED BY <1>1, <1>2, <1>3, SetEffect DEF States

LEMMA CurrentFinite == TypeOK => IsFiniteSet(Current) /\ Cardinality(Current) \in Nat
<1> SUFFICES ASSUME TypeOK PROVE IsFiniteSet(Current)
  BY FS_CardinalityType
<1>1. Current \subseteq Callers
  BY DEF TypeOK, Current
<1> QED BY <1>1, CallersAssumption, FS_Subset

-----------------------------------------------------------------------------
(***************************************************************************)
(* What each operation does to the fields of the breaker.                  *)
(***************************************************************************)
Is(b, state, gen, consecFail, cool, curOpen) ==
  /\ b \in BreakerType
  /\ b.state = state
  /\ b.gen = gen
  /\ b.consecFail = consecFail
  /\ b.cool = cool
  /\ b.curOpen = curOpen

LEMMA AllowEffect ==
  ASSUME NEW b \in BreakerType, Available(b)
  PROVE  LET a == advanceLocked(b) IN
         /\ Is(Allow(b), a.state, a.gen, a.consecFail, a.cool, a.curOpen)
         /\ a.state \in {"closed", "half_open"}
         /\ a.state = "half_open" =>
              /\ a.halfInFlight < halfOpenMax
              /\ Allow(b).halfInFlight = a.halfInFlight + 1
         /\ AllowTicket(b) \in Ticket
         /\ AllowTicket(b).gen = a.gen
         /\ AllowTicket(b).probe = (a.state = "half_open")
<1> DEFINE a == advanceLocked(b)
           z == [a EXCEPT !.halfInFlight = @ + 1]
           t == AllowTicket(b)
<1>1. a \in BreakerType
  BY AdvanceEffect
<1>2. /\ a.state \in {"closed", "half_open"}
      /\ a.state = "half_open" => a.halfInFlight < halfOpenMax
  BY DEF Available
<1>3. Allow(b) = IF a.state = "half_open" THEN z ELSE a
  BY DEF Allow
<1>4. t = [probe |-> a.state = "half_open", gen |-> a.gen]
  BY DEF AllowTicket
<1> HIDE DEF a, t
<1>5. t \in Ticket /\ t.gen = a.gen /\ t.probe = (a.state = "half_open")
  BY <1>1, <1>4 DEF Ticket, BreakerType
<1>6. /\ z \in BreakerType
      /\ z.state = a.state /\ z.gen = a.gen /\ z.consecFail = a.consecFail
      /\ z.cool = a.cool /\ z.curOpen = a.curOpen
      /\ z.halfInFlight = a.halfInFlight + 1
  BY <1>1 DEF BreakerType
<1> HIDE DEF z
<1>7. Is(Allow(b), a.state, a.gen, a.consecFail, a.cool, a.curOpen)
  BY <1>1, <1>3, <1>6 DEF Is
<1> QED BY <1>2, <1>3, <1>5, <1>6, <1>7 DEF a, t

LEMMA SucceedEffect ==
  ASSUME NEW b \in BreakerType, NEW t \in Ticket
  PROVE  /\ b.state = "closed" =>
              Is(Succeed(b, t), "closed", b.gen, 0, b.cool, b.curOpen)
         /\ b.state = "half_open" /\ t.probe =>
              Is(Succeed(b, t), "closed", b.gen + 1, 0, b.cool, openDuration)
<1> DEFINE y == [b EXCEPT !.consecFail = 0]
           z == [b EXCEPT !.consecFail = 0, !.curOpen = openDuration]
<1>1. Is(y, b.state, b.gen, 0, b.cool, b.curOpen)
  BY DEF BreakerType, Is
<1>2. z \in BreakerType
  BY ConfigClamped DEF BreakerType
<1>3. /\ z.state = b.state /\ z.gen = b.gen /\ z.consecFail = 0
      /\ z.cool = b.cool /\ z.curOpen = openDuration
  BY DEF BreakerType
<1>4. b.state = "closed" => Succeed(b, t) = y
  BY DEF Succeed
<1>5. b.state = "half_open" /\ t.probe => Succeed(b, t) = setLocked(z, "closed")
  BY DEF Succeed
<1> HIDE DEF y, z
<1>6. b.state = "half_open" =>
        Is(setLocked(z, "closed"), "closed", b.gen + 1, 0, b.cool, openDuration)
  BY <1>2, <1>3, SetEffect DEF Is, States
<1> QED BY <1>1, <1>4, <1>5, <1>6

\* The cool-down after a failed probe.
Doubled(d) == IF 2 * d > maxOpenDuration THEN maxOpenDuration ELSE 2 * d

LEMMA FailEffect ==
  ASSUME NEW b \in BreakerType, NEW t \in Ticket
  PROVE  /\ b.state = "closed" /\ b.consecFail + 1 < failureThreshold =>
              Is(Fail(b, t), "closed", b.gen, b.consecFail + 1, b.cool, b.curOpen)
         /\ b.state = "closed" /\ b.consecFail + 1 >= failureThreshold =>
              Is(Fail(b, t), "open", b.gen + 1, 0, b.curOpen, b.curOpen)
         /\ b.state = "half_open" /\ t.probe =>
              Is(Fail(b, t), "open", b.gen + 1, 0,
                 Doubled(b.curOpen), Doubled(b.curOpen))
<1> DEFINE y == [b EXCEPT !.consecFail = @ + 1]
           z == [b EXCEPT !.curOpen = Doubled(b.curOpen)]
<1>1. Is(y, b.state, b.gen, b.consecFail + 1, b.cool, b.curOpen)
  BY DEF BreakerType, Is
<1>2. Doubled(b.curOpen) \in Nat
  BY ConfigClamped DEF Doubled, BreakerType
<1>3. z \in BreakerType
  BY <1>2 DEF BreakerType
<1>4. /\ z.state = b.state /\ z.gen = b.gen /\ z.curOpen = Doubled(b.curOpen)
  BY DEF BreakerType
<1>5. b.state = "closed" /\ b.consecFail + 1 < failureThreshold => Fail(b, t) = y
  BY ConfigClamped DEF Fail, BreakerType
<1>6. b.state = "closed" /\ b.consecFail + 1 >= failureThreshold =>
        Fail(b, t) = tripLocked(b)
  BY DEF Fail
<1>7. b.state = "half_open" /\ t.probe => Fail(b, t) = tripLocked(z)
  BY DEF Fail, Doubled
<1> HIDE DEF y, z
<1>8. b.state = "half_open" =>
        Is(tripLocked(z), "open", b.gen + 1, 0, Doubled(b.curOpen), Doubled(b.curOpen))
  BY <1>3, <1>4, TripEffect DEF Is
<1>9. b.state = "closed" =>
        Is(tripLocked(b), "open", b.gen + 1, 0, b.curOpen, b.curOpen)
  BY TripEffect DEF Is
<1> QED BY <1>1, <1>5, <1>6, <1>7, <1>8, <1>9

-----------------------------------------------------------------------------
(***************************************************************************)
(* The effect of a hand-back on the callers that count.                    *)
(***************************************************************************)
LEMMA CurrentAfter ==
  ASSUME IInv, NEW c \in Callers, HandBack(c), br' \in BreakerType
  PROVE  /\ br'.gen = br.gen => Current' = Current \ {c}
         /\ br'.gen = br.gen + 1 => Current' = {}
<1>1. /\ c \in holds /\ holds' = holds \ {c}
      /\ \A d \in Callers : d # c => ticket'[d] = ticket[d]
  BY DEF HandBack, IInv, TypeOK
<1>2. holds \subseteq Callers
  BY DEF IInv, TypeOK
<1>3. \A d \in holds : ticket[d].gen \in Nat /\ ticket[d].gen <= br.gen
  BY DEF IInv, TypeOK, TicketsFromThePast, Ticket
<1>4. br.gen \in Nat
  BY DEF IInv, TypeOK, BreakerType
<1>5. br'.gen = br.gen => Current' = Current \ {c}
  BY <1>1, <1>2 DEF Current
<1>6. br'.gen = br.gen + 1 => Current' = {}
  BY <1>1, <1>2, <1>3, <1>4 DEF Current
<1> QED BY <1>5, <1>6

\* Done, by cases.  Only a caller of the present stay can do more than advance.
LEMMA DoneCases ==
  ASSUME IInv, NEW c \in Callers, NEW success \in BOOLEAN, DoneCall(c, success)
  PROVE  \/ c \notin Current /\ br' = advanceLocked(br)
         \/ /\ c \in Current /\ br.state = "closed"
            /\ Is(br', "closed", br.gen, 0, br.cool, br.curOpen)
         \/ /\ c \in Current /\ br.state = "closed"
            /\ br.consecFail + 1 < failureThreshold
            /\ Is(br', "closed", br.gen, br.consecFail + 1, br.cool, br.curOpen)
         \/ /\ c \in Current /\ br.state = "closed"
            /\ br.consecFail + 1 >= failureThreshold
            /\ Is(br', "open", br.gen + 1, 0, br.curOpen, br.curOpen)
         \/ /\ c \in Current /\ br.state = "half_open"
            /\ Is(br', "closed", br.gen + 1, 0, br.cool, openDuration)
         \/ /\ c \in Current /\ br.state = "half_open"
            /\ Is(br', "open", br.gen + 1, 0, Doubled(br.curOpen), Doubled(br.curOpen))
<1> DEFINE t == ticket[c]
           a == advanceLocked(br)
<1>1. /\ br \in BreakerType /\ t \in Ticket /\ c \in holds
      /\ t.gen \in Nat /\ br.gen \in Nat /\ t.gen <= br.gen
  BY DEF IInv, TypeOK, DoneCall, HandBack, TicketsFromThePast, Ticket, BreakerType
<1>2. br' = IF t.gen # a.gen THEN a ELSE IF success THEN Succeed(a, t) ELSE Fail(a, t)
  BY DEF DoneCall, Done
<1>3. CASE c \notin Current
  <2>1. t.gen # br.gen
    BY <1>1, <1>3 DEF Current
  <2>2. a.gen = br.gen \/ a.gen = br.gen + 1
    BY <1>1, AdvanceEffect
  <2>3. t.gen # a.gen
    BY <1>1, <2>1, <2>2
  <2> QED BY <1>2, <1>3, <2>3
<1>4. CASE c \in Current
  <2>1. t.gen = br.gen /\ br.state # "open"
    BY <1>4 DEF Current, IInv
  <2>2. a = br
    BY <1>1, <2>1, AdvanceEffect
  <2>3. br' = IF success THEN Succeed(br, t) ELSE Fail(br, t)
    BY <1>2, <2>1, <2>2
  <2>4. br.state \in {"closed", "half_open"}
    BY <1>1, <2>1 DEF BreakerType, States
  <2>5. br.state = "half_open" => t.probe
    BY <1>4 DEF IInv, ProbeAccounting
  <2>6. br.consecFail + 1 < failureThreshold \/ br.consecFail + 1 >= failureThreshold
    BY <1>1, ConfigClamped DEF BreakerType
  <2> HIDE DEF t, a
  <2> QED BY <1>1, <1>4, <2>3, <2>4, <2>5, <2>6, SucceedEffect, FailEffect
<1> QED BY <1>3, <1>4

\* A cancelled caller of a half-open breaker gives its probe slot back, and
\* no other field of any breaker is touched.
LEMMA CancelEffect ==
  ASSUME IInv, NEW c \in Callers, CancelCall(c)
  PROVE  /\ Is(br', br.state, br.gen, br.consecFail, br.cool, br.curOpen)
         /\ br.state = "half_open" =>
              br'.halfInFlight = IF c \in Current THEN br.halfInFlight - 1
                                 ELSE br.halfInFlight
<1> DEFINE t == ticket[c]
           z == [br EXCEPT !.halfInFlight = @ - 1]
<1>1. br \in BreakerType /\ c \in holds
  BY DEF IInv, TypeOK, CancelCall, HandBack
<1>2. br' = IF t.probe /\ br.state = "half_open" /\ t.gen = br.gen /\ br.halfInFlight > 0
            THEN z ELSE br
  BY DEF CancelCall, Cancel
<1>3. br.halfInFlight > 0 =>
        /\ Is(z, br.state, br.gen, br.consecFail, br.cool, br.curOpen)
        /\ z.halfInFlight = br.halfInFlight - 1
  BY <1>1 DEF BreakerType, Is
<1>4. Is(br, br.state, br.gen, br.consecFail, br.cool, br.curOpen)
  BY <1>1 DEF Is
<1>5. br.state = "half_open" /\ c \in Current => t.probe /\ br.halfInFlight > 0
  <2> SUFFICES ASSUME br.state = "half_open", c \in Current
               PROVE  t.probe /\ br.halfInFlight > 0
    OBVIOUS
  <2>1. t.probe /\ br.halfInFlight = Cardinality(Current)
    BY DEF IInv, ProbeAccounting
  <2>2. IsFiniteSet(Current) /\ Current # {} /\ Cardinality(Current) \in Nat
    BY CurrentFinite DEF IInv
  <2>3. Cardinality(Current) # 0
    BY <2>2, FS_EmptySet
  <2> QED BY <2>1, <2>2, <2>3
<1>6. c \in Current <=> t.gen = br.gen
  BY <1>1 DEF Current
<1> HIDE DEF t, z
<1> QED BY <1>2, <1>3, <1>4, <1>5, <1>6

-----------------------------------------------------------------------------
(***************************************************************************)
(* Every action preserves the invariant.                                   *)
(***************************************************************************)
LEMMA InitInv == Init => IInv
<1> SUFFICES ASSUME Init PROVE IInv
  OBVIOUS
<1>1. /\ br \in BreakerType /\ br.state = "closed" /\ br.consecFail = 0
      /\ br.cool = 0 /\ br.curOpen = openDuration
  BY ConfigClamped DEF Init, New, BreakerType, States
<1>2. TypeOK
  BY <1>1 DEF Init, TypeOK, Ticket, NoTicket
<1> QED BY <1>1, <1>2, ConfigClamped
        DEF Init, IInv, Bounds, TicketsFromThePast, ProbeAccounting

\* The lazy promotion starts a half-open period in which no ticket is current.
LEMMA AdvanceInv ==
  ASSUME IInv, br' = advanceLocked(br), holds' \subseteq holds,
         \A c \in holds' : ticket'[c] = ticket[c], TypeOK',
         br.state = "half_open" => Current' = Current
  PROVE  IInv'
<1>1. br \in BreakerType
  BY DEF IInv, TypeOK
<1>2. CASE br.state = "open" /\ br.cool = 0
  <2>1. /\ br'.state = "half_open" /\ br'.gen = br.gen + 1 /\ br'.halfInFlight = 0
        /\ br'.consecFail = br.consecFail /\ br'.cool = br.cool
        /\ br'.curOpen = br.curOpen
    BY <1>1, <1>2, AdvanceEffect
  <2>2. \A c \in holds : ticket[c].gen \in Nat /\ ticket[c].gen <= br.gen /\ br.gen \in Nat
    BY DEF IInv, TypeOK, TicketsFromThePast, Ticket, BreakerType
  <2>3. Current' = {} /\ TicketsFromThePast'
    BY <2>1, <2>2 DEF Current, TicketsFromThePast
  <2>4. Bounds'
    BY <1>2, <2>1 DEF Bounds, IInv
  <2>5. ProbeAccounting'
    BY <2>1, <2>3, FS_EmptySet, ConfigClamped DEF ProbeAccounting
  <2> QED BY <2>1, <2>3, <2>4, <2>5 DEF IInv
<1>3. CASE ~(br.state = "open" /\ br.cool = 0)
  <2>1. br' = br
    BY <1>1, <1>3, AdvanceEffect
  <2>2. Bounds' /\ TicketsFromThePast' /\ Current' \subseteq Current
    BY <2>1 DEF IInv, Bounds, TicketsFromThePast, Current
  <2>3. ProbeAccounting'
    <3>1. CASE br.state = "half_open"
      <4>1. Current' = Current
        BY <3>1
      <4>2. \A c \in Current' : ticket'[c] = ticket[c]
        BY DEF Current
      <4> QED BY <2>1, <4>1, <4>2 DEF IInv, ProbeAccounting
    <3>2. CASE br.state # "half_open"
      BY <2>1, <3>2 DEF ProbeAccounting
    <3> QED BY <3>1, <3>2
  <2> QED BY <2>1, <2>2, <2>3 DEF IInv
<1> QED BY <1>2, <1>3

LEMMA PeekInv == IInv /\ Peek => IInv'
<1> SUFFICES ASSUME IInv, Peek PROVE IInv'
  OBVIOUS
<1>1. br \in BreakerType
  BY DEF IInv, TypeOK
<1>2. br' \in BreakerType /\ TypeOK'
  BY <1>1, AdvanceEffect DEF IInv, TypeOK, Peek
<1>3. br.state = "half_open" => Current' = Current
  BY <1>1, AdvanceEffect DEF Peek, Current
<1> QED BY <1>2, <1>3, AdvanceInv DEF Peek

LEMMA TickInv == IInv /\ Tick => IInv'
<1> SUFFICES ASSUME IInv, Tick PROVE IInv'
  OBVIOUS
<1>1. br \in BreakerType /\ br.cool > 0 /\ br' = [br EXCEPT !.cool = br.cool - 1]
  BY DEF IInv, TypeOK, Tick, Elapse
<1>2. /\ br' \in BreakerType
      /\ br'.state = br.state /\ br'.gen = br.gen /\ br'.consecFail = br.consecFail
      /\ br'.cool = br.cool - 1 /\ br'.curOpen = br.curOpen
      /\ br'.halfInFlight = br.halfInFlight
  BY <1>1 DEF BreakerType
<1>3. TypeOK' /\ Current' = Current /\ TicketsFromThePast'
  BY <1>2 DEF IInv, TypeOK, Tick, Current, TicketsFromThePast
<1>4. Bounds'
  BY <1>1, <1>2 DEF IInv, Bounds, BreakerType
<1>5. ProbeAccounting'
  BY <1>2, <1>3 DEF IInv, ProbeAccounting, Tick
<1> QED BY <1>2, <1>3, <1>4, <1>5 DEF IInv

\* The callers that count once the breaker has been advanced.
Live == IF br.state = "open" /\ br.cool = 0 THEN {} ELSE Current

LEMMA AllowCurrent ==
  ASSUME IInv, NEW c \in Callers, AllowCall(c)
  PROVE  /\ c \notin Live /\ Current' = Live \cup {c}
         /\ ticket'[c].probe = (br'.state = "half_open")
         /\ \A d \in Live : ticket'[d] = ticket[d]
         /\ TypeOK'
         /\ TicketsFromThePast'
<1> DEFINE a == advanceLocked(br)
<1>1. /\ br \in BreakerType /\ holds \subseteq Callers /\ c \notin holds
      /\ holds' = holds \cup {c} /\ ticket \in [Callers -> Ticket]
      /\ Available(br) /\ br' = Allow(br)
      /\ ticket' = [ticket EXCEPT ![c] = AllowTicket(br)]
  BY DEF IInv, TypeOK, AllowCall
<1>2. /\ br' \in BreakerType /\ br'.state = a.state /\ br'.gen = a.gen
      /\ AllowTicket(br) \in Ticket /\ AllowTicket(br).gen = a.gen
      /\ AllowTicket(br).probe = (a.state = "half_open")
  BY <1>1, AllowEffect DEF Is
<1>3. /\ ticket' \in [Callers -> Ticket] /\ ticket'[c] = AllowTicket(br)
      /\ \A d \in holds : ticket'[d] = ticket[d]
  BY <1>1, <1>2
<1>4. TypeOK'
  BY <1>1, <1>2, <1>3 DEF AllowCall, IInv, TypeOK
<1>5. \A d \in holds : ticket[d].gen \in Nat /\ ticket[d].gen <= br.gen /\ br.gen \in Nat
  BY DEF IInv, TypeOK, TicketsFromThePast, Ticket, BreakerType
<1>6. /\ br.state = "open" /\ br.cool = 0 => a.gen = br.gen + 1
      /\ ~(br.state = "open" /\ br.cool = 0) => a.gen = br.gen
  BY <1>1, AdvanceEffect
<1>7. a.gen \in Nat
  BY <1>1, AdvanceEffect DEF BreakerType
<1> HIDE DEF a
<1>8. TicketsFromThePast'
  BY <1>1, <1>2, <1>3, <1>5, <1>6, <1>7 DEF TicketsFromThePast
<1>9. c \notin Live /\ Live \subseteq holds
  BY <1>1 DEF Live, Current
<1>10. Current' = Live \cup {c}
  BY <1>1, <1>2, <1>3, <1>5, <1>6 DEF Live, Current
<1> QED BY <1>2, <1>3, <1>4, <1>8, <1>9, <1>10

LEMMA AllowInv ==
  ASSUME IInv, NEW c \in Callers, AllowCall(c)
  PROVE  IInv'
<1> DEFINE a == advanceLocked(br)
<1>1. br \in BreakerType /\ Available(br) /\ br' = Allow(br)
  BY DEF IInv, TypeOK, AllowCall
<1>2. /\ br'.state = a.state /\ br'.consecFail = a.consecFail
      /\ br'.cool = a.cool /\ br'.curOpen = a.curOpen
      /\ a.state \in {"closed", "half_open"}
      /\ a.state = "half_open" =>
           a.halfInFlight < halfOpenMax /\ br'.halfInFlight = a.halfInFlight + 1
  BY <1>1, AllowEffect DEF Is
<1>3. /\ a.consecFail = br.consecFail /\ a.cool = br.cool /\ a.curOpen = br.curOpen
      /\ br.state = "open" /\ br.cool = 0 => a.state = "half_open" /\ a.halfInFlight = 0
      /\ ~(br.state = "open" /\ br.cool = 0) => a = br
  BY <1>1, AdvanceEffect
<1> HIDE DEF a
<1>4. Bounds'
  BY <1>2, <1>3 DEF IInv, Bounds
<1>5. ProbeAccounting'
  <2> SUFFICES ASSUME br'.state = "half_open"
               PROVE  /\ br'.halfInFlight = Cardinality(Current')
                      /\ br'.halfInFlight <= halfOpenMax
                      /\ \A d \in Current' : ticket'[d].probe
    BY DEF ProbeAccounting
  <2>1. IsFiniteSet(Live)
    BY CurrentFinite, FS_EmptySet DEF IInv, Live
  <2>2. Cardinality(Current') = Cardinality(Live) + 1
    BY <2>1, AllowCurrent, FS_AddElement
  <2>3. a.halfInFlight = Cardinality(Live) /\ \A d \in Live : ticket[d].probe
    BY <1>2, <1>3, FS_EmptySet DEF IInv, ProbeAccounting, Live
  <2>4. a.halfInFlight \in Nat
    BY <2>1, <2>3, FS_CardinalityType
  <2>5. \A d \in Current' : ticket'[d].probe
    <3>1. /\ Current' = Live \cup {c} /\ ticket'[c].probe = (br'.state = "half_open")
          /\ \A d \in Live : ticket'[d] = ticket[d]
      BY AllowCurrent
    <3>2. ticket'[c].probe
      BY <3>1
    <3>3. \A d \in Live : ticket'[d].probe
      BY <2>3, <3>1
    <3> QED BY <3>1, <3>2, <3>3
  <2> QED BY <1>2, <2>2, <2>3, <2>4, <2>5, ConfigClamped
<1> QED BY <1>2, <1>4, <1>5, AllowCurrent DEF IInv

\* A hand-back leaves well-typed tickets, none of them from the future.
LEMMA HandBackTypes ==
  ASSUME IInv, NEW c \in Callers, HandBack(c), br' \in BreakerType,
         br'.gen \in {br.gen, br.gen + 1}, reopened' \in Nat
  PROVE  TypeOK' /\ TicketsFromThePast' /\ \A d \in holds' : ticket'[d] = ticket[d]
<1>1. /\ holds' = holds \ {c} /\ holds \subseteq Callers
      /\ ticket' \in [Callers -> Ticket]
      /\ \A d \in holds' : ticket'[d] = ticket[d]
  BY DEF HandBack, IInv, TypeOK, NoTicket, Ticket
<1>2. \A d \in holds : ticket[d].gen \in Nat /\ ticket[d].gen <= br.gen /\ br.gen \in Nat
  BY DEF IInv, TypeOK, TicketsFromThePast, Ticket, BreakerType
<1>3. TicketsFromThePast'
  BY <1>1, <1>2 DEF TicketsFromThePast
<1> QED BY <1>1, <1>3 DEF TypeOK

LEMMA CancelInv ==
  ASSUME IInv, NEW c \in Callers, CancelCall(c)
  PROVE  IInv'
<1>1. /\ br' \in BreakerType /\ br'.state = br.state /\ br'.gen = br.gen
      /\ br'.consecFail = br.consecFail /\ br'.cool = br.cool
      /\ br'.curOpen = br.curOpen
  BY CancelEffect DEF Is
<1>2. HandBack(c) /\ reopened' \in Nat
  BY DEF CancelCall, IInv, TypeOK
<1>3. TypeOK' /\ TicketsFromThePast' /\ \A d \in holds' : ticket'[d] = ticket[d]
  BY <1>1, <1>2, HandBackTypes
<1>4. Current' = Current \ {c}
  BY <1>1, <1>2, CurrentAfter
<1>5. Bounds'
  BY <1>1 DEF IInv, Bounds
<1>6. ProbeAccounting'
  <2> SUFFICES ASSUME br.state = "half_open"
               PROVE  /\ br'.halfInFlight = Cardinality(Current')
                      /\ br'.halfInFlight <= halfOpenMax
                      /\ \A d \in Current' : ticket'[d].probe
    BY <1>1 DEF ProbeAccounting
  <2>1. /\ IsFiniteSet(Current) /\ Cardinality(Current) \in Nat
        /\ br.halfInFlight = Cardinality(Current) /\ br.halfInFlight <= halfOpenMax
        /\ \A d \in Current : ticket[d].probe
    BY CurrentFinite DEF IInv, ProbeAccounting
  <2>2. Cardinality(Current') = IF c \in Current THEN Cardinality(Current) - 1
                                ELSE Cardinality(Current)
    BY <1>4, <2>1, FS_RemoveElement
  <2>3. \A d \in Current' : d \in Current /\ d \in holds'
    BY <1>4 DEF Current
  <2>4. br'.halfInFlight = IF c \in Current THEN br.halfInFlight - 1 ELSE br.halfInFlight
    BY CancelEffect
  <2> QED BY <1>3, <2>1, <2>2, <2>3, <2>4, ConfigClamped
<1> QED BY <1>1, <1>3, <1>4, <1>5, <1>6 DEF IInv

LEMMA DoneInv ==
  ASSUME IInv, NEW c \in Callers, NEW success \in BOOLEAN, DoneCall(c, success)
  PROVE  IInv'
<1>1. /\ HandBack(c) /\ reopened' \in Nat /\ br \in BreakerType
      /\ openDuration \in Nat /\ maxOpenDuration \in Nat
      /\ br.curOpen \in openDuration .. maxOpenDuration
  BY ConfigClamped DEF DoneCall, CountReopened, IInv, TypeOK, Bounds
<1>2. CASE c \notin Current /\ br' = advanceLocked(br)
  <2>1. br' \in BreakerType /\ br'.gen \in {br.gen, br.gen + 1}
    BY <1>1, <1>2, AdvanceEffect
  <2>2. TypeOK' /\ holds' \subseteq holds /\ \A d \in holds' : ticket'[d] = ticket[d]
    BY <1>1, <2>1, HandBackTypes DEF HandBack
  <2>3. br.state = "half_open" => Current' = Current
    BY <1>1, <1>2, <2>1, CurrentAfter, AdvanceEffect
  <2> QED BY <1>2, <2>2, <2>3, AdvanceInv
<1>3. ASSUME NEW f \in Nat, f < failureThreshold,
             Is(br', "closed", br.gen, f, br.cool, br.curOpen), br.state = "closed"
      PROVE  IInv'
  <2>1. TypeOK' /\ TicketsFromThePast'
    BY <1>1, <1>3, HandBackTypes DEF Is
  <2>2. Bounds'
    BY <1>3 DEF Is, IInv, Bounds
  <2> QED BY <1>3, <2>1, <2>2 DEF Is, IInv, ProbeAccounting
<1>4. ASSUME NEW d \in openDuration .. maxOpenDuration,
             Is(br', "open", br.gen + 1, 0, d, d)
      PROVE  IInv'
  <2>1. TypeOK' /\ TicketsFromThePast' /\ Current' = {}
    BY <1>1, <1>4, HandBackTypes, CurrentAfter DEF Is
  <2>2. Bounds'
    BY <1>1, <1>4 DEF Is, Bounds
  <2> QED BY <1>4, <2>1, <2>2 DEF Is, IInv, ProbeAccounting
<1>5. ASSUME Is(br', "closed", br.gen + 1, 0, br.cool, openDuration),
             br.state = "half_open"
      PROVE  IInv'
  <2>1. TypeOK' /\ TicketsFromThePast'
    BY <1>1, <1>5, HandBackTypes DEF Is
  <2>2. Bounds'
    BY <1>1, <1>5, ConfigClamped DEF Is, IInv, Bounds
  <2> QED BY <1>5, <2>1, <2>2 DEF Is, IInv, ProbeAccounting
<1>6. Doubled(br.curOpen) \in openDuration .. maxOpenDuration
  BY <1>1, ConfigClamped DEF Doubled
<1>7. br.consecFail + 1 \in Nat /\ 0 \in Nat /\ 0 < failureThreshold
  BY <1>1, ConfigClamped DEF BreakerType
<1> QED BY <1>1, <1>2, <1>3, <1>4, <1>5, <1>6, <1>7, DoneCases

LEMMA NextInv == IInv /\ [Next]_vars => IInv'
<1> SUFFICES ASSUME IInv, [Next]_vars PROVE IInv'
  OBVIOUS
<1>1. CASE Peek
  BY <1>1, PeekInv
<1>2. CASE Tick
  BY <1>2, TickInv
<1>3. ASSUME NEW c \in Callers, AllowCall(c) PROVE IInv'
  BY <1>3, AllowInv
<1>4. ASSUME NEW c \in Callers, Finish(c) PROVE IInv'
  BY <1>4, CancelInv, DoneInv DEF Finish
<1>5. CASE UNCHANGED vars
  <2>1. TypeOK' /\ Current' = Current /\ Bounds' /\ TicketsFromThePast'
    BY <1>5 DEF vars, IInv, TypeOK, Current, Bounds, TicketsFromThePast
  <2> QED BY <1>5, <2>1 DEF vars, IInv, ProbeAccounting
<1> QED BY <1>1, <1>2, <1>3, <1>4, <1>5 DEF Next

\* The breaker's invariant holds in every reachable state.
THEOREM Invariant == Spec => []IInv
BY InitInv, NextInv, PTL DEF Spec

\* The breaker and the tickets of its callers stay well-typed.
THEOREM TypeCorrect == Spec => []TypeOK
<1>1. IInv => TypeOK
  BY DEF IInv
<1> QED BY <1>1, Invariant, PTL

\* While half-open, halfInFlight counts exactly the outstanding probes of this
\* half-open period, for any number of callers: no slot is lost or duplicated.
THEOREM ProbeSlots == Spec => []ProbeAccounting
<1>1. IInv => ProbeAccounting
  BY DEF IInv
<1> QED BY <1>1, Invariant, PTL

-----------------------------------------------------------------------------
(***************************************************************************)
(* The breaker implements the abstract breaker.                            *)
(***************************************************************************)
Mode == advanceLocked(br).state

LEMMA ModeOf ==
  ASSUME br \in BreakerType
  PROVE  Mode = IF br.state = "open" /\ br.cool = 0 THEN "half_open" ELSE br.state
BY AdvanceEffect DEF Mode

LEMMA ModeOfNext ==
  ASSUME br' \in BreakerType
  PROVE  Mode' = IF br'.state = "open" /\ br'.cool = 0 THEN "half_open" ELSE br'.state
BY AdvanceEffect DEF Mode

\* The caller's verdict, as a step of the abstract breaker.
LEMMA DoneRefines ==
  ASSUME IInv, NEW c \in Callers, NEW success \in BOOLEAN, DoneCall(c, success)
  PROVE  Abstract!CallerNext(c) \/ UNCHANGED Abstract!vars
<1>1. /\ HandBack(c) /\ br \in BreakerType /\ br' \in BreakerType
      /\ br.curOpen \in openDuration .. maxOpenDuration
  BY DoneInv DEF DoneCall, IInv, TypeOK, Bounds
<1>2. /\ Mode = (IF br.state = "open" /\ br.cool = 0 THEN "half_open" ELSE br.state)
      /\ Mode' = (IF br'.state = "open" /\ br'.cool = 0 THEN "half_open" ELSE br'.state)
  BY <1>1, ModeOf, ModeOfNext
<1>3. /\ br'.gen = br.gen => Current' = Current \ {c}
      /\ br'.gen = br.gen + 1 => Current' = {}
  BY <1>1, CurrentAfter
<1>4. /\ br.state = "open" => Current = {}
      /\ br.state # "open" => br.cool = 0
      /\ br.state # "closed" => br.consecFail = 0
  BY DEF IInv, Bounds
<1>5. CASE c \notin Current /\ br' = advanceLocked(br)
  <2>1. /\ br'.consecFail = br.consecFail /\ br'.cool = br.cool
        /\ br'.curOpen = br.curOpen /\ Mode' = Mode /\ Current' = Current
    BY <1>1, <1>2, <1>3, <1>4, <1>5, AdvanceEffect, SMTT(30)
  <2> QED BY <2>1 DEF Abstract!vars, Mode
<1>6. CASE /\ c \in Current /\ br.state = "closed"
           /\ Is(br', "closed", br.gen, 0, br.cool, br.curOpen)
  <2>1. Abstract!SuccessClosed(c)
    BY <1>2, <1>3, <1>6 DEF Is, Abstract!SuccessClosed, Mode
  <2> QED BY <2>1 DEF Abstract!CallerNext
<1>7. CASE /\ c \in Current /\ br.state = "closed"
           /\ br.consecFail + 1 < failureThreshold
           /\ Is(br', "closed", br.gen, br.consecFail + 1, br.cool, br.curOpen)
  <2>1. Abstract!FailureClosed(c)
    BY <1>2, <1>3, <1>7 DEF Is, Abstract!FailureClosed, Mode
  <2> QED BY <2>1 DEF Abstract!CallerNext
<1>8. CASE /\ c \in Current /\ br.state = "closed"
           /\ br.consecFail + 1 >= failureThreshold
           /\ Is(br', "open", br.gen + 1, 0, br.curOpen, br.curOpen)
  <2>1. br.curOpen # 0
    BY <1>1, ConfigClamped
  <2>2. Abstract!TripClosed(c)
    BY <1>2, <1>3, <1>8, <2>1 DEF Is, Abstract!TripClosed, Abstract!Trip, Mode
  <2> QED BY <2>2 DEF Abstract!CallerNext
<1>9. CASE /\ c \in Current /\ br.state = "half_open"
           /\ Is(br', "closed", br.gen + 1, 0, br.cool, openDuration)
  <2>1. Abstract!ProbeSucceeds(c)
    BY <1>2, <1>3, <1>4, <1>9 DEF Is, Abstract!ProbeSucceeds, Mode
  <2> QED BY <2>1 DEF Abstract!CallerNext
<1>10. CASE /\ c \in Current /\ br.state = "half_open"
            /\ Is(br', "open", br.gen + 1, 0, Doubled(br.curOpen), Doubled(br.curOpen))
  <2>1. Doubled(br.curOpen) # 0
    BY <1>1, ConfigClamped DEF Doubled
  <2>2. Abstract!ProbeFails(c)
    BY <1>2, <1>3, <1>10, <2>1 DEF Is, Abstract!ProbeFails, Abstract!Trip, Mode, Doubled
  <2> QED BY <2>2 DEF Abstract!CallerNext
<1> QED BY <1>5, <1>6, <1>7, <1>8, <1>9, <1>10, DoneCases

LEMMA AllowRefines ==
  ASSUME IInv, NEW c \in Callers, AllowCall(c)
  PROVE  Abstract!Admit(c)
<1>1. /\ br \in BreakerType /\ Available(br) /\ br' = Allow(br) /\ br' \in BreakerType
  BY AllowInv DEF IInv, TypeOK, AllowCall
<1>2. /\ br'.state = Mode /\ br'.consecFail = br.consecFail
      /\ br'.cool = br.cool /\ br'.curOpen = br.curOpen
      /\ Mode \in {"closed", "half_open"}
      /\ Mode = "half_open" => advanceLocked(br).halfInFlight < halfOpenMax
  BY <1>1, AllowEffect, AdvanceEffect DEF Is, Mode
<1>3. /\ Mode = (IF br.state = "open" /\ br.cool = 0 THEN "half_open" ELSE br.state)
      /\ Mode' = (IF br'.state = "open" /\ br'.cool = 0 THEN "half_open" ELSE br'.state)
  BY <1>1, ModeOf, ModeOfNext
<1>4. Live = Current
  BY <1>3 DEF Live, IInv
<1>5. c \notin Current /\ Current' = Current \cup {c}
  BY <1>4, AllowCurrent
<1>6. Mode = "half_open" => Cardinality(Current) < halfOpenMax
  <2>1. CASE br.state = "open" /\ br.cool = 0
    BY <2>1, FS_EmptySet, ConfigClamped DEF IInv
  <2>2. CASE ~(br.state = "open" /\ br.cool = 0)
    <3>1. advanceLocked(br) = br
      BY <1>1, <2>2, AdvanceEffect
    <3> QED BY <1>2, <1>3, <2>2, <3>1 DEF IInv, ProbeAccounting
  <2> QED BY <2>1, <2>2
<1>7. Mode' = Mode
  BY <1>2, <1>3
<1>8. Abstract!Cardinality(Current) = Cardinality(Current)
  BY DEF Abstract!Cardinality, Cardinality
<1> QED BY <1>2, <1>5, <1>6, <1>7, <1>8 DEF Abstract!Admit, Mode

LEMMA CancelRefines ==
  ASSUME IInv, NEW c \in Callers, CancelCall(c)
  PROVE  Abstract!Withdraw(c) \/ UNCHANGED Abstract!vars
<1>1. /\ br \in BreakerType /\ br' \in BreakerType /\ br'.state = br.state
      /\ br'.gen = br.gen /\ br'.consecFail = br.consecFail
      /\ br'.cool = br.cool /\ br'.curOpen = br.curOpen /\ HandBack(c)
  BY CancelEffect DEF Is, IInv, TypeOK, CancelCall
<1>2. Mode' = Mode
  BY <1>1, ModeOf, ModeOfNext
<1>3. Current' = Current \ {c}
  BY <1>1, CurrentAfter
<1>4. CASE c \in Current
  BY <1>1, <1>2, <1>3, <1>4 DEF Abstract!Withdraw, Mode
<1>5. CASE c \notin Current
  BY <1>1, <1>2, <1>3, <1>5 DEF Abstract!vars, Mode
<1> QED BY <1>4, <1>5

LEMMA PeekRefines == IInv /\ Peek => UNCHANGED Abstract!vars
<1> SUFFICES ASSUME IInv, Peek PROVE UNCHANGED Abstract!vars
  OBVIOUS
<1>1. br \in BreakerType /\ br' \in BreakerType /\ br' = advanceLocked(br)
  BY PeekInv DEF IInv, TypeOK, Peek
<1>2. /\ br'.consecFail = br.consecFail /\ br'.cool = br.cool
      /\ br'.curOpen = br.curOpen /\ Mode' = Mode
  BY <1>1, ModeOf, ModeOfNext, AdvanceEffect
<1>3. Current' = Current
  <2>1. \A d \in holds : ticket[d].gen \in Nat /\ ticket[d].gen <= br.gen /\ br.gen \in Nat
    BY DEF IInv, TypeOK, TicketsFromThePast, Ticket, BreakerType
  <2>2. br.state = "open" => Current = {}
    BY DEF IInv
  <2>3. br.state = "open" /\ br.cool = 0 => Current' = {}
    BY <1>1, <2>1, AdvanceEffect DEF Current, Peek
  <2>4. ~(br.state = "open" /\ br.cool = 0) => Current' = Current
    BY <1>1, AdvanceEffect DEF Current, Peek
  <2> QED BY <2>2, <2>3, <2>4
<1> QED BY <1>2, <1>3 DEF Abstract!vars, Mode

LEMMA TickRefines == IInv /\ Tick => Abstract!Tick
<1> SUFFICES ASSUME IInv, Tick PROVE Abstract!Tick
  OBVIOUS
<1>1. /\ br \in BreakerType /\ br.cool > 0 /\ br.cool \in Nat
      /\ br' = [br EXCEPT !.cool = br.cool - 1]
  BY DEF IInv, TypeOK, Tick, Elapse, BreakerType
<1>2. /\ br' \in BreakerType /\ br'.state = br.state /\ br'.gen = br.gen
      /\ br'.consecFail = br.consecFail /\ br'.cool = br.cool - 1
      /\ br'.curOpen = br.curOpen
  BY <1>1 DEF BreakerType
<1>3. br.state = "open" /\ Mode = "open"
  BY <1>1, ModeOf DEF IInv, Bounds
<1>4. Mode' = IF br.cool = 1 THEN "half_open" ELSE "open"
  BY <1>1, <1>2, <1>3, ModeOfNext
<1>5. Current' = Current
  BY <1>2 DEF Current, Tick
<1> QED BY <1>2, <1>3, <1>4, <1>5 DEF Abstract!Tick, Mode

LEMMA InitRefines == Init => Abstract!Init
<1> SUFFICES ASSUME Init PROVE Abstract!Init
  OBVIOUS
<1>1. IInv
  BY InitInv
<1>2. Mode = "closed" /\ Current = {}
  BY <1>1, ModeOf DEF Init, New, IInv, TypeOK, Current
<1> QED BY <1>2 DEF Init, New, Abstract!Init, Mode

LEMMA StepRefines == IInv /\ [Next]_vars => [Abstract!Next]_(Abstract!vars)
<1> SUFFICES ASSUME IInv, [Next]_vars PROVE Abstract!Next \/ UNCHANGED Abstract!vars
  OBVIOUS
<1>1. CASE Peek
  BY <1>1, PeekRefines
<1>2. CASE Tick
  BY <1>2, TickRefines DEF Abstract!Next
<1>3. ASSUME NEW c \in Callers, AllowCall(c) PROVE Abstract!Next
  BY <1>3, AllowRefines DEF Abstract!Next, Abstract!CallerNext
<1>4. ASSUME NEW c \in Callers, Finish(c)
      PROVE  Abstract!Next \/ UNCHANGED Abstract!vars
  <2>1. CASE CancelCall(c)
    BY <2>1, CancelRefines DEF Abstract!Next, Abstract!CallerNext
  <2>2. ASSUME NEW success \in BOOLEAN, DoneCall(c, success)
        PROVE  Abstract!Next \/ UNCHANGED Abstract!vars
    BY <2>2, DoneRefines DEF Abstract!Next
  <2> QED BY <1>4, <2>1, <2>2 DEF Finish
<1>5. CASE UNCHANGED vars
  BY <1>5 DEF vars, Abstract!vars, Current
<1> QED BY <1>1, <1>2, <1>3, <1>4, <1>5 DEF Next

\* The breaker of the code, with its tickets, generation stamps, probe counter
\* and lazy promotion, behaves as the abstract breaker: stale verdicts change
\* nothing, a closed breaker trips on consecutive failures of current callers
\* only, and a half-open one admits as many probes as are not outstanding.
THEOREM Refinement == Spec => AbstractSpec
<1>1. Init => Abstract!Init
  BY InitRefines
<1>2. IInv /\ [Next]_vars => [Abstract!Next]_(Abstract!vars)
  BY StepRefines
<1> QED BY <1>1, <1>2, Invariant, PTL DEF Spec, AbstractSpec, Abstract!Spec
=============================================================================
