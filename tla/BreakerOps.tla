----------------------------- MODULE BreakerOps -----------------------------
(***************************************************************************)
(* The operations of the per-node circuit breaker (breaker/breaker.go) as  *)
(* operators on a breaker record.  Every method of the Go type runs under  *)
(* the breaker's own mutex, so each is one atomic function from the record *)
(* before to the record after.  The single-breaker specification Breaker   *)
(* and the routing specification Router both take their steps from here.   *)
(*                                                                         *)
(* Time.  The code compares the clock with openUntil and does nothing else *)
(* with it, so the record keeps the difference: cool is the number of      *)
(* ticks until openUntil, 0 once it has passed.  The generation counter is *)
(* a uint64 that grows by one per state change; it is unbounded here.      *)
(***************************************************************************)
EXTENDS Integers

CONSTANTS
  FailureThreshold,  \* Config.FailureThreshold as written in the config file
  OpenDuration,      \* Config.OpenDuration, in ticks
  MaxOpenDuration,   \* Config.MaxOpenDuration, in ticks
  HalfOpenMax,       \* Config.HalfOpenMax
  Second             \* time.Second in ticks, the default cool-down of New

ASSUME BreakerConfigAssumption ==
  /\ FailureThreshold \in Int
  /\ OpenDuration \in Int
  /\ MaxOpenDuration \in Int
  /\ HalfOpenMax \in Int
  /\ Second \in Nat \ {0}

\* The configuration after New has clamped it: the values the breaker uses.
AtLeast(x, low) == IF x < low THEN low ELSE x
failureThreshold == AtLeast(FailureThreshold, 1)
halfOpenMax      == AtLeast(HalfOpenMax, 1)
openDuration     == IF OpenDuration <= 0 THEN Second ELSE OpenDuration
maxOpenDuration  == AtLeast(MaxOpenDuration, openDuration)

-----------------------------------------------------------------------------
States == {"closed", "open", "half_open"}

Ticket == [probe : BOOLEAN, gen : Nat]

\* The zero Ticket: what a caller holds when it was not admitted.
NoTicket == [probe |-> FALSE, gen |-> 0]

BreakerType ==
  [state        : States,
   gen          : Nat,
   consecFail   : Nat,
   cool         : Nat,
   curOpen      : Nat,
   halfInFlight : Nat]

New == [state |-> "closed", gen |-> 0, consecFail |-> 0, cool |-> 0,
        curOpen |-> openDuration, halfInFlight |-> 0]

\* setLocked: a change of state starts a new generation.
setLocked(b, to) ==
  IF b.state = to THEN b ELSE [b EXCEPT !.state = to, !.gen = @ + 1]

\* Mutant: the probe counter of the last half-open period is kept.
advanceLocked_KeepsProbes(b) ==
  IF b.state = "open" /\ b.cool = 0 THEN setLocked(b, "half_open") ELSE b

\* advanceLocked: an open breaker whose cool-down has passed is half-open.
advanceLocked(b) ==
  IF b.state = "open" /\ b.cool = 0
  THEN setLocked([b EXCEPT !.halfInFlight = 0], "half_open")
  ELSE b

tripLocked(b) ==
  setLocked([b EXCEPT !.consecFail = 0, !.cool = b.curOpen], "open")

\* Would Allow succeed now?  (Available also advances; see Peek in Breaker.)
Available(b) ==
  LET a == advanceLocked(b) IN
  \/ a.state = "closed"
  \/ a.state = "half_open" /\ a.halfInFlight < halfOpenMax

\* Allow, for an available breaker: the record after, and the ticket issued.
Allow(b) ==
  LET a == advanceLocked(b) IN
  IF a.state = "half_open" THEN [a EXCEPT !.halfInFlight = @ + 1] ELSE a

AllowTicket(b) ==
  LET a == advanceLocked(b) IN [probe |-> a.state = "half_open", gen |-> a.gen]

\* Mutant: the cool-down does not start over when the breaker closes.
Succeed_KeepsBackoff(b, t) ==
  CASE b.state = "closed" -> [b EXCEPT !.consecFail = 0]
    [] b.state = "half_open" /\ t.probe ->
         setLocked([b EXCEPT !.consecFail = 0], "closed")
    [] OTHER -> b

\* Done by the holder of ticket t, on an already advanced breaker.
Succeed(b, t) ==
  CASE b.state = "closed" -> [b EXCEPT !.consecFail = 0]
    [] b.state = "half_open" /\ t.probe ->
         setLocked([b EXCEPT !.consecFail = 0, !.curOpen = openDuration], "closed")
    [] OTHER -> b

Fail(b, t) ==
  CASE b.state = "closed" ->
         IF b.consecFail + 1 >= failureThreshold
         THEN tripLocked(b) ELSE [b EXCEPT !.consecFail = @ + 1]
    [] b.state = "half_open" /\ t.probe ->
         tripLocked([b EXCEPT !.curOpen = IF 2 * @ > maxOpenDuration
                                          THEN maxOpenDuration ELSE 2 * @])
    [] OTHER -> b

\* Mutant: the generation of the ticket is not compared.
Done_TrustsStale(b, t, success) ==
  LET a == advanceLocked(b) IN IF success THEN Succeed(a, t) ELSE Fail(a, t)

\* Done: a verdict whose ticket is of an earlier generation is ignored.
Done(b, t, success) ==
  LET a == advanceLocked(b) IN
  IF t.gen # a.gen THEN a ELSE IF success THEN Succeed(a, t) ELSE Fail(a, t)

\* Mutant: a cancelled probe gives its slot back whatever happened since.
Cancel_Unchecked(b, t) ==
  IF t.probe THEN [b EXCEPT !.halfInFlight = @ - 1] ELSE b

\* Mutant: a cancelled probe keeps its slot.
Cancel_Leaks(b, t) == b

\* Cancel: a probe slot is returned without a verdict.  It does not advance.
Cancel(b, t) ==
  IF t.probe /\ b.state = "half_open" /\ t.gen = b.gen /\ b.halfInFlight > 0
  THEN [b EXCEPT !.halfInFlight = @ - 1]
  ELSE b

\* One tick of the clock, as a breaker sees it.
Elapse(b) == [b EXCEPT !.cool = IF @ > 0 THEN @ - 1 ELSE 0]
=============================================================================
