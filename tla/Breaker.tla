------------------------------- MODULE Breaker -------------------------------
(***************************************************************************)
(* One circuit breaker shared by concurrent callers (breaker/breaker.go).  *)
(* A caller is admitted by Allow and gets a ticket, works for as long as   *)
(* it likes, and hands the ticket back by Done or Cancel; meanwhile time   *)
(* passes, other callers do the same, and the status page polls State.     *)
(***************************************************************************)
EXTENDS BreakerOps, FiniteSets

CONSTANTS
  Callers,   \* requests that use the breaker at the same time
  MaxGen     \* bound: no failure is reported from this generation on

ASSUME CallersAssumption == IsFiniteSet(Callers)
ASSUME MaxGenAssumption == MaxGen \in Nat

VARIABLES
  br,        \* the Breaker struct
  holds,     \* callers that were admitted and have not handed in a verdict
  ticket,    \* the Ticket of each caller (the zero Ticket when not in holds)
  reopened   \* history: failed probes since the breaker was last closed

vars == <<br, holds, ticket, reopened>>

TypeOK ==
  /\ br \in BreakerType
  /\ holds \in SUBSET Callers
  /\ ticket \in [Callers -> Ticket]
  /\ reopened \in Nat

Init ==
  /\ br = New
  /\ holds = {}
  /\ ticket = [c \in Callers |-> NoTicket]
  /\ reopened = 0

-----------------------------------------------------------------------------
\* Allow, admitted.
AllowCall(c) ==
  /\ c \notin holds
  /\ Available(br)
  /\ br' = Allow(br)
  /\ holds' = holds \cup {c}
  /\ ticket' = [ticket EXCEPT ![c] = AllowTicket(br)]
  /\ UNCHANGED reopened

\* Allow refused, Available or State: the lazy promotion is all that happens.
Peek ==
  /\ br' = advanceLocked(br)
  /\ UNCHANGED <<holds, ticket, reopened>>

\* How the history of failed probes moves with a verdict.
CountReopened(a, b) ==
  CASE b.state = "closed" -> 0
    [] a.state = "half_open" /\ b.state = "open" -> reopened + 1
    [] OTHER -> reopened

HandBack(c) ==
  /\ c \in holds
  /\ holds' = holds \ {c}
  /\ ticket' = [ticket EXCEPT ![c] = NoTicket]

DoneCall(c, success) ==
  /\ HandBack(c)
  /\ success \/ br.gen < MaxGen
  /\ br' = Done(br, ticket[c], success)
  /\ reopened' = CountReopened(advanceLocked(br), br')

CancelCall(c) ==
  /\ HandBack(c)
  /\ br' = Cancel(br, ticket[c])
  /\ UNCHANGED reopened

Tick ==
  /\ br.cool > 0
  /\ br' = Elapse(br)
  /\ UNCHANGED <<holds, ticket, reopened>>

Finish(c) == CancelCall(c) \/ \E success \in BOOLEAN : DoneCall(c, success)

Next == Peek \/ Tick \/ \E c \in Callers : AllowCall(c) \/ Finish(c)

Spec == Init /\ [][Next]_vars

\* Time passes, and every admitted caller hands its ticket back: the gateway
\* runs under an overall deadline and releases its lease on every return.
Fairness == WF_vars(Tick) /\ \A c \in Callers : WF_vars(Finish(c))

FairSpec == Spec /\ Fairness

-----------------------------------------------------------------------------
\* The callers whose verdict the breaker will listen to.
Current == {c \in holds : ticket[c].gen = br.gen}

\* While half-open, halfInFlight is exactly the number of callers that hold a
\* probe ticket of this half-open period: no slot is leaked by a stale or
\* cancelled probe and none is handed out twice (Allow, Done, Cancel).
ProbeAccounting ==
  br.state = "half_open" =>
    /\ br.halfInFlight = Cardinality(Current)
    /\ br.halfInFlight <= halfOpenMax
    /\ \A c \in Current : ticket[c].probe

\* The cool-down doubles with every failed probe up to the maximum, and a
\* breaker that closes starts over from the base (Done; curOpen).
BackoffLaw ==
  br.curOpen = LET d == openDuration * 2^reopened
               IN  IF d > maxOpenDuration THEN maxOpenDuration ELSE d

\* The code with tickets, generations, a probe counter and lazy promotion is
\* the abstract breaker, in which only callers of the present stay count and
\* the cool-down ends by itself.
Abstract == INSTANCE BreakerAbstract WITH
  Threshold <- failureThreshold,
  Probes    <- halfOpenMax,
  BaseCool  <- openDuration,
  MaxCool   <- maxOpenDuration,
  mode      <- advanceLocked(br).state,
  current   <- Current,
  fails     <- br.consecFail,
  cool      <- br.cool,
  backoff   <- br.curOpen
AbstractSpec == Abstract!Spec

\* Whatever callers do with their tickets, an open or half-open breaker admits
\* a caller again sooner or later: it cannot wedge (Cancel, advanceLocked).
NeverWedged == []<>Available(br)
=============================================================================
