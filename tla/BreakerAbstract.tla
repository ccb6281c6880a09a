--------------------------- MODULE BreakerAbstract ---------------------------
(***************************************************************************)
(* What the circuit breaker promises, without tickets, generations, probe  *)
(* counters or lazy promotion.  The breaker has a mode and the set of the  *)
(* callers it admitted during the present stay in that mode.  Only those   *)
(* callers have a say: a verdict from anybody else changes nothing.  The   *)
(* mode turns half-open at the very tick at which the cool-down ends, and  *)
(* the probes in flight are simply the callers admitted since.             *)
(***************************************************************************)
EXTENDS Integers, FiniteSets

CONSTANTS
  Callers,          \* the requests that use the breaker
  Threshold,        \* consecutive failures that trip a closed breaker
  Probes,           \* callers a half-open breaker admits at a time
  BaseCool,         \* the first cool-down
  MaxCool           \* the longest cool-down

VARIABLES
  mode,      \* "closed", "open" or "half_open"
  current,   \* callers admitted during this stay in mode, without a verdict yet
  fails,     \* failures in a row, while closed
  cool,      \* ticks until an open breaker turns half-open
  backoff    \* length of the next cool-down

vars == <<mode, current, fails, cool, backoff>>

Init ==
  /\ mode = "closed"
  /\ current = {}
  /\ fails = 0
  /\ cool = 0
  /\ backoff = BaseCool

Admit(c) ==
  /\ c \notin current
  /\ \/ mode = "closed"
     \/ mode = "half_open" /\ Cardinality(current) < Probes
  /\ current' = current \cup {c}
  /\ UNCHANGED <<mode, fails, cool, backoff>>

Withdraw(c) ==
  /\ c \in current
  /\ current' = current \ {c}
  /\ UNCHANGED <<mode, fails, cool, backoff>>

SuccessClosed(c) ==
  /\ mode = "closed" /\ c \in current
  /\ current' = current \ {c}
  /\ fails' = 0
  /\ UNCHANGED <<mode, cool, backoff>>

FailureClosed(c) ==
  /\ mode = "closed" /\ c \in current /\ fails + 1 < Threshold
  /\ current' = current \ {c}
  /\ fails' = fails + 1
  /\ UNCHANGED <<mode, cool, backoff>>

\* A trip forgets every caller of the stay that ends.
Trip(c, length) ==
  /\ c \in current
  /\ mode' = "open"
  /\ current' = {}
  /\ fails' = 0
  /\ cool' = length
  /\ backoff' = length

TripClosed(c) == mode = "closed" /\ fails + 1 >= Threshold /\ Trip(c, backoff)

ProbeFails(c) ==
  /\ mode = "half_open"
  /\ Trip(c, IF 2 * backoff > MaxCool THEN MaxCool ELSE 2 * backoff)

ProbeSucceeds(c) ==
  /\ mode = "half_open" /\ c \in current
  /\ mode' = "closed"
  /\ current' = {}
  /\ backoff' = BaseCool
  /\ UNCHANGED <<fails, cool>>

Tick ==
  /\ mode = "open"
  /\ cool' = cool - 1
  /\ mode' = IF cool = 1 THEN "half_open" ELSE "open"
  /\ UNCHANGED <<current, fails, backoff>>

CallerNext(c) ==
  \/ Admit(c) \/ Withdraw(c)
  \/ SuccessClosed(c) \/ FailureClosed(c) \/ TripClosed(c)
  \/ ProbeSucceeds(c) \/ ProbeFails(c)

Next == Tick \/ \E c \in Callers : CallerNext(c)

Spec == Init /\ [][Next]_vars
=============================================================================
