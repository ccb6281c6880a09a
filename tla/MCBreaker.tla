------------------------------ MODULE MCBreaker ------------------------------
(***************************************************************************)
(* Instance of Breaker for TLC.  Three callers are one more than the two   *)
(* probe slots; a threshold of two makes a run of failures that a success  *)
(* can interrupt; the cool-down of 0 is one New replaces by its default,   *)
(* and cool-downs of 1, 2 and then 3 (capped) ticks show doubling and the  *)
(* cap; MaxGen lets the breaker trip, fail its probes twice and recover,   *)
(* with tickets of three earlier generations about.                        *)
(***************************************************************************)
EXTENDS Breaker
=============================================================================
