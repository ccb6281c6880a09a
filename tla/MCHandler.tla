------------------------------ MODULE MCHandler -----------------------------
(***************************************************************************)
(* Handler with durations in eighths of a second, so that the second retry *)
(* reaches the limit, and a negative retry_backoff for the run about       *)
(* Validate.                                                               *)
(***************************************************************************)
EXTENDS Handler

Negative == -3
=============================================================================
