----------------------------- MODULE ClientView -----------------------------
(***************************************************************************)
(* What the client of one request may be sent: one answer of the gateway,  *)
(* or one node's response, chunk after chunk, with one end.  No output is  *)
(* repeated and none comes from a second node.                             *)
(***************************************************************************)
EXTENDS Naturals

CONSTANT MaxAttempts

VARIABLES status, from, chunks, end

vars == <<status, from, chunks, end>>

Init == status = "none" /\ from = 0 /\ chunks = 0 /\ end = "open"

\* The gateway answers by itself, or not at all.
Answer ==
  /\ status = "none"
  /\ status' \in {"implicit", "400", "429", "502", "503", "504"}
  /\ end' = "clean"
  /\ UNCHANGED <<from, chunks>>

\* A node's status arrives, perhaps with the first chunk.
Begin ==
  /\ status = "none"
  /\ status' = "upstream"
  /\ from' \in 1..MaxAttempts
  /\ chunks' \in {0, 1}
  /\ UNCHANGED end

More ==
  /\ status = "upstream" /\ end = "open" /\ chunks > 0
  /\ chunks' = chunks + 1
  /\ UNCHANGED <<status, from, end>>

End ==
  /\ status = "upstream" /\ end = "open"
  /\ end' \in {"clean", "error_event", "aborted"}
  /\ UNCHANGED <<status, from, chunks>>

Next == Answer \/ Begin \/ More \/ End

Spec == Init /\ [][Next]_vars
=============================================================================
