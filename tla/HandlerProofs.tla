---------------------------- MODULE HandlerProofs ----------------------------
(***************************************************************************)
(* Proofs about one request in the handler, for any number of attempts and *)
(* chunks and any retry_backoff.                                           *)
(***************************************************************************)
EXTENDS Handler, TLAPS

\* No pause of this configuration makes rand.Int63n panic.
NoPanic == \A n \in 1..MaxAttempts : ~Panics(n)

(***************************************************************************)
(* The inductive invariant.  It ties the program counter to what has been  *)
(* sent: nothing before the commit, one node's output after it, an end     *)
(* only when the handler returns; and to how often finish has been called. *)
(***************************************************************************)
Labels == {"bad_request", "queue_full", "queue_timeout", "upstream_failed", "no_node",
           "timeout", "cancelled", "direct_ok", "midstream_failed"}

Responses ==
  [status : {"none", "upstream", "implicit", "400", "429", "502", "503", "504"},
   from : Nat, chunks : Nat, end : {"open", "clean", "error_event", "aborted"}]

Typed ==
  /\ pc \in InAttempt \cup {"parse", "acquire", "outAbort", "backoff", "finished"}
  /\ attempt \in 1..MaxAttempts
  /\ pc = "parse" => attempt = 1 /\ Len(verdicts) = 0
  /\ pc = "backoff" => attempt < MaxAttempts
  /\ got.err = "nil" => got.bytes
  /\ verdicts \in Seq({"ok", "fail", "cancel"})
  /\ outcomes \in Seq(Labels)
  /\ client \in Responses

Sent ==
  /\ client.end = "open" <=> pc # "finished"
  /\ pc \notin {"read", "write", "ended", "outAbort", "finished"} => client.status = "none"
  /\ pc \in {"read", "write", "ended"} => client.status = "upstream"
  /\ pc \in {"read", "write"} => client.chunks > 0

Labelled ==
  /\ pc \notin {"outAbort", "finished"} => Len(outcomes) = 0
  /\ pc = "outAbort" => \/ client.status = "none" /\ Len(outcomes) = 0
                        \/ client.status = "upstream" /\ Len(outcomes) = 1
  /\ pc = "finished" /\ NoPanic => Len(outcomes) = 1

IInv == Typed /\ Sent /\ Labelled /\ LeaseSettledOnce

-----------------------------------------------------------------------------
LEMMA InitInv == Init => IInv
<1> SUFFICES ASSUME Init PROVE IInv
  OBVIOUS
<1>1. client \in Responses
  <2>1. client = [status |-> "none", from |-> 0, chunks |-> 0, end |-> "open"]
    BY DEF Init
  <2> QED BY <2>1 DEF Responses
<1>2. client.end = "open" /\ client.status = "none"
  BY DEF Init
<1>3. got.err = "broken"
  BY DEF Init, NoRead
<1>4. attempt \in 1..MaxAttempts
  BY HandlerAssumption DEF Init, Validated
<1> QED BY <1>1, <1>2, <1>3, <1>4
        DEF Init, IInv, Typed, Sent, Labelled, LeaseSettledOnce, InAttempt

\* A Read that returns no error returns bytes.
LEMMA ReadsBytes == \A r \in Reads : r.err = "nil" => r.bytes
BY DEF Reads

\* Steps that only move on: the request is read, a lease is granted, a status or
\* a chunk arrives, the pause ends.
LEMMA MovesInv ==
  ASSUME IInv,
         \/ Parsed \/ Granted \/ Rested
         \/ \E s \in {"busy", "http_5xx", "other"} : Status(s)
         \/ \E r \in Reads : FirstRead(r) \/ Read(r)
  PROVE  IInv'
<1>1. CASE Parsed
  BY <1>1 DEF Parsed, IInv, Typed, Sent, Labelled, LeaseSettledOnce, InAttempt
<1>2. CASE Granted
  BY <1>2 DEF Granted, IInv, Typed, Sent, Labelled, LeaseSettledOnce, InAttempt
<1>3. CASE Rested
  BY <1>3, HandlerAssumption DEF Rested, IInv, Typed, Sent, Labelled, LeaseSettledOnce, InAttempt
<1>4. ASSUME NEW s \in {"busy", "http_5xx", "other"}, Status(s) PROVE IInv'
  BY <1>4 DEF Status, IInv, Typed, Sent, Labelled, LeaseSettledOnce, InAttempt
<1>5. ASSUME NEW r \in Reads, FirstRead(r) PROVE IInv'
  BY <1>5, ReadsBytes DEF FirstRead, IInv, Typed, Sent, Labelled, LeaseSettledOnce, InAttempt
<1>6. ASSUME NEW r \in Reads, Read(r) PROVE IInv'
  BY <1>6, ReadsBytes DEF Read, IInv, Typed, Sent, Labelled, LeaseSettledOnce, InAttempt
<1> QED BY <1>1, <1>2, <1>3, <1>4, <1>5, <1>6

-----------------------------------------------------------------------------
(* The parts the actions are made of.                                      *)

LEMMA Appended ==
  ASSUME NEW S, NEW q \in Seq(S), NEW e \in S
  PROVE  Append(q, e) \in Seq(S) /\ Len(Append(q, e)) = Len(q) + 1
OBVIOUS

\* Changing the end, or the status and the end, of a response.
LEMMA ResponseEnd ==
  ASSUME NEW c \in Responses, NEW e \in {"open", "clean", "error_event", "aborted"}
  PROVE  /\ [c EXCEPT !.end = e] \in Responses
         /\ [c EXCEPT !.end = e].end = e
         /\ [c EXCEPT !.end = e].status = c.status
         /\ [c EXCEPT !.end = e].from = c.from
         /\ [c EXCEPT !.end = e].chunks = c.chunks
BY DEF Responses

LEMMA ResponseStatus ==
  ASSUME NEW c \in Responses,
         NEW s \in {"implicit", "400", "429", "502", "503", "504"}
  PROVE  LET z == [c EXCEPT !.status = s, !.end = "clean"]
         IN  /\ z \in Responses
             /\ z.end = "clean" /\ z.status = s
             /\ z.from = c.from /\ z.chunks = c.chunks
BY ZenonT(30) DEF Responses

\* What a step that returns to the loop or ends the request before the commit does:
\* Retry, Abort and their choice, from an attempt with nothing written.
LEMMA RetryInv ==
  ASSUME IInv, NEW v \in {"ok", "fail", "cancel"}, Retry(v),
         pc \in {"do", "busy", "http_5xx", "first", "stop", "commit"},
         attempt' = attempt, got' = got
  PROVE  IInv'
<1>0. /\ verdicts' \in Seq({"ok", "fail", "cancel"}) /\ Len(verdicts') = Len(verdicts) + 1
      /\ lease' = "none"
  BY Appended DEF Retry, Settle, IInv, Typed
<1>1. CASE pc' = "backoff" /\ attempt < MaxAttempts /\ UNCHANGED <<outcomes, client>>
  BY <1>0, <1>1 DEF IInv, Typed, Sent, Labelled, LeaseSettledOnce, InAttempt
<1>2. CASE attempt < MaxAttempts /\ Panics(attempt) /\ Crash
  <2>1. client' \in Responses /\ client'.end = "aborted" /\ client'.status = client.status
    BY <1>2, ResponseEnd, ZenonT(30) DEF Crash, IInv, Typed
  <2>2. ~NoPanic
    BY <1>2 DEF NoPanic, IInv, Typed
  <2>3. Typed' /\ Sent' /\ LeaseSettledOnce'
    BY <1>0, <1>2, <2>1 DEF Crash, IInv, Typed, Sent, LeaseSettledOnce, InAttempt
  <2>4. Labelled'
    BY <1>2, <2>2 DEF Crash, Labelled, NoPanic
  <2> QED BY <2>3, <2>4 DEF IInv
<1>3. CASE attempt = MaxAttempts /\ Answer("upstream_failed", "502")
  <2>1. client' \in Responses /\ client'.end = "clean" /\ client'.status = "502"
    BY <1>3, ResponseStatus, ZenonT(30) DEF Answer, IInv, Typed
  <2>2. outcomes' \in Seq(Labels) /\ Len(outcomes') = Len(outcomes) + 1 /\ pc' = "finished"
    BY <1>3, Appended DEF Answer, Finish, IInv, Typed, Labels
  <2>3. Typed'
    BY <1>0, <2>1, <2>2 DEF IInv, Typed
  <2>4. Sent'
    BY <2>1, <2>2 DEF Sent
  <2>5. Labelled'
    BY <2>2 DEF IInv, Labelled
  <2>6. Len(verdicts) = attempt - 1 /\ attempt \in Int
    BY DEF IInv, Typed, LeaseSettledOnce, InAttempt
  <2>7. LeaseSettledOnce'
    BY <1>0, <2>2, <2>6 DEF LeaseSettledOnce, InAttempt
  <2> QED BY <2>3, <2>4, <2>5, <2>7 DEF IInv
<1> QED BY <1>1, <1>2, <1>3 DEF Retry

LEMMA AbortInv ==
  ASSUME IInv, Abort, attempt' = attempt, got' = got,
         pc \in {"do", "busy", "http_5xx", "first", "stop", "commit"}
  PROVE  IInv'
<1>1. /\ verdicts' \in Seq({"ok", "fail", "cancel"}) /\ Len(verdicts') = Len(verdicts) + 1
      /\ lease' = "none"
  BY Appended DEF Abort, Settle, IInv, Typed
<1> QED BY <1>1 DEF Abort, IInv, Typed, Sent, Labelled, LeaseSettledOnce, InAttempt

\* An answer of the gateway's own, or none, as the whole response.
LEMMA AnswerInv ==
  ASSUME IInv, NEW l \in Labels, NEW s \in {"implicit", "400", "429", "502", "503", "504"},
         Answer(l, s), attempt' = attempt, got' = got, lease' = lease, verdicts' = verdicts,
         \/ pc \in {"parse", "acquire", "backoff"}
         \/ pc = "outAbort" /\ client.status = "none"
  PROVE  IInv'
<1>1. client' \in Responses /\ client'.end = "clean" /\ client'.status = s
  <2>1. client \in Responses /\ client' = [client EXCEPT !.status = s, !.end = "clean"]
    BY DEF Answer, IInv, Typed
  <2> QED BY <2>1, ZenonT(30) DEF Responses
<1>2. outcomes' \in Seq(Labels) /\ Len(outcomes') = Len(outcomes) + 1 /\ pc' = "finished"
  <2>1. outcomes \in Seq(Labels) /\ outcomes' = Append(outcomes, l) /\ pc' = "finished"
    BY DEF Answer, Finish, IInv, Typed
  <2> QED BY <2>1, Appended
<1>3. Typed'
  BY <1>1, <1>2 DEF IInv, Typed
<1>4. Sent'
  BY <1>1, <1>2 DEF Sent
<1>5. Labelled'
  BY <1>2 DEF IInv, Labelled
<1>6. LeaseSettledOnce'
  BY <1>2 DEF IInv, LeaseSettledOnce, InAttempt, Typed
<1> QED BY <1>3, <1>4, <1>5, <1>6 DEF IInv

-----------------------------------------------------------------------------
(* The actions that end an attempt or the request.                         *)

\* Before the commit.
LEMMA EarlyInv ==
  ASSUME IInv,
         \/ BadRequest \/ RestCut \/ BadURL \/ DoFails \/ Drained \/ StopTimer
         \/ \E err \in {"queue_full", "queue_timeout", "no_node", "ctx"} : Rejected(err)
  PROVE  IInv'
<1>1. CASE BadRequest
  BY <1>1, AnswerInv DEF BadRequest, Labels
<1>2. CASE RestCut
  <2>1. Answer("cancelled", "implicit")
    BY <1>2 DEF RestCut, Silent, Answer
  <2> QED BY <1>2, <2>1, AnswerInv DEF RestCut, Labels
<1>3. CASE BadURL
  BY <1>3, RetryInv DEF BadURL
<1>4. CASE DoFails
  BY <1>4, RetryInv, AbortInv DEF DoFails, FailOrAbort
<1>5. CASE Drained
  BY <1>5, RetryInv DEF Drained
<1>6. CASE StopTimer
  <2>1. CASE FailOrAbort
    BY <1>6, <2>1, RetryInv, AbortInv DEF StopTimer, FailOrAbort
  <2>2. CASE pc' = "commit" /\ UNCHANGED <<lease, verdicts, outcomes, client>>
    BY <1>6, <2>2 DEF StopTimer, IInv, Typed, Sent, Labelled, LeaseSettledOnce, InAttempt
  <2> QED BY <1>6, <2>1, <2>2 DEF StopTimer
<1>7. ASSUME NEW err \in {"queue_full", "queue_timeout", "no_node", "ctx"}, Rejected(err)
      PROVE  IInv'
  <2>1. PICK l \in Labels, s \in {"implicit", "429", "502", "503", "504"} : Answer(l, s)
    BY <1>7 DEF Rejected, Silent, Answer, Labels
  <2> QED BY <1>7, <2>1, AnswerInv DEF Rejected
<1> QED BY <1>1, <1>2, <1>3, <1>4, <1>5, <1>6, <1>7

\* abort after the commit: the request keeps its status and gets its one label.
LEMMA AbortCommittedInv ==
  ASSUME IInv, AbortCommitted, attempt' = attempt, got' = got,
         pc \in {"commit", "write", "ended"},
         client' \in Responses, client'.status = "upstream", client'.end = client.end
  PROVE  IInv'
<1>1. /\ verdicts' \in Seq({"ok", "fail", "cancel"}) /\ Len(verdicts') = Len(verdicts) + 1
      /\ lease' = "none"
  BY Appended DEF AbortCommitted, Settle, IInv, Typed
<1>2. outcomes' \in Seq(Labels) /\ Len(outcomes') = Len(outcomes) + 1
  BY Appended DEF AbortCommitted, IInv, Typed, Labels
<1> QED BY <1>1, <1>2
        DEF AbortCommitted, IInv, Typed, Sent, Labelled, LeaseSettledOnce, InAttempt

LEMMA CommitInv ==
  ASSUME IInv, Commit
  PROVE  IInv'
<1>1. /\ client' \in Responses /\ client'.status = "upstream" /\ client'.end = client.end
      /\ client'.chunks = IF got.bytes THEN 1 ELSE 0
  <2>1. attempt \in Nat /\ client \in Responses
    BY HandlerAssumption DEF IInv, Typed
  <2> QED BY <2>1, ZenonT(30) DEF Commit, Responses
<1>2. CASE WriteFails
  BY <1>1, <1>2, AbortCommittedInv DEF Commit, WriteFails
<1>3. CASE pc' = AfterRead /\ UNCHANGED <<lease, verdicts, outcomes>>
  BY <1>1, <1>3 DEF Commit, AfterRead, IInv, Typed, Sent, Labelled, LeaseSettledOnce, InAttempt
<1> QED BY <1>2, <1>3 DEF Commit

LEMMA WriteInv ==
  ASSUME IInv, Write
  PROVE  IInv'
<1>1. CASE WriteFails /\ UNCHANGED client
  BY <1>1, AbortCommittedInv DEF Write, WriteFails, IInv, Typed, Sent
<1>2. CASE /\ client' = [client EXCEPT !.chunks = @ + 1]
           /\ pc' = AfterRead /\ UNCHANGED <<lease, verdicts, outcomes>>
  <2>1. /\ client' \in Responses /\ client'.status = client.status
        /\ client'.end = client.end /\ client'.chunks > 0
    BY <1>2, SMTT(30) DEF IInv, Typed, Responses
  <2> QED BY <1>2, <2>1
          DEF Write, AfterRead, IInv, Typed, Sent, Labelled, LeaseSettledOnce, InAttempt
<1> QED BY <1>1, <1>2 DEF Write

\* The body ends: the lease is settled and the response closed, or left to outAbort.
LEMMA EndedInv ==
  ASSUME IInv, Ended
  PROVE  IInv'
<1>1. CASE AbortCommitted /\ UNCHANGED client
  BY <1>1, AbortCommittedInv DEF Ended, IInv, Typed, Sent
<1>2. ASSUME NEW v \in {"ok", "fail", "cancel"}, NEW l \in Labels,
             NEW e \in {"clean", "error_event", "aborted"},
             Settle(v), Finish(l), client' = [client EXCEPT !.end = e]
      PROVE  IInv'
  <2>1. client' \in Responses /\ client'.end = e /\ client'.status = client.status
    <3>1. client \in Responses
      BY DEF IInv, Typed
    <3> QED BY <1>2, <3>1 DEF Responses
  <2>2. /\ verdicts' \in Seq({"ok", "fail", "cancel"}) /\ Len(verdicts') = Len(verdicts) + 1
        /\ lease' = "none"
    BY <1>2, Appended DEF Settle, IInv, Typed
  <2>3. outcomes' \in Seq(Labels) /\ Len(outcomes') = Len(outcomes) + 1 /\ pc' = "finished"
    BY <1>2, Appended DEF Finish, IInv, Typed
  <2> QED BY <2>1, <2>2, <2>3
          DEF Ended, IInv, Typed, Sent, Labelled, LeaseSettledOnce, InAttempt
<1>3. CASE Settle("ok") /\ Finish("direct_ok") /\ client' = [client EXCEPT !.end = "clean"]
  BY <1>2, <1>3 DEF Labels
<1>4. CASE /\ Settle("fail") /\ Finish("midstream_failed")
           /\ client' = [client EXCEPT !.end = IF sse THEN "error_event" ELSE "aborted"]
  <2>1. CASE sse
    BY <1>2, <1>4, <2>1 DEF Labels
  <2>2. CASE ~sse
    BY <1>2, <1>4, <2>2 DEF Labels
  <2> QED BY <2>1, <2>2
<1> QED BY <1>1, <1>3, <1>4 DEF Ended

\* ServeHTTP on outAbort labels the request only if attempt did not.
LEMMA OutAbortInv ==
  ASSUME IInv, OutAbort
  PROVE  IInv'
<1>1. CASE ~wrote
  <2>1. PICK l \in Labels, s \in {"implicit", "504"} : Answer(l, s)
    BY <1>1 DEF OutAbort, Silent, Answer, Labels
  <2> QED BY <1>1, <2>1, AnswerInv DEF OutAbort, wrote
<1>2. CASE wrote
  <2>1. client' \in Responses /\ client'.end = "clean" /\ client'.status = client.status
    <3>1. client \in Responses /\ client' = [client EXCEPT !.end = "clean"]
      BY <1>2 DEF OutAbort, IInv, Typed
    <3> QED BY <3>1 DEF Responses
  <2> QED BY <1>2, <2>1
          DEF OutAbort, wrote, IInv, Typed, Sent, Labelled, LeaseSettledOnce, InAttempt
<1> QED BY <1>1, <1>2

\* The context, the client and the timers touch none of it.
LEMMA EnvironmentInv ==
  ASSUME IInv, Deadline \/ Disconnect \/ Cancelled \/ TimerFires \/ UNCHANGED vars
  PROVE  IInv'
<1>1. UNCHANGED <<pc, attempt, got, lease, verdicts, outcomes, client>>
  BY DEF Deadline, Disconnect, Cancelled, TimerFires, vars
<1> QED BY <1>1 DEF IInv, Typed, Sent, Labelled, LeaseSettledOnce

\* Next as the lemmas above divide it.
LEMMA NextCases ==
  ASSUME Next
  PROVE  \/ \/ Parsed \/ Granted \/ Rested
            \/ \E s \in {"busy", "http_5xx", "other"} : Status(s)
            \/ \E r \in Reads : FirstRead(r) \/ Read(r)
         \/ \/ BadRequest \/ RestCut \/ BadURL \/ DoFails \/ Drained \/ StopTimer
            \/ \E err \in {"queue_full", "queue_timeout", "no_node", "ctx"} : Rejected(err)
         \/ Commit \/ Write \/ Ended \/ OutAbort
         \/ Deadline \/ Disconnect \/ Cancelled \/ TimerFires \/ UNCHANGED vars
<1>1. NoRead \in Reads
  BY DEF NoRead, Reads
<1> QED BY <1>1 DEF Next, Own, Node

LEMMA NextInv ==
  ASSUME IInv, [Next]_vars
  PROVE  IInv'
<1>1. CASE UNCHANGED vars
  BY <1>1, EnvironmentInv
<1>2. CASE Next
  BY <1>2, NextCases, MovesInv, EarlyInv, CommitInv, WriteInv, EndedInv, OutAbortInv,
     EnvironmentInv
<1> QED BY <1>1, <1>2

LEMMA Inductive == Spec => []IInv
BY InitInv, NextInv, PTL DEF Spec

-----------------------------------------------------------------------------
\* Every attempt's lease is settled exactly once, whatever the number of attempts and
\* the retry_backoff, a panic in backoff included: no slot or probe is leaked.
THEOREM LeaseIsSettledOnce == Spec => []LeaseSettledOnce
<1>1. IInv => LeaseSettledOnce
  BY DEF IInv
<1> QED BY Inductive, <1>1, PTL

\* finish is called exactly once per request, if no pause panics.
THEOREM RequestIsCountedOnce ==
  ASSUME NoPanic
  PROVE  Spec => []FinishedOnce
<1>1. IInv => FinishedOnce
  BY DEF IInv, Typed, Labelled, FinishedOnce
<1> QED BY Inductive, <1>1, PTL

-----------------------------------------------------------------------------
(***************************************************************************)
(* The second layer, on top of IInv: the remaining types; what the handler *)
(* knows about the node, the timers and the context at each point, from    *)
(* which the verdict on the node follows; and that a cancelled context     *)
(* means a client that is gone.                                            *)
(***************************************************************************)
Values ==
  /\ stream \in BOOLEAN /\ peer \in BOOLEAN /\ stalled \in BOOLEAN /\ sse \in BOOLEAN
  /\ fault \in BOOLEAN
  /\ ctx \in {"live", "deadline", "gone"}
  /\ timer \in {"none", "first", "idle"}
  /\ got \in Reads
  /\ lease \in {"none", "held"}
  /\ client.from \in 0..MaxAttempts
  /\ client.chunks \in 0..MaxChunks
  /\ pc = "write" => client.chunks < MaxChunks

Blame ==
  /\ ctx = "gone" => ~peer
  /\ pc = "http_5xx" => fault
  /\ pc \in {"do", "busy"} => (fault => stalled)
  /\ pc \in {"stop", "commit", "write", "ended"} /\ got.err = "broken" =>
       fault \/ stalled \/ ctx # "live"
  /\ pc = "outAbort" /\ client.status = "none" => ctx # "live"

JInv == IInv /\ Values /\ Blame /\ VerdictIsFair /\ Answered

LEMMA InitJ == Init => JInv
<1> SUFFICES ASSUME Init PROVE JInv
  OBVIOUS
<1>1. IInv
  BY InitInv
<1>2. client.from = 0 /\ client.chunks = 0 /\ client.status = "none"
  BY DEF Init
<1>3. got \in Reads
  BY DEF Init, NoRead, Reads
<1>4. Values
  <2>1. /\ stream \in BOOLEAN /\ peer = TRUE /\ stalled = FALSE /\ sse = FALSE
        /\ fault = FALSE /\ ctx = "live" /\ timer = "none" /\ lease = "none" /\ pc = "parse"
    BY DEF Init
  <2>2. client.from \in 0..MaxAttempts /\ client.chunks \in 0..MaxChunks
    BY <1>2, HandlerAssumption DEF Validated
  <2> QED BY <1>3, <2>1, <2>2, ZenonT(30) DEF Values
<1>5. Blame /\ Answered
  BY <1>2 DEF Init, Blame, Answered
<1>6. VerdictIsFair
  BY DEF Init, VerdictIsFair, Charged
<1> QED BY <1>1, <1>4, <1>5, <1>6 DEF JInv

\* What a step may write to the client's record, as far as Values looks at it.
SameOutput == client'.from = client.from /\ client'.chunks = client.chunks

LEMMA RetryOutput ==
  ASSUME IInv, NEW v, Retry(v)
  PROVE  SameOutput /\ timer' = "none" /\ lease' = "none" /\ pc' \in {"backoff", "finished"}
<1>1. client \in Responses
  BY DEF IInv, Typed
<1>2. CASE UNCHANGED client
  BY <1>2 DEF SameOutput, Retry, Settle, Crash, Answer, Finish
<1>3. CASE Crash
  <2>1. SameOutput
    BY <1>1, <1>3 DEF Crash, SameOutput, Responses
  <2> QED BY <1>3, <2>1 DEF Retry, Settle, Crash
<1>4. CASE Answer("upstream_failed", "502")
  <2>1. SameOutput
    BY <1>1, <1>4 DEF Answer, SameOutput, Responses
  <2> QED BY <1>4, <2>1 DEF Retry, Settle, Answer, Finish
<1> QED BY <1>2, <1>3, <1>4 DEF Retry

LEMMA AnswerOutput ==
  ASSUME IInv, NEW l, NEW s, Answer(l, s)
  PROVE  SameOutput /\ timer' = "none" /\ pc' = "finished" /\ client'.status = s
<1>1. client \in Responses
  BY DEF IInv, Typed
<1>2. SameOutput /\ client'.status = s
  BY <1>1 DEF Answer, SameOutput, Responses
<1> QED BY <1>2 DEF Answer, Finish

LEMMA ValuesInv ==
  ASSUME IInv, Values, Next
  PROVE  Values'
<1>0. client \in Responses
  BY DEF IInv, Typed
<1>1. CASE \/ Parsed \/ Granted \/ Rested
           \/ \E s \in {"busy", "http_5xx", "other"} : Status(s)
           \/ \E r \in Reads : FirstRead(r)
  <2>1. CASE Parsed \/ Granted \/ Rested
    BY <1>1, <2>1, ZenonT(30) DEF Parsed, Granted, Rested, Values
  <2>2. CASE \E s \in {"busy", "http_5xx", "other"} : Status(s)
    BY <2>2 DEF Status, Values
  <2>3. CASE \E r \in Reads : FirstRead(r)
    BY <2>3 DEF FirstRead, Values
  <2> QED BY <1>1, <2>1, <2>2, <2>3
<1>2. ASSUME NEW r \in Reads, Read(r) PROVE Values'
  <2>1. client.chunks < MaxChunks \/ ~r.bytes
    BY <1>2 DEF Read
  <2> QED BY <1>2, <2>1 DEF Read, Values
<1>3. CASE \/ BadRequest \/ RestCut
           \/ \E err \in {"queue_full", "queue_timeout", "no_node", "ctx"} : Rejected(err)
  <2>1. \E l \in Labels, s \in {"implicit", "400", "429", "502", "503", "504"} : Answer(l, s)
    BY <1>3 DEF BadRequest, RestCut, Rejected, Silent, Answer, Labels
  <2>2. SameOutput /\ timer' = "none" /\ pc' = "finished"
    BY <2>1, AnswerOutput
  <2>3. UNCHANGED <<stream, peer, ctx, stalled, got, sse, lease, fault>>
    BY <1>3 DEF BadRequest, RestCut, Rejected
  <2> QED BY <2>2, <2>3 DEF SameOutput, Values
<1>4. CASE BadURL \/ DoFails \/ Drained \/ StopTimer
  <2>1. UNCHANGED <<stream, peer, ctx, stalled, got, sse>> /\ fault' \in BOOLEAN
    BY <1>4, ZenonT(30) DEF BadURL, DoFails, Drained, StopTimer, Values
  <2>2. \/ Retry("fail") \/ Retry("cancel") \/ Abort
        \/ pc' = "commit" /\ timer' = "none" /\ UNCHANGED <<lease, client>>
    BY <1>4 DEF BadURL, DoFails, Drained, StopTimer, FailOrAbort
  <2>3. /\ SameOutput /\ timer' = "none" /\ lease' \in {"none", "held"} /\ pc' # "write"
    <3>1. CASE Retry("fail") \/ Retry("cancel")
      BY <3>1, RetryOutput
    <3>2. CASE Abort
      BY <3>2 DEF Abort, Settle, SameOutput
    <3>3. CASE pc' = "commit" /\ timer' = "none" /\ UNCHANGED <<lease, client>>
      BY <3>3 DEF SameOutput, Values
    <3> QED BY <2>2, <3>1, <3>2, <3>3
  <2> QED BY <2>1, <2>3 DEF SameOutput, Values
<1>5. CASE Commit
  <2>1. client'.from = attempt /\ client'.chunks = IF got.bytes THEN 1 ELSE 0
    BY <1>0, <1>5 DEF Commit, Responses
  <2>2. client'.from \in 0..MaxAttempts /\ client'.chunks \in 0..MaxChunks
    BY <2>1, HandlerAssumption DEF IInv, Typed
  <2>3. /\ timer' \in {"none", "idle"} /\ lease' \in {"none", "held"}
        /\ pc' \in {"read", "ended", "outAbort"}
    BY <1>5 DEF Commit, AfterRead, WriteFails, AbortCommitted, Settle, Values
  <2>4. UNCHANGED <<stream, peer, ctx, stalled, got, fault>> /\ sse' \in BOOLEAN
    BY <1>5 DEF Commit
  <2> QED BY <2>2, <2>3, <2>4 DEF Values
<1>6. CASE Write
  <2>1. client'.from = client.from /\ client'.chunks \in {client.chunks, client.chunks + 1}
    BY <1>0, <1>6 DEF Write, Responses
  <2>2. client.chunks < MaxChunks
    BY <1>6 DEF Write, Values
  <2>3. /\ timer' \in {"none", timer} /\ lease' \in {"none", lease}
        /\ pc' \in {"read", "ended", "outAbort"}
    BY <1>6 DEF Write, AfterRead, WriteFails, AbortCommitted, Settle
  <2>4. UNCHANGED <<stream, peer, ctx, stalled, got, sse, fault>>
    BY <1>6 DEF Write
  <2>5. client'.chunks \in 0..MaxChunks
    BY <2>1, <2>2, HandlerAssumption DEF Values
  <2> QED BY <2>1, <2>3, <2>4, <2>5 DEF Values
<1>7. CASE Ended
  <2>1. SameOutput
    BY <1>0, <1>7 DEF Ended, SameOutput, Responses
  <2>2. timer' = "none" /\ lease' = "none" /\ pc' \in {"outAbort", "finished"}
    BY <1>7 DEF Ended, Settle, Finish, AbortCommitted
  <2>3. UNCHANGED <<stream, peer, ctx, stalled, got, sse, fault>>
    BY <1>7 DEF Ended
  <2> QED BY <2>1, <2>2, <2>3 DEF SameOutput, Values
<1>8. CASE OutAbort
  <2>1. SameOutput
    BY <1>0, <1>8, ZenonT(30) DEF OutAbort, Answer, Silent, SameOutput, Responses
  <2>2. timer' \in {"none", timer} /\ pc' = "finished"
    BY <1>8 DEF OutAbort, Answer, Silent, Finish
  <2>3. UNCHANGED <<stream, peer, ctx, stalled, got, sse, lease, fault>>
    BY <1>8 DEF OutAbort
  <2> QED BY <2>1, <2>2, <2>3 DEF SameOutput, Values
<1>9. CASE Deadline \/ Disconnect \/ Cancelled \/ UNCHANGED vars
  <2>1. CASE Deadline
    BY <2>1 DEF Deadline, Values
  <2>2. CASE Disconnect
    BY <2>2, ZenonT(30) DEF Disconnect, Values
  <2>3. CASE Cancelled
    BY <2>3 DEF Cancelled, Values
  <2>4. CASE UNCHANGED vars
    BY <2>4 DEF vars, Values
  <2> QED BY <1>9, <2>1, <2>2, <2>3, <2>4
<1>10. CASE TimerFires
  <2>1. fault' \in BOOLEAN
    BY <1>10 DEF TimerFires, Values
  <2> QED BY <1>10, <2>1 DEF TimerFires, Values
<1> QED BY <1>1, <1>2, <1>3, <1>4, <1>5, <1>6, <1>7, <1>8, <1>9, <1>10, NextCases

\* What the handler knows when it charges a node holds until it does.
LEMMA BlameInv ==
  ASSUME IInv, Values, Blame, Next
  PROVE  Blame'
<1>1. CASE Parsed \/ Granted \/ Rested
  BY <1>1 DEF Parsed, Granted, Rested, Values, Blame
<1>2. ASSUME NEW s \in {"busy", "http_5xx", "other"}, Status(s) PROVE Blame'
  BY <1>2, ZenonT(30) DEF Status, Values, Blame
<1>3. ASSUME NEW r \in Reads, FirstRead(r) \/ Read(r) PROVE Blame'
  <2>1. r.err = "broken" => fault' \/ stalled \/ ctx # "live"
    BY <1>3, ZenonT(30) DEF FirstRead, Read, Dead, Values
  <2>2. /\ got' = r /\ pc' \in {"stop", "write", "ended"}
        /\ UNCHANGED <<peer, ctx, stalled>>
    BY <1>3 DEF FirstRead, Read
  <2> QED BY <2>1, <2>2 DEF Blame
<1>4. CASE \/ BadRequest \/ RestCut \/ OutAbort
           \/ \E err \in {"queue_full", "queue_timeout", "no_node", "ctx"} : Rejected(err)
  <2>1. pc' = "finished" /\ UNCHANGED <<peer, ctx>>
    BY <1>4 DEF BadRequest, RestCut, OutAbort, Rejected, Silent, Answer, Finish
  <2> QED BY <2>1 DEF Blame
<1>5. CASE BadURL \/ DoFails \/ Drained \/ StopTimer
  <2>1. UNCHANGED <<peer, ctx, stalled, got>>
    BY <1>5 DEF BadURL, DoFails, Drained, StopTimer
  <2>2. \/ Retry("fail") \/ Retry("cancel")
        \/ ctx # "live" /\ Abort
        \/ pc = "stop" /\ pc' = "commit" /\ fault' = fault
    BY <1>5 DEF BadURL, DoFails, Drained, StopTimer, FailOrAbort
  <2>3. CASE Retry("fail") \/ Retry("cancel")
    <3>1. pc' \in {"backoff", "finished"}
      BY <2>3, RetryOutput
    <3> QED BY <2>1, <3>1 DEF Blame
  <2>4. CASE ctx # "live" /\ Abort
    BY <2>1, <2>4 DEF Abort, Blame
  <2>5. CASE pc = "stop" /\ pc' = "commit" /\ fault' = fault
    BY <2>1, <2>5 DEF Blame
  <2> QED BY <2>2, <2>3, <2>4, <2>5
<1>6. CASE Commit \/ Write \/ Ended
  <2>1. /\ UNCHANGED <<peer, ctx, stalled, got, fault>> /\ pc \in {"commit", "write", "ended"}
        /\ pc' \in {"read", "ended", "outAbort", "finished"}
    BY <1>6 DEF Commit, Write, Ended, AfterRead, WriteFails, AbortCommitted, Finish
  <2>2. pc' = "outAbort" => client'.status = "upstream"
    <3>1. client \in Responses
      BY DEF IInv, Typed
    <3> QED BY <1>6, <3>1, ZenonT(30)
               DEF Commit, Write, Ended, Finish, AfterRead, IInv, Sent, Responses
  <2> QED BY <2>1, <2>2 DEF Blame
<1>7. CASE Deadline \/ Disconnect \/ Cancelled \/ UNCHANGED vars
  BY <1>7 DEF Deadline, Disconnect, Cancelled, vars, Values, Blame
<1>8. CASE TimerFires
  <2>1. fault => fault'
    BY <1>8, ZenonT(30) DEF TimerFires, Values
  <2> QED BY <1>8, <2>1 DEF TimerFires, Blame
<1> QED BY <1>1, <1>2, <1>3, <1>4, <1>5, <1>6, <1>7, <1>8, NextCases

\* The lease settled last is the one of this attempt.
LEMMA SettledNow ==
  ASSUME IInv, pc \in InAttempt, NEW v \in {"ok", "fail", "cancel"}, Settle(v)
  PROVE  Len(verdicts') = attempt /\ verdicts'[attempt] = v
<1>1. verdicts \in Seq({"ok", "fail", "cancel"}) /\ attempt \in Nat /\ Len(verdicts) = attempt - 1
  BY HandlerAssumption DEF IInv, Typed, LeaseSettledOnce
<1> QED BY <1>1 DEF Settle

LEMMA FairInv ==
  ASSUME JInv, Next, IInv'
  PROVE  VerdictIsFair'
<1>0. IInv /\ Values /\ Blame /\ VerdictIsFair
  BY DEF JInv
<1>1. CASE pc' \in InAttempt \cup {"parse", "acquire"}
  <2>1. \A v : ~Charged(v)'
    <3>0. attempt' \in 1..MaxAttempts
      BY DEF IInv, Typed
    <3>1. attempt' \in Int
      BY <3>0, HandlerAssumption
    <3>2. Len(verdicts') # attempt'
      <4>1. CASE pc' = "parse"
        <5>1. attempt' = 1 /\ Len(verdicts') = 0
          BY <4>1 DEF IInv, Typed
        <5> QED BY <5>1
      <4>2. CASE pc' \in InAttempt \cup {"acquire"}
        <5>1. Len(verdicts') = attempt' - 1
          BY <4>2 DEF IInv, LeaseSettledOnce, InAttempt
        <5>2. PICK a \in Int : a = attempt'
          BY <3>1
        <5>3. a - 1 # a
          OBVIOUS
        <5> QED BY <5>1, <5>2, <5>3, ZenonT(30)
      <4> QED BY <1>1, <4>1, <4>2
    <3> QED BY <3>2 DEF Charged
  <2> QED BY <2>1 DEF VerdictIsFair
<1>2. ASSUME /\ UNCHANGED <<attempt, verdicts>>
             /\ fault' = fault /\ (stalled => stalled')
             /\ (ctx # "live" => ctx' # "live") /\ (~peer => ~peer')
      PROVE  VerdictIsFair'
  BY <1>0, <1>2 DEF VerdictIsFair, Charged
<1>3. CASE \/ BadRequest \/ RestCut \/ OutAbort
           \/ \E err \in {"queue_full", "queue_timeout", "no_node", "ctx"} : Rejected(err)
  BY <1>2, <1>3 DEF BadRequest, RestCut, OutAbort, Rejected
<1>4. CASE Deadline \/ Disconnect \/ Cancelled \/ UNCHANGED vars
  BY <1>2, <1>4 DEF Deadline, Disconnect, Cancelled, vars
<1>5. CASE TimerFires
  <2>1. fault' = fault \/ pc \in {"do", "first", "stop", "read"}
    BY <1>0, <1>5 DEF TimerFires, Values
  <2>2. CASE fault' = fault
    BY <1>2, <1>5, <2>2 DEF TimerFires
  <2>3. CASE pc \in {"do", "first", "stop", "read"}
    BY <1>1, <1>5, <2>3 DEF TimerFires, InAttempt
  <2> QED BY <2>1, <2>2, <2>3
<1>6. CASE BadURL \/ DoFails \/ Drained \/ StopTimer
  <2>1. UNCHANGED <<attempt, peer, ctx, stalled>> /\ pc \in InAttempt
    BY <1>6 DEF BadURL, DoFails, Drained, StopTimer, InAttempt
  <2>2. \/ Settle("fail") /\ (fault' \/ stalled)
        \/ Settle("cancel") /\ (ctx # "live" \/ (fault' => stalled))
        \/ pc' = "commit"
    <3>1. CASE BadURL
      BY <1>0, <3>1 DEF BadURL, Retry, Blame
    <3>2. CASE DoFails
      <4>1. CASE ctx = "live"
        BY <1>0, <3>2, <4>1, ZenonT(30) DEF DoFails, FailOrAbort, Retry, Dead, Values
      <4>2. CASE ctx # "live"
        BY <3>2, <4>2 DEF DoFails, FailOrAbort, Abort
      <4> QED BY <4>1, <4>2
    <3>3. CASE Drained
      BY <1>0, <3>3 DEF Drained, Retry, Blame
    <3>4. CASE StopTimer
      BY <1>0, <3>4 DEF StopTimer, FailOrAbort, Retry, Abort, Blame
    <3> QED BY <1>6, <3>1, <3>2, <3>3, <3>4
  <2>3. CASE Settle("fail") /\ (fault' \/ stalled)
    <3>1. Len(verdicts') = attempt /\ verdicts'[attempt] = "fail"
      BY <1>0, <2>1, <2>3, SettledNow
    <3> QED BY <2>1, <2>3, <3>1 DEF VerdictIsFair, Charged
  <2>4. CASE Settle("cancel") /\ (ctx # "live" \/ (fault' => stalled))
    <3>1. Len(verdicts') = attempt /\ verdicts'[attempt] = "cancel"
      BY <1>0, <2>1, <2>4, SettledNow
    <3> QED BY <2>1, <2>4, <3>1 DEF VerdictIsFair, Charged
  <2>5. CASE pc' = "commit"
    BY <1>1, <2>5 DEF InAttempt
  <2> QED BY <2>2, <2>3, <2>4, <2>5
<1>7. CASE Commit \/ Write \/ Ended
  <2>1. UNCHANGED <<attempt, peer, ctx, stalled, fault>> /\ pc \in InAttempt
    BY <1>7 DEF Commit, Write, Ended, InAttempt
  <2>2. \/ pc' \in {"read", "ended"}
        \/ Settle("ok")
        \/ Settle("cancel") /\ (~peer \/ ctx # "live")
        \/ Settle("fail") /\ (fault \/ stalled)
    BY <1>0, <1>7 DEF Commit, Write, Ended, AfterRead, WriteFails, AbortCommitted, Blame
  <2>3. CASE pc' \in {"read", "ended"}
    BY <1>1, <2>3 DEF InAttempt
  <2>4. CASE Settle("ok")
    <3>1. Len(verdicts') = attempt /\ verdicts'[attempt] = "ok"
      BY <1>0, <2>1, <2>4, SettledNow
    <3> QED BY <2>1, <3>1 DEF VerdictIsFair, Charged
  <2>5. CASE Settle("cancel") /\ (~peer \/ ctx # "live")
    <3>1. Len(verdicts') = attempt /\ verdicts'[attempt] = "cancel"
      BY <1>0, <2>1, <2>5, SettledNow
    <3> QED BY <2>1, <2>5, <3>1 DEF VerdictIsFair, Charged
  <2>6. CASE Settle("fail") /\ (fault \/ stalled)
    <3>1. Len(verdicts') = attempt /\ verdicts'[attempt] = "fail"
      BY <1>0, <2>1, <2>6, SettledNow
    <3> QED BY <2>1, <2>6, <3>1 DEF VerdictIsFair, Charged
  <2> QED BY <2>2, <2>3, <2>4, <2>5, <2>6
<1>8. CASE \/ Parsed \/ Granted \/ Rested
           \/ \E s \in {"busy", "http_5xx", "other"} : Status(s)
           \/ \E r \in Reads : FirstRead(r) \/ Read(r)
  <2>1. pc' \in InAttempt \cup {"parse", "acquire"}
    BY <1>8 DEF Parsed, Granted, Rested, Status, FirstRead, Read, InAttempt
  <2> QED BY <1>1, <2>1
<1> QED BY <1>3, <1>4, <1>5, <1>6, <1>7, <1>8, NextCases

\* Only Silent leaves a response empty, and then the client is gone or the
\* deadline passed during the pause.
LEMMA AnsweredInv ==
  ASSUME JInv, Next
  PROVE  Answered'
<1>0. IInv /\ Values /\ Blame /\ Answered /\ client \in Responses
  BY DEF JInv, IInv, Typed
<1>1. pc # "finished" => client.status # "implicit"
  BY <1>0 DEF IInv, Typed, Sent, Labelled, InAttempt
<1>2. ASSUME client'.status # "implicit" PROVE Answered'
  BY <1>2 DEF Answered
<1>3. ASSUME NEW l, NEW s \in {"400", "429", "502", "503", "504"}, Answer(l, s)
      PROVE  Answered'
  BY <1>0, <1>2, <1>3, AnswerOutput
<1>4. CASE BadRequest
  BY <1>3, <1>4 DEF BadRequest
<1>5. ASSUME NEW err \in {"queue_full", "queue_timeout", "no_node", "ctx"}, Rejected(err)
      PROVE  Answered'
  <2>1. CASE ctx = "gone" /\ peer' = peer
    BY <1>0, <2>1 DEF Blame, Answered
  <2>2. CASE \E l \in Labels, s \in {"429", "502", "503", "504"} : Answer(l, s)
    BY <1>3, <2>2
  <2> QED BY <1>5, <2>1, <2>2 DEF Rejected, Labels
<1>6. CASE RestCut
  <2>1. ctx # "live" /\ UNCHANGED <<attempt, peer, ctx, verdicts>>
    BY <1>6 DEF RestCut
  <2>2. Len(verdicts) = attempt /\ attempt < MaxAttempts
    BY <1>0, <1>6 DEF RestCut, IInv, Typed, LeaseSettledOnce
  <2> QED BY <1>0, <2>1, <2>2 DEF Values, Blame, Answered
<1>7. CASE OutAbort
  <2>1. CASE wrote
    <3>1. client'.status = client.status
      BY <1>0, <1>7, <2>1 DEF OutAbort, Responses
    <3> QED BY <1>1, <1>2, <1>7, <3>1 DEF OutAbort
  <2>2. CASE ~wrote /\ ctx = "deadline"
    BY <1>3, <1>7, <2>2 DEF OutAbort
  <2>3. CASE ~wrote /\ ctx # "deadline"
    <3>1. ctx = "gone" /\ peer' = peer
      BY <1>0, <1>7, <2>3 DEF OutAbort, wrote, Values, Blame
    <3> QED BY <1>0, <3>1 DEF Blame, Answered
  <2> QED BY <2>1, <2>2, <2>3
<1>8. CASE BadURL \/ DoFails \/ Drained \/ StopTimer
  <2>1. pc # "finished"
    BY <1>8 DEF BadURL, DoFails, Drained, StopTimer
  <2>2. \/ UNCHANGED client \/ Crash \/ Answer("upstream_failed", "502")
    BY <1>8 DEF BadURL, DoFails, Drained, StopTimer, FailOrAbort, Abort, Retry
  <2>3. CASE UNCHANGED client
    BY <1>1, <1>2, <2>1, <2>3
  <2>4. CASE Crash
    <3>1. client'.status = client.status
      BY <1>0, <2>4 DEF Crash, Responses
    <3> QED BY <1>1, <1>2, <2>1, <3>1
  <2>5. CASE Answer("upstream_failed", "502")
    BY <1>3, <2>5
  <2> QED BY <2>2, <2>3, <2>4, <2>5
<1>9. CASE Commit \/ Write \/ Ended
  <2>1. client'.status \in {client.status, "upstream"} /\ pc # "finished"
    BY <1>0, <1>9, ZenonT(30) DEF Commit, Write, Ended, Responses
  <2> QED BY <1>1, <1>2, <2>1
<1>10. CASE \/ Parsed \/ Granted \/ Rested \/ Deadline \/ Disconnect \/ Cancelled
            \/ \E s \in {"busy", "http_5xx", "other"} : Status(s)
            \/ \E r \in Reads : FirstRead(r) \/ Read(r)
  <2>1. pc # "finished" /\ client' = client
    BY <1>10 DEF Parsed, Granted, Rested, Deadline, Disconnect, Cancelled, Status, FirstRead, Read
  <2> QED BY <1>1, <1>2, <2>1
<1>11. CASE TimerFires \/ UNCHANGED vars
  BY <1>0, <1>11, ZenonT(30) DEF TimerFires, vars, Answered
<1> QED BY <1>4, <1>5, <1>6, <1>7, <1>8, <1>9, <1>10, <1>11, NextCases

LEMMA InductiveJ == Spec => []JInv
<1>1. JInv /\ [Next]_vars => JInv'
  <2> SUFFICES ASSUME JInv, [Next]_vars PROVE JInv'
    OBVIOUS
  <2>1. CASE Next
    <3>1. IInv'
      BY <2>1, NextInv DEF JInv
    <3>2. Values' /\ Blame'
      BY <2>1, ValuesInv, BlameInv DEF JInv
    <3> QED BY <2>1, <3>1, <3>2, FairInv, AnsweredInv DEF JInv
  <2>2. CASE UNCHANGED vars
    <3>1. IInv'
      BY <2>2, NextInv DEF JInv
    <3>2. Values' /\ Blame'
      BY <2>2 DEF vars, JInv, Values, Blame
    <3>3. VerdictIsFair' /\ Answered'
      BY <2>2 DEF vars, JInv, VerdictIsFair, Charged, Answered
    <3> QED BY <3>1, <3>2, <3>3 DEF JInv
  <2> QED BY <2>1, <2>2
<1> QED BY InitJ, <1>1, PTL DEF Spec

\* The variables of a request keep their types: the attempts stay within MaxAttempts
\* and the chunks within the bound on them.
THEOREM TypeCorrect == Spec => []TypeOK
<1>1. ASSUME JInv PROVE TypeOK
  <2>1. client \in Responses /\ client.from \in 0..MaxAttempts /\ client.chunks \in 0..MaxChunks
    BY <1>1 DEF JInv, IInv, Typed, Values
  <2>2. client \in [status : {"none", "upstream", "implicit", "400", "429", "502", "503", "504"},
                    from : 0..MaxAttempts, chunks : 0..MaxChunks,
                    end : {"open", "clean", "error_event", "aborted"}]
    BY <2>1 DEF Responses
  <2>3. {stream, peer, stalled, sse, fault} \subseteq BOOLEAN
    BY <1>1 DEF JInv, Values
  <2> QED BY <1>1, <2>2, <2>3 DEF JInv, IInv, Typed, Values, TypeOK
<1> QED BY <1>1, InductiveJ, PTL

\* attempt settles the lease with Done(false) only against a node that misbehaved or
\* was cut off by a timer, and lets a node that misbehaved go only when the client,
\* the deadline or a timer had a part in it.
THEOREM VerdictsAreFair == Spec => []VerdictIsFair
<1>1. JInv => VerdictIsFair
  BY DEF JInv
<1> QED BY <1>1, InductiveJ, PTL

\* A connected client gets a status of the gateway's or a node's choosing, except when
\* the deadline cuts the backoff pause short.
THEOREM ClientIsAnswered == Spec => []Answered
<1>1. JInv => Answered
  BY DEF JInv
<1> QED BY <1>1, InductiveJ, PTL

-----------------------------------------------------------------------------
\* Every step of the handler is a step of ClientView, or none.
LEMMA StepView ==
  ASSUME IInv, NoPanic, [Next]_vars
  PROVE  [View!Next]_(View!vars)
<1> USE DEF View!vars
<1>0. /\ client \in Responses /\ attempt \in 1..MaxAttempts
  BY DEF IInv, Typed
<1>1. ASSUME NEW l, NEW s \in {"implicit", "400", "429", "502", "503", "504"},
             Answer(l, s), client.status = "none"
      PROVE  View!Answer
  <2>1. client' = [client EXCEPT !.status = s, !.end = "clean"]
    BY <1>1 DEF Answer
  <2> QED BY <1>0, <1>1, <2>1 DEF View!Answer, Responses
<1>2. ASSUME NEW v, Retry(v), client.status = "none"
      PROVE  View!Answer \/ UNCHANGED client
  <2>1. ~Panics(attempt)
    BY <1>0 DEF NoPanic
  <2> QED BY <1>1, <1>2, <2>1 DEF Retry
<1>3. ASSUME NEW e \in {"clean", "error_event", "aborted"}, client.status = "upstream",
             client.end = "open", client' = [client EXCEPT !.end = e]
      PROVE  View!End
  BY <1>0, <1>3 DEF View!End, Responses
<1>4. CASE \/ Parsed \/ Granted \/ Rested
           \/ \E s \in {"busy", "http_5xx", "other"} : Status(s)
           \/ \E r \in Reads : FirstRead(r) \/ Read(r)
           \/ Deadline \/ Disconnect \/ Cancelled \/ TimerFires \/ UNCHANGED vars
  BY <1>4 DEF Parsed, Granted, Rested, Status, FirstRead, Read, Deadline, Disconnect,
              Cancelled, TimerFires, vars
<1>5. CASE BadRequest \/ RestCut
            \/ \E err \in {"queue_full", "queue_timeout", "no_node", "ctx"} : Rejected(err)
  <2>1. client.status = "none"
    BY <1>5 DEF BadRequest, RestCut, Rejected, IInv, Sent
  <2>2. \E l \in Labels, s \in {"implicit", "400", "429", "502", "503", "504"} : Answer(l, s)
    BY <1>5 DEF BadRequest, RestCut, Rejected, Silent, Answer, Labels
  <2> QED BY <1>1, <2>1, <2>2 DEF View!Next
<1>6. CASE BadURL \/ DoFails \/ Drained \/ StopTimer
  <2>1. client.status = "none"
    BY <1>6 DEF BadURL, DoFails, Drained, StopTimer, IInv, Sent
  <2>2. UNCHANGED client \/ Retry("fail") \/ Retry("cancel")
    BY <1>6 DEF BadURL, DoFails, Drained, StopTimer, FailOrAbort, Abort
  <2> QED BY <1>2, <2>1, <2>2 DEF View!Next
<1>7. CASE Commit
  <2>1. client.status = "none"
    BY <1>7 DEF Commit, IInv, Sent
  <2>2. client' = [client EXCEPT !.status = "upstream", !.from = attempt,
                                 !.chunks = IF got.bytes THEN 1 ELSE 0]
    BY <1>7 DEF Commit
  <2> QED BY <1>0, <2>1, <2>2 DEF View!Next, View!Begin, Responses
<1>8. CASE Write
  <2>1. client.status = "upstream" /\ client.end = "open" /\ client.chunks > 0
    BY <1>8 DEF Write, IInv, Sent
  <2>2. UNCHANGED client \/ client' = [client EXCEPT !.chunks = @ + 1]
    BY <1>8 DEF Write
  <2> QED BY <1>0, <2>1, <2>2 DEF View!Next, View!More, Responses
<1>9. CASE Ended
  <2>1. client.status = "upstream" /\ client.end = "open"
    BY <1>9 DEF Ended, IInv, Sent
  <2>2. CASE sse
    BY <1>3, <1>9, <2>1, <2>2 DEF Ended, View!Next
  <2>3. CASE ~sse
    BY <1>3, <1>9, <2>1, <2>3 DEF Ended, View!Next
  <2> QED BY <2>2, <2>3
<1>10. CASE OutAbort
  <2>1. client.end = "open" /\ client.status \in {"none", "upstream"}
    BY <1>10 DEF OutAbort, IInv, Sent, Labelled
  <2>2. CASE ~wrote
    <3>1. \E l \in Labels, s \in {"implicit", "504"} : Answer(l, s)
      BY <1>10, <2>2 DEF OutAbort, Silent, Answer, Labels
    <3> QED BY <1>1, <2>2, <3>1 DEF wrote, View!Next
  <2>3. CASE wrote
    BY <1>3, <1>10, <2>1, <2>3 DEF OutAbort, wrote, View!Next
  <2> QED BY <2>2, <2>3
<1> QED BY <1>4, <1>5, <1>6, <1>7, <1>8, <1>9, <1>10, NextCases

\* The client of a request sees one answer, or one node's output in one piece with
\* one end, however the attempts, the timers and the disconnect interleave: the
\* handler implements ClientView, if no pause panics.
THEOREM ClientSeesOneResponse ==
  ASSUME NoPanic
  PROVE  Spec => ClientSpec
<1>1. Init => View!Init
  BY DEF Init, View!Init
<1>2. IInv /\ [Next]_vars => [View!Next]_(View!vars)
  BY StepView
<1> QED BY Inductive, <1>1, <1>2, PTL DEF Spec, ClientSpec, View!Spec
=============================================================================
