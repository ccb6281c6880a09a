------------------------------ MODULE Handler -------------------------------
(***************************************************************************)
(* One POST /v1/chat request (handler/direct.go): acquire a lease, forward *)
(* the request, read the first chunk before anything is written to the     *)
(* client, stream the rest, and retry on another node as long as nothing   *)
(* was written.                                                            *)
(*                                                                         *)
(* The node, the client, the first-byte and idle timers and the request    *)
(* context act on their own between any two steps of the handler.  What    *)
(* Acquire answers is left open here; Router models it.                    *)
(***************************************************************************)
EXTENDS Integers, Sequences

CONSTANTS
  MaxAttempts,  \* Reliability.MaxAttempts
  RetryBackoff, \* Reliability.RetryBackoff, as configured
  Default,      \* the default retry_backoff
  Second,       \* time.Second, in the same unit
  Width,        \* bits of a time.Duration
  MaxChunks     \* bound: chunks a node sends in one response

\* What Validate asks of the values used here: of RetryBackoff, nothing.
Validated == MaxAttempts >= 1

ASSUME HandlerAssumption ==
  /\ {MaxAttempts, RetryBackoff} \subseteq Int /\ Validated
  /\ {Default, Second, Width, MaxChunks} \subseteq Nat \ {0}

VARIABLES
  pc,        \* where the handler is
  attempt,   \* the attempt number
  stream,    \* does the request ask for a stream?
  peer,      \* is the client's connection usable?
  ctx,       \* "live", "deadline" (overall timeout) or "gone" (client left)
  timer,     \* the running timer of this attempt: "none", "first" or "idle"
  stalled,   \* the flag a timer sets when it cancels the attempt
  got,       \* what the last Read returned
  sse,       \* isSSE
  lease,     \* "none" or "held"
  verdicts,  \* history: how the lease of each attempt was settled
  outcomes,  \* history: the labels finish was called with
  client,    \* what the client has been sent
  fault      \* history: did the node of this attempt misbehave?

vars == <<pc, attempt, stream, peer, ctx, timer, stalled, got, sse, lease,
          verdicts, outcomes, client, fault>>

\* What a Read returns: bytes or none, and no error, io.EOF or another error.
Reads == [bytes : BOOLEAN, err : {"nil", "eof", "broken"}] \
           {[bytes |-> FALSE, err |-> "nil"]}

NoRead == [bytes |-> FALSE, err |-> "broken"]

Init ==
  /\ pc = "parse"
  /\ attempt = 1
  /\ stream \in BOOLEAN
  /\ peer = TRUE
  /\ ctx = "live"
  /\ timer = "none"
  /\ stalled = FALSE
  /\ got = NoRead
  /\ sse = FALSE
  /\ lease = "none"
  /\ verdicts = <<>>
  /\ outcomes = <<>>
  /\ client = [status |-> "none", from |-> 0, chunks |-> 0, end |-> "open"]
  /\ fault = FALSE

\* Mutant: the upstream call is not tied to the request's context.
Dead_OnlyTimers == stalled

\* The context of the attempt is cancelled.
Dead == ctx # "live" \/ stalled

wrote == client.status # "none"

-----------------------------------------------------------------------------
\* Lease.Done(true), Lease.Done(false) and Lease.Release, by their verdict.
Settle(verdict) ==
  /\ lease' = "none"
  /\ verdicts' = Append(verdicts, verdict)

\* ServeHTTP returns after calling finish.
Finish(label) ==
  /\ outcomes' = Append(outcomes, label)
  /\ pc' = "finished"
  /\ timer' = "none"

\* writeJSON of an error, as the whole response.
Answer(label, status) ==
  /\ Finish(label)
  /\ client' = [client EXCEPT !.status = status, !.end = "clean"]

\* Return without writing: net/http sends an empty 200 to a client still there.
Silent(label) ==
  /\ Finish(label)
  /\ client' = [client EXCEPT !.status = "implicit", !.end = "clean"]

\* abort, before the commit: the lease is released and outAbort returned.
Abort ==
  /\ Settle("cancel")
  /\ pc' = "outAbort"
  /\ timer' = "none"
  /\ UNCHANGED <<outcomes, client>>

\* init puts the default for a missing or zero value.
retryBackoff == IF RetryBackoff = 0 THEN Default ELSE RetryBackoff

\* d << k in two's complement.
ShiftLeft(d, k) ==
  LET half == 2 ^ (Width - 1) IN ((d * 2 ^ k + half) % (2 * half)) - half

\* The base of the pause after attempt n; the pause is between d/2 and d.
backoff(n) ==
  LET d == ShiftLeft(retryBackoff, n - 1) IN IF d > Second THEN Second ELSE d

\* rand.Int63n panics unless d/2 + 1, rounded towards zero, is positive.
Panics(n) == backoff(n) <= -2

\* net/http recovers the panic and closes the connection; finish is not called.
Crash ==
  /\ pc' = "finished"
  /\ timer' = "none"
  /\ client' = [client EXCEPT !.end = "aborted"]
  /\ UNCHANGED outcomes

\* Mutant: one attempt too many.
Retry_OffByOne(verdict) ==
  /\ Settle(verdict)
  /\ IF attempt <= MaxAttempts
     THEN pc' = "backoff" /\ timer' = "none" /\ UNCHANGED <<outcomes, client>>
     ELSE Answer("upstream_failed", "502")

\* outRetry: back off, or give up after the last attempt.
Retry(verdict) ==
  /\ Settle(verdict)
  /\ \/ /\ attempt < MaxAttempts /\ ~Panics(attempt)
        /\ pc' = "backoff" /\ timer' = "none"
        /\ UNCHANGED <<outcomes, client>>
     \/ attempt < MaxAttempts /\ Panics(attempt) /\ Crash
     \/ attempt = MaxAttempts /\ Answer("upstream_failed", "502")

\* Mutant: the request's context is not looked at.
FailOrAbort_Blames == Retry("fail")

\* An error before the commit: the client or the deadline, else the node.
FailOrAbort == IF ctx # "live" THEN Abort ELSE Retry("fail")

-----------------------------------------------------------------------------
\* The body is read and checked; the overall timeout starts after that.
Parsed ==
  /\ pc = "parse"
  /\ pc' = "acquire"
  /\ UNCHANGED <<attempt, stream, peer, ctx, timer, stalled, got, sse, lease,
                 verdicts, outcomes, client, fault>>

BadRequest ==
  /\ pc = "parse"
  /\ Answer("bad_request", "400")
  /\ UNCHANGED <<attempt, stream, peer, ctx, stalled, got, sse, lease, verdicts, fault>>

\* Acquire returns a lease; the attempt starts its first-byte timer.
Granted ==
  /\ pc = "acquire"
  /\ lease' = "held"
  /\ stalled' = FALSE
  /\ fault' = FALSE
  /\ timer' = "first"
  /\ pc' = "do"
  /\ UNCHANGED <<attempt, stream, peer, ctx, got, sse, verdicts, outcomes, client>>

\* rejectAcquire.
Rejected(err) ==
  /\ pc = "acquire"
  /\ \/ err = "queue_full" /\ Answer("queue_full", "429")
     \/ err = "queue_timeout" /\ Answer("queue_timeout", "503")
     \/ err = "no_node" /\ attempt > 1 /\ Answer("upstream_failed", "502")
     \/ err = "no_node" /\ attempt = 1 /\ Answer("no_node", "503")
     \/ err = "ctx" /\ ctx = "deadline" /\ Answer("timeout", "504")
     \/ err = "ctx" /\ ctx = "gone" /\ Silent("cancelled")
  /\ UNCHANGED <<attempt, stream, peer, ctx, stalled, got, sse, lease, verdicts, fault>>

\* Mutant: the early return forgets the lease.
BadURL_Leaks ==
  /\ pc = "do"
  /\ pc' = IF attempt < MaxAttempts THEN "backoff" ELSE "finished"
  /\ timer' = "none"
  /\ UNCHANGED <<attempt, stream, peer, ctx, stalled, got, sse, lease, verdicts,
                 outcomes, client, fault>>

\* http.NewRequest refuses the node's URL.
BadURL ==
  /\ pc = "do"
  /\ Retry("cancel")
  /\ UNCHANGED <<attempt, stream, peer, ctx, stalled, got, sse, fault>>

\* client.Do fails by the node's fault, or because the attempt was cancelled.
DoFails ==
  /\ pc = "do"
  /\ fault' = (fault \/ ~Dead)
  /\ FailOrAbort
  /\ UNCHANGED <<attempt, stream, peer, ctx, stalled, got, sse>>

\* A status arrives.  429 and 5xx stop the timer and drain the body.
Status(status) ==
  /\ pc = "do"
  /\ pc' = IF status = "other" THEN "first" ELSE status
  /\ timer' = IF status = "other" THEN timer ELSE "none"
  /\ fault' = (fault \/ status = "http_5xx")
  /\ UNCHANGED <<attempt, stream, peer, ctx, stalled, got, sse, lease, verdicts,
                 outcomes, client>>

Drained ==
  /\ \/ pc = "busy" /\ Retry("cancel")
     \/ pc = "http_5xx" /\ Retry("fail")
  /\ UNCHANGED <<attempt, stream, peer, ctx, stalled, got, sse, fault>>

\* The first Read returns r, and fb.Stop is next.
FirstRead(r) ==
  /\ pc = "first"
  /\ got' = r
  /\ fault' = (fault \/ (r.err = "broken" /\ ~Dead))
  /\ pc' = "stop"
  /\ UNCHANGED <<attempt, stream, peer, ctx, timer, stalled, sse, lease,
                 verdicts, outcomes, client>>

StopTimer ==
  /\ pc = "stop"
  /\ IF ~got.bytes /\ got.err = "broken"
     THEN FailOrAbort
     ELSE /\ pc' = "commit" /\ timer' = "none"
          /\ UNCHANGED <<lease, verdicts, outcomes, client>>
  /\ UNCHANGED <<attempt, stream, peer, ctx, stalled, got, sse, fault>>

\* The client or the deadline ends an attempt after the commit.
AbortCommitted ==
  /\ Settle("cancel")
  /\ outcomes' = Append(outcomes, "cancelled")
  /\ pc' = "outAbort"
  /\ timer' = "none"

WriteFails == ~peer /\ AbortCommitted

AfterRead == IF got.err = "nil" THEN "read" ELSE "ended"

\* Header and first chunk go to the client, and the idle timer starts.
Commit ==
  /\ pc = "commit"
  /\ sse' \in BOOLEAN
  /\ client' = [client EXCEPT !.status = "upstream", !.from = attempt,
                              !.chunks = IF got.bytes THEN 1 ELSE 0]
  /\ \/ /\ pc' = AfterRead
        /\ timer' = "idle"
        /\ UNCHANGED <<lease, verdicts, outcomes>>
     \/ got.bytes /\ WriteFails
  /\ UNCHANGED <<attempt, stream, peer, ctx, stalled, got, fault>>

\* A Read of the loop returns r, and idle.Reset follows.
Read(r) ==
  /\ pc = "read"
  /\ r.bytes => client.chunks < MaxChunks
  /\ got' = r
  /\ fault' = (fault \/ (r.err = "broken" /\ ~Dead))
  /\ timer' = "idle"
  /\ pc' = IF r.bytes THEN "write" ELSE "ended"
  /\ UNCHANGED <<attempt, stream, peer, ctx, stalled, sse, lease, verdicts,
                 outcomes, client>>

Write ==
  /\ pc = "write"
  /\ \/ /\ client' = [client EXCEPT !.chunks = @ + 1]
        /\ pc' = AfterRead
        /\ UNCHANGED <<timer, lease, verdicts, outcomes>>
     \/ WriteFails /\ UNCHANGED client
  /\ UNCHANGED <<attempt, stream, peer, ctx, stalled, got, sse, fault>>

\* Mutant: a stream that breaks after the commit is retried.
Ended_Retries ==
  /\ pc = "ended"
  /\ \/ /\ got.err = "eof"
        /\ Settle("ok") /\ Finish("direct_ok")
        /\ client' = [client EXCEPT !.end = "clean"]
     \/ got.err = "broken" /\ FailOrAbort
  /\ UNCHANGED <<attempt, stream, peer, ctx, stalled, got, sse, fault>>

\* The body ended: by EOF, by the context, or by a broken or stalled stream.
Ended ==
  /\ pc = "ended"
  /\ \/ /\ got.err = "eof"
        /\ Settle("ok") /\ Finish("direct_ok")
        /\ client' = [client EXCEPT !.end = "clean"]
     \/ /\ got.err = "broken" /\ ctx # "live"
        /\ AbortCommitted
        /\ UNCHANGED client
     \/ /\ got.err = "broken" /\ ctx = "live"
        /\ Settle("fail") /\ Finish("midstream_failed")
        /\ client' = [client EXCEPT !.end = IF sse THEN "error_event" ELSE "aborted"]
  /\ UNCHANGED <<attempt, stream, peer, ctx, stalled, got, sse, fault>>

\* Mutant: finish is called whether or not the attempt did.
OutAbort_Again ==
  /\ pc = "outAbort"
  /\ Finish("cancelled")
  /\ client' = [client EXCEPT !.end = "clean"]
  /\ UNCHANGED <<attempt, stream, peer, ctx, stalled, got, sse, lease, verdicts, fault>>

\* Mutant: the deadline is not told apart from a client that left.
OutAbort_Silent ==
  /\ pc = "outAbort"
  /\ \/ ~wrote /\ Silent("cancelled")
     \/ /\ wrote
        /\ client' = [client EXCEPT !.end = "clean"]
        /\ pc' = "finished"
        /\ UNCHANGED <<timer, outcomes>>
  /\ UNCHANGED <<attempt, stream, peer, ctx, stalled, got, sse, lease, verdicts, fault>>

\* ServeHTTP on outAbort: only a request with nothing written is answered.
OutAbort ==
  /\ pc = "outAbort"
  /\ \/ ~wrote /\ ctx = "deadline" /\ Answer("timeout", "504")
     \/ ~wrote /\ ctx # "deadline" /\ Silent("cancelled")
     \/ /\ wrote
        /\ client' = [client EXCEPT !.end = "clean"]
        /\ pc' = "finished"
        /\ UNCHANGED <<timer, outcomes>>
  /\ UNCHANGED <<attempt, stream, peer, ctx, stalled, got, sse, lease, verdicts, fault>>

\* sleepCtx: the pause ends, or the context does.
Rested ==
  /\ pc = "backoff"
  /\ attempt' = attempt + 1
  /\ pc' = "acquire"
  /\ UNCHANGED <<stream, peer, ctx, timer, stalled, got, sse, lease, verdicts,
                 outcomes, client, fault>>

RestCut ==
  /\ pc = "backoff" /\ ctx # "live"
  /\ Silent("cancelled")
  /\ UNCHANGED <<attempt, stream, peer, ctx, stalled, got, sse, lease, verdicts, fault>>

-----------------------------------------------------------------------------
\* The context, the client and the timers.
Deadline ==
  /\ pc \notin {"parse", "finished"} /\ ctx = "live"
  /\ ctx' = "deadline"
  /\ UNCHANGED <<pc, attempt, stream, peer, timer, stalled, got, sse, lease,
                 verdicts, outcomes, client, fault>>

\* The connection breaks, or the server's write timeout closes it.
Disconnect ==
  /\ pc # "finished" /\ peer
  /\ peer' = FALSE
  /\ UNCHANGED <<pc, attempt, stream, ctx, timer, stalled, got, sse, lease,
                 verdicts, outcomes, client, fault>>

\* net/http notices and cancels the request's context.
Cancelled ==
  /\ pc # "finished" /\ ~peer /\ ctx = "live"
  /\ ctx' = "gone"
  /\ UNCHANGED <<pc, attempt, stream, peer, timer, stalled, got, sse, lease,
                 verdicts, outcomes, client, fault>>

\* A timer fires.  It is the node's doing when the handler waits for the node.
\* The first-byte budget of a request that is not streamed is the overall
\* timeout, which began earlier and so ends first.
TimerFires ==
  /\ timer # "none"
  /\ timer = "first" /\ ~stream => ctx # "live"
  /\ stalled' = TRUE
  /\ timer' = "none"
  /\ fault' = (fault \/ (ctx = "live" /\ pc \in {"do", "first", "stop", "read"}))
  /\ UNCHANGED <<pc, attempt, stream, peer, ctx, got, sse, lease, verdicts,
                 outcomes, client>>

-----------------------------------------------------------------------------
\* What the handler does by itself, sooner or later: a cancelled attempt makes
\* the transport return, and a Write returns within the write timeout.
Own ==
  \/ Parsed \/ BadRequest
  \/ Granted
  \/ \E err \in {"queue_full", "queue_timeout", "no_node", "ctx"} : Rejected(err)
  \/ Dead /\ DoFails
  \/ ctx # "live" /\ Drained
  \/ Dead /\ FirstRead(NoRead)
  \/ Dead /\ Read(NoRead)
  \/ StopTimer \/ Commit \/ Write \/ Ended
  \/ OutAbort \/ Rested \/ RestCut

\* What it does when the node acts, or has a URL that does not parse.
Node ==
  \/ BadURL
  \/ DoFails
  \/ \E status \in {"busy", "http_5xx", "other"} : Status(status)
  \/ Drained
  \/ \E r \in Reads : FirstRead(r) \/ Read(r)

Next ==
  \/ Own
  \/ Node
  \/ Deadline \/ Disconnect \/ Cancelled \/ TimerFires
  \/ pc = "finished" /\ UNCHANGED vars

Spec == Init /\ [][Next]_vars

\* The goroutine runs and the overall timeout comes; no node, no client and no
\* shorter timer has to help.
FairSpec == Spec /\ WF_vars(Own) /\ WF_vars(Deadline)

-----------------------------------------------------------------------------
InAttempt == {"do", "busy", "http_5xx", "first", "stop", "commit", "read", "write", "ended"}

TypeOK ==
  /\ pc \in InAttempt \cup {"parse", "acquire", "outAbort", "backoff", "finished"}
  /\ attempt \in 1..MaxAttempts
  /\ {stream, peer, stalled, sse, fault} \subseteq BOOLEAN
  /\ ctx \in {"live", "deadline", "gone"}
  /\ timer \in {"none", "first", "idle"}
  /\ got \in Reads
  /\ lease \in {"none", "held"}
  /\ verdicts \in Seq({"ok", "fail", "cancel"})
  /\ client \in [status : {"none", "upstream", "implicit", "400", "429", "502", "503", "504"},
                 from : 0..MaxAttempts, chunks : 0..MaxChunks,
                 end : {"open", "clean", "error_event", "aborted"}]

\* Every path of attempt settles the lease exactly once before the next Acquire
\* or the end of the request, so no slot and no probe is leaked.
LeaseSettledOnce ==
  /\ lease = "held" <=> pc \in InAttempt
  /\ pc \in InAttempt \cup {"acquire"} => Len(verdicts) = attempt - 1
  /\ pc \in {"backoff", "outAbort"} => Len(verdicts) = attempt
  /\ pc = "finished" => Len(verdicts) \in {attempt - 1, attempt}

\* finish is called exactly once per request, although attempt calls it on some
\* aborts and ServeHTTP on the others: requests_total counts each request once.
FinishedOnce ==
  /\ pc = "finished" => Len(outcomes) = 1
  /\ outcomes # <<>> => pc \in {"outAbort", "finished"}

\* The verdict on the current attempt, if it has one.
Charged(verdict) ==
  Len(verdicts) = attempt /\ verdicts[attempt] = verdict

\* A node is charged only after it misbehaved or a timer cut it off, never for
\* a cancelled client; and a node that misbehaved is let off only when the
\* client, the deadline or a timer was in it too.
VerdictIsFair ==
  /\ Charged("fail") => fault \/ stalled
  /\ Charged("cancel") /\ fault /\ ~stalled => ctx # "live" \/ ~peer

\* A client that is still connected gets an answer of the gateway or of a node.
\* The one exception is a deadline that passes during the backoff pause.
Answered ==
  client.status = "implicit" /\ peer =>
    ctx = "deadline" /\ Len(verdicts) = attempt /\ attempt < MaxAttempts

\* The client sees at most one node's output, in one piece, and nothing after
\* the end: first-byte commit, as the abstract specification ClientView.
View == INSTANCE ClientView WITH
          status <- client.status, from <- client.from,
          chunks <- client.chunks, end <- client.end

ClientSpec == View!Spec

\* Every request ends, by the overall timeout at the latest.
Terminates == <>(pc = "finished")

-----------------------------------------------------------------------------
\* direct.go says that a truncated body "must not look complete": a response
\* that ends cleanly for a connected client was read up to its EOF.
TruncationVisible ==
  client.status = "upstream" /\ client.end = "clean" /\ peer => got.err = "eof"

\* config.go says that Validate "reports the first value that would make the gateway
\* misbehave": with a configuration it accepts, no retry panics the handler.
ValidatedNeverPanics == ~(client.status = "none" /\ client.end = "aborted")
=============================================================================
