---------------------------- MODULE DemoReplies -----------------------------
(***************************************************************************)
(* What the demo scripts (examples/*.py, scripts/benchmark_long_context.py)*)
(* make of the gateway's replies: each script reads the same event stream  *)
(* in its own way.  A line of a stream is named by what it holds:          *)
(*   "blank"                                                               *)
(*   "plain"   not a data: line (a JSON error body, a comment)             *)
(*   "role"    a chunk whose delta has no content                          *)
(*   "delta"   a chunk with content: a token                               *)
(*   "junk"    a data: line that is not JSON                               *)
(*   "error"   the gateway's error event, which has no choices             *)
(*   "done"    data: [DONE]                                                *)
(* broken says that the connection fails after the last line.              *)
(***************************************************************************)
EXTENDS Integers, Sequences, FiniteSets, FiniteSetsExt

CONSTANT MaxLines   \* bound: lines of a reply

\* The sequences of at most n members of S.
SeqsUpTo(S, n) == UNION {[1 .. m -> S] : m \in 0 .. n}

LineKinds == {"blank", "plain", "role", "delta", "junk", "error", "done"}

\* What Handler sends a client: an event stream that may end early or break, a
\* refusal with a JSON body, or nothing at all.
Streams  == [code : {200}, lines : SeqsUpTo(LineKinds, MaxLines), broken : BOOLEAN]
Refusals == [code : {503}, lines : {<<"plain">>}, broken : {FALSE}]
NoReply  == [code |-> 0, lines |-> <<>>, broken |-> TRUE]
Replies  == Streams \cup Refusals \cup {NoReply}

\* The lines that are read: those before [DONE].
Body(reply) ==
  LET done == {i \in DOMAIN reply.lines : reply.lines[i] = "done"}
  IN  IF done = {} THEN reply.lines ELSE SubSeq(reply.lines, 1, Min(done) - 1)

Lines(reply) == Range(Body(reply))

\* Reading to the end raises unless [DONE] comes before the break.
ReadsToEnd(reply) == ~reply.broken \/ "done" \in Range(reply.lines)

\* Mutant: what goes wrong with a request is not caught.
measure_ttft_Raises(reply) ==
  CASE "delta" \in Lines(reply) -> "ttft"
    [] "delta" \notin Lines(reply) /\ ReadsToEnd(reply) -> "elapsed"
    [] OTHER -> "raises"

\* The time to the first token, or the time the reply took when it had none,
\* whatever its status; -1 ("error") when the request failed.
measure_ttft(reply) ==
  CASE "delta" \in Lines(reply) -> "ttft"
    [] "delta" \notin Lines(reply) /\ ReadsToEnd(reply) -> "elapsed"
    [] OTHER -> "error"

\* The same in dp_demo, without the try.
send(reply) ==
  IF measure_ttft(reply) = "error" THEN "raises" ELSE measure_ttft(reply)

\* streaming_demo passes over lines that are not JSON, and only those: an error
\* event ends it with a KeyError.
stream_chat(reply) ==
  CASE reply.code \notin {0, 200} -> "refused"
    [] reply.code = 200 /\ ReadsToEnd(reply) /\ "error" \notin Lines(reply) -> "complete"
    [] OTHER -> "raises"

\* benchmark_long_context takes the first line that is not blank; urlopen
\* raises for a refusal.
chat_stream_ttft(reply) ==
  CASE reply.code = 200 /\ Range(reply.lines) \ {"blank"} # {} -> "ms"
    [] reply.code = 200 /\ Range(reply.lines) \subseteq {"blank"} /\ ~reply.broken -> "zero"
    [] OTHER -> "none"

-----------------------------------------------------------------------------
\* A request that is not streamed: an answer, another 200, a refusal or nothing.
Answers == {"answer", "no_choices", "refused", "nothing"}

\* single: raise_for_status and a body without choices both end in the except.
single(answer) == answer = "answer"

\* enterprise_qa_demo looks at the status itself.
simulate_employee(answer) == answer \notin {"refused", "nothing", "no_choices"}

\* What a reply to the last request of a context says of its prompt's tokens.
Usages == {u \in [ok : BOOLEAN, cached : {0, 1}, total : {0, 2}] : u.cached <= u.total}

\* <<cached, total>>, each zero when it is not stated, both when the request fails.
chat_non_stream_for_tokens(usage) ==
  IF usage.ok THEN <<usage.cached, usage.total>> ELSE <<0, 0>>

\* Python's sorted: the latencies in an order in which none is above a later one.
sorted(latencies) ==
  LET order == CHOOSE p \in Bijection(DOMAIN latencies, DOMAIN latencies) :
                 \A i, j \in DOMAIN latencies : i < j => latencies[p[i]] <= latencies[p[j]]
  IN  [i \in DOMAIN latencies |-> latencies[order[i]]]

\* The two figures reported of the latencies: the median, doubled to stay an
\* integer, and sorted(latencies)[int(n * 0.95)].
P50x2(latencies) ==
  LET s == sorted(latencies)
      n == Len(s)
  IN  s[(n + 1) \div 2] + s[n \div 2 + 1]

P95(latencies) ==
  LET s == sorted(latencies) IN s[(Len(s) * 95) \div 100 + 1]
=============================================================================
