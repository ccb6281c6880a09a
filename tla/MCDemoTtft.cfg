SPECIFICATION Spec
CONSTANTS
  MaxLines = 2
  LogFiles = 3
  Requests = {r1, r2}
  Prompts = 2
  Repeats = 2
  Latencies <- MCLatencies
  Containers <- MCContainers
  MaxInterrupts = 0
INVARIANTS
  SamplesAreFirstTokens
