SPECIFICATION Spec
CONSTANTS
  MaxLines = 2
  LogFiles = 3
  Requests = {r1, r2, r3}
  Prompts = 2
  Repeats = 2
  Latencies <- MCLatencies
  Containers <- MCContainers
  MaxInterrupts = 2
INVARIANTS
  TypeOK LoadIsOver WarmAfterCold EveryRequestReported SurvivesTheGateway
  VerdictIsStated RunningContainersSaved ColdThenWarm
PROPERTIES
  PoolIsLeft
