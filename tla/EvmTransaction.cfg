\* A chain of four blocks, of which the newest may be replaced.
SPECIFICATION Spec
CONSTANTS
  ReorgDepth = 1
  Forks = {1, 2}
  FirstIndex <- MCFirstIndex
  NumLogs <- MCNumLogs
  MaxHeight = 4
  MaxEvents = 2
  AttestationNames = {"EVMTransaction"}
  SourceIds = {"ETH"}
  SourceId = "ETH"
  Requests <- MCRequests
INVARIANTS
  ResponseSettled
  SettledIsConfirmed
\* The chain is bounded: the run ends when it cannot grow any more.
CHECK_DEADLOCK FALSE
