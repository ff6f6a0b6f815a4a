SPECIFICATION Spec
CONSTANTS
  r1 = r1
  r2 = r2
  r3 = r3
  Requests = {r1, r2, r3}
  Unsendable = {r3}
  PoolSize = 1
  MaxQueueSize = 2
  MaxFailures = 2
PROPERTIES
  SubmittedSettles
  PoolRecovers
  ImplementsJobService
CHECK_DEADLOCK FALSE
