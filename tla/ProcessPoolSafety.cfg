\* Two children, four requests of which one cannot be sent, a queue of one,
\* and two spontaneous failures.
SPECIFICATION SafeSpec
CONSTANTS
  r1 = r1
  r2 = r2
  r3 = r3
  r4 = r4
  Requests = {r1, r2, r3, r4}
  Unsendable = {r4}
  PoolSize = 2
  MaxQueueSize = 1
  MaxFailures = 2
SYMMETRY SendableSymmetry
INVARIANTS
  TypeOK
  NoLostWakeup
  NoLostRequest
  ExclusiveWorker
  PoolStaffed
  NoOrphanProcess
  NoAbandonedWork
PROPERTY SettledOnce
\* The run ends when every request is settled and every event delivered.
CHECK_DEADLOCK FALSE
