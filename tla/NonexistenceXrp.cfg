\* An XRP ledger of four blocks.
SPECIFICATION Spec
CONSTANTS
  Source = "xrp"
  MaxHeight = 4
  Time <- GrowingTime
  Transactions <- MCTransactions
  Ledgers <- MCLedgers
  ForkTimes = {4}
  MaxForks = 1
  Requests <- MCRequests
  MaxSafeInteger = 5
INVARIANTS
  NonexistenceSound
  ExistenceSound
  ResponseFinal
  UnavailabilityJustified
\* The chain is bounded: the run ends when all of it was stored and dropped.
CHECK_DEADLOCK FALSE
