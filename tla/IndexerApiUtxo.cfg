\* The indexer API of a UTXO chain of three blocks.
SPECIFICATION Spec
CONSTANTS
  Source = "utxo"
  MaxHeight = 3
  Time <- GrowingTime
  Transactions <- MCTransactions
  Ledgers <- MCLedgers
  ForkTimes = {2}
  MaxForks = 1
  indexerServerPageLimit = 2
  Requests <- MCRequests
INVARIANTS
  PagesComplete
  RangeStored
  NotFoundJustified
\* The chain is bounded: the run ends when all of it was stored and dropped.
CHECK_DEADLOCK FALSE
