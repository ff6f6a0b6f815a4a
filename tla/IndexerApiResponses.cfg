\* Lists of transactions with their responses.
SPECIFICATION Spec
CONSTANTS
  Source = "utxo"
  MaxHeight = 3
  Time <- GrowingTime
  Transactions <- MCTransactions
  Ledgers <- MCLedgers
  ForkTimes = {2}
  MaxForks = 1
  indexerServerPageLimit = 2
  Requests <- ResponseRequests
INVARIANTS
  ResponsesWhole
\* The chain is bounded: the run ends when all of it was stored and dropped.
CHECK_DEADLOCK FALSE
