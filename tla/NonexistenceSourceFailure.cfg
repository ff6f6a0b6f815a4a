\* A UTXO chain of two blocks without transactions.
SPECIFICATION Spec
CONSTANTS
  Source = "utxo"
  MaxHeight = 2
  Time <- GrowingTime
  Transactions <- MCTransactions
  Ledgers <- EmptyLedgers
  ForkTimes = {}
  MaxForks = 0
  Requests <- ShortRequests
  MaxSafeInteger = 5
INVARIANT SourceFailureIndeterminate
CHECK_DEADLOCK FALSE
