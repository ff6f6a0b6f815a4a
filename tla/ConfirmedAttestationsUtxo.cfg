\* A UTXO chain of four blocks whose times step back once; one forked header.
SPECIFICATION Spec
CONSTANTS
  Source = "utxo"
  MaxHeight = 4
  Time <- SteppingTime
  Transactions <- MCTransactions
  Ledgers <- MCLedgers
  ForkTimes = {1}
  MaxForks = 1
  AttestationNames = {"ConfirmedBlockHeightExists", "Payment", "BalanceDecreasingTransaction"}
  SourceIds = {"BTC", "DOGE"}
  SourceId = "BTC"
  CBHE_LUT_FORK_TIMESTAMP = 3
  MaxSafeInteger = 9
  LUT_FORK_TIMESTAMP = 3
  XRP_UTD = 7
  Requests <- MCRequests
INVARIANTS
  TypeOK
  PreparedVerifies
  ResponseFinal
  UnavailabilityJustified
\* The chain is bounded: the run ends when all of it was stored and dropped.
CHECK_DEADLOCK FALSE
