\* A UTXO chain of four blocks whose times step back once; one forked header.
SPECIFICATION Spec
CONSTANTS
  Source = "utxo"
  MaxHeight = 4
  Time <- SteppingTime
  Transactions <- MCTransactions
  Ledgers <- MCLedgers
  ForkTimes = {4}
  MaxForks = 1
  Requests <- MCRequests
  MaxSafeInteger = 5
INVARIANTS
  TypeOK
  NonexistenceSound
  ExistenceSound
  ResponseFinal
  UnavailabilityJustified
\* The chain is bounded: the run ends when all of it was stored and dropped.
CHECK_DEADLOCK FALSE
