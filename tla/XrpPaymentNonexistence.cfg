\* An XRP ledger of four blocks, the first two before the fork.
SPECIFICATION Spec
CONSTANTS
  Source = "xrp"
  MaxHeight = 4
  Time <- GrowingTime
  Transactions <- MCTransactions
  Ledgers <- MCLedgers
  ForkTimes = {}
  MaxForks = 0
  AttestationNames = {"XRPPayment", "XRPPaymentNonexistence"}
  SourceIds = {"XRP"}
  SourceId = "XRP"
  MaxSafeInteger = 9
  LUT_FORK_TIMESTAMP = 3
  XRP_UTD = 7
  Addresses = {"payee", "other"}
  Memos = {"memo"}
  Requests <- MCRequests
INVARIANTS
  TypeOK
  NonexistenceSound
  NoContradiction
  LowestUsedIsFinal
\* The chain is bounded: the run ends when all of it was stored and dropped.
CHECK_DEADLOCK FALSE
