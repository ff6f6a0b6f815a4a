------------------------------ MODULE Payment ------------------------------
(***************************************************************************)
(* Requests, responses and the response functions of the attestation types *)
(* Payment and BalanceDecreasingTransaction (src/src/verification/payment/,*)
(* src/src/verification/balance-decreasing-transaction/).  The summaries   *)
(* are computed by the mcc library from the stored transaction and the     *)
(* indices or the address indicator of the request.                        *)
(***************************************************************************)
EXTENDS IndexedQueryManager, VerifierBase

CONSTANTS
  MaxSafeInteger,      \* Number.MAX_SAFE_INTEGER
  LUT_FORK_TIMESTAMP,
  XRP_UTD              \* between the epochs of Unix and of XRP

ASSUME PaymentAssumption ==
  MaxSafeInteger \in Nat /\ LUT_FORK_TIMESTAMP \in Nat /\ XRP_UTD \in Nat

\* What the summary of a payment may come to: some statuses of mcc's, one of
\* those the code lumps together, or an exception.
PaymentSummaryStatus == {"Success", "Coinbase", "NotNativePayment",
  "NoSpentAmountAddress", "NoReceiveAmountAddress",
  "UnexpectedNumberOfParticipants", "NoIntendedSpentAmountAddress",
  "NoIntendedReceiveAmountAddress", "other", "throws"}

BalanceDecreasingSummaryStatus ==
  {"Success", "Coinbase", "NoSourceAddress", "other", "throws"}

\* A stored transaction, and what its summaries are for the request.
StoredTransaction ==
  [data : {"ok", "broken", "foreign"},  \* readable, not a response, refused
                                        \* by TransactionClass
   payment : PaymentSummaryStatus,
   toOne : BOOLEAN,
   decreasing : BalanceDecreasingSummaryStatus]

Payment_RequestBody == [transactionId : Transactions, inUtxo : Nat, utxo : Nat]

\* Addresses, amounts, reference and status are functions of the transaction.
Payment_ResponseBody ==
  [blockNumber : Nat, blockTimestamp : Nat, paymentOf : Transactions]

Payment_Request == AttestationType_Request(Payment_RequestBody)

Payment_Response == AttestationType_Response(Payment_RequestBody, Payment_ResponseBody)

BalanceDecreasingTransaction_RequestBody ==
  [transactionId : Transactions, sourceAddressIndicator : Nat]

BalanceDecreasingTransaction_ResponseBody ==
  [blockNumber : Nat, blockTimestamp : Nat, spendingOf : Transactions]

BalanceDecreasingTransaction_Request ==
  AttestationType_Request(BalanceDecreasingTransaction_RequestBody)

BalanceDecreasingTransaction_Response ==
  AttestationType_Response(BalanceDecreasingTransaction_RequestBody,
                           BalanceDecreasingTransaction_ResponseBody)

-----------------------------------------------------------------------------
\* The row's transaction, before any check: XRP rows that are no responses
\* make the query throw, others the transaction class.
Unreadable(row) == row[2].data # "ok"

PaymentStatus(summaryStatus) ==
  CASE summaryStatus = "throws" -> "INVALID"
    [] summaryStatus = "Coinbase" -> "COINBASE_TRANSACTION"
    [] summaryStatus = "NotNativePayment" -> "NO_NATIVE_PAYMENT"
    [] summaryStatus = "NoSpentAmountAddress" -> "NO_SOURCE_ADDRESS"
    [] summaryStatus = "NoReceiveAmountAddress" -> "NO_RECEIVING_ADDRESS"
    [] summaryStatus = "UnexpectedNumberOfParticipants" ->
         "UNEXPECTED_NUMBER_OF_PARTICIPANTS"
    [] summaryStatus = "NoIntendedSpentAmountAddress" -> "NO_INTENDED_SOURCE_ADDRESS"
    [] summaryStatus = "NoIntendedReceiveAmountAddress" ->
         "NO_INTENDED_RECEIVING_ADDRESS"
    [] summaryStatus = "Success" -> "VALID"
    [] OTHER -> "INVALID_UTXOS"

UnsafeUtxos(request) ==
  request.requestBody.inUtxo >= MaxSafeInteger \/ request.requestBody.utxo >= MaxSafeInteger

\* The time the transaction class reads from the stored response of a row,
\* whose own time is that of its block: XRP_UTD is added when it is read, and
\* only after the fork subtracted when it is stored.
\* Mutant: never subtracted.
unixTimestamp_NoFork(row) == Time[row[1]] + (IF Source = "xrp" THEN XRP_UTD ELSE 0)

unixTimestamp(row) ==
  IF Source = "xrp" /\ Time[row[1]] < LUT_FORK_TIMESTAMP
  THEN Time[row[1]] + XRP_UTD ELSE Time[row[1]]

responsePayment(row, request) ==
  IF Unreadable(row) THEN Throws("INTERNAL_SERVER_ERROR")
  ELSE IF UnsafeUtxos(request) THEN Invalid("INVALID_UTXOS")
  ELSE IF row[2].payment # "Success" THEN Invalid(PaymentStatus(row[2].payment))
  ELSE IF ~row[2].toOne THEN Invalid("MORE_THAN_ONE_OUTPUT")
  ELSE Valid(MakeResponse(request, unixTimestamp(row),
    [blockNumber |-> row[1], blockTimestamp |-> Time[row[1]], paymentOf |-> row[2]]))

BalanceDecreasingStatus(summaryStatus) ==
  CASE summaryStatus = "Coinbase" -> "COINBASE_TRANSACTION"
    [] summaryStatus = "NoSourceAddress" -> "NO_SOURCE_ADDRESS"
    [] summaryStatus = "Success" -> "VALID"
    [] OTHER -> "INVALID"

responseBalanceDecreasingTransaction(row, request) ==
  IF Unreadable(row) \/ row[2].decreasing = "throws"
  THEN Throws("INTERNAL_SERVER_ERROR")
  ELSE IF row[2].decreasing # "Success"
  THEN Invalid(BalanceDecreasingStatus(row[2].decreasing))
  ELSE Valid(MakeResponse(request, unixTimestamp(row),
    [blockNumber |-> row[1], blockTimestamp |-> Time[row[1]], spendingOf |-> row[2]]))
=============================================================================
