----------------------- MODULE XRPPaymentNonexistence -----------------------
(***************************************************************************)
(* One verification of an XRPPaymentNonexistence request                   *)
(* (src/src/verification/xrp-payment-nonexistence/) and, beside it on the  *)
(* same server, verifications of XRPPayment requests, while the indexer    *)
(* writes.  The first makes five database reads, the second one.           *)
(***************************************************************************)
EXTENDS XRPPayment

CONSTANT Requests  \* the nonexistence requests made

\* proofOwner is only passed on.
XRPPaymentNonexistence_RequestBody ==
  [minimalBlockNumber : Nat, deadlineBlockNumber : Nat, deadlineTimestamp : Nat,
   destinationAddressHash : Addresses, amount : Nat,
   checkFirstMemoData : BOOLEAN, firstMemoDataHash : Memos,
   checkDestinationTag : BOOLEAN, destinationTag : Nat]

XRPPaymentNonexistence_ResponseBody ==
  [minimalBlockTimestamp : Nat,
   firstOverflowBlockNumber : Nat, firstOverflowBlockTimestamp : Nat]

XRPPaymentNonexistence_Request ==
  AttestationType_Request(XRPPaymentNonexistence_RequestBody)

XRPPaymentNonexistence_Response ==
  AttestationType_Response(XRPPaymentNonexistence_RequestBody,
                           XRPPaymentNonexistence_ResponseBody)

ASSUME XrpRequestsAssumption ==
  /\ Source = "xrp"
  /\ "XRPPayment" \in AttestationNames
  /\ Transactions \subseteq XrpTransaction
  /\ Requests \subseteq XRPPaymentNonexistence_Request

VARIABLES
  pc,            \* the read the verification waits for
  request,       \* its request
  overflow,      \* firstOverflowBlock
  found,         \* the rows of the transaction query
  minimalBlock,  \* startBlock of the transaction query
  outcome,       \* how it ended
  payment        \* how the last XRPPayment verification ended

requestVars == <<pc, request, overflow, found, minimalBlock, outcome>>
vars == <<dbVars, requestVars, payment>>

Running == [error |-> "none", status |-> "none", response |-> {}]

q == request.requestBody

-----------------------------------------------------------------------------
(* What a transaction is asked for, in SQL and then in code *)

MemoSelected(t) == q.checkFirstMemoData => q.firstMemoDataHash \in t.memoData

TagSelected(t) == q.checkDestinationTag => q.destinationTag \in t.destinationTag

\* queryTransactions; the indexer computes the columns as mcc does the summary.
\* Mutant: the amount must be larger than the one asked for.
Selected_MoreThanAmount(t) ==
  /\ MemoSelected(t) /\ TagSelected(t)
  /\ t.intendedReceivingAddressHash = q.destinationAddressHash
  /\ t.intendedReceivingAmount > q.amount
  /\ t.successStatus # "SENDER_FAILURE"

Selected(t) ==
  /\ MemoSelected(t) /\ TagSelected(t)
  /\ t.intendedReceivingAddressHash = q.destinationAddressHash
  /\ t.intendedReceivingAmount >= q.amount
  /\ t.successStatus # "SENDER_FAILURE"

InWindow(n) == q.minimalBlockNumber <= n /\ n <= overflow.number - 1

\* Mutant: the block before the overflow block need not be complete.
Incomplete_Never(last) == FALSE

Incomplete(last) == overflow.number - 1 > last

\* The loop's `continue`s, of a transaction whose summary was computed.
Matches(t) ==
  /\ t.payment = "Success"
  /\ t.toOne
  /\ t.intendedReceivingAddressHash = q.destinationAddressHash
  /\ t.intendedReceivingAmount >= q.amount
  /\ t.successStatus # "SENDER_FAILURE"
  /\ MemoSelected(t) /\ TagSelected(t)

-----------------------------------------------------------------------------
(* The verifications *)

Init ==
  /\ DBInit
  /\ pc = "idle"
  /\ request \in Requests
  /\ overflow = NoBlock
  /\ found = {}
  /\ minimalBlock = NoBlock
  /\ outcome = Running
  /\ payment = Running

Return(end) == outcome' = end /\ pc' = "done"

\* The checks of the request; then the first query is sent.
VerifyNonexistence ==
  /\ pc = "idle"
  /\ \/ /\ \/ q.minimalBlockNumber >= MaxSafeInteger
           \/ q.deadlineBlockNumber >= MaxSafeInteger
        /\ Return(Invalid("INVALID_SEARCH_RANGE"))
     \/ /\ q.minimalBlockNumber < MaxSafeInteger
        /\ q.deadlineBlockNumber < MaxSafeInteger
        /\ pc' = "overflowBlock"
        /\ UNCHANGED outcome
  /\ UNCHANGED <<dbVars, request, overflow, found, minimalBlock, payment>>

ReadOverflowBlock ==
  /\ pc = "overflowBlock"
  /\ overflow' \in getFirstConfirmedOverflowBlock(
                     [deadline |-> q.deadlineBlockNumber,
                      deadlineTime |-> q.deadlineTimestamp])
  /\ \/ /\ overflow' = NoBlock
        /\ Return(Invalid(verifyWorkflowForReferencedTransactions("NO_OVERFLOW_BLOCK")))
     \/ /\ overflow' # NoBlock
        /\ pc' = "lastConfirmed"
        /\ UNCHANGED outcome
  /\ UNCHANGED <<dbVars, request, found, minimalBlock, payment>>

\* Without a state row the read throws, see ReadFails.
ReadLastConfirmed ==
  /\ pc = "lastConfirmed"
  /\ indexed # 0
  /\ \/ /\ Incomplete(indexed)
        /\ Return(Invalid(
             verifyWorkflowForReferencedTransactions("DATA_AVAILABILITY_FAILURE")))
     \/ /\ ~Incomplete(indexed)
        /\ pc' = "transactions"
        /\ UNCHANGED outcome
  /\ UNCHANGED <<dbVars, request, overflow, found, minimalBlock, payment>>

ReadTransactions ==
  /\ pc = "transactions"
  /\ found' = {row \in transactionTable : InWindow(row[1]) /\ Selected(row[2])}
  /\ pc' = "minimalBlock"
  /\ UNCHANGED <<dbVars, request, overflow, minimalBlock, outcome, payment>>

ReadMinimalBlock ==
  /\ pc = "minimalBlock"
  /\ minimalBlock' \in queryBlock(q.minimalBlockNumber)
  /\ pc' = "endBlock"
  /\ UNCHANGED <<dbVars, request, overflow, found, outcome, payment>>

\* The rows come in no particular order; the loop ends at the first that is
\* refused by the transaction class, has no summary, or matches.
responseXRPPaymentNonexistence ==
  \/ \E row \in found : row[2].data = "foreign" /\ Return(Invalid("SYSTEM_FAILURE"))
  \/ /\ \E row \in found : row[2].data = "ok" /\ row[2].payment = "throws"
     /\ Return(Throws("INTERNAL_SERVER_ERROR"))
  \/ /\ \E row \in found : row[2].data = "ok" /\ Matches(row[2])
     /\ Return(Invalid("REFERENCED_TRANSACTION_EXISTS"))
  \/ /\ \A row \in found :
          row[2].data = "ok" /\ row[2].payment # "throws" /\ ~Matches(row[2])
     /\ Return(Valid(MakeResponse(request, minimalBlock.timestamp,
          [minimalBlockTimestamp |-> minimalBlock.timestamp,
           firstOverflowBlockNumber |-> overflow.number,
           firstOverflowBlockTimestamp |-> overflow.timestamp])))

\* The last read, of the end block, which nothing uses; then all the rest.  The
\* query's rows are parsed only now.
Conclude ==
  /\ pc = "endBlock"
  /\ \/ /\ \E row \in found : row[2].data = "broken"
        /\ Return(Throws("INTERNAL_SERVER_ERROR"))
     \/ /\ \A row \in found : row[2].data # "broken"
        /\ minimalBlock = NoBlock
        /\ Return(Invalid(
             verifyWorkflowForReferencedTransactions("DATA_AVAILABILITY_FAILURE")))
     \/ /\ \A row \in found : row[2].data # "broken"
        /\ minimalBlock # NoBlock
        /\ q.minimalBlockNumber >= overflow.number
        /\ Return(Invalid("INVALID_SEARCH_RANGE"))
     \/ /\ \A row \in found : row[2].data # "broken"
        /\ minimalBlock # NoBlock
        /\ q.minimalBlockNumber < overflow.number
        /\ responseXRPPaymentNonexistence
  /\ UNCHANGED <<dbVars, request, overflow, found, minimalBlock, payment>>

ReadFails ==
  /\ pc \in {"overflowBlock", "lastConfirmed", "transactions", "minimalBlock", "endBlock"}
  /\ Return(Throws("INTERNAL_SERVER_ERROR"))
  /\ UNCHANGED <<dbVars, request, overflow, found, minimalBlock, payment>>

\* An XRPPayment request for some transaction: one read.
VerifyXRPPayment ==
  /\ \E t \in Transactions :
       LET rows == getConfirmedTransaction(t)
           paymentRequest == [attestationType |-> "XRPPayment", sourceId |-> SourceId,
                              requestBody |-> [transactionId |-> t]]
       IN \/ /\ rows = {}
             /\ payment' = Invalid(verifyWorkflowForTransaction("NOT_EXIST"))
          \/ \E row \in rows : payment' = responseXRPPayment(row, paymentRequest)
  /\ UNCHANGED <<dbVars, requestVars>>

Verifier ==
  \/ VerifyNonexistence
  \/ ReadOverflowBlock \/ ReadLastConfirmed \/ ReadTransactions
  \/ ReadMinimalBlock \/ Conclude
  \/ ReadFails
  \/ VerifyXRPPayment

Next == Verifier \/ (Indexer /\ UNCHANGED <<requestVars, payment>>)

Spec == Init /\ [][Next]_vars

-----------------------------------------------------------------------------
(* Properties *)

TypeOK ==
  /\ DBTypeOK
  /\ pc \in {"idle", "overflowBlock", "lastConfirmed", "transactions",
             "minimalBlock", "endBlock", "done"}
  /\ request \in Requests
  /\ overflow \in [number : Nat, timestamp : Nat, confirmed : BOOLEAN]
  /\ found \in SUBSET (Heights \X Transactions)
  /\ minimalBlock \in [number : Nat, timestamp : Nat, confirmed : BOOLEAN]
  /\ outcome.status \in {"none", "VALID", "INVALID_SEARCH_RANGE", "SYSTEM_FAILURE",
       "BLOCK_AVAILABILITY_ISSUE", "REFERENCED_TRANSACTION_EXISTS"}
  /\ outcome.response \subseteq XRPPaymentNonexistence_Response
  /\ payment.status \in {"none", "VALID", "INVALID", "MORE_THAN_ONE_OUTPUT",
       "TRANSACTION_AVAILABILITY_ISSUE"} \cup {PaymentStatus(s) : s \in PaymentSummaryStatus}
  /\ payment.response \subseteq XRPPayment_Response

\* A VALID response means that no block of the chain from the minimal one to
\* the one before the overflow block of the response holds a payment with the
\* destination, amount, memo and tag asked for, though blocks were written and
\* dropped between the five reads.
NonexistenceSound ==
  \A r \in outcome.response : \A n \in Heights :
    q.minimalBlockNumber <= n /\ n < r.responseBody.firstOverflowBlockNumber =>
      \A t \in ledger[n] : ~Matches(t)

\* A payment, as an XRPPayment response shows it, that meets the request of a
\* nonexistence response.
Meets(p, r) ==
  /\ q.minimalBlockNumber <= p.blockNumber
  /\ p.blockNumber < r.firstOverflowBlockNumber
  /\ p.intendedReceivingAddressHash = q.destinationAddressHash
  /\ p.intendedReceivedAmount >= q.amount
  /\ p.status # "SENDER_FAILURE"
  /\ q.checkFirstMemoData => p.hasMemoData /\ p.firstMemoData = {q.firstMemoDataHash}
  /\ q.checkDestinationTag => p.hasDestinationTag /\ p.destinationTag = q.destinationTag

\* A server never confirms both a payment and its absence: who is to be paid
\* and who is to prove non-payment cannot both have their proof.
NoContradiction ==
  \A r \in outcome.response : \A p \in payment.response :
    ~Meets(p.responseBody, r.responseBody)

\* "The lowest timestamp used to generate the response" (XRPPayment.dto.ts,
\* XRPPaymentNonexistence.dto.ts) is the final chain's time of the transaction's
\* block, once the fork has come, and of the minimal block: the two conversions
\* between the epochs of Unix and of XRP, one when the indexer's row is read
\* and one in the transaction class, cancel out.
LowestUsedIsFinal ==
  /\ \A p \in payment.response :
       p.responseBody.blockTimestamp >= LUT_FORK_TIMESTAMP =>
         p.lowestUsedTimestamp = Time[p.responseBody.blockNumber]
  /\ \A r \in outcome.response : r.lowestUsedTimestamp = Time[q.minimalBlockNumber]
=============================================================================
