----------------------- MODULE ConfirmedAttestations -----------------------
(***************************************************************************)
(* The life of an attestation request of a type that confirms a block or a *)
(* transaction: a user has it prepared (prepareRequest), with the          *)
(* integrity code of the response, and attestation providers later verify  *)
(* the prepared request (verifyFDC), while the indexer goes on.  The       *)
(* request is confirmed only if both come to the same response.            *)
(*                                                                         *)
(* Each endpoint runs the same verification; its database reads are awaits *)
(* of their own, none in a transaction.                                    *)
(***************************************************************************)
EXTENDS ConfirmedBlockHeightExists, Payment, FiniteSetsExt

CONSTANT Requests  \* for each of the attestation types, the requests made

Endpoints == {"prepareRequest", "verifyFDC"}

ASSUME RequestsAssumption ==
  /\ Transactions \subseteq StoredTransaction
  /\ DOMAIN Requests = {"ConfirmedBlockHeightExists", "Payment",
                        "BalanceDecreasingTransaction"}
  /\ Requests["ConfirmedBlockHeightExists"] \subseteq ConfirmedBlockHeightExists_Request
  /\ Requests["Payment"] \subseteq Payment_Request
  /\ Requests["BalanceDecreasingTransaction"]
       \subseteq BalanceDecreasingTransaction_Request

\* The id of a transaction is the primary key of its table.
ASSUME TransactionIdAssumption ==
  \A l \in Ledgers : \A m, n \in Heights : l[m] \cap l[n] # {} => m = n

VARIABLES
  attestationName,  \* the service that the request is sent to
  request,
  pc,               \* the read that the running verification waits for
  endpoint,         \* the endpoint that runs it
  dbBlock,          \* confirmedBlockQueryResult.block
  answers,          \* what the endpoints have answered
  \* what the properties recall, and the code does not have
  lowest            \* lowest height the answer needed when the verification
                    \* began, 0 if the database could not answer

requestVars == <<attestationName, request, pc, endpoint, dbBlock, answers, lowest>>
vars == <<dbVars, requestVars>>

\* The lowest height whose rows the response needs, if the tables hold it.
LowestNeeded ==
  LET n == request.requestBody.blockNumber
      stored == firstBlock..lastBlock
      before == {m \in stored : Time[m] < Time[n] - request.requestBody.queryWindow}
  IN IF attestationName # "ConfirmedBlockHeightExists"
     THEN {m \in firstTx..lastTx : request.requestBody.transactionId \in ledger[m]}
     ELSE IF n \in stored /\ before # {}
     THEN {Min({n, Max(before)})}
     ELSE {}

Init ==
  /\ DBInit
  /\ attestationName \in DOMAIN Requests
  /\ request \in Requests[attestationName]
  /\ pc = "idle"
  /\ endpoint = "prepareRequest"
  /\ dbBlock = NoBlock
  /\ answers = [e \in Endpoints |-> NoAnswer]
  /\ lowest = [e \in Endpoints |-> 0]

\* The endpoint's answer to the way its verification ended; providers see the
\* request only when there is an encoded one.
Finish(outcome) ==
  /\ answers' = [answers EXCEPT ![endpoint] =
       IF endpoint = "prepareRequest" THEN prepareRequest(outcome, attestationName)
       ELSE verifyEncodedRequestFDC(outcome, attestationName)]
  /\ pc' = IF endpoint = "prepareRequest" /\ answers'[endpoint].content # {}
           THEN "prepared" ELSE "done"

\* verifyRequestInternal: the check of the type, then the first query is sent.
VerifyRequest ==
  /\ pc \in {"idle", "prepared"}
  /\ endpoint' = IF pc = "idle" THEN "prepareRequest" ELSE "verifyFDC"
  /\ \/ /\ LowestNeeded = {}
        /\ UNCHANGED lowest
     \/ \E n \in LowestNeeded : lowest' = [lowest EXCEPT ![endpoint'] = n]
  /\ \/ /\ checkSupportedType(request, attestationName)
        /\ pc' = IF attestationName = "ConfirmedBlockHeightExists"
                 THEN "block" ELSE "transaction"
        /\ UNCHANGED answers
     \/ /\ ~checkSupportedType(request, attestationName)
        /\ answers' = [answers EXCEPT !["prepareRequest"] =
             prepareRequest(Throws("BAD_REQUEST"), attestationName)]
        /\ pc' = "done"
  /\ UNCHANGED <<dbVars, attestationName, request, dbBlock>>

\* getConfirmedBlock
ReadBlock ==
  /\ pc = "block"
  /\ dbBlock' \in queryBlock(request.requestBody.blockNumber)
  /\ \/ /\ dbBlock' = NoBlock
        /\ Finish(Invalid(verifyWorkflowForBlock("NOT_EXIST")))
     \/ /\ verifyWorkflowForBlock("OK") = "NEEDS_MORE_CHECKS"
        /\ dbBlock' # NoBlock
        /\ pc' = "lowerBlock"
        /\ UNCHANGED answers
  /\ UNCHANGED <<dbVars, attestationName, request, endpoint, lowest>>

\* getLastConfirmedBlockStrictlyBeforeTime, of the block read before
ReadLowerBlock ==
  /\ pc = "lowerBlock"
  /\ \E b \in getLastConfirmedBlockStrictlyBeforeTime(windowTime(dbBlock, request)) :
       Finish(IF b = NoBlock THEN Invalid("BLOCK_AVAILABILITY_ISSUE")
              ELSE responseConfirmedBlockHeightExists(dbBlock, b, request))
  /\ UNCHANGED <<dbVars, attestationName, request, endpoint, dbBlock, lowest>>

ResponseFor(row) ==
  IF attestationName = "Payment" THEN responsePayment(row, request)
  ELSE responseBalanceDecreasingTransaction(row, request)

\* getConfirmedTransaction and all the rest
ReadTransaction ==
  /\ pc = "transaction"
  /\ LET rows == getConfirmedTransaction(request.requestBody.transactionId) IN
       \/ /\ rows = {}
          /\ Finish(Invalid(verifyWorkflowForTransaction("NOT_EXIST")))
       \/ \E row \in rows : Finish(ResponseFor(row))
  /\ UNCHANGED <<dbVars, attestationName, request, endpoint, dbBlock, lowest>>

ReadFails ==
  /\ pc \in {"block", "lowerBlock", "transaction"}
  /\ Finish(Throws("INTERNAL_SERVER_ERROR"))
  /\ UNCHANGED <<dbVars, attestationName, request, endpoint, dbBlock, lowest>>

Verifier ==
  \/ VerifyRequest
  \/ ReadBlock \/ ReadLowerBlock \/ ReadTransaction
  \/ ReadFails

Next == Verifier \/ (Indexer /\ UNCHANGED requestVars)

Spec == Init /\ [][Next]_vars

-----------------------------------------------------------------------------
(* Properties *)

Responses ==
  CASE attestationName = "ConfirmedBlockHeightExists" -> ConfirmedBlockHeightExists_Response
    [] attestationName = "Payment" -> Payment_Response
    [] OTHER -> BalanceDecreasingTransaction_Response

Statuses == {"none", "VALID", "MALFORMED", "INVALID", "BLOCK_AVAILABILITY_ISSUE",
  "TRANSACTION_AVAILABILITY_ISSUE", "INVALID_UTXOS", "MORE_THAN_ONE_OUTPUT"}
  \cup {PaymentStatus(s) : s \in PaymentSummaryStatus}

TypeOK ==
  /\ DBTypeOK
  /\ attestationName \in DOMAIN Requests
  /\ request \in Requests[attestationName]
  /\ pc \in {"idle", "block", "lowerBlock", "transaction", "prepared", "done"}
  /\ endpoint \in Endpoints
  /\ dbBlock \in [number : Nat, timestamp : Nat, confirmed : BOOLEAN]
  /\ DOMAIN answers = Endpoints
  /\ \A e \in Endpoints :
       /\ answers[e].error \in {"none", "BAD_REQUEST", "INTERNAL_SERVER_ERROR"}
       /\ answers[e].status \in Statuses
       /\ answers[e].content \subseteq Responses
       /\ answers[e].status = "VALID" <=> answers[e].content # {}
  /\ lowest \in [Endpoints -> Nat]

\* The time at which the window of the requested block ends.
WindowTime == windowTime(BlockRow(request.requestBody.blockNumber), request)

LowerBlock(r) == r.responseBody.lowestQueryWindowBlockNumber

\* The integrity code of a prepared request is that of the response providers
\* come to, though blocks were stored, forked and dropped meanwhile: a request
\* that is prepared is confirmed by every provider that has the data.  There is
\* one exception, where block times step back by more than the window: the lower
\* block may give way to one above the requested block, never to another or
\* back.
PreparedVerifies ==
  \A p \in answers["prepareRequest"].content, v \in answers["verifyFDC"].content :
    p # v =>
      /\ attestationName = "ConfirmedBlockHeightExists"
      /\ LowerBlock(v) > request.requestBody.blockNumber
      /\ LowerBlock(v) > LowerBlock(p)
      /\ Time[LowerBlock(v)] < WindowTime

\* The blocks in the response are the final chain's; between the lower one and
\* the requested one no block lies before the window, and from the fork on the
\* lowest used timestamp is indeed the lowest.
ConfirmsBlock(r) ==
  LET n == request.requestBody.blockNumber
      lower == r.responseBody.lowestQueryWindowBlockNumber IN
    /\ n \in Heights /\ lower \in Heights
    /\ r.responseBody.blockTimestamp = Time[n]
    /\ r.responseBody.lowestQueryWindowBlockTimestamp = Time[lower]
    /\ Time[lower] < WindowTime
    /\ \A m \in Heights : lower < m /\ m <= n => Time[m] >= WindowTime
    /\ r.lowestUsedTimestamp =
         IF Time[n] < CBHE_LUT_FORK_TIMESTAMP THEN Time[n] ELSE Time[lower]

\* The transaction of the response is in that block of the chain and readable.
ConfirmsTransaction(r) ==
  LET n == r.responseBody.blockNumber
      t == request.requestBody.transactionId IN
    /\ n \in Heights
    /\ t \in ledger[n] /\ t.data = "ok"
    /\ r.responseBody.blockTimestamp = Time[n]
    /\ Time[n] >= LUT_FORK_TIMESTAMP => r.lowestUsedTimestamp = Time[n]

\* Every response, and every integrity code, is of blocks and transactions of
\* the final chain, whatever forks were stored.
ResponseFinal ==
  \A e \in Endpoints : \A r \in answers[e].content :
    IF attestationName = "ConfirmedBlockHeightExists"
    THEN ConfirmsBlock(r) ELSE ConfirmsTransaction(r)

\* A block or transaction is only found missing if it was when the
\* verification began, or was dropped meanwhile.
UnavailabilityJustified ==
  \A e \in Endpoints :
    /\ answers[e].status = "BLOCK_AVAILABILITY_ISSUE" => lowest[e] < firstBlock
    /\ answers[e].status = "TRANSACTION_AVAILABILITY_ISSUE" => lowest[e] < firstTx
=============================================================================
