-------------------- MODULE ConfirmedAttestations_proofs --------------------
(***************************************************************************)
(* The safety properties of ConfirmedAttestations, for every chain, set of *)
(* requests and bound.                                                     *)
(*                                                                         *)
(* The invariant says what each response is made of: a block or a          *)
(* transaction of the final chain, and nothing else.  That two responses   *)
(* to the same request are equal is then a fact about the chain alone, and *)
(* about how the lower block moves where block times step back.            *)
(***************************************************************************)
EXTENDS ConfirmedAttestations, IndexedQueryManager_proofs

Reading == {"block", "lowerBlock", "transaction"}

blockNumber == request.requestBody.blockNumber

transactionId == request.requestBody.transactionId

\* Which reads belong to which type.
ReadInv ==
  /\ pc \in {"block", "lowerBlock"} => attestationName = "ConfirmedBlockHeightExists"
  /\ pc = "transaction" => attestationName # "ConfirmedBlockHeightExists"

\* The block read first is the final chain's, and was stored.
BlockInv ==
  pc = "lowerBlock" => blockNumber \in Heights /\ blockNumber <= lastBlock /\ dbBlock = BlockRow(blockNumber)

\* An endpoint answers once, verifyFDC after prepareRequest.
FreshInv ==
  /\ pc = "idle" => \A e \in Endpoints : answers[e] = NoAnswer /\ lowest[e] = 0
  /\ pc \in Reading => answers[endpoint] = NoAnswer
  /\ pc = "prepared" \/ (pc \in Reading /\ endpoint = "prepareRequest")
       => answers["verifyFDC"] = NoAnswer /\ lowest["verifyFDC"] = 0

\* The rows needed when the verification began were stored then.
LowestInv ==
  pc \in Reading /\ lowest[endpoint] # 0 =>
    IF attestationName = "ConfirmedBlockHeightExists"
    THEN /\ blockNumber <= lastBlock /\ lowest[endpoint] <= blockNumber
         /\ \E m \in Heights :
              m <= lastBlock /\ Time[m] < WindowTime /\ lowest[endpoint] <= m
    ELSE \E m \in Heights :
           m <= lastTx /\ transactionId \in ledger[m] /\ lowest[endpoint] = m

\* The response that the blocks blockNumber and lower give.
BlockResponse(lower) ==
  MakeResponse(request, lut(BlockRow(blockNumber), BlockRow(lower)),
    [blockTimestamp |-> Time[blockNumber],
     lowestQueryWindowBlockNumber |-> lower,
     lowestQueryWindowBlockTimestamp |-> Time[lower]])

IsLower(lower) ==
  /\ Time[lower] < WindowTime
  /\ \A m \in Heights : lower < m /\ m <= blockNumber => Time[m] >= WindowTime

\* The response that transaction transactionId of block m gives.
TransactionResponse(m) ==
  MakeResponse(request, unixTimestamp(<<m, transactionId>>),
    IF attestationName = "Payment"
    THEN [blockNumber |-> m, blockTimestamp |-> Time[m], paymentOf |-> transactionId]
    ELSE [blockNumber |-> m, blockTimestamp |-> Time[m], spendingOf |-> transactionId])

Confirmed(r) ==
  IF attestationName = "ConfirmedBlockHeightExists"
  THEN /\ blockNumber \in Heights
       /\ \E lower \in Heights : IsLower(lower) /\ r = BlockResponse(lower)
  ELSE \E m \in Heights :
         /\ transactionId \in ledger[m] /\ transactionId.data = "ok"
         /\ r = TransactionResponse(m)

\* An answer has at most one response, of the final chain.
ContentInv ==
  \A e \in Endpoints : \A r \in answers[e].content :
    answers[e].content = {r} /\ Confirmed(r)

\* A later lower block is found where the one prepared with was, or above it.
LowerInv ==
  attestationName = "ConfirmedBlockHeightExists" =>
    \A p \in answers["prepareRequest"].content :
      /\ LowerBlock(p) <= lastBlock
      /\ \A v \in answers["verifyFDC"].content : LowerBlock(p) <= LowerBlock(v)

\* What LowerInv asks of the response that the running verification ends with.
Follows(r) ==
  attestationName = "ConfirmedBlockHeightExists" =>
    /\ LowerBlock(r) <= lastBlock
    /\ \A p \in answers["prepareRequest"].content : LowerBlock(p) <= LowerBlock(r)

IInv ==
  /\ TypeOK
  /\ DBInv
  /\ ReadInv
  /\ BlockInv
  /\ FreshInv
  /\ LowestInv
  /\ ContentInv
  /\ LowerInv
  /\ UnavailabilityJustified

-----------------------------------------------------------------------------
(* Numbers *)

\* A set of numbers with a bound has a greatest one.
LEMMA HighestExists ==
  ASSUME NEW k \in Nat, NEW S, \A x \in S : x \in Nat /\ x <= k, S # {}
  PROVE  Max(S) \in S /\ \A y \in S : y <= Max(S)
<1> DEFINE T == {k - x : x \in S}
<1>1. T \in SUBSET Nat /\ T # {}
  OBVIOUS
<1>2. PICK d \in T : \A e \in T : d <= e
  BY <1>1, LowestExists
<1>3. PICK m \in S : d = k - m
  BY <1>2
<1>4. ASSUME NEW y \in S PROVE m >= y
  BY <1>2, <1>3
<1>5. \E x \in S : \A y \in S : x >= y
  BY <1>4
<1>6. Max(S) \in S /\ \A y \in S : Max(S) >= y
  BY <1>5 DEF Max
<1> QED
  BY <1>6

LEMMA MinOfTwo ==
  ASSUME NEW a \in Nat, NEW b \in Nat
  PROVE  Min({a, b}) \in Nat /\ Min({a, b}) <= a /\ Min({a, b}) <= b
<1>1. \E x \in {a, b} : \A y \in {a, b} : x <= y
  OBVIOUS
<1>2. Min({a, b}) \in {a, b} /\ \A y \in {a, b} : Min({a, b}) <= y
  BY <1>1 DEF Min
<1> QED
  BY <1>2

-----------------------------------------------------------------------------
(* Requests, rows and responses *)

\* The request is of one of the three types.
LEMMA RequestTyped ==
  ASSUME attestationName \in DOMAIN Requests, request \in Requests[attestationName]
  PROVE  /\ attestationName \in {"ConfirmedBlockHeightExists", "Payment",
                                 "BalanceDecreasingTransaction"}
         /\ attestationName = "ConfirmedBlockHeightExists" =>
              /\ request \in ConfirmedBlockHeightExists_Request
              /\ blockNumber \in Nat /\ request.requestBody.queryWindow \in Nat
         /\ attestationName = "Payment" =>
              request \in Payment_Request /\ transactionId \in Transactions
         /\ attestationName = "BalanceDecreasingTransaction" =>
              request \in BalanceDecreasingTransaction_Request /\ transactionId \in Transactions
BY RequestsAssumption
   DEF ConfirmedBlockHeightExists_Request, ConfirmedBlockHeightExists_RequestBody,
       Payment_Request, Payment_RequestBody, BalanceDecreasingTransaction_Request,
       BalanceDecreasingTransaction_RequestBody, AttestationType_Request, blockNumber, transactionId

\* The times and the window of the requested block are integers.
LEMMA WindowTyped ==
  ASSUME attestationName = "ConfirmedBlockHeightExists",
         request \in Requests[attestationName], blockNumber \in Heights
  PROVE  /\ WindowTime = Time[blockNumber] - request.requestBody.queryWindow
         /\ WindowTime \in Int
         /\ \A m \in Heights : m \in Nat /\ Time[m] \in Nat
<1>1. attestationName \in DOMAIN Requests
  BY RequestsAssumption
<1>2. \A m \in Heights : m \in Nat /\ Time[m] \in Nat
  BY IndexerAssumption DEF Heights
<1>3. request.requestBody.queryWindow \in Nat
  BY <1>1, RequestTyped
<1>4. WindowTime = Time[blockNumber] - request.requestBody.queryWindow
  BY BlockRowProps DEF WindowTime, windowTime, blockNumber
<1> QED
  BY <1>2, <1>3, <1>4

LEMMA BlockResponseTyped ==
  ASSUME attestationName = "ConfirmedBlockHeightExists",
         request \in Requests[attestationName],
         blockNumber \in Heights, NEW lower \in Heights
  PROVE  BlockResponse(lower) \in Responses
<1>1. request \in ConfirmedBlockHeightExists_Request
  BY RequestsAssumption
<1>2. lower \in Nat /\ Time[blockNumber] \in Nat /\ Time[lower] \in Nat
  BY IndexerAssumption DEF Heights
<1>3. lut(BlockRow(blockNumber), BlockRow(lower)) \in Nat
  BY <1>2, BlockRowProps DEF lut
<1>4. BlockResponse(lower) \in ConfirmedBlockHeightExists_Response
  BY <1>1, <1>2, <1>3
     DEF BlockResponse, MakeResponse, ConfirmedBlockHeightExists_Request,
         ConfirmedBlockHeightExists_Response, ConfirmedBlockHeightExists_ResponseBody,
         AttestationType_Request, AttestationType_Response
<1> QED
  BY <1>4 DEF Responses

\* A confirmed response is the one that its lower block gives.
LEMMA LowerProps ==
  ASSUME attestationName = "ConfirmedBlockHeightExists", NEW r, Confirmed(r)
  PROVE  /\ LowerBlock(r) \in Heights /\ IsLower(LowerBlock(r))
         /\ r = BlockResponse(LowerBlock(r))
<1>1. PICK lower \in Heights : IsLower(lower) /\ r = BlockResponse(lower)
  BY DEF Confirmed
<1>2. LowerBlock(r) = lower
  BY <1>1 DEF LowerBlock, BlockResponse, MakeResponse
<1> QED
  BY <1>1, <1>2

LEMMA TransactionResponseTyped ==
  ASSUME attestationName \in {"Payment", "BalanceDecreasingTransaction"},
         request \in Requests[attestationName],
         NEW m \in Heights, NEW l \in Ledgers, transactionId \in l[m]
  PROVE  TransactionResponse(m) \in Responses
<1>1. transactionId \in Transactions
  BY IndexerAssumption
<1>2. m \in Nat /\ Time[m] \in Nat /\ unixTimestamp(<<m, transactionId>>) \in Nat
  BY IndexerAssumption, PaymentAssumption DEF Heights, unixTimestamp
<1>3. CASE attestationName = "Payment"
  <2>1. request \in Payment_Request
    BY <1>3, RequestsAssumption
  <2>2. TransactionResponse(m) \in Payment_Response
    BY <1>1, <1>2, <1>3, <2>1
       DEF TransactionResponse, MakeResponse, Payment_Request, Payment_Response,
           Payment_ResponseBody, AttestationType_Request, AttestationType_Response
  <2> QED
    BY <1>3, <2>2 DEF Responses
<1>4. CASE attestationName = "BalanceDecreasingTransaction"
  <2>1. request \in BalanceDecreasingTransaction_Request
    BY <1>4, RequestsAssumption
  <2>2. TransactionResponse(m) \in BalanceDecreasingTransaction_Response
    BY <1>1, <1>2, <1>4, <2>1
       DEF TransactionResponse, MakeResponse, BalanceDecreasingTransaction_Request,
           BalanceDecreasingTransaction_Response, BalanceDecreasingTransaction_ResponseBody,
           AttestationType_Request, AttestationType_Response
  <2> QED
    BY <1>4, <2>2 DEF Responses
<1> QED
  BY <1>3, <1>4

\* What the transaction table holds of a transaction.
LEMMA TransactionRows ==
  ASSUME DBInv, NEW t
  PROVE  /\ \A row \in getConfirmedTransaction(t) :
              \E m \in Heights : t \in ledger[m] /\ row = <<m, t>>
         /\ getConfirmedTransaction(t) = {} =>
              \A m \in firstTx..lastTx : t \notin ledger[m]
<1>1. \A m \in firstTx..lastTx : m \in Heights
  BY IndexerAssumption DEF DBInv, DBTypeOK, Heights
<1>2. ASSUME NEW row \in getConfirmedTransaction(t)
      PROVE  \E m \in Heights : t \in ledger[m] /\ row = <<m, t>>
  <2>1. row \in transactionTable /\ row[2] = t
    BY <1>2 DEF getConfirmedTransaction
  <2>2. PICK m \in firstTx..lastTx : row \in {<<m, u>> : u \in ledger[m]}
    BY <2>1 DEF transactionTable
  <2> QED
    BY <1>1, <2>1, <2>2
<1>3. ASSUME NEW m \in firstTx..lastTx, t \in ledger[m]
      PROVE  getConfirmedTransaction(t) # {}
  <2>1. <<m, t>> \in transactionTable
    BY <1>3 DEF transactionTable
  <2> QED
    BY <2>1 DEF getConfirmedTransaction
<1> QED
  BY <1>2, <1>3

\* When the last block before a time is not found, no stored block is before it.
LEMMA NothingBefore ==
  ASSUME DBInv, NEW time, NoBlock \in getLastConfirmedBlockStrictlyBeforeTime(time)
  PROVE  \A m \in firstBlock..lastBlock : ~IsBefore(BlockRow(m), time)
<1> DEFINE before == {m \in firstBlock..lastBlock : IsBefore(BlockRow(m), time)}
<1>1. /\ firstBlock..lastBlock \subseteq Heights
      /\ Heights \subseteq Nat
      /\ firstBlock \in Nat /\ lastBlock \in Nat
  BY IndexerAssumption DEF DBInv, DBTypeOK, Heights
<1>2. SUFFICES ASSUME before # {} PROVE FALSE
  OBVIOUS
<1>3. Max(before) \in before /\ \A m \in before : m <= Max(before)
  <2>1. \A m \in before : m \in Nat /\ m <= lastBlock
    BY <1>1
  <2> QED
    BY <1>1, <1>2, <2>1, HighestExists
<1>4. /\ BlockRow(Max(before)) \in confirmedBlocks
      /\ IsBefore(BlockRow(Max(before)), time)
  BY <1>3, ConfirmedBlocks
<1>5. ASSUME NEW c \in confirmedBlocks, IsBefore(c, time)
      PROVE  BlockRow(Max(before)).number >= c.number
  <2>1. PICK m \in before : c = BlockRow(m)
    BY <1>5, ConfirmedBlocks
  <2>2. c.number = m /\ BlockRow(Max(before)).number = Max(before)
    BY <1>1, <1>3, <2>1, BlockRowProps
  <2> QED
    BY <1>1, <1>3, <2>1, <2>2
<1>6. NoBlock \notin confirmedBlocks
  BY <1>1, ConfirmedBlocks, BlockRowProps
<1> HIDE DEF before
<1> QED
  BY <1>4, <1>5, <1>6 DEF getLastConfirmedBlockStrictlyBeforeTime, getOne

-----------------------------------------------------------------------------
(* The steps *)

LEMMA InitIInv == Init => IInv
<1> SUFFICES ASSUME Init PROVE IInv
  OBVIOUS
<1>1. DBInv
  BY DBInitInv DEF Init
<1>2. NoBlock \in [number : Nat, timestamp : Nat, confirmed : BOOLEAN]
  BY DEF NoBlock
<1>3. \A e \in Endpoints : answers[e] = NoAnswer /\ lowest[e] = 0
  BY DEF Init
<1>4. TypeOK
  BY <1>1, <1>2, <1>3 DEF Init, TypeOK, DBInv, NoAnswer, Statuses, Endpoints
<1>5. ContentInv /\ LowerInv /\ UnavailabilityJustified
  BY <1>3 DEF ContentInv, LowerInv, UnavailabilityJustified, NoAnswer, Endpoints
<1> QED
  BY <1>1, <1>3, <1>4, <1>5
     DEF Init, IInv, ReadInv, BlockInv, FreshInv, LowestInv, Reading, Endpoints

\* A verification ends, and with it an endpoint: what its response says of the
\* chain and its status of the tables is all the invariant asks for.
LEMMA FinishStep ==
  ASSUME IInv, NEW o, pc \in Reading, Finish(o),
         UNCHANGED <<dbVars, attestationName, request, endpoint, lowest>>,
         dbBlock' \in [number : Nat, timestamp : Nat, confirmed : BOOLEAN],
         \/ o = Throws("INTERNAL_SERVER_ERROR")
         \/ \E s \in Statuses \ {"VALID"} :
              /\ o = Invalid(s)
              /\ s = "BLOCK_AVAILABILITY_ISSUE" => lowest[endpoint] < firstBlock
              /\ s = "TRANSACTION_AVAILABILITY_ISSUE" => lowest[endpoint] < firstTx
         \/ \E r \in Responses : o = Valid(r) /\ Confirmed(r) /\ Follows(r)
  PROVE  IInv'
<1> DEFINE a == answers'[endpoint]
<1>1. /\ DBInv' /\ UNCHANGED <<ledger, firstBlock, firstTx, lastBlock>>
      /\ attestationName' = attestationName /\ request' = request
      /\ endpoint' = endpoint /\ lowest' = lowest
      /\ endpoint \in Endpoints
      /\ attestationName # "AddressValidity"
      /\ blockNumber' = blockNumber /\ transactionId' = transactionId
      /\ Responses' = Responses
  BY DBUnchanged, RequestTyped
     DEF IInv, TypeOK, dbVars, blockNumber, transactionId, Responses
<1>2. /\ DOMAIN answers' = Endpoints
      /\ \A e \in Endpoints \ {endpoint} : answers'[e] = answers[e]
      /\ a = IF endpoint = "prepareRequest" THEN prepareRequest(o, attestationName)
             ELSE verifyEncodedRequestFDC(o, attestationName)
      /\ pc' = IF endpoint = "prepareRequest" /\ a.content # {} THEN "prepared" ELSE "done"
  BY <1>1 DEF IInv, TypeOK, Finish
<1>3. /\ {"none", "VALID", "MALFORMED"} \subseteq Statuses
  BY DEF Statuses
<1> DEFINE AnswerOK ==
             /\ a.error \in {"none", "BAD_REQUEST", "INTERNAL_SERVER_ERROR"}
             /\ a.status \in Statuses
             /\ a.status = "VALID" <=> a.content # {}
             /\ a.content \subseteq Responses
             /\ \A r \in a.content : a.content = {r} /\ Confirmed(r) /\ Follows(r)
             /\ a.status = "BLOCK_AVAILABILITY_ISSUE" => lowest[endpoint] < firstBlock
             /\ a.status = "TRANSACTION_AVAILABILITY_ISSUE" => lowest[endpoint] < firstTx
<1>4. AnswerOK
  <2>1. CASE o = Throws("INTERNAL_SERVER_ERROR")
    BY <1>2, <1>3, <2>1
       DEF Throws, prepareRequest, verifyEncodedRequestFDC, HttpError, Answer
  <2>2. ASSUME NEW s \in Statuses \ {"VALID"}, o = Invalid(s),
               s = "BLOCK_AVAILABILITY_ISSUE" => lowest[endpoint] < firstBlock,
               s = "TRANSACTION_AVAILABILITY_ISSUE" => lowest[endpoint] < firstTx
        PROVE  AnswerOK
    BY <1>1, <1>2, <2>2
       DEF Invalid, prepareRequest, verifyEncodedRequestFDC, HasResponse, Answer
  <2>3. ASSUME NEW r \in Responses, o = Valid(r), Confirmed(r), Follows(r)
        PROVE  AnswerOK
    BY <1>1, <1>2, <1>3, <2>3
       DEF Valid, prepareRequest, verifyEncodedRequestFDC, HasResponse, Answer
  <2> QED
    BY <2>1, <2>2, <2>3
<1> HIDE DEF a
<1>5. ASSUME NEW e \in Endpoints PROVE answers'[e] = IF e = endpoint THEN a ELSE answers[e]
  BY <1>2 DEF a
<1>6. pc' \in {"prepared", "done"} /\ (pc' = "prepared" => endpoint = "prepareRequest")
  BY <1>2
<1>7. TypeOK'
  BY <1>1, <1>2, <1>4, <1>5, <1>6 DEF IInv, TypeOK, DBInv
<1>8. ReadInv' /\ BlockInv' /\ LowestInv'
  BY <1>6 DEF ReadInv, BlockInv, LowestInv, Reading
<1>9. FreshInv'
  BY <1>1, <1>5, <1>6 DEF IInv, FreshInv, Reading, Endpoints
<1>10. ContentInv'
  BY <1>1, <1>4, <1>5
     DEF IInv, ContentInv, Confirmed, IsLower, BlockResponse, TransactionResponse,
         WindowTime
<1>11. LowerInv'
  <2>1. CASE endpoint = "prepareRequest"
    <3>1. answers'["verifyFDC"].content = {}
      BY <1>5, <2>1 DEF IInv, FreshInv, NoAnswer, Endpoints
    <3> QED
      BY <1>1, <1>4, <1>5, <2>1, <3>1 DEF LowerInv, Follows, LowerBlock, Endpoints
  <2>2. CASE endpoint = "verifyFDC"
    BY <1>1, <1>4, <1>5, <2>2 DEF IInv, LowerInv, Follows, LowerBlock, Endpoints
  <2> QED
    BY <1>1, <2>1, <2>2 DEF Endpoints
<1>12. UnavailabilityJustified'
  BY <1>1, <1>4, <1>5 DEF IInv, UnavailabilityJustified
<1> QED
  BY <1>1, <1>7, <1>8, <1>9, <1>10, <1>11, <1>12 DEF IInv

\* What the answer of the database would need now.
LEMMA LowestResult ==
  ASSUME IInv, NEW k \in LowestNeeded
  PROVE  /\ k \in Nat
         /\ IF attestationName = "ConfirmedBlockHeightExists"
            THEN /\ blockNumber <= lastBlock /\ k <= blockNumber
                 /\ \E m \in Heights : m <= lastBlock /\ Time[m] < WindowTime /\ k <= m
            ELSE \E m \in Heights :
                   m <= lastTx /\ transactionId \in ledger[m] /\ k = m
<1>1. /\ firstBlock..lastBlock \subseteq Heights /\ firstTx..lastTx \subseteq Heights
      /\ Heights \subseteq Nat /\ lastBlock \in Nat /\ lastTx \in Nat
      /\ firstBlock \in Nat /\ firstTx \in Nat
  BY IndexerAssumption DEF IInv, DBInv, DBTypeOK, Heights
<1>2. CASE attestationName # "ConfirmedBlockHeightExists"
  BY <1>1, <1>2 DEF LowestNeeded, transactionId
<1>3. CASE attestationName = "ConfirmedBlockHeightExists"
  <2> DEFINE before == {m \in firstBlock..lastBlock :
                          Time[m] < Time[blockNumber] - request.requestBody.queryWindow}
  <2>1. /\ blockNumber \in firstBlock..lastBlock
        /\ before # {}
        /\ k = Min({blockNumber, Max(before)})
    BY <1>3 DEF LowestNeeded, blockNumber
  <2>2. Max(before) \in before
    <3>1. \A x \in before : x \in Nat /\ x <= lastBlock
      BY <1>1
    <3> QED
      BY <1>1, <2>1, <3>1, HighestExists
  <2>3. k \in Nat /\ k <= blockNumber /\ k <= Max(before)
    BY <1>1, <2>1, <2>2, MinOfTwo
  <2>4. Time[Max(before)] < WindowTime
    BY <1>1, <1>3, <2>1, <2>2, WindowTyped DEF IInv, TypeOK
  <2>5. Max(before) \in Heights /\ Max(before) <= lastBlock /\ blockNumber <= lastBlock
    BY <1>1, <2>1, <2>2
  <2> HIDE DEF before
  <2> QED
    BY <1>3, <2>3, <2>4, <2>5
<1> QED
  BY <1>2, <1>3

LEMMA VerifyRequestStep == ASSUME IInv, VerifyRequest PROVE IInv'
<1>1. /\ DBInv' /\ ledger' = ledger /\ lastBlock' = lastBlock /\ lastTx' = lastTx
      /\ firstBlock' = firstBlock /\ firstTx' = firstTx
      /\ attestationName' = attestationName /\ request' = request /\ dbBlock' = dbBlock
      /\ blockNumber' = blockNumber /\ transactionId' = transactionId
      /\ WindowTime' = WindowTime /\ Responses' = Responses
      /\ pc \in {"idle", "prepared"}
      /\ endpoint' = IF pc = "idle" THEN "prepareRequest" ELSE "verifyFDC"
      /\ endpoint' \in Endpoints
      /\ DOMAIN lowest = Endpoints /\ DOMAIN answers = Endpoints
  BY DBUnchanged
     DEF IInv, TypeOK, VerifyRequest, dbVars, blockNumber, transactionId, WindowTime,
         Responses, Endpoints
<1>2. /\ answers[endpoint'] = NoAnswer /\ lowest[endpoint'] = 0
      /\ endpoint' = "prepareRequest" => answers["verifyFDC"] = NoAnswer
                                        /\ lowest["verifyFDC"] = 0
  BY <1>1 DEF IInv, FreshInv, Endpoints
<1>3. /\ lowest' \in [Endpoints -> Nat]
      /\ \A e \in Endpoints \ {endpoint'} : lowest'[e] = lowest[e]
      /\ lowest'[endpoint'] # 0 => lowest'[endpoint'] \in LowestNeeded
  BY <1>1, <1>2, LowestResult DEF IInv, TypeOK, VerifyRequest
<1>4. CASE /\ pc' \in {"block", "transaction"}
           /\ pc' = "block" <=> attestationName = "ConfirmedBlockHeightExists"
           /\ UNCHANGED answers
  <2>1. TypeOK'
    BY <1>1, <1>3, <1>4 DEF IInv, TypeOK, DBInv
  <2>2. ReadInv' /\ BlockInv'
    BY <1>1, <1>4 DEF ReadInv, BlockInv
  <2>3. FreshInv'
    BY <1>1, <1>2, <1>3, <1>4 DEF FreshInv, Reading, Endpoints
  <2>4. LowestInv'
    BY <1>1, <1>3, LowestResult DEF LowestInv
  <2>5. ContentInv'
    BY <1>1, <1>4
       DEF IInv, ContentInv, Confirmed, IsLower, BlockResponse, TransactionResponse
  <2>6. LowerInv'
    BY <1>1, <1>4 DEF IInv, LowerInv, LowerBlock
  <2>7. UnavailabilityJustified'
    BY <1>1, <1>2, <1>3, <1>4 DEF IInv, UnavailabilityJustified, NoAnswer
  <2> QED
    BY <1>1, <2>1, <2>2, <2>3, <2>4, <2>5, <2>6, <2>7 DEF IInv
<1>5. CASE /\ answers' = [answers EXCEPT !["prepareRequest"] =
                           prepareRequest(Throws("BAD_REQUEST"), attestationName)]
           /\ pc' = "done"
  <2>1. /\ DOMAIN answers' = Endpoints
        /\ answers'["prepareRequest"] =
             [error |-> "BAD_REQUEST", status |-> "none", content |-> {}]
        /\ \A e \in Endpoints \ {"prepareRequest"} : answers'[e] = answers[e]
    BY <1>1, <1>5 DEF prepareRequest, Throws, HttpError, Endpoints
  <2>2. "none" \in Statuses
    BY DEF Statuses
  <2>3. TypeOK'
    BY <1>1, <1>3, <1>5, <2>1, <2>2 DEF IInv, TypeOK, DBInv
  <2>4. ReadInv' /\ BlockInv' /\ FreshInv' /\ LowestInv'
    BY <1>5 DEF ReadInv, BlockInv, FreshInv, LowestInv, Reading
  <2>5. ContentInv'
    BY <1>1, <2>1
       DEF IInv, ContentInv, Confirmed, IsLower, BlockResponse, TransactionResponse
  <2>6. LowerInv'
    BY <2>1 DEF LowerInv
  <2>7. UnavailabilityJustified'
    BY <1>1, <1>2, <1>3, <2>1 DEF IInv, UnavailabilityJustified, NoAnswer, Endpoints
  <2> QED
    BY <1>1, <2>3, <2>4, <2>5, <2>6, <2>7 DEF IInv
<1> QED
  BY <1>4, <1>5 DEF VerifyRequest

LEMMA ReadBlockStep == ASSUME IInv, ReadBlock PROVE IInv'
<1>1. /\ DBInv /\ pc = "block" /\ attestationName = "ConfirmedBlockHeightExists"
      /\ UNCHANGED <<dbVars, attestationName, request, endpoint, lowest>>
      /\ dbBlock' \in queryBlock(blockNumber)
      /\ endpoint \in Endpoints /\ lowest[endpoint] \in Nat
      /\ blockNumber \in Nat /\ firstBlock \in Nat \ {0}
      /\ lastBlock \in Nat /\ firstBlock..lastBlock \subseteq Heights
  <2>1. /\ DBInv /\ pc = "block" /\ attestationName = "ConfirmedBlockHeightExists"
        /\ attestationName \in DOMAIN Requests /\ request \in Requests[attestationName]
        /\ endpoint \in Endpoints /\ lowest[endpoint] \in Nat
    BY DEF IInv, ReadInv, TypeOK, ReadBlock
  <2>2. blockNumber \in Nat
    BY <2>1, RequestTyped
  <2>3. /\ firstBlock \in Nat \ {0} /\ lastBlock \in Nat
        /\ firstBlock..lastBlock \subseteq Heights
    BY <2>1, IndexerAssumption DEF DBInv, DBTypeOK, Heights
  <2> QED
    BY <2>1, <2>2, <2>3 DEF ReadBlock, blockNumber
<1>2. /\ blockNumber \in firstBlock..lastBlock =>
           dbBlock' = BlockRow(blockNumber) /\ dbBlock' # NoBlock
      /\ blockNumber \notin firstBlock..lastBlock => dbBlock' = NoBlock
  BY <1>1, BlockResult
<1>3. dbBlock' \in [number : Nat, timestamp : Nat, confirmed : BOOLEAN]
  <2>1. NoBlock \in [number : Nat, timestamp : Nat, confirmed : BOOLEAN]
    BY DEF NoBlock
  <2> QED
    BY <1>1, <1>2, <2>1, BlockRowProps
<1>4. CASE dbBlock' = NoBlock
  <2>1. Finish(Invalid("BLOCK_AVAILABILITY_ISSUE"))
    BY <1>4 DEF ReadBlock, verifyWorkflowForBlock
  <2>2. lowest[endpoint] < firstBlock
    BY <1>1, <1>2, <1>4 DEF IInv, LowestInv, Reading
  <2>3. "BLOCK_AVAILABILITY_ISSUE" \in Statuses \ {"VALID"}
    BY DEF Statuses
  <2> QED
    BY <1>1, <1>3, <2>1, <2>2, <2>3, FinishStep DEF Reading
<1>5. CASE dbBlock' # NoBlock
  <2>1. /\ pc' = "lowerBlock" /\ UNCHANGED answers
        /\ DBInv' /\ ledger' = ledger /\ lastBlock' = lastBlock /\ lastTx' = lastTx
        /\ firstBlock' = firstBlock /\ firstTx' = firstTx
        /\ attestationName' = attestationName /\ request' = request
        /\ endpoint' = endpoint /\ lowest' = lowest
        /\ blockNumber' = blockNumber /\ transactionId' = transactionId
        /\ WindowTime' = WindowTime /\ Responses' = Responses
    BY <1>1, <1>5, DBUnchanged
       DEF ReadBlock, dbVars, blockNumber, transactionId, WindowTime, Responses
  <2>2. TypeOK'
    BY <1>3, <2>1 DEF IInv, TypeOK, DBInv
  <2>3. ReadInv' /\ BlockInv'
    BY <1>1, <1>2, <1>5, <2>1 DEF ReadInv, BlockInv
  <2>4. FreshInv' /\ LowestInv'
    BY <1>1, <2>1 DEF IInv, FreshInv, LowestInv, Reading
  <2>5. ContentInv' /\ UnavailabilityJustified'
    BY <2>1
       DEF IInv, ContentInv, Confirmed, IsLower, BlockResponse, TransactionResponse,
           UnavailabilityJustified
  <2>6. LowerInv'
    BY <2>1 DEF IInv, LowerInv, LowerBlock
  <2> QED
    BY <2>1, <2>2, <2>3, <2>4, <2>5, <2>6 DEF IInv
<1> QED
  BY <1>4, <1>5

\* No confirmed block lies between the lower block and the requested one, for
\* the table holds all blocks from the lower one up to those stored.
LEMMA ReadLowerBlockStep == ASSUME IInv, ReadLowerBlock PROVE IInv'
<1>1. /\ DBInv /\ pc = "lowerBlock" /\ attestationName = "ConfirmedBlockHeightExists"
      /\ UNCHANGED <<dbVars, attestationName, request, endpoint, dbBlock, lowest>>
      /\ endpoint \in Endpoints /\ lowest[endpoint] \in Nat
      /\ blockNumber \in Heights /\ blockNumber <= lastBlock
      /\ dbBlock = BlockRow(blockNumber)
      /\ dbBlock \in [number : Nat, timestamp : Nat, confirmed : BOOLEAN]
      /\ request \in Requests[attestationName]
      /\ firstBlock \in Nat \ {0} /\ lastBlock \in Nat
  <2>1. DBInv /\ pc = "lowerBlock" /\ attestationName = "ConfirmedBlockHeightExists"
    BY DEF IInv, ReadInv, ReadLowerBlock
  <2>2. firstBlock \in Nat \ {0} /\ lastBlock \in Nat
    BY <2>1, IndexerAssumption DEF DBInv, DBTypeOK
  <2> QED
    BY <2>1, <2>2 DEF IInv, TypeOK, BlockInv, ReadLowerBlock
<1>2. /\ WindowTime \in Int
      /\ \A m \in Heights : m \in Nat /\ Time[m] \in Nat
      /\ windowTime(dbBlock, request) = WindowTime
  BY <1>1, WindowTyped DEF WindowTime, blockNumber
<1>3. PICK b \in getLastConfirmedBlockStrictlyBeforeTime(WindowTime) :
        Finish(IF b = NoBlock THEN Invalid("BLOCK_AVAILABILITY_ISSUE")
               ELSE responseConfirmedBlockHeightExists(dbBlock, b, request))
  BY <1>2 DEF ReadLowerBlock
<1>4. CASE b = NoBlock
  <2>1. ASSUME NEW m \in Heights, m <= lastBlock, Time[m] < WindowTime
        PROVE  m < firstBlock
    <3>1. SUFFICES ASSUME m >= firstBlock PROVE FALSE
      BY <1>1, <1>2
    <3>2. IsBefore(BlockRow(m), WindowTime)
      BY <2>1, BlockRowProps DEF IsBefore
    <3> QED
      BY <1>1, <1>2, <1>3, <1>4, <2>1, <3>1, <3>2, NothingBefore
  <2>2. lowest[endpoint] < firstBlock
    BY <1>1, <1>2, <2>1 DEF IInv, LowestInv, Reading
  <2>3. "BLOCK_AVAILABILITY_ISSUE" \in Statuses \ {"VALID"}
    BY DEF Statuses
  <2> QED
    BY <1>1, <1>3, <1>4, <2>2, <2>3, FinishStep DEF Reading
<1>5. CASE b # NoBlock
  <2>1. /\ b.number \in firstBlock..lastBlock
        /\ b.number \in Heights
        /\ b = BlockRow(b.number)
        /\ IsBefore(b, WindowTime)
        /\ \A m \in firstBlock..lastBlock : IsBefore(BlockRow(m), WindowTime) => m <= b.number
    BY <1>1, <1>3, <1>5, LastBeforeResult
  <2>2. IsLower(b.number)
    <3>1. Time[b.number] < WindowTime
      BY <2>1, BlockRowProps DEF IsBefore
    <3>2. ASSUME NEW m \in Heights, b.number < m, m <= blockNumber
          PROVE  Time[m] >= WindowTime
      <4>1. m \in firstBlock..lastBlock
        BY <1>1, <1>2, <2>1, <3>2
      <4>2. ~ IsBefore(BlockRow(m), WindowTime)
        BY <1>2, <2>1, <3>2, <4>1
      <4> QED
        BY <1>2, <4>2, BlockRowProps DEF IsBefore
    <3> QED
      BY <3>1, <3>2 DEF IsLower
  <2>3. responseConfirmedBlockHeightExists(dbBlock, b, request) = Valid(BlockResponse(b.number))
    BY <1>1, <2>1, BlockRowProps DEF responseConfirmedBlockHeightExists, BlockResponse
  <2>4. BlockResponse(b.number) \in Responses /\ Confirmed(BlockResponse(b.number))
    BY <1>1, <2>1, <2>2, BlockResponseTyped DEF Confirmed
  <2>5. ASSUME NEW p \in answers["prepareRequest"].content
        PROVE  LowerBlock(p) <= b.number
    <3>1. LowerBlock(p) \in Heights /\ Time[LowerBlock(p)] < WindowTime
      <4>1. Confirmed(p)
        BY <2>5 DEF IInv, ContentInv, Endpoints
      <4> QED
        BY <1>1, <4>1, LowerProps DEF IsLower
    <3>2. LowerBlock(p) <= lastBlock
      BY <1>1, <2>5 DEF IInv, LowerInv
    <3>3. CASE LowerBlock(p) < firstBlock
      BY <1>1, <1>2, <2>1, <3>1, <3>3
    <3>4. CASE LowerBlock(p) >= firstBlock
      <4>1. LowerBlock(p) \in firstBlock..lastBlock
        BY <1>1, <1>2, <3>1, <3>2, <3>4
      <4>2. IsBefore(BlockRow(LowerBlock(p)), WindowTime)
        BY <3>1, BlockRowProps DEF IsBefore
      <4> QED
        BY <2>1, <4>1, <4>2
    <3> QED
      BY <1>1, <1>2, <3>1, <3>3, <3>4
  <2>6. Follows(BlockResponse(b.number))
    <3>1. LowerBlock(BlockResponse(b.number)) = b.number
      BY DEF LowerBlock, BlockResponse, MakeResponse
    <3>2. b.number <= lastBlock
      BY <1>1, <2>1
    <3> QED
      BY <2>5, <3>1, <3>2 DEF Follows
  <2> QED
    BY <1>1, <1>3, <1>5, <2>3, <2>4, <2>6, FinishStep DEF Reading
<1> QED
  BY <1>4, <1>5

LEMMA ReadTransactionStep == ASSUME IInv, ReadTransaction PROVE IInv'
<1>1. /\ DBInv /\ pc = "transaction"
      /\ attestationName \in {"Payment", "BalanceDecreasingTransaction"}
      /\ request \in Requests[attestationName]
      /\ UNCHANGED <<dbVars, attestationName, request, endpoint, dbBlock, lowest>>
      /\ endpoint \in Endpoints /\ lowest[endpoint] \in Nat
      /\ dbBlock \in [number : Nat, timestamp : Nat, confirmed : BOOLEAN]
  BY RequestTyped DEF IInv, ReadInv, TypeOK, ReadTransaction
<1>2. /\ ledger \in Ledgers
      /\ \A m \in Heights : ledger[m] \subseteq Transactions
  BY <1>1, IndexerAssumption DEF DBInv, DBTypeOK
<1>3. CASE /\ getConfirmedTransaction(transactionId) = {}
           /\ Finish(Invalid("TRANSACTION_AVAILABILITY_ISSUE"))
  <2>1. \A m \in firstTx..lastTx : transactionId \notin ledger[m]
    BY <1>1, <1>3, TransactionRows
  <2>2. /\ firstTx \in Nat \ {0} /\ lastTx \in Nat
        /\ \A m \in Heights : m \in Nat
    BY <1>1, IndexerAssumption DEF DBInv, DBTypeOK, Heights
  <2>3. lowest[endpoint] < firstTx
    BY <1>1, <2>1, <2>2 DEF IInv, LowestInv, Reading
  <2>4. "TRANSACTION_AVAILABILITY_ISSUE" \in Statuses \ {"VALID"}
    BY DEF Statuses
  <2> QED
    BY <1>1, <1>3, <2>3, <2>4, FinishStep DEF Reading
<1>4. CASE \E row \in getConfirmedTransaction(transactionId) : Finish(ResponseFor(row))
  <2>1. PICK row \in getConfirmedTransaction(transactionId) : Finish(ResponseFor(row))
    BY <1>4
  <2>2. PICK m \in Heights : transactionId \in ledger[m] /\ row = <<m, transactionId>>
    BY <1>1, <2>1, TransactionRows
  <2>3. transactionId \in StoredTransaction
    BY <1>2, <2>2, RequestsAssumption
  <2>4. \/ ResponseFor(row) = Throws("INTERNAL_SERVER_ERROR")
        \/ \E s \in Statuses \ {"VALID", "BLOCK_AVAILABILITY_ISSUE",
                                "TRANSACTION_AVAILABILITY_ISSUE"} :
             ResponseFor(row) = Invalid(s)
        \/ /\ transactionId.data = "ok"
           /\ ResponseFor(row) = Valid(TransactionResponse(m))
    <3> DEFINE Others == Statuses \ {"VALID", "BLOCK_AVAILABILITY_ISSUE",
                                     "TRANSACTION_AVAILABILITY_ISSUE"}
    <3>1. /\ {"INVALID", "INVALID_UTXOS", "MORE_THAN_ONE_OUTPUT"} \subseteq Others
          /\ \A s \in PaymentSummaryStatus \ {"Success"} : PaymentStatus(s) \in Others
          /\ \A s \in BalanceDecreasingSummaryStatus \ {"Success"} :
               BalanceDecreasingStatus(s) \in Others
      <4>1. {"INVALID", "INVALID_UTXOS", "MORE_THAN_ONE_OUTPUT"} \subseteq Others
        BY DEF Statuses
      <4>2. ASSUME NEW s \in PaymentSummaryStatus \ {"Success"}
            PROVE  PaymentStatus(s) \in Others
        <5>1. PaymentStatus(s) \in Statuses
          BY <4>2 DEF Statuses
        <5>2. PaymentStatus(s) \notin {"VALID", "BLOCK_AVAILABILITY_ISSUE",
                                       "TRANSACTION_AVAILABILITY_ISSUE"}
          BY <4>2 DEF PaymentStatus
        <5> QED
          BY <5>1, <5>2
      <4>3. {"COINBASE_TRANSACTION", "NO_SOURCE_ADDRESS"} \subseteq Others
        <5>1. /\ PaymentStatus("Coinbase") = "COINBASE_TRANSACTION"
              /\ PaymentStatus("NoSpentAmountAddress") = "NO_SOURCE_ADDRESS"
          BY DEF PaymentStatus
        <5>2. {"Coinbase", "NoSpentAmountAddress"} \subseteq PaymentSummaryStatus \ {"Success"}
          BY DEF PaymentSummaryStatus
        <5> QED
          BY <4>2, <5>1, <5>2
      <4>4. ASSUME NEW s \in BalanceDecreasingSummaryStatus \ {"Success"}
            PROVE  BalanceDecreasingStatus(s) \in Others
        BY <4>1, <4>3, <4>4 DEF BalanceDecreasingStatus, BalanceDecreasingSummaryStatus
      <4> QED
        BY <4>1, <4>2, <4>4
    <3> HIDE DEF Others
    <3>2. CASE attestationName = "Payment"
      BY <2>2, <2>3, <3>1, <3>2
         DEF ResponseFor, responsePayment, Unreadable, TransactionResponse, StoredTransaction,
             Others
    <3>3. CASE attestationName = "BalanceDecreasingTransaction"
      BY <2>2, <2>3, <3>1, <3>3
         DEF ResponseFor, responseBalanceDecreasingTransaction, Unreadable,
             TransactionResponse, StoredTransaction, Others
    <3> QED
      BY <1>1, <3>2, <3>3
  <2>5. TransactionResponse(m) \in Responses
    BY <1>1, <1>2, <2>2, TransactionResponseTyped
  <2>6. /\ transactionId.data = "ok" => Confirmed(TransactionResponse(m))
        /\ Follows(TransactionResponse(m))
    BY <1>1, <2>2 DEF Confirmed, Follows
  <2> QED
    BY <1>1, <2>1, <2>4, <2>5, <2>6, FinishStep DEF Reading
<1> QED
  BY <1>3, <1>4 DEF ReadTransaction, verifyWorkflowForTransaction, transactionId

LEMMA ReadFailsStep == ASSUME IInv, ReadFails PROVE IInv'
<1>1. /\ pc \in Reading
      /\ UNCHANGED <<dbVars, attestationName, request, endpoint, lowest>>
      /\ dbBlock' \in [number : Nat, timestamp : Nat, confirmed : BOOLEAN]
      /\ Finish(Throws("INTERNAL_SERVER_ERROR"))
  BY DEF IInv, TypeOK, ReadFails, Reading
<1> QED
  BY <1>1, FinishStep

\* The chain stays, and what was dropped stays so.
LEMMA DatabaseStep ==
  ASSUME IInv, UNCHANGED requestVars, DBInv', ledger' = ledger,
         firstTx <= firstTx', firstBlock <= firstBlock',
         lastBlock <= lastBlock', lastTx <= lastTx'
  PROVE  IInv'
<1>1. /\ attestationName' = attestationName /\ request' = request /\ pc' = pc
      /\ endpoint' = endpoint /\ dbBlock' = dbBlock /\ answers' = answers
      /\ lowest' = lowest
      /\ blockNumber' = blockNumber /\ transactionId' = transactionId
      /\ WindowTime' = WindowTime /\ Responses' = Responses
  BY DEF requestVars, blockNumber, transactionId, WindowTime, Responses
<1>2. /\ \A h \in {firstTx, firstBlock, lastBlock, lastTx} : h \in Nat
      /\ \A h \in {firstTx', firstBlock', lastBlock', lastTx'} : h \in Nat
      /\ \A m \in Heights : m \in Nat
      /\ endpoint \in Endpoints
      /\ \A e \in Endpoints : lowest[e] \in Nat
  BY IndexerAssumption DEF IInv, DBInv, DBTypeOK, TypeOK, Heights
<1>3. TypeOK' /\ ReadInv' /\ FreshInv'
  BY <1>1 DEF IInv, TypeOK, DBInv, ReadInv, FreshInv
<1>4. BlockInv'
  BY <1>1, <1>2 DEF IInv, BlockInv
<1>5. LowestInv'
  <2>1. CASE attestationName = "ConfirmedBlockHeightExists"
    <3>1. SUFFICES ASSUME pc \in Reading, lowest[endpoint] # 0
                   PROVE  /\ blockNumber <= lastBlock' /\ lowest[endpoint] <= blockNumber
                          /\ \E m \in Heights : /\ m <= lastBlock'
                                                /\ Time[m] < WindowTime
                                                /\ lowest[endpoint] <= m
      BY <1>1, <2>1 DEF LowestInv
    <3>2. blockNumber \in Nat
      BY <2>1, RequestTyped DEF IInv, TypeOK
    <3> QED
      BY <1>2, <2>1, <3>1, <3>2 DEF IInv, LowestInv
  <2>2. CASE attestationName # "ConfirmedBlockHeightExists"
    BY <1>1, <1>2, <2>2 DEF IInv, LowestInv
  <2> QED
    BY <2>1, <2>2
<1>6. ContentInv'
  BY <1>1
     DEF IInv, ContentInv, Confirmed, IsLower, BlockResponse, TransactionResponse
<1>7. LowerInv'
  <2> SUFFICES ASSUME attestationName = "ConfirmedBlockHeightExists",
                      NEW p \in answers["prepareRequest"].content
               PROVE  /\ LowerBlock(p) <= lastBlock'
                      /\ \A v \in answers["verifyFDC"].content : LowerBlock(p) <= LowerBlock(v)
    BY <1>1 DEF LowerInv, LowerBlock
  <2>1. LowerBlock(p) \in Nat
    BY <1>2, LowerProps DEF IInv, ContentInv, Endpoints
  <2>2. /\ LowerBlock(p) <= lastBlock
        /\ \A v \in answers["verifyFDC"].content : LowerBlock(p) <= LowerBlock(v)
    BY DEF IInv, LowerInv
  <2> QED
    BY <1>2, <2>1, <2>2
<1>8. UnavailabilityJustified'
  BY <1>1, <1>2 DEF IInv, UnavailabilityJustified
<1> QED
  BY <1>3, <1>4, <1>5, <1>6, <1>7, <1>8 DEF IInv

LEMMA NextIInv == IInv /\ [Next]_vars => IInv'
<1> SUFFICES ASSUME IInv, [Next]_vars PROVE IInv'
  OBVIOUS
<1>1. CASE VerifyRequest
  BY <1>1, VerifyRequestStep
<1>2. CASE ReadBlock
  BY <1>2, ReadBlockStep
<1>3. CASE ReadLowerBlock
  BY <1>3, ReadLowerBlockStep
<1>4. CASE ReadTransaction
  BY <1>4, ReadTransactionStep
<1>5. CASE ReadFails
  BY <1>5, ReadFailsStep
<1>6. CASE Indexer /\ UNCHANGED requestVars
  BY <1>6, IndexerMoves, DatabaseStep DEF IInv
<1>7. CASE UNCHANGED vars
  <2>1. UNCHANGED dbVars /\ UNCHANGED requestVars
    BY <1>7 DEF vars
  <2>2. /\ DBInv' /\ ledger' = ledger
        /\ firstTx' = firstTx /\ firstBlock' = firstBlock
        /\ lastBlock' = lastBlock /\ lastTx' = lastTx
    BY <2>1, DBUnchanged DEF IInv, dbVars
  <2>3. /\ firstTx \in Nat /\ firstBlock \in Nat /\ lastBlock \in Nat /\ lastTx \in Nat
    BY IndexerAssumption DEF IInv, DBInv, DBTypeOK
  <2> QED
    BY <2>1, <2>2, <2>3, DatabaseStep
<1> QED
  BY <1>1, <1>2, <1>3, <1>4, <1>5, <1>6, <1>7 DEF Next, Verifier

LEMMA AlwaysIInv == Spec => []IInv
BY InitIInv, NextIInv, PTL DEF Spec

-----------------------------------------------------------------------------
(* The theorems *)

\* Tables, registers and answers keep their types, and an integrity code is
\* answered with the status VALID and no other.
THEOREM TypeCorrect == Spec => []TypeOK
<1>1. IInv => TypeOK
  BY DEF IInv
<1> QED
  BY <1>1, AlwaysIInv, PTL

\* Every response and integrity code is of the final chain, whatever blocks
\* were stored, confirmed, forked and dropped between the reads.
THEOREM ResponsesAreFinal == Spec => []ResponseFinal
<1>1. ASSUME IInv PROVE ResponseFinal
  <2> SUFFICES ASSUME NEW e \in Endpoints, NEW r \in answers[e].content
               PROVE  IF attestationName = "ConfirmedBlockHeightExists"
                      THEN ConfirmsBlock(r) ELSE ConfirmsTransaction(r)
    BY DEF ResponseFinal
  <2>1. Confirmed(r)
    BY <1>1 DEF IInv, ContentInv
  <2>2. \A m \in Heights : m \in Nat /\ Time[m] \in Nat
    BY IndexerAssumption DEF Heights
  <2>3. CASE attestationName = "ConfirmedBlockHeightExists"
    <3>1. PICK lower \in Heights : IsLower(lower) /\ r = BlockResponse(lower)
      BY <2>1, <2>3 DEF Confirmed
    <3>2. /\ blockNumber \in Heights
          /\ r.responseBody.blockTimestamp = Time[blockNumber]
          /\ r.responseBody.lowestQueryWindowBlockNumber = lower
          /\ r.responseBody.lowestQueryWindowBlockTimestamp = Time[lower]
          /\ r.lowestUsedTimestamp = lut(BlockRow(blockNumber), BlockRow(lower))
      BY <2>1, <2>3, <3>1 DEF Confirmed, BlockResponse, MakeResponse
    <3>3. lut(BlockRow(blockNumber), BlockRow(lower)) =
            IF Time[blockNumber] < CBHE_LUT_FORK_TIMESTAMP
            THEN Time[blockNumber] ELSE Time[lower]
      BY <3>2, BlockRowProps DEF lut
    <3> QED
      BY <2>3, <3>1, <3>2, <3>3 DEF ConfirmsBlock, IsLower, blockNumber
  <2>4. CASE attestationName # "ConfirmedBlockHeightExists"
    <3>1. PICK m \in Heights : /\ transactionId \in ledger[m] /\ transactionId.data = "ok"
                               /\ r = TransactionResponse(m)
      BY <2>1, <2>4 DEF Confirmed
    <3>2. /\ r.responseBody.blockNumber = m
          /\ r.responseBody.blockTimestamp = Time[m]
          /\ r.lowestUsedTimestamp = unixTimestamp(<<m, transactionId>>)
      BY <3>1 DEF TransactionResponse, MakeResponse
    <3>3. Time[m] >= LUT_FORK_TIMESTAMP => unixTimestamp(<<m, transactionId>>) = Time[m]
      BY <2>2, PaymentAssumption DEF unixTimestamp
    <3> QED
      BY <2>4, <3>1, <3>2, <3>3 DEF ConfirmsTransaction, transactionId
  <2> QED
    BY <2>3, <2>4
<1> QED
  BY <1>1, AlwaysIInv, PTL

\* A prepared request is confirmed by every provider that has the data: there
\* is one response that the final chain gives, unless a block above the
\* requested one lies before its window and has become the lower block since.
THEOREM PreparedRequestsVerify == Spec => []PreparedVerifies
<1>1. ASSUME IInv PROVE PreparedVerifies
  <2> SUFFICES ASSUME NEW p \in answers["prepareRequest"].content,
                      NEW v \in answers["verifyFDC"].content, p # v
               PROVE  /\ attestationName = "ConfirmedBlockHeightExists"
                      /\ LowerBlock(v) > request.requestBody.blockNumber
                      /\ LowerBlock(v) > LowerBlock(p)
                      /\ Time[LowerBlock(v)] < WindowTime
    BY DEF PreparedVerifies
  <2>1. Confirmed(p) /\ Confirmed(v)
    BY <1>1 DEF IInv, ContentInv, Endpoints
  <2>2. attestationName = "ConfirmedBlockHeightExists"
    <3> SUFFICES ASSUME attestationName # "ConfirmedBlockHeightExists" PROVE p = v
      OBVIOUS
    <3>1. PICK i \in Heights : transactionId \in ledger[i] /\ p = TransactionResponse(i)
      BY <2>1 DEF Confirmed
    <3>2. PICK j \in Heights : transactionId \in ledger[j] /\ v = TransactionResponse(j)
      BY <2>1 DEF Confirmed
    <3>3. i = j
      BY <1>1, <3>1, <3>2, TransactionIdAssumption DEF IInv, DBInv, DBTypeOK
    <3> QED
      BY <3>1, <3>2, <3>3
  <2> DEFINE i == LowerBlock(p)
             j == LowerBlock(v)
  <2>3. /\ i \in Heights /\ IsLower(i) /\ p = BlockResponse(i)
        /\ j \in Heights /\ IsLower(j) /\ v = BlockResponse(j)
    BY <2>1, <2>2, LowerProps
  <2>4. /\ blockNumber \in Heights /\ WindowTime \in Int
        /\ \A m \in Heights : m \in Nat /\ Time[m] \in Nat
    BY <1>1, <2>1, <2>2, WindowTyped DEF Confirmed, IInv, TypeOK
  <2>5. i <= j
    BY <1>1, <2>2 DEF IInv, LowerInv
  <2> HIDE DEF i, j
  <2>6. i < j
    BY <2>3, <2>4, <2>5
  <2>7. Time[j] < WindowTime
    BY <2>3 DEF IsLower
  <2>8. j > blockNumber
    <3> SUFFICES ASSUME j <= blockNumber PROVE FALSE
      BY <2>3, <2>4
    <3>1. Time[j] >= WindowTime
      BY <2>3, <2>6 DEF IsLower
    <3> QED
      BY <2>3, <2>4, <2>7, <3>1
  <2> QED
    BY <2>2, <2>6, <2>7, <2>8 DEF i, j, blockNumber
<1> QED
  BY <1>1, AlwaysIInv, PTL

\* A block or transaction is only said to be unavailable if the rows that the
\* response needs were missing from the start, or dropped since.
THEOREM UnavailabilityIsJustified == Spec => []UnavailabilityJustified
<1>1. IInv => UnavailabilityJustified
  BY DEF IInv
<1> QED
  BY <1>1, AlwaysIInv, PTL
=============================================================================
