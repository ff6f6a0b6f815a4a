------------------- MODULE XRPPaymentNonexistence_proofs -------------------
(***************************************************************************)
(* The safety properties of XRPPaymentNonexistence, for every ledger,      *)
(* request and bound.                                                      *)
(*                                                                         *)
(* As in the other nonexistence the invariant says, read by read, what the *)
(* verification knows of the ledger.  Both a payment and its absence are   *)
(* statements about the final ledger, whence they cannot contradict.       *)
(***************************************************************************)
EXTENDS XRPPaymentNonexistence, IndexedQueryManager_proofs

Deadline == [deadline |-> q.deadlineBlockNumber, deadlineTime |-> q.deadlineTimestamp]

NotFinished == pc # "done" => outcome = Running

\* The block read first is final, and overflows first among the stored ones.
OverflowInv ==
  pc \in {"lastConfirmed", "transactions", "minimalBlock", "endBlock"} =>
    /\ overflow.number \in Heights
    /\ overflow.number <= lastBlock
    /\ overflow = BlockRow(overflow.number)

CompleteInv ==
  pc \in {"transactions", "minimalBlock", "endBlock"} => overflow.number - 1 <= indexed

\* All transactions of block n that the query selects were found.
FoundAll(n) == \A t \in ledger[n] : Selected(t) => <<n, t>> \in found

\* Of the window, what was not dropped when the query ran was found.
FoundInv ==
  pc = "minimalBlock" => \A n \in Heights : firstTx <= n /\ InWindow(n) => FoundAll(n)

\* If the minimal block is still stored, nothing of the window was dropped.
WindowInv ==
  pc = "endBlock" /\ minimalBlock # NoBlock =>
    /\ minimalBlock = BlockRow(q.minimalBlockNumber)
    /\ q.minimalBlockNumber \in Heights
    /\ \A n \in Heights : InWindow(n) => FoundAll(n)

\* A nonexistence response has the time of the minimal block.
OutcomeInv ==
  \A r \in outcome.response : r.lowestUsedTimestamp = Time[q.minimalBlockNumber]

\* A payment response shows a payment of the final ledger.
PaymentInv ==
  \A p \in payment.response : \E n \in Heights : \E t \in ledger[n] :
    /\ t \in Transactions
    /\ t.payment = "Success" /\ t.toOne
    /\ p.responseBody = XRPPaymentBody(<<n, t>>)
    /\ p.lowestUsedTimestamp = unixTimestamp(<<n, t>>)

IInv ==
  /\ TypeOK
  /\ DBInv
  /\ NotFinished
  /\ OverflowInv
  /\ CompleteInv
  /\ FoundInv
  /\ WindowInv
  /\ OutcomeInv
  /\ PaymentInv
  /\ NonexistenceSound

-----------------------------------------------------------------------------
(* Requests, responses and rows *)

LEMMA RequestTyped ==
  ASSUME request \in Requests
  PROVE  /\ request \in XRPPaymentNonexistence_Request
         /\ q.minimalBlockNumber \in Nat /\ q.deadlineBlockNumber \in Nat
         /\ q.deadlineTimestamp \in Nat
         /\ q.amount \in Nat
BY XrpRequestsAssumption
   DEF XRPPaymentNonexistence_Request, AttestationType_Request,
       XRPPaymentNonexistence_RequestBody, q

\* The transaction table holds the transactions of its blocks.
LEMMA TableRows ==
  ASSUME DBInv
  PROVE  /\ \A n \in Heights : ledger[n] \subseteq Transactions
         /\ \A row \in transactionTable : \E n \in firstTx..lastTx :
              n \in Heights /\ \E t \in ledger[n] : row = <<n, t>>
         /\ \A n \in firstTx..lastTx : \A t \in ledger[n] : <<n, t>> \in transactionTable
<1>1. firstTx..lastTx \subseteq Heights
  BY IndexerAssumption DEF DBInv, DBTypeOK, Heights
<1>2. ledger \in [Heights -> SUBSET Transactions]
  BY IndexerAssumption DEF DBInv, DBTypeOK
<1> QED
  BY <1>1, <1>2 DEF transactionTable

\* A response to a nonexistence request is of the declared type.
LEMMA NonexistenceResponseTyped ==
  ASSUME request \in Requests, NEW m \in Nat, NEW o \in Nat, NEW ot \in Nat
  PROVE  MakeResponse(request, m,
           [minimalBlockTimestamp |-> m, firstOverflowBlockNumber |-> o,
            firstOverflowBlockTimestamp |-> ot]) \in XRPPaymentNonexistence_Response
BY RequestTyped
   DEF MakeResponse, XRPPaymentNonexistence_Response, XRPPaymentNonexistence_ResponseBody,
       XRPPaymentNonexistence_Request, AttestationType_Response, AttestationType_Request

LEMMA BodyTyped ==
  ASSUME NEW n \in Heights, NEW t \in Transactions
  PROVE  /\ XRPPaymentBody(<<n, t>>) \in XRPPayment_ResponseBody
         /\ unixTimestamp(<<n, t>>) \in Nat
<1>1. t \in XrpTransaction
  BY XrpRequestsAssumption
<1>2. n \in Nat /\ Time[n] \in Nat /\ XRP_UTD \in Nat
  BY IndexerAssumption, PaymentAssumption DEF Heights
<1>3. (IF t.destinationTag = {} THEN 0 ELSE CHOOSE tag \in t.destinationTag : TRUE) \in Nat
  <2>1. t.destinationTag \in SUBSET Nat
    BY <1>1 DEF XrpTransaction
  <2>2. CASE t.destinationTag = {}
    BY <2>2
  <2>3. CASE t.destinationTag # {}
    <3>1. \E tag \in t.destinationTag : TRUE
      BY <2>3
    <3>2. (CHOOSE tag \in t.destinationTag : TRUE) \in t.destinationTag
      BY <3>1
    <3> QED
      BY <2>1, <2>3, <3>2
  <2> QED
    BY <2>2, <2>3
<1>4. /\ t.intendedReceivingAddressHash \in Addresses
      /\ t.intendedReceivingAmount \in Nat
      /\ t.memoData \in SUBSET Memos
      /\ t.successStatus \in {"SUCCESS", "SENDER_FAILURE", "RECEIVER_FAILURE"}
  BY <1>1 DEF XrpTransaction
<1>5. XRPPaymentBody(<<n, t>>) \in XRPPayment_ResponseBody
  BY <1>2, <1>3, <1>4 DEF XRPPaymentBody, XRPPayment_ResponseBody
<1>6. unixTimestamp(<<n, t>>) \in Nat
  BY <1>2 DEF unixTimestamp
<1> QED
  BY <1>5, <1>6

\* What SQL selects is all that the loop may find to match.
LEMMA MatchesSelected ==
  ASSUME NEW t, Matches(t)
  PROVE  Selected(t)
BY DEF Matches, Selected

-----------------------------------------------------------------------------
(* The steps *)

LEMMA InitIInv == Init => IInv
<1> SUFFICES ASSUME Init PROVE IInv
  OBVIOUS
<1>1. DBInv
  BY DBInitInv DEF Init
<1>2. NoBlock \in [number : Nat, timestamp : Nat, confirmed : BOOLEAN]
  BY DEF NoBlock
<1>3. TypeOK
  BY <1>1, <1>2 DEF Init, TypeOK, DBInv, Running
<1> QED
  BY <1>1, <1>3
     DEF Init, IInv, NotFinished, OverflowInv, CompleteInv, FoundInv, WindowInv,
         OutcomeInv, PaymentInv, NonexistenceSound, Running

\* The indexer invalidates nothing that is known.
LEMMA IndexerStep ==
  ASSUME IInv, Indexer, UNCHANGED <<requestVars, payment>>
  PROVE  IInv'
<1>1. /\ DBInv'
      /\ ledger' = ledger
      /\ firstTx <= firstTx' /\ firstBlock <= firstBlock'
      /\ lastBlock <= lastBlock' /\ indexed <= indexed'
  BY IndexerMoves DEF IInv
<1>2. /\ pc' = pc /\ request' = request /\ overflow' = overflow /\ found' = found
      /\ minimalBlock' = minimalBlock /\ outcome' = outcome /\ payment' = payment
      /\ q' = q
  BY DEF requestVars, q
<1>3. /\ firstTx \in Nat /\ firstTx' \in Nat
      /\ lastBlock \in Nat /\ lastBlock' \in Nat
      /\ indexed \in Nat /\ indexed' \in Nat
      /\ overflow.number \in Nat
      /\ Heights \subseteq Nat
  BY <1>1, IndexerAssumption DEF IInv, DBInv, DBTypeOK, TypeOK, Heights
<1>4. TypeOK' /\ NotFinished'
  BY <1>1, <1>2 DEF IInv, TypeOK, DBInv, NotFinished
<1>5. OverflowInv' /\ CompleteInv'
  BY <1>1, <1>2, <1>3 DEF IInv, OverflowInv, CompleteInv
<1>6. FoundInv' /\ WindowInv'
  BY <1>1, <1>2, <1>3
     DEF IInv, FoundInv, WindowInv, FoundAll, InWindow, Selected, MemoSelected, TagSelected
<1>7. OutcomeInv' /\ PaymentInv' /\ NonexistenceSound'
  BY <1>1, <1>2
     DEF IInv, OutcomeInv, PaymentInv, NonexistenceSound, Matches, MemoSelected, TagSelected
<1> QED
  BY <1>1, <1>4, <1>5, <1>6, <1>7 DEF IInv

LEMMA StutterStep == ASSUME IInv, UNCHANGED vars PROVE IInv'
<1>1. /\ UNCHANGED dbVars
      /\ pc' = pc /\ request' = request /\ overflow' = overflow /\ found' = found
      /\ minimalBlock' = minimalBlock /\ outcome' = outcome /\ payment' = payment
      /\ q' = q
  BY DEF vars, requestVars, q
<1>2. DBInv' /\ ledger' = ledger /\ firstTx' = firstTx /\ lastBlock' = lastBlock
      /\ indexed' = indexed
  BY <1>1, DBUnchanged DEF IInv, dbVars
<1>3. TypeOK' /\ NotFinished' /\ OverflowInv' /\ CompleteInv'
  BY <1>1, <1>2 DEF IInv, TypeOK, DBInv, NotFinished, OverflowInv, CompleteInv
<1>4. FoundInv' /\ WindowInv'
  BY <1>1, <1>2
     DEF IInv, FoundInv, WindowInv, FoundAll, InWindow, Selected, MemoSelected, TagSelected
<1>5. OutcomeInv' /\ PaymentInv' /\ NonexistenceSound'
  BY <1>1, <1>2
     DEF IInv, OutcomeInv, PaymentInv, NonexistenceSound, Matches, MemoSelected, TagSelected
<1> QED
  BY <1>2, <1>3, <1>4, <1>5 DEF IInv

\* A verification that ends without a response.
LEMMA NoResponseStep ==
  ASSUME IInv, UNCHANGED <<dbVars, request, overflow, payment>>, pc' = "done",
         TypeOK', outcome'.response = {}
  PROVE  IInv'
<1>1. DBInv'
  BY DBUnchanged DEF IInv
<1> QED
  BY <1>1 DEF IInv, NotFinished, OverflowInv, CompleteInv, FoundInv, WindowInv,
              OutcomeInv, PaymentInv, NonexistenceSound, dbVars

LEMMA VerifyNonexistenceStep == ASSUME IInv, VerifyNonexistence PROVE IInv'
<1>1. /\ DBInv'
      /\ pc = "idle" /\ outcome = Running
      /\ UNCHANGED <<dbVars, request, overflow, found, minimalBlock, payment>>
  BY DBUnchanged DEF IInv, VerifyNonexistence, NotFinished
<1>2. CASE Return(Invalid("INVALID_SEARCH_RANGE"))
  <2>1. TypeOK' /\ pc' = "done" /\ outcome'.response = {}
    BY <1>1, <1>2 DEF IInv, TypeOK, DBInv, DBTypeOK, dbVars, Return, Invalid
  <2> QED
    BY <1>1, <2>1, NoResponseStep
<1>3. CASE pc' = "overflowBlock" /\ UNCHANGED outcome
  BY <1>1, <1>3
     DEF IInv, TypeOK, DBTypeOK, NotFinished, OverflowInv, CompleteInv, FoundInv, WindowInv,
         OutcomeInv, PaymentInv, NonexistenceSound, dbVars, Running
<1> QED
  BY <1>2, <1>3 DEF VerifyNonexistence

LEMMA ReadOverflowBlockStep == ASSUME IInv, ReadOverflowBlock PROVE IInv'
<1>1. /\ DBInv /\ DBInv'
      /\ pc = "overflowBlock" /\ outcome = Running
      /\ UNCHANGED <<dbVars, request, found, minimalBlock, payment>>
      /\ overflow' \in getFirstConfirmedOverflowBlock(Deadline)
  BY DBUnchanged DEF IInv, ReadOverflowBlock, NotFinished, Deadline
<1>2. overflow' # NoBlock =>
        /\ overflow'.number \in firstBlock..lastBlock
        /\ overflow'.number \in Heights
        /\ overflow' = BlockRow(overflow'.number)
  BY <1>1, OverflowResult
<1>3. overflow' \in [number : Nat, timestamp : Nat, confirmed : BOOLEAN]
  <2>1. NoBlock \in [number : Nat, timestamp : Nat, confirmed : BOOLEAN]
    BY DEF NoBlock
  <2> QED
    BY <1>2, <2>1, BlockRowProps
<1>4. CASE overflow' = NoBlock
  <2>1. pc' = "done" /\ outcome' = Invalid("BLOCK_AVAILABILITY_ISSUE")
    BY <1>4 DEF ReadOverflowBlock, Return, verifyWorkflowForReferencedTransactions
  <2>2. TypeOK'
    BY <1>1, <1>3, <2>1 DEF IInv, TypeOK, DBTypeOK, dbVars, Invalid
  <2> QED
    BY <1>1, <2>1, <2>2
       DEF IInv, NotFinished, OverflowInv, CompleteInv, FoundInv, WindowInv, OutcomeInv,
           PaymentInv, NonexistenceSound, dbVars, Invalid
<1>5. CASE overflow' # NoBlock
  <2>1. pc' = "lastConfirmed" /\ UNCHANGED outcome
    BY <1>5 DEF ReadOverflowBlock
  <2>2. TypeOK'
    BY <1>1, <1>3, <2>1 DEF IInv, TypeOK, DBTypeOK, dbVars
  <2>3. OverflowInv'
    <3>1. overflow'.number <= lastBlock
      BY <1>1, <1>2, <1>5 DEF DBInv, DBTypeOK
    <3> QED
      BY <1>1, <1>2, <1>5, <3>1 DEF OverflowInv, dbVars
  <2> QED
    BY <1>1, <2>1, <2>2, <2>3
       DEF IInv, NotFinished, CompleteInv, FoundInv, WindowInv, OutcomeInv, PaymentInv,
           NonexistenceSound, dbVars, Running
<1> QED
  BY <1>4, <1>5

LEMMA ReadLastConfirmedStep == ASSUME IInv, ReadLastConfirmed PROVE IInv'
<1>1. /\ DBInv'
      /\ pc = "lastConfirmed" /\ outcome = Running
      /\ UNCHANGED <<dbVars, request, overflow, found, minimalBlock, payment>>
  BY DBUnchanged DEF IInv, ReadLastConfirmed, NotFinished
<1>2. CASE Incomplete(indexed)
  <2>1. pc' = "done" /\ outcome' = Invalid("BLOCK_AVAILABILITY_ISSUE")
    BY <1>2 DEF ReadLastConfirmed, Return, verifyWorkflowForReferencedTransactions
  <2>2. TypeOK' /\ outcome'.response = {}
    BY <1>1, <2>1 DEF IInv, TypeOK, DBTypeOK, dbVars, Invalid
  <2> QED
    BY <1>1, <2>1, <2>2, NoResponseStep
<1>3. CASE ~Incomplete(indexed)
  <2>1. pc' = "transactions" /\ UNCHANGED outcome
    BY <1>3 DEF ReadLastConfirmed
  <2>2. overflow.number - 1 <= indexed
    BY <1>3, IndexerAssumption DEF Incomplete, IInv, TypeOK, DBInv, DBTypeOK
  <2> QED
    BY <1>1, <2>1, <2>2
       DEF IInv, TypeOK, DBTypeOK, NotFinished, OverflowInv, CompleteInv, FoundInv,
           WindowInv, OutcomeInv, PaymentInv, NonexistenceSound, dbVars, Running
<1> QED
  BY <1>2, <1>3

LEMMA ReadTransactionsStep == ASSUME IInv, ReadTransactions PROVE IInv'
<1>1. /\ DBInv /\ DBInv'
      /\ pc = "transactions" /\ pc' = "minimalBlock" /\ outcome = Running
      /\ UNCHANGED <<dbVars, request, overflow, minimalBlock, outcome, payment>>
      /\ found' = {row \in transactionTable : InWindow(row[1]) /\ Selected(row[2])}
      /\ q' = q
  BY DBUnchanged DEF IInv, ReadTransactions, NotFinished, q
<1>2. /\ firstTx \in Nat /\ lastTx \in Nat /\ indexed \in Nat
      /\ overflow.number \in Nat /\ q.minimalBlockNumber \in Nat
      /\ overflow.number - 1 <= indexed /\ indexed <= lastTx
      /\ Heights \subseteq Nat
  BY <1>1, RequestTyped, IndexerAssumption
     DEF IInv, TypeOK, DBInv, DBTypeOK, CompleteInv, Heights
<1>3. found' \in SUBSET (Heights \X Transactions)
  BY <1>1, TableRows
<1>4. ASSUME NEW n \in Heights, firstTx <= n, InWindow(n),
             NEW t \in ledger[n], Selected(t)
      PROVE  <<n, t>> \in found'
  <2>1. n \in firstTx..lastTx
    BY <1>2, <1>4 DEF InWindow
  <2>2. <<n, t>> \in transactionTable
    BY <1>1, <1>4, <2>1, TableRows
  <2> QED
    BY <1>1, <1>4, <2>2
<1>5. TypeOK'
  BY <1>1, <1>3 DEF IInv, TypeOK, dbVars, DBTypeOK
<1>6. FoundInv'
  BY <1>1, <1>4
     DEF FoundInv, FoundAll, InWindow, Selected, MemoSelected, TagSelected, dbVars
<1>7. OverflowInv' /\ CompleteInv'
  BY <1>1 DEF IInv, OverflowInv, CompleteInv, dbVars
<1> QED
  BY <1>1, <1>5, <1>6, <1>7
     DEF IInv, NotFinished, WindowInv, OutcomeInv, PaymentInv, NonexistenceSound, dbVars,
         Running

LEMMA ReadMinimalBlockStep == ASSUME IInv, ReadMinimalBlock PROVE IInv'
<1>1. /\ DBInv /\ DBInv'
      /\ pc = "minimalBlock" /\ pc' = "endBlock" /\ outcome = Running
      /\ UNCHANGED <<dbVars, request, overflow, found, outcome, payment>>
      /\ minimalBlock' \in queryBlock(q.minimalBlockNumber)
      /\ q' = q
  BY DBUnchanged DEF IInv, ReadMinimalBlock, NotFinished, q
<1>2. /\ firstTx \in Nat /\ firstBlock \in Nat /\ firstTx <= firstBlock
      /\ q.minimalBlockNumber \in Nat
      /\ firstBlock..lastBlock \subseteq Heights /\ Heights \subseteq Nat
  <2>1. q.minimalBlockNumber \in Nat
    BY RequestTyped DEF IInv, TypeOK
  <2>2. /\ firstTx \in Nat /\ firstBlock \in Nat \ {0}
        /\ lastBlock \in 0..MaxHeight
        /\ MaxHeight \in Nat
        /\ firstTx <= firstBlock
    BY <1>1, IndexerAssumption DEF DBInv, DBTypeOK
  <2> QED
    BY <2>1, <2>2 DEF Heights
<1>3. /\ q.minimalBlockNumber \in firstBlock..lastBlock =>
           minimalBlock' = BlockRow(q.minimalBlockNumber) /\ minimalBlock' # NoBlock
      /\ q.minimalBlockNumber \notin firstBlock..lastBlock => minimalBlock' = NoBlock
  BY <1>1, <1>2, BlockResult
<1>4. TypeOK'
  <2>1. NoBlock \in [number : Nat, timestamp : Nat, confirmed : BOOLEAN]
    BY DEF NoBlock
  <2>2. minimalBlock' \in [number : Nat, timestamp : Nat, confirmed : BOOLEAN]
    BY <1>2, <1>3, <2>1, BlockRowProps
  <2> QED
    BY <1>1, <2>2 DEF IInv, TypeOK, dbVars, DBTypeOK
<1>5. WindowInv'
  <2>1. SUFFICES ASSUME minimalBlock' # NoBlock
                 PROVE  WindowInv'
    BY DEF WindowInv
  <2>2. q.minimalBlockNumber \in firstBlock..lastBlock
    BY <1>3, <2>1
  <2>3. ASSUME NEW n \in Heights, InWindow(n)
        PROVE  FoundAll(n)
    <3>1. firstTx <= n
      BY <1>2, <2>2, <2>3 DEF InWindow
    <3> QED
      BY <1>1, <2>3, <3>1 DEF IInv, FoundInv
  <2> QED
    BY <1>1, <1>2, <1>3, <2>2, <2>3
       DEF WindowInv, FoundAll, InWindow, Selected, MemoSelected, TagSelected, dbVars
<1>6. OverflowInv' /\ CompleteInv'
  BY <1>1 DEF IInv, OverflowInv, CompleteInv, dbVars
<1> QED
  BY <1>1, <1>4, <1>5, <1>6
     DEF IInv, NotFinished, FoundInv, OutcomeInv, PaymentInv, NonexistenceSound, dbVars,
         Running

\* The response of a verification that found nothing to match.
LEMMA ValidStep ==
  ASSUME IInv, pc = "endBlock", minimalBlock # NoBlock,
         \A row \in found : ~Matches(row[2]),
         UNCHANGED <<dbVars, request, overflow, found, minimalBlock, payment>>,
         Return(Valid(MakeResponse(request, minimalBlock.timestamp,
           [minimalBlockTimestamp |-> minimalBlock.timestamp,
            firstOverflowBlockNumber |-> overflow.number,
            firstOverflowBlockTimestamp |-> overflow.timestamp])))
  PROVE  IInv'
<1> DEFINE r == MakeResponse(request, minimalBlock.timestamp,
                  [minimalBlockTimestamp |-> minimalBlock.timestamp,
                   firstOverflowBlockNumber |-> overflow.number,
                   firstOverflowBlockTimestamp |-> overflow.timestamp])
<1>1. /\ DBInv'
      /\ pc' = "done" /\ outcome' = Valid(r)
      /\ q' = q
  BY DBUnchanged DEF IInv, Return, q
<1>2. /\ minimalBlock.timestamp \in Nat
      /\ overflow.number \in Nat /\ overflow.timestamp \in Nat
      /\ q.minimalBlockNumber \in Nat /\ Heights \subseteq Nat
  BY RequestTyped, IndexerAssumption DEF IInv, TypeOK, Heights
<1>3. r \in XRPPaymentNonexistence_Response
  BY <1>2, NonexistenceResponseTyped DEF IInv, TypeOK
<1>4. /\ r.lowestUsedTimestamp = minimalBlock.timestamp
      /\ r.responseBody.firstOverflowBlockNumber = overflow.number
  BY DEF MakeResponse
<1>r. outcome'.response = {r} /\ outcome'.status = "VALID"
  BY <1>1 DEF Valid
<1> HIDE DEF r
<1>5. TypeOK'
  BY <1>1, <1>r, <1>3 DEF IInv, TypeOK, dbVars, DBTypeOK
<1>6. OutcomeInv'
  <2>1. /\ minimalBlock = BlockRow(q.minimalBlockNumber)
        /\ q.minimalBlockNumber \in Heights
    BY DEF IInv, WindowInv
  <2>2. minimalBlock.timestamp = Time[q.minimalBlockNumber]
    BY <2>1, BlockRowProps
  <2> QED
    BY <1>1, <1>r, <1>4, <2>2 DEF OutcomeInv
<1>7. NonexistenceSound'
  <2>1. ASSUME NEW n \in Heights, q.minimalBlockNumber <= n, n < overflow.number,
               NEW t \in ledger[n], Matches(t)
        PROVE  FALSE
    <3>1. InWindow(n)
      BY <1>2, <2>1 DEF InWindow
    <3>2. <<n, t>> \in found
      BY <2>1, <3>1, MatchesSelected DEF IInv, WindowInv, FoundAll
    <3> QED
      BY <2>1, <3>2
  <2> QED
    BY <1>1, <1>r, <1>4, <2>1
       DEF NonexistenceSound, Matches, MemoSelected, TagSelected, dbVars
<1> QED
  BY <1>1, <1>5, <1>6, <1>7
     DEF IInv, NotFinished, OverflowInv, CompleteInv, FoundInv, WindowInv, PaymentInv, dbVars

LEMMA ConcludeStep == ASSUME IInv, Conclude PROVE IInv'
<1>1. /\ pc = "endBlock" /\ pc' = "done"
      /\ UNCHANGED <<dbVars, request, overflow, found, minimalBlock, payment>>
  BY DEF Conclude, responseXRPPaymentNonexistence, Return
<1>2. CASE \E s \in {"BLOCK_AVAILABILITY_ISSUE", "INVALID_SEARCH_RANGE", "SYSTEM_FAILURE",
                     "REFERENCED_TRANSACTION_EXISTS"} : outcome' = Invalid(s)
  <2>1. PICK s \in {"BLOCK_AVAILABILITY_ISSUE", "INVALID_SEARCH_RANGE", "SYSTEM_FAILURE",
                    "REFERENCED_TRANSACTION_EXISTS"} : outcome' = Invalid(s)
    BY <1>2
  <2>2. TypeOK' /\ outcome'.response = {}
    BY <1>1, <2>1 DEF IInv, TypeOK, DBTypeOK, dbVars, Invalid
  <2> QED
    BY <1>1, <2>2, NoResponseStep
<1>3. CASE outcome' = Throws("INTERNAL_SERVER_ERROR")
  <2>1. TypeOK' /\ outcome'.response = {}
    BY <1>1, <1>3 DEF IInv, TypeOK, DBTypeOK, dbVars, Throws
  <2> QED
    BY <1>1, <2>1, NoResponseStep
<1>4. CASE /\ minimalBlock # NoBlock
           /\ \A row \in found : ~Matches(row[2])
           /\ Return(Valid(MakeResponse(request, minimalBlock.timestamp,
                [minimalBlockTimestamp |-> minimalBlock.timestamp,
                 firstOverflowBlockNumber |-> overflow.number,
                 firstOverflowBlockTimestamp |-> overflow.timestamp])))
  BY <1>1, <1>4, ValidStep
<1> QED
  BY <1>2, <1>3, <1>4
     DEF Conclude, responseXRPPaymentNonexistence, Return,
         verifyWorkflowForReferencedTransactions

LEMMA ReadFailsStep == ASSUME IInv, ReadFails PROVE IInv'
<1>1. /\ pc' = "done" /\ outcome' = Throws("INTERNAL_SERVER_ERROR")
      /\ UNCHANGED <<dbVars, request, overflow, found, minimalBlock, payment>>
  BY DEF ReadFails, Return
<1>2. TypeOK' /\ outcome'.response = {}
  BY <1>1 DEF IInv, TypeOK, DBTypeOK, dbVars, Throws
<1> QED
  BY <1>1, <1>2, NoResponseStep

\* Whatever an XRPPayment request finds is a payment of the ledger.
LEMMA VerifyXRPPaymentStep == ASSUME IInv, VerifyXRPPayment PROVE IInv'
<1>1. DBInv /\ DBInv' /\ UNCHANGED <<dbVars, requestVars>>
  BY DBUnchanged DEF IInv, VerifyXRPPayment
<1> DEFINE Statuses == {"none", "VALID", "INVALID", "MORE_THAN_ONE_OUTPUT",
             "TRANSACTION_AVAILABILITY_ISSUE"} \cup {PaymentStatus(s) : s \in PaymentSummaryStatus}
<1>2. /\ payment'.status \in Statuses
      /\ payment'.response \subseteq XRPPayment_Response
      /\ PaymentInv'
  <2>1. PICK t \in Transactions :
          \/ payment' = Invalid("TRANSACTION_AVAILABILITY_ISSUE")
          \/ \E row \in getConfirmedTransaction(t) : payment' = responseXRPPayment(row,
               [attestationType |-> "XRPPayment", sourceId |-> SourceId,
                requestBody |-> [transactionId |-> t]])
    BY DEF VerifyXRPPayment, verifyWorkflowForTransaction
  <2>2. CASE payment'.response = {} /\ payment'.status \in Statuses
    BY <2>2 DEF PaymentInv
  <2>3. CASE payment' = Invalid("TRANSACTION_AVAILABILITY_ISSUE")
    BY <2>2, <2>3 DEF Invalid
  <2>4. CASE \E row \in getConfirmedTransaction(t) : payment' = responseXRPPayment(row,
               [attestationType |-> "XRPPayment", sourceId |-> SourceId,
                requestBody |-> [transactionId |-> t]])
    <3> DEFINE rq == [attestationType |-> "XRPPayment", sourceId |-> SourceId,
                      requestBody |-> [transactionId |-> t]]
    <3>1. PICK row \in getConfirmedTransaction(t) : payment' = responseXRPPayment(row, rq)
      BY <2>4
    <3>2. PICK n \in Heights : \E u \in ledger[n] : row = <<n, u>>
      BY <1>1, <3>1, TableRows DEF getConfirmedTransaction
    <3>3. row = <<n, t>> /\ t \in ledger[n]
      BY <3>1, <3>2 DEF getConfirmedTransaction
    <3>4. t.payment \in PaymentSummaryStatus
      BY XrpRequestsAssumption DEF XrpTransaction
    <3> HIDE DEF rq
    <3>5. CASE payment' = Throws("INTERNAL_SERVER_ERROR")
      BY <2>2, <3>5 DEF Throws
    <3>6. CASE payment' = Invalid("INVALID") \/ payment' = Invalid("MORE_THAN_ONE_OUTPUT")
      BY <2>2, <3>6 DEF Invalid
    <3>7. CASE payment' = Invalid(PaymentStatus(t.payment))
      BY <2>2, <3>4, <3>7 DEF Invalid
    <3>8. CASE /\ t.payment = "Success" /\ t.toOne
               /\ payment' = Valid(MakeResponse(rq, unixTimestamp(row), XRPPaymentBody(row)))
      <4>1. XRPPaymentBody(<<n, t>>) \in XRPPayment_ResponseBody /\ unixTimestamp(<<n, t>>) \in Nat
        BY BodyTyped
      <4> DEFINE r == MakeResponse(rq, unixTimestamp(<<n, t>>), XRPPaymentBody(<<n, t>>))
      <4>2. r \in XRPPayment_Response
        BY <4>1, XrpRequestsAssumption, ServiceAssumption
           DEF MakeResponse, XRPPayment_Response, AttestationType_Response,
               XRPPayment_RequestBody, rq
      <4>3. /\ r.responseBody = XRPPaymentBody(<<n, t>>)
            /\ r.lowestUsedTimestamp = unixTimestamp(<<n, t>>)
        BY DEF MakeResponse
      <4>4. payment'.response = {r} /\ payment'.status = "VALID"
        BY <3>3, <3>8 DEF Valid
      <4> HIDE DEF r
      <4>5. PaymentInv'
        BY <1>1, <3>3, <3>8, <4>3, <4>4 DEF PaymentInv, dbVars
      <4> QED
        BY <4>2, <4>4, <4>5
    <3> QED
      BY <3>1, <3>3, <3>5, <3>6, <3>7, <3>8 DEF responseXRPPayment
  <2> QED
    BY <2>1, <2>3, <2>4
<1>3. TypeOK'
  BY <1>1, <1>2 DEF IInv, TypeOK, DBTypeOK, dbVars, requestVars
<1> QED
  BY <1>1, <1>2, <1>3
     DEF IInv, NotFinished, OverflowInv, CompleteInv, FoundInv, FoundAll, WindowInv,
         OutcomeInv, NonexistenceSound, InWindow, Selected, Matches, MemoSelected,
         TagSelected, q, dbVars, requestVars

-----------------------------------------------------------------------------
(* The theorems *)

LEMMA NextIInv == IInv /\ [Next]_vars => IInv'
<1> SUFFICES ASSUME IInv, [Next]_vars PROVE IInv'
  OBVIOUS
<1>1. CASE VerifyNonexistence
  BY <1>1, VerifyNonexistenceStep
<1>2. CASE ReadOverflowBlock
  BY <1>2, ReadOverflowBlockStep
<1>3. CASE ReadLastConfirmed
  BY <1>3, ReadLastConfirmedStep
<1>4. CASE ReadTransactions
  BY <1>4, ReadTransactionsStep
<1>5. CASE ReadMinimalBlock
  BY <1>5, ReadMinimalBlockStep
<1>6. CASE Conclude
  BY <1>6, ConcludeStep
<1>7. CASE ReadFails
  BY <1>7, ReadFailsStep
<1>8. CASE VerifyXRPPayment
  BY <1>8, VerifyXRPPaymentStep
<1>9. CASE Indexer /\ UNCHANGED <<requestVars, payment>>
  BY <1>9, IndexerStep
<1>10. CASE UNCHANGED vars
  BY <1>10, StutterStep
<1> QED
  BY <1>1, <1>2, <1>3, <1>4, <1>5, <1>6, <1>7, <1>8, <1>9, <1>10 DEF Next, Verifier

LEMMA AlwaysIInv == Spec => []IInv
BY InitIInv, NextIInv, PTL DEF Spec

\* Tables, registers and both outcomes keep their types.
THEOREM TypeCorrect == Spec => []TypeOK
<1>1. IInv => TypeOK
  BY DEF IInv
<1> QED
  BY <1>1, AlwaysIInv, PTL

\* A payment is only attested not to exist if the ledger does not hold it in
\* the window, however the indexer wrote and dropped rows between the reads.
THEOREM NonexistenceIsSound == Spec => []NonexistenceSound
<1>1. IInv => NonexistenceSound
  BY DEF IInv
<1> QED
  BY <1>1, AlwaysIInv, PTL

\* No server confirms both a payment and its absence: the payment an
\* XRPPayment response shows would match in the loop of the nonexistence.
THEOREM PaymentsAndAbsenceAgree == Spec => []NoContradiction
<1>1. ASSUME IInv PROVE NoContradiction
  <2> SUFFICES ASSUME NEW r \in outcome.response, NEW p \in payment.response,
                      Meets(p.responseBody, r.responseBody)
               PROVE  FALSE
    BY DEF NoContradiction
  <2>1. PICK n \in Heights : \E t \in ledger[n] :
          /\ t \in Transactions
          /\ t.payment = "Success" /\ t.toOne
          /\ p.responseBody = XRPPaymentBody(<<n, t>>)
    BY <1>1 DEF IInv, PaymentInv
  <2>2. PICK t \in ledger[n] :
          /\ t \in Transactions
          /\ t.payment = "Success" /\ t.toOne
          /\ p.responseBody = XRPPaymentBody(<<n, t>>)
    BY <2>1
  <2>3. /\ p.responseBody.blockNumber = n
        /\ p.responseBody.intendedReceivingAddressHash = t.intendedReceivingAddressHash
        /\ p.responseBody.intendedReceivedAmount = t.intendedReceivingAmount
        /\ p.responseBody.firstMemoData = t.memoData
        /\ p.responseBody.hasDestinationTag = (t.destinationTag # {})
        /\ p.responseBody.destinationTag =
             IF t.destinationTag = {} THEN 0 ELSE CHOOSE tag \in t.destinationTag : TRUE
        /\ p.responseBody.status = t.successStatus
    BY <2>2 DEF XRPPaymentBody
  <2>4. q.checkDestinationTag => q.destinationTag \in t.destinationTag
    BY <2>3 DEF Meets
  <2>5. q.checkFirstMemoData => q.firstMemoDataHash \in t.memoData
    BY <2>3 DEF Meets
  <2>6. Matches(t)
    BY <2>2, <2>3, <2>4, <2>5 DEF Meets, Matches, MemoSelected, TagSelected
  <2> QED
    BY <1>1, <2>2, <2>3, <2>6 DEF IInv, NonexistenceSound, Meets
<1> QED
  BY <1>1, AlwaysIInv, PTL

\* The lowest used timestamp of both responses is a time of the final ledger;
\* of a payment's, from the fork on.
THEOREM LowestUsedTimestampIsFinal == Spec => []LowestUsedIsFinal
<1>1. ASSUME IInv PROVE LowestUsedIsFinal
  <2>1. ASSUME NEW p \in payment.response,
               p.responseBody.blockTimestamp >= LUT_FORK_TIMESTAMP
        PROVE  p.lowestUsedTimestamp = Time[p.responseBody.blockNumber]
    <3>1. PICK n \in Heights : \E t \in ledger[n] :
            /\ p.responseBody = XRPPaymentBody(<<n, t>>)
            /\ p.lowestUsedTimestamp = unixTimestamp(<<n, t>>)
      BY <1>1 DEF IInv, PaymentInv
    <3>2. p.responseBody.blockNumber = n /\ p.responseBody.blockTimestamp = Time[n]
      BY <3>1 DEF XRPPaymentBody
    <3>3. Time[n] \in Nat /\ LUT_FORK_TIMESTAMP \in Nat
      BY IndexerAssumption, PaymentAssumption
    <3> QED
      BY <2>1, <3>1, <3>2, <3>3 DEF unixTimestamp
  <2> QED
    BY <1>1, <2>1 DEF LowestUsedIsFinal, IInv, OutcomeInv
<1> QED
  BY <1>1, AlwaysIInv, PTL
=============================================================================
