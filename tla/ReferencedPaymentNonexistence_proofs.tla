---------------- MODULE ReferencedPaymentNonexistence_proofs ----------------
(***************************************************************************)
(* The safety properties of ReferencedPaymentNonexistence, for every       *)
(* chain, request, source and bound.                                       *)
(*                                                                         *)
(* The invariant says, read by read, what the verification knows of the    *)
(* chain.  The tables only grow at the top and shrink at the bottom, so    *)
(* what was read below the state's height stays true; that the minimal     *)
(* block is still there after the transactions were read shows that none   *)
(* of the window had been dropped when they were.                          *)
(***************************************************************************)
EXTENDS ReferencedPaymentNonexistence, IndexedQueryManager_proofs

NotFinished == pc # "done" => verdict = "none"

\* The block read first is final, and overflows first among the stored ones.
OverflowInv ==
  pc \in {"lastConfirmed", "transactions", "minimalBlock", "endBlock"} =>
    /\ overflow.number \in Heights
    /\ overflow.number <= lastBlock
    /\ overflow = BlockRow(overflow.number)
    /\ IsOverflow(overflow, request)
    /\ \A n \in Heights :
         firstBlock <= n /\ n < overflow.number => ~IsOverflow(BlockRow(n), request)

CompleteInv ==
  pc \in {"transactions", "minimalBlock", "endBlock"} => overflow.number - 1 <= indexed

\* All transactions of block n that the query selects were found.
FoundAll(n) == \A t \in ledger[n] : Selected(t, request) => <<n, t>> \in found

FoundInv ==
  /\ pc \in {"minimalBlock", "endBlock"} =>
       \A row \in found :
         /\ row[1] \in Heights
         /\ InWindow(row[1])
         /\ row[2] \in ledger[row[1]]
         /\ Selected(row[2], request)
  /\ pc = "minimalBlock" =>
       \A n \in Heights : firstTx <= n /\ InWindow(n) => FoundAll(n)

WindowInv ==
  pc = "endBlock" /\ minimalBlock # NoBlock =>
    /\ minimalBlock = BlockRow(request.minimal)
    /\ request.minimal \in Heights
    /\ \A n \in Heights : InWindow(n) =>
         /\ FoundAll(n)
         /\ ~IsOverflow(BlockRow(n), request)

\* k is the first overflow block stored, and the answer is in the database.
AnswerAt(k) ==
  /\ k \in firstBlock..lastBlock
  /\ IsOverflow(BlockRow(k), request)
  /\ \A n \in firstBlock..lastBlock : IsOverflow(BlockRow(n), request) => k <= n
  /\ k - 1 <= indexed
  /\ request.minimal \in firstBlock..(k - 1)

\* An answer that was there stays until the minimal block is dropped.
AnswerInv ==
  answerable /\ firstBlock <= request.minimal =>
    /\ pc = "idle" => FALSE
    /\ pc = "overflowBlock" => \E k \in Heights : AnswerAt(k)
    /\ pc \in {"lastConfirmed", "transactions", "minimalBlock", "endBlock"} =>
         overflow.number - 1 <= indexed /\ request.minimal < overflow.number
    /\ pc = "endBlock" => minimalBlock # NoBlock

IInv ==
  /\ TypeOK
  /\ DBInv
  /\ NotFinished
  /\ OverflowInv
  /\ CompleteInv
  /\ FoundInv
  /\ WindowInv
  /\ AnswerInv
  /\ NonexistenceSound
  /\ ExistenceSound
  /\ ResponseFinal
  /\ UnavailabilityJustified

-----------------------------------------------------------------------------
(* What the queries return *)

\* An answerable request has a first overflow block in the database.
LEMMA AnswerableMeans ==
  ASSUME DBInv, Answerable(request)
  PROVE  \E k \in Heights : AnswerAt(k)
<1>1. PICK f \in getFirstConfirmedOverflowBlock(request) :
        /\ f # NoBlock
        /\ f.number - 1 <= indexed
        /\ request.minimal \in firstBlock..(f.number - 1)
  BY DEF Answerable
<1> QED
  BY <1>1, OverflowResult DEF AnswerAt

\* If there is one, the overflow query returns it.
LEMMA OverflowFound ==
  ASSUME DBInv, NEW k \in Heights, AnswerAt(k),
         NEW b \in getFirstConfirmedOverflowBlock(request)
  PROVE  b = BlockRow(k) /\ b # NoBlock
<1>1. firstBlock..lastBlock \subseteq Heights
  BY IndexerAssumption DEF DBInv, DBTypeOK, Heights
<1>2. /\ BlockRow(k) \in confirmedBlocks
      /\ IsOverflow(BlockRow(k), request)
      /\ \A c \in confirmedBlocks : IsOverflow(c, request) => BlockRow(k).number <= c.number
  BY <1>1, ConfirmedBlocks, BlockRowProps DEF AnswerAt
<1>3. b \in {c \in confirmedBlocks :
               /\ IsOverflow(c, request)
               /\ \A d \in confirmedBlocks : IsOverflow(d, request) => c.number <= d.number}
  BY <1>2 DEF getFirstConfirmedOverflowBlock, getOne
<1>4. PICK n \in firstBlock..lastBlock : b = BlockRow(n)
  BY <1>3, ConfirmedBlocks
<1>5. n <= k /\ k <= n
  BY <1>1, <1>2, <1>3, <1>4, BlockRowProps
<1>6. n = k
  BY <1>5, <1>4, <1>1 DEF Heights
<1> QED
  BY <1>4, <1>6, BlockRowProps

-----------------------------------------------------------------------------
(* The indexer *)

\* An answer in the database survives until the minimal block is dropped.
LEMMA AnswerStays ==
  ASSUME DBInv, Indexer, UNCHANGED requestVars, request \in Requests,
         NEW k \in Heights, AnswerAt(k), firstBlock' <= request.minimal
  PROVE  AnswerAt(k)'
<1>1. /\ firstBlock <= firstBlock' /\ lastBlock <= lastBlock' /\ indexed <= indexed'
      /\ DBInv'
  BY IndexerMoves
<1>2. /\ firstBlock \in Nat /\ firstBlock' \in Nat /\ lastBlock \in Nat /\ lastBlock' \in Nat
      /\ indexed \in Nat /\ indexed' \in Nat /\ k \in Nat /\ request.minimal \in Nat
  BY <1>1, IndexerAssumption, RequestAssumption DEF DBInv, DBTypeOK, Heights, RequestType
<1>3. request' = request
  BY DEF requestVars
<1>4. ASSUME NEW n \in firstBlock'..lastBlock', IsOverflow(BlockRow(n), request)
      PROVE  k <= n
  <2>1. CASE n <= lastBlock
    BY <1>1, <1>2, <1>4, <2>1 DEF AnswerAt
  <2>2. CASE n > lastBlock
    BY <1>1, <1>2, <1>4, <2>2 DEF AnswerAt
  <2> QED
    BY <2>1, <2>2, <1>2
<1> QED
  BY <1>1, <1>2, <1>3, <1>4 DEF AnswerAt

\* The indexer invalidates nothing that the verification knows.
LEMMA IndexerStep ==
  ASSUME IInv, Indexer, UNCHANGED requestVars
  PROVE  IInv'
<1>1. /\ DBInv'
      /\ ledger' = ledger
      /\ firstTx <= firstTx' /\ firstBlock <= firstBlock'
      /\ lastBlock <= lastBlock' /\ indexed <= indexed'
  BY IndexerMoves DEF IInv
<1>2. /\ pc' = pc /\ request' = request /\ overflow' = overflow /\ found' = found
      /\ minimalBlock' = minimalBlock /\ verdict' = verdict
      /\ answerable' = answerable /\ failed' = failed
  BY DEF requestVars
<1>3. /\ firstBlock \in Nat /\ firstBlock' \in Nat /\ lastBlock \in Nat /\ lastBlock' \in Nat
      /\ firstTx \in Nat /\ firstTx' \in Nat
      /\ indexed \in Nat /\ indexed' \in Nat /\ request.minimal \in Nat
      /\ overflow.number \in Nat
      /\ Heights \subseteq Nat
  BY <1>1, IndexerAssumption, RequestAssumption
     DEF IInv, DBInv, DBTypeOK, TypeOK, Heights, RequestType
<1>4. TypeOK' /\ NotFinished'
  BY <1>1, <1>2 DEF IInv, TypeOK, DBInv, NotFinished
<1>5. OverflowInv'
  BY <1>1, <1>2, <1>3 DEF IInv, OverflowInv
<1>6. CompleteInv'
  BY <1>1, <1>2, <1>3 DEF IInv, CompleteInv
<1>7. FoundInv' /\ WindowInv'
  BY <1>1, <1>2, <1>3 DEF IInv, FoundInv, WindowInv, FoundAll, InWindow
<1>8. AnswerInv'
  <2>1. SUFFICES ASSUME answerable, firstBlock' <= request.minimal
                 PROVE  AnswerInv'
    BY <1>2 DEF AnswerInv
  <2>2. firstBlock <= request.minimal
    BY <1>1, <1>3, <2>1
  <2>3. ASSUME pc = "overflowBlock" PROVE (\E k \in Heights : AnswerAt(k))'
    <3>1. PICK k \in Heights : AnswerAt(k)
      BY <2>1, <2>2, <2>3 DEF IInv, AnswerInv
    <3>2. AnswerAt(k)'
      BY <3>1, <2>1, AnswerStays DEF IInv, TypeOK
    <3> QED
      BY <3>2 DEF Heights
  <2> QED
    BY <1>1, <1>2, <1>3, <2>1, <2>2, <2>3 DEF IInv, AnswerInv
<1>9. NonexistenceSound' /\ ExistenceSound'
  BY <1>1, <1>2 DEF IInv, NonexistenceSound, ExistenceSound, InWindow,
                    IsReferencedPayment
<1>10. ResponseFinal'
  BY <1>2 DEF IInv, ResponseFinal
<1>11. UnavailabilityJustified'
  BY <1>1, <1>2, <1>3 DEF IInv, UnavailabilityJustified
<1> QED
  BY <1>1, <1>4, <1>5, <1>6, <1>7, <1>8, <1>9, <1>10, <1>11 DEF IInv

-----------------------------------------------------------------------------
(* The verification, one lemma per step *)

LEMMA InitIInv == Init => IInv
<1> SUFFICES ASSUME Init PROVE IInv
  OBVIOUS
<1>3. DBInv
  BY DBInitInv DEF Init
<1>4. NoBlock \in [number : Nat, timestamp : Nat, confirmed : BOOLEAN]
  BY DEF NoBlock
<1>5. TypeOK
  BY <1>3, <1>4 DEF Init, TypeOK, DBInv
<1> QED
  BY <1>3, <1>5
     DEF Init, IInv, NotFinished, OverflowInv, CompleteInv, FoundInv, WindowInv,
         AnswerInv, NonexistenceSound, ExistenceSound, ResponseFinal,
         UnavailabilityJustified

\* Verdicts other than the three that the properties speak of end it all.
LEMMA OtherVerdict ==
  ASSUME IInv, UNCHANGED dbVars, TypeOK', pc' = "done",
         verdict' \notin {"VALID", "REFERENCED_TRANSACTION_EXISTS",
                          "BLOCK_AVAILABILITY_ISSUE"}
  PROVE  IInv'
<1>1. DBInv'
  BY DBUnchanged DEF IInv
<1> QED
  BY <1>1 DEF IInv, NotFinished, OverflowInv, CompleteInv, FoundInv, WindowInv,
              AnswerInv, NonexistenceSound, ExistenceSound, ResponseFinal,
              UnavailabilityJustified

\* A justified verdict of unavailability does so, too.
LEMMA UnavailableVerdict ==
  ASSUME IInv, UNCHANGED dbVars, TypeOK', pc' = "done",
         verdict' = "BLOCK_AVAILABILITY_ISSUE", UnavailabilityJustified'
  PROVE  IInv'
<1>1. DBInv'
  BY DBUnchanged DEF IInv
<1> QED
  BY <1>1 DEF IInv, NotFinished, OverflowInv, CompleteInv, FoundInv, WindowInv,
              AnswerInv, NonexistenceSound, ExistenceSound, ResponseFinal

LEMMA VerifyStep == ASSUME IInv, Verify PROVE IInv'
<1>1. DBInv' /\ DBInv
  BY DBUnchanged DEF IInv, Verify
<1>2. TypeOK'
  BY DEF IInv, TypeOK, Verify, dbVars, DBTypeOK, Return, Verdicts, Answerable
<1>3. CASE pc' = "done"
  <2>1. verdict' \in {"ZERO_PAYMENT_REFERENCE_UNSUPPORTED", "INVALID_SEARCH_RANGE"}
    BY <1>3 DEF Verify, Return
  <2> QED
    BY <1>2, <1>3, <2>1, OtherVerdict DEF Verify
<1>4. CASE pc' = "overflowBlock"
  <2>1. /\ pc = "idle" /\ verdict = "none" /\ UNCHANGED <<dbVars, request, verdict>>
        /\ answerable' = Answerable(request)
    BY <1>4 DEF Verify, Return, IInv, NotFinished
  <2>2. answerable' => \E k \in Heights : AnswerAt(k)
    BY <1>1, <2>1, AnswerableMeans
  <2>3. answerable' => (\E k \in Heights : AnswerAt(k))'
    BY <2>1, <2>2 DEF AnswerAt, dbVars
  <2> QED
    BY <1>1, <1>2, <1>4, <2>1, <2>3
       DEF IInv, NotFinished, OverflowInv, CompleteInv, FoundInv, WindowInv,
           AnswerInv, NonexistenceSound, ExistenceSound, ResponseFinal,
           UnavailabilityJustified
<1> QED
  BY <1>3, <1>4 DEF Verify, Return

LEMMA ReadOverflowBlockStep == ASSUME IInv, ReadOverflowBlock PROVE IInv'
<1>1. /\ DBInv' /\ DBInv
      /\ pc = "overflowBlock" /\ verdict = "none"
      /\ UNCHANGED <<dbVars, request, found, minimalBlock, answerable, failed>>
      /\ overflow' \in getFirstConfirmedOverflowBlock(request)
  BY DBUnchanged DEF IInv, ReadOverflowBlock, NotFinished
<1>2. overflow' # NoBlock =>
        /\ overflow'.number \in firstBlock..lastBlock
        /\ overflow'.number \in Heights
        /\ overflow' = BlockRow(overflow'.number)
        /\ IsOverflow(overflow', request)
        /\ \A n \in firstBlock..lastBlock :
             IsOverflow(BlockRow(n), request) => overflow'.number <= n
  BY <1>1, OverflowResult
<1>3. overflow' \in [number : Nat, timestamp : Nat, confirmed : BOOLEAN]
  <2>1. NoBlock \in [number : Nat, timestamp : Nat, confirmed : BOOLEAN]
    BY DEF NoBlock
  <2> QED
    BY <1>2, <2>1, BlockRowProps
<1>4. TypeOK'
  BY <1>1, <1>3 DEF IInv, TypeOK, ReadOverflowBlock, dbVars, DBTypeOK, Return, Verdicts,
                    verifyWorkflowForReferencedTransactions
<1>5. answerable /\ firstBlock <= request.minimal =>
        /\ overflow' # NoBlock
        /\ overflow'.number - 1 <= indexed
        /\ request.minimal < overflow'.number
  <2> SUFFICES ASSUME answerable, firstBlock <= request.minimal
               PROVE  /\ overflow' # NoBlock
                      /\ overflow'.number - 1 <= indexed
                      /\ request.minimal < overflow'.number
    OBVIOUS
  <2>1. PICK k \in Heights : AnswerAt(k)
    BY <1>1 DEF IInv, AnswerInv
  <2>2. overflow' = BlockRow(k) /\ overflow' # NoBlock
    BY <1>1, <2>1, OverflowFound
  <2>3. overflow'.number = k /\ k \in Nat
    BY <2>1, <2>2, BlockRowProps, IndexerAssumption DEF Heights
  <2> QED
    BY <1>1, <2>1, <2>2, <2>3, RequestAssumption
       DEF AnswerAt, IInv, DBInv, DBTypeOK, TypeOK, RequestType
<1>6. CASE overflow' = NoBlock
  <2>1. pc' = "done" /\ verdict' = "BLOCK_AVAILABILITY_ISSUE"
    BY <1>6 DEF ReadOverflowBlock, Return, verifyWorkflowForReferencedTransactions
  <2>2. ~answerable \/ request.minimal < firstBlock
    BY <1>1, <1>5, <1>6, RequestAssumption
       DEF IInv, DBInv, DBTypeOK, TypeOK, RequestType
  <2> QED
    BY <1>1, <1>4, <2>1, <2>2, UnavailableVerdict DEF UnavailabilityJustified, dbVars
<1>7. CASE overflow' # NoBlock
  <2>1. pc' = "lastConfirmed" /\ UNCHANGED verdict
    BY <1>7 DEF ReadOverflowBlock
  <2>2. OverflowInv'
    <3>1. /\ overflow'.number <= lastBlock
          /\ \A n \in Heights : firstBlock <= n /\ n < overflow'.number
               => n \in firstBlock..lastBlock /\ ~(overflow'.number <= n)
      BY <1>1, <1>2, <1>7, IndexerAssumption DEF Heights, DBInv, DBTypeOK
    <3> QED
      BY <1>1, <1>2, <1>7, <3>1 DEF OverflowInv, dbVars
  <2>3. AnswerInv'
    BY <1>1, <1>5, <2>1 DEF AnswerInv, dbVars
  <2> QED
    BY <1>1, <1>4, <2>1, <2>2, <2>3
       DEF IInv, NotFinished, CompleteInv, FoundInv, WindowInv,
           NonexistenceSound, ExistenceSound, ResponseFinal, UnavailabilityJustified
<1> QED
  BY <1>6, <1>7

\* The height compared is the state's, or 0 and a failed read remembered.
LEMMA CompareLastConfirmedStep ==
  ASSUME IInv, pc = "lastConfirmed", NEW last \in Nat, CompareLastConfirmed(last),
         \/ last = indexed /\ UNCHANGED failed
         \/ last = 0 /\ failed' = TRUE
  PROVE  IInv'
<1>1. /\ DBInv' /\ DBInv
      /\ verdict = "none"
      /\ UNCHANGED <<dbVars, request, overflow, found, minimalBlock, answerable>>
  BY DBUnchanged DEF IInv, CompareLastConfirmed, NotFinished
<1>2. /\ overflow.number \in Nat /\ indexed \in Nat /\ firstBlock \in Nat
      /\ request.minimal \in Nat
  BY <1>1, RequestAssumption DEF IInv, TypeOK, DBInv, DBTypeOK, RequestType
<1>3. TypeOK'
  BY <1>1 DEF IInv, TypeOK, CompareLastConfirmed, dbVars, DBTypeOK, Return, Verdicts,
              verifyWorkflowForReferencedTransactions
<1>4. CASE Incomplete(last)
  <2>1. pc' = "done" /\ verdict' = "BLOCK_AVAILABILITY_ISSUE"
    BY <1>4, <1>1, <1>2
       DEF CompareLastConfirmed, Return, verifyWorkflowForReferencedTransactions
  <2>2. UnavailabilityJustified'
    BY <1>1, <1>2, <1>4 DEF UnavailabilityJustified, IInv, AnswerInv, Incomplete, dbVars
  <2> QED
    BY <1>1, <1>3, <2>1, <2>2, UnavailableVerdict
<1>5. CASE ~Incomplete(last)
  <2>1. pc' = "transactions" /\ UNCHANGED verdict
    BY <1>5 DEF CompareLastConfirmed
  <2>2. overflow.number - 1 <= indexed
    BY <1>2, <1>5 DEF Incomplete
  <2>3. OverflowInv' /\ CompleteInv' /\ AnswerInv'
    BY <1>1, <2>1, <2>2 DEF IInv, OverflowInv, CompleteInv, AnswerInv, dbVars
  <2> QED
    BY <1>1, <1>3, <2>1, <2>3
       DEF IInv, NotFinished, FoundInv, WindowInv, NonexistenceSound,
           ExistenceSound, ResponseFinal, UnavailabilityJustified
<1> QED
  BY <1>4, <1>5

LEMMA ReadTransactionsStep == ASSUME IInv, ReadTransactions PROVE IInv'
<1>1. /\ DBInv' /\ DBInv
      /\ pc = "transactions" /\ pc' = "minimalBlock" /\ verdict = "none"
      /\ UNCHANGED <<dbVars, request, overflow, minimalBlock, verdict, answerable, failed>>
      /\ found' = {row \in transactionTable : InWindow(row[1]) /\ Selected(row[2], request)}
  BY DBUnchanged DEF IInv, ReadTransactions, NotFinished
<1>2. /\ firstTx \in Nat \ {0} /\ lastTx \in Nat /\ indexed \in Nat /\ MaxHeight \in Nat
      /\ lastTx <= MaxHeight /\ overflow.number \in Nat /\ request.minimal \in Nat
      /\ overflow.number - 1 <= indexed /\ indexed <= lastTx
      /\ ledger \in [Heights -> SUBSET Transactions]
  BY <1>1, RequestAssumption, IndexerAssumption
     DEF IInv, TypeOK, DBInv, DBTypeOK, RequestType, CompleteInv
<1>3. ASSUME NEW n, NEW t
      PROVE  <<n, t>> \in transactionTable <=> n \in firstTx..lastTx /\ t \in ledger[n]
  BY DEF transactionTable
<1>4. firstTx..lastTx \subseteq Heights
  BY <1>2 DEF Heights
<1>5. ASSUME NEW row \in found'
      PROVE  /\ row \in Heights \X Transactions
             /\ InWindow(row[1])
             /\ row[2] \in ledger[row[1]]
             /\ Selected(row[2], request)
  <2>1. PICK n \in firstTx..lastTx : \E t \in ledger[n] : row = <<n, t>>
    BY <1>1, <1>5 DEF transactionTable
  <2>2. PICK t \in ledger[n] : row = <<n, t>>
    BY <2>1
  <2>3. n \in Heights /\ t \in Transactions
    BY <1>2, <1>4, <2>2
  <2> QED
    BY <1>1, <1>5, <2>2, <2>3
<1>6. ASSUME NEW n \in Heights, firstTx <= n, InWindow(n),
             NEW t \in ledger[n], Selected(t, request)
      PROVE  <<n, t>> \in found'
  <2>1. n \in firstTx..lastTx
    BY <1>2, <1>6 DEF InWindow, Heights
  <2>2. <<n, t>> \in transactionTable
    BY <1>3, <1>6, <2>1
  <2> QED
    BY <1>1, <1>6, <2>2
<1>7. TypeOK'
  <2>1. found' \in SUBSET (Heights \X Transactions)
    BY <1>5
  <2> QED
    BY <1>1, <2>1 DEF IInv, TypeOK, dbVars, DBTypeOK
<1>8. FoundInv'
  BY <1>1, <1>5, <1>6 DEF FoundInv, FoundAll, InWindow, Selected, dbVars
<1>9. OverflowInv' /\ CompleteInv' /\ AnswerInv'
  BY <1>1 DEF IInv, OverflowInv, CompleteInv, AnswerInv, dbVars
<1> QED
  BY <1>1, <1>7, <1>8, <1>9
     DEF IInv, NotFinished, WindowInv, NonexistenceSound, ExistenceSound,
         ResponseFinal, UnavailabilityJustified

LEMMA ReadMinimalBlockStep == ASSUME IInv, ReadMinimalBlock PROVE IInv'
<1>1. /\ DBInv' /\ DBInv
      /\ pc = "minimalBlock" /\ pc' = "endBlock" /\ verdict = "none"
      /\ UNCHANGED <<dbVars, request, overflow, found, verdict, answerable, failed>>
      /\ minimalBlock' \in queryBlock(request.minimal)
  BY DBUnchanged DEF IInv, ReadMinimalBlock, NotFinished
<1>2. /\ firstTx \in Nat /\ firstBlock \in Nat \ {0} /\ firstTx <= firstBlock
      /\ lastBlock \in Nat /\ lastBlock <= MaxHeight /\ MaxHeight \in Nat
      /\ overflow.number \in Nat /\ request.minimal \in Nat
      /\ overflow.number <= lastBlock
  BY <1>1, RequestAssumption, IndexerAssumption
     DEF IInv, TypeOK, DBInv, DBTypeOK, RequestType, OverflowInv
<1>3. /\ request.minimal \in firstBlock..lastBlock =>
           minimalBlock' = BlockRow(request.minimal) /\ minimalBlock' # NoBlock
      /\ request.minimal \notin firstBlock..lastBlock => minimalBlock' = NoBlock
  BY <1>1, <1>2, BlockResult
<1>4. firstBlock..lastBlock \subseteq Heights
  BY <1>2 DEF Heights
<1>5. TypeOK'
  <2>1. minimalBlock' \in [number : Nat, timestamp : Nat, confirmed : BOOLEAN]
    <3>1. NoBlock \in [number : Nat, timestamp : Nat, confirmed : BOOLEAN]
      BY DEF NoBlock
    <3> QED
      BY <1>3, <1>4, <3>1, BlockRowProps
  <2> QED
    BY <1>1, <2>1 DEF IInv, TypeOK, dbVars, DBTypeOK
<1>6. WindowInv'
  <2>1. SUFFICES ASSUME minimalBlock' # NoBlock
                 PROVE  WindowInv'
    BY DEF WindowInv
  <2>2. request.minimal \in firstBlock..lastBlock
    BY <1>3, <2>1
  <2>3. ASSUME NEW n \in Heights, InWindow(n)
        PROVE  FoundAll(n) /\ ~IsOverflow(BlockRow(n), request)
    <3>1. n \in Nat /\ firstTx <= n /\ firstBlock <= n /\ n < overflow.number
      BY <1>2, <2>2, <2>3, IndexerAssumption DEF InWindow, Heights
    <3> QED
      BY <1>1, <2>3, <3>1 DEF IInv, FoundInv, OverflowInv
  <2> QED
    BY <1>1, <1>3, <1>4, <2>2, <2>3 DEF WindowInv, FoundAll, InWindow, dbVars
<1>7. AnswerInv'
  <2>1. answerable /\ firstBlock <= request.minimal => minimalBlock' # NoBlock
    BY <1>1, <1>2, <1>3 DEF IInv, AnswerInv
  <2> QED
    BY <1>1, <2>1 DEF IInv, AnswerInv, dbVars
<1>8. OverflowInv' /\ CompleteInv'
  BY <1>1 DEF IInv, OverflowInv, CompleteInv, dbVars
<1>9. FoundInv'
  BY <1>1 DEF IInv, FoundInv, InWindow, dbVars
<1> QED
  BY <1>1, <1>5, <1>6, <1>7, <1>8, <1>9
     DEF IInv, NotFinished, NonexistenceSound, ExistenceSound, ResponseFinal,
         UnavailabilityJustified

\* What the transaction class accepts and the query's exact conditions hold
\* for is a referenced payment, and the query misses none of those.
LEMMA PaymentsSelected ==
  ASSUME NEW t
  PROVE  IsReferencedPayment(t) <=> Selected(t, request) /\ Matches(t)
BY DEF IsReferencedPayment, Selected, Matches

LEMMA ConcludeStep == ASSUME IInv, Conclude PROVE IInv'
<1>1. /\ DBInv' /\ DBInv
      /\ pc = "endBlock" /\ pc' = "done" /\ verdict = "none"
      /\ UNCHANGED <<dbVars, request, overflow, found, minimalBlock, answerable, failed>>
  BY DBUnchanged DEF IInv, Conclude, CheckTransactions, Return, NotFinished
<1>2. /\ overflow.number \in Nat /\ request.minimal \in Nat /\ request.deadline \in Nat
      /\ firstBlock \in Nat /\ MaxHeight \in Nat
      /\ found \subseteq Heights \X Transactions
  BY <1>1, RequestAssumption, IndexerAssumption
     DEF IInv, TypeOK, DBInv, DBTypeOK, RequestType
<1>3. TypeOK'
  <2>1. verdict' \in Verdicts
    BY DEF Conclude, CheckTransactions, Return, Verdicts,
           verifyWorkflowForReferencedTransactions
  <2> QED
    BY <1>1, <2>1 DEF IInv, TypeOK, dbVars, DBTypeOK
<1>4. CASE verdict' = "BLOCK_AVAILABILITY_ISSUE"
  <2>1. minimalBlock = NoBlock
    BY <1>4 DEF Conclude, CheckTransactions, Return
  <2>2. UnavailabilityJustified'
    BY <1>1, <1>2, <2>1 DEF UnavailabilityJustified, IInv, AnswerInv, dbVars
  <2> QED
    BY <1>1, <1>3, <1>4, <2>2, UnavailableVerdict
<1>5. CASE verdict' = "VALID"
  <2>1. /\ minimalBlock # NoBlock
        /\ \A row \in found : row[2].data = "ok" /\ ~Matches(row[2])
    BY <1>5 DEF Conclude, CheckTransactions, Return,
                verifyWorkflowForReferencedTransactions
  <2>2. ASSUME NEW n \in Heights, InWindow(n), NEW t \in ledger[n]
        PROVE  ~IsReferencedPayment(t)
    <3>1. SUFFICES ASSUME Selected(t, request), Matches(t) PROVE FALSE
      BY PaymentsSelected
    <3>2. <<n, t>> \in found
      BY <1>1, <2>1, <2>2, <3>1 DEF IInv, WindowInv, FoundAll
    <3> QED
      BY <2>1, <3>1, <3>2
  <2>3. NonexistenceSound'
    BY <1>1, <2>2 DEF NonexistenceSound, InWindow, IsReferencedPayment, dbVars
  <2>4. ASSUME request.minimal <= request.deadline + 1,
               NEW n \in Heights, n < overflow.number
        PROVE  ~IsOverflow(BlockRow(n), request)
    <3>1. CASE request.minimal <= n
      BY <1>1, <1>2, <2>1, <2>4, <3>1, IndexerAssumption
         DEF IInv, WindowInv, InWindow, Heights
    <3>2. CASE n < request.minimal
      BY <1>2, <2>4, <3>2, BlockRowProps DEF IsOverflow, Heights
    <3> QED
      BY <1>2, <3>1, <3>2 DEF Heights
  <2>5. ResponseFinal'
    BY <1>1, <2>1, <2>4 DEF ResponseFinal, IInv, OverflowInv, WindowInv
  <2> QED
    BY <1>1, <1>3, <1>5, <2>3, <2>5
       DEF IInv, NotFinished, OverflowInv, CompleteInv, FoundInv, WindowInv,
           AnswerInv, ExistenceSound, UnavailabilityJustified
<1>6. CASE verdict' = "REFERENCED_TRANSACTION_EXISTS"
  <2>1. PICK row \in found : Matches(row[2])
    BY <1>6 DEF Conclude, CheckTransactions, Return,
                verifyWorkflowForReferencedTransactions
  <2>2. /\ row[1] \in Heights /\ InWindow(row[1])
        /\ row[2] \in ledger[row[1]] /\ Selected(row[2], request)
    BY <1>1, <2>1 DEF IInv, FoundInv
  <2>3. row[1] \in request.minimal..(overflow.number - 1)
    BY <1>2, <2>2, IndexerAssumption DEF InWindow, Heights
  <2>4. IsReferencedPayment(row[2])
    BY <2>1, <2>2, PaymentsSelected
  <2>5. ExistenceSound'
    BY <1>1, <2>2, <2>3, <2>4 DEF ExistenceSound, IsReferencedPayment, dbVars
  <2> QED
    BY <1>1, <1>3, <1>6, <2>5
       DEF IInv, NotFinished, OverflowInv, CompleteInv, FoundInv, WindowInv,
           AnswerInv, NonexistenceSound, ResponseFinal, UnavailabilityJustified
<1> QED
  BY <1>1, <1>3, <1>4, <1>5, <1>6, OtherVerdict

LEMMA ReadFailsStep == ASSUME IInv, ReadFails PROVE IInv'
<1>1. TypeOK'
  BY DEF IInv, TypeOK, ReadFails, Return, dbVars, DBTypeOK, Verdicts
<1> QED
  BY <1>1, OtherVerdict DEF ReadFails, Return

-----------------------------------------------------------------------------
(* The theorems *)

LEMMA NextIInv == IInv /\ [Next]_vars => IInv'
<1> SUFFICES ASSUME IInv, [Next]_vars PROVE IInv'
  OBVIOUS
<1>1. CASE Verify
  BY <1>1, VerifyStep
<1>2. CASE ReadOverflowBlock
  BY <1>2, ReadOverflowBlockStep
<1>3. CASE ReadLastConfirmed
  <2>1. indexed \in Nat
    BY IndexerAssumption DEF IInv, DBInv, DBTypeOK
  <2> QED
    BY <1>3, <2>1, CompareLastConfirmedStep DEF ReadLastConfirmed
<1>4. CASE ReadTransactions
  BY <1>4, ReadTransactionsStep
<1>5. CASE ReadMinimalBlock
  BY <1>5, ReadMinimalBlockStep
<1>6. CASE Conclude
  BY <1>6, ConcludeStep
<1>7. CASE ReadFails
  BY <1>7, ReadFailsStep
<1>8. CASE StateReadFails
  BY <1>8, CompareLastConfirmedStep DEF StateReadFails
<1>9. CASE Indexer /\ UNCHANGED requestVars
  BY <1>9, IndexerStep
<1>10. CASE UNCHANGED vars
  <2>1. UNCHANGED dbVars /\ UNCHANGED requestVars
    BY <1>10 DEF vars
  <2>2. DBInv'
    BY <2>1, DBUnchanged DEF IInv
  <2> QED
    BY <2>1, <2>2
       DEF IInv, TypeOK, DBTypeOK, NotFinished, OverflowInv, CompleteInv, FoundInv,
           FoundAll, WindowInv, AnswerInv, AnswerAt, InWindow, NonexistenceSound,
           ExistenceSound, IsReferencedPayment, ResponseFinal,
           UnavailabilityJustified, dbVars, requestVars
<1> QED
  BY <1>1, <1>2, <1>3, <1>4, <1>5, <1>6, <1>7, <1>8, <1>9, <1>10 DEF Next, Verifier

LEMMA AlwaysIInv == Spec => []IInv
BY InitIInv, NextIInv, PTL DEF Spec

\* The tables, the registers of the verification and its verdict keep their types.
THEOREM TypeCorrect == Spec => []TypeOK
<1>1. IInv => TypeOK
  BY DEF IInv
<1> QED
  BY <1>1, AlwaysIInv, PTL

\* A payment is only attested not to exist if the chain does not hold it in
\* the window, however the indexer wrote and dropped rows between the reads.
THEOREM NonexistenceIsSound == Spec => []NonexistenceSound
<1>1. IInv => NonexistenceSound
  BY DEF IInv
<1> QED
  BY <1>1, AlwaysIInv, PTL

\* A payment is only said to exist if the chain holds it in the window.
THEOREM ExistenceIsSound == Spec => []ExistenceSound
<1>1. IInv => ExistenceSound
  BY DEF IInv
<1> QED
  BY <1>1, AlwaysIInv, PTL

\* The blocks of a response are final and depend on the chain alone.
THEOREM ResponseIsFinal == Spec => []ResponseFinal
<1>1. IInv => ResponseFinal
  BY DEF IInv
<1> QED
  BY <1>1, AlwaysIInv, PTL

\* No answer that the database held from the request on is refused.
THEOREM UnavailabilityIsJustified == Spec => []UnavailabilityJustified
<1>1. IInv => UnavailabilityJustified
  BY DEF IInv
<1> QED
  BY <1>1, AlwaysIInv, PTL
=============================================================================
