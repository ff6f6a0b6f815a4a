------------------------ MODULE IndexedQueryManager ------------------------
(***************************************************************************)
(* The queries that the verifications send to the indexer's database       *)
(* (src/src/indexed-query-manager/), and how the outcome of a query        *)
(* becomes a status (src/src/verification/response-status.ts).  Each query *)
(* is one read; what a verification does between two reads is in the       *)
(* module of that verification.                                            *)
(***************************************************************************)
EXTENDS IndexerDB

\* Rows with confirmed = TRUE; XRP's table has confirmed blocks only and its
\* queries no such filter.
\* Mutant: the UTXO queries do not filter either.
confirmedBlocks_NoFilter == blockTable

confirmedBlocks ==
  {b \in blockTable : Source = "utxo" => b.confirmed}

\* queryBlock by height
queryBlock(n) == getOne({b \in confirmedBlocks : b.number = n})

IsOverflow(b, q) == b.timestamp > q.deadlineTime /\ b.number > q.deadline

\* Mutant: the newest such block (ORDER BY ... DESC).
getFirstConfirmedOverflowBlock_Last(q) ==
  getOne({b \in confirmedBlocks :
    /\ IsOverflow(b, q)
    /\ \A c \in confirmedBlocks : IsOverflow(c, q) => b.number >= c.number})

getFirstConfirmedOverflowBlock(q) ==
  getOne({b \in confirmedBlocks :
    /\ IsOverflow(b, q)
    /\ \A c \in confirmedBlocks : IsOverflow(c, q) => b.number <= c.number})

\* Mutant: off by one.
IsBefore_OffByOne(b, time) == b.timestamp + 1 < time

IsBefore(b, time) == b.timestamp < time

\* Mutant: ORDER BY block_number ASC.
getLastConfirmedBlockStrictlyBeforeTime_First(time) ==
  getOne({b \in confirmedBlocks :
    /\ IsBefore(b, time)
    /\ \A c \in confirmedBlocks : IsBefore(c, time) => b.number <= c.number})

getLastConfirmedBlockStrictlyBeforeTime(time) ==
  getOne({b \in confirmedBlocks :
    /\ IsBefore(b, time)
    /\ \A c \in confirmedBlocks : IsBefore(c, time) => b.number >= c.number})

\* getConfirmedTransaction: the rows of queryTransactions by id, of which the
\* first is used.  Neither the block table nor the state row is consulted.
getConfirmedTransaction(t) == {row \in transactionTable : row[2] = t}

-----------------------------------------------------------------------------
(* Statuses *)

verifyWorkflowForTransaction(status) ==
  IF status = "OK" THEN "NEEDS_MORE_CHECKS" ELSE "TRANSACTION_AVAILABILITY_ISSUE"

\* Mutant: NOT_EXIST is not handled.
verifyWorkflowForBlock_Unhandled(status) == "NEEDS_MORE_CHECKS"

verifyWorkflowForBlock(status) ==
  IF status = "OK" THEN "NEEDS_MORE_CHECKS" ELSE "BLOCK_AVAILABILITY_ISSUE"

\* Mutant: the status of a missing overflow block is not handled.
verifyWorkflowForReferencedTransactions_OneCase(status) ==
  IF status = "DATA_AVAILABILITY_FAILURE"
  THEN "BLOCK_AVAILABILITY_ISSUE" ELSE "undefined"

verifyWorkflowForReferencedTransactions(status) ==
  IF status \in {"NO_OVERFLOW_BLOCK", "DATA_AVAILABILITY_FAILURE"}
  THEN "BLOCK_AVAILABILITY_ISSUE" ELSE "NEEDS_MORE_CHECKS"
=============================================================================
