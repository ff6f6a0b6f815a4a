------------------- MODULE ReferencedPaymentNonexistence -------------------
(***************************************************************************)
(* One verification of a ReferencedPaymentNonexistence request             *)
(* (src/src/verification/referenced-payment-nonexistence/, on top of       *)
(* src/src/indexed-query-manager/).  It makes five database reads, each an *)
(* await of its own and none in a transaction, while the indexer writes.   *)
(*                                                                         *)
(* A verification only reads, so several at a time do not affect each      *)
(* other: one is modelled, from its request to its verdict.  Reference,    *)
(* source, destination and amount of the request are fixed; a transaction  *)
(* records how it relates to them.                                         *)
(***************************************************************************)
EXTENDS IndexedQueryManager

CONSTANTS
  Requests,        \* the requests that may be made
  MaxSafeInteger   \* Number.MAX_SAFE_INTEGER

\* A transaction, as compared with the request.
TransactionType == [
  reference   : BOOLEAN,   \* carries the payment reference
  source      : BOOLEAN,   \* has the source addresses root
  destination : BOOLEAN,   \* pays the destination address
  toOne       : BOOLEAN,   \* and does so with exactly one output
  enough      : BOOLEAN,   \* the intended amount is not below the requested
  status      : {"SUCCESS", "RECEIVER_FAILURE", "SENDER_FAILURE"},
  data        : {"ok", "broken", "foreign"}]  \* stored response: readable, not
                           \* a response at all, refused by TransactionClass

RequestType == [
  zeroReference : BOOLEAN,
  checkSource   : BOOLEAN,
  minimal       : Nat,     \* minimalBlockNumber
  deadline      : Nat,     \* deadlineBlockNumber
  deadlineTime  : Nat]     \* deadlineTimestamp

ASSUME RequestAssumption ==
  /\ Transactions \subseteq TransactionType
  /\ Requests \subseteq RequestType
  /\ MaxSafeInteger \in Nat

VARIABLES
  pc,            \* the read the verification waits for
  request,       \* its request
  overflow,      \* firstOverflowBlock
  found,         \* the rows of the transaction query
  minimalBlock,  \* startBlock of the transaction query
  verdict,       \* the status returned, "none" before
  \* what the properties recall, and the code does not have
  answerable,    \* the answer was in the database when the request came
  failed         \* a read failed

requestVars == <<pc, request, overflow, found, minimalBlock, verdict,
                 answerable, failed>>
vars == <<dbVars, requestVars>>

Verdicts == {"VALID", "REFERENCED_TRANSACTION_EXISTS",
  "BLOCK_AVAILABILITY_ISSUE", "INVALID_SEARCH_RANGE",
  "ZERO_PAYMENT_REFERENCE_UNSUPPORTED", "SYSTEM_FAILURE", "EXCEPTION"}

-----------------------------------------------------------------------------
(* Queries *)

\* The conditions that the SQL of queryTransactions puts on a transaction: the
\* UTXO manager ignores the destination, the amount and the status.
Selected(t, q) ==
  /\ t.reference
  /\ q.checkSource => t.source
  /\ Source = "xrp" =>
       /\ t.destination
       /\ t.enough
       /\ t.status # "SENDER_FAILURE"

\* Mutant: the window includes the overflow block.
InWindow_WithOverflow(n) == request.minimal <= n /\ n <= overflow.number

InWindow(n) == request.minimal <= n /\ n <= overflow.number - 1

\* The block before the overflow block is not yet known to be complete.
\* Mutants: no such check; the overflow block itself must be complete.
Incomplete_Never(last) == FALSE

Incomplete_OverflowToo(last) == overflow.number > last

Incomplete(last) == overflow.number - 1 > last

\* The test that the transaction class decides: a payment to the destination.
Matches(t) ==
  t.destination /\ t.toOne /\ t.enough /\ t.status # "SENDER_FAILURE"

-----------------------------------------------------------------------------
(* The verification *)

Return(status) ==
  /\ verdict' = status
  /\ pc' = "done"

\* What the database could answer: the first overflow block is there, its
\* predecessor complete, and the window begins in the stored blocks before it.
Answerable(q) ==
  \E f \in getFirstConfirmedOverflowBlock(q) :
    /\ f # NoBlock
    /\ f.number - 1 <= indexed
    /\ q.minimal \in firstBlock..(f.number - 1)

Init ==
  /\ DBInit
  /\ pc = "idle"
  /\ request \in Requests
  /\ overflow = NoBlock
  /\ found = {}
  /\ minimalBlock = NoBlock
  /\ verdict = "none"
  /\ answerable = FALSE
  /\ failed = FALSE

\* The checks of the request itself, then the first query is sent.  Hashes of
\* 32 bytes and unsigned numbers are all that a request can hold (its DTO and
\* its ABI type), so the checks of their form never fail.
Verify ==
  /\ pc = "idle"
  /\ answerable' = Answerable(request)
  /\ \/ /\ request.zeroReference
        /\ Return("ZERO_PAYMENT_REFERENCE_UNSUPPORTED")
     \/ /\ ~request.zeroReference
        /\ request.minimal >= MaxSafeInteger \/ request.deadline >= MaxSafeInteger
        /\ Return("INVALID_SEARCH_RANGE")
     \/ /\ ~request.zeroReference
        /\ request.minimal < MaxSafeInteger
        /\ request.deadline < MaxSafeInteger
        /\ pc' = "overflowBlock"
        /\ UNCHANGED verdict
  /\ UNCHANGED <<dbVars, request, overflow, found, minimalBlock, failed>>

\* getReferencedTransactions: the first overflow block
ReadOverflowBlock ==
  /\ pc = "overflowBlock"
  /\ overflow' \in getFirstConfirmedOverflowBlock(request)
  /\ \/ /\ overflow' = NoBlock
        /\ Return(verifyWorkflowForReferencedTransactions("NO_OVERFLOW_BLOCK"))
     \/ /\ overflow' # NoBlock
        /\ pc' = "lastConfirmed"
        /\ UNCHANGED verdict
  /\ UNCHANGED <<dbVars, request, found, minimalBlock, answerable, failed>>

\* getLastConfirmedBlockNumber and the comparison.  Without a state row, and
\* on UTXO chains when the read fails, the height is 0.
CompareLastConfirmed(last) ==
  /\ \/ /\ Incomplete(last)
        /\ Return(verifyWorkflowForReferencedTransactions("DATA_AVAILABILITY_FAILURE"))
     \/ /\ ~Incomplete(last)
        /\ pc' = "transactions"
        /\ UNCHANGED verdict
  /\ UNCHANGED <<dbVars, request, overflow, found, minimalBlock, answerable>>

ReadLastConfirmed ==
  /\ pc = "lastConfirmed"
  /\ indexed # 0 \/ Source = "utxo"
  /\ CompareLastConfirmed(indexed)
  /\ UNCHANGED failed

\* queryTransactions: the rows, read before the blocks at the window's ends
ReadTransactions ==
  /\ pc = "transactions"
  /\ found' = {row \in transactionTable : InWindow(row[1]) /\ Selected(row[2], request)}
  /\ pc' = "minimalBlock"
  /\ UNCHANGED <<dbVars, request, overflow, minimalBlock, verdict, answerable, failed>>

ReadMinimalBlock ==
  /\ pc = "minimalBlock"
  /\ minimalBlock' \in queryBlock(request.minimal)
  /\ pc' = "endBlock"
  /\ UNCHANGED <<dbVars, request, overflow, found, verdict, answerable, failed>>

\* A row whose response cannot be read: XRP rows are parsed by the query, UTXO
\* responses are put together and only the transaction class can refuse them.
QueryThrows == Source = "xrp" /\ \E row \in found : row[2].data = "broken"

\* The loop over the rows, which come in no particular order, ends at the
\* first one that is unreadable or matches.
CheckTransactions ==
  \/ \E row \in found : row[2].data # "ok" /\ Return("SYSTEM_FAILURE")
  \/ /\ \E row \in found : row[2].data = "ok" /\ Matches(row[2])
     /\ Return("REFERENCED_TRANSACTION_EXISTS")
  \/ /\ \A row \in found : row[2].data = "ok" /\ ~Matches(row[2])
     /\ Return("VALID")

\* The last read, of the end block, which nothing uses; then all the rest.
Conclude ==
  /\ pc = "endBlock"
  /\ \/ /\ QueryThrows
        /\ Return("EXCEPTION")
     \/ /\ ~QueryThrows
        /\ minimalBlock = NoBlock
        /\ Return(verifyWorkflowForReferencedTransactions("DATA_AVAILABILITY_FAILURE"))
     \/ /\ ~QueryThrows
        /\ minimalBlock # NoBlock
        /\ request.minimal >= overflow.number
        /\ Return("INVALID_SEARCH_RANGE")
     \/ /\ ~QueryThrows
        /\ minimalBlock # NoBlock
        /\ request.minimal < overflow.number
        /\ CheckTransactions
  /\ UNCHANGED <<dbVars, request, overflow, found, minimalBlock, answerable, failed>>

\* A query fails, or XRP's state row is missing: the promise is rejected.
ReadFails ==
  /\ \/ pc \in {"overflowBlock", "transactions", "minimalBlock", "endBlock"}
     \/ pc = "lastConfirmed" /\ Source = "xrp"
  /\ Return("EXCEPTION")
  /\ failed' = TRUE
  /\ UNCHANGED <<dbVars, request, overflow, found, minimalBlock, answerable>>

\* The UTXO manager catches the error of its state query and goes on with 0.
StateReadFails ==
  /\ pc = "lastConfirmed"
  /\ Source = "utxo"
  /\ CompareLastConfirmed(0)
  /\ failed' = TRUE

Verifier ==
  \/ Verify
  \/ ReadOverflowBlock \/ ReadLastConfirmed \/ ReadTransactions
  \/ ReadMinimalBlock \/ Conclude
  \/ ReadFails \/ StateReadFails

Next == Verifier \/ (Indexer /\ UNCHANGED requestVars)

Spec == Init /\ [][Next]_vars

-----------------------------------------------------------------------------
(* Properties *)

TypeOK ==
  /\ DBTypeOK
  /\ pc \in {"idle", "overflowBlock", "lastConfirmed", "transactions",
             "minimalBlock", "endBlock", "done"}
  /\ request \in Requests
  /\ overflow \in [number : Nat, timestamp : Nat, confirmed : BOOLEAN]
  /\ found \in SUBSET (Heights \X Transactions)
  /\ minimalBlock \in [number : Nat, timestamp : Nat, confirmed : BOOLEAN]
  /\ verdict \in Verdicts \cup {"none"}
  /\ answerable \in BOOLEAN
  /\ failed \in BOOLEAN

\* The payment whose absence is to be proved.
IsReferencedPayment(t) ==
  t.reference /\ (request.checkSource => t.source) /\ Matches(t)

\* VALID means that no block of the chain from the minimal block to the one
\* before the overflow block holds the payment, though blocks were being
\* written and dropped between the reads (IIndexedQueryManager.ts:169-204: the
\* state is read before the transactions, the minimal block after them).
NonexistenceSound ==
  verdict = "VALID" =>
    \A n \in Heights : InWindow(n) =>
      \A t \in ledger[n] : ~IsReferencedPayment(t)

\* The payment that a refusal names is in the window and on the final chain.
ExistenceSound ==
  verdict = "REFERENCED_TRANSACTION_EXISTS" =>
    \E n \in request.minimal..(overflow.number - 1) :
      n \in Heights /\ \E t \in ledger[n] : IsReferencedPayment(t)

\* The blocks in a response are the final chain's, whatever forks were stored,
\* and, when the window leaves no gap after the deadline, no earlier block of
\* the whole chain overflows: verifiers with more or less history, or slower
\* ones, respond with the same block.
ResponseFinal ==
  verdict = "VALID" =>
    /\ overflow = BlockRow(overflow.number)
    /\ minimalBlock = BlockRow(request.minimal)
    /\ IsOverflow(overflow, request)
    /\ request.minimal <= request.deadline + 1 =>
         \A n \in Heights : n < overflow.number => ~IsOverflow(BlockRow(n), request)

\* Blocks are only found missing if the answer was not in the database when
\* the request came, history was dropped meanwhile, or a read failed.
UnavailabilityJustified ==
  verdict = "BLOCK_AVAILABILITY_ISSUE" =>
    ~answerable \/ request.minimal < firstBlock \/ failed

\* "Source failure - error in checking" (response-status.ts:18) is a status of
\* its own, and an indeterminate one: while the answer is in the database, a
\* query that fails does not make the request INVALID.
SourceFailureIndeterminate ==
  failed /\ answerable /\ firstBlock <= request.minimal =>
    verdict # "BLOCK_AVAILABILITY_ISSUE"
=============================================================================
