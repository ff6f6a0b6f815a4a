----------------------------- MODULE IndexerApi -----------------------------
(***************************************************************************)
(* One request to the indexer API (src/src/services/indexer-services/,     *)
(* src/src/controllers/indexer.controller.ts) while the indexer writes:    *)
(* the indexed range, blocks, transactions and lists of them.  A client    *)
(* that lists transactions asks for one page after the other.              *)
(*                                                                         *)
(* Optional parameters are sets of at most one element.                    *)
(***************************************************************************)
EXTENDS IndexerDB, Integers, SequencesExt

CONSTANTS
  indexerServerPageLimit,
  Requests

\* A stored transaction; on UTXO chains, joined with its inputs and outputs,
\* it is as many rows.
StoredTransaction == [id : Nat, reference : STRING, sourceAddress : STRING, joined : Nat \ {0}]

QueryBlock == [from : SUBSET Nat, to : SUBSET Nat]

\* XRP's filters by destination tag and memo are like the one by source.
QueryTransaction ==
  [from : SUBSET Nat, to : SUBSET Nat,
   paymentReference : SUBSET STRING, sourceAddress : SUBSET STRING,
   limit : SUBSET (Nat \ {0}), returnResponse : BOOLEAN]

\* "block-range" is for block-height-indexed and block-height-tip too.
Routes ==
  {"block-range", "confirmed-block-at", "block", "block/:blockHash",
   "transaction", "transaction/:txHash", "transaction-block"}

ASSUME ApiAssumption ==
  /\ indexerServerPageLimit \in Nat \ {0}
  /\ \A t \in Transactions : t \in StoredTransaction
  /\ \A r \in Requests :
       /\ r.route \in Routes
       /\ r.route = "block" => r.block \in QueryBlock
       /\ r.route = "transaction" => r.transaction \in QueryTransaction

\* The id of a transaction is the primary key of its table.
ASSUME TransactionIdAssumption ==
  \A l \in Ledgers : \A m, n \in Heights : \A s \in l[m], t \in l[n] :
    s.id = t.id => m = n /\ s = t

\* A block has finitely many of them.
ASSUME FiniteAssumption == \A l \in Ledgers : \A n \in Heights : IsFiniteSet(l[n])

VARIABLES
  tail,     \* the indexer's latest_indexed_tail_height, 0 without a row
  request,
  pc,       \* the read that is waited for, "page" between two pages
  resTop,   \* the tip state read
  tx,       \* the transaction read
  offset,   \* of the next page
  answer,   \* what the client got: a status, and the data so far
  \* what the properties recall, and the code does not have
  stored    \* all that is asked for was in the database at the beginning

requestVars == <<request, pc, resTop, tx, offset, answer, stored>>
vars == <<dbVars, tail, requestVars>>

NoData == [status |-> "none", blocks |-> <<>>, items |-> <<>>, range |-> <<>>]

-----------------------------------------------------------------------------
(* Reads *)

\* A block's hash stands for its height and its time.
hash(b) == <<b.number, b.timestamp>>

\* Neither query asks for confirmed rows.
\* Mutant: only for unconfirmed ones.
blocksAt_Unconfirmed(n) == {b \in blockTable : b.number = n /\ ~b.confirmed}

blocksAt(n) == {b \in blockTable : b.number = n}

transactionRows(id) == {row \in transactionTable : row[2].id = id}

Orders(S, Before(_, _)) ==
  {s \in SetToSeqs(S) : \A i, j \in DOMAIN s : i < j => ~Before(s[j], s[i])}

Page(s, start, length) == SubSeq(s, start + 1, Min({start + length, Len(s)}))

\* listBlock: the heights asked for, and whether the rows are cut at the limit.
\* Rows of forks at one height come in any order.
listBlock(q) ==
  LET asked(n) ==
        /\ \A from \in q.from : n >= from
        /\ \A to \in q.to : n <= to
        /\ \A from \in q.from : q.to # {} => n <= from + indexerServerPageLimit - 1
        /\ \A to \in q.to : q.from = {} => n >= to - indexerServerPageLimit + 1
      rows == {b \in blockTable : asked(b.number)}
      take == IF q.to = {} THEN indexerServerPageLimit ELSE Cardinality(rows)
  IN {Page(s, 0, take) : s \in Orders(rows, LAMBDA b, c : b.number < c.number)}

theLimit(q) == Min({indexerServerPageLimit} \cup q.limit)

Joins(q) == Source = "utxo" /\ q.returnResponse

\* The rows that match, each as often as the join repeats it.
matching(q) ==
  LET matches(row) ==
        /\ \A from \in q.from : row[1] >= from
        /\ \A to \in q.to : row[1] <= to
        /\ \A ref \in q.paymentReference : row[2].reference = ref
        /\ Source = "xrp" => \A a \in q.sourceAddress : row[2].sourceAddress = a
  IN UNION {{row} \X (1..(IF Joins(q) THEN row[2].joined ELSE 1)) :
               row \in {r \in transactionTable : matches(r)}}

\* By block number, then by transaction id.
\* Mutant: by block number only.
listedBefore_NoTieBreak(r, s) == r[1] < s[1]

listedBefore(r, s) == r[1] < s[1] \/ (r[1] = s[1] /\ r[2].id < s[2].id)

\* getMany() makes one item of the rows of a transaction; whole says whether
\* all of them are on the page.
itemsOf(page, q) ==
  LET rowsOf(row) == {i \in DOMAIN page : page[i][1] = row}
      firsts == {i \in DOMAIN page : \A j \in rowsOf(page[i][1]) : i <= j}
      kth(k) == CHOOSE i \in firsts : Cardinality({j \in firsts : j < i}) = k - 1
  IN [k \in 1..Cardinality(firsts) |->
        LET row == page[kth(k)][1] IN
          [number |-> row[1], id |-> row[2].id,
           whole |-> Joins(q) => Cardinality(rowsOf(row)) = row[2].joined]]

-----------------------------------------------------------------------------
(* The requests *)

Reply(data) == pc' = "done" /\ answer' = data

Error == [NoData EXCEPT !.status = "ERROR"]

OK(data) == [data EXCEPT !.status = "OK"]

Blocks(rows) ==
  \/ rows = {} /\ Reply(Error)
  \/ \E b \in rows : Reply(OK([NoData EXCEPT !.blocks = <<b>>]))

\* What a request asks for is in the tables.
Stored(r) ==
  CASE r.route = "confirmed-block-at" -> r.blockNumber \in firstBlock..lastBlock
    [] r.route \in {"transaction/:txHash", "transaction-block"} ->
         \E n \in (firstTx..lastTx) \cap (firstBlock..lastBlock) :
           \E t \in ledger[n] : t.id = r.txHash
    [] r.route = "transaction" ->
         /\ \A from \in r.transaction.from : from >= firstTx
         /\ \A to \in r.transaction.to : to <= indexed
         /\ r.transaction.from # {} /\ r.transaction.to # {}
    [] OTHER -> FALSE

Init ==
  /\ DBInit
  /\ tail = 0
  /\ request \in Requests
  /\ pc = "idle"
  /\ resTop = [indexed |-> 0, tip |-> 0]
  /\ tx = {}
  /\ offset = 0
  /\ answer = NoData
  /\ stored = FALSE

Receive ==
  /\ pc = "idle"
  /\ pc' = request.route
  /\ stored' = Stored(request)
  /\ UNCHANGED <<dbVars, tail, request, resTop, tx, offset, answer>>

\* getBlockRange, getBlockHeightIndexed and getBlockHeightTip of the state
\* Mutant: the chain's tip for the last indexed block.
getBlockRange_Tip(bottom, top) ==
  [first |-> bottom, last |-> top.tip, tip |-> top.tip]

getBlockRange(bottom, top) ==
  [first |-> bottom, last |-> top.indexed, tip |-> top.tip]

RangeOf(bottom, top) == OK([NoData EXCEPT !.range = <<getBlockRange(bottom, top)>>])

\* getStateSetting: XRP's state is one row; on UTXO chains the tip is read
\* first.  The tip of the chain is somewhere above the indexed height.
ReadState ==
  /\ pc = "block-range"
  /\ \/ indexed = 0 /\ Reply(Error) /\ UNCHANGED resTop
     \/ \E tip \in indexed..MaxHeight :
          /\ indexed # 0
          /\ resTop' = [indexed |-> indexed, tip |-> tip]
          /\ IF Source = "utxo" THEN pc' = "prune" /\ UNCHANGED answer
             ELSE Reply(RangeOf(tail, resTop'))
  /\ UNCHANGED <<dbVars, tail, request, tx, offset, stored>>

ReadPruneState ==
  /\ pc = "prune"
  /\ Reply(IF tail = 0 THEN Error ELSE RangeOf(tail, resTop))
  /\ UNCHANGED <<dbVars, tail, request, resTop, tx, offset, stored>>

ConfirmedBlockAt ==
  /\ pc = "confirmed-block-at"
  /\ Blocks(blocksAt(request.blockNumber))
  /\ UNCHANGED <<dbVars, tail, request, resTop, tx, offset, stored>>

GetBlock ==
  /\ pc = "block/:blockHash"
  /\ Blocks({b \in blockTable : hash(b) = request.blockHash})
  /\ UNCHANGED <<dbVars, tail, request, resTop, tx, offset, stored>>

ListBlock ==
  /\ pc = "block"
  /\ \/ /\ \E from \in request.block.from, to \in request.block.to : from > to
        /\ Reply(Error)
     \/ /\ \A from \in request.block.from, to \in request.block.to : from <= to
        /\ \E page \in listBlock(request.block) :
             Reply(OK([NoData EXCEPT !.blocks = page]))
  /\ UNCHANGED <<dbVars, tail, request, resTop, tx, offset, stored>>

\* getTransaction, alone or as the first half of getTransactionBlock.  A lone
\* transaction's response is never cut.
GetTransaction ==
  /\ pc \in {"transaction/:txHash", "transaction-block"}
  /\ LET rows == transactionRows(request.txHash) IN
       \/ rows = {} /\ Reply(Error) /\ UNCHANGED tx
       \/ \E row \in rows :
            /\ tx' = {row}
            /\ IF request.route = "transaction-block"
               THEN pc' = "blockOf" /\ UNCHANGED answer
               ELSE Reply(OK([NoData EXCEPT !.items =
                      <<[number |-> row[1], id |-> row[2].id, whole |-> TRUE]>>]))
  /\ UNCHANGED <<dbVars, tail, request, resTop, offset, stored>>

GetTransactionBlock ==
  /\ pc = "blockOf"
  /\ \E row \in tx : Blocks(blocksAt(row[1]))
  /\ UNCHANGED <<dbVars, tail, request, resTop, tx, offset, stored>>

\* listTransaction: a page; the client goes on until one is not full.
ListTransaction ==
  LET q == request.transaction IN
    /\ pc = "transaction"
    /\ \/ /\ q.paymentReference = {"malformed"}
          /\ Reply(Error)
          /\ UNCHANGED offset
       \/ /\ q.paymentReference # {"malformed"}
          /\ \E all \in Orders(matching(q), LAMBDA r, s : listedBefore(r[1], s[1])) :
               LET items == itemsOf(Page(all, offset, theLimit(q)), q) IN
                 /\ answer' = OK([answer EXCEPT !.items = @ \o items])
                 /\ pc' = IF Len(items) < theLimit(q) THEN "done" ELSE pc
          /\ offset' = offset + theLimit(q)
    /\ UNCHANGED <<dbVars, tail, request, resTop, tx, stored>>

Api ==
  \/ Receive
  \/ ReadState \/ ReadPruneState
  \/ ConfirmedBlockAt \/ GetBlock \/ ListBlock
  \/ GetTransaction \/ GetTransactionBlock \/ ListTransaction

\* The indexer's other row: where the stored blocks began, at some time.
UpdatePruneState ==
  /\ \E n \in (tail + 1)..firstBlock : tail' = n
  /\ UNCHANGED <<dbVars, requestVars>>

Next == Api \/ UpdatePruneState \/ (Indexer /\ UNCHANGED <<tail, requestVars>>)

Spec == Init /\ [][Next]_vars

-----------------------------------------------------------------------------
(* Properties *)

\* The transactions of the chain that a list asks for.
Listing(q) ==
  {row \in UNION {{<<n, t>> : t \in ledger[n]} : n \in Heights} :
     /\ \A from \in q.from : row[1] >= from
     /\ \A to \in q.to : row[1] <= to
     /\ \A ref \in q.paymentReference : row[2].reference = ref
     /\ Source = "xrp" => \A a \in q.sourceAddress : row[2].sourceAddress = a}

\* "Paginated query for confirmed transactions ... sorted first by block number
\* and then by transaction id" (indexer.controller.ts): the pages of an indexed
\* range, put together, are its transactions, none missing, none twice, and in
\* that order, though blocks are added above and dropped below between the
\* pages.  Lists with responses of UTXO chains are cut otherwise.
PagesComplete ==
  /\ request.route = "transaction"
  /\ pc = "done" /\ answer.status = "OK"
  /\ stored
  /\ \A from \in request.transaction.from : from >= firstTx
  /\ ~Joins(request.transaction)
  => LET items == answer.items IN
       /\ {<<items[i].number, items[i].id>> : i \in DOMAIN items}
            = {<<row[1], row[2].id>> : row \in Listing(request.transaction)}
       /\ \A i, j \in DOMAIN items : i < j =>
            \/ items[i].number < items[j].number
            \/ items[i].number = items[j].number /\ items[i].id < items[j].id

\* "Validator node API response for transaction description"
\* (ApiDbTransaction.dto.ts): a response that is returned has all inputs and
\* outputs of its transaction.
ResponsesWhole == \A i \in DOMAIN answer.items : answer.items[i].whole

\* "Gets the range of available confirmed blocks" (indexer.controller.ts): all
\* blocks of the range are stored, with their transactions, or were dropped
\* since, though top and bottom are read one after the other.
RangeStored ==
  \A i \in DOMAIN answer.range : \A n \in answer.range[i].first..answer.range[i].last :
    n < firstBlock \/ (n <= lastBlock /\ n <= lastTx)

\* A confirmed block, or a transaction of one and its block, is reported as not
\* found only if it was not there at the beginning or was dropped meanwhile.
NotFoundJustified ==
  answer.status = "ERROR" /\ stored =>
    \/ request.route = "confirmed-block-at" /\ request.blockNumber < firstBlock
    \/ /\ request.route \in {"transaction/:txHash", "transaction-block"}
       /\ \A n \in Heights : \A t \in ledger[n] : t.id = request.txHash => n < firstBlock
    \/ request.route = "transaction"

\* "Blocks that are not confirmed yet cannot be obtained using this route"
\* (indexer.controller.ts, of confirmed-block-at).
OnlyConfirmed ==
  request.route = "confirmed-block-at" =>
    \A i \in DOMAIN answer.blocks : answer.blocks[i].confirmed
=============================================================================
