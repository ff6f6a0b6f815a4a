----------------------------- MODULE IndexerDB -----------------------------
(***************************************************************************)
(* The database that the verifier reads and an external indexer writes     *)
(* (src/src/entity/*-entity-definitions.ts).  The indexer is another       *)
(* program; it is the most general one that keeps what the verifier        *)
(* relies on:                                                              *)
(*   - confirmed blocks and their transactions never change, are added at  *)
(*     the top one height after the other and dropped at the bottom;       *)
(*   - the state row names a height up to which blocks and transactions    *)
(*     have all been written ("for which all transactions are in           *)
(*     database", IIndexedQueryManager.ts:66);                             *)
(*   - the transactions of a block are dropped with or after its row.      *)
(* It writes a block and its transactions in any order, the state row late *)
(* or never, and on UTXO chains it also stores unconfirmed blocks, of      *)
(* forks too, and removes them again.                                      *)
(***************************************************************************)
EXTENDS Naturals, FiniteSets

CONSTANTS
  Source,        \* "utxo" (BTC, DOGE) or "xrp"
  MaxHeight,     \* bound: the last block of the chain
  Time,          \* timestamp of each block of the final chain
  Transactions,  \* the transactions a block may contain
  Ledgers,       \* the possible final chains: the transactions of each block
  ForkTimes,     \* timestamps of the blocks of forks
  MaxForks       \* bound: unconfirmed block rows stored at a time

Heights == 1..MaxHeight

ASSUME IndexerAssumption ==
  /\ Source \in {"utxo", "xrp"}
  /\ MaxHeight \in Nat
  /\ Time \in [Heights -> Nat]
  /\ Ledgers \subseteq [Heights -> SUBSET Transactions]
  /\ ForkTimes \subseteq Nat
  /\ MaxForks \in Nat

VARIABLES
  ledger,      \* the chain, past and future (never changes)
  firstBlock,  \* the confirmed rows of the block table are those of
  lastBlock,   \*   the heights firstBlock..lastBlock
  firstTx,     \* the transaction table holds the transactions of
  lastTx,      \*   the blocks firstTx..lastTx
  indexed,     \* last height of the state row, 0 when there is no such row
  headers      \* the unconfirmed rows of the block table

dbVars == <<ledger, firstBlock, lastBlock, firstTx, lastTx, indexed, headers>>

-----------------------------------------------------------------------------
(* The tables, as queries see them *)

BlockRow(n) == [number |-> n, timestamp |-> Time[n], confirmed |-> TRUE]

blockTable == {BlockRow(n) : n \in firstBlock..lastBlock} \cup headers

\* <<height, transaction>> pairs.
transactionTable ==
  UNION {{<<n, t>> : t \in ledger[n]} : n \in firstTx..lastTx}

\* What getOne() gives when no row qualifies.
NoBlock == [number |-> 0, timestamp |-> 0, confirmed |-> FALSE]

\* getOne() takes any of the rows that qualify.
getOne(rows) == IF rows = {} THEN {NoBlock} ELSE rows

-----------------------------------------------------------------------------
(* The indexer *)

\* The indexer starts at some height of its own choice.
DBInit ==
  /\ ledger \in Ledgers
  /\ firstBlock \in Heights
  /\ firstTx = firstBlock
  /\ lastBlock = firstBlock - 1
  /\ lastTx = firstBlock - 1
  /\ indexed = 0
  /\ headers = {}

\* A block above the confirmed ones, of the final chain or of a fork.
StoreHeader ==
  /\ Source = "utxo"
  /\ Cardinality(headers) < MaxForks
  /\ \E n \in (lastBlock + 1)..MaxHeight : \E time \in ForkTimes \cup {Time[n]} :
       headers' = headers
         \cup {[number |-> n, timestamp |-> time, confirmed |-> FALSE]}
  /\ UNCHANGED <<ledger, firstBlock, lastBlock, firstTx, lastTx, indexed>>

ForgetHeader ==
  /\ \E h \in headers : headers' = headers \ {h}
  /\ UNCHANGED <<ledger, firstBlock, lastBlock, firstTx, lastTx, indexed>>

StoreTransactions ==
  /\ lastTx < MaxHeight
  /\ lastTx' = lastTx + 1
  /\ UNCHANGED <<ledger, firstBlock, lastBlock, firstTx, indexed, headers>>

\* The row is inserted, or an unconfirmed one becomes confirmed.
ConfirmBlock ==
  /\ lastBlock < MaxHeight
  /\ lastBlock' = lastBlock + 1
  /\ headers' = {h \in headers :
                   h.number # lastBlock + 1 \/ h.timestamp # Time[lastBlock + 1]}
  /\ UNCHANGED <<ledger, firstBlock, firstTx, lastTx, indexed>>

UpdateState ==
  /\ \E n \in (indexed + 1)..lastBlock : n <= lastTx /\ indexed' = n
  /\ UNCHANGED <<ledger, firstBlock, lastBlock, firstTx, lastTx, headers>>

\* History is dropped at the bottom, up to the height of the state row.
DropBlock ==
  /\ firstBlock <= indexed
  /\ firstBlock' = firstBlock + 1
  /\ UNCHANGED <<ledger, lastBlock, firstTx, lastTx, indexed, headers>>

DropTransactions ==
  /\ firstTx < firstBlock
  /\ firstTx' = firstTx + 1
  /\ UNCHANGED <<ledger, firstBlock, lastBlock, lastTx, indexed, headers>>

Indexer ==
  \/ StoreHeader \/ ForgetHeader
  \/ StoreTransactions \/ ConfirmBlock \/ UpdateState
  \/ DropBlock \/ DropTransactions

DBTypeOK ==
  /\ ledger \in Ledgers
  /\ firstBlock \in Nat \ {0}
  /\ lastBlock \in 0..MaxHeight
  /\ firstTx \in Nat \ {0}
  /\ lastTx \in 0..MaxHeight
  /\ indexed \in 0..MaxHeight
  /\ headers \in SUBSET [number : Heights, timestamp : Nat, confirmed : {FALSE}]
=============================================================================
