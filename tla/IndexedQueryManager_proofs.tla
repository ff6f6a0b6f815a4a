--------------------- MODULE IndexedQueryManager_proofs ---------------------
(***************************************************************************)
(* What every verification may rely on: the database keeps its shape, only *)
(* grows at the top and shrinks at the bottom, and the queries return rows *)
(* of the final chain.                                                     *)
(***************************************************************************)
EXTENDS IndexedQueryManager, WellFoundedInduction, TLAPS

\* The tables are intervals, the transactions are dropped after the blocks,
\* and the state row promises no more than both tables hold.
DBInv ==
  /\ DBTypeOK
  /\ firstTx <= firstBlock
  /\ firstBlock <= lastBlock + 1
  /\ indexed <= lastBlock
  /\ indexed <= lastTx
  /\ Source = "xrp" => headers = {}

-----------------------------------------------------------------------------
(* Numbers *)

\* A set of numbers has a least one.
LEMMA LowestExists ==
  ASSUME NEW S \in SUBSET Nat, S # {}
  PROVE  \E x \in S : \A y \in S : x <= y
<1>1. IsWellFoundedOn(OpToRel(<, Nat), Nat)
  BY NatLessThanWellFounded
<1>2. \E x \in S : \A y \in S : ~ (<<y, x>> \in OpToRel(<, Nat))
  BY <1>1, WFMin
<1>3. OpToRel(<, Nat) = {p \in Nat \X Nat : p[1] < p[2]}
  BY DEF OpToRel
<1>4. PICK x \in S : \A y \in S : <<y, x>> \notin {p \in Nat \X Nat : p[1] < p[2]}
  BY <1>2, <1>3
<1>5. ASSUME NEW y \in S PROVE x <= y
  <2>1. <<y, x>> \notin {p \in Nat \X Nat : p[1] < p[2]}
    BY <1>4
  <2> QED
    BY <2>1
<1> QED
  BY <1>5

-----------------------------------------------------------------------------
(* What the queries return *)

\* Both sources query the confirmed blocks only.
LEMMA ConfirmedBlocks ==
  ASSUME DBInv
  PROVE  confirmedBlocks = {BlockRow(n) : n \in firstBlock..lastBlock}
<1>1. ASSUME NEW b \in headers PROVE Source = "utxo" /\ ~b.confirmed
  BY <1>1, IndexerAssumption DEF DBInv, DBTypeOK
<1>2. \A n : BlockRow(n).confirmed
  BY DEF BlockRow
<1> QED
  BY <1>1, <1>2 DEF confirmedBlocks, blockTable

\* A block row is a record of the declared types, and not NoBlock.
LEMMA BlockRowProps ==
  ASSUME NEW n \in Heights
  PROVE  /\ BlockRow(n) \in [number : Nat, timestamp : Nat, confirmed : BOOLEAN]
         /\ BlockRow(n).number = n
         /\ BlockRow(n).timestamp = Time[n]
         /\ BlockRow(n) # NoBlock
<1>1. n \in Nat /\ n # 0 /\ Time[n] \in Nat
  BY IndexerAssumption DEF Heights
<1> QED
  BY <1>1 DEF BlockRow, NoBlock

\* The overflow query returns the lowest of the confirmed blocks that overflow.
LEMMA OverflowResult ==
  ASSUME DBInv, NEW q,
         NEW b \in getFirstConfirmedOverflowBlock(q), b # NoBlock
  PROVE  /\ b.number \in firstBlock..lastBlock
         /\ b.number \in Heights
         /\ b = BlockRow(b.number)
         /\ IsOverflow(b, q)
         /\ \A n \in firstBlock..lastBlock : IsOverflow(BlockRow(n), q) => b.number <= n
<1>1. /\ b \in confirmedBlocks
      /\ IsOverflow(b, q)
      /\ \A c \in confirmedBlocks : IsOverflow(c, q) => b.number <= c.number
  BY DEF getFirstConfirmedOverflowBlock, getOne
<1>2. PICK n \in firstBlock..lastBlock : b = BlockRow(n)
  BY <1>1, ConfirmedBlocks
<1>3. firstBlock..lastBlock \subseteq Heights
  BY IndexerAssumption DEF DBInv, DBTypeOK, Heights
<1>4. b.number = n
  BY <1>2, <1>3, BlockRowProps
<1>5. ASSUME NEW k \in firstBlock..lastBlock, IsOverflow(BlockRow(k), q)
      PROVE  b.number <= k
  BY <1>1, <1>3, <1>5, ConfirmedBlocks, BlockRowProps
<1> QED
  BY <1>1, <1>2, <1>3, <1>4, <1>5

\* queryBlock returns the row of that height if it is stored, else nothing.
LEMMA BlockResult ==
  ASSUME DBInv, NEW n \in Nat, NEW b \in queryBlock(n)
  PROVE  /\ n \in firstBlock..lastBlock => b = BlockRow(n) /\ b # NoBlock
         /\ n \notin firstBlock..lastBlock => b = NoBlock
<1>1. firstBlock..lastBlock \subseteq Heights
  BY IndexerAssumption DEF DBInv, DBTypeOK, Heights
<1>2. {c \in confirmedBlocks : c.number = n}
        = IF n \in firstBlock..lastBlock THEN {BlockRow(n)} ELSE {}
  BY <1>1, ConfirmedBlocks, BlockRowProps
<1> QED
  BY <1>1, <1>2, BlockRowProps DEF queryBlock, getOne

\* The last block before a time is the highest of the stored ones before it.
LEMMA LastBeforeResult ==
  ASSUME DBInv, NEW time,
         NEW b \in getLastConfirmedBlockStrictlyBeforeTime(time), b # NoBlock
  PROVE  /\ b.number \in firstBlock..lastBlock
         /\ b.number \in Heights
         /\ b = BlockRow(b.number)
         /\ IsBefore(b, time)
         /\ \A n \in firstBlock..lastBlock : IsBefore(BlockRow(n), time) => n <= b.number
<1>1. /\ b \in confirmedBlocks
      /\ IsBefore(b, time)
      /\ \A c \in confirmedBlocks : IsBefore(c, time) => b.number >= c.number
  BY DEF getLastConfirmedBlockStrictlyBeforeTime, getOne
<1>2. PICK n \in firstBlock..lastBlock : b = BlockRow(n)
  BY <1>1, ConfirmedBlocks
<1>3. firstBlock..lastBlock \subseteq Heights
  BY IndexerAssumption DEF DBInv, DBTypeOK, Heights
<1>4. b.number = n
  BY <1>2, <1>3, BlockRowProps
<1>5. ASSUME NEW k \in firstBlock..lastBlock, IsBefore(BlockRow(k), time)
      PROVE  k <= b.number
  <2>1. BlockRow(k) \in confirmedBlocks /\ BlockRow(k).number = k
    BY <1>3, <1>5, ConfirmedBlocks, BlockRowProps
  <2>2. b.number >= k
    BY <1>1, <1>5, <2>1
  <2>3. b.number \in Nat /\ k \in Nat
    BY <1>3, <1>4, IndexerAssumption DEF Heights
  <2> QED
    BY <2>2, <2>3
<1> QED
  BY <1>1, <1>2, <1>3, <1>4, <1>5

-----------------------------------------------------------------------------
(* The indexer *)

LEMMA DBInitInv == DBInit => DBInv
<1> SUFFICES ASSUME DBInit PROVE DBInv
  OBVIOUS
<1>1. /\ MaxHeight \in Nat
      /\ Heights = 1..MaxHeight
  BY IndexerAssumption DEF Heights
<1>2. DBTypeOK
  BY <1>1 DEF DBInit, DBTypeOK
<1> QED
  BY <1>1, <1>2 DEF DBInit, DBInv

\* What the database was proved to be stays so in the steps that leave it alone.
LEMMA DBUnchanged ==
  ASSUME DBInv, UNCHANGED dbVars
  PROVE  DBInv'
BY DEF DBInv, DBTypeOK, dbVars

\* The tables move upwards at both ends, and the chain stays.
LEMMA IndexerMoves ==
  ASSUME DBInv, Indexer
  PROVE  /\ DBInv'
         /\ ledger' = ledger
         /\ firstTx <= firstTx'
         /\ firstBlock <= firstBlock'
         /\ lastBlock <= lastBlock'
         /\ lastTx <= lastTx'
         /\ indexed <= indexed'
<1> DEFINE Header == [number : Heights, timestamp : Nat, confirmed : {FALSE}]
<1>a. /\ MaxHeight \in Nat
      /\ \A n \in Heights : n \in Nat /\ n # 0 /\ n <= MaxHeight /\ Time[n] \in Nat
      /\ \A n \in Nat : n # 0 /\ n <= MaxHeight => n \in Heights
      /\ ForkTimes \subseteq Nat
  BY IndexerAssumption DEF Heights
<1>m. MaxHeight \in Nat
  BY <1>a
<1>b. /\ ledger \in Ledgers
      /\ firstBlock \in Nat \ {0} /\ firstTx \in Nat \ {0}
      /\ lastBlock \in Nat /\ lastBlock <= MaxHeight
      /\ lastTx \in Nat /\ lastTx <= MaxHeight
      /\ indexed \in Nat /\ indexed <= MaxHeight
      /\ firstTx <= firstBlock /\ firstBlock <= lastBlock + 1
      /\ indexed <= lastBlock /\ indexed <= lastTx
      /\ Source = "xrp" => headers = {}
  BY <1>m DEF DBInv, DBTypeOK
<1>h. headers \subseteq Header
  BY DEF DBInv, DBTypeOK
<1> HIDE DEF Header
<1>c. SUFFICES /\ ledger' = ledger
               /\ firstBlock' \in Nat \ {0} /\ firstTx' \in Nat \ {0}
               /\ lastBlock' \in Nat /\ lastBlock' <= MaxHeight
               /\ lastTx' \in Nat /\ lastTx' <= MaxHeight
               /\ indexed' \in Nat /\ indexed' <= MaxHeight
               /\ headers' \subseteq Header
               /\ firstTx' <= firstBlock' /\ firstBlock' <= lastBlock' + 1
               /\ indexed' <= lastBlock' /\ indexed' <= lastTx'
               /\ Source = "xrp" => headers' = {}
               /\ firstTx <= firstTx' /\ firstBlock <= firstBlock'
               /\ lastBlock <= lastBlock' /\ lastTx <= lastTx' /\ indexed <= indexed'
  <2> SUFFICES ASSUME /\ ledger' = ledger
                      /\ firstBlock' \in Nat \ {0} /\ firstTx' \in Nat \ {0}
                      /\ lastBlock' \in Nat /\ lastBlock' <= MaxHeight
                      /\ lastTx' \in Nat /\ lastTx' <= MaxHeight
                      /\ indexed' \in Nat /\ indexed' <= MaxHeight
                      /\ headers' \subseteq Header
               PROVE  DBTypeOK'
    BY DEF DBInv
  <2>1. headers' \in SUBSET [number : Heights, timestamp : Nat, confirmed : {FALSE}]
    BY DEF Header
  <2>2. ledger' \in Ledgers
    BY <1>b
  <2>3. lastBlock' \in 0..MaxHeight /\ lastTx' \in 0..MaxHeight /\ indexed' \in 0..MaxHeight
    BY <1>m
  <2> QED
    BY <2>1, <2>2, <2>3 DEF DBTypeOK
<1>1. CASE StoreHeader
  <2>1. PICK n \in (lastBlock + 1)..MaxHeight : \E time \in ForkTimes \cup {Time[n]} :
          headers' = headers
            \cup {[number |-> n, timestamp |-> time, confirmed |-> FALSE]}
    BY <1>1 DEF StoreHeader
  <2>2. PICK time \in ForkTimes \cup {Time[n]} :
          headers' = headers
            \cup {[number |-> n, timestamp |-> time, confirmed |-> FALSE]}
    BY <2>1
  <2>3. n \in Heights /\ time \in Nat
    BY <1>a, <1>b, <1>h, <2>2
  <2>4. [number |-> n, timestamp |-> time, confirmed |-> FALSE] \in Header
    BY <2>3 DEF Header
  <2>5. headers' \subseteq Header
    BY <1>h, <2>2, <2>4
  <2> QED
    BY <1>1, <1>b, <2>5 DEF StoreHeader
<1>2. CASE ForgetHeader
  BY <1>2, <1>b, <1>h DEF ForgetHeader
<1>3. CASE StoreTransactions
  BY <1>3, <1>a, <1>b, <1>h DEF StoreTransactions
<1>4. CASE ConfirmBlock
  BY <1>4, <1>a, <1>b, <1>h DEF ConfirmBlock
<1>5. CASE UpdateState
  BY <1>5, <1>a, <1>b, <1>h DEF UpdateState
<1>6. CASE DropBlock
  BY <1>6, <1>a, <1>b, <1>h DEF DropBlock
<1>7. CASE DropTransactions
  BY <1>7, <1>a, <1>b, <1>h DEF DropTransactions
<1> QED
  BY <1>1, <1>2, <1>3, <1>4, <1>5, <1>6, <1>7 DEF Indexer
=============================================================================
