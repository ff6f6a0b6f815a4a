-------------------------- MODULE IndexerApi_proofs --------------------------
(***************************************************************************)
(* Ranges and refusals of the indexer API are true, for every chain, page  *)
(* limit and set of requests.                                              *)
(*                                                                         *)
(* What a request found stored at the beginning is above all that is       *)
(* dropped later or was dropped itself, because the tables only grow at    *)
(* the top; so the invariant keeps the upper ends, and a read that finds   *)
(* nothing leaves the lower end as the only reason.                        *)
(***************************************************************************)
EXTENDS IndexerApi, IndexedQueryManager_proofs, SequenceTheorems, FiniteSetTheorems

TransactionRoutes == {"transaction/:txHash", "transaction-block"}

\* The read that is waited for is one of the route's.
ReadInv ==
  /\ request \in Requests
  /\ \/ pc \in {"idle", "done", request.route}
     \/ pc = "prune" /\ request.route = "block-range"
     \/ pc = "blockOf" /\ request.route = "transaction-block"

AnswerInv ==
  /\ DOMAIN answer = DOMAIN NoData
  /\ answer.status = "ERROR" => pc = "done"
  /\ pc = "idle" => answer = NoData /\ offset = 0

\* Both tables reach up to the end of a range, read or reported.
RangeInv ==
  /\ tail \in Nat
  /\ pc = "prune" =>
       resTop.indexed \in Nat /\ resTop.indexed <= lastBlock /\ resTop.indexed <= lastTx
  /\ \A i \in DOMAIN answer.range : LET range == answer.range[i] IN
       /\ range.first \in Nat /\ range.last \in Nat
       /\ range.last <= lastBlock /\ range.last <= lastTx

\* What was stored at the beginning is below the upper end of its table.
StoredInv ==
  stored =>
    /\ request.route \in {"confirmed-block-at", "transaction"} \cup TransactionRoutes
    /\ request.route = "confirmed-block-at" =>
         request.blockNumber \in Nat \ {0} /\ request.blockNumber <= lastBlock
    /\ request.route \in TransactionRoutes =>
         \E n \in Heights : \E t \in ledger[n] :
           n <= lastBlock /\ n <= lastTx /\ t.id = request.txHash

\* The transaction read is the one asked for.
TxInv ==
  pc = "blockOf" =>
    \E n \in Heights : \E t \in ledger[n] : tx = {<<n, t>>} /\ t.id = request.txHash

\* The rows of a list without responses, as the query builder numbers them.
Rows(q) == {<<row, 1>> : row \in Listing(q)}

Ordered(rows) == Orders(rows, LAMBDA r, s : listedBefore(r[1], s[1]))

Sorted(q) == Ordered(Rows(q))

Item == [number : Heights, id : Nat, whole : BOOLEAN]

\* The item that a row becomes.
Shows(item, row) == item.number = row[1] /\ item.id = row[2].id

\* What was listed so far is the beginning of the sorted list, of which there is
\* one, whatever was stored or dropped between the pages.
PagesInv ==
  LET q == request.transaction IN
    request.route = "transaction" /\ stored /\ ~Joins(q) =>
      /\ q.from # {} /\ q.to # {} /\ \A to \in q.to : to <= indexed
      /\ pc = "transaction" /\ (\A from \in q.from : from >= firstTx) =>
           /\ offset \in Nat
           /\ answer.items \in Seq(Item) /\ Len(answer.items) = offset
           /\ \A all \in Sorted(q) :
                /\ offset <= Len(all)
                /\ \A i \in 1..offset : Shows(answer.items[i], all[i][1])

IInv ==
  /\ DBInv
  /\ ReadInv
  /\ AnswerInv
  /\ RangeInv
  /\ StoredInv
  /\ TxInv
  /\ PagesInv
  /\ PagesComplete
  /\ NotFoundJustified

-----------------------------------------------------------------------------
(* The tables *)

\* What the tables' ends are.
LEMMA EndsProps ==
  ASSUME DBInv
  PROVE  /\ firstBlock \in Nat \ {0} /\ firstTx \in Nat \ {0}
         /\ lastBlock \in Nat /\ lastTx \in Nat /\ indexed \in Nat
         /\ firstTx <= firstBlock
         /\ indexed <= lastBlock /\ indexed <= lastTx
         /\ firstBlock..lastBlock \subseteq Heights
         /\ firstTx..lastTx \subseteq Heights
BY IndexerAssumption DEF DBInv, DBTypeOK, Heights

-----------------------------------------------------------------------------
(* Lists *)

LEMMA ListingRows ==
  ASSUME ledger \in Ledgers, NEW q, NEW row \in Listing(q)
  PROVE  /\ row[1] \in Heights /\ row[1] \in Nat
         /\ row[2] \in ledger[row[1]] /\ row = <<row[1], row[2]>>
         /\ row[2].id \in Nat
<1>1. PICK n \in Heights : row \in {<<n, t>> : t \in ledger[n]}
  BY DEF Listing
<1>2. PICK t \in ledger[n] : row = <<n, t>>
  BY <1>1
<1>3. t \in Transactions /\ n \in Nat
  BY <1>2, IndexerAssumption DEF Heights
<1>4. t.id \in Nat
  BY <1>3, ApiAssumption DEF StoredTransaction
<1> QED
  BY <1>2, <1>3, <1>4

LEMMA ListingFinite ==
  ASSUME ledger \in Ledgers, NEW q
  PROVE  IsFiniteSet(Listing(q))
<1> DEFINE at(n) == {<<n, t>> : t \in ledger[n]}
           blocks == {at(n) : n \in Heights}
<1>1. \A n \in Heights : IsFiniteSet(at(n))
  <2> SUFFICES ASSUME NEW n \in Heights PROVE IsFiniteSet(at(n))
    OBVIOUS
  <2> DEFINE f == [t \in ledger[n] |-> <<n, t>>]
  <2>1. IsFiniteSet(ledger[n])
    BY FiniteAssumption
  <2>2. f \in Surjection(ledger[n], at(n))
    BY DEF Surjection
  <2> QED
    BY <2>1, <2>2, FS_Surjection
<1>2. IsFiniteSet(blocks)
  <2> DEFINE g == [n \in Heights |-> at(n)]
  <2>1. IsFiniteSet(Heights)
    BY IndexerAssumption, FS_Interval DEF Heights
  <2>2. g \in Surjection(Heights, blocks)
    BY DEF Surjection
  <2> QED
    BY <2>1, <2>2, FS_Surjection
<1>3. \A T \in blocks : IsFiniteSet(T)
  BY <1>1
<1>4. IsFiniteSet(UNION blocks)
  BY <1>2, <1>3, FS_UNION
<1>5. Listing(q) \subseteq UNION blocks
  BY DEF Listing
<1> QED
  BY <1>4, <1>5, FS_Subset

LEMMA RowsFinite ==
  ASSUME ledger \in Ledgers, NEW q
  PROVE  IsFiniteSet(Rows(q)) /\ Cardinality(Rows(q)) \in Nat
<1> DEFINE f == [row \in Listing(q) |-> <<row, 1>>]
<1>1. f \in Surjection(Listing(q), Rows(q))
  BY DEF Surjection, Rows
<1> QED
  BY <1>1, ListingFinite, FS_Surjection, FS_CardinalityType

\* The query finds all that is asked for within the tables.
LEMMA MatchingRows ==
  ASSUME DBInv, NEW q \in QueryTransaction, ~Joins(q),
         q.from # {}, q.to # {},
         \A from \in q.from : from >= firstTx,
         \A to \in q.to : to <= indexed
  PROVE  matching(q) = Rows(q)
<1> DEFINE matches(row) ==
      /\ \A from \in q.from : row[1] >= from
      /\ \A to \in q.to : row[1] <= to
      /\ \A ref \in q.paymentReference : row[2].reference = ref
      /\ Source = "xrp" => \A a \in q.sourceAddress : row[2].sourceAddress = a
    found == {r \in transactionTable : matches(r)}
<1>1. found = Listing(q)
  <2>1. ASSUME NEW row \in found PROVE row \in Listing(q)
    <3>1. PICK n \in firstTx..lastTx : row \in {<<n, t>> : t \in ledger[n]}
      BY DEF transactionTable
    <3>2. n \in Heights
      BY EndsProps
    <3> QED
      BY <3>1, <3>2 DEF Listing
  <2>2. ASSUME NEW row \in Listing(q) PROVE row \in found
    <3>1. PICK n \in Heights : row \in {<<n, t>> : t \in ledger[n]}
      BY DEF Listing
    <3>2. row[1] = n /\ n \in Nat
      BY <3>1 DEF Heights
    <3>3. PICK from \in q.from : from \in Nat /\ n >= from /\ from >= firstTx
      BY <3>2 DEF Listing, QueryTransaction
    <3>4. PICK to \in q.to : to \in Nat /\ n <= to /\ to <= indexed
      BY <3>2 DEF Listing, QueryTransaction
    <3>5. n \in firstTx..lastTx
      BY <3>2, <3>3, <3>4, EndsProps
    <3>6. row \in transactionTable
      BY <3>1, <3>5 DEF transactionTable
    <3> QED
      BY <3>6 DEF Listing
  <2> QED
    BY <2>1, <2>2
<1>2. matching(q) = UNION {{row} \X (1..1) : row \in found}
  BY DEF matching
<1>3. \A row : {row} \X (1..1) = {<<row, 1>>}
  OBVIOUS
<1> QED
  BY <1>1, <1>2, <1>3 DEF Rows

\* What an order of the rows is.
LEMMA SortedProps ==
  ASSUME ledger \in Ledgers, NEW q, NEW all \in Sorted(q)
  PROVE  /\ Len(all) = Cardinality(Rows(q)) /\ Len(all) \in Nat
         /\ DOMAIN all = 1..Len(all)
         /\ all \in Seq(Rows(q))
         /\ \A i \in DOMAIN all : \E row \in Listing(q) : all[i] = <<row, 1>>
         /\ \A row \in Listing(q) : \E i \in DOMAIN all : all[i] = <<row, 1>>
         /\ \A i, j \in DOMAIN all : i # j => all[i] # all[j]
         /\ \A i, j \in DOMAIN all : i < j => ~listedBefore(all[j][1], all[i][1])
<1> DEFINE n == Cardinality(Rows(q))
<1>1. n \in Nat /\ IsFiniteSet(Rows(q))
  BY RowsFinite
<1>2. /\ all \in [1..n -> Rows(q)]
      /\ \A i, j \in 1..n : i # j => all[i] # all[j]
      /\ \A i, j \in DOMAIN all : i < j => ~listedBefore(all[j][1], all[i][1])
  BY DEF Sorted, Ordered, Orders, SetToSeqs
<1>3. all \in Seq(Rows(q)) /\ Len(all) = n /\ DOMAIN all = 1..n
  BY <1>1, <1>2
<1>4. all \in Surjection(1..n, Rows(q))
  <2>1. all \in Injection(1..n, Rows(q))
    BY <1>2 DEF Injection, IsInjective
  <2>2. Cardinality(1..n) = n
    BY <1>1, FS_Interval
  <2> QED
    BY <1>1, <2>1, <2>2, FS_Injection
<1>5. \A r \in Rows(q) : \E i \in 1..n : all[i] = r
  BY <1>4 DEF Surjection
<1>6. \A i \in 1..n : \E row \in Listing(q) : all[i] = <<row, 1>>
  BY <1>2 DEF Rows
<1>7. \A row \in Listing(q) : \E i \in 1..n : all[i] = <<row, 1>>
  BY <1>5 DEF Rows
<1>8. n = Cardinality(Rows(q))
  OBVIOUS
<1> HIDE DEF n
<1>9. \A i, j \in DOMAIN all : i # j => all[i] # all[j]
  BY <1>2, <1>3
<1> QED
  BY <1>1, <1>2, <1>3, <1>6, <1>7, <1>8, <1>9

\* Of two rows of the chain, one is listed before the other.
LEMMA ListedTotally ==
  ASSUME ledger \in Ledgers, NEW q, NEW r \in Listing(q), NEW s \in Listing(q), r # s
  PROVE  listedBefore(r, s) \/ listedBefore(s, r)
<1>1. /\ r[1] \in Heights /\ r[2] \in ledger[r[1]] /\ r = <<r[1], r[2]>>
      /\ s[1] \in Heights /\ s[2] \in ledger[s[1]] /\ s = <<s[1], s[2]>>
      /\ r[1] \in Nat /\ s[1] \in Nat /\ r[2].id \in Nat /\ s[2].id \in Nat
  BY ListingRows
<1>2. r[2].id # s[2].id
  BY <1>1, TransactionIdAssumption
<1> QED
  BY <1>1, <1>2 DEF listedBefore

\* The order of a list is determined: pages that are queried at different times
\* are pages of the same sequence.
LEMMA SortedUnique ==
  ASSUME ledger \in Ledgers, NEW q, NEW all \in Sorted(q), NEW other \in Sorted(q)
  PROVE  all = other
<1>1. /\ DOMAIN all = 1..Len(all) /\ DOMAIN other = 1..Len(all) /\ Len(all) \in Nat
      /\ all \in Seq(Rows(q)) /\ other \in Seq(Rows(q))
  BY SortedProps
<1> DEFINE n == Len(all)
           differ == {i \in 1..n : all[i] # other[i]}
<1>2. SUFFICES ASSUME differ # {} PROVE FALSE
  <2>1. all = [i \in 1..n |-> all[i]] /\ other = [i \in 1..n |-> other[i]]
    BY <1>1
  <2> QED
    BY <1>2, <2>1
<1>14. /\ \A i \in 1..n : \E row \in Listing(q) : all[i] = <<row, 1>>
      /\ \A i \in 1..n : \E row \in Listing(q) : other[i] = <<row, 1>>
  <2>1. \A i \in DOMAIN all : \E row \in Listing(q) : all[i] = <<row, 1>>
    BY SortedProps
  <2>2. \A i \in DOMAIN other : \E row \in Listing(q) : other[i] = <<row, 1>>
    BY SortedProps
  <2> QED
    BY <1>1, <2>1, <2>2
<1>3. PICK i \in differ : \A k \in differ : i <= k
  <2>1. differ \in SUBSET Nat
    OBVIOUS
  <2> QED
    BY <1>2, <2>1, LowestExists
<1>4. i \in 1..n /\ all[i] # other[i] /\ \A k \in 1..n : k < i => all[k] = other[k]
  BY <1>3
<1>5. PICK r \in Listing(q) : all[i] = <<r, 1>>
  BY <1>4, <1>14
<1>6. PICK s \in Listing(q) : other[i] = <<s, 1>>
  BY <1>4, <1>14
<1>7. r # s
  BY <1>4, <1>5, <1>6
<1>8. PICK j \in 1..n : other[j] = <<r, 1>>
  BY <1>1, SortedProps
<1>9. PICK k \in 1..n : all[k] = <<s, 1>>
  BY <1>1, SortedProps
<1>10. i < j
  <2>1. j # i
    BY <1>6, <1>7, <1>8
  <2>2. \A a, b \in 1..n : a # b => all[a] # all[b]
    BY <1>1, SortedProps
  <2>3. ~(j < i)
    BY <1>4, <1>5, <1>8, <2>1, <2>2
  <2> QED
    BY <1>4, <2>1, <2>3
<1>11. i < k
  <2>1. k # i
    BY <1>5, <1>7, <1>9
  <2>2. \A a, b \in 1..n : a # b => other[a] # other[b]
    BY <1>1, SortedProps
  <2>3. ~(k < i)
    BY <1>4, <1>6, <1>9, <2>1, <2>2
  <2> QED
    BY <1>4, <2>1, <2>3
<1>12. ~listedBefore(s, r)
  <2>1. ~listedBefore(all[k][1], all[i][1])
    BY <1>1, <1>4, <1>11, SortedProps
  <2> QED
    BY <1>5, <1>9, <2>1
<1>13. ~listedBefore(r, s)
  <2>1. ~listedBefore(other[j][1], other[i][1])
    BY <1>1, <1>4, <1>10, SortedProps
  <2> QED
    BY <1>6, <1>8, <2>1
<1> QED
  BY <1>7, <1>12, <1>13, ListedTotally

\* Where a page ends.
LEMMA PageEnd ==
  ASSUME NEW start \in Nat, NEW length \in Nat, NEW len \in Nat, start <= len
  PROVE  LET last == Min({start + length, len}) IN
           /\ last \in Nat /\ start <= last /\ last <= len
           /\ last - start \in Nat /\ last - start <= length
           /\ last - start < length => last = len
<1> DEFINE last == Min({start + length, len})
<1>1. \E x \in {start + length, len} : \A y \in {start + length, len} : x <= y
  OBVIOUS
<1>2. last \in {start + length, len} /\ last <= start + length /\ last <= len
  BY <1>1 DEF Min
<1> HIDE DEF last
<1>3. /\ last \in Nat /\ start <= last /\ last <= len
      /\ last - start \in Nat /\ last - start <= length
      /\ last - start < length => last = len
  BY <1>2
<1> QED
  BY <1>3 DEF last

\* Without responses every row of a page is an item.
LEMMA PageItems ==
  ASSUME ledger \in Ledgers, NEW q, ~Joins(q), NEW all \in Sorted(q),
         NEW start \in Nat, NEW length \in Nat, start <= Len(all)
  PROVE  LET items == itemsOf(Page(all, start, length), q) IN
           /\ items \in Seq(Item)
           /\ Len(items) <= length
           /\ Len(items) < length => start + Len(items) = Len(all)
           /\ start + Len(items) <= Len(all)
           /\ \A i \in 1..Len(items) : Shows(items[i], all[start + i][1])
<1> DEFINE last == Min({start + length, Len(all)})
           n == last - start
           page == Page(all, start, length)
           items == itemsOf(page, q)
<1>1. /\ Len(all) \in Nat /\ DOMAIN all = 1..Len(all)
      /\ \A i \in DOMAIN all : all[i] \in Rows(q)
      /\ \A i, j \in DOMAIN all : i # j => all[i] # all[j]
      /\ \A i \in DOMAIN all : \E row \in Listing(q) : all[i] = <<row, 1>>
  BY SortedProps
<1>2. /\ last \in Nat /\ start <= last /\ last <= Len(all)
      /\ n \in Nat /\ n <= length
      /\ n < length => last = Len(all)
  BY <1>1, PageEnd
<1>3. last = start + n
  <2> HIDE DEF last
  <2> QED
    BY <1>2
<1>4. /\ page \in Seq(Rows(q)) /\ Len(page) = n /\ DOMAIN page = 1..n
      /\ \A i \in 1..n : page[i] = all[start + i]
  <2> HIDE DEF last
  <2>1. page = SubSeq(all, start + 1, last)
    BY DEF Page, last
  <2>2. \A i \in (start + 1)..last : all[i] \in Rows(q)
    <3> SUFFICES ASSUME NEW i \in (start + 1)..last PROVE i \in DOMAIN all
      BY <1>1
    <3>1. Len(all) \in Nat /\ last \in Nat /\ last <= Len(all)
      BY <1>1, <1>2
    <3>2. i \in 1..Len(all)
      BY <3>1
    <3> QED
      BY <1>1, <3>2
  <2>3. /\ page \in Seq(Rows(q))
        /\ Len(page) = IF start + 1 <= last THEN last - (start + 1) + 1 ELSE 0
        /\ \A i \in 1..(last - (start + 1) + 1) : page[i] = all[start + 1 + i - 1]
    BY <1>2, <2>1, <2>2, SubSeqProperties
  <2> QED
    BY <1>2, <2>3
<1> HIDE DEF page, n
<1> DEFINE rowsOf(row) == {i \in DOMAIN page : page[i][1] = row}
           firsts == {i \in DOMAIN page : \A j \in rowsOf(page[i][1]) : i <= j}
           kth(k) == CHOOSE i \in firsts : Cardinality({j \in firsts : j < i}) = k - 1
<1>13. ASSUME NEW i \in 1..n
       PROVE  /\ start + i \in DOMAIN all /\ page[i] = all[start + i]
              /\ \E row \in Listing(q) : page[i] = <<row, 1>>
  <2>1. start + i \in DOMAIN all
    <3> HIDE DEF last
    <3>1. Len(all) \in Nat /\ start + n <= Len(all) /\ n \in Nat
      BY <1>1, <1>2, <1>3
    <3>2. start + i \in 1..Len(all)
      BY <3>1
    <3> QED
      BY <1>1, <3>2
  <2> QED
    BY <1>1, <1>4, <2>1
<1>5. \A i, j \in 1..n : page[i][1] = page[j][1] => i = j
  <2> SUFFICES ASSUME NEW i \in 1..n, NEW j \in 1..n, page[i][1] = page[j][1]
               PROVE  i = j
    OBVIOUS
  <2>1. page[i] = page[j]
    BY <1>13
  <2>2. start + i = start + j
    BY <1>1, <1>13, <2>1
  <2> QED
    BY <1>2, <2>2
<1>6. firsts = 1..n
  BY <1>2, <1>4, <1>5
<1>7. Cardinality(firsts) = n
  <2>1. Cardinality(1..n) = n
    BY <1>2, FS_Interval
  <2> QED
    BY <1>6, <2>1
<1>8. ASSUME NEW k \in 1..n PROVE kth(k) = k
  <2>1. ASSUME NEW i \in 1..n PROVE Cardinality({j \in firsts : j < i}) = i - 1
    <3>1. {j \in firsts : j < i} = 1..(i - 1)
      <4> HIDE DEF firsts
      <4> QED
        BY <1>2, <1>6
    <3>2. Cardinality(1..(i - 1)) = i - 1
      BY <1>2, FS_Interval
    <3> QED
      BY <3>1, <3>2
  <2>2. \A i \in firsts : Cardinality({j \in firsts : j < i}) = k - 1 <=> i = k
    BY <1>2, <1>6, <2>1
  <2> HIDE DEF firsts
  <2> QED
    BY <1>6, <2>2
<1>9. items = [k \in 1..n |->
                 [number |-> page[k][1][1], id |-> page[k][1][2].id, whole |-> TRUE]]
  <2>1. items = [k \in 1..Cardinality(firsts) |->
                   LET row == page[kth(k)][1] IN
                     [number |-> row[1], id |-> row[2].id,
                      whole |-> Joins(q) => Cardinality(rowsOf(row)) = row[2].joined]]
    BY DEF itemsOf
  <2> HIDE DEF kth, firsts, rowsOf
  <2> QED
    BY <1>7, <1>8, <2>1
<1>10. ASSUME NEW k \in 1..n
       PROVE  /\ page[k][1][1] \in Heights /\ page[k][1][2].id \in Nat
              /\ page[k][1] = all[start + k][1]
  <2>1. PICK row \in Listing(q) : page[k] = <<row, 1>>
    BY <1>13
  <2> QED
    BY <1>13, <2>1, ListingRows
<1>11. items \in Seq(Item) /\ Len(items) = n
  <2> HIDE DEF items
  <2>1. \A k \in 1..n :
          [number |-> page[k][1][1], id |-> page[k][1][2].id, whole |-> TRUE] \in Item
    BY <1>10 DEF Item
  <2> QED
    BY <1>2, <1>9, <2>1
<1>12. \A k \in 1..n : Shows(items[k], all[start + k][1])
  <2> HIDE DEF items
  <2> QED
    BY <1>9, <1>10 DEF Shows
<1> HIDE DEF items, last
<1>14. /\ Len(items) <= length
       /\ Len(items) < length => start + Len(items) = Len(all)
       /\ start + Len(items) <= Len(all)
  BY <1>2, <1>3, <1>11
<1>15. \A k \in 1..Len(items) : Shows(items[k], all[start + k][1])
  BY <1>11, <1>12
<1> QED
  BY <1>11, <1>14, <1>15 DEF items, page

\* A list with all its transactions, in order.
LEMMA ListingShown ==
  ASSUME ledger \in Ledgers, NEW q, NEW all \in Sorted(q),
         NEW items \in Seq(Item), Len(items) = Len(all),
         \A i \in 1..Len(all) : Shows(items[i], all[i][1])
  PROVE  /\ {<<items[i].number, items[i].id>> : i \in DOMAIN items}
              = {<<row[1], row[2].id>> : row \in Listing(q)}
         /\ \A i, j \in DOMAIN items : i < j =>
              \/ items[i].number < items[j].number
              \/ items[i].number = items[j].number /\ items[i].id < items[j].id
<1> DEFINE D == 1..Len(all)
<1>1. /\ DOMAIN items = D /\ DOMAIN all = D /\ D \subseteq Nat
  BY SortedProps
<1>2. /\ \A i \in D : \E row \in Listing(q) : all[i] = <<row, 1>>
      /\ \A row \in Listing(q) : \E i \in D : all[i] = <<row, 1>>
  <2>1. /\ \A i \in DOMAIN all : \E row \in Listing(q) : all[i] = <<row, 1>>
        /\ \A row \in Listing(q) : \E i \in DOMAIN all : all[i] = <<row, 1>>
    BY SortedProps
  <2> QED
    BY <1>1, <2>1
<1>3. /\ \A i, j \in D : i # j => all[i] # all[j]
      /\ \A i, j \in D : i < j => ~listedBefore(all[j][1], all[i][1])
  BY <1>1, SortedProps
<1>4. \A i \in D : items[i].number = all[i][1][1] /\ items[i].id = all[i][1][2].id
  BY DEF Shows
<1> HIDE DEF D
<1>5. {<<items[i].number, items[i].id>> : i \in D} = {<<row[1], row[2].id>> : row \in Listing(q)}
  <2>1. ASSUME NEW i \in D
        PROVE  \E row \in Listing(q) : <<items[i].number, items[i].id>> = <<row[1], row[2].id>>
    <3>1. PICK row \in Listing(q) : all[i] = <<row, 1>>
      BY <1>2
    <3> QED
      BY <1>4, <3>1
  <2>2. ASSUME NEW row \in Listing(q)
        PROVE  \E i \in D : <<items[i].number, items[i].id>> = <<row[1], row[2].id>>
    <3>1. PICK i \in D : all[i] = <<row, 1>>
      BY <1>2
    <3> QED
      BY <1>4, <3>1
  <2> QED
    BY <2>1, <2>2
<1>6. ASSUME NEW i \in D, NEW j \in D, i < j
      PROVE  \/ items[i].number < items[j].number
             \/ items[i].number = items[j].number /\ items[i].id < items[j].id
  <2>1. PICK r \in Listing(q) : all[i] = <<r, 1>>
    BY <1>2
  <2>2. PICK s \in Listing(q) : all[j] = <<s, 1>>
    BY <1>2
  <2>3. i # j
    BY <1>1, <1>6
  <2>4. r # s /\ ~listedBefore(s, r)
    BY <1>3, <1>6, <2>1, <2>2, <2>3
  <2>5. listedBefore(r, s)
    BY <2>4, ListedTotally
  <2> QED
    BY <1>4, <2>1, <2>2, <2>5 DEF listedBefore
<1> QED
  BY <1>1, <1>5, <1>6

LEMMA LimitTyped ==
  ASSUME NEW q \in QueryTransaction
  PROVE  theLimit(q) \in Nat
<1> DEFINE S == {indexerServerPageLimit} \cup q.limit
<1>1. S \in SUBSET Nat /\ S # {}
  BY ApiAssumption DEF QueryTransaction
<1> HIDE DEF S
<1>2. \E x \in S : \A y \in S : x <= y
  BY <1>1, LowestExists
<1>3. Min(S) \in S
  BY <1>2 DEF Min
<1> QED
  BY <1>1, <1>3 DEF theLimit, S

\* The next page goes on where the last one ended, or ends the list.
LEMMA NextPage ==
  ASSUME ledger \in Ledgers, NEW q \in QueryTransaction, ~Joins(q), NEW all \in Sorted(q),
         NEW before \in Seq(Item), NEW start \in Nat, Len(before) = start, start <= Len(all),
         \A i \in 1..start : Shows(before[i], all[i][1])
  PROVE  LET items == itemsOf(Page(all, start, theLimit(q)), q)
             after == before \o items IN
           /\ after \in Seq(Item)
           /\ Len(items) \in Nat
           /\ \A i \in 1..Len(after) : Shows(after[i], all[i][1])
           /\ Len(items) < theLimit(q) => Len(after) = Len(all)
           /\ ~(Len(items) < theLimit(q)) =>
                Len(after) = start + theLimit(q) /\ Len(after) <= Len(all)
<1> DEFINE items == itemsOf(Page(all, start, theLimit(q)), q)
           after == before \o items
<1>1. /\ items \in Seq(Item) /\ Len(items) <= theLimit(q)
      /\ Len(items) < theLimit(q) => start + Len(items) = Len(all)
      /\ start + Len(items) <= Len(all)
      /\ \A i \in 1..Len(items) : Shows(items[i], all[start + i][1])
  BY LimitTyped, PageItems
<1> HIDE DEF items
<1>2. /\ after \in Seq(Item) /\ Len(after) = start + Len(items)
      /\ \A i \in 1..(start + Len(items)) :
           after[i] = IF i <= start THEN before[i] ELSE items[i - start]
  BY <1>1, ConcatProperties
<1>3. Len(items) \in Nat /\ theLimit(q) \in Nat /\ Len(all) \in Nat
  BY <1>1, LimitTyped, LenProperties, SortedProps
<1> HIDE DEF after
<1>4. ASSUME NEW i \in 1..Len(after) PROVE Shows(after[i], all[i][1])
  <2>1. CASE i <= start
    <3>1. i \in 1..start /\ after[i] = before[i]
      BY <1>2, <1>3, <2>1
    <3> QED
      BY <3>1
  <2>2. CASE ~(i <= start)
    <3>1. i - start \in 1..Len(items) /\ after[i] = items[i - start] /\ start + (i - start) = i
      BY <1>2, <1>3, <2>2
    <3> QED
      BY <1>1, <3>1
  <2> QED
    BY <2>1, <2>2
<1>5. /\ Len(items) < theLimit(q) => Len(after) = Len(all)
      /\ ~(Len(items) < theLimit(q)) =>
           Len(after) = start + theLimit(q) /\ Len(after) <= Len(all)
  BY <1>1, <1>2, <1>3
<1> QED
  BY <1>2, <1>3, <1>4, <1>5 DEF items, after

-----------------------------------------------------------------------------
(* The request's steps *)

LEMMA InitInv == Init => IInv
<1> SUFFICES ASSUME Init PROVE IInv
  OBVIOUS
<1>1. DBInv
  BY DBInitInv DEF Init
<1>2. ReadInv /\ AnswerInv /\ StoredInv /\ TxInv /\ NotFoundJustified
  BY DEF Init, ReadInv, AnswerInv, StoredInv, TxInv, NotFoundJustified, NoData
<1>4. PagesInv /\ PagesComplete
  BY DEF Init, PagesInv, PagesComplete
<1>3. RangeInv
  BY DEF Init, RangeInv, NoData
<1> QED
  BY <1>1, <1>2, <1>3, <1>4 DEF IInv

\* What holds in every step of the request, once it was received.
LEMMA RequestFrame ==
  ASSUME IInv, UNCHANGED <<dbVars, tail, request, stored>>
  PROVE  /\ DBInv'
         /\ StoredInv'
         /\ request' \in Requests
BY DBUnchanged DEF IInv, ReadInv, StoredInv, dbVars

\* A reply of an error or of data without a range.
LEMMA ReplyProps ==
  /\ DOMAIN Error = DOMAIN NoData /\ Error.status = "ERROR" /\ Error.range = <<>>
  /\ \A data : DOMAIN data = DOMAIN NoData =>
       /\ DOMAIN OK(data) = DOMAIN NoData
       /\ OK(data).status = "OK" /\ OK(data).range = data.range
  /\ DOMAIN NoData = {"status", "blocks", "items", "range"}
  /\ NoData.range = <<>>
BY DEF Error, OK, NoData

\* What remains to be shown of a request's step that reads no range.
LEMMA ReplyInv ==
  ASSUME IInv, UNCHANGED <<dbVars, tail, request, stored>>,
         pc' = "done",
         DOMAIN answer' = DOMAIN NoData,
         answer'.range \in {<<>>, answer.range},
         request.route # "transaction" \/ answer'.status = "ERROR",
         answer'.status = "ERROR" /\ stored => NotFoundJustified'
  PROVE  IInv'
<1>1. DBInv' /\ StoredInv' /\ request' \in Requests
  BY RequestFrame
<1>2. ReadInv' /\ AnswerInv' /\ TxInv'
  BY <1>1 DEF ReadInv, AnswerInv, TxInv
<1>3. RangeInv'
  <2>1. tail' \in Nat /\ lastBlock' = lastBlock /\ lastTx' = lastTx
    BY DEF IInv, RangeInv, dbVars
  <2>2. \A i \in DOMAIN answer.range : LET range == answer.range[i] IN
          /\ range.first \in Nat /\ range.last \in Nat
          /\ range.last <= lastBlock /\ range.last <= lastTx
    BY DEF IInv, RangeInv
  <2>3. CASE answer'.range = <<>>
    BY <2>1, <2>3 DEF RangeInv
  <2>4. CASE answer'.range = answer.range
    BY <2>1, <2>2, <2>4 DEF RangeInv
  <2> QED
    BY <2>3, <2>4
<1>4. NotFoundJustified'
  BY DEF NotFoundJustified
<1>5. PagesInv' /\ PagesComplete'
  <2>1. request' = request /\ stored' = stored /\ indexed' = indexed
    BY DEF dbVars
  <2>2. PagesComplete'
    BY <2>1 DEF PagesComplete
  <2>3. PagesInv'
    BY <2>1 DEF IInv, PagesInv, Joins
  <2> QED
    BY <2>2, <2>3
<1> QED
  BY <1>1, <1>2, <1>3, <1>4, <1>5 DEF IInv

LEMMA ReceiveInv == IInv /\ Receive => IInv'
<1> SUFFICES ASSUME IInv, Receive PROVE IInv'
  OBVIOUS
<1>1. /\ UNCHANGED <<dbVars, tail, request, resTop, tx, offset, answer>>
      /\ pc = "idle" /\ pc' = request.route /\ stored' = Stored(request)
      /\ answer.status # "ERROR"
      /\ answer = NoData /\ offset = 0
  BY DEF Receive, IInv, AnswerInv
<1>2. DBInv' /\ request' \in Requests /\ request.route \in Routes
  BY <1>1, DBUnchanged, ApiAssumption DEF IInv, ReadInv
<1>3. ReadInv' /\ AnswerInv' /\ TxInv' /\ NotFoundJustified'
  BY <1>1, <1>2 DEF IInv, ReadInv, AnswerInv, TxInv, NotFoundJustified, Routes
<1>4. RangeInv'
  BY <1>1, <1>2 DEF IInv, RangeInv, dbVars, Routes
<1>5. StoredInv'
  <2> SUFFICES ASSUME Stored(request)
               PROVE  /\ request.route \in {"confirmed-block-at", "transaction"}
                                             \cup TransactionRoutes
                      /\ request.route = "confirmed-block-at" =>
                           request.blockNumber \in Nat \ {0} /\ request.blockNumber <= lastBlock
                      /\ request.route \in TransactionRoutes =>
                           \E n \in Heights : \E t \in ledger[n] :
                             n <= lastBlock /\ n <= lastTx /\ t.id = request.txHash
    BY <1>1 DEF StoredInv, dbVars
  <2>1. CASE request.route = "confirmed-block-at"
    <3>1. request.blockNumber \in firstBlock..lastBlock
      BY <2>1 DEF Stored
    <3> QED
      BY <2>1, <3>1, EndsProps DEF IInv, TransactionRoutes
  <2>2. CASE request.route \in TransactionRoutes
    <3>1. PICK n \in (firstTx..lastTx) \cap (firstBlock..lastBlock) :
            \E t \in ledger[n] : t.id = request.txHash
      BY <2>2 DEF Stored, TransactionRoutes
    <3>2. n \in Heights /\ n <= lastBlock /\ n <= lastTx
      BY <3>1, EndsProps DEF IInv
    <3> QED
      BY <2>2, <3>1, <3>2 DEF TransactionRoutes
  <2>3. CASE request.route = "transaction"
    BY <2>3 DEF TransactionRoutes
  <2>4. CASE request.route \in {"block-range", "block", "block/:blockHash"}
    BY <2>4 DEF Stored
  <2> QED
    BY <1>2, <2>1, <2>2, <2>3, <2>4 DEF Routes, TransactionRoutes
<1>6. PagesInv' /\ PagesComplete'
  <2>1. PagesComplete'
    BY <1>1, <1>2 DEF PagesComplete, Routes
  <2>2. PagesInv'
    <3> DEFINE q == request.transaction
    <3> SUFFICES ASSUME request.route = "transaction", Stored(request)
                 PROVE  /\ q.from # {} /\ q.to # {} /\ \A to \in q.to : to <= indexed
                        /\ answer.items \in Seq(Item) /\ Len(answer.items) = 0
                        /\ \A all \in Sorted(q) : 0 <= Len(all)
      BY <1>1 DEF PagesInv, Sorted, Ordered, Rows, Listing, Orders, SetToSeqs, listedBefore,
                  Joins, Shows, dbVars
    <3>1. q.from # {} /\ q.to # {} /\ \A to \in q.to : to <= indexed
      BY DEF Stored
    <3>2. answer.items = <<>>
      BY <1>1 DEF NoData
    <3>3. \A all \in Sorted(q) : 0 <= Len(all)
      BY SortedProps DEF IInv, DBInv, DBTypeOK
    <3> QED
      BY <3>1, <3>2, <3>3
  <2> QED
    BY <2>1, <2>2
<1> QED
  BY <1>2, <1>3, <1>4, <1>5, <1>6 DEF IInv

\* The end of the range is the state row's height.
LEMMA RangeReported ==
  ASSUME IInv, UNCHANGED <<dbVars, tail, request, stored>>,
         request.route = "block-range",
         NEW top, top.indexed \in Nat, top.indexed <= lastBlock, top.indexed <= lastTx,
         Reply(RangeOf(tail, top))
  PROVE  IInv'
<1> DEFINE range == getBlockRange(tail, top)
<1>1. /\ pc' = "done"
      /\ DOMAIN answer' = DOMAIN NoData
      /\ answer'.status = "OK"
      /\ answer'.range = <<range>>
  BY DEF Reply, RangeOf, OK, NoData
<1>2. DBInv' /\ StoredInv' /\ request' \in Requests
  BY RequestFrame
<1>3. ReadInv' /\ AnswerInv' /\ TxInv' /\ NotFoundJustified'
  BY <1>1, <1>2 DEF ReadInv, AnswerInv, TxInv, NotFoundJustified
<1>4. RangeInv'
  <2>1. range.first = tail /\ range.last = top.indexed
    BY DEF getBlockRange
  <2>2. tail \in Nat /\ tail' = tail /\ lastBlock' = lastBlock /\ lastTx' = lastTx
    BY DEF IInv, RangeInv, dbVars
  <2>3. \A i \in DOMAIN <<range>> : <<range>>[i] = range
    OBVIOUS
  <2> HIDE DEF range
  <2> QED
    BY <1>1, <2>1, <2>2, <2>3 DEF RangeInv
<1>5. PagesInv' /\ PagesComplete'
  BY DEF PagesInv, PagesComplete
<1> QED
  BY <1>2, <1>3, <1>4, <1>5 DEF IInv

LEMMA ReadStateInv == IInv /\ ReadState => IInv'
<1> SUFFICES ASSUME IInv, ReadState PROVE IInv'
  OBVIOUS
<1>1. /\ UNCHANGED <<dbVars, tail, request, tx, offset, stored>>
      /\ request.route = "block-range"
      /\ ~stored
  BY ApiAssumption DEF ReadState, IInv, ReadInv, StoredInv, TransactionRoutes, Routes
<1>2. CASE Reply(Error)
  BY <1>1, <1>2, ReplyProps, ReplyInv DEF Reply
<1>3. ASSUME NEW tip \in indexed..MaxHeight,
             resTop' = [indexed |-> indexed, tip |-> tip],
             IF Source = "utxo" THEN pc' = "prune" /\ UNCHANGED answer
             ELSE Reply(RangeOf(tail, resTop'))
      PROVE  IInv'
  <2>1. /\ resTop'.indexed = indexed
        /\ indexed \in Nat /\ indexed <= lastBlock /\ indexed <= lastTx
    BY <1>3, EndsProps DEF IInv
  <2>2. CASE Source # "utxo"
    <3>1. Reply(RangeOf(tail, resTop'))
      BY <1>3, <2>2
    <3> QED
      BY <1>1, <2>1, <3>1, RangeReported
  <2>3. CASE Source = "utxo"
    <3>1. pc' = "prune" /\ UNCHANGED answer
      BY <1>3, <2>3
    <3>2. DBInv' /\ StoredInv' /\ request' \in Requests
      BY <1>1, RequestFrame
    <3>3. AnswerInv'
      BY <3>1 DEF IInv, AnswerInv, ReadState
    <3>4. ReadInv' /\ TxInv' /\ NotFoundJustified'
      BY <1>1, <3>1, <3>2 DEF ReadInv, TxInv, NotFoundJustified
    <3>5. RangeInv'
      BY <1>1, <2>1, <3>1 DEF IInv, RangeInv, dbVars
    <3>6. PagesInv' /\ PagesComplete'
      BY <1>1 DEF PagesInv, PagesComplete
    <3> QED
      BY <3>2, <3>3, <3>4, <3>5, <3>6 DEF IInv
  <2> QED
    BY <2>2, <2>3
<1> QED
  BY <1>2, <1>3 DEF ReadState

LEMMA ReadPruneStateInv == IInv /\ ReadPruneState => IInv'
<1> SUFFICES ASSUME IInv, ReadPruneState PROVE IInv'
  OBVIOUS
<1>1. /\ UNCHANGED <<dbVars, tail, request, resTop, tx, offset, stored>>
      /\ pc = "prune"
      /\ Reply(IF tail = 0 THEN Error ELSE RangeOf(tail, resTop))
  BY DEF ReadPruneState
<1>2. request.route = "block-range" /\ ~stored
  BY <1>1, ApiAssumption DEF IInv, ReadInv, StoredInv, TransactionRoutes, Routes
<1>3. CASE tail = 0
  BY <1>1, <1>2, <1>3, ReplyProps, ReplyInv DEF Reply
<1>4. CASE tail # 0
  BY <1>1, <1>2, <1>4, RangeReported DEF IInv, RangeInv
<1> QED
  BY <1>3, <1>4

\* An error of the block queries means that there are no such rows.
LEMMA BlocksReply ==
  ASSUME NEW rows, Blocks(rows)
  PROVE  /\ pc' = "done"
         /\ DOMAIN answer' = DOMAIN NoData
         /\ answer'.range = <<>>
         /\ answer'.status = "ERROR" => rows = {}
<1>1. CASE rows = {} /\ Reply(Error)
  BY <1>1, ReplyProps DEF Reply
<1>2. ASSUME NEW b \in rows, Reply(OK([NoData EXCEPT !.blocks = <<b>>]))
      PROVE  /\ pc' = "done"
             /\ DOMAIN answer' = DOMAIN NoData
             /\ answer'.range = <<>>
             /\ answer'.status # "ERROR"
  <2> DEFINE data == [NoData EXCEPT !.blocks = <<b>>]
  <2>1. DOMAIN data = DOMAIN NoData /\ data.range = <<>>
    BY DEF NoData
  <2> QED
    BY <1>2, <2>1, ReplyProps DEF Reply
<1> QED
  BY <1>1, <1>2 DEF Blocks

\* A confirmed block is among the rows of its height.
LEMMA NoBlockAt ==
  ASSUME DBInv, NEW n \in Nat, n <= lastBlock, blocksAt(n) = {}
  PROVE  n < firstBlock
<1>1. SUFFICES ASSUME n >= firstBlock PROVE FALSE
  BY EndsProps
<1>2. n \in firstBlock..lastBlock
  BY <1>1, EndsProps
<1>3. n \in Heights
  BY <1>2, EndsProps
<1> QED
  BY <1>2, <1>3, BlockRowProps DEF blocksAt, blockTable

LEMMA ConfirmedBlockAtInv == IInv /\ ConfirmedBlockAt => IInv'
<1> SUFFICES ASSUME IInv, ConfirmedBlockAt PROVE IInv'
  OBVIOUS
<1>1. /\ UNCHANGED <<dbVars, tail, request, stored>>
      /\ request.route = "confirmed-block-at"
      /\ Blocks(blocksAt(request.blockNumber))
  BY DEF ConfirmedBlockAt, IInv, ReadInv
<1>2. ASSUME answer'.status = "ERROR", stored PROVE NotFoundJustified'
  <2>1. blocksAt(request.blockNumber) = {}
    BY <1>1, <1>2, BlocksReply
  <2>2. request.blockNumber \in Nat /\ request.blockNumber <= lastBlock
    BY <1>1, <1>2 DEF IInv, StoredInv
  <2> QED
    BY <1>1, <2>1, <2>2, NoBlockAt DEF NotFoundJustified, IInv, dbVars
<1> QED
  BY <1>1, <1>2, BlocksReply, ReplyInv

LEMMA GetBlockInv == IInv /\ GetBlock => IInv'
<1> SUFFICES ASSUME IInv, GetBlock PROVE IInv'
  OBVIOUS
<1>1. /\ UNCHANGED <<dbVars, tail, request, stored>>
      /\ request.route = "block/:blockHash"
      /\ Blocks({b \in blockTable : hash(b) = request.blockHash})
  BY DEF GetBlock, IInv, ReadInv
<1>2. ~stored
  BY <1>1 DEF IInv, StoredInv, TransactionRoutes
<1> QED
  BY <1>1, <1>2, BlocksReply, ReplyInv

LEMMA ListBlockInv == IInv /\ ListBlock => IInv'
<1> SUFFICES ASSUME IInv, ListBlock PROVE IInv'
  OBVIOUS
<1>1. /\ UNCHANGED <<dbVars, tail, request, stored>>
      /\ request.route = "block"
  BY DEF ListBlock, IInv, ReadInv
<1>2. ~stored
  BY <1>1 DEF IInv, StoredInv, TransactionRoutes
<1>3. CASE Reply(Error)
  BY <1>1, <1>2, <1>3, ReplyProps, ReplyInv DEF Reply
<1>4. ASSUME NEW page, Reply(OK([NoData EXCEPT !.blocks = page]))
      PROVE  IInv'
  <2> DEFINE data == [NoData EXCEPT !.blocks = page]
  <2>1. DOMAIN data = DOMAIN NoData /\ data.range = <<>>
    BY DEF NoData
  <2>2. /\ pc' = "done" /\ DOMAIN answer' = DOMAIN NoData
        /\ answer'.range = <<>>
    BY <1>4, <2>1, ReplyProps DEF Reply
  <2> QED
    BY <1>1, <1>2, <2>2, ReplyInv
<1> QED
  BY <1>3, <1>4 DEF ListBlock

\* A block of the requested transaction below the end of the tables is the only
\* block of it.
LEMMA OnlyBlockOf ==
  ASSUME IInv, NEW n \in Heights, n < firstBlock,
         NEW t \in ledger[n], t.id = request.txHash,
         request.route \in TransactionRoutes, UNCHANGED <<dbVars, request>>
  PROVE  NotFoundJustified'
<1>1. \A m \in Heights : \A s \in ledger[m] : s.id = request.txHash => m = n
  BY TransactionIdAssumption DEF IInv, DBInv, DBTypeOK
<1> QED
  BY <1>1 DEF NotFoundJustified, TransactionRoutes, dbVars

LEMMA GetTransactionInv == IInv /\ GetTransaction => IInv'
<1> SUFFICES ASSUME IInv, GetTransaction PROVE IInv'
  OBVIOUS
<1> DEFINE rows == transactionRows(request.txHash)
<1>1. /\ UNCHANGED <<dbVars, tail, request, resTop, offset, stored>>
      /\ request.route \in TransactionRoutes
      /\ answer.status # "ERROR"
  BY ApiAssumption DEF GetTransaction, IInv, ReadInv, AnswerInv, TransactionRoutes, Routes
<1>2. CASE rows = {} /\ Reply(Error)
  <2>1. ASSUME stored PROVE NotFoundJustified'
    <3>1. PICK n \in Heights : \E t \in ledger[n] : n <= lastTx /\ t.id = request.txHash
      BY <1>1, <2>1 DEF IInv, StoredInv
    <3>2. PICK t \in ledger[n] : n <= lastTx /\ t.id = request.txHash
      BY <3>1
    <3>3. n \notin firstTx..lastTx
      <4> SUFFICES ASSUME n \in firstTx..lastTx PROVE FALSE
        OBVIOUS
      <4>1. <<n, t>> \in transactionTable /\ <<n, t>>[2] = t
        BY <3>2 DEF transactionTable
      <4> QED
        BY <1>2, <3>2, <4>1 DEF transactionRows
    <3>4. n < firstBlock
      BY <3>2, <3>3, EndsProps, IndexerAssumption DEF IInv, Heights
    <3> QED
      BY <1>1, <3>2, <3>4, OnlyBlockOf
  <2> QED
    BY <1>1, <1>2, <2>1, ReplyProps, ReplyInv DEF Reply
<1>3. ASSUME NEW row \in rows, tx' = {row},
             request.route = "transaction-block", pc' = "blockOf", UNCHANGED answer
      PROVE  IInv'
  <2>1. DBInv' /\ StoredInv' /\ request' \in Requests
    BY <1>1, RequestFrame
  <2>2. ReadInv' /\ AnswerInv' /\ NotFoundJustified'
    BY <1>1, <1>3, <2>1 DEF IInv, ReadInv, AnswerInv, NotFoundJustified
  <2>3. RangeInv'
    BY <1>1, <1>3 DEF IInv, RangeInv, dbVars
  <2>4. TxInv'
    <3>1. row \in transactionTable /\ row[2].id = request.txHash
      BY <1>3 DEF transactionRows
    <3>2. PICK n \in firstTx..lastTx : row \in {<<n, t>> : t \in ledger[n]}
      BY <3>1 DEF transactionTable
    <3>3. PICK t \in ledger[n] : row = <<n, t>>
      BY <3>2
    <3>4. n \in Heights /\ t.id = request.txHash
      BY <3>1, <3>3, EndsProps DEF IInv
    <3> QED
      BY <1>1, <1>3, <3>3, <3>4 DEF TxInv, dbVars
  <2>5. PagesInv' /\ PagesComplete'
    BY <1>1 DEF PagesInv, PagesComplete, TransactionRoutes
  <2> QED
    BY <2>1, <2>2, <2>3, <2>4, <2>5 DEF IInv
<1>4. ASSUME NEW item, Reply(OK([NoData EXCEPT !.items = <<item>>]))
      PROVE  IInv'
  <2> DEFINE data == [NoData EXCEPT !.items = <<item>>]
  <2>1. DOMAIN data = DOMAIN NoData /\ data.range = <<>>
    BY DEF NoData
  <2>2. /\ pc' = "done" /\ DOMAIN answer' = DOMAIN NoData
        /\ answer'.range = <<>> /\ answer'.status = "OK"
    BY <1>4, <2>1, ReplyProps DEF Reply
  <2>3. request.route # "transaction"
    BY <1>1 DEF TransactionRoutes
  <2> QED
    BY <1>1, <2>2, <2>3, ReplyInv
<1> QED
  BY <1>2, <1>3, <1>4 DEF GetTransaction

LEMMA GetTransactionBlockInv == IInv /\ GetTransactionBlock => IInv'
<1> SUFFICES ASSUME IInv, GetTransactionBlock PROVE IInv'
  OBVIOUS
<1>1. /\ UNCHANGED <<dbVars, tail, request, resTop, tx, offset, stored>>
      /\ pc = "blockOf" /\ request.route = "transaction-block"
  BY ApiAssumption DEF GetTransactionBlock, IInv, ReadInv, Routes
<1>2. PICK n \in Heights : \E t \in ledger[n] : tx = {<<n, t>>} /\ t.id = request.txHash
  BY <1>1 DEF IInv, TxInv
<1>3. PICK t \in ledger[n] : tx = {<<n, t>>} /\ t.id = request.txHash
  BY <1>2
<1>4. PICK row \in tx : Blocks(blocksAt(row[1]))
  BY DEF GetTransactionBlock
<1>5. row[1] = n
  BY <1>3, <1>4
<1>6. Blocks(blocksAt(n))
  BY <1>4, <1>5
<1>7. ASSUME answer'.status = "ERROR", stored PROVE NotFoundJustified'
  <2>1. blocksAt(n) = {}
    BY <1>6, <1>7, BlocksReply
  <2>2. n <= lastBlock
    <3>1. PICK m \in Heights : \E s \in ledger[m] : m <= lastBlock /\ s.id = request.txHash
      BY <1>1, <1>7 DEF IInv, StoredInv, TransactionRoutes
    <3>2. m = n
      BY <1>3, <3>1, TransactionIdAssumption DEF IInv, DBInv, DBTypeOK
    <3> QED
      BY <3>1, <3>2
  <2>3. n < firstBlock
    BY <2>1, <2>2, NoBlockAt, IndexerAssumption DEF IInv, Heights
  <2> QED
    BY <1>1, <1>3, <2>3, OnlyBlockOf DEF TransactionRoutes
<1> QED
  BY <1>1, <1>6, <1>7, BlocksReply, ReplyInv

\* One more page: what was listed stays the beginning of the list, and after the
\* last page it is the list.
LEMMA PageStep ==
  ASSUME IInv, request.route = "transaction", pc = "transaction",
         UNCHANGED <<dbVars, tail, request, resTop, tx, stored>>,
         NEW all \in Ordered(matching(request.transaction)),
         NEW items,
         items = itemsOf(Page(all, offset, theLimit(request.transaction)),
                         request.transaction),
         answer'.items = answer.items \o items,
         pc' = IF Len(items) < theLimit(request.transaction) THEN "done" ELSE pc,
         offset' = offset + theLimit(request.transaction)
  PROVE  PagesInv' /\ PagesComplete'
<1> DEFINE q == request.transaction
           after == answer.items \o items
<1>1. q \in QueryTransaction /\ ledger \in Ledgers
  BY ApiAssumption DEF IInv, ReadInv, DBInv, DBTypeOK
<1>2. request' = request /\ stored' = stored /\ indexed' = indexed /\ firstTx' = firstTx
      /\ ledger' = ledger
  BY DEF dbVars
<1>3. /\ Sorted(q)' = Sorted(q) /\ Listing(q)' = Listing(q) /\ Joins(q)' = Joins(q)
  BY <1>2 DEF Sorted, Ordered, Rows, Listing, Orders, SetToSeqs, listedBefore, Joins
<1>4. ASSUME stored, ~Joins(q)
      PROVE  q.from # {} /\ q.to # {} /\ \A to \in q.to : to <= indexed
  BY <1>4 DEF IInv, PagesInv
<1>5. ASSUME stored, ~Joins(q), \A from \in q.from : from >= firstTx
      PROVE  /\ after \in Seq(Item) /\ Len(items) \in Nat /\ theLimit(q) \in Nat
             /\ offset \in Nat
             /\ all \in Sorted(q)
             /\ \A i \in 1..Len(after) : Shows(after[i], all[i][1])
             /\ Len(items) < theLimit(q) => Len(after) = Len(all)
             /\ ~(Len(items) < theLimit(q)) =>
                  Len(after) = offset + theLimit(q) /\ Len(after) <= Len(all)
  <2>1. /\ offset \in Nat
        /\ answer.items \in Seq(Item) /\ Len(answer.items) = offset
        /\ \A s \in Sorted(q) :
             /\ offset <= Len(s)
             /\ \A i \in 1..offset : Shows(answer.items[i], s[i][1])
    BY <1>5 DEF IInv, PagesInv
  <2>2. matching(q) = Rows(q)
    BY <1>1, <1>4, <1>5, MatchingRows DEF IInv
  <2>3. all \in Sorted(q)
    BY <2>2 DEF Sorted
  <2>4. offset <= Len(all) /\ \A i \in 1..offset : Shows(answer.items[i], all[i][1])
    BY <2>1, <2>3
  <2>5. LET page == itemsOf(Page(all, offset, theLimit(q)), q)
            list == answer.items \o page IN
          /\ list \in Seq(Item)
          /\ Len(page) \in Nat
          /\ \A i \in 1..Len(list) : Shows(list[i], all[i][1])
          /\ Len(page) < theLimit(q) => Len(list) = Len(all)
          /\ ~(Len(page) < theLimit(q)) =>
               Len(list) = offset + theLimit(q) /\ Len(list) <= Len(all)
    <3> HIDE DEF q
    <3> QED
      BY <1>1, <1>5, <2>1, <2>3, <2>4, NextPage
  <2>6. items = itemsOf(Page(all, offset, theLimit(q)), q)
    OBVIOUS
  <2>7. theLimit(q) \in Nat
    BY <1>1, LimitTyped
  <2> HIDE DEF q
  <2> QED
    BY <2>1, <2>3, <2>5, <2>6, <2>7
<1>6. PagesInv'
  <2> SUFFICES ASSUME stored, ~Joins(q)
               PROVE  /\ q.from # {} /\ q.to # {} /\ \A to \in q.to : to <= indexed
                      /\ pc' = "transaction" /\ (\A from \in q.from : from >= firstTx) =>
                           /\ offset' \in Nat
                           /\ after \in Seq(Item) /\ Len(after) = offset'
                           /\ \A s \in Sorted(q) :
                                /\ offset' <= Len(s)
                                /\ \A i \in 1..offset' : Shows(after[i], s[i][1])
    <3>1. answer'.items = after
      OBVIOUS
    <3> HIDE DEF after
    <3> QED
      BY <1>2, <1>3, <3>1 DEF PagesInv, Shows
  <2>1. ASSUME pc' = "transaction", \A from \in q.from : from >= firstTx
        PROVE  /\ offset' \in Nat
               /\ after \in Seq(Item) /\ Len(after) = offset'
               /\ \A s \in Sorted(q) :
                    /\ offset' <= Len(s)
                    /\ \A i \in 1..offset' : Shows(after[i], s[i][1])
    <3>1. ~(Len(items) < theLimit(q))
      BY <2>1
    <3>2. /\ after \in Seq(Item) /\ Len(after) = offset' /\ offset' \in Nat
          /\ all \in Sorted(q) /\ Len(after) <= Len(all)
          /\ \A i \in 1..Len(after) : Shows(after[i], all[i][1])
      <4>1. offset \in Nat /\ theLimit(q) \in Nat /\ offset' = offset + theLimit(q)
        BY <1>5, <2>1
      <4> HIDE DEF after, q
      <4> QED
        BY <1>5, <2>1, <3>1, <4>1
    <3>3. \A s \in Sorted(q) : s = all
      BY <1>1, <3>2, SortedUnique
    <3> HIDE DEF after
    <3> QED
      BY <3>2, <3>3
  <2> QED
    BY <1>4, <2>1
<1>7. PagesComplete'
  <2> SUFFICES ASSUME pc' = "done", stored, \A from \in q.from : from >= firstTx, ~Joins(q)
               PROVE  /\ {<<after[i].number, after[i].id>> : i \in DOMAIN after}
                           = {<<row[1], row[2].id>> : row \in Listing(q)}
                      /\ \A i, j \in DOMAIN after : i < j =>
                           \/ after[i].number < after[j].number
                           \/ after[i].number = after[j].number /\ after[i].id < after[j].id
    <3>1. answer'.items = after
      OBVIOUS
    <3> HIDE DEF after
    <3> QED
      BY <1>2, <1>3, <3>1 DEF PagesComplete
  <2>1. Len(items) < theLimit(q)
    OBVIOUS
  <2>2. /\ after \in Seq(Item) /\ all \in Sorted(q) /\ Len(after) = Len(all)
        /\ \A i \in 1..Len(all) : Shows(after[i], all[i][1])
    BY <1>5, <2>1
  <2> HIDE DEF after, q
  <2> QED
    BY <1>1, <2>2, ListingShown
<1> QED
  BY <1>6, <1>7

LEMMA ListTransactionInv == IInv /\ ListTransaction => IInv'
<1> SUFFICES ASSUME IInv, ListTransaction PROVE IInv'
  OBVIOUS
<1>1. /\ UNCHANGED <<dbVars, tail, request, resTop, tx, stored>>
      /\ request.route = "transaction" /\ pc = "transaction"
      /\ DOMAIN answer = DOMAIN NoData
  BY ApiAssumption DEF ListTransaction, IInv, ReadInv, AnswerInv
<1>2. CASE Reply(Error)
  BY <1>1, <1>2, ReplyProps, ReplyInv DEF Reply, NotFoundJustified
<1>3. ASSUME NEW items, answer' = OK([answer EXCEPT !.items = items]),
             pc' \in {"done", pc},
             PagesInv', PagesComplete'
      PROVE  IInv'
  <2> DEFINE data == [answer EXCEPT !.items = items]
  <2>1. DOMAIN data = DOMAIN NoData /\ data.range = answer.range
    BY <1>1, ReplyProps
  <2>2. /\ DOMAIN answer' = DOMAIN NoData
        /\ answer'.range = answer.range /\ answer'.status = "OK"
    BY <1>3, <2>1, ReplyProps
  <2>3. DBInv' /\ StoredInv' /\ request' \in Requests
    BY <1>1, RequestFrame
  <2>4. ReadInv' /\ AnswerInv' /\ TxInv' /\ NotFoundJustified'
    BY <1>1, <1>3, <2>2, <2>3 DEF ReadInv, AnswerInv, TxInv, NotFoundJustified
  <2>5. RangeInv'
    BY <1>1, <1>3, <2>2 DEF IInv, RangeInv, dbVars
  <2> QED
    BY <1>3, <2>3, <2>4, <2>5 DEF IInv
<1>4. ASSUME NEW all \in Ordered(matching(request.transaction)),
             NEW items,
             items = itemsOf(Page(all, offset, theLimit(request.transaction)),
                             request.transaction),
             answer' = OK([answer EXCEPT !.items = @ \o items]),
             pc' = IF Len(items) < theLimit(request.transaction) THEN "done" ELSE pc,
             offset' = offset + theLimit(request.transaction)
      PROVE  IInv'
  <2> DEFINE data == [answer EXCEPT !.items = answer.items \o items]
  <2>1. answer' = OK(data) /\ data.items = answer.items \o items
    BY <1>1, <1>4 DEF NoData
  <2>2. answer'.items = answer.items \o items
    <3>1. DOMAIN data = DOMAIN NoData
      BY <1>1
    <3> HIDE DEF data
    <3> QED
      BY <2>1, <3>1 DEF OK, NoData
  <2>3. PagesInv' /\ PagesComplete'
    BY <1>1, <1>4, <2>2, PageStep
  <2> QED
    BY <1>3, <1>4, <2>1, <2>3
<1> QED
  BY <1>2, <1>4 DEF ListTransaction, Ordered

-----------------------------------------------------------------------------
(* The indexer's steps *)

\* What was listed is of the chain, not of the tables.
LEMMA PagesKept ==
  ASSUME IInv, UNCHANGED requestVars, ledger' = ledger,
         firstTx <= firstTx', indexed <= indexed',
         firstTx' \in Nat, indexed' \in Nat
  PROVE  PagesInv' /\ PagesComplete'
<1> DEFINE q == request.transaction
<1>1. /\ UNCHANGED <<request, pc, offset, answer, stored>>
      /\ firstTx \in Nat /\ indexed \in Nat
  BY EndsProps DEF IInv, requestVars
<1>2. Sorted(q)' = Sorted(q) /\ Listing(q)' = Listing(q) /\ Joins(q)' = Joins(q)
  BY <1>1 DEF Sorted, Ordered, Rows, Listing, Orders, SetToSeqs, listedBefore, Joins
<1>3. request.route = "transaction" =>
        /\ \A from \in q.from : from \in Nat /\ (from >= firstTx' => from >= firstTx)
        /\ \A to \in q.to : to \in Nat /\ (to <= indexed => to <= indexed')
  <2> SUFFICES ASSUME request.route = "transaction", NEW n \in Nat
               PROVE  (n >= firstTx' => n >= firstTx) /\ (n <= indexed => n <= indexed')
    BY ApiAssumption DEF IInv, ReadInv, QueryTransaction
  <2> QED
    BY <1>1
<1>4. PagesInv'
  BY <1>1, <1>2, <1>3 DEF IInv, PagesInv, Shows
<1>5. PagesComplete'
  BY <1>1, <1>2, <1>3 DEF IInv, PagesComplete
<1> QED
  BY <1>4, <1>5

LEMMA UpdatePruneStateInv == IInv /\ UpdatePruneState => IInv'
<1> SUFFICES ASSUME IInv, UpdatePruneState PROVE IInv'
  OBVIOUS
<1>1. UNCHANGED dbVars /\ UNCHANGED requestVars
  BY DEF UpdatePruneState
<1>2. DBInv'
  BY <1>1, DBUnchanged DEF IInv
<1>3. tail' \in Nat
  BY DEF UpdatePruneState, IInv, RangeInv, DBInv, DBTypeOK
<1>4. ReadInv' /\ AnswerInv' /\ StoredInv' /\ TxInv' /\ NotFoundJustified'
  BY <1>1 DEF IInv, ReadInv, AnswerInv, StoredInv, TxInv, NotFoundJustified,
              requestVars, dbVars
<1>5. RangeInv'
  BY <1>1, <1>3 DEF IInv, RangeInv, requestVars, dbVars
<1>6. PagesInv' /\ PagesComplete'
  <2>1. /\ ledger' = ledger /\ firstTx <= firstTx' /\ indexed <= indexed'
        /\ firstTx' \in Nat /\ indexed' \in Nat
    BY <1>1, EndsProps DEF IInv, dbVars
  <2> QED
    BY <1>1, <2>1, PagesKept
<1> QED
  BY <1>2, <1>4, <1>5, <1>6 DEF IInv

\* The indexer adds at the top and drops at the bottom.
LEMMA IndexerInv == IInv /\ Indexer /\ UNCHANGED <<tail, requestVars>> => IInv'
<1> SUFFICES ASSUME IInv, Indexer, UNCHANGED <<tail, requestVars>> PROVE IInv'
  OBVIOUS
<1>1. /\ DBInv' /\ ledger' = ledger
      /\ firstBlock <= firstBlock' /\ lastBlock <= lastBlock' /\ lastTx <= lastTx'
      /\ firstTx <= firstTx' /\ indexed <= indexed'
  BY IndexerMoves DEF IInv
<1>2. /\ firstBlock \in Nat /\ lastBlock \in Nat /\ lastTx \in Nat
      /\ firstBlock' \in Nat /\ lastBlock' \in Nat /\ lastTx' \in Nat
  BY <1>1, IndexerAssumption DEF IInv, DBInv, DBTypeOK
<1>3. \A n \in Heights : n \in Nat
  BY DEF Heights
<1>4. ReadInv' /\ AnswerInv' /\ TxInv'
  BY <1>1 DEF IInv, ReadInv, AnswerInv, TxInv, requestVars
<1>5. RangeInv'
  BY <1>1, <1>2 DEF IInv, RangeInv, requestVars
<1>6. StoredInv'
  <2>1. request' = request /\ stored' = stored
    BY DEF requestVars
  <2>2. \A n \in Nat : (n <= lastBlock => n <= lastBlock') /\ (n <= lastTx => n <= lastTx')
    BY <1>1, <1>2
  <2> QED
    BY <1>1, <1>3, <2>1, <2>2 DEF IInv, StoredInv
<1>7. NotFoundJustified'
  <2>1. request' = request /\ stored' = stored /\ answer' = answer
    BY DEF requestVars
  <2>2. \A n \in Nat : n < firstBlock => n < firstBlock'
    BY <1>1, <1>2
  <2>3. stored /\ request.route = "confirmed-block-at" => request.blockNumber \in Nat
    BY DEF IInv, StoredInv
  <2> QED
    BY <1>1, <1>3, <2>1, <2>2, <2>3 DEF IInv, NotFoundJustified
<1>8. PagesInv' /\ PagesComplete'
  <2>1. firstTx' \in Nat /\ indexed' \in Nat
    BY <1>1, IndexerAssumption DEF DBInv, DBTypeOK
  <2> QED
    BY <1>1, <2>1, PagesKept
<1> QED
  BY <1>1, <1>4, <1>5, <1>6, <1>7, <1>8 DEF IInv

-----------------------------------------------------------------------------
(* The theorems *)

LEMMA StutterInv == IInv /\ UNCHANGED vars => IInv'
<1> SUFFICES ASSUME IInv, UNCHANGED vars PROVE IInv'
  OBVIOUS
<1>1. UNCHANGED dbVars /\ UNCHANGED tail /\ UNCHANGED requestVars
  BY DEF vars
<1>2. DBInv'
  BY <1>1, DBUnchanged DEF IInv
<1>3. ReadInv' /\ AnswerInv' /\ StoredInv' /\ TxInv' /\ NotFoundJustified'
  BY <1>1 DEF IInv, ReadInv, AnswerInv, StoredInv, TxInv, NotFoundJustified,
              requestVars, dbVars
<1>4. RangeInv'
  BY <1>1 DEF IInv, RangeInv, requestVars, dbVars
<1>5. PagesInv' /\ PagesComplete'
  <2>1. /\ ledger' = ledger /\ firstTx <= firstTx' /\ indexed <= indexed'
        /\ firstTx' \in Nat /\ indexed' \in Nat
    BY <1>1, EndsProps DEF IInv, dbVars
  <2> QED
    BY <1>1, <2>1, PagesKept
<1> QED
  BY <1>2, <1>3, <1>4, <1>5 DEF IInv

LEMMA Invariance == Spec => []IInv
<1>1. IInv /\ Next => IInv'
  BY ReceiveInv, ReadStateInv, ReadPruneStateInv, ConfirmedBlockAtInv, GetBlockInv,
     ListBlockInv, GetTransactionInv, GetTransactionBlockInv, ListTransactionInv,
     UpdatePruneStateInv, IndexerInv
     DEF Next, Api
<1> QED
  BY InitInv, <1>1, StutterInv, PTL DEF Spec

\* Every block of a range that the API reports (getBlockRange) is stored with
\* its transactions, or was dropped since.
THEOREM ReportedRangesAreStored == Spec => []RangeStored
<1>1. IInv => RangeStored
  <2> SUFFICES ASSUME IInv,
                      NEW i \in DOMAIN answer.range,
                      NEW n \in answer.range[i].first..answer.range[i].last
               PROVE  n <= lastBlock /\ n <= lastTx
    BY DEF RangeStored
  <2>1. /\ answer.range[i].first \in Nat /\ answer.range[i].last \in Nat
        /\ answer.range[i].last <= lastBlock /\ answer.range[i].last <= lastTx
    BY DEF IInv, RangeInv
  <2> QED
    BY <2>1, EndsProps DEF IInv
<1> QED
  BY Invariance, <1>1, PTL

\* What the API does not find (confirmedBlockAt, getTransaction,
\* getTransactionBlock) was not there when the request came, or was dropped.
THEOREM RefusalsAreJustified == Spec => []NotFoundJustified
<1>1. IInv => NotFoundJustified
  BY DEF IInv
<1> QED
  BY Invariance, <1>1, PTL

\* The pages of an indexed range (listTransaction), put together, are its
\* transactions, none missing, none twice and in order.
THEOREM PagesAreComplete == Spec => []PagesComplete
<1>1. IInv => PagesComplete
  BY DEF IInv
<1> QED
  BY Invariance, <1>1, PTL
=============================================================================
