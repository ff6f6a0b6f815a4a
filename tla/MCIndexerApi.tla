---------------------------- MODULE MCIndexerApi ----------------------------
(***************************************************************************)
(* Model-checking instances of IndexerApi: a chain with two transactions   *)
(* in one block, and requests to every route.                              *)
(***************************************************************************)
EXTENDS IndexerApi

Tx(id, reference, address, joined) ==
  [id |-> id, reference |-> reference, sourceAddress |-> address, joined |-> joined]

MCTransactions ==
  {Tx(1, "ref", "a", 1), Tx(2, "ref", "a", 2), Tx(3, "ref", "b", 1), Tx(4, "none", "a", 1)}

MCLedgers ==
  {[n \in Heights |->
      CASE n = 1 -> {t \in Transactions : t.id \in {2, 3}}
        [] n = 2 -> {t \in Transactions : t.id = 1}
        [] n = 3 -> {t \in Transactions : t.id = 4}]}

GrowingTime == [n \in Heights |-> n]

Some(S) == {{}} \cup {{s} : s \in S}

BlockRequests ==
  {[route |-> "block", block |-> [from |-> from, to |-> to]] :
     from \in Some(1..2), to \in Some(1..2)}

Lists(returnResponses) ==
  {[route |-> "transaction",
    transaction |-> [from |-> {from}, to |-> {to}, paymentReference |-> reference,
                     sourceAddress |-> address, limit |-> limit,
                     returnResponse |-> returnResponse]] :
     from \in 1..2, to \in 2..3, reference \in Some({"ref", "malformed"}),
     address \in IF Source = "xrp" THEN Some({"a"}) ELSE {{}},
     limit \in Some({1, 9}), returnResponse \in returnResponses}

MCRequests ==
  {[route |-> "block-range"]}
  \cup {[route |-> "confirmed-block-at", blockNumber |-> n] : n \in 1..2}
  \cup {[route |-> "block/:blockHash", blockHash |-> <<n, n>>] : n \in 1..2}
  \cup {[route |-> route, txHash |-> id] :
          route \in {"transaction/:txHash", "transaction-block"}, id \in {1, 2, 9}}
  \cup BlockRequests
  \cup Lists({FALSE})

ConfirmedRequests == {[route |-> "confirmed-block-at", blockNumber |-> n] : n \in 1..2}

ResponseRequests == Lists({TRUE})
=============================================================================
