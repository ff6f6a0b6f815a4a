---------------------- MODULE MCConfirmedAttestations ----------------------
(***************************************************************************)
(* Model-checking instances of ConfirmedAttestations.                      *)
(***************************************************************************)
EXTENDS ConfirmedAttestations

Paid == [data |-> "ok", payment |-> "Success", toOne |-> TRUE, decreasing |-> "Success"]

\* One for each way a summary may end; the two summaries are independent.
MCTransactions ==
  {Paid, [Paid EXCEPT !.toOne = FALSE], [Paid EXCEPT !.data = "foreign"]}
  \cup {[Paid EXCEPT !.payment = s] : s \in PaymentSummaryStatus}
  \cup {[Paid EXCEPT !.decreasing = s] : s \in BalanceDecreasingSummaryStatus}

MCLedgers ==
  {[n \in Heights |-> IF n = at THEN {t} ELSE {}] : at \in 2..3, t \in {Paid}}
  \cup {[n \in Heights |-> IF n = 2 THEN MCTransactions \ {Paid} ELSE {}]}

\* Block times of BTC and DOGE may step back.
SteppingTime == [n \in Heights |-> IF n = 2 THEN 3 ELSE IF n = 3 THEN 2 ELSE n]

Requested(name, bodies) ==
  {[attestationType |-> name, sourceId |-> s, requestBody |-> b] :
     s \in {"BTC"}, b \in bodies}

MCRequests ==
  [ConfirmedBlockHeightExists |->
     Requested("ConfirmedBlockHeightExists",
       [blockNumber : 2..5, queryWindow : 0..2])
     \cup {[attestationType |-> "ConfirmedBlockHeightExists", sourceId |-> "DOGE",
            requestBody |-> [blockNumber |-> 2, queryWindow |-> 0]]},
   Payment |->
     Requested("Payment",
       [transactionId : Transactions, inUtxo : {0}, utxo : {0, MaxSafeInteger}]),
   BalanceDecreasingTransaction |->
     Requested("BalanceDecreasingTransaction",
       [transactionId : Transactions, sourceAddressIndicator : {0}])]
=============================================================================
