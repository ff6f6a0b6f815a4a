------------------ MODULE MCReferencedPaymentNonexistence ------------------
(***************************************************************************)
(* Model-checking instances of ReferencedPaymentNonexistence: chains with  *)
(* one transaction of interest, or a payment next to an unreadable one.    *)
(***************************************************************************)
EXTENDS ReferencedPaymentNonexistence

Payment == [reference |-> TRUE, source |-> TRUE, destination |-> TRUE,
            toOne |-> TRUE, enough |-> TRUE, status |-> "SUCCESS", data |-> "ok"]

MCTransactions == {
  Payment,
  [Payment EXCEPT !.source = FALSE],
  [Payment EXCEPT !.status = "RECEIVER_FAILURE"],
  [Payment EXCEPT !.status = "SENDER_FAILURE"],
  [Payment EXCEPT !.enough = FALSE],
  [Payment EXCEPT !.data = "broken"],
  [Payment EXCEPT !.destination = FALSE, !.data = "foreign"]}

MCLedgers ==
  {[n \in Heights |-> IF n = at THEN {t} ELSE {}] : at \in 1..3, t \in Transactions}
  \cup {[n \in Heights |->
           IF n = 2 THEN {Payment}
           ELSE IF n = 3 THEN {[Payment EXCEPT !.data = "broken"]} ELSE {}]}

\* Ledger times of XRP grow; block times of BTC and DOGE may step back.
GrowingTime == [n \in Heights |-> n]
SteppingTime == [n \in Heights |-> IF n = 2 THEN 3 ELSE IF n = 3 THEN 2 ELSE n]

Base == [zeroReference |-> FALSE, checkSource |-> TRUE,
         minimal |-> 2, deadline |-> 1, deadlineTime |-> 1]

MCRequests ==
  {[Base EXCEPT !.minimal = m, !.deadline = d, !.deadlineTime = t] :
     m \in 1..3, d \in 1..2, t \in 1..2}
  \cup {[Base EXCEPT !.checkSource = FALSE, !.minimal = m] : m \in 1..3}
  \cup {[Base EXCEPT !.zeroReference = TRUE], [Base EXCEPT !.minimal = MaxSafeInteger]}

\* The smallest case with an answer.
EmptyLedgers == {[n \in Heights |-> {}]}
ShortRequests == {[Base EXCEPT !.minimal = 1]}
=============================================================================
