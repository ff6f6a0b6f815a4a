---------------------- MODULE MCXRPPaymentNonexistence ----------------------
(***************************************************************************)
(* Model-checking instances of XRPPaymentNonexistence: chains with one     *)
(* transaction of interest, or a payment next to an unreadable one.        *)
(***************************************************************************)
EXTENDS XRPPaymentNonexistence

Paid == [data |-> "ok", payment |-> "Success", toOne |-> TRUE,
         intendedReceivingAddressHash |-> "payee", intendedReceivingAmount |-> 2,
         memoData |-> {"memo"}, destinationTag |-> {0}, successStatus |-> "SUCCESS"]

Unreadable2 == [Paid EXCEPT !.data = "broken"]

MCTransactions == {
  Paid, Unreadable2,
  [Paid EXCEPT !.toOne = FALSE],
  [Paid EXCEPT !.data = "foreign"],
  [Paid EXCEPT !.payment = "throws"],
  [Paid EXCEPT !.payment = "other"],
  [Paid EXCEPT !.payment = "NotNativePayment"],
  [Paid EXCEPT !.intendedReceivingAddressHash = "other"],
  [Paid EXCEPT !.intendedReceivingAmount = 1],
  [Paid EXCEPT !.memoData = {}],
  [Paid EXCEPT !.destinationTag = {}],
  [Paid EXCEPT !.successStatus = "SENDER_FAILURE"],
  [Paid EXCEPT !.successStatus = "RECEIVER_FAILURE"]}

MCLedgers ==
  {[n \in Heights |-> IF n = 2 THEN {t} ELSE {}] : t \in Transactions}
  \cup {[n \in Heights |-> IF n = at THEN {Paid} ELSE {}] : at \in {1, 3}}
  \cup {[n \in Heights |->
           IF n = 2 THEN {Paid} ELSE IF n = 3 THEN {Unreadable2} ELSE {}]}

GrowingTime == [n \in Heights |-> n]

Base == [minimalBlockNumber |-> 2, deadlineBlockNumber |-> 1, deadlineTimestamp |-> 1,
         destinationAddressHash |-> "payee", amount |-> 2,
         checkFirstMemoData |-> TRUE, firstMemoDataHash |-> "memo",
         checkDestinationTag |-> TRUE, destinationTag |-> 0]

Bodies ==
  {[Base EXCEPT !.minimalBlockNumber = m, !.deadlineBlockNumber = d,
                !.deadlineTimestamp = t] : m \in 1..3, d \in 1..2, t \in 1..2}
  \cup {[Base EXCEPT !.checkFirstMemoData = FALSE],
        [Base EXCEPT !.checkDestinationTag = FALSE],
        [Base EXCEPT !.destinationTag = 1],
        [Base EXCEPT !.amount = 1],
        [Base EXCEPT !.deadlineBlockNumber = MaxSafeInteger]}

MCRequests ==
  {[attestationType |-> "XRPPaymentNonexistence", sourceId |-> SourceId,
    requestBody |-> b] : b \in Bodies}
=============================================================================
