----------------------------- MODULE XRPPayment -----------------------------
(***************************************************************************)
(* Requests, responses and the response function of the attestation type   *)
(* XRPPayment (src/src/verification/xrp-payment/).  Optional fields are    *)
(* sets of at most one element; a hash is modelled by what it is of.       *)
(***************************************************************************)
EXTENDS Payment

CONSTANTS Addresses, Memos

\* A stored transaction: what mcc's summary makes of it.
XrpTransaction ==
  [data : {"ok", "broken", "foreign"},
   payment : PaymentSummaryStatus,
   toOne : BOOLEAN,
   intendedReceivingAddressHash : Addresses,
   intendedReceivingAmount : Nat,
   memoData : SUBSET Memos,         \* of the first memo
   destinationTag : SUBSET Nat,
   successStatus : {"SUCCESS", "SENDER_FAILURE", "RECEIVER_FAILURE"}]

\* proofOwner is only passed on.
XRPPayment_RequestBody == [transactionId : Transactions]

\* Source and other amounts are left out; nothing here depends on them.
XRPPayment_ResponseBody ==
  [blockNumber : Nat, blockTimestamp : Nat,
   intendedReceivingAddressHash : Addresses, intendedReceivedAmount : Nat,
   hasMemoData : BOOLEAN, firstMemoData : SUBSET Memos,
   hasDestinationTag : BOOLEAN, destinationTag : Nat,
   status : {"SUCCESS", "SENDER_FAILURE", "RECEIVER_FAILURE"}]

XRPPayment_Request == AttestationType_Request(XRPPayment_RequestBody)

XRPPayment_Response == AttestationType_Response(XRPPayment_RequestBody, XRPPayment_ResponseBody)

\* The body, with 0 for a missing tag and no bytes for a missing memo.
XRPPaymentBody(row) ==
  LET t == row[2] IN
    [blockNumber |-> row[1], blockTimestamp |-> Time[row[1]],
     intendedReceivingAddressHash |-> t.intendedReceivingAddressHash,
     intendedReceivedAmount |-> t.intendedReceivingAmount,
     hasMemoData |-> t.memoData # {},
     firstMemoData |-> t.memoData,
     hasDestinationTag |-> t.destinationTag # {},
     destinationTag |-> IF t.destinationTag = {} THEN 0
                        ELSE CHOOSE tag \in t.destinationTag : TRUE,
     status |-> t.successStatus]

\* Unlike Payment's, any other status of the summary is just INVALID.
responseXRPPayment(row, request) ==
  LET summary == row[2].payment IN
    IF Unreadable(row) THEN Throws("INTERNAL_SERVER_ERROR")
    ELSE IF summary = "other" THEN Invalid("INVALID")
    ELSE IF summary # "Success" THEN Invalid(PaymentStatus(summary))
    ELSE IF ~row[2].toOne THEN Invalid("MORE_THAN_ONE_OUTPUT")
    ELSE Valid(MakeResponse(request, unixTimestamp(row), XRPPaymentBody(row)))
=============================================================================
