--------------------- MODULE ConfirmedBlockHeightExists ---------------------
(***************************************************************************)
(* Requests, responses and the response function of the attestation type   *)
(* ConfirmedBlockHeightExists                                              *)
(* (src/src/verification/confirmed-block-height-exists/).                  *)
(***************************************************************************)
EXTENDS IndexedQueryManager, VerifierBase, Integers

CONSTANT CBHE_LUT_FORK_TIMESTAMP

ASSUME ForkAssumption == CBHE_LUT_FORK_TIMESTAMP \in Nat

ConfirmedBlockHeightExists_RequestBody == [blockNumber : Nat, queryWindow : Nat]

\* The configured number of confirmations is a constant and left out.
ConfirmedBlockHeightExists_ResponseBody ==
  [blockTimestamp : Nat,
   lowestQueryWindowBlockNumber : Nat,
   lowestQueryWindowBlockTimestamp : Nat]

ConfirmedBlockHeightExists_Request ==
  AttestationType_Request(ConfirmedBlockHeightExists_RequestBody)

ConfirmedBlockHeightExists_Response ==
  AttestationType_Response(ConfirmedBlockHeightExists_RequestBody,
                           ConfirmedBlockHeightExists_ResponseBody)

\* The window ends before this time.
windowTime(dbBlock, request) == dbBlock.timestamp - request.requestBody.queryWindow

\* Before the fork the requested block's own time is used.
lut(dbBlock, lowerQueryWindowBlock) ==
  IF dbBlock.timestamp < CBHE_LUT_FORK_TIMESTAMP
  THEN dbBlock.timestamp ELSE lowerQueryWindowBlock.timestamp

responseConfirmedBlockHeightExists(dbBlock, lowerQueryWindowBlock, request) ==
  Valid(MakeResponse(request, lut(dbBlock, lowerQueryWindowBlock),
    [blockTimestamp |-> dbBlock.timestamp,
     lowestQueryWindowBlockNumber |-> lowerQueryWindowBlock.number,
     lowestQueryWindowBlockTimestamp |-> lowerQueryWindowBlock.timestamp]))
=============================================================================
