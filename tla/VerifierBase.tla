---------------------------- MODULE VerifierBase ----------------------------
(***************************************************************************)
(* What every verifier service does around a verification                  *)
(* (src/src/services/common/verifier-base.service.ts): the requests it     *)
(* takes, the responses it builds, and the answer each endpoint makes of   *)
(* the way a verification ends.                                            *)
(*                                                                         *)
(* An optional value is a set of at most one element.  The integrity code, *)
(* a hash of the whole response, is modelled by the response it is of.     *)
(***************************************************************************)
EXTENDS Naturals

CONSTANTS
  AttestationNames,  \* the attestation types there are
  SourceIds,         \* and the sources
  SourceId           \* the source of this server

ASSUME ServiceAssumption == SourceId \in SourceIds

AttestationType_Request(bodies) ==
  [attestationType : AttestationNames, sourceId : SourceIds, requestBody : bodies]

AttestationType_Response(requestBodies, responseBodies) ==
  [attestationType : AttestationNames, sourceId : SourceIds, votingRound : {0},
   lowestUsedTimestamp : Nat,
   requestBody : requestBodies, responseBody : responseBodies]

MakeResponse(request, lowestUsedTimestamp, responseBody) ==
  [attestationType |-> request.attestationType, sourceId |-> request.sourceId,
   votingRound |-> 0, lowestUsedTimestamp |-> lowestUsedTimestamp,
   requestBody |-> request.requestBody, responseBody |-> responseBody]

-----------------------------------------------------------------------------
(* How a verification ends *)

Invalid(status) == [error |-> "none", status |-> status, response |-> {}]

Valid(response) == [error |-> "none", status |-> "VALID", response |-> {response}]

Throws(error) == [error |-> error, status |-> "none", response |-> {}]

checkSupportedType(request, attestationName) ==
  /\ request.attestationType = attestationName
  /\ request.sourceId = SourceId

-----------------------------------------------------------------------------
(* The endpoints.  AddressValidity answers with a response whatever the    *)
(* status; an error that is not caught becomes an HTTP error.              *)

NoAnswer == [error |-> "none", status |-> "none", content |-> {}]

Answer(status, content) == [error |-> "none", status |-> status, content |-> content]

HttpError(error) == [error |-> error, status |-> "none", content |-> {}]

HasResponse(outcome, attestationName) ==
  /\ outcome.status = "VALID" \/ attestationName = "AddressValidity"
  /\ outcome.response # {}

\* prepareRequest (and mic): the integrity code of the response
\* Mutant: the code of any response there is.
prepareRequest_AnyStatus(outcome, attestationName) ==
  IF outcome.error # "none" THEN HttpError(outcome.error)
  ELSE Answer(outcome.status, outcome.response)

prepareRequest(outcome, attestationName) ==
  IF outcome.error # "none" THEN HttpError(outcome.error)
  ELSE IF HasResponse(outcome, attestationName)
  THEN Answer(outcome.status, outcome.response)
  ELSE Answer(outcome.status, {})

\* prepareResponse: the verification's result as it is
prepareResponse(outcome, attestationName) ==
  IF outcome.error # "none" THEN HttpError(outcome.error)
  ELSE Answer(outcome.status, outcome.response)

\* verifyFDC: every exception makes the request malformed, but the response is
\* encoded outside the try block, and AddressValidity's even if there is none.
verifyEncodedRequestFDC(outcome, attestationName) ==
  IF outcome.error # "none" THEN Answer("MALFORMED", {})
  ELSE IF HasResponse(outcome, attestationName)
  THEN Answer(outcome.status, outcome.response)
  ELSE IF attestationName = "AddressValidity" THEN HttpError("INTERNAL_SERVER_ERROR")
  ELSE Answer(outcome.status, {})
=============================================================================
