----------------------- MODULE UnindexedAttestations -----------------------
(***************************************************************************)
(* Concurrent calls of the endpoints of the services that need no indexer  *)
(* and no node: Web2Json                                                   *)
(* (src/src/services/web2-json-verifier.service.ts,                        *)
(* src/src/verification/web-2-json/web2-json-verifications.ts), whose      *)
(* calls wait for a name server, a data source and the process pool they   *)
(* share, and AddressValidity, whose calls wait for nothing.               *)
(*                                                                         *)
(* The process pool is JobService, which ProcessPool implements.           *)
(***************************************************************************)
EXTENDS AddressValidity, Web2Json

CONSTANTS
  Calls,
  Requests,      \* for all calls at once, the requests they may be made with
  MaxWaiting,    \* requests that may wait for the process pool (1000)
  LookupAnswers  \* the sets of addresses a name server may answer with

Endpoints == {"prepareRequest", "prepareResponse", "verifyFDC"}

ASSUME CallsAssumption ==
  /\ Requests \subseteq [Calls -> AddressValidity_Request \cup Web2Json_Request]
  /\ \A r \in Requests : \A c \in Calls :
       /\ r[c].attestationType = "AddressValidity" =>
            /\ r[c] \in AddressValidity_Request
            /\ r[c].sourceId \in AddressSources
       /\ r[c].attestationType = "Web2Json" => r[c] \in Web2Json_Request
  /\ MaxWaiting \in Nat
  /\ LookupAnswers \subseteq SUBSET LookupAddress

\* An address that is asked about is the description of a text.
ASSUME EncodingAssumption ==
  \A r \in Requests : \A c \in Calls :
    r[c].attestationType = "AddressValidity" =>
      IsEncoding(r[c].sourceId, r[c].requestBody.addressStr)

VARIABLES
  request, endpointOf,  \* of each call
  pc,                   \* what the call waits for
  answer,               \* of the endpoint
  \* what the properties recall, and the code does not have
  resolved, fetched,    \* the addresses and the response a call went on with
  \* the process pool
  waiting, active, result, closed

callVars == <<request, endpointOf, pc, answer, resolved, fetched>>
poolVars == <<waiting, active, result, closed>>
vars == <<callVars, poolVars>>

\* What a child answers: the data, or the status of its error.
Answers == {"ENCODED", "INVALID_JQ_PARSE_ERROR", "INVALID_ENCODE_ERROR"}

Pool == INSTANCE JobService
  WITH Jobs <- Calls, Failures <- {"PROCESSING_TIMEOUT", "UNKNOWN_ERROR"}

Init ==
  /\ request \in Requests
  /\ endpointOf \in [Calls -> Endpoints]
  /\ pc = [c \in Calls |-> "idle"]
  /\ answer = [c \in Calls |-> NoAnswer]
  /\ resolved = [c \in Calls |-> {}]
  /\ fetched = [c \in Calls |-> {}]
  /\ Pool!Init

-----------------------------------------------------------------------------
(* A call *)

WaitFor(c, what) == pc' = [pc EXCEPT ![c] = what] /\ UNCHANGED answer

Finish(c, outcome) ==
  LET name == request[c].attestationType IN
    /\ pc' = [pc EXCEPT ![c] = "done"]
    /\ answer' = [answer EXCEPT ![c] =
         CASE endpointOf[c] = "prepareRequest" -> prepareRequest(outcome, name)
           [] endpointOf[c] = "prepareResponse" -> prepareResponse(outcome, name)
           [] endpointOf[c] = "verifyFDC" -> verifyEncodedRequestFDC(outcome, name)]

VerifyAddress(c) ==
  /\ pc[c] = "idle"
  /\ request[c].attestationType = "AddressValidity"
  /\ Finish(c, responseAddressValidity(request[c]))
  /\ UNCHANGED <<request, endpointOf, resolved, fetched, poolVars>>

isQueueFull == Len(waiting) >= MaxWaiting

\* verifyRequest up to the first await: the type, the queue, the request.
VerifyRequest(c) ==
  /\ pc[c] = "idle"
  /\ request[c].attestationType = "Web2Json"
  /\ \/ /\ ~\E s \in sources : s.sourceId = request[c].sourceId
        /\ Finish(c, Throws("BAD_REQUEST"))
     \/ /\ isQueueFull
        /\ Finish(c, Throws("TOO_MANY_REQUESTS"))
     \/ /\ ~isQueueFull
        /\ \E s \in sources :
             /\ s.sourceId = request[c].sourceId
             /\ LET status == parseAndValidateRequest(request[c].requestBody, s) IN
                  IF status = "OK" THEN WaitFor(c, "lookup") ELSE Finish(c, Invalid(status))
  /\ UNCHANGED <<request, endpointOf, resolved, fetched, poolVars>>

\* validateUrl: the name server's answer, or its failure
Lookup(c) ==
  /\ pc[c] = "lookup"
  /\ \E addresses \in LookupAnswers :
       \/ /\ validateUrl(addresses)
          /\ WaitFor(c, "fetch")
          /\ resolved' = [resolved EXCEPT ![c] = addresses]
       \/ /\ ~validateUrl(addresses)
          /\ Finish(c, Invalid("INVALID_SOURCE_URL"))
          /\ UNCHANGED resolved
  /\ UNCHANGED <<request, endpointOf, fetched, poolVars>>

\* withTimeout; a later answer is of no consequence
\* Mutant: there is no timer.
LookupTimesOut_Never(c) == FALSE /\ UNCHANGED vars

LookupTimesOut(c) ==
  /\ pc[c] = "lookup"
  /\ Finish(c, Invalid("INVALID_SOURCE_URL"))
  /\ UNCHANGED <<request, endpointOf, resolved, fetched, poolVars>>

\* executeRequest fails: status, size, redirects, connection or timeout.
FetchFails(c) ==
  /\ pc[c] = "fetch"
  /\ Finish(c, Invalid("INVALID_FETCH_ERROR"))
  /\ UNCHANGED <<request, endpointOf, resolved, fetched, poolVars>>

\* The response arrives and is handed to the process pool, which may have
\* filled up since the queue was looked at.
FetchAnswers(c) ==
  /\ pc[c] = "fetch"
  /\ \E response \in SourceResponse :
       \/ /\ parseAndValidateResponse(response) # "OK"
          /\ Finish(c, Invalid(parseAndValidateResponse(response)))
          /\ UNCHANGED <<fetched, poolVars>>
       \/ /\ parseAndValidateResponse(response) = "OK"
          /\ Pool!Accept(c)
          /\ WaitFor(c, "pool")
          /\ fetched' = [fetched EXCEPT ![c] = {response}]
       \/ /\ parseAndValidateResponse(response) = "OK"
          /\ Pool!Refuse(c)
          /\ Finish(c, Throws("TOO_MANY_REQUESTS"))
          /\ UNCHANGED fetched
  /\ UNCHANGED <<request, endpointOf, resolved>>

\* How the promise of filterAndEncodeData was settled.
Encoded(c) ==
  CASE result[c] = "ENCODED" ->
         Valid(MakeResponse(request[c], NO_TIMESTAMP_SENTINEL,
                            [abiEncodedData |-> "encoded"]))
    [] result[c] = "SHUTDOWN" -> Invalid("UNKNOWN_ERROR")
    [] OTHER -> Invalid(result[c])

PoolSettles(c) ==
  /\ pc[c] = "pool"
  /\ result[c] # "pending"
  /\ Finish(c, Encoded(c))
  /\ UNCHANGED <<request, endpointOf, resolved, fetched, poolVars>>

Web2JsonStep(c) ==
  \/ VerifyRequest(c)
  \/ Lookup(c) \/ LookupTimesOut(c)
  \/ FetchFails(c) \/ FetchAnswers(c)
  \/ PoolSettles(c)

\* What the process pool does by itself.
PoolStep ==
  /\ \/ Pool!Start \/ Pool!StartFails \/ Pool!Close
     \/ \E c \in Calls : Pool!Finish(c)
  /\ UNCHANGED callVars

Done == (\A c \in Calls : pc[c] = "done") /\ UNCHANGED vars

Next == (\E c \in Calls : VerifyAddress(c) \/ Web2JsonStep(c)) \/ PoolStep \/ Done

\* The parent's event loop runs every call on; timers run out.  Neither the
\* name server nor the source has to answer.
Spec ==
  /\ Init /\ [][Next]_vars
  /\ \A c \in Calls :
       /\ WF_vars(PoolSettles(c))
       /\ WF_vars(LookupTimesOut(c))
       /\ WF_vars(FetchFails(c))
       /\ WF_vars(Pool!Finish(c) /\ UNCHANGED callVars)
  /\ WF_vars(~closed /\ (Pool!Start \/ Pool!StartFails) /\ UNCHANGED callVars)

-----------------------------------------------------------------------------
(* Properties *)

\* A call of Web2Json is answered whether or not the name server and the
\* source answer, unless the server shut down while it was under way: every
\* await of the chain has a timer.
AlwaysAnswered ==
  \A c \in Calls : pc[c] \in {"lookup", "fetch", "pool"} ~> pc[c] = "done" \/ closed

\* What config/interfaces/web2-json.ts limits: the levels below the top of a
\* JSON value, and all keys in it.
Depth[v \in JsonValues] ==
  Max({0} \cup {1 + Depth[v.items[i]] : i \in DOMAIN v.items})

Keys[v \in JsonValues] ==
  LET upTo[i \in 0..Len(v.items)] ==
        IF i = 0 THEN IF v.type = "object" THEN Len(v.items) ELSE 0
        ELSE upTo[i - 1] + Keys[v.items[i]]
  IN upTo[Len(v.items)]

Within(text, depth, keys) ==
  text.empty \/ \E v \in text.json : Depth[v] <= depth /\ Keys[v] <= keys

\* VALID data was asked for with headers, query parameters and a body within the
\* limits of depth and keys that are configured.
Web2JsonWithinLimits ==
  \A c \in Calls :
    request[c].attestationType = "Web2Json" /\ answer[c].content # {} =>
      LET body == request[c].requestBody IN
        /\ Within(body.headers, 1, securityParams.maxHeaders)
        /\ Within(body.queryParams, 1, securityParams.maxQueryParams)
        /\ Within(body.body, securityParams.maxBodyJsonDepth, securityParams.maxBodyJsonKeys)

\* VALID data came from a host, with a path and a method that an endpoint of the
\* source allows, and whose addresses were all public when looked up; what the
\* pool was asked to run is a filter of allowed parts only; and the pool encoded
\* it, for this call.
Web2JsonSound ==
  \A c \in Calls :
    request[c].attestationType = "Web2Json" /\ answer[c].content # {} =>
      LET body == request[c].requestBody IN
        /\ body.url.sanitizedLength <= securityParams.maxUrlLength
        /\ \E s \in sources : s.sourceId = request[c].sourceId /\
             \/ s = PUBLIC_WEB2 /\ body.httpMethod \in {"GET", "POST"}
             \/ \E i \in DOMAIN s.endpoints : LET e == s.endpoints[i] IN
                  /\ e.host = body.url.hostname
                  /\ {"*", body.url.pathname} \cap e.paths # {}
                  /\ {"*", body.httpMethod} \cap e.methods # {}
        /\ resolved[c] # {}
        /\ \A a \in resolved[c] : ~a.blocklisted /\ (a.family = 6 => a.globalUnicast)
        /\ body.postProcessJq.filters \subseteq ALLOWED_FILTERS
        /\ LET abi == body.abiSignature IN
             \/ abi.baseType = "primitive"
             \/ abi.baseType = "tuple" /\ abi.components = {"primitive"}
        /\ \A r \in fetched[c] : r.contentType = "application/json"
        /\ result[c] = "ENCODED"

\* The networks' own rules: a base 58 address is 25 bytes with a checksum and
\* one of the network's versions; a segwit address has the network's prefix
\* and is not of mixed case, its bytes fill its groups of five bits with fewer
\* than five bits to spare, all zero, and it is a version 0 program of 20 or 32
\* bytes in bech32 (BIP 173) or a version 1 program of 32 bytes in bech32m
\* (BIP 350, BIP 341).
Versions(sourceId) ==
  CASE sourceId = "BTC" -> {0, 5} [] sourceId = "testBTC" -> {111, 196}
    [] sourceId = "DOGE" -> {30, 22} [] sourceId = "testDOGE" -> {113, 196}
    [] OTHER -> {0}

Prefix(sourceId) ==
  CASE sourceId = "BTC" -> {"bc1"} [] sourceId = "testBTC" -> {"tb1"} [] OTHER -> {}

IsAddress(sourceId, a) ==
  \/ /\ a.kind = "base58" /\ a.alphabet /\ a.checksum
     /\ a.decoded = 25 /\ a.version \in Versions(sourceId)
  \/ /\ a.kind = "segwit" /\ a.start \in Prefix(sourceId)
     /\ a.alphabet /\ a.case # "mixed" /\ a.zeroPadding
     /\ \E bytes \in 2..40 : 8 * bytes <= 5 * a.groups /\ 5 * a.groups < 8 * bytes + 5 /\
          \/ a.version = 0 /\ a.checksum = "bech32" /\ bytes \in {20, 32}
          \/ a.version = 1 /\ a.checksum = "bech32m" /\ bytes = 32

\* Whatever the endpoint, the answer calls an address valid exactly if it is
\* one by these rules, and the standard form of a segwit address is not the
\* upper-case spelling.
AddressAsSpecified ==
  \A c \in Calls :
    request[c].attestationType = "AddressValidity" /\ pc[c] = "done" =>
      LET a == request[c].requestBody.addressStr IN
        /\ answer[c].status = "VALID" /\ answer[c].content # {}
        /\ \A r \in answer[c].content :
             /\ r.responseBody.isValid <=> IsAddress(request[c].sourceId, a)
             /\ \A s \in r.responseBody.standardAddress :
                  s.kind = "segwit" => s.case = "lower"
=============================================================================
