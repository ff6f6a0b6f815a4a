------------------------------ MODULE Web2Json ------------------------------
(***************************************************************************)
(* Requests and responses of the attestation type Web2Json, and what is    *)
(* checked of a request, of the addresses of its host and of the data      *)
(* fetched (src/src/verification/web-2-json/validate-*.ts).  Texts are     *)
(* modelled by what the checks tell apart.  Optional values are sets of at *)
(* most one element.                                                       *)
(***************************************************************************)
EXTENDS VerifierBase, SequencesExt

CONSTANTS
  securityParams,  \* the limits configured
  sources,         \* the sources configured
  JsonValues,      \* the JSON values there are
  MAX_AST_NODES

HTTP_METHOD == {"GET", "POST", "PUT", "PATCH", "DELETE"}

Web2JsonSecurityParams ==
  [maxUrlLength : Nat, maxHeaders : Nat, maxQueryParams : Nat,
   maxBodyJsonDepth : Nat, maxBodyJsonKeys : Nat,
   maxJqFilterLength : Nat, maxAbiSignatureLength : Nat]

\* Where the secret goes, and whether the environment has it.
EndpointAuth ==
  [type : {"bearer", "apikey", "unsupported"},
   header : SUBSET STRING, query : SUBSET STRING, token : BOOLEAN]

\* "*" among the paths or methods allows any.
IsEndpoint(e) ==
  /\ e.host \in STRING /\ e.paths \subseteq STRING
  /\ e.methods \subseteq HTTP_METHOD \cup {"*"}
  /\ e.auth \subseteq EndpointAuth

ASSUME Web2JsonAssumption ==
  /\ securityParams \in Web2JsonSecurityParams
  /\ \A s \in sources : \A i \in DOMAIN s.endpoints :
       s.sourceId \in SourceIds /\ IsEndpoint(s.endpoints[i])
  /\ MAX_AST_NODES \in Nat
  /\ \A v \in JsonValues :
       /\ v.type \in {"scalar", "object", "array"}
       /\ v.items \in Seq(JsonValues)
       /\ v.type = "scalar" => v.items = <<>>

\* No value is among its own parts, however deep: values are parsed from texts.
ASSUME JsonAssumption ==
  \A S \in SUBSET JsonValues : S # {} =>
    \E v \in S : \A i \in DOMAIN v.items : v.items[i] \notin S

\* Lengths are those before and after sanitizing.
Url ==
  [length : Nat, sanitizedLength : Nat, parses : BOOLEAN,
   protocol : {"https:", "http:"}, hostname : STRING, pathname : STRING]

\* A text that should be JSON, and the value it is of.
JsonText == [empty : BOOLEAN, json : SUBSET JsonValues]

\* A jq program: what its syntax tree's nodes are.
JqFilter ==
  [length : Nat, parses : BOOLEAN, nodes : Nat, types : SUBSET STRING,
   filters : SUBSET STRING, operators : SUBSET STRING]

AbiSignature ==
  [length : Nat, json : {"none", "object", "array", "scalar"}, parses : BOOLEAN,
   baseType : {"primitive", "tuple", "array"},
   components : SUBSET {"primitive", "tuple", "array"}]

Web2Json_RequestBody ==
  [url : Url, httpMethod : HTTP_METHOD, headers : JsonText, queryParams : JsonText,
   body : JsonText, postProcessJq : JqFilter, abiSignature : AbiSignature]

\* The data are the fetched ones, encoded.
Web2Json_ResponseBody == [abiEncodedData : {"encoded"}]

Web2Json_Request == AttestationType_Request(Web2Json_RequestBody)

Web2Json_Response == AttestationType_Response(Web2Json_RequestBody, Web2Json_ResponseBody)

-----------------------------------------------------------------------------
(* The request's parts *)

parseUrl(url) ==
  /\ url.length <= securityParams.maxUrlLength
  /\ url.sanitizedLength <= securityParams.maxUrlLength
  /\ url.parses
  /\ url.protocol = "https:"

\* What the loop over the items takes from one to the next.
\* Mutant: the keys found in an item are forgotten after it.
carried_Forgets(before, result) == [result EXCEPT !.totalKeys = before.totalKeys]

carried(before, result) == result

\* What a call is given besides the value.
CheckArguments == [maxDepth : Nat, maxKeys : Nat, depth : Nat, totalKeys : Nat]

\* The arguments for an item of a value.
inside(args, totalKeys) ==
  [maxDepth |-> args.maxDepth, maxKeys |-> args.maxKeys,
   depth |-> args.depth + 1, totalKeys |-> totalKeys]

\* The loop over the items; it stops at the first that is not valid.
checkItems(result, items, args, check) ==
  LET after[i \in 0..Len(items)] ==
        IF i = 0 THEN result
        ELSE IF ~after[i - 1].isValid THEN after[i - 1]
        ELSE carried(after[i - 1], check[items[i]][inside(args, after[i - 1].totalKeys)])
  IN after[Len(items)]

\* A value and all its parts, one after the other, until a limit is exceeded.
checkJsonDepthAndKeys[input \in JsonValues] ==
  [args \in CheckArguments |->
     LET keys == args.totalKeys + IF input.type = "object" THEN Len(input.items) ELSE 0
     IN checkItems(
          [isValid |-> args.depth <= args.maxDepth /\ keys <= args.maxKeys,
           totalKeys |-> keys],
          input.items, args, checkJsonDepthAndKeys)]

parseJsonWithDepthAndKeysValidation(text, maxDepth, maxKeys) ==
  \/ text.empty
  \/ \E v \in text.json :
       /\ v.type # "scalar"
       /\ checkJsonDepthAndKeys[v][
            [maxDepth |-> maxDepth, maxKeys |-> maxKeys, depth |-> 0, totalKeys |-> 0]].isValid

ALLOWED_FILTERS == {"map", "select", "flatten", "not", "length", "keys",
  "to_entries", "from_entries", "has", "contains", "add", "join", "tonumber",
  "tostring", "split", "gsub", "match", "type", "startswith", "endswith", "test",
  "explode", "implode", "ascii_upcase", "ascii_downcase", "sort", "sort_by",
  "reverse", "first", "last", "."}

AllowedTypes == {"binary", "filter", "if", "try", "unary", "index", "slice",
  "iterator", "array", "object", "str", "var", "identity", "num", "bool", "null"}

AllowedOperators == {"|", ",", "//", "and", "or", "==", "!=", "<", ">", "<=", ">=",
  "+", "-", "*", "/", "%"}

validateJqFilter(jq) ==
  /\ jq.length <= securityParams.maxJqFilterLength
  /\ jq.parses
  /\ jq.nodes <= MAX_AST_NODES
  /\ jq.types \subseteq AllowedTypes
  /\ jq.filters \subseteq ALLOWED_FILTERS
  /\ jq.operators \subseteq AllowedOperators

\* A JSON scalar gives no type at all, on which the validation then throws.
parseAndValidateAbiType(abi) ==
  /\ abi.length <= securityParams.maxAbiSignatureLength
  /\ abi.parses
  /\ \/ abi.json = "none" /\ abi.baseType = "primitive"
     \/ abi.json = "object" /\ abi.baseType = "primitive"
     \/ /\ abi.json = "object" /\ abi.baseType = "tuple"
        /\ abi.components = {"primitive"}

validateHttpMethod(method, allowed) == "*" \in allowed \/ method \in allowed

validatePath(pathname, e) == "*" \in e.paths \/ pathname \in e.paths

PUBLIC_WEB2 == [sourceId |-> "PublicWeb2", endpoints |-> <<>>]

\* The first endpoint of the source with the host of the request.
endpoint(source, url) ==
  LET matches == {i \in DOMAIN source.endpoints : source.endpoints[i].host = url.hostname}
  IN {source.endpoints[i] : i \in {i \in matches : \A j \in matches : i <= j}}

\* The name of a query parameter matters only without that of a header.
AuthFailure(auth) == ~auth.token \/ auth.type = "unsupported"

\* All that is checked before the host is looked up, in this order.
checks(body, source) ==
  LET public == source = PUBLIC_WEB2
      found == endpoint(source, body.url)
      check(ok, status) == [ok |-> ok, status |-> status]
      json(text, maxDepth, maxKeys) ==
        parseJsonWithDepthAndKeysValidation(text, maxDepth, maxKeys) IN
    << check(parseUrl(body.url), "INVALID_SOURCE_URL"),
       check(json(body.headers, 1, securityParams.maxHeaders), "INVALID_HEADERS"),
       check(json(body.queryParams, 1, securityParams.maxQueryParams),
             "INVALID_QUERY_PARAMS"),
       check(public \/ \E e \in found : validatePath(body.url.pathname, e),
             "INVALID_SOURCE_URL"),
       check(IF public THEN body.httpMethod \in {"GET", "POST"}
             ELSE \A e \in found : validateHttpMethod(body.httpMethod, e.methods),
             "INVALID_HTTP_METHOD"),
       check(\A e \in found : \A auth \in e.auth : ~AuthFailure(auth), "UNKNOWN_ERROR"),
       check(validateJqFilter(body.postProcessJq), "INVALID_JQ_FILTER"),
       check(parseAndValidateAbiType(body.abiSignature), "INVALID_ABI_SIGNATURE"),
       check(json(body.body, securityParams.maxBodyJsonDepth,
                  securityParams.maxBodyJsonKeys), "INVALID_BODY") >>

\* The status of the first check that fails.
parseAndValidateRequest(body, source) ==
  LET list == checks(body, source)
      failed == {i \in DOMAIN list : ~list[i].ok}
  IN IF failed = {} THEN "OK" ELSE list[Min(failed)].status

-----------------------------------------------------------------------------
(* The addresses of the host, and the data *)

\* An address and the lists of networks it is in.
LookupAddress == [family : {4, 6}, blocklisted : BOOLEAN, globalUnicast : BOOLEAN]

\* Mutant: IPv6 addresses need not be global unicast.
isPublicAddress_AnyIPv6(a) == ~a.blocklisted

isPublicAddress(a) == ~a.blocklisted /\ (a.family = 6 => a.globalUnicast)

validateUrl(addresses) == addresses # {} /\ \A a \in addresses : isPublicAddress(a)

SourceResponse ==
  [contentType : {"application/json", "other"},
   content : {"object", "null", "string", "scalar", "unparsable"}]

\* The type of null is "object".
parseAndValidateResponse(response) ==
  IF response.contentType # "application/json" THEN "INVALID_RESPONSE_CONTENT_TYPE"
  ELSE IF response.content \in {"object", "null", "string"} THEN "OK"
  ELSE "INVALID_RESPONSE_JSON"
=============================================================================
