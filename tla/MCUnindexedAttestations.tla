---------------------- MODULE MCUnindexedAttestations ----------------------
(***************************************************************************)
(* Model-checking instance of UnindexedAttestations: one call with any of  *)
(* many requests to Web2Json next to one that is in order, or two calls    *)
(* about one address.                                                      *)
(***************************************************************************)
EXTENDS UnindexedAttestations

MCSecurityParams ==
  [maxUrlLength |-> 2, maxHeaders |-> 1, maxQueryParams |-> 1,
   maxBodyJsonDepth |-> 2, maxBodyJsonKeys |-> 3,
   maxJqFilterLength |-> 1, maxAbiSignatureLength |-> 1]

Auth(type, token) == {[type |-> type, header |-> {"key"}, query |-> {}, token |-> token]}

End(host, methods, auth) ==
  [host |-> host, paths |-> {"/a", "/b"}, methods |-> methods, auth |-> auth]

MCSources ==
  {PUBLIC_WEB2,
   [sourceId |-> "Configured", endpoints |->
      << End("free", {"GET"}, {}),
         [End("any", {"*"}, Auth("apikey", TRUE)) EXCEPT !.paths = {"*"}],
         End("bearer", {"GET", "POST"}, Auth("bearer", FALSE)),
         End("basic", {"GET"}, Auth("unsupported", TRUE)) >>]}

GoodUrl == [length |-> 2, sanitizedLength |-> 2, parses |-> TRUE,
            protocol |-> "https:", hostname |-> "free", pathname |-> "/a"]

Scalar == [type |-> "scalar", items |-> <<>>]

Obj(items) == [type |-> "object", items |-> items]

Arr(items) == [type |-> "array", items |-> items]

One == Obj(<<Scalar>>)
Two == Obj(<<Scalar, Scalar>>)

\* At and beyond either limit, the keys in one part or spread over several.
MCJsonValues ==
  {Scalar, One, Two, Arr(<<>>), Arr(<<Scalar>>), Arr(<<One>>)}
  \cup {Arr(<<One, Two>>), Arr(<<Two, Two>>), Obj(<<One, One>>),
        Arr(<<Arr(<<>>)>>), Arr(<<Arr(<<Scalar>>)>>)}

Text(v) == [empty |-> FALSE, json |-> {v}]

Flat == Text(One)

GoodJq == [length |-> 1, parses |-> TRUE, nodes |-> 2, types |-> {"filter", "binary"},
           filters |-> {"map"}, operators |-> {"|"}]

GoodAbi == [length |-> 1, json |-> "object", parses |-> TRUE, baseType |-> "tuple",
            components |-> {"primitive"}]

Good == [url |-> GoodUrl, httpMethod |-> "GET", headers |-> Flat, queryParams |-> Flat,
         body |-> Flat, postProcessJq |-> GoodJq, abiSignature |-> GoodAbi]

Empty == [empty |-> TRUE, json |-> {}]

Refused == {[empty |-> FALSE, json |-> {}]} \cup {Text(v) : v \in {Scalar, Arr(<<One>>), Two}}

\* Everything in order, or one part different.
Bodies ==
  {Good}
  \cup {[Good EXCEPT !.url = u] : u \in
         {[GoodUrl EXCEPT !.length = 3], [GoodUrl EXCEPT !.sanitizedLength = 3],
          [GoodUrl EXCEPT !.parses = FALSE], [GoodUrl EXCEPT !.protocol = "http:"],
          [GoodUrl EXCEPT !.pathname = "/c"]}
         \cup {[GoodUrl EXCEPT !.hostname = h, !.pathname = p] :
                 h \in {"any", "bearer", "basic", "unknown"}, p \in {"/a", "/c"}}}
  \cup {[Good EXCEPT !.httpMethod = m] : m \in {"POST", "DELETE"}}
  \cup {[Good EXCEPT !.headers = t] : t \in Refused \cup {Empty}}
  \cup {[Good EXCEPT !.queryParams = t] : t \in Refused}
  \cup {[Good EXCEPT !.body = t] : t \in Refused \cup {Text(v) : v \in JsonValues \ {One}}}
  \cup {[Good EXCEPT !.postProcessJq = j] : j \in
         {[GoodJq EXCEPT !.length = 2], [GoodJq EXCEPT !.parses = FALSE],
          [GoodJq EXCEPT !.nodes = 5], [GoodJq EXCEPT !.types = {"varDeclaration"}],
          [GoodJq EXCEPT !.filters = {"map", "env"}], [GoodJq EXCEPT !.operators = {"|="}]}}
  \cup {[Good EXCEPT !.abiSignature = a] : a \in
         {[GoodAbi EXCEPT !.length = 2], [GoodAbi EXCEPT !.parses = FALSE],
          [GoodAbi EXCEPT !.components = {}], [GoodAbi EXCEPT !.components = {"array"}],
          [GoodAbi EXCEPT !.components = {"primitive", "tuple"}],
          [GoodAbi EXCEPT !.json = "array"], [GoodAbi EXCEPT !.json = "scalar"],
          [GoodAbi EXCEPT !.json = "none"],
          [GoodAbi EXCEPT !.json = "none", !.baseType = "primitive", !.components = {}]}}

Made(name, sourceIds, bodies) ==
  {[attestationType |-> name, sourceId |-> s, requestBody |-> b] :
     s \in sourceIds, b \in bodies}

\* Texts of the alphabet with their lengths and what they decode to, and another
\* text.
Decodings ==
  {<<TRUE, 25, 25>>, <<TRUE, 34, 25>>, <<TRUE, 24, 17>>, <<TRUE, 36, 27>>, <<FALSE, 30, 0>>}

Base58Addresses(zero) ==
  UNION {
    {[kind |-> "base58", start |-> s, length |-> d[2], alphabet |-> d[1],
      decoded |-> d[3], version |-> version, checksum |-> checksum] :
       s \in IF version = 0 THEN {zero} ELSE FirstCharacters(version),
       d \in Decodings, checksum \in BOOLEAN} :
    version \in {0, 5, 22, 30, 48, 111, 113, 196}}

\* Programs of 2, 20, 31, 32, 40 and 41 bytes, and groups that are no bytes.
SegwitAddresses ==
  {[kind |-> "segwit", start |-> start, length |-> groups + 10, case |-> case,
    alphabet |-> alphabet, checksum |-> checksum, version |-> version,
    groups |-> groups, zeroPadding |-> zeroPadding] :
     start \in {"bc1", "tb1"}, groups \in {4, 32, 50, 51, 52, 53, 64, 66},
     case \in {"upper", "mixed"}, alphabet \in {TRUE},
     checksum \in {"bech32", "bech32m", "none"}, version \in {0, 1, 2},
     zeroPadding \in BOOLEAN}

OfAddresses(sourceIds, addresses) ==
  Made("AddressValidity", sourceIds, {[addressStr |-> a] : a \in addresses})

MCRequests ==
  {[c \in Calls |-> r] : r \in
     OfAddresses({"BTC"}, SegwitAddresses)
     \cup OfAddresses({"testBTC"}, {a \in SegwitAddresses : a.version = 1})
     \cup OfAddresses({"BTC", "testBTC", "DOGE", "testDOGE"}, Base58Addresses("1"))
     \cup OfAddresses({"XRP"}, Base58Addresses("r"))}
  \cup {[c \in Calls |-> IF c = "first" THEN first ELSE second] :
     first \in Made("Web2Json", {"Configured"}, Bodies)
                 \cup Made("Web2Json", {"PublicWeb2"},
                   {b \in Bodies : b.httpMethod # "GET" \/ b.url.hostname = "unknown"})
                 \cup Made("Web2Json", {"BTC"}, {Good}),
     second \in Made("Web2Json", {"Configured"}, {Good})}

MCLookupAnswers ==
  LET address(family, blocklisted, globalUnicast) ==
        [family |-> family, blocklisted |-> blocklisted, globalUnicast |-> globalUnicast]
  IN {{}, {address(4, FALSE, FALSE), address(6, FALSE, TRUE)},
      {address(4, FALSE, FALSE), address(6, TRUE, TRUE)}, {address(6, FALSE, FALSE)}}
=============================================================================
