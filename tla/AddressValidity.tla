-------------------------- MODULE AddressValidity --------------------------
(***************************************************************************)
(* Requests, responses and the checks of the attestation type              *)
(* AddressValidity (src/src/verification/address-validity/).  An address   *)
(* is modelled by what the checks tell apart: a base 58 address by what it *)
(* decodes to, a segwit address by its groups of five bits.                *)
(***************************************************************************)
EXTENDS VerifierBase

CONSTANT NO_TIMESTAMP_SENTINEL  \* 2^64 - 1

ASSUME SentinelAssumption == NO_TIMESTAMP_SENTINEL \in Nat

AddressSources == {"BTC", "testBTC", "DOGE", "testDOGE", "XRP", "testXRP"}

Characters == {"1", "3", "n", "m", "2", "D", "A", "9", "r", "other"}

Base58Address ==
  [kind : {"base58"},
   start : Characters,    \* the first one
   length : Nat,
   alphabet : BOOLEAN,    \* no other characters than base 58's
   decoded : Nat,         \* bytes it decodes to
   version : 0..255,      \* the first of them
   checksum : BOOLEAN]    \* the last four are the others' checksum

SegwitAddress ==
  [kind : {"segwit"},
   start : {"bc1", "tb1", "other"},
   length : Nat,
   case : {"lower", "upper", "mixed"},
   alphabet : BOOLEAN,    \* only bech32's characters after the last "1"
   checksum : {"bech32", "bech32m", "none"},  \* of which encoding it is
   version : 0..31,       \* the first group
   groups : Nat,          \* how many follow, without the checksum
   zeroPadding : BOOLEAN] \* the bits that fill no byte are zero

\* What 25 bytes with this first byte begin with in base 58 (XRP's alphabet is
\* another one), and how many characters of an address are no groups.
FirstCharacters(version) ==
  CASE version = 0 -> {"1"} [] version = 5 -> {"3"} [] version = 111 -> {"m", "n"}
    [] version = 113 -> {"n"} [] version = 196 -> {"2"} [] version = 30 -> {"D"}
    [] version = 22 -> {"9", "A"} [] OTHER -> Characters

IsEncoding(sourceId, address) ==
  /\ address.kind = "base58" /\ address.alphabet /\ address.decoded = 25 =>
       /\ address.length \in 25..35
       /\ sourceId \notin {"XRP", "testXRP"} =>
            address.start \in FirstCharacters(address.version)
  /\ address.kind = "segwit" /\ address.start # "other" =>
       address.length = address.groups + 10

AddressValidity_RequestBody == [addressStr : Base58Address \cup SegwitAddress]

\* The hash is a function of the standard form.
AddressValidity_ResponseBody ==
  [isValid : BOOLEAN, standardAddress : SUBSET (Base58Address \cup SegwitAddress)]

AddressValidity_Request == AttestationType_Request(AddressValidity_RequestBody)

AddressValidity_Response ==
  AttestationType_Response(AddressValidity_RequestBody, AddressValidity_ResponseBody)

INVALID_ADDRESS_RESPONSE == [isValid |-> FALSE, standardAddress |-> {}]

validAddressToResponse(address) ==
  [isValid |-> TRUE,
   standardAddress |-> {IF address.kind = "segwit"
                        THEN [address EXCEPT !.case = "lower"] ELSE address}]

ResponseIf(valid, address) ==
  IF valid THEN validAddressToResponse(address) ELSE INVALID_ADDRESS_RESPONSE

-----------------------------------------------------------------------------
(* Base 58 *)

\* btcBase58 and dogeBase58 decode anything of the alphabet.
DecodesTo(address, versions) ==
  /\ address.alphabet
  /\ address.decoded = 25
  /\ address.checksum
  /\ address.version \in versions

ValidBase58(address, starts, versions) ==
  /\ address.kind = "base58" /\ address.start \in starts
  /\ 25 <= address.length /\ address.length <= 35
  /\ DecodesTo(address, versions)

-----------------------------------------------------------------------------
(* Bech32 *)

\* The length of the program in bytes, {} if the groups are not whole bytes.
\* Mutant: whatever the bits that are left over are.
convertBits_AnyPadding(address) ==
  IF (5 * address.groups) % 8 >= 5 THEN {} ELSE {(5 * address.groups) \div 8}

convertBits(address) ==
  IF (5 * address.groups) % 8 >= 5 \/ ~address.zeroPadding
  THEN {} ELSE {(5 * address.groups) \div 8}

bech32_decode(address, enc) ==
  /\ address.case # "mixed"
  /\ address.length <= 90
  /\ address.start # "other"
  /\ address.alphabet
  /\ address.checksum = enc

\* bech32Decode: the decoding is tried with bech32 first.
bech32Decode(address) ==
  /\ 14 <= address.length /\ address.length <= 74
  /\ \E enc \in {"bech32", "bech32m"} :
       /\ bech32_decode(address, enc)
       /\ (address.version = 0) <=> (enc = "bech32")
  /\ address.version <= 16
  /\ \E bytes \in convertBits(address) :
       /\ 2 <= bytes /\ bytes <= 40
       /\ address.version = 0 => bytes \in {20, 32}
       /\ address.version = 1 => bytes = 32

ValidSegwit(address, start) ==
  /\ address.kind = "segwit" /\ address.start = start
  /\ bech32Decode(address)
  /\ \/ address.version = 0 /\ address.length \in {42, 62}
     \/ address.version = 1

-----------------------------------------------------------------------------
(* The chains *)

verifyAddressBTC(address, testnet) ==
  ResponseIf(
    IF testnet
    THEN \/ ValidBase58(address, {"n", "m", "2"}, {111, 196})
         \/ ValidSegwit(address, "tb1")
    ELSE \/ ValidBase58(address, {"1", "3"}, {0, 5})
         \/ ValidSegwit(address, "bc1"), address)

verifyAddressDOGE(address, testnet) ==
  ResponseIf(
    IF testnet THEN ValidBase58(address, {"n", "m", "2"}, {113, 196})
    ELSE ValidBase58(address, {"D", "A", "9"}, {30, 22}), address)

\* The length is that of a run of the alphabet's characters: the upper bound
\* only bounds the run.
verifyAddressXRP(address) ==
  ResponseIf(
    /\ address.kind = "base58"
    /\ address.length >= 24
    /\ DecodesTo(address, {0}), address)

verifyAddress(sourceId, address) ==
  CASE sourceId = "BTC" -> verifyAddressBTC(address, FALSE)
    [] sourceId = "testBTC" -> verifyAddressBTC(address, TRUE)
    [] sourceId = "DOGE" -> verifyAddressDOGE(address, FALSE)
    [] sourceId = "testDOGE" -> verifyAddressDOGE(address, TRUE)
    [] sourceId \in {"XRP", "testXRP"} -> verifyAddressXRP(address)

\* verifyRequest: the response is there whatever the address is, and VALID.
responseAddressValidity(request) ==
  Valid(MakeResponse(request, NO_TIMESTAMP_SENTINEL,
    verifyAddress(request.sourceId, request.requestBody.addressStr)))
=============================================================================
