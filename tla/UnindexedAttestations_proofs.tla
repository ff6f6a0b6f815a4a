-------------------- MODULE UnindexedAttestations_proofs --------------------
(***************************************************************************)
(* What is VALID of Web2Json and AddressValidity, for every number of      *)
(* calls, every configuration and every length of the pool's queue.        *)
(*                                                                         *)
(* A call carries what it has passed: the request's checks, then the       *)
(* addresses', then the response's.  The pool's result for it stays once   *)
(* it is there, because only calls that wait or run are pending, each in   *)
(* one place.                                                              *)
(*                                                                         *)
(* That the check of a JSON value counts its depth and keys is an          *)
(* induction over values, none of which is inside itself: a recursion over *)
(* the parts has a solution, so the recursive definitions are equations.   *)
(***************************************************************************)
EXTENDS UnindexedAttestations, SequenceTheorems, WellFoundedInduction, TLAPS

\* The checks before the first await found nothing.
Passed(c) ==
  \E s \in sources :
    /\ s.sourceId = request[c].sourceId
    /\ parseAndValidateRequest(request[c].requestBody, s) = "OK"

TypeInv ==
  /\ request \in Requests
  /\ endpointOf \in [Calls -> Endpoints]
  /\ pc \in [Calls -> {"idle", "lookup", "fetch", "pool", "done"}]
  /\ DOMAIN answer = Calls
  /\ DOMAIN resolved = Calls
  /\ DOMAIN fetched = Calls

\* Each await was reached past the ones before it.
CallInv(c) ==
  /\ request[c].attestationType = "AddressValidity" => pc[c] \in {"idle", "done"}
  /\ pc[c] \in {"lookup", "fetch", "pool"} => Passed(c)
  /\ pc[c] \in {"fetch", "pool"} => validateUrl(resolved[c])
  /\ pc[c] = "pool" => \A r \in fetched[c] : r.contentType = "application/json"

AddressResponse(c) ==
  MakeResponse(request[c], NO_TIMESTAMP_SENTINEL,
    verifyAddress(request[c].sourceId, request[c].requestBody.addressStr))

AnswerInv(c) ==
  /\ pc[c] # "done" => answer[c].content = {}
  /\ request[c].attestationType = "AddressValidity" /\ pc[c] = "done" =>
       answer[c] = Answer("VALID", {AddressResponse(c)})
  /\ request[c].attestationType = "Web2Json" /\ answer[c].content # {} =>
       /\ Passed(c)
       /\ validateUrl(resolved[c])
       /\ \A r \in fetched[c] : r.contentType = "application/json"
       /\ result[c] = "ENCODED"

\* The calls that wait or run are pending, and each is in one place.
PoolInv ==
  /\ waiting \in Seq(Calls)
  /\ active \subseteq Calls
  /\ DOMAIN result = Calls
  /\ \A c \in active : result[c] = "pending"
  /\ \A i \in DOMAIN waiting : result[waiting[i]] = "pending" /\ waiting[i] \notin active
  /\ \A i, j \in DOMAIN waiting : waiting[i] = waiting[j] => i = j

IInv ==
  /\ TypeInv
  /\ PoolInv
  /\ \A c \in Calls : CallInv(c) /\ AnswerInv(c)

-----------------------------------------------------------------------------
(* Addresses *)

\* The programs of 20 and 32 bytes are those of 32 and 52 groups.
LEMMA WholeBytes ==
  ASSUME NEW a, a.groups \in Nat
  PROVE  /\ \A bytes \in convertBits(a) :
              a.zeroPadding /\ bytes \in Nat
              /\ 8 * bytes <= 5 * a.groups /\ 5 * a.groups < 8 * bytes + 5
         /\ \A bytes \in Nat :
              a.zeroPadding /\ 8 * bytes <= 5 * a.groups /\ 5 * a.groups < 8 * bytes + 5
                => bytes \in convertBits(a)
<1> DEFINE bits == 5 * a.groups
<1>1. bits \in Nat
  OBVIOUS
<1> HIDE DEF bits
<1>2. /\ bits \div 8 \in Nat /\ bits % 8 \in 0..7
      /\ bits = 8 * (bits \div 8) + (bits % 8)
  BY <1>1
<1>3. convertBits(a) = IF bits % 8 >= 5 \/ ~a.zeroPadding THEN {} ELSE {bits \div 8}
  BY DEF convertBits, bits
<1>4. ASSUME NEW bytes \in Nat, 8 * bytes <= bits, bits < 8 * bytes + 5
      PROVE  bits \div 8 = bytes /\ bits % 8 < 5
  BY <1>1, <1>2, <1>4
<1>5. ASSUME NEW bytes \in convertBits(a)
      PROVE  a.zeroPadding /\ bytes \in Nat /\ 8 * bytes <= bits /\ bits < 8 * bytes + 5
  BY <1>1, <1>2, <1>3
<1>6. ASSUME NEW bytes \in Nat, a.zeroPadding, 8 * bytes <= bits, bits < 8 * bytes + 5
      PROVE  bytes \in convertBits(a)
  BY <1>1, <1>2, <1>3, <1>4, <1>6
<1> QED
  BY <1>5, <1>6 DEF bits

\* A segwit address that the code accepts is one by the rules, and vice versa.
LEMMA SegwitRules ==
  ASSUME NEW a \in SegwitAddress, NEW start \in {"bc1", "tb1"},
         a.start # "other" => a.length = a.groups + 10
  PROVE  ValidSegwit(a, start) <=>
           /\ a.start = start
           /\ a.alphabet /\ a.case # "mixed" /\ a.zeroPadding
           /\ \E bytes \in 2..40 : 8 * bytes <= 5 * a.groups /\ 5 * a.groups < 8 * bytes + 5 /\
                \/ a.version = 0 /\ a.checksum = "bech32" /\ bytes \in {20, 32}
                \/ a.version = 1 /\ a.checksum = "bech32m" /\ bytes = 32
<1>1. /\ a.kind = "segwit" /\ a.groups \in Nat /\ a.length \in Nat /\ a.version \in 0..31
      /\ a.checksum \in {"bech32", "bech32m", "none"}
  BY DEF SegwitAddress
<1>2. ASSUME ValidSegwit(a, start)
      PROVE  /\ a.start = start
             /\ a.alphabet /\ a.case # "mixed" /\ a.zeroPadding
             /\ \E bytes \in 2..40 : 8 * bytes <= 5 * a.groups /\ 5 * a.groups < 8 * bytes + 5 /\
                  \/ a.version = 0 /\ a.checksum = "bech32" /\ bytes \in {20, 32}
                  \/ a.version = 1 /\ a.checksum = "bech32m" /\ bytes = 32
  <2>1. /\ a.start = start /\ bech32Decode(a)
        /\ a.version \in {0, 1}
    BY <1>1, <1>2 DEF ValidSegwit
  <2>2. PICK enc \in {"bech32", "bech32m"} :
          bech32_decode(a, enc) /\ ((a.version = 0) <=> (enc = "bech32"))
    BY <2>1 DEF bech32Decode
  <2>3. a.alphabet /\ a.case # "mixed" /\ a.checksum = enc
    BY <2>2 DEF bech32_decode
  <2>4. PICK bytes \in convertBits(a) :
          /\ 2 <= bytes /\ bytes <= 40
          /\ a.version = 0 => bytes \in {20, 32}
          /\ a.version = 1 => bytes = 32
    BY <2>1 DEF bech32Decode
  <2>5. /\ a.zeroPadding /\ bytes \in Nat
        /\ 8 * bytes <= 5 * a.groups /\ 5 * a.groups < 8 * bytes + 5
    BY <1>1, <2>4, WholeBytes
  <2>6. bytes \in 2..40
    BY <2>4, <2>5
  <2> QED
    BY <2>1, <2>2, <2>3, <2>4, <2>5, <2>6
<1>3. ASSUME a.start = start, a.alphabet, a.case # "mixed", a.zeroPadding,
             NEW bytes \in 2..40,
             8 * bytes <= 5 * a.groups, 5 * a.groups < 8 * bytes + 5,
             \/ a.version = 0 /\ a.checksum = "bech32" /\ bytes \in {20, 32}
             \/ a.version = 1 /\ a.checksum = "bech32m" /\ bytes = 32
      PROVE  ValidSegwit(a, start)
  <2>1. bytes \in convertBits(a)
    BY <1>1, <1>3, WholeBytes
  <2>2. /\ bytes \in {20, 32}
        /\ bytes = 20 => a.groups = 32
        /\ bytes = 32 => a.groups = 52
    BY <1>1, <1>3
  <2>3. a.length = a.groups + 10
    BY <1>3
  <2>4. a.length \in {42, 62} /\ 14 <= a.length /\ a.length <= 74
    BY <1>1, <2>2, <2>3
  <2>5. bech32_decode(a, a.checksum)
    BY <1>1, <1>3, <2>4 DEF bech32_decode
  <2>6. bech32Decode(a)
    <3>1. a.checksum \in {"bech32", "bech32m"}
          /\ ((a.version = 0) <=> (a.checksum = "bech32"))
      BY <1>3
    <3>2. a.version <= 16 /\ 2 <= bytes /\ bytes <= 40
      BY <1>3
    <3> QED
      BY <1>3, <2>1, <2>4, <2>5, <3>1, <3>2 DEF bech32Decode
  <2> QED
    BY <1>1, <1>3, <2>4, <2>6 DEF ValidSegwit
<1> QED
  BY <1>2, <1>3

\* The code's ranges of first characters and lengths refuse no encoding of 25
\* bytes with one of the versions.
LEMMA Base58Rules ==
  ASSUME NEW a \in Base58Address, NEW starts, NEW versions,
         a.alphabet /\ a.decoded = 25 /\ a.version \in versions =>
           a.length \in 25..35 /\ a.start \in starts
  PROVE  ValidBase58(a, starts, versions) <=>
           a.alphabet /\ a.checksum /\ a.decoded = 25 /\ a.version \in versions
<1>1. a.kind = "base58" /\ a.length \in Nat
  BY DEF Base58Address
<1> QED
  BY <1>1 DEF ValidBase58, DecodesTo

\* verifyAddress finds valid what the networks' rules call an address.
LEMMA AddressRules ==
  ASSUME NEW sourceId \in AddressSources,
         NEW a \in Base58Address \cup SegwitAddress,
         IsEncoding(sourceId, a)
  PROVE  /\ verifyAddress(sourceId, a).isValid <=> IsAddress(sourceId, a)
         /\ \A s \in verifyAddress(sourceId, a).standardAddress :
              s.kind = "segwit" => s.case = "lower"
<1> DEFINE answerIf(valid) == ResponseIf(valid, a)
<1>1. ASSUME NEW valid \in BOOLEAN
      PROVE  /\ answerIf(valid).isValid <=> valid
             /\ \A s \in answerIf(valid).standardAddress :
                  s.kind = "segwit" => s.case = "lower"
  <2>1. a \in SegwitAddress => [a EXCEPT !.case = "lower"].case = "lower"
    BY DEF SegwitAddress
  <2>2. a.kind = "segwit" => a \in SegwitAddress
    BY DEF Base58Address
  <2> QED
    BY <2>1, <2>2 DEF ResponseIf, validAddressToResponse, INVALID_ADDRESS_RESPONSE
<1>2. CASE a \in Base58Address
  <2>1. a.kind = "base58"
    BY <1>2 DEF Base58Address
  <2>2. a.alphabet /\ a.decoded = 25 =>
          /\ a.length \in 25..35
          /\ sourceId \notin {"XRP", "testXRP"} => a.start \in FirstCharacters(a.version)
    BY <2>1 DEF IsEncoding
  <2>3. IsAddress(sourceId, a) <=>
          a.alphabet /\ a.checksum /\ a.decoded = 25 /\ a.version \in Versions(sourceId)
    BY <2>1 DEF IsAddress
  <2>4. \A start : ~ValidSegwit(a, start)
    BY <2>1 DEF ValidSegwit
  <2>5. CASE sourceId = "BTC"
    <3>1. Versions(sourceId) = {0, 5}
      BY <2>5 DEF Versions
    <3>2. a.version \in {0, 5} => FirstCharacters(a.version) \subseteq {"1", "3"}
      BY DEF FirstCharacters
    <3>3. ValidBase58(a, {"1", "3"}, {0, 5}) <=> IsAddress(sourceId, a)
      BY <1>2, <2>2, <2>3, <2>5, <3>1, <3>2, Base58Rules
    <3>4. verifyAddress(sourceId, a)
            = answerIf(ValidBase58(a, {"1", "3"}, {0, 5}) \/ ValidSegwit(a, "bc1"))
      BY <2>5 DEF verifyAddress, verifyAddressBTC
    <3> QED
      BY <1>1, <2>4, <3>3, <3>4
  <2>6. CASE sourceId = "testBTC"
    <3>1. Versions(sourceId) = {111, 196}
      BY <2>6 DEF Versions
    <3>2. a.version \in {111, 196} => FirstCharacters(a.version) \subseteq {"n", "m", "2"}
      BY DEF FirstCharacters
    <3>3. ValidBase58(a, {"n", "m", "2"}, {111, 196}) <=> IsAddress(sourceId, a)
      BY <1>2, <2>2, <2>3, <2>6, <3>1, <3>2, Base58Rules
    <3>4. verifyAddress(sourceId, a)
            = answerIf(ValidBase58(a, {"n", "m", "2"}, {111, 196}) \/ ValidSegwit(a, "tb1"))
      BY <2>6 DEF verifyAddress, verifyAddressBTC
    <3> QED
      BY <1>1, <2>4, <3>3, <3>4
  <2>7. CASE sourceId = "DOGE"
    <3>1. Versions(sourceId) = {30, 22}
      BY <2>7 DEF Versions
    <3>2. a.version \in {30, 22} => FirstCharacters(a.version) \subseteq {"D", "A", "9"}
      BY DEF FirstCharacters
    <3>3. ValidBase58(a, {"D", "A", "9"}, {30, 22}) <=> IsAddress(sourceId, a)
      BY <1>2, <2>2, <2>3, <2>7, <3>1, <3>2, Base58Rules
    <3>4. verifyAddress(sourceId, a) = answerIf(ValidBase58(a, {"D", "A", "9"}, {30, 22}))
      BY <2>7 DEF verifyAddress, verifyAddressDOGE
    <3>5. ValidBase58(a, {"D", "A", "9"}, {30, 22}) \in BOOLEAN
      BY DEF ValidBase58
    <3> QED
      BY <1>1, <3>3, <3>4, <3>5
  <2>8. CASE sourceId = "testDOGE"
    <3>1. Versions(sourceId) = {113, 196}
      BY <2>8 DEF Versions
    <3>2. a.version \in {113, 196} => FirstCharacters(a.version) \subseteq {"n", "m", "2"}
      BY DEF FirstCharacters
    <3>3. ValidBase58(a, {"n", "m", "2"}, {113, 196}) <=> IsAddress(sourceId, a)
      BY <1>2, <2>2, <2>3, <2>8, <3>1, <3>2, Base58Rules
    <3>4. verifyAddress(sourceId, a) = answerIf(ValidBase58(a, {"n", "m", "2"}, {113, 196}))
      BY <2>8 DEF verifyAddress, verifyAddressDOGE
    <3>5. ValidBase58(a, {"n", "m", "2"}, {113, 196}) \in BOOLEAN
      BY DEF ValidBase58
    <3> QED
      BY <1>1, <3>3, <3>4, <3>5
  <2>9. CASE sourceId \in {"XRP", "testXRP"}
    <3>1. Versions(sourceId) = {0}
      BY <2>9 DEF Versions
    <3>2. (a.length >= 24 /\ DecodesTo(a, {0})) <=> IsAddress(sourceId, a)
      BY <2>2, <2>3, <3>1 DEF DecodesTo
    <3>3. verifyAddress(sourceId, a)
            = answerIf(a.kind = "base58" /\ a.length >= 24 /\ DecodesTo(a, {0}))
      BY <2>9 DEF verifyAddress, verifyAddressXRP
    <3> QED
      BY <1>1, <2>1, <3>2, <3>3
  <2> QED
    BY <2>5, <2>6, <2>7, <2>8, <2>9 DEF AddressSources
<1>3. CASE a \in SegwitAddress
  <2>1. a.kind = "segwit"
    BY <1>3 DEF SegwitAddress
  <2>2. a.start # "other" => a.length = a.groups + 10
    BY <2>1 DEF IsEncoding
  <2>3. \A starts, versions : ValidBase58(a, starts, versions) = FALSE
    BY <2>1 DEF ValidBase58
  <2> DEFINE Rules ==
        /\ a.alphabet /\ a.case # "mixed" /\ a.zeroPadding
        /\ \E bytes \in 2..40 : 8 * bytes <= 5 * a.groups /\ 5 * a.groups < 8 * bytes + 5 /\
             \/ a.version = 0 /\ a.checksum = "bech32" /\ bytes \in {20, 32}
             \/ a.version = 1 /\ a.checksum = "bech32m" /\ bytes = 32
  <2>4. IsAddress(sourceId, a) <=> a.start \in Prefix(sourceId) /\ Rules
    BY <2>1 DEF IsAddress
  <2>5. \A start \in {"bc1", "tb1"} : ValidSegwit(a, start) <=> a.start = start /\ Rules
    BY <1>3, <2>2, SegwitRules
  <2> HIDE DEF Rules
  <2>6. CASE sourceId = "BTC"
    <3>1. Prefix(sourceId) = {"bc1"}
      BY <2>6 DEF Prefix
    <3>2. verifyAddress(sourceId, a)
            = answerIf(ValidBase58(a, {"1", "3"}, {0, 5}) \/ ValidSegwit(a, "bc1"))
      BY <2>6 DEF verifyAddress, verifyAddressBTC
    <3> QED
      BY <1>1, <2>3, <2>4, <2>5, <3>1, <3>2
  <2>7. CASE sourceId = "testBTC"
    <3>1. Prefix(sourceId) = {"tb1"}
      BY <2>7 DEF Prefix
    <3>2. verifyAddress(sourceId, a)
            = answerIf(ValidBase58(a, {"n", "m", "2"}, {111, 196}) \/ ValidSegwit(a, "tb1"))
      BY <2>7 DEF verifyAddress, verifyAddressBTC
    <3> QED
      BY <1>1, <2>3, <2>4, <2>5, <3>1, <3>2
  <2>8. CASE sourceId \notin {"BTC", "testBTC"}
    <3>1. Prefix(sourceId) = {}
      BY <2>8 DEF Prefix
    <3>2. CASE sourceId \in {"DOGE", "testDOGE"}
      <4>1. /\ verifyAddressDOGE(a, TRUE) = answerIf(FALSE)
            /\ verifyAddressDOGE(a, FALSE) = answerIf(FALSE)
        BY <2>3 DEF verifyAddressDOGE
      <4>2. verifyAddress(sourceId, a) = answerIf(FALSE)
        BY <3>2, <4>1 DEF verifyAddress
      <4> QED
        BY <1>1, <2>4, <3>1, <4>2
    <3>3. CASE sourceId \in {"XRP", "testXRP"}
      <4>1. verifyAddressXRP(a) = answerIf(FALSE)
        BY <2>1 DEF verifyAddressXRP
      <4>2. verifyAddress(sourceId, a) = answerIf(FALSE)
        BY <3>3, <4>1 DEF verifyAddress
      <4> QED
        BY <1>1, <2>4, <3>1, <4>2
    <3> QED
      BY <2>8, <3>2, <3>3 DEF AddressSources
  <2> QED
    BY <2>6, <2>7, <2>8
<1> QED
  BY <1>2, <1>3

-----------------------------------------------------------------------------
(* Recursion over JSON values *)

\* A set of natural numbers has a lowest element.
LEMMA LowestExists ==
  ASSUME NEW S \in SUBSET Nat, S # {}
  PROVE  Min(S) \in S /\ \A y \in S : Min(S) <= y
<1>1. IsWellFoundedOn(OpToRel(<, Nat), Nat)
  BY NatLessThanWellFounded
<1>2. \E x \in S : \A y \in S : ~ (<<y, x>> \in OpToRel(<, Nat))
  BY <1>1, WFMin
<1>3. OpToRel(<, Nat) = {p \in Nat \X Nat : p[1] < p[2]}
  BY DEF OpToRel
<1>4. PICK x \in S : \A y \in S : <<y, x>> \notin {p \in Nat \X Nat : p[1] < p[2]}
  BY <1>2, <1>3
<1>5. ASSUME NEW y \in S PROVE x <= y
  <2>1. <<y, x>> \notin {p \in Nat \X Nat : p[1] < p[2]}
    BY <1>4
  <2> QED
    BY <2>1
<1>6. \E z \in S : \A y \in S : z <= y
  BY <1>5
<1> QED
  BY <1>6 DEF Min

\* Step by step to the end of a list.
LEMMA UpTo ==
  ASSUME NEW n \in Nat, NEW T, 0 \in T, \A i \in 1..n : i - 1 \in T => i \in T
  PROVE  \A i \in 0..n : i \in T
<1> DEFINE bad == {i \in 0..n : i \notin T}
<1>1. SUFFICES ASSUME bad # {} PROVE FALSE
  OBVIOUS
<1>2. bad \in SUBSET Nat
  OBVIOUS
<1> DEFINE i == Min(bad)
<1>3. i \in bad /\ \A j \in bad : i <= j
  BY <1>1, <1>2, LowestExists
<1> HIDE DEF i
<1>4. i \in 1..n /\ i - 1 \in 0..n
  BY <1>3
<1>5. i - 1 \notin bad
  BY <1>3, <1>4
<1> QED
  BY <1>3, <1>4, <1>5

\* What a loop that takes one value to the next gives after each of n steps.
Loops(V, n, base, next) ==
  {f \in [0..n -> V] : f[0] = base /\ \A i \in 1..n : f[i] = next[i][f[i - 1]]}

LEMMA LoopExists ==
  ASSUME NEW V, NEW n \in Nat, NEW base \in V, NEW next \in [1..n -> [V -> V]]
  PROVE  Loops(V, n, base, next) # {}
<1> DEFINE T == {k \in 0..n : \E f \in [0..k -> V] :
                   f[0] = base /\ \A i \in 1..k : f[i] = next[i][f[i - 1]]}
<1>1. 0 \in T
  <2> DEFINE f == [i \in 0..0 |-> base]
  <2>1. f \in [0..0 -> V] /\ f[0] = base /\ \A i \in 1..0 : f[i] = next[i][f[i - 1]]
    OBVIOUS
  <2>2. 0 \in 0..n
    OBVIOUS
  <2> HIDE DEF f
  <2> QED
    BY <2>1, <2>2
<1>2. ASSUME NEW k \in 1..n, k - 1 \in T PROVE k \in T
  <2>1. PICK f \in [0..(k - 1) -> V] :
          f[0] = base /\ \A i \in 1..(k - 1) : f[i] = next[i][f[i - 1]]
    BY <1>2
  <2> DEFINE g == [i \in 0..k |-> IF i = k THEN next[k][f[k - 1]] ELSE f[i]]
  <2>2. next[k] \in [V -> V] /\ f[k - 1] \in V
    OBVIOUS
  <2>3. g \in [0..k -> V] /\ g[0] = base
    BY <2>1, <2>2
  <2>4. ASSUME NEW i \in 1..k PROVE g[i] = next[i][g[i - 1]]
    BY <2>1
  <2>5. k \in 0..n
    OBVIOUS
  <2> HIDE DEF g
  <2> QED
    BY <2>3, <2>4, <2>5
<1> HIDE DEF T
<1>3. \A i \in 0..n : i \in T
  BY <1>1, <1>2, UpTo
<1> QED
  BY <1>3 DEF T, Loops

\* What checkJsonDepthAndKeys returns, of which the model keeps this.
CheckResult == [isValid : BOOLEAN, totalKeys : Nat]

\* What is known after each of the items.
CheckSteps(first, items, args, check) ==
  {after \in [0..Len(items) -> CheckResult] :
     /\ after[0] = first
     /\ \A i \in 1..Len(items) : after[i] =
          IF ~after[i - 1].isValid THEN after[i - 1]
          ELSE check[items[i]][inside(args, after[i - 1].totalKeys)]}

\* The loop over the items ends with what is known after the last.
LEMMA ItemsChecked ==
  ASSUME NEW items \in Seq(JsonValues), NEW args \in CheckArguments,
         NEW first \in CheckResult,
         NEW check, \A i \in 1..Len(items) : check[items[i]] \in [CheckArguments -> CheckResult]
  PROVE  \E after \in CheckSteps(first, items, args, check) :
           checkItems(first, items, args, check) = after[Len(items)]
<1> DEFINE n == Len(items)
           at(r) == inside(args, r.totalKeys)
           next == [i \in 1..n |-> [r \in CheckResult |->
                      IF ~r.isValid THEN r ELSE check[items[i]][at(r)]]]
           body(f) == [i \in 0..n |->
                         IF i = 0 THEN first
                         ELSE IF ~f[i - 1].isValid THEN f[i - 1]
                         ELSE check[items[i]][at(f[i - 1])]]
           after == CHOOSE f : f = body(f)
<1>1. n \in Nat /\ \A i \in 1..n : items[i] \in JsonValues
  OBVIOUS
<1>2. ASSUME NEW r \in CheckResult PROVE at(r) \in CheckArguments
  <2>1. /\ args.depth + 1 \in Nat /\ r.totalKeys \in Nat
        /\ args.maxDepth \in Nat /\ args.maxKeys \in Nat
    BY DEF CheckResult, CheckArguments
  <2> QED
    BY <2>1 DEF CheckArguments, inside
<1>3. next \in [1..n -> [CheckResult -> CheckResult]]
  <2>1. ASSUME NEW i \in 1..n, NEW r \in CheckResult
        PROVE  (IF ~r.isValid THEN r ELSE check[items[i]][at(r)]) \in CheckResult
    <3> HIDE DEF at
    <3>1. check[items[i]] \in [CheckArguments -> CheckResult]
      BY <1>1
    <3> QED
      BY <1>2, <3>1
  <2> HIDE DEF at
  <2> QED
    BY <2>1
<1>4. Loops(CheckResult, n, first, next) # {}
  <2> HIDE DEF next, n, at, body, after
  <2> QED
    BY <1>1, <1>3, LoopExists
<1>5. PICK f \in [0..n -> CheckResult] :
        f[0] = first /\ \A i \in 1..n : f[i] = next[i][f[i - 1]]
  <2> HIDE DEF next, n, at, body, after
  <2> QED
    BY <1>4 DEF Loops
<1>6. f = body(f)
  <2>1. ASSUME NEW i \in 0..n PROVE f[i] = body(f)[i]
    <3>1. CASE i = 0
      BY <1>5, <3>1
    <3>2. CASE i \in 1..n
      <4>1. f[i - 1] \in CheckResult
        BY <1>1, <1>5, <3>2
      <4> HIDE DEF at
      <4> QED
        BY <1>5, <3>2, <4>1
    <3> QED
      BY <3>1, <3>2
  <2> HIDE DEF at
  <2> QED
    BY <1>5, <2>1
<1>7. after = body(after)
  <2> HIDE DEF body
  <2> QED
    BY <1>6
<1>8. checkItems(first, items, args, check) = after[n]
  BY DEF checkItems, carried
<1> HIDE DEF after
<1>9. after[0] = first /\ \A i \in 1..n : after[i] =
        IF ~after[i - 1].isValid THEN after[i - 1] ELSE check[items[i]][at(after[i - 1])]
  <2> HIDE DEF at
  <2> QED
    BY <1>1, <1>7
<1>10. after \in [0..n -> CheckResult]
  <2> DEFINE T == {i \in 0..n : after[i] \in CheckResult}
  <2>1. 0 \in T
    <3> HIDE DEF at
    <3> QED
      BY <1>1, <1>9
  <2>2. ASSUME NEW i \in 1..n, i - 1 \in T PROVE i \in T
    <3>1. next[i] \in [CheckResult -> CheckResult] /\ after[i - 1] \in CheckResult
      BY <1>3, <2>2
    <3>2. after[i] = next[i][after[i - 1]]
      <4> HIDE DEF at
      <4> QED
        BY <1>9, <3>1
    <3> HIDE DEF next
    <3> QED
      BY <3>1, <3>2
  <2>3. DOMAIN after = 0..n
    <3> HIDE DEF at
    <3> QED
      BY <1>7
  <2>4. \A i \in 0..n : i \in T
    <3> HIDE DEF T
    <3> QED
      BY <1>1, <2>1, <2>2, UpTo
  <2>5. after = [i \in 0..n |-> after[i]]
    <3> HIDE DEF at
    <3> QED
      BY <1>7
  <2> QED
    BY <2>4, <2>5
<1>11. after \in CheckSteps(first, items, args, check)
  <2> HIDE DEF next, body
  <2> QED
    BY <1>9, <1>10 DEF CheckSteps
<1> QED
  BY <1>8, <1>11

\* The values directly inside a value.
parts(v) == {v.items[i] : i \in DOMAIN v.items}

\* They are values.
LEMMA PartsTyped == ASSUME NEW v \in JsonValues PROVE parts(v) \in SUBSET JsonValues
BY Web2JsonAssumption DEF parts

\* Of any values there is one that has none of them among its parts.
LEMMA LeastValue ==
  ASSUME NEW S \in SUBSET JsonValues, S # {}
  PROVE  \E v \in S : parts(v) \cap S = {}
<1>1. PICK v \in S : \A i \in DOMAIN v.items : v.items[i] \notin S
  BY JsonAssumption
<1>2. parts(v) \cap S = {}
  BY <1>1 DEF parts
<1> QED
  BY <1>2

\* The functions that a recursion over the parts of a value defines.
Solutions(V, step) == {f \in [JsonValues -> V] : \A v \in JsonValues : f[v] = step[v][f]}

\* What holds of a value if it holds of its parts holds of every value.
LEMMA ValueInduction ==
  ASSUME NEW T, \A v \in JsonValues : parts(v) \subseteq T => v \in T
  PROVE  JsonValues \subseteq T
<1> DEFINE S == {v \in JsonValues : v \notin T}
<1>1. SUFFICES ASSUME S # {} PROVE FALSE
  OBVIOUS
<1>2. PICK v \in S : parts(v) \cap S = {}
  BY <1>1, LeastValue
<1>3. parts(v) \subseteq T
  BY <1>2, PartsTyped
<1> QED
  BY <1>2, <1>3

\* A recursion over the parts of a value defines a function.
LEMMA SolutionExists ==
  ASSUME NEW V, V # {},
         NEW step \in [JsonValues -> [[JsonValues -> V] -> V]],
         \A v \in JsonValues : \A f, g \in [JsonValues -> V] :
           (\A w \in parts(v) : f[w] = g[w]) => step[v][f] = step[v][g]
  PROVE  Solutions(V, step) # {}
<1> DEFINE F == [JsonValues -> V]
           Solves(f, S) == /\ S \subseteq JsonValues
                           /\ \A v \in S : parts(v) \subseteq S /\ f[v] = step[v][f]
           Solved == {v \in JsonValues : \E f \in F : \E S \in SUBSET JsonValues :
                        v \in S /\ Solves(f, S)}
\* Two of them agree on what both solve.
<1>1. ASSUME NEW f \in F, NEW g \in F,
             NEW S \in SUBSET JsonValues, NEW T \in SUBSET JsonValues,
             Solves(f, S), Solves(g, T)
      PROVE  \A v \in S \cap T : f[v] = g[v]
  <2> DEFINE bad == {v \in S \cap T : f[v] # g[v]}
  <2>1. SUFFICES ASSUME bad # {} PROVE FALSE
    OBVIOUS
  <2>2. PICK v \in bad : parts(v) \cap bad = {}
    BY <2>1, LeastValue
  <2>3. v \in JsonValues /\ parts(v) \subseteq S \cap T
    BY <1>1
  <2>4. \A w \in parts(v) : f[w] = g[w]
    BY <2>2, <2>3
  <2>5. step[v][f] = step[v][g]
    BY <2>3, <2>4
  <2> QED
    BY <1>1, <2>2, <2>5
<1> DEFINE some(v) == CHOOSE f \in F : \E S \in SUBSET JsonValues : v \in S /\ Solves(f, S)
           all == [v \in JsonValues |->
                     IF v \in Solved THEN some(v)[v] ELSE CHOOSE x \in V : TRUE]
<1>2. ASSUME NEW v \in Solved
      PROVE  some(v) \in F /\ \E S \in SUBSET JsonValues : v \in S /\ Solves(some(v), S)
  <2> HIDE DEF Solves, F
  <2> QED
    OBVIOUS
<1>3. all \in F
  <2> HIDE DEF some, Solved
  <2> QED
    BY <1>2
<1>4. Solves(all, Solved)
  <2> SUFFICES ASSUME NEW v \in Solved
               PROVE  parts(v) \subseteq Solved /\ all[v] = step[v][all]
    OBVIOUS
  <2>1. PICK S \in SUBSET JsonValues : v \in S /\ Solves(some(v), S)
    BY <1>2
  <2> DEFINE f == some(v)
  <2>2. f \in F /\ Solves(f, S)
    BY <1>2, <2>1
  <2> HIDE DEF f
  <2>3. S \subseteq Solved
    <3> HIDE DEF Solves, F
    <3> QED
      BY <2>2
  <2>4. parts(v) \subseteq S
    BY <2>1
  <2>5. ASSUME NEW w \in parts(v) PROVE all[w] = f[w]
    <3>1. w \in Solved /\ w \in S /\ w \in JsonValues
      BY <2>3, <2>4, <2>5
    <3>2. PICK T \in SUBSET JsonValues : w \in T /\ Solves(some(w), T)
      BY <1>2, <3>1
    <3>3. some(w)[w] = f[w]
      <4> HIDE DEF Solves, F, some
      <4> QED
        BY <1>1, <1>2, <2>2, <3>1, <3>2
    <3>4. all[w] = some(w)[w]
      <4> HIDE DEF some, Solved
      <4> QED
        BY <3>1
    <3> QED
      BY <3>3, <3>4
  <2>6. all[v] = f[v]
    <3>1. v \in JsonValues
      OBVIOUS
    <3> HIDE DEF some, Solved
    <3> QED
      BY <3>1 DEF f
  <2>7. step[v][all] = step[v][f]
    <3> HIDE DEF all
    <3> QED
      BY <1>3, <2>2, <2>5
  <2> QED
    BY <2>1, <2>2, <2>3, <2>4, <2>6, <2>7
<1>5. ASSUME NEW v \in JsonValues, parts(v) \subseteq Solved PROVE v \in Solved
  <2> SUFFICES ASSUME v \notin Solved PROVE FALSE
    OBVIOUS
  <2> DEFINE g == [all EXCEPT ![v] = step[v][all]]
  <2>1. g \in F /\ g[v] = step[v][all] /\ \A w \in Solved : g[w] = all[w]
    <3> HIDE DEF all, Solved
    <3>1. step[v][all] \in V
      <4>1. step[v] \in [[JsonValues -> V] -> V]
        OBVIOUS
      <4> QED
        BY <1>3, <4>1
    <3>2. Solved \subseteq JsonValues
      BY DEF Solved
    <3> QED
      BY <1>3, <3>1, <3>2
  <2> HIDE DEF g, all
  <2>2. ASSUME NEW w \in JsonValues, parts(w) \subseteq Solved
        PROVE  step[w][g] = step[w][all]
    <3> HIDE DEF Solved
    <3> QED
      BY <1>3, <2>1, <2>2
  <2>3. Solves(g, Solved \cup {v})
    <3> HIDE DEF Solved
    <3>1. Solved \subseteq JsonValues
      BY DEF Solved
    <3>2. \A w \in Solved \cup {v} : parts(w) \subseteq Solved
      BY <1>4, <1>5
    <3>3. \A w \in Solved \cup {v} : g[w] = step[w][g]
      BY <1>4, <1>5, <2>1, <2>2, <3>1, <3>2
    <3> QED
      BY <3>1, <3>2, <3>3
  <2> HIDE DEF Solves, F
  <2> QED
    BY <2>1, <2>3
<1>6. JsonValues \subseteq Solved
  <2> HIDE DEF Solved
  <2> QED
    BY <1>5, ValueInduction
<1>7. \A v \in JsonValues : all[v] = step[v][all]
  <2> HIDE DEF Solved, all
  <2> QED
    BY <1>4, <1>6
<1> HIDE DEF all
<1> QED
  BY <1>3, <1>7 DEF Solutions

\* The items of a value are values.
LEMMA ItemsTyped ==
  ASSUME NEW v \in JsonValues
  PROVE  /\ v.items \in Seq(JsonValues) /\ Len(v.items) \in Nat
         /\ DOMAIN v.items = 1..Len(v.items)
         /\ \A i \in 1..Len(v.items) : v.items[i] \in JsonValues /\ v.items[i] \in parts(v)
<1>1. v.items \in Seq(JsonValues)
  BY Web2JsonAssumption
<1> DEFINE items == v.items
<1>2. /\ items \in Seq(JsonValues) /\ Len(items) \in Nat /\ DOMAIN items = 1..Len(items)
      /\ \A i \in 1..Len(items) : items[i] \in JsonValues
  <2> HIDE DEF items
  <2>1. items \in Seq(JsonValues)
    BY <1>1 DEF items
  <2> QED
    BY <2>1
<1>3. \A i \in DOMAIN v.items : v.items[i] \in parts(v)
  BY DEF parts
<1> QED
  BY <1>2, <1>3

\* What a check starts with.
FirstResult(v, args) ==
  LET keys == args.totalKeys + IF v.type = "object" THEN Len(v.items) ELSE 0
  IN [isValid |-> args.depth <= args.maxDepth /\ keys <= args.maxKeys, totalKeys |-> keys]

\* The check of a value, given the function that checks its items.
Checked(v, args, check) == checkItems(FirstResult(v, args), v.items, args, check)

\* A value's parts are checked by a function of results.
PartsChecked(v, check) == \A w \in parts(v) : check[w] \in [CheckArguments -> CheckResult]

\* So the check of a value goes through its items.
LEMMA CheckedSteps ==
  ASSUME NEW v \in JsonValues, NEW args \in CheckArguments,
         NEW check, PartsChecked(v, check)
  PROVE  \E after \in CheckSteps(FirstResult(v, args), v.items, args, check) :
           Checked(v, args, check) = after[Len(v.items)]
<1>1. FirstResult(v, args) \in CheckResult
  <2> DEFINE keys == args.totalKeys + IF v.type = "object" THEN Len(v.items) ELSE 0
  <2>1. keys \in Nat
    BY ItemsTyped DEF CheckArguments
  <2> HIDE DEF keys
  <2>2. [isValid |-> args.depth <= args.maxDepth /\ keys <= args.maxKeys, totalKeys |-> keys]
          \in CheckResult
    BY <2>1 DEF CheckResult
  <2> QED
    BY <2>2 DEF FirstResult, keys
<1>2. Checked(v, args, check) = checkItems(FirstResult(v, args), v.items, args, check)
  BY DEF Checked
<1>3. /\ v.items \in Seq(JsonValues)
      /\ \A i \in 1..Len(v.items) : check[v.items[i]] \in [CheckArguments -> CheckResult]
  BY ItemsTyped DEF PartsChecked
<1> QED
  BY <1>1, <1>2, <1>3, ItemsChecked

\* It asks the function for nothing but the items.
LEMMA CheckedLocal ==
  ASSUME NEW v \in JsonValues, NEW args \in CheckArguments,
         NEW f, NEW g, PartsChecked(v, f), PartsChecked(v, g),
         \A w \in parts(v) : f[w] = g[w]
  PROVE  Checked(v, args, f) = Checked(v, args, g)
<1>1. PICK a \in CheckSteps(FirstResult(v, args), v.items, args, f) :
         Checked(v, args, f) = a[Len(v.items)]
  BY CheckedSteps
<1>2. PICK b \in CheckSteps(FirstResult(v, args), v.items, args, g) :
         Checked(v, args, g) = b[Len(v.items)]
  BY CheckedSteps
<1> DEFINE n == Len(v.items)
           T == {i \in 0..n : a[i] = b[i]}
<1>3. n \in Nat /\ \A i \in 1..n : v.items[i] \in parts(v)
  BY ItemsTyped
<1>4. 0 \in T
  BY <1>1, <1>2, <1>3 DEF CheckSteps
<1>5. ASSUME NEW i \in 1..n, i - 1 \in T PROVE i \in T
  <2>1. a[i - 1] = b[i - 1] /\ f[v.items[i]] = g[v.items[i]]
    BY <1>3, <1>5
  <2>2. i \in 0..n
    BY <1>3
  <2> QED
    BY <1>1, <1>2, <2>1, <2>2 DEF CheckSteps
<1>6. \A i \in 0..n : i \in T
  <2> HIDE DEF T, n
  <2> QED
    BY <1>3, <1>4, <1>5, UpTo
<1> QED
  BY <1>1, <1>2, <1>3, <1>6

\* checkJsonDepthAndKeys is a function, and the one that it says it is.
LEMMA CheckDefined ==
  /\ checkJsonDepthAndKeys \in [JsonValues -> [CheckArguments -> CheckResult]]
  /\ \A v \in JsonValues : \A args \in CheckArguments :
       checkJsonDepthAndKeys[v][args] = Checked(v, args, checkJsonDepthAndKeys)
<1> DEFINE V == [CheckArguments -> CheckResult]
           step == [v \in JsonValues |-> [f \in [JsonValues -> V] |->
                      [args \in CheckArguments |-> Checked(v, args, f)]]]
<1>1. ASSUME NEW v \in JsonValues, NEW f, PartsChecked(v, f), NEW args \in CheckArguments
      PROVE  Checked(v, args, f) \in CheckResult
  <2>1. PICK after \in CheckSteps(FirstResult(v, args), v.items, args, f) :
          Checked(v, args, f) = after[Len(v.items)]
    BY <1>1, CheckedSteps
  <2> QED
    BY <2>1, ItemsTyped DEF CheckSteps
<1>2. /\ \A v \in JsonValues : \A f \in [JsonValues -> V] : PartsChecked(v, f)
      /\ step \in [JsonValues -> [[JsonValues -> V] -> V]]
  <2>1. ASSUME NEW v \in JsonValues, NEW f \in [JsonValues -> V] PROVE PartsChecked(v, f)
    BY PartsTyped DEF PartsChecked
  <2> QED
    BY <1>1, <2>1
<1>3. V # {}
  <2>1. [args \in CheckArguments |-> [isValid |-> TRUE, totalKeys |-> 0]] \in V
    BY DEF CheckResult
  <2> QED
    BY <2>1
<1>4. ASSUME NEW v \in JsonValues, NEW f \in [JsonValues -> V], NEW g \in [JsonValues -> V],
             \A w \in parts(v) : f[w] = g[w]
      PROVE  step[v][f] = step[v][g]
  <2>1. \A args \in CheckArguments : Checked(v, args, f) = Checked(v, args, g)
    BY <1>2, <1>4, CheckedLocal
  <2> QED
    BY <2>1
<1>5. Solutions(V, step) # {}
  <2> HIDE DEF V, step
  <2> QED
    BY <1>2, <1>3, <1>4, SolutionExists
<1> DEFINE body(f) == [v \in JsonValues |-> [args \in CheckArguments |-> Checked(v, args, f)]]
<1>6. \E f : f = body(f)
  <2>1. PICK f \in [JsonValues -> V] : \A v \in JsonValues : f[v] = step[v][f]
    <3> HIDE DEF V, step, body
    <3> QED
      BY <1>5 DEF Solutions
  <2>2. \A v \in JsonValues : f[v] = [args \in CheckArguments |-> Checked(v, args, f)]
    BY <2>1
  <2>3. f = body(f)
    <3> HIDE DEF V
    <3> QED
      BY <2>1, <2>2
  <2> HIDE DEF body
  <2> QED
    BY <2>3
<1>7. checkJsonDepthAndKeys = CHOOSE f : f = body(f)
  BY DEF checkJsonDepthAndKeys, Checked, FirstResult
<1>8. checkJsonDepthAndKeys = body(checkJsonDepthAndKeys)
  <2> HIDE DEF body
  <2> QED
    BY <1>6, <1>7
<1> DEFINE T == {v \in JsonValues : checkJsonDepthAndKeys[v] \in V}
<1>9. JsonValues \subseteq T
  <2>1. ASSUME NEW v \in JsonValues, parts(v) \subseteq T PROVE v \in T
    <3>1. PartsChecked(v, checkJsonDepthAndKeys)
      BY <2>1 DEF PartsChecked
    <3>2. checkJsonDepthAndKeys[v]
            = [args \in CheckArguments |-> Checked(v, args, checkJsonDepthAndKeys)]
      BY <1>8
    <3> QED
      BY <1>1, <3>1, <3>2
  <2> HIDE DEF T
  <2> QED
    BY <2>1, ValueInduction
<1> QED
  BY <1>8, <1>9

\* A set of natural numbers below a bound has a greatest.
LEMMA HighestExists ==
  ASSUME NEW S \in SUBSET Nat, S # {}, NEW bound \in Nat, \A x \in S : x <= bound
  PROVE  Max(S) \in S /\ \A x \in S : x <= Max(S)
<1> DEFINE U == {u \in Nat : \A x \in S : x <= u}
           top == Min(U)
<1>1. U \in SUBSET Nat /\ U # {}
  OBVIOUS
<1>2. top \in U /\ \A u \in U : top <= u
  <2> HIDE DEF U
  <2> QED
    BY <1>1, LowestExists
<1> HIDE DEF top
<1>3. top \in S
  <2> SUFFICES ASSUME top \notin S PROVE FALSE
    OBVIOUS
  <2>1. PICK x \in S : TRUE
    OBVIOUS
  <2>2. x \in Nat /\ x <= top /\ x # top /\ top \in Nat
    BY <1>2
  <2>3. top - 1 \in Nat
    BY <2>2
  <2>4. \A y \in S : y <= top - 1
    BY <1>2
  <2> QED
    BY <1>2, <2>3, <2>4
<1>4. \E x \in S : \A y \in S : y <= x
  BY <1>2, <1>3
<1> QED
  BY <1>4 DEF Max

\* The depth of a value, given that of its items.
Levels(v, depths) == {0} \cup {1 + depths[v.items[i]] : i \in DOMAIN v.items}

\* The parts of a value have numbers.
PartsCounted(v, numbers) == \A w \in parts(v) : numbers[w] \in Nat

\* A deepest item exists, because the items are finitely many.
LEMMA DeepestItem ==
  ASSUME NEW v \in JsonValues, NEW depths, PartsCounted(v, depths)
  PROVE  /\ Levels(v, depths) \in SUBSET Nat
         /\ Max(Levels(v, depths)) \in Levels(v, depths)
         /\ Max(Levels(v, depths)) \in Nat
<1> DEFINE n == Len(v.items)
           d(i) == depths[v.items[i]]
           T == {k \in 0..n : \E bound \in Nat : \A i \in 1..k : 1 + d(i) <= bound}
<1>1. n \in Nat /\ DOMAIN v.items = 1..n /\ \A i \in 1..n : d(i) \in Nat
  BY ItemsTyped DEF PartsCounted
<1>2. Levels(v, depths) = {0} \cup {1 + d(i) : i \in 1..n}
  BY <1>1 DEF Levels
<1> HIDE DEF n, d
<1>3. 0 \in T
  <2>1. 0 \in Nat /\ \A i \in 1..0 : 1 + d(i) <= 0
    OBVIOUS
  <2> QED
    BY <1>1, <2>1
<1>4. ASSUME NEW k \in 1..n, k - 1 \in T PROVE k \in T
  <2>1. PICK bound \in Nat : \A i \in 1..(k - 1) : 1 + d(i) <= bound
    BY <1>4
  <2> DEFINE larger == bound + d(k) + 1
  <2>2. larger \in Nat /\ \A i \in 1..k : 1 + d(i) <= larger
    <3>1. d(k) \in Nat /\ \A i \in 1..k : d(i) \in Nat /\ (i = k \/ i \in 1..(k - 1))
      BY <1>1
    <3> QED
      BY <2>1, <3>1
  <2>3. k \in 0..n
    BY <1>1
  <2> HIDE DEF larger
  <2> QED
    BY <2>2, <2>3
<1>5. \A k \in 0..n : k \in T
  <2> HIDE DEF T
  <2> QED
    BY <1>1, <1>3, <1>4, UpTo
<1>6. PICK bound \in Nat : \A i \in 1..n : 1 + d(i) <= bound
  <2>1. n \in T
    <3> HIDE DEF T
    <3> QED
      BY <1>1, <1>5
  <2> QED
    BY <2>1
<1> DEFINE S == {0} \cup {1 + d(i) : i \in 1..n}
<1>7. S \in SUBSET Nat /\ S # {} /\ \A x \in S : x <= bound
  BY <1>1, <1>6
<1>8. Max(S) \in S
  <2> HIDE DEF S
  <2> QED
    BY <1>7, HighestExists
<1> HIDE DEF S
<1> QED
  BY <1>2, <1>7, <1>8 DEF S

\* Depth is a function, and the one that its definition says it is.
LEMMA DepthDefined ==
  /\ Depth \in [JsonValues -> Nat]
  /\ \A v \in JsonValues : Depth[v] = Max(Levels(v, Depth))
<1> DEFINE step == [v \in JsonValues |-> [f \in [JsonValues -> Nat] |-> Max(Levels(v, f))]]
           body(f) == [v \in JsonValues |-> Max(Levels(v, f))]
<1>1. \A v \in JsonValues : \A f \in [JsonValues -> Nat] : PartsCounted(v, f)
  BY PartsTyped DEF PartsCounted
<1>2. step \in [JsonValues -> [[JsonValues -> Nat] -> Nat]]
  BY <1>1, DeepestItem
<1>3. ASSUME NEW v \in JsonValues, NEW f \in [JsonValues -> Nat], NEW g \in [JsonValues -> Nat],
             \A w \in parts(v) : f[w] = g[w]
      PROVE  step[v][f] = step[v][g]
  <2>1. Levels(v, f) = Levels(v, g)
    BY <1>3 DEF Levels, parts
  <2> QED
    BY <2>1
<1>4. Solutions(Nat, step) # {}
  <2>1. Nat # {}
    OBVIOUS
  <2> HIDE DEF step
  <2> QED
    BY <1>2, <1>3, <2>1, SolutionExists
<1>5. PICK f \in [JsonValues -> Nat] : \A v \in JsonValues : f[v] = step[v][f]
  <2> HIDE DEF step, body
  <2> QED
    BY <1>4 DEF Solutions
<1>6. f = body(f)
  BY <1>5
<1>7. Depth = CHOOSE g : g = body(g)
  BY DEF Depth, Levels
<1>8. Depth = body(Depth)
  <2> HIDE DEF body
  <2> QED
    BY <1>6, <1>7
<1> DEFINE T == {v \in JsonValues : Depth[v] \in Nat}
<1>9. JsonValues \subseteq T
  <2>1. ASSUME NEW v \in JsonValues, parts(v) \subseteq T PROVE v \in T
    <3>1. PartsCounted(v, Depth)
      BY <2>1 DEF PartsCounted
    <3>2. Depth[v] = Max(Levels(v, Depth))
      BY <1>8
    <3> QED
      BY <3>1, <3>2, DeepestItem
  <2> HIDE DEF T
  <2> QED
    BY <2>1, ValueInduction
<1> QED
  BY <1>8, <1>9

\* The keys of a value without its items.
OwnKeys(v) == IF v.type = "object" THEN Len(v.items) ELSE 0

\* All its keys, given those of its items.
KeysOf(v, keys) ==
  LET upTo[i \in 0..Len(v.items)] ==
        IF i = 0 THEN OwnKeys(v) ELSE upTo[i - 1] + keys[v.items[i]]
  IN upTo[Len(v.items)]

\* The sums after each of the items.
KeySums(v, keys) ==
  {upTo \in [0..Len(v.items) -> Nat] :
     /\ upTo[0] = OwnKeys(v)
     /\ \A i \in 1..Len(v.items) : upTo[i] = upTo[i - 1] + keys[v.items[i]]}

\* The sum over the items is the last of them.
LEMMA KeysSummed ==
  ASSUME NEW v \in JsonValues, NEW keys, PartsCounted(v, keys)
  PROVE  \E upTo \in KeySums(v, keys) : KeysOf(v, keys) = upTo[Len(v.items)]
<1> DEFINE n == Len(v.items)
           k(i) == keys[v.items[i]]
           next == [i \in 1..n |-> [r \in Nat |-> r + k(i)]]
           body(f) == [i \in 0..n |-> IF i = 0 THEN OwnKeys(v) ELSE f[i - 1] + k(i)]
           upTo == CHOOSE f : f = body(f)
<1>1. n \in Nat /\ (\A i \in 1..n : k(i) \in Nat) /\ OwnKeys(v) \in Nat
  BY ItemsTyped DEF PartsCounted, OwnKeys
<1>2. KeysOf(v, keys) = upTo[n]
  BY DEF KeysOf
<1> HIDE DEF n, k
<1>3. next \in [1..n -> [Nat -> Nat]]
  BY <1>1
<1>4. Loops(Nat, n, OwnKeys(v), next) # {}
  <2> HIDE DEF next, body, upTo
  <2> QED
    BY <1>1, <1>3, LoopExists
<1>5. PICK f \in [0..n -> Nat] :
        f[0] = OwnKeys(v) /\ \A i \in 1..n : f[i] = next[i][f[i - 1]]
  <2> HIDE DEF next, body, upTo
  <2> QED
    BY <1>4 DEF Loops
<1>6. f = body(f)
  <2>1. ASSUME NEW i \in 0..n PROVE f[i] = body(f)[i]
    <3>1. CASE i = 0
      BY <1>5, <3>1
    <3>2. CASE i \in 1..n
      <4>1. f[i - 1] \in Nat
        BY <1>1, <1>5, <3>2
      <4> QED
        BY <1>5, <3>2, <4>1
    <3> QED
      BY <3>1, <3>2
  <2> QED
    BY <1>5, <2>1
<1>7. upTo = body(upTo)
  <2> HIDE DEF body
  <2> QED
    BY <1>6
<1> HIDE DEF upTo
<1>8. /\ upTo[0] = OwnKeys(v) /\ \A i \in 1..n : upTo[i] = upTo[i - 1] + k(i)
      /\ DOMAIN upTo = 0..n /\ upTo = [i \in 0..n |-> upTo[i]]
  BY <1>1, <1>7
<1> DEFINE T == {i \in 0..n : upTo[i] \in Nat}
<1>9. \A i \in 0..n : i \in T
  <2>1. 0 \in T
    BY <1>1, <1>8
  <2>2. ASSUME NEW i \in 1..n, i - 1 \in T PROVE i \in T
    <3>1. upTo[i] = upTo[i - 1] + k(i) /\ upTo[i - 1] \in Nat /\ k(i) \in Nat
      BY <1>1, <1>8, <2>2
    <3>2. i \in 0..n /\ upTo[i] \in Nat
      BY <1>1, <3>1
    <3> QED
      BY <3>2
  <2> HIDE DEF T
  <2> QED
    BY <1>1, <2>1, <2>2, UpTo
<1>10. upTo \in KeySums(v, keys)
  BY <1>8, <1>9 DEF KeySums, n, k
<1> QED
  BY <1>2, <1>10 DEF n

\* It depends on the items only.
LEMMA KeysLocal ==
  ASSUME NEW v \in JsonValues, NEW f, NEW g, PartsCounted(v, f), PartsCounted(v, g),
         \A w \in parts(v) : f[w] = g[w]
  PROVE  KeysOf(v, f) = KeysOf(v, g)
<1>1. PICK a \in KeySums(v, f) : KeysOf(v, f) = a[Len(v.items)]
  BY KeysSummed
<1>2. PICK b \in KeySums(v, g) : KeysOf(v, g) = b[Len(v.items)]
  BY KeysSummed
<1> DEFINE n == Len(v.items)
           T == {i \in 0..n : a[i] = b[i]}
<1>3. n \in Nat /\ \A i \in 1..n : v.items[i] \in parts(v)
  BY ItemsTyped
<1>4. 0 \in T
  BY <1>1, <1>2, <1>3 DEF KeySums
<1>5. ASSUME NEW i \in 1..n, i - 1 \in T PROVE i \in T
  <2>1. a[i - 1] = b[i - 1] /\ f[v.items[i]] = g[v.items[i]]
    BY <1>3, <1>5
  <2>2. i \in 0..n
    BY <1>3
  <2> QED
    BY <1>1, <1>2, <2>1, <2>2 DEF KeySums
<1>6. \A i \in 0..n : i \in T
  <2> HIDE DEF T, n
  <2> QED
    BY <1>3, <1>4, <1>5, UpTo
<1> QED
  BY <1>1, <1>2, <1>3, <1>6

\* Keys is a function, and the one that its definition says it is.
LEMMA KeysDefined ==
  /\ Keys \in [JsonValues -> Nat]
  /\ \A v \in JsonValues : Keys[v] = KeysOf(v, Keys)
<1> DEFINE step == [v \in JsonValues |-> [f \in [JsonValues -> Nat] |-> KeysOf(v, f)]]
           body(f) == [v \in JsonValues |-> KeysOf(v, f)]
<1>1. \A v \in JsonValues : \A f \in [JsonValues -> Nat] : PartsCounted(v, f)
  BY PartsTyped DEF PartsCounted
<1>2. ASSUME NEW v \in JsonValues, NEW f, PartsCounted(v, f) PROVE KeysOf(v, f) \in Nat
  <2>1. PICK upTo \in KeySums(v, f) : KeysOf(v, f) = upTo[Len(v.items)]
    BY <1>2, KeysSummed
  <2> QED
    BY <2>1, ItemsTyped DEF KeySums
<1>3. step \in [JsonValues -> [[JsonValues -> Nat] -> Nat]]
  BY <1>1, <1>2
<1>4. ASSUME NEW v \in JsonValues, NEW f \in [JsonValues -> Nat], NEW g \in [JsonValues -> Nat],
             \A w \in parts(v) : f[w] = g[w]
      PROVE  step[v][f] = step[v][g]
  <2>1. KeysOf(v, f) = KeysOf(v, g)
    BY <1>1, <1>4, KeysLocal
  <2> QED
    BY <2>1
<1>5. Solutions(Nat, step) # {}
  <2>1. Nat # {}
    OBVIOUS
  <2> HIDE DEF step
  <2> QED
    BY <1>3, <1>4, <2>1, SolutionExists
<1>6. PICK f \in [JsonValues -> Nat] : \A v \in JsonValues : f[v] = step[v][f]
  <2> HIDE DEF step, body
  <2> QED
    BY <1>5 DEF Solutions
<1>7. f = body(f)
  BY <1>6
<1>8. Keys = CHOOSE g : g = body(g)
  BY DEF Keys, KeysOf, OwnKeys
<1>9. Keys = body(Keys)
  <2> HIDE DEF body
  <2> QED
    BY <1>7, <1>8
<1> DEFINE T == {v \in JsonValues : Keys[v] \in Nat}
<1>10. JsonValues \subseteq T
  <2>1. ASSUME NEW v \in JsonValues, parts(v) \subseteq T PROVE v \in T
    <3>1. PartsCounted(v, Keys)
      BY <2>1 DEF PartsCounted
    <3>2. Keys[v] = KeysOf(v, Keys)
      BY <1>9
    <3> QED
      BY <1>2, <3>1, <3>2
  <2> HIDE DEF T
  <2> QED
    BY <2>1, ValueInduction
<1> QED
  BY <1>9, <1>10

\* A value that the check finds valid is within the limits that are left, and the
\* running total has gone up by its keys.
Counted(v) ==
  \A args \in CheckArguments : LET r == checkJsonDepthAndKeys[v][args] IN
    r.isValid => /\ args.depth + Depth[v] <= args.maxDepth
                 /\ args.totalKeys + Keys[v] <= args.maxKeys
                 /\ r.totalKeys = args.totalKeys + Keys[v]

\* By induction over the value, and over the items of each.
LEMMA ChecksCount == \A v \in JsonValues : Counted(v)
<1> DEFINE T == {v \in JsonValues : Counted(v)}
<1>1. ASSUME NEW v \in JsonValues, parts(v) \subseteq T PROVE v \in T
  <2> SUFFICES ASSUME NEW args \in CheckArguments, checkJsonDepthAndKeys[v][args].isValid
               PROVE  /\ args.depth + Depth[v] <= args.maxDepth
                      /\ args.totalKeys + Keys[v] <= args.maxKeys
                      /\ checkJsonDepthAndKeys[v][args].totalKeys = args.totalKeys + Keys[v]
    BY DEF Counted
  <2> DEFINE n == Len(v.items)
             check == checkJsonDepthAndKeys
  <2>1. /\ n \in Nat /\ DOMAIN v.items = 1..n
        /\ \A i \in 1..n : v.items[i] \in parts(v) /\ v.items[i] \in JsonValues
    BY ItemsTyped
  <2>2. PICK after \in CheckSteps(FirstResult(v, args), v.items, args, check) :
          check[v][args] = after[n]
    <3>1. PartsChecked(v, check)
      BY CheckDefined, PartsTyped DEF PartsChecked
    <3>2. check[v][args] = Checked(v, args, check)
      BY CheckDefined
    <3> QED
      BY <3>1, <3>2, CheckedSteps
  <2>3. PICK upTo \in KeySums(v, Keys) : Keys[v] = upTo[n]
    <3>1. PartsCounted(v, Keys)
      BY KeysDefined, PartsTyped DEF PartsCounted
    <3> QED
      BY <3>1, KeysDefined, KeysSummed
  <2>4. /\ args.depth \in Nat /\ args.maxDepth \in Nat
        /\ args.totalKeys \in Nat /\ args.maxKeys \in Nat
    BY DEF CheckArguments
  <2>5. /\ after \in [0..n -> CheckResult] /\ upTo \in [0..n -> Nat]
        /\ after[0] = FirstResult(v, args) /\ upTo[0] = OwnKeys(v)
        /\ \A i \in 1..n : /\ after[i] = IF ~after[i - 1].isValid THEN after[i - 1]
                                          ELSE check[v.items[i]][inside(args, after[i - 1].totalKeys)]
                           /\ upTo[i] = upTo[i - 1] + Keys[v.items[i]]
    BY <2>2, <2>3 DEF CheckSteps, KeySums
  <2> DEFINE Fine(i) ==
               after[i].isValid =>
                 /\ args.depth <= args.maxDepth
                 /\ after[i].totalKeys = args.totalKeys + upTo[i]
                 /\ after[i].totalKeys <= args.maxKeys
                 /\ \A j \in 1..i : args.depth + 1 + Depth[v.items[j]] <= args.maxDepth
             F == {i \in 0..n : Fine(i)}
  <2> HIDE DEF n, check
  <2>6. 0 \in F
    <3>1. /\ after[0].isValid => args.depth <= args.maxDepth
                                 /\ args.totalKeys + OwnKeys(v) <= args.maxKeys
          /\ after[0].totalKeys = args.totalKeys + OwnKeys(v)
      <4> DEFINE keys == args.totalKeys + OwnKeys(v)
      <4>1. after[0] = [isValid |-> args.depth <= args.maxDepth /\ keys <= args.maxKeys,
                        totalKeys |-> keys]
        BY <2>5 DEF FirstResult, OwnKeys
      <4> HIDE DEF keys
      <4>2. /\ after[0].isValid = (args.depth <= args.maxDepth /\ keys <= args.maxKeys)
            /\ after[0].totalKeys = keys
        BY <4>1
      <4> QED
        BY <4>2 DEF keys
    <3> QED
      BY <2>1, <2>5, <3>1
  <2>7. ASSUME NEW i \in 1..n, i - 1 \in F PROVE i \in F
    <3> SUFFICES ASSUME after[i].isValid
                 PROVE  /\ args.depth <= args.maxDepth
                        /\ after[i].totalKeys = args.totalKeys + upTo[i]
                        /\ after[i].totalKeys <= args.maxKeys
                        /\ \A j \in 1..i : args.depth + 1 + Depth[v.items[j]] <= args.maxDepth
      BY <2>1
    <3> DEFINE w == v.items[i]
               inner == inside(args, after[i - 1].totalKeys)
    <3>1. i - 1 \in 0..n /\ after[i - 1] \in CheckResult /\ upTo[i - 1] \in Nat
      BY <2>1, <2>5
    <3>2. after[i - 1].isValid /\ after[i] = check[w][inner]
      BY <2>5
    <3>3. w \in JsonValues /\ Counted(w) /\ Depth[w] \in Nat /\ Keys[w] \in Nat
      BY <1>1, <2>1, DepthDefined, KeysDefined
    <3>4. /\ inner \in CheckArguments
          /\ inner.depth = args.depth + 1 /\ inner.maxDepth = args.maxDepth
          /\ inner.totalKeys = after[i - 1].totalKeys /\ inner.maxKeys = args.maxKeys
      BY <2>4, <3>1 DEF inside, CheckArguments, CheckResult
    <3> HIDE DEF inner, w
    <3>5. /\ args.depth + 1 + Depth[w] <= args.maxDepth
          /\ after[i - 1].totalKeys + Keys[w] <= args.maxKeys
          /\ after[i].totalKeys = after[i - 1].totalKeys + Keys[w]
      BY <3>2, <3>3, <3>4 DEF Counted, check
    <3>6. /\ args.depth <= args.maxDepth
          /\ after[i - 1].totalKeys = args.totalKeys + upTo[i - 1]
          /\ \A j \in 1..(i - 1) : args.depth + 1 + Depth[v.items[j]] <= args.maxDepth
      BY <2>7, <3>2
    <3>7. upTo[i] = upTo[i - 1] + Keys[w]
      BY <2>5 DEF w
    <3>8. \A j \in 1..i : args.depth + 1 + Depth[v.items[j]] <= args.maxDepth
      <4> SUFFICES ASSUME NEW j \in 1..i
                   PROVE  args.depth + 1 + Depth[v.items[j]] <= args.maxDepth
        OBVIOUS
      <4>1. j = i \/ j \in 1..(i - 1)
        BY <2>1
      <4> QED
        BY <3>5, <3>6, <4>1 DEF w
    <3>9. after[i].totalKeys = args.totalKeys + upTo[i]
      BY <2>4, <3>1, <3>3, <3>5, <3>6, <3>7
    <3> QED
      BY <3>5, <3>6, <3>8, <3>9
  <2>8. Fine(n)
    <3> HIDE DEF Fine
    <3>1. \A i \in 0..n : i \in F
      <4> HIDE DEF F
      <4> QED
        BY <2>1, <2>6, <2>7, UpTo
    <3> QED
      BY <2>1, <3>1
  <2>9. /\ after[n].isValid /\ after[n].totalKeys = args.totalKeys + Keys[v]
        /\ args.totalKeys + Keys[v] <= args.maxKeys
    BY <2>2, <2>3, <2>8 DEF check
  <2>10. args.depth + Depth[v] <= args.maxDepth
    <3>1. Depth[v] \in Levels(v, Depth)
      <4>1. PartsCounted(v, Depth)
        BY DepthDefined, PartsTyped DEF PartsCounted
      <4> QED
        BY <4>1, DepthDefined, DeepestItem
    <3>2. CASE Depth[v] = 0
      BY <2>4, <2>8, <2>9, <3>2
    <3>3. ASSUME NEW j \in 1..n, Depth[v] = 1 + Depth[v.items[j]]
          PROVE  args.depth + Depth[v] <= args.maxDepth
      <4>1. Depth[v.items[j]] \in Nat
        BY <2>1, DepthDefined
      <4>2. args.depth + 1 + Depth[v.items[j]] <= args.maxDepth
        BY <2>8, <2>9
      <4> QED
        BY <2>4, <3>3, <4>1, <4>2
    <3> QED
      BY <2>1, <3>1, <3>2, <3>3 DEF Levels
  <2> QED
    BY <2>2, <2>9, <2>10 DEF check
<1> HIDE DEF T
<1>2. JsonValues \subseteq T
  BY <1>1, ValueInduction
<1> QED
  BY <1>2 DEF T

-----------------------------------------------------------------------------
(* The checks of a request *)

\* The first failed check gives the status, and none of them gives "OK".
LEMMA AllChecksPass ==
  ASSUME NEW body, NEW source, parseAndValidateRequest(body, source) = "OK"
  PROVE  \A i \in 1..9 : checks(body, source)[i].ok
<1> DEFINE list == checks(body, source)
           failed == {i \in DOMAIN list : ~list[i].ok}
<1>1. /\ DOMAIN list = 1..9
      /\ \A i \in 1..9 : list[i].status # "OK"
  BY DEF checks
<1> HIDE DEF list
<1>2. SUFFICES ASSUME failed # {} PROVE FALSE
  BY <1>1 DEF list
<1>3. Min(failed) \in failed
  BY <1>1, <1>2, LowestExists
<1>4. parseAndValidateRequest(body, source) = list[Min(failed)].status
  BY <1>2 DEF parseAndValidateRequest, list
<1> QED
  BY <1>1, <1>3, <1>4

\* What of a request that passed its checks the property asks for.
LEMMA PassedProps ==
  ASSUME NEW body, NEW source, parseAndValidateRequest(body, source) = "OK"
  PROVE  /\ body.url.sanitizedLength <= securityParams.maxUrlLength
         /\ \/ source = PUBLIC_WEB2 /\ body.httpMethod \in {"GET", "POST"}
            \/ \E i \in DOMAIN source.endpoints : LET e == source.endpoints[i] IN
                 /\ e.host = body.url.hostname
                 /\ {"*", body.url.pathname} \cap e.paths # {}
                 /\ {"*", body.httpMethod} \cap e.methods # {}
         /\ body.postProcessJq.filters \subseteq ALLOWED_FILTERS
         /\ LET abi == body.abiSignature IN
              \/ abi.baseType = "primitive"
              \/ abi.baseType = "tuple" /\ abi.components = {"primitive"}
<1> DEFINE found == endpoint(source, body.url)
<1>1. /\ parseUrl(body.url)
      /\ source = PUBLIC_WEB2 \/ \E e \in found : validatePath(body.url.pathname, e)
      /\ IF source = PUBLIC_WEB2 THEN body.httpMethod \in {"GET", "POST"}
         ELSE \A e \in found : validateHttpMethod(body.httpMethod, e.methods)
      /\ validateJqFilter(body.postProcessJq)
      /\ parseAndValidateAbiType(body.abiSignature)
  <2>1. /\ checks(body, source)[1].ok /\ checks(body, source)[4].ok
        /\ checks(body, source)[5].ok /\ checks(body, source)[7].ok
        /\ checks(body, source)[8].ok
    BY AllChecksPass
  <2> QED
    BY <2>1 DEF checks
<1>2. ASSUME source # PUBLIC_WEB2
      PROVE  \E i \in DOMAIN source.endpoints : LET e == source.endpoints[i] IN
               /\ e.host = body.url.hostname
               /\ {"*", body.url.pathname} \cap e.paths # {}
               /\ {"*", body.httpMethod} \cap e.methods # {}
  <2>1. PICK e \in found :
          validatePath(body.url.pathname, e) /\ validateHttpMethod(body.httpMethod, e.methods)
    BY <1>1, <1>2
  <2>2. PICK i \in DOMAIN source.endpoints :
          source.endpoints[i] = e /\ e.host = body.url.hostname
    BY <2>1 DEF endpoint
  <2> QED
    BY <2>1, <2>2 DEF validatePath, validateHttpMethod
<1>3. body.url.sanitizedLength <= securityParams.maxUrlLength
  BY <1>1 DEF parseUrl
<1>4. body.postProcessJq.filters \subseteq ALLOWED_FILTERS
  BY <1>1 DEF validateJqFilter
<1>5. LET abi == body.abiSignature IN
        \/ abi.baseType = "primitive"
        \/ abi.baseType = "tuple" /\ abi.components = {"primitive"}
  BY <1>1 DEF parseAndValidateAbiType
<1> QED
  BY <1>1, <1>2, <1>3, <1>4, <1>5

\* A text that is accepted is within the limits.
LEMMA ParsedWithin ==
  ASSUME NEW text \in JsonText, NEW maxDepth \in Nat, NEW maxKeys \in Nat,
         parseJsonWithDepthAndKeysValidation(text, maxDepth, maxKeys)
  PROVE  Within(text, maxDepth, maxKeys)
<1> DEFINE args == [maxDepth |-> maxDepth, maxKeys |-> maxKeys, depth |-> 0, totalKeys |-> 0]
<1>1. SUFFICES ASSUME ~text.empty PROVE \E v \in text.json : Depth[v] <= maxDepth /\ Keys[v] <= maxKeys
  BY DEF Within
<1>2. PICK v \in text.json : checkJsonDepthAndKeys[v][args].isValid
  BY <1>1 DEF parseJsonWithDepthAndKeysValidation
<1>3. /\ args \in CheckArguments
      /\ args.depth = 0 /\ args.totalKeys = 0
      /\ args.maxDepth = maxDepth /\ args.maxKeys = maxKeys
  BY DEF CheckArguments
<1>4. v \in JsonValues
  BY DEF JsonText
<1>5. Depth[v] \in Nat /\ Keys[v] \in Nat
  BY <1>4, DepthDefined, KeysDefined
<1> HIDE DEF args
<1>6. args.depth + Depth[v] <= args.maxDepth /\ args.totalKeys + Keys[v] <= args.maxKeys
  BY <1>2, <1>3, <1>4, ChecksCount DEF Counted
<1> QED
  BY <1>3, <1>5, <1>6

\* So are the three texts of a request that passed.
LEMMA TextsWithin ==
  ASSUME NEW body \in Web2Json_RequestBody, NEW source,
         parseAndValidateRequest(body, source) = "OK"
  PROVE  /\ Within(body.headers, 1, securityParams.maxHeaders)
         /\ Within(body.queryParams, 1, securityParams.maxQueryParams)
         /\ Within(body.body, securityParams.maxBodyJsonDepth, securityParams.maxBodyJsonKeys)
<1>1. /\ parseJsonWithDepthAndKeysValidation(body.headers, 1, securityParams.maxHeaders)
      /\ parseJsonWithDepthAndKeysValidation(body.queryParams, 1, securityParams.maxQueryParams)
      /\ parseJsonWithDepthAndKeysValidation(
           body.body, securityParams.maxBodyJsonDepth, securityParams.maxBodyJsonKeys)
  <2>1. /\ checks(body, source)[2].ok /\ checks(body, source)[3].ok
        /\ checks(body, source)[9].ok
    BY AllChecksPass
  <2> QED
    BY <2>1 DEF checks
<1>2. body.headers \in JsonText /\ body.queryParams \in JsonText /\ body.body \in JsonText
  BY DEF Web2Json_RequestBody
<1>3. /\ securityParams.maxHeaders \in Nat /\ securityParams.maxQueryParams \in Nat
      /\ securityParams.maxBodyJsonDepth \in Nat /\ securityParams.maxBodyJsonKeys \in Nat
  BY Web2JsonAssumption DEF Web2JsonSecurityParams
<1> QED
  BY <1>1, <1>2, <1>3, ParsedWithin

-----------------------------------------------------------------------------
(* The process pool *)

\* The waiting calls as a function of positions.
LEMMA WaitingProps ==
  ASSUME PoolInv
  PROVE  /\ Len(waiting) \in Nat /\ DOMAIN waiting = 1..Len(waiting)
         /\ \A i \in 1..Len(waiting) : waiting[i] \in Calls
         /\ waiting # <<>> => Len(waiting) # 0
BY ElementOfSeq, EmptySeq DEF PoolInv

\* The first of them leaves the queue.
LEMMA Dequeue ==
  ASSUME PoolInv, waiting # <<>>, waiting' = Tail(waiting)
  PROVE  /\ Head(waiting) = waiting[1] /\ 1 \in DOMAIN waiting
         /\ waiting' \in Seq(Calls)
         /\ \A i \in DOMAIN waiting' :
              i + 1 \in DOMAIN waiting /\ i \in Nat /\ waiting'[i] = waiting[i + 1]
         /\ \A i \in DOMAIN waiting' : waiting'[i] # Head(waiting)
         /\ \A i, j \in DOMAIN waiting' : waiting'[i] = waiting'[j] => i = j
<1>1. /\ Len(waiting) \in Nat /\ Len(waiting) # 0
      /\ DOMAIN waiting = 1..Len(waiting) /\ waiting \in Seq(Calls)
  BY WaitingProps DEF PoolInv
<1>2. /\ Head(waiting) = waiting[1]
      /\ waiting' \in Seq(Calls) /\ Len(waiting') = Len(waiting) - 1
      /\ \A i \in 1..Len(waiting') : waiting'[i] = waiting[i + 1]
  BY <1>1, HeadTailProperties
<1>3. DOMAIN waiting' = 1..Len(waiting')
  BY <1>2
<1>4. \A i \in DOMAIN waiting' :
        i + 1 \in DOMAIN waiting /\ i \in Nat /\ waiting'[i] = waiting[i + 1] /\ i + 1 # 1
  BY <1>1, <1>2, <1>3
<1>5. \A i, j \in DOMAIN waiting : waiting[i] = waiting[j] => i = j
  BY DEF PoolInv
<1>6. 1 \in DOMAIN waiting
  BY <1>1
<1>7. \A i \in DOMAIN waiting' : waiting'[i] # Head(waiting)
  BY <1>2, <1>4, <1>5, <1>6
<1>8. ASSUME NEW i \in DOMAIN waiting', NEW j \in DOMAIN waiting', waiting'[i] = waiting'[j]
      PROVE  i = j
  <2>1. i + 1 = j + 1
    BY <1>4, <1>5, <1>8
  <2> QED
    BY <1>4, <2>1
<1> QED
  BY <1>2, <1>4, <1>6, <1>7, <1>8

\* Results that are data stay, whatever the pool does.
ResultsKept == \A d \in Calls : result[d] = "ENCODED" => result'[d] = "ENCODED"

LEMMA AcceptInv ==
  ASSUME PoolInv, NEW c \in Calls, Pool!Accept(c)
  PROVE  PoolInv' /\ ResultsKept
<1>1. /\ result[c] = "none"
      /\ waiting' = Append(waiting, c)
      /\ result' = [result EXCEPT ![c] = "pending"]
      /\ active' = active
  BY DEF Pool!Accept
<1>2. /\ Len(waiting) \in Nat /\ DOMAIN waiting = 1..Len(waiting)
      /\ waiting \in Seq(Calls) /\ DOMAIN result = Calls
  BY WaitingProps DEF PoolInv
<1>3. /\ waiting' \in Seq(Calls) /\ Len(waiting') = Len(waiting) + 1
      /\ \A i \in 1..Len(waiting) : waiting'[i] = waiting[i]
      /\ waiting'[Len(waiting) + 1] = c
  BY <1>1, <1>2, AppendProperties
<1>4. DOMAIN waiting' = 1..(Len(waiting) + 1)
  BY <1>3
<1>5. \A i \in DOMAIN waiting' :
        \/ i \in DOMAIN waiting /\ waiting'[i] = waiting[i]
        \/ i = Len(waiting) + 1 /\ waiting'[i] = c
  BY <1>2, <1>3, <1>4
<1>6. \A i \in DOMAIN waiting : waiting[i] # c /\ result[waiting[i]] = "pending" /\ waiting[i] \notin active
  BY <1>1 DEF PoolInv
<1>7. c \notin active
  BY <1>1 DEF PoolInv
<1>8. \A d \in Calls : result'[d] = IF d = c THEN "pending" ELSE result[d]
  BY <1>1, <1>2
<1>9. \A i \in DOMAIN waiting' : result'[waiting'[i]] = "pending" /\ waiting'[i] \notin active'
  BY <1>1, <1>2, <1>5, <1>6, <1>7, <1>8, WaitingProps
<1>10. \A i, j \in DOMAIN waiting' : waiting'[i] = waiting'[j] => i = j
  BY <1>5, <1>6 DEF PoolInv
<1> QED
  BY <1>1, <1>2, <1>3, <1>8, <1>9, <1>10 DEF PoolInv, ResultsKept

LEMMA RefuseInv ==
  ASSUME PoolInv, NEW c \in Calls, Pool!Refuse(c)
  PROVE  PoolInv' /\ ResultsKept
<1>1. /\ result[c] = "none"
      /\ result' = [result EXCEPT ![c] = "BACKPRESSURE"]
      /\ waiting' = waiting /\ active' = active
  BY DEF Pool!Refuse
<1>2. \A d \in Calls : d # c => result'[d] = result[d]
  BY <1>1 DEF PoolInv
<1>3. c \notin active /\ \A i \in DOMAIN waiting : waiting[i] # c
  BY <1>1 DEF PoolInv
<1> QED
  BY <1>1, <1>2, <1>3, WaitingProps DEF PoolInv, ResultsKept

LEMMA StartInv ==
  ASSUME PoolInv, Pool!Start
  PROVE  PoolInv' /\ ResultsKept
<1>1. /\ waiting # <<>> /\ waiting' = Tail(waiting)
      /\ active' = active \cup {Head(waiting)}
      /\ result' = result
  BY DEF Pool!Start
<1>2. /\ Head(waiting) \in Calls /\ result[Head(waiting)] = "pending"
  BY <1>1, Dequeue, WaitingProps DEF PoolInv
<1>3. \A i \in DOMAIN waiting' : result[waiting'[i]] = "pending" /\ waiting'[i] \notin active'
  BY <1>1, Dequeue DEF PoolInv
<1> QED
  BY <1>1, <1>2, <1>3, Dequeue DEF PoolInv, ResultsKept

LEMMA StartFailsInv ==
  ASSUME PoolInv, Pool!StartFails
  PROVE  PoolInv' /\ ResultsKept
<1>1. /\ waiting # <<>> /\ waiting' = Tail(waiting)
      /\ result' = [result EXCEPT ![Head(waiting)] = "UNKNOWN_ERROR"]
      /\ active' = active
  BY DEF Pool!StartFails
<1>2. /\ Head(waiting) \in Calls /\ result[Head(waiting)] = "pending"
      /\ Head(waiting) \notin active
  BY <1>1, Dequeue, WaitingProps DEF PoolInv
<1>3. \A d \in Calls : d # Head(waiting) => result'[d] = result[d]
  BY <1>1 DEF PoolInv
<1>4. \A i \in DOMAIN waiting' :
        waiting'[i] \in Calls /\ result[waiting'[i]] = "pending"
        /\ waiting'[i] \notin active /\ waiting'[i] # Head(waiting)
  BY <1>1, Dequeue, WaitingProps DEF PoolInv
<1> QED
  BY <1>1, <1>2, <1>3, <1>4, Dequeue DEF PoolInv, ResultsKept

LEMMA FinishInv ==
  ASSUME PoolInv, NEW c \in Calls, Pool!Finish(c)
  PROVE  PoolInv' /\ ResultsKept
<1>1. /\ c \in active /\ active' = active \ {c} /\ waiting' = waiting
  BY DEF Pool!Finish
<1>2. PICK o : result' = [result EXCEPT ![c] = o]
  BY DEF Pool!Finish
<1>3. \A d \in Calls : d # c => result'[d] = result[d]
  BY <1>2 DEF PoolInv
<1>4. result[c] = "pending" /\ \A i \in DOMAIN waiting : waiting[i] # c
  BY <1>1 DEF PoolInv
<1> QED
  BY <1>1, <1>2, <1>3, <1>4, WaitingProps DEF PoolInv, ResultsKept

LEMMA CloseInv ==
  ASSUME PoolInv, Pool!Close
  PROVE  PoolInv' /\ ResultsKept
<1>1. /\ waiting' = <<>> /\ active' = active
      /\ result' = [j \in Calls |-> IF \E i \in 1..Len(waiting) : waiting[i] = j
                                    THEN "SHUTDOWN" ELSE result[j]]
  BY DEF Pool!Close
<1>2. /\ waiting' \in Seq(Calls) /\ DOMAIN waiting' = {}
  BY <1>1, EmptySeq
<1>3. \A d \in Calls : result[d] # "pending" => result'[d] = result[d]
  BY <1>1, WaitingProps DEF PoolInv
<1>4. \A d \in active : result'[d] = "pending"
  BY <1>1, WaitingProps DEF PoolInv
<1> QED
  BY <1>1, <1>2, <1>3, <1>4 DEF PoolInv, ResultsKept

-----------------------------------------------------------------------------
(* The calls *)

\* What a call has passed, and its answer, are of no concern to the others.
LEMMA OtherCalls ==
  ASSUME IInv, ResultsKept, NEW c \in Calls, request' = request,
         \A d \in Calls : d # c =>
           /\ pc'[d] = pc[d] /\ answer'[d] = answer[d]
           /\ resolved'[d] = resolved[d] /\ fetched'[d] = fetched[d]
  PROVE  \A d \in Calls : d # c => CallInv(d)' /\ AnswerInv(d)'
<1> SUFFICES ASSUME NEW d \in Calls, d # c PROVE CallInv(d)' /\ AnswerInv(d)'
  OBVIOUS
<1>1. CallInv(d) /\ AnswerInv(d)
  BY DEF IInv
<1>2. Passed(d)' <=> Passed(d)
  BY DEF Passed
<1>3. CallInv(d)'
  BY <1>1, <1>2 DEF CallInv
<1>4. AddressResponse(d)' = AddressResponse(d)
  BY DEF AddressResponse
<1>5. AnswerInv(d)'
  BY <1>1, <1>2, <1>4 DEF AnswerInv, ResultsKept
<1> QED
  BY <1>3, <1>5

LEMMA WaitForProps ==
  ASSUME TypeInv, NEW c \in Calls,
         NEW what \in {"lookup", "fetch", "pool"}, WaitFor(c, what)
  PROVE  /\ pc' \in [Calls -> {"idle", "lookup", "fetch", "pool", "done"}]
         /\ pc'[c] = what
         /\ \A d \in Calls : d # c => pc'[d] = pc[d]
         /\ answer' = answer
BY DEF TypeInv, WaitFor

LEMMA FinishProps ==
  ASSUME TypeInv, NEW c \in Calls, NEW outcome, Finish(c, outcome)
  PROVE  /\ pc' \in [Calls -> {"idle", "lookup", "fetch", "pool", "done"}]
         /\ pc'[c] = "done"
         /\ \A d \in Calls : d # c => pc'[d] = pc[d] /\ answer'[d] = answer[d]
         /\ DOMAIN answer' = Calls
         /\ answer'[c] \in
              {prepareRequest(outcome, request[c].attestationType),
               prepareResponse(outcome, request[c].attestationType),
               verifyEncodedRequestFDC(outcome, request[c].attestationType)}
<1>1. endpointOf[c] \in {"prepareRequest", "prepareResponse", "verifyFDC"}
  BY DEF TypeInv, Endpoints
<1> QED
  BY <1>1 DEF TypeInv, Finish

\* No endpoint answers with a response that there is not.
LEMMA NoContent ==
  ASSUME NEW outcome, NEW name, outcome.response = {}
  PROVE  /\ prepareRequest(outcome, name).content = {}
         /\ prepareResponse(outcome, name).content = {}
         /\ verifyEncodedRequestFDC(outcome, name).content = {}
BY DEF prepareRequest, prepareResponse, verifyEncodedRequestFDC,
       Answer, HttpError, HasResponse

LEMMA ValidContent ==
  ASSUME NEW response, NEW name
  PROVE  /\ prepareRequest(Valid(response), name) = Answer("VALID", {response})
         /\ prepareResponse(Valid(response), name) = Answer("VALID", {response})
         /\ verifyEncodedRequestFDC(Valid(response), name) = Answer("VALID", {response})
BY DEF prepareRequest, prepareResponse, verifyEncodedRequestFDC,
       Valid, Answer, HasResponse

\* A call that ends without a response says nothing of the data.
LEMMA CallRefused ==
  ASSUME IInv, PoolInv', ResultsKept, NEW c \in Calls,
         UNCHANGED <<request, endpointOf, resolved, fetched>>,
         request[c].attestationType # "AddressValidity",
         NEW outcome, outcome.response = {}, Finish(c, outcome)
  PROVE  IInv'
<1>1. /\ pc' \in [Calls -> {"idle", "lookup", "fetch", "pool", "done"}]
      /\ pc'[c] = "done"
      /\ \A d \in Calls : d # c => pc'[d] = pc[d] /\ answer'[d] = answer[d]
      /\ DOMAIN answer' = Calls
      /\ answer'[c].content = {}
  BY FinishProps, NoContent DEF IInv
<1>2. TypeInv'
  BY <1>1 DEF IInv, TypeInv
<1>3. \A d \in Calls : d # c => CallInv(d)' /\ AnswerInv(d)'
  BY <1>1, OtherCalls
<1>4. CallInv(c)' /\ AnswerInv(c)'
  BY <1>1 DEF CallInv, AnswerInv
<1> QED
  BY <1>2, <1>3, <1>4 DEF IInv

LEMMA Refusals ==
  /\ \A status : Invalid(status).response = {}
  /\ \A error : Throws(error).response = {}
BY DEF Invalid, Throws

\* A step of a call to the next await.
LEMMA CallWaits ==
  ASSUME IInv, PoolInv', ResultsKept, NEW c \in Calls,
         UNCHANGED <<request, endpointOf>>,
         DOMAIN resolved' = Calls, DOMAIN fetched' = Calls,
         \A d \in Calls : d # c => resolved'[d] = resolved[d] /\ fetched'[d] = fetched[d],
         NEW what \in {"lookup", "fetch", "pool"}, WaitFor(c, what), pc[c] # "done",
         request[c].attestationType # "AddressValidity",
         Passed(c),
         what \in {"fetch", "pool"} => validateUrl(resolved'[c]),
         what = "pool" => \A r \in fetched'[c] : r.contentType = "application/json"
  PROVE  IInv'
<1>1. /\ pc' \in [Calls -> {"idle", "lookup", "fetch", "pool", "done"}]
      /\ pc'[c] = what
      /\ \A d \in Calls : d # c => pc'[d] = pc[d]
      /\ answer' = answer
  BY WaitForProps DEF IInv
<1>2. TypeInv'
  BY <1>1 DEF IInv, TypeInv
<1>3. \A d \in Calls : d # c => CallInv(d)' /\ AnswerInv(d)'
  BY <1>1, OtherCalls
<1>4. CallInv(c)'
  <2>1. Passed(c)'
    BY DEF Passed
  <2> QED
    BY <1>1, <2>1 DEF CallInv
<1>5. AnswerInv(c)'
  <2>1. answer[c].content = {}
    BY DEF IInv, AnswerInv
  <2> QED
    BY <1>1, <2>1 DEF AnswerInv
<1> QED
  BY <1>2, <1>3, <1>4, <1>5 DEF IInv

\* The pool is not concerned.
LEMMA PoolUnchanged ==
  ASSUME PoolInv, UNCHANGED poolVars
  PROVE  PoolInv' /\ ResultsKept
BY DEF PoolInv, poolVars, ResultsKept

LEMMA VerifyAddressInv == ASSUME IInv, NEW c \in Calls, VerifyAddress(c) PROVE IInv'
<1>1. /\ request[c].attestationType = "AddressValidity"
      /\ Finish(c, Valid(AddressResponse(c)))
      /\ UNCHANGED <<request, endpointOf, resolved, fetched, poolVars>>
  BY DEF VerifyAddress, responseAddressValidity, AddressResponse
<1>2. PoolInv' /\ ResultsKept
  BY <1>1, PoolUnchanged DEF IInv
<1>3. /\ pc' \in [Calls -> {"idle", "lookup", "fetch", "pool", "done"}]
      /\ pc'[c] = "done"
      /\ \A d \in Calls : d # c => pc'[d] = pc[d] /\ answer'[d] = answer[d]
      /\ DOMAIN answer' = Calls
      /\ answer'[c] = Answer("VALID", {AddressResponse(c)})
  BY <1>1, FinishProps, ValidContent DEF IInv
<1>4. TypeInv'
  BY <1>1, <1>3 DEF IInv, TypeInv
<1>5. \A d \in Calls : d # c => CallInv(d)' /\ AnswerInv(d)'
  BY <1>1, <1>2, <1>3, OtherCalls
<1>6. CallInv(c)'
  BY <1>3 DEF CallInv
<1>7. AnswerInv(c)'
  <2>1. AddressResponse(c)' = AddressResponse(c)
    BY <1>1 DEF AddressResponse
  <2>2. request'[c].attestationType = "AddressValidity"
    BY <1>1
  <2> QED
    BY <1>3, <2>1, <2>2 DEF AnswerInv
<1> QED
  BY <1>2, <1>4, <1>5, <1>6, <1>7 DEF IInv

LEMMA VerifyRequestInv == ASSUME IInv, NEW c \in Calls, VerifyRequest(c) PROVE IInv'
<1>1. /\ pc[c] = "idle" /\ request[c].attestationType # "AddressValidity"
      /\ UNCHANGED <<request, endpointOf, resolved, fetched, poolVars>>
  BY DEF VerifyRequest
<1>2. PoolInv' /\ ResultsKept
  BY <1>1, PoolUnchanged DEF IInv
<1>3. CASE \E error : Finish(c, Throws(error))
  BY <1>1, <1>2, <1>3, CallRefused, Refusals
<1>4. CASE \E status : Finish(c, Invalid(status))
  BY <1>1, <1>2, <1>4, CallRefused, Refusals
<1>5. ASSUME NEW s \in sources, s.sourceId = request[c].sourceId,
             parseAndValidateRequest(request[c].requestBody, s) = "OK", WaitFor(c, "lookup")
      PROVE  IInv'
  <2>1. Passed(c)
    BY <1>5 DEF Passed
  <2>2. DOMAIN resolved' = Calls /\ DOMAIN fetched' = Calls
    BY <1>1 DEF IInv, TypeInv
  <2> QED
    BY <1>1, <1>2, <1>5, <2>1, <2>2, CallWaits
<1> QED
  BY <1>3, <1>4, <1>5 DEF VerifyRequest

LEMMA LookupInv == ASSUME IInv, NEW c \in Calls, Lookup(c) PROVE IInv'
<1>1. /\ pc[c] = "lookup"
      /\ UNCHANGED <<request, endpointOf, fetched, poolVars>>
  BY DEF Lookup
<1>2. PoolInv' /\ ResultsKept
  BY <1>1, PoolUnchanged DEF IInv
<1>3. request[c].attestationType # "AddressValidity" /\ Passed(c)
  BY <1>1 DEF IInv, CallInv
<1>4. DOMAIN resolved = Calls /\ DOMAIN fetched = Calls
  BY DEF IInv, TypeInv
<1>5. ASSUME NEW addresses \in LookupAnswers, validateUrl(addresses), WaitFor(c, "fetch"),
             resolved' = [resolved EXCEPT ![c] = addresses]
      PROVE  IInv'
  <2>1. /\ DOMAIN resolved' = Calls /\ resolved'[c] = addresses
        /\ \A d \in Calls : d # c => resolved'[d] = resolved[d]
    BY <1>4, <1>5
  <2> QED
    BY <1>1, <1>2, <1>3, <1>4, <1>5, <2>1, CallWaits
<1>6. CASE Finish(c, Invalid("INVALID_SOURCE_URL")) /\ UNCHANGED resolved
  BY <1>1, <1>2, <1>3, <1>6, CallRefused, Refusals
<1> QED
  BY <1>5, <1>6 DEF Lookup

LEMMA TimersInv ==
  ASSUME IInv, NEW c \in Calls, LookupTimesOut(c) \/ FetchFails(c)
  PROVE  IInv'
<1>1. /\ pc[c] \in {"lookup", "fetch"}
      /\ \E status : Finish(c, Invalid(status))
      /\ UNCHANGED <<request, endpointOf, resolved, fetched, poolVars>>
  BY DEF LookupTimesOut, FetchFails
<1>2. PoolInv' /\ ResultsKept
  BY <1>1, PoolUnchanged DEF IInv
<1>3. request[c].attestationType # "AddressValidity"
  BY <1>1 DEF IInv, CallInv
<1> QED
  BY <1>1, <1>2, <1>3, CallRefused, Refusals

LEMMA FetchAnswersInv == ASSUME IInv, NEW c \in Calls, FetchAnswers(c) PROVE IInv'
<1>1. /\ pc[c] = "fetch"
      /\ UNCHANGED <<request, endpointOf, resolved>>
  BY DEF FetchAnswers
<1>2. request[c].attestationType # "AddressValidity" /\ Passed(c) /\ validateUrl(resolved[c])
  BY <1>1 DEF IInv, CallInv
<1>3. DOMAIN resolved = Calls /\ DOMAIN fetched = Calls
  BY DEF IInv, TypeInv
<1>4. CASE /\ \E status : Finish(c, Invalid(status))
           /\ UNCHANGED <<fetched, poolVars>>
  <2>1. PoolInv' /\ ResultsKept
    BY <1>4, PoolUnchanged DEF IInv
  <2> QED
    BY <1>1, <1>2, <1>4, <2>1, CallRefused, Refusals
<1>5. ASSUME NEW response \in SourceResponse,
             parseAndValidateResponse(response) = "OK",
             Pool!Accept(c), WaitFor(c, "pool"),
             fetched' = [fetched EXCEPT ![c] = {response}]
      PROVE  IInv'
  <2>1. PoolInv' /\ ResultsKept
    BY <1>5, AcceptInv DEF IInv
  <2>2. response.contentType = "application/json"
    BY <1>5 DEF parseAndValidateResponse
  <2>3. /\ DOMAIN fetched' = Calls /\ fetched'[c] = {response}
        /\ \A d \in Calls : d # c => fetched'[d] = fetched[d]
    BY <1>3, <1>5
  <2> QED
    BY <1>1, <1>2, <1>3, <1>5, <2>1, <2>2, <2>3, CallWaits
<1>6. CASE Pool!Refuse(c) /\ Finish(c, Throws("TOO_MANY_REQUESTS")) /\ UNCHANGED fetched
  <2>1. PoolInv' /\ ResultsKept
    BY <1>6, RefuseInv DEF IInv
  <2> QED
    BY <1>1, <1>2, <1>6, <2>1, CallRefused, Refusals
<1> QED
  BY <1>4, <1>5, <1>6 DEF FetchAnswers

LEMMA PoolSettlesInv == ASSUME IInv, NEW c \in Calls, PoolSettles(c) PROVE IInv'
<1>1. /\ pc[c] = "pool" /\ Finish(c, Encoded(c))
      /\ UNCHANGED <<request, endpointOf, resolved, fetched, poolVars>>
  BY DEF PoolSettles
<1>2. PoolInv' /\ ResultsKept
  BY <1>1, PoolUnchanged DEF IInv
<1>3. /\ request[c].attestationType # "AddressValidity"
      /\ Passed(c) /\ validateUrl(resolved[c])
      /\ \A r \in fetched[c] : r.contentType = "application/json"
  BY <1>1 DEF IInv, CallInv
<1>4. CASE result[c] # "ENCODED"
  <2>1. Encoded(c).response = {}
    BY <1>4, Refusals DEF Encoded
  <2> QED
    BY <1>1, <1>2, <1>3, <2>1, CallRefused
<1>5. CASE result[c] = "ENCODED"
  <2>1. /\ pc' \in [Calls -> {"idle", "lookup", "fetch", "pool", "done"}]
        /\ pc'[c] = "done"
        /\ \A d \in Calls : d # c => pc'[d] = pc[d] /\ answer'[d] = answer[d]
        /\ DOMAIN answer' = Calls
    BY <1>1, FinishProps DEF IInv
  <2>2. TypeInv'
    BY <1>1, <2>1 DEF IInv, TypeInv
  <2>3. \A d \in Calls : d # c => CallInv(d)' /\ AnswerInv(d)'
    BY <1>1, <1>2, <2>1, OtherCalls
  <2>4. result'[c] = "ENCODED"
    BY <1>2, <1>5 DEF ResultsKept
  <2>5. Passed(c)'
    BY <1>1, <1>3 DEF Passed
  <2>6. CallInv(c)' /\ AnswerInv(c)'
    BY <1>1, <1>3, <2>1, <2>4, <2>5 DEF CallInv, AnswerInv
  <2> QED
    BY <1>2, <2>2, <2>3, <2>6 DEF IInv
<1> QED
  BY <1>4, <1>5

\* What the pool does by itself, and nothing at all, changes no call.
LEMMA CallsUnchanged ==
  ASSUME IInv, PoolInv', ResultsKept, UNCHANGED callVars
  PROVE  IInv'
<1>1. TypeInv'
  BY DEF IInv, TypeInv, callVars
<1>2. ASSUME NEW d \in Calls PROVE CallInv(d)' /\ AnswerInv(d)'
  <2>1. CallInv(d) /\ AnswerInv(d)
    BY DEF IInv
  <2>2. (Passed(d)' <=> Passed(d)) /\ AddressResponse(d)' = AddressResponse(d)
    BY DEF Passed, AddressResponse, callVars
  <2>3. CallInv(d)'
    BY <2>1, <2>2 DEF CallInv, callVars
  <2>4. AnswerInv(d)'
    BY <2>1, <2>2 DEF AnswerInv, callVars, ResultsKept
  <2> QED
    BY <2>3, <2>4
<1> QED
  BY <1>1, <1>2 DEF IInv

LEMMA PoolStepInv == ASSUME IInv, PoolStep PROVE IInv'
<1>1. PoolInv' /\ ResultsKept
  BY StartInv, StartFailsInv, CloseInv, FinishInv DEF PoolStep, IInv
<1> QED
  BY <1>1, CallsUnchanged DEF PoolStep

LEMMA StutterInv == ASSUME IInv, UNCHANGED vars PROVE IInv'
<1>1. UNCHANGED callVars /\ UNCHANGED poolVars
  BY DEF vars
<1> QED
  BY <1>1, PoolUnchanged, CallsUnchanged DEF IInv

LEMMA InitInv == Init => IInv
<1> SUFFICES ASSUME Init PROVE IInv
  OBVIOUS
<1>1. /\ waiting = <<>> /\ active = {} /\ result = [j \in Calls |-> "none"]
      /\ closed = FALSE
  BY DEF Init, Pool!Init
<1>2. waiting \in Seq(Calls) /\ DOMAIN waiting = {}
  BY <1>1, EmptySeq
<1>3. PoolInv
  BY <1>1, <1>2 DEF PoolInv
<1>4. TypeInv
  BY DEF Init, TypeInv
<1>5. \A c \in Calls : CallInv(c) /\ AnswerInv(c)
  BY DEF Init, CallInv, AnswerInv, NoAnswer
<1> QED
  BY <1>3, <1>4, <1>5 DEF IInv

-----------------------------------------------------------------------------
(* The theorems *)

LEMMA Invariance == Spec => []IInv
<1>1. IInv /\ Next => IInv'
  <2> SUFFICES ASSUME IInv, Next PROVE IInv'
    OBVIOUS
  <2>1. ASSUME NEW c \in Calls, VerifyAddress(c) \/ Web2JsonStep(c) PROVE IInv'
    BY <2>1, VerifyAddressInv, VerifyRequestInv, LookupInv, TimersInv, FetchAnswersInv,
       PoolSettlesInv
       DEF Web2JsonStep
  <2> QED
    BY <2>1, PoolStepInv, StutterInv DEF Next, Done
<1>2. IInv /\ UNCHANGED vars => IInv'
  BY StutterInv
<1> QED
  BY InitInv, <1>1, <1>2, PTL DEF Spec

\* VALID data of Web2Json passed the checks of request, addresses and response
\* (parseAndValidateRequest, validateUrl, parseAndValidateResponse), and the
\* pool encoded it (filterAndEncodeData), whatever other calls did meanwhile.
THEOREM ValidDataPassedChecks == Spec => []Web2JsonSound
<1>1. IInv => Web2JsonSound
  <2> SUFFICES ASSUME IInv, NEW c \in Calls,
                      request[c].attestationType = "Web2Json", answer[c].content # {}
               PROVE  LET body == request[c].requestBody IN
        /\ body.url.sanitizedLength <= securityParams.maxUrlLength
        /\ \E s \in sources : s.sourceId = request[c].sourceId /\
             \/ s = PUBLIC_WEB2 /\ body.httpMethod \in {"GET", "POST"}
             \/ \E i \in DOMAIN s.endpoints : LET e == s.endpoints[i] IN
                  /\ e.host = body.url.hostname
                  /\ {"*", body.url.pathname} \cap e.paths # {}
                  /\ {"*", body.httpMethod} \cap e.methods # {}
        /\ resolved[c] # {}
        /\ \A a \in resolved[c] : ~a.blocklisted /\ (a.family = 6 => a.globalUnicast)
        /\ body.postProcessJq.filters \subseteq ALLOWED_FILTERS
        /\ LET abi == body.abiSignature IN
             \/ abi.baseType = "primitive"
             \/ abi.baseType = "tuple" /\ abi.components = {"primitive"}
        /\ \A r \in fetched[c] : r.contentType = "application/json"
        /\ result[c] = "ENCODED"
    BY DEF Web2JsonSound
  <2>1. /\ Passed(c) /\ validateUrl(resolved[c])
        /\ \A r \in fetched[c] : r.contentType = "application/json"
        /\ result[c] = "ENCODED"
    BY DEF IInv, AnswerInv
  <2>2. /\ resolved[c] # {}
        /\ \A a \in resolved[c] : ~a.blocklisted /\ (a.family = 6 => a.globalUnicast)
    BY <2>1 DEF validateUrl, isPublicAddress
  <2>3. PICK s \in sources :
          /\ s.sourceId = request[c].sourceId
          /\ parseAndValidateRequest(request[c].requestBody, s) = "OK"
    BY <2>1 DEF Passed
  <2> QED
    BY <2>1, <2>2, <2>3, PassedProps
<1> QED
  BY Invariance, <1>1, PTL

\* What checkJsonDepthAndKeys lets through, item after item with a running total,
\* is within the limits of depth and keys, for every JSON value.
THEOREM ValidDataWithinLimits == Spec => []Web2JsonWithinLimits
<1>1. IInv => Web2JsonWithinLimits
  <2> SUFFICES ASSUME IInv, NEW c \in Calls,
                      request[c].attestationType = "Web2Json", answer[c].content # {}
               PROVE  LET body == request[c].requestBody IN
        /\ Within(body.headers, 1, securityParams.maxHeaders)
        /\ Within(body.queryParams, 1, securityParams.maxQueryParams)
        /\ Within(body.body, securityParams.maxBodyJsonDepth, securityParams.maxBodyJsonKeys)
    BY DEF Web2JsonWithinLimits
  <2>1. PICK s \in sources : parseAndValidateRequest(request[c].requestBody, s) = "OK"
    BY DEF IInv, AnswerInv, Passed
  <2>2. request[c].requestBody \in Web2Json_RequestBody
    <3>1. request[c] \in Web2Json_Request
      BY CallsAssumption DEF IInv, TypeInv
    <3> QED
      BY <3>1 DEF Web2Json_Request, AttestationType_Request
  <2> QED
    BY <2>1, <2>2, TextsWithin
<1> QED
  BY Invariance, <1>1, PTL

\* verifyAddress calls valid what the networks' rules call an address, and every
\* endpoint passes that on.
THEOREM AddressesAsSpecified == Spec => []AddressAsSpecified
<1>1. IInv => AddressAsSpecified
  <2> SUFFICES ASSUME IInv, NEW c \in Calls,
                      request[c].attestationType = "AddressValidity", pc[c] = "done"
               PROVE  LET a == request[c].requestBody.addressStr IN
        /\ answer[c].status = "VALID" /\ answer[c].content # {}
        /\ \A r \in answer[c].content :
             /\ r.responseBody.isValid <=> IsAddress(request[c].sourceId, a)
             /\ \A s \in r.responseBody.standardAddress :
                  s.kind = "segwit" => s.case = "lower"
    BY DEF AddressAsSpecified
  <2> DEFINE a == request[c].requestBody.addressStr
  <2>1. /\ answer[c].status = "VALID" /\ answer[c].content = {AddressResponse(c)}
    <3>1. answer[c] = Answer("VALID", {AddressResponse(c)})
      BY DEF IInv, AnswerInv
    <3> QED
      BY <3>1 DEF Answer
  <2>2. /\ request[c].sourceId \in AddressSources
        /\ a \in Base58Address \cup SegwitAddress
        /\ IsEncoding(request[c].sourceId, a)
    BY CallsAssumption, EncodingAssumption
       DEF IInv, TypeInv, AddressValidity_Request, AddressValidity_RequestBody,
           AttestationType_Request
  <2>3. AddressResponse(c).responseBody = verifyAddress(request[c].sourceId, a)
    BY DEF AddressResponse, MakeResponse
  <2> QED
    BY <2>1, <2>2, <2>3, AddressRules
<1> QED
  BY Invariance, <1>1, PTL

\* The calls keep to the pool's contract: whatever they do, the pool takes a step
\* of JobService, or none.  So what is proved of JobService's implementation
\* (ProcessPool) holds for the pool the calls share.
THEOREM CallsUseJobService == Spec => Pool!SafeSpec
<1>1. Init => Pool!Init
  BY DEF Init
<1>2. Next => Pool!Next \/ UNCHANGED Pool!vars
  <2> SUFFICES ASSUME Next PROVE Pool!Next \/ UNCHANGED Pool!vars
    OBVIOUS
  <2>1. ASSUME NEW c \in Calls, VerifyAddress(c) \/ Web2JsonStep(c)
        PROVE  Pool!Next \/ UNCHANGED Pool!vars
    <3>1. CASE FetchAnswers(c)
      <4>1. Pool!Accept(c) \/ Pool!Refuse(c) \/ UNCHANGED poolVars
        BY <3>1 DEF FetchAnswers
      <4> QED
        BY <4>1 DEF Pool!Next, poolVars, Pool!vars
    <3>2. CASE ~FetchAnswers(c)
      <4>1. UNCHANGED poolVars
        BY <2>1, <3>2
           DEF VerifyAddress, Web2JsonStep, VerifyRequest, Lookup, LookupTimesOut,
               FetchFails, PoolSettles
      <4> QED
        BY <4>1 DEF poolVars, Pool!vars
    <3> QED
      BY <3>1, <3>2
  <2>2. CASE PoolStep
    BY <2>2 DEF PoolStep, Pool!Next
  <2>3. CASE Done
    BY <2>3 DEF Done, vars, poolVars, Pool!vars
  <2> QED
    BY <2>1, <2>2, <2>3 DEF Next
<1>3. UNCHANGED vars => UNCHANGED Pool!vars
  BY DEF vars, poolVars, Pool!vars
<1> QED
  BY <1>1, <1>2, <1>3, PTL DEF Spec, Pool!SafeSpec
=============================================================================
