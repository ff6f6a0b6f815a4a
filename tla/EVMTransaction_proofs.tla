----------------------- MODULE EVMTransaction_proofs -----------------------
(***************************************************************************)
(* The safety properties of EVMTransaction, for every node, request and    *)
(* bound.                                                                  *)
(*                                                                         *)
(* Whatever the node does, the heights that lay ReorgDepth below its head  *)
(* when the verification began keep their blocks.  The invariant says what *)
(* each answer, given at a time of its own, still tells of those heights.  *)
(***************************************************************************)
EXTENDS EVMTransaction, SequenceTheorems, TLAPS

\* The blocks are numbered from one on, one of them at most holds the
\* transaction, and no more than ReorgDepth of them are missing.
NodeInv ==
  /\ chain \in Seq(Block)
  /\ highest \in Nat
  /\ Len(chain) <= highest
  /\ highest <= Len(chain) + ReorgDepth
  /\ \A i \in 1..Len(chain) : chain[i].number = i
  /\ \A i, j \in 1..Len(chain) : chain[i].holds /\ chain[j].holds => i = j

TypeInv ==
  /\ pc \in {"idle", "awaiting", "block", "done"}
  /\ request \in Requests
  /\ awaited \subseteq {"blockNumber", "transaction", "receipt"}
  /\ blockNumber \in Nat /\ blockNumber <= highest
  /\ began \in Nat /\ began <= highest
  /\ ended \in Nat
  /\ settled \in BOOLEAN

\* No answer has come before its question, no outcome before the last one.
FreshInv ==
  /\ pc = "idle" => awaited = {"blockNumber", "transaction", "receipt"} /\ ~settled
  /\ "transaction" \in awaited => txInfo = {}
  /\ "receipt" \in awaited => txReceipt = {}
  /\ pc # "done" => outcome = Running

\* Heights whose blocks will not be replaced while the verification runs.
Stable == {m \in 1..Len(chain) : m <= began - ReorgDepth}

\* The transaction's block; if it is that low, it is still the chain's.
TxInv ==
  /\ \A a, b \in txInfo : a = b
  /\ \A b \in txInfo \ {Pending} :
       /\ b \in Block /\ b.holds
       /\ b.number <= began - ReorgDepth => Known(b)

\* If the chain's block with the transaction is stable, it is the receipt's.
ReceiptInv ==
  \A of \in txReceipt :
    /\ of \in Block
    /\ \A m \in Stable : chain[m].holds => chain[m] = of

CheckedInv ==
  pc = "block" => awaited = {} /\ \A b \in txInfo : b # Pending /\ ~Unconfirmed(b.number)

\* What a block that settles the request makes the answers be.
Settles(b) ==
  /\ b.number \in Stable /\ b = chain[b.number] /\ b.holds
  /\ began - ReorgDepth - b.number + 1 >= body.requiredConfirmations
  /\ ~EventsRefused(b)
  /\ "blockNumber" \notin awaited => blockNumber >= began - ReorgDepth
  /\ "transaction" \notin awaited => txInfo = {b}
  /\ "receipt" \notin awaited => txReceipt = {b}

SettledInv == settled => (\E b \in Including : Settles(b)) /\ outcome.status # "INVALID"

IInv ==
  /\ NodeInv
  /\ TypeInv
  /\ FreshInv
  /\ TxInv
  /\ ReceiptInv
  /\ CheckedInv
  /\ SettledInv
  /\ ResponseSettled

-----------------------------------------------------------------------------
(* The node *)

LEMMA NodeInitInv == NodeInit => NodeInv
<1> SUFFICES ASSUME NodeInit PROVE NodeInv
  OBVIOUS
<1>1. chain = <<>> /\ highest = 0
  BY DEF NodeInit
<1>2. chain \in Seq(Block) /\ Len(chain) = 0
  BY <1>1, EmptySeq
<1> QED
  BY <1>1, <1>2, NodeAssumption DEF NodeInv

\* The block that holds the transaction, as heights and numbers.
LEMMA IncludingProps ==
  ASSUME NodeInv
  PROVE  /\ DOMAIN chain = 1..Len(chain) /\ Len(chain) \in Nat
         /\ \A b \in Including : /\ b \in Block /\ b.holds
                                 /\ b.number \in 1..Len(chain) /\ chain[b.number] = b
         /\ \A a, b \in Including : a = b
         /\ \A m \in 1..Len(chain) : chain[m].holds => chain[m] \in Including
<1>1. DOMAIN chain = 1..Len(chain) /\ Len(chain) \in Nat
  BY DEF NodeInv
<1>2. \A m \in 1..Len(chain) : chain[m] \in Block
  BY ElementOfSeq DEF NodeInv
<1>3. ASSUME NEW b \in Including
      PROVE  /\ b \in Block /\ b.holds
             /\ b.number \in 1..Len(chain) /\ chain[b.number] = b
  BY <1>1, <1>2, <1>3 DEF Including, NodeInv
<1>4. \A a, b \in Including : a = b
  BY <1>3 DEF NodeInv
<1>5. \A m \in 1..Len(chain) : chain[m].holds => chain[m] \in Including
  BY <1>1 DEF Including
<1> QED
  BY <1>1, <1>3, <1>4, <1>5

\* The node keeps its shape, and the heights ReorgDepth below its head.
LEMMA NodeMoves ==
  ASSUME NodeInv, Node
  PROVE  /\ NodeInv'
         /\ highest <= highest'
         /\ \A m \in 1..Len(chain) : m <= highest - ReorgDepth =>
              m \in 1..Len(chain') /\ chain'[m] = chain[m]
         /\ \A m \in 1..Len(chain') : m <= highest - ReorgDepth => m \in 1..Len(chain)
<1>1. /\ chain \in Seq(Block) /\ Len(chain) \in Nat /\ DOMAIN chain = 1..Len(chain)
      /\ highest \in Nat /\ ReorgDepth \in Nat /\ MaxHeight \in Nat
      /\ Len(chain) <= highest /\ highest <= Len(chain) + ReorgDepth
      /\ \A i \in 1..Len(chain) : chain[i] \in Block /\ chain[i].number = i
      /\ \A i, j \in 1..Len(chain) : chain[i].holds /\ chain[j].holds => i = j
  BY NodeAssumption, ElementOfSeq DEF NodeInv
<1>2. CASE Grow
  <2>1. PICK fork \in Forks, holds \in BOOLEAN :
          /\ holds => Including = {}
          /\ chain' = Append(chain, [number |-> Len(chain) + 1, fork |-> fork, holds |-> holds])
    BY <1>2 DEF Grow
  <2> DEFINE new == [number |-> Len(chain) + 1, fork |-> fork, holds |-> holds]
  <2>2. new \in Block /\ new.number = Len(chain) + 1 /\ new.holds = holds
    BY <1>1, <1>2 DEF Grow, Block
  <2> HIDE DEF new
  <2>3. /\ chain' \in Seq(Block) /\ Len(chain') = Len(chain) + 1
        /\ \A i \in 1..Len(chain) : chain'[i] = chain[i]
        /\ chain'[Len(chain) + 1] = new
    BY <1>1, <2>1, <2>2, AppendProperties DEF new
  <2>4. holds => \A i \in 1..Len(chain) : ~chain[i].holds
    BY <2>1, IncludingProps
  <2>5. /\ highest' \in Nat /\ highest <= highest'
        /\ Len(chain') <= highest' /\ highest' <= Len(chain') + ReorgDepth
    BY <1>1, <1>2, <2>3 DEF Grow
  <2>6. \A i \in 1..Len(chain') : chain'[i].number = i
    BY <1>1, <2>2, <2>3
  <2>7. \A i, j \in 1..Len(chain') : chain'[i].holds /\ chain'[j].holds => i = j
    BY <1>1, <2>2, <2>3, <2>4
  <2>8. \A m \in 1..Len(chain') : m <= highest - ReorgDepth => m \in 1..Len(chain)
    BY <1>1, <2>3
  <2> QED
    BY <1>1, <2>3, <2>5, <2>6, <2>7, <2>8 DEF NodeInv
<1>3. CASE Retract
  <2>1. /\ Len(chain) >= 1
        /\ highest - Len(chain) < ReorgDepth
    <3>1. Len(chain) # 0
      BY <1>1, <1>3, EmptySeq DEF Retract
    <3>2. Len(chain) \in 1..Len(chain)
      BY <1>1, <3>1
    <3> QED
      BY <1>1, <1>3, <3>1, <3>2 DEF Retract, Final, Known
  <2>2. /\ chain' = SubSeq(chain, 1, Len(chain) - 1)
        /\ highest' = highest
    BY <1>3 DEF Retract
  <2>3. /\ chain' \in Seq(Block) /\ Len(chain') = Len(chain) - 1
        /\ \A i \in 1..(Len(chain) - 1) : chain'[i] = chain[i]
    <3>1. \A i \in 1..(Len(chain) - 1) : chain[i] \in Block
      BY <1>1
    <3>2. /\ SubSeq(chain, 1, Len(chain) - 1) \in Seq(Block)
          /\ Len(SubSeq(chain, 1, Len(chain) - 1)) =
               IF 1 <= Len(chain) - 1 THEN (Len(chain) - 1) - 1 + 1 ELSE 0
          /\ \A i \in 1..((Len(chain) - 1) - 1 + 1) :
               SubSeq(chain, 1, Len(chain) - 1)[i] = chain[1 + i - 1]
      BY <1>1, <3>1, SubSeqProperties
    <3> QED
      BY <1>1, <2>1, <2>2, <3>2
  <2>4. /\ Len(chain') <= highest' /\ highest' <= Len(chain') + ReorgDepth
        /\ \A i \in 1..Len(chain') : chain'[i].number = i
        /\ \A i, j \in 1..Len(chain') : chain'[i].holds /\ chain'[j].holds => i = j
    BY <1>1, <2>1, <2>2, <2>3
  <2> QED
    BY <1>1, <2>1, <2>2, <2>3, <2>4 DEF NodeInv
<1> QED
  BY <1>2, <1>3 DEF Node

-----------------------------------------------------------------------------
(* The request and the events *)

LEMMA RequestTyped ==
  ASSUME request \in Requests
  PROVE  /\ body.requiredConfirmations \in Nat
         /\ body.listEvents \in BOOLEAN
         /\ body.logIndices \in Seq(Nat)
BY EVMRequestsAssumption
   DEF EVMTransaction_Request, EVMTransaction_RequestBody, AttestationType_Request, body

\* The events are logs of the block the receipt is of, those asked for.
LEMMA EventsProps ==
  ASSUME request \in Requests, NEW of \in Block, ~EventsRefused(of)
  PROVE  /\ \A k \in DOMAIN events(of) : events(of)[k].of = of
         /\ body.logIndices # <<>> =>
              /\ Len(events(of)) = Len(body.logIndices)
              /\ \A k \in DOMAIN events(of) : events(of)[k].logIndex = body.logIndices[k]
<1> DEFINE num == NumLogs[of.fork]
           first == FirstIndex[of.fork]
           indices == body.logIndices
<1>1. /\ num \in Nat /\ first \in Nat /\ MaxEvents \in Nat
      /\ body.listEvents \in BOOLEAN
      /\ indices \in Seq(Nat) /\ Len(indices) \in Nat /\ DOMAIN indices = 1..Len(indices)
      /\ \A k \in 1..Len(indices) : indices[k] \in Nat
  BY NodeAssumption, EVMRequestsAssumption, RequestTyped, ElementOfSeq DEF Block
<1>2. /\ logs(of) = [i \in 1..num |->
                       [logIndex |-> first + i - 1, of |-> of, removed |-> FALSE]]
      /\ \A i \in 1..num : logs(of)[i].of = of /\ logs(of)[i].logIndex = first + i - 1
  BY DEF logs
<1>3. CASE ~body.listEvents
  <2>1. events(of) = <<>> /\ indices = <<>>
    BY <1>3 DEF events, EventsRefused
  <2> QED
    BY <2>1
<1>4. CASE body.listEvents /\ indices = <<>>
  <2> DEFINE n == IF num < MaxEvents THEN num ELSE MaxEvents
             LogType == {logs(of)[i] : i \in 1..num}
  <2>1. events(of) = SubSeq(logs(of), 1, n)
    BY <1>4 DEF events
  <2>2. n \in Nat /\ n <= num
    BY <1>1
  <2> HIDE DEF n
  <2>3. \A i \in 1..n : logs(of)[i] \in LogType
    BY <1>1, <2>2
  <2> HIDE DEF LogType
  <2>4. /\ events(of) \in Seq(LogType)
        /\ Len(events(of)) = IF 1 <= n THEN n - 1 + 1 ELSE 0
        /\ \A i \in 1..(n - 1 + 1) : events(of)[i] = logs(of)[1 + i - 1]
    BY <2>1, <2>2, <2>3, SubSeqProperties
  <2>5. DOMAIN events(of) = 1..n /\ \A i \in 1..n : events(of)[i] = logs(of)[i]
    BY <2>2, <2>4
  <2>6. ASSUME NEW k \in 1..n PROVE events(of)[k].of = of
    <3>1. k \in 1..num
      BY <1>1, <2>2
    <3> QED
      BY <1>2, <2>5, <3>1
  <2> QED
    BY <1>4, <2>5, <2>6
<1>5. CASE body.listEvents /\ indices # <<>>
  <2>1. events(of) = [k \in DOMAIN indices |-> logs(of)[indices[k] - first + 1]]
    BY <1>5 DEF events
  <2>2. DOMAIN events(of) = 1..Len(indices) /\ Len(events(of)) = Len(indices)
    BY <1>1, <2>1
  <2>3. ASSUME NEW k \in 1..Len(indices)
        PROVE  events(of)[k].of = of /\ events(of)[k].logIndex = indices[k]
    <3>1. first <= indices[k] /\ indices[k] < first + num
      BY <1>1, <2>3 DEF EventsRefused, Selectable
    <3>2. indices[k] - first + 1 \in 1..num
      BY <1>1, <3>1
    <3>3. events(of)[k] = logs(of)[indices[k] - first + 1]
      BY <1>1, <2>1
    <3> QED
      BY <1>1, <1>2, <3>2, <3>3
  <2> QED
    BY <2>2, <2>3
<1> QED
  BY <1>1, <1>3, <1>4, <1>5

-----------------------------------------------------------------------------
(* The steps *)

LEMMA InitIInv == Init => IInv
<1> SUFFICES ASSUME Init PROVE IInv
  OBVIOUS
<1>1. NodeInv
  BY NodeInitInv DEF Init
<1>2. TypeInv
  <2>1. highest = 0 /\ blockNumber = 0 /\ began = 0 /\ ended = 0
    BY DEF Init, NodeInit
  <2>2. pc = "idle" /\ request \in Requests /\ settled \in BOOLEAN
    BY DEF Init
  <2>3. awaited = {"blockNumber", "transaction", "receipt"}
    BY DEF Init
  <2> QED
    BY <2>1, <2>2, <2>3 DEF TypeInv
<1> QED
  BY <1>1, <1>2
     DEF Init, IInv, FreshInv, TxInv, ReceiptInv, CheckedInv, SettledInv, ResponseSettled,
         Running

\* What the node is asked, or not asked, while the verification's own state is
\* as it was.
LEMMA NodeStep ==
  ASSUME IInv, UNCHANGED verifierVars, NodeInv', highest <= highest',
         \A m \in 1..Len(chain) : m <= highest - ReorgDepth =>
           m \in 1..Len(chain') /\ chain'[m] = chain[m],
         \A m \in 1..Len(chain') : m <= highest - ReorgDepth => m \in 1..Len(chain)
  PROVE  IInv'
<1>1. /\ pc' = pc /\ request' = request /\ awaited' = awaited /\ blockNumber' = blockNumber
      /\ txInfo' = txInfo /\ txReceipt' = txReceipt /\ outcome' = outcome
      /\ began' = began /\ ended' = ended /\ settled' = settled /\ body' = body
  BY DEF verifierVars, body
<1>2. /\ ReorgDepth \in Nat /\ highest \in Nat /\ highest' \in Nat
      /\ began \in Nat /\ began <= highest
      /\ blockNumber \in Nat /\ blockNumber <= highest
      /\ Len(chain) \in Nat /\ Len(chain') \in Nat
      /\ DOMAIN chain = 1..Len(chain) /\ DOMAIN chain' = 1..Len(chain')
  BY NodeAssumption DEF IInv, NodeInv, TypeInv
<1>3. Stable' = Stable /\ \A m \in Stable : chain'[m] = chain[m]
  BY <1>1, <1>2 DEF Stable
<1>4. TypeInv' /\ FreshInv'
  BY <1>1, <1>2 DEF IInv, TypeInv, FreshInv
<1>5. TxInv'
  <2>1. ASSUME NEW b \in txInfo \ {Pending}, b.number <= began - ReorgDepth
        PROVE  Known(b)'
    <3>1. Known(b)
      BY <2>1 DEF IInv, TxInv
    <3> QED
      BY <1>1, <1>2, <1>3, <2>1, <3>1 DEF Known, Stable
  <2> QED
    BY <1>1, <2>1 DEF IInv, TxInv
<1>6. ReceiptInv' /\ CheckedInv'
  BY <1>1, <1>3 DEF IInv, ReceiptInv, CheckedInv, Unconfirmed
<1>7. SettledInv'
  <2>1. SUFFICES ASSUME settled PROVE \E b \in Including' : Settles(b)'
    BY <1>1 DEF IInv, SettledInv
  <2>2. PICK b \in Including : Settles(b)
    BY <2>1 DEF IInv, SettledInv
  <2>3. b.number \in Stable' /\ b = chain'[b.number] /\ b.holds
    BY <1>3, <2>2 DEF Settles
  <2>4. b \in Including'
    BY <1>2, <2>3 DEF Including, Stable
  <2> QED
    BY <1>1, <1>3, <2>2, <2>3, <2>4 DEF Settles, EventsRefused, Selectable
<1>8. ResponseSettled'
  <2>1. ASSUME NEW b, Final(b) PROVE Final(b)'
    BY <1>2, <2>1 DEF Final, Known
  <2> QED
    BY <1>1, <2>1 DEF IInv, ResponseSettled
<1> QED
  BY <1>4, <1>5, <1>6, <1>7, <1>8 DEF IInv

LEMMA VerifyEVMTransactionStep == ASSUME IInv, VerifyEVMTransaction PROVE IInv'
<1>1. /\ pc = "idle" /\ pc' = "awaiting" /\ began' = highest /\ settled' = Settled
      /\ UNCHANGED <<nodeVars, request, awaited, blockNumber, txInfo, txReceipt, outcome, ended>>
      /\ chain' = chain /\ highest' = highest /\ body' = body
      /\ awaited = {"blockNumber", "transaction", "receipt"}
      /\ txInfo = {} /\ txReceipt = {} /\ outcome = Running
  BY DEF IInv, FreshInv, VerifyEVMTransaction, nodeVars, body
<1>2. NodeInv /\ NodeInv' /\ highest \in Nat /\ ReorgDepth \in Nat
  BY <1>1, NodeAssumption DEF IInv, NodeInv
<1>3. TypeInv'
  BY <1>1, <1>2 DEF IInv, TypeInv, Settled
<1>4. FreshInv' /\ TxInv' /\ ReceiptInv' /\ CheckedInv' /\ ResponseSettled'
  BY <1>1 DEF FreshInv, TxInv, ReceiptInv, CheckedInv, ResponseSettled, Running
<1>5. SettledInv'
  <2>1. SUFFICES ASSUME Settled PROVE \E b \in Including : Settles(b)'
    BY <1>1 DEF SettledInv, Including, Running
  <2>2. PICK b \in Including :
          /\ Final(b)
          /\ highest - ReorgDepth - b.number + 1 >= body.requiredConfirmations
          /\ ~EventsRefused(b)
    BY <2>1 DEF Settled
  <2>3. b.holds /\ b.number \in 1..Len(chain) /\ chain[b.number] = b
    BY <1>2, <2>2, IncludingProps
  <2>4. Len(chain) \in Nat
    BY <1>2, IncludingProps
  <2>5. b.number \in Stable'
    BY <1>1, <1>2, <2>2, <2>3, <2>4 DEF Stable, Final
  <2> QED
    BY <1>1, <2>2, <2>3, <2>5 DEF Settles, EventsRefused, Selectable
<1> QED
  BY <1>2, <1>3, <1>4, <1>5 DEF IInv

LEMMA GetBlockNumberStep == ASSUME IInv, GetBlockNumber PROVE IInv'
<1>1. /\ pc = "awaiting" /\ pc' = pc /\ awaited' = awaited \ {"blockNumber"}
      /\ blockNumber' = Len(chain)
      /\ UNCHANGED <<nodeVars, request, txInfo, txReceipt, outcome, began, ended, settled>>
      /\ chain' = chain /\ highest' = highest /\ body' = body
  BY DEF GetBlockNumber, nodeVars, body
<1>2. /\ NodeInv /\ NodeInv' /\ Len(chain) \in Nat /\ Len(chain) <= highest
      /\ highest \in Nat /\ ReorgDepth \in Nat /\ began \in Nat /\ began <= highest
      /\ highest <= Len(chain) + ReorgDepth
  BY <1>1, NodeAssumption DEF IInv, NodeInv, TypeInv
<1>3. TypeInv'
  BY <1>1, <1>2 DEF IInv, TypeInv
<1>4. FreshInv' /\ TxInv' /\ ReceiptInv' /\ CheckedInv' /\ ResponseSettled'
  BY <1>1
     DEF IInv, FreshInv, TxInv, ReceiptInv, CheckedInv, ResponseSettled, Running, Stable,
         Known
<1>5. SettledInv'
  <2>1. SUFFICES ASSUME settled PROVE \E b \in Including : Settles(b)'
    BY <1>1 DEF IInv, SettledInv, Including
  <2>2. PICK b \in Including : Settles(b)
    BY <2>1 DEF IInv, SettledInv
  <2> QED
    BY <1>1, <1>2, <2>2 DEF Settles, Stable, EventsRefused, Selectable
<1> QED
  BY <1>2, <1>3, <1>4, <1>5 DEF IInv

LEMMA GetTransactionStep == ASSUME IInv, GetTransaction PROVE IInv'
<1>1. /\ pc = "awaiting" /\ pc' = pc /\ awaited' = awaited \ {"transaction"}
      /\ UNCHANGED <<nodeVars, request, blockNumber, txReceipt, outcome, began, ended, settled>>
      /\ chain' = chain /\ highest' = highest /\ body' = body
      /\ \/ txInfo' = Including
         \/ Including = {} /\ txInfo' = {Pending}
  BY DEF GetTransaction, nodeVars, body
<1>2. /\ NodeInv /\ NodeInv'
      /\ \A b \in Including : b \in Block /\ b.holds /\ Known(b)
      /\ \A a, b \in Including : a = b
  BY <1>1, IncludingProps DEF IInv, NodeInv, Known
<1>3. TypeInv'
  BY <1>1, <1>2 DEF IInv, TypeInv
<1>4. TxInv'
  BY <1>1, <1>2 DEF TxInv, Known
<1>5. FreshInv' /\ ReceiptInv' /\ CheckedInv' /\ ResponseSettled'
  BY <1>1 DEF IInv, FreshInv, ReceiptInv, CheckedInv, ResponseSettled, Running, Stable
<1>6. SettledInv'
  <2>1. SUFFICES ASSUME settled PROVE \E b \in Including : Settles(b)'
    BY <1>1 DEF IInv, SettledInv, Including
  <2>2. PICK b \in Including : Settles(b)
    BY <2>1 DEF IInv, SettledInv
  <2>3. txInfo' = {b}
    BY <1>1, <1>2, <2>2
  <2> QED
    BY <1>1, <2>2, <2>3 DEF Settles, Stable, EventsRefused, Selectable
<1> QED
  BY <1>2, <1>3, <1>4, <1>5, <1>6 DEF IInv

LEMMA GetTransactionReceiptStep == ASSUME IInv, GetTransactionReceipt PROVE IInv'
<1>1. /\ pc = "awaiting" /\ pc' = pc /\ awaited' = awaited \ {"receipt"}
      /\ UNCHANGED <<nodeVars, request, blockNumber, txInfo, outcome, began, ended, settled>>
      /\ chain' = chain /\ highest' = highest /\ body' = body
      /\ txReceipt' = Including
  BY DEF GetTransactionReceipt, nodeVars, body
<1>2. /\ NodeInv /\ NodeInv'
      /\ \A b \in Including : b \in Block /\ b.holds
      /\ \A a, b \in Including : a = b
      /\ \A m \in 1..Len(chain) : chain[m].holds => chain[m] \in Including
  BY <1>1, IncludingProps DEF IInv, NodeInv
<1>3. TypeInv'
  BY <1>1, <1>2 DEF IInv, TypeInv
<1>4. ReceiptInv'
  BY <1>1, <1>2 DEF ReceiptInv, Stable
<1>5. FreshInv' /\ TxInv' /\ CheckedInv' /\ ResponseSettled'
  BY <1>1 DEF IInv, FreshInv, TxInv, CheckedInv, ResponseSettled, Running, Known
<1>6. SettledInv'
  <2>1. SUFFICES ASSUME settled PROVE \E b \in Including : Settles(b)'
    BY <1>1 DEF IInv, SettledInv, Including
  <2>2. PICK b \in Including : Settles(b)
    BY <2>1 DEF IInv, SettledInv
  <2>3. txReceipt' = {b}
    BY <1>1, <1>2, <2>2
  <2> QED
    BY <1>1, <2>2, <2>3 DEF Settles, Stable, EventsRefused, Selectable
<1> QED
  BY <1>2, <1>3, <1>4, <1>5, <1>6 DEF IInv

\* A verification ends with what the properties allow it to end with.
LEMMA ReturnStep ==
  ASSUME IInv, pc' = "done", ended' = highest, pc \in {"awaiting", "block"},
         UNCHANGED <<nodeVars, request, awaited, blockNumber, txInfo, txReceipt, began, settled>>,
         settled => outcome'.status # "INVALID",
         ResponseSettled'
  PROVE  IInv'
<1>1. /\ chain' = chain /\ highest' = highest /\ body' = body
  BY DEF nodeVars, body
<1>2. NodeInv' /\ highest \in Nat
  BY <1>1 DEF IInv, NodeInv
<1>3. TypeInv' /\ FreshInv' /\ TxInv' /\ ReceiptInv' /\ CheckedInv'
  BY <1>1, <1>2 DEF IInv, TypeInv, FreshInv, TxInv, ReceiptInv, CheckedInv, Stable, Known
<1>4. SettledInv'
  <2>1. SUFFICES ASSUME settled PROVE \E b \in Including : Settles(b)'
    BY <1>1 DEF SettledInv, Including
  <2>2. PICK b \in Including : Settles(b)
    BY <2>1 DEF IInv, SettledInv
  <2> QED
    BY <1>1, <2>2 DEF Settles, Stable, EventsRefused, Selectable
<1> QED
  BY <1>2, <1>3, <1>4 DEF IInv

\* What the answers say of a request that is settled.
LEMMA SettledAnswers ==
  ASSUME IInv, settled, awaited = {}
  PROVE  \E b : /\ txInfo = {b} /\ txReceipt = {b} /\ b # Pending
                /\ ~Unconfirmed(b.number) /\ Known(b) /\ ~EventsRefused(b)
<1>1. PICK b \in Including : Settles(b)
  BY DEF IInv, SettledInv
<1>2. /\ DOMAIN chain = 1..Len(chain) /\ Len(chain) \in Nat
      /\ b.number \in 1..Len(chain) /\ chain[b.number] = b
  BY <1>1, IncludingProps DEF IInv
<1>3. b # Pending /\ Known(b)
  BY <1>2 DEF Pending, Known
<1>4. /\ blockNumber \in Nat /\ began \in Nat /\ ReorgDepth \in Nat
      /\ body.requiredConfirmations \in Nat
  BY NodeAssumption, RequestTyped DEF IInv, TypeInv
<1>5. /\ blockNumber >= began - ReorgDepth
      /\ began - ReorgDepth - b.number + 1 >= body.requiredConfirmations
      /\ txInfo = {b} /\ txReceipt = {b} /\ ~EventsRefused(b)
  BY <1>1 DEF Settles
<1>6. ~Unconfirmed(b.number)
  BY <1>2, <1>4, <1>5 DEF Unconfirmed
<1> QED
  BY <1>3, <1>5, <1>6

LEMMA CheckAnswersStep == ASSUME IInv, CheckAnswers PROVE IInv'
<1>1. /\ pc = "awaiting" /\ awaited = {} /\ outcome = Running
      /\ UNCHANGED <<nodeVars, request, awaited, blockNumber, txInfo, txReceipt, began, settled>>
      /\ chain' = chain /\ highest' = highest /\ body' = body
  BY DEF IInv, FreshInv, CheckAnswers, nodeVars, body
<1>2. CASE (txInfo = {} \/ txReceipt = {}) /\ Return(Invalid("INVALID"))
  BY <1>1, <1>2, SettledAnswers, ReturnStep DEF Return, Invalid, ResponseSettled
<1>3. CASE Return(Throws("INTERNAL_SERVER_ERROR"))
  BY <1>1, <1>3, ReturnStep DEF Return, Throws, ResponseSettled
<1>4. CASE \E b \in txInfo \ {Pending} : Unconfirmed(b.number) /\ Return(Invalid("INVALID"))
  BY <1>1, <1>4, SettledAnswers, ReturnStep DEF Return, Invalid, ResponseSettled
<1>5. CASE \E b \in txInfo \ {Pending} :
             ~Unconfirmed(b.number) /\ pc' = "block" /\ UNCHANGED <<outcome, ended>>
  <2>1. CheckedInv'
    BY <1>1, <1>5 DEF IInv, TxInv, CheckedInv, Unconfirmed
  <2>2. NodeInv' /\ TypeInv' /\ FreshInv' /\ TxInv' /\ ReceiptInv'
    BY <1>1, <1>5 DEF IInv, NodeInv, TypeInv, FreshInv, TxInv, ReceiptInv, Stable, Known
  <2>3. ResponseSettled'
    BY <1>1, <1>5 DEF ResponseSettled, Running
  <2>4. SettledInv'
    <3>1. SUFFICES ASSUME settled PROVE \E b \in Including : Settles(b)'
      BY <1>1, <1>5 DEF SettledInv, Including, Running
    <3>2. PICK b \in Including : Settles(b)
      BY <3>1 DEF IInv, SettledInv
    <3> QED
      BY <1>1, <3>2 DEF Settles, Stable, EventsRefused, Selectable
  <2> QED
    BY <2>1, <2>2, <2>3, <2>4 DEF IInv
<1> QED
  BY <1>2, <1>3, <1>4, <1>5 DEF CheckAnswers

\* Enough confirmations put the block at a height that was stable when the
\* verification began: it is the chain's still, as it was for the receipt.
LEMMA ConfirmedIsStable ==
  ASSUME IInv, pc = "block", NEW b \in txInfo,
         body.requiredConfirmations > ReorgDepth + (highest - began)
  PROVE  /\ Final(b) /\ b.holds
         /\ \A of \in txReceipt : of = b
<1>1. /\ DOMAIN chain = 1..Len(chain) /\ Len(chain) \in Nat
      /\ highest \in Nat /\ ReorgDepth \in Nat /\ began \in Nat /\ began <= highest
      /\ blockNumber \in Nat /\ blockNumber <= highest
      /\ body.requiredConfirmations \in Nat
  BY NodeAssumption, RequestTyped, IncludingProps DEF IInv, TypeInv, NodeInv
<1>2. b.holds /\ b \in Block /\ ~Unconfirmed(b.number)
  BY DEF IInv, TxInv, CheckedInv
<1>3. b.number <= began - ReorgDepth
  <2>1. b.number \in Int
    BY <1>2, NodeAssumption DEF Block
  <2> QED
    BY <1>1, <1>2, <2>1 DEF Unconfirmed
<1>4. Known(b) /\ b.number \in 1..Len(chain) /\ chain[b.number] = b
  BY <1>1, <1>3 DEF IInv, TxInv, CheckedInv, Known
<1>5. Final(b)
  BY <1>1, <1>4, <1>3 DEF Final
<1>6. \A of \in txReceipt : of = b
  BY <1>4, <1>2, <1>3 DEF IInv, ReceiptInv, Stable
<1> QED
  BY <1>2, <1>5, <1>6

LEMMA GetBlockStep == ASSUME IInv, GetBlock PROVE IInv'
<1>1. /\ pc = "block" /\ awaited = {} /\ outcome = Running
      /\ UNCHANGED <<nodeVars, request, awaited, blockNumber, txInfo, txReceipt, began, settled>>
      /\ chain' = chain /\ highest' = highest /\ body' = body
  BY DEF IInv, FreshInv, CheckedInv, GetBlock, nodeVars, body
<1>2. PICK block \in txInfo, of \in txReceipt :
        \/ ~Known(block) /\ Return(Invalid("INVALID"))
        \/ EventsRefused(of) /\ Return(Invalid("INVALID"))
        \/ /\ ~EventsRefused(of)
           /\ Return(Valid(MakeResponse(request, block.number,
                [block |-> block, receiptOf |-> of, events |-> events(of)])))
  BY DEF GetBlock
<1>3. CASE (~Known(block) \/ EventsRefused(of)) /\ Return(Invalid("INVALID"))
  <2>1. ~settled
    BY <1>1, <1>2, <1>3, SettledAnswers
  <2> QED
    BY <1>1, <1>3, <2>1, ReturnStep DEF Return, Invalid, ResponseSettled
<1>4. CASE /\ ~EventsRefused(of)
           /\ Return(Valid(MakeResponse(request, block.number,
                [block |-> block, receiptOf |-> of, events |-> events(of)])))
  <2> DEFINE r == MakeResponse(request, block.number,
                    [block |-> block, receiptOf |-> of, events |-> events(of)])
  <2>1. /\ r.responseBody.block = block /\ r.responseBody.receiptOf = of
        /\ r.responseBody.events = events(of)
    BY DEF MakeResponse
  <2>2. /\ outcome' = Valid(r) /\ pc' = "done" /\ ended' = highest
        /\ outcome'.response = {r} /\ outcome'.status = "VALID"
    BY <1>4 DEF Return, Valid
  <2> HIDE DEF r
  <2>3. of \in Block /\ request \in Requests
    BY DEF IInv, ReceiptInv, TypeInv
  <2>4. ResponseSettled'
    <3>1. SUFFICES ASSUME body.requiredConfirmations > ReorgDepth + (highest - began)
                   PROVE  /\ Final(block) /\ block.holds /\ of = block
                          /\ \A k \in DOMAIN events(of) : events(of)[k].of = block
                          /\ body.logIndices # <<>> =>
                               /\ Len(events(of)) = Len(body.logIndices)
                               /\ \A k \in DOMAIN events(of) :
                                    events(of)[k].logIndex = body.logIndices[k]
      BY <1>1, <2>1, <2>2 DEF ResponseSettled, Final, Known
    <3> QED
      BY <1>1, <1>4, <2>3, <3>1, ConfirmedIsStable, EventsProps
  <2> QED
    BY <1>1, <2>2, <2>4, ReturnStep
<1> QED
  BY <1>2, <1>3, <1>4

LEMMA RequestFailsStep == ASSUME IInv, RequestFails PROVE IInv'
<1>1. /\ pc \in {"awaiting", "block"} /\ pc' = "done" /\ ended' = highest
      /\ outcome' = Throws("INTERNAL_SERVER_ERROR")
      /\ UNCHANGED <<nodeVars, request, awaited, blockNumber, txInfo, txReceipt, began, settled>>
  BY DEF RequestFails, Return
<1>2. outcome'.response = {} /\ outcome'.status = "none"
  BY <1>1 DEF Throws
<1>3. ResponseSettled'
  BY <1>2 DEF ResponseSettled
<1> QED
  BY <1>1, <1>2, <1>3, ReturnStep

-----------------------------------------------------------------------------
(* The theorems *)

LEMMA NextIInv == IInv /\ [Next]_vars => IInv'
<1> SUFFICES ASSUME IInv, [Next]_vars PROVE IInv'
  OBVIOUS
<1>1. CASE VerifyEVMTransaction
  BY <1>1, VerifyEVMTransactionStep
<1>2. CASE GetBlockNumber
  BY <1>2, GetBlockNumberStep
<1>3. CASE GetTransaction
  BY <1>3, GetTransactionStep
<1>4. CASE GetTransactionReceipt
  BY <1>4, GetTransactionReceiptStep
<1>5. CASE CheckAnswers
  BY <1>5, CheckAnswersStep
<1>6. CASE GetBlock
  BY <1>6, GetBlockStep
<1>7. CASE RequestFails
  BY <1>7, RequestFailsStep
<1>8. CASE Node /\ UNCHANGED verifierVars
  BY <1>8, NodeMoves, NodeStep DEF IInv
<1>9. CASE UNCHANGED vars
  <2>1. chain' = chain /\ highest' = highest /\ UNCHANGED verifierVars
    BY <1>9 DEF vars, nodeVars
  <2>2. NodeInv' /\ highest \in Nat
    BY <2>1 DEF IInv, NodeInv
  <2> QED
    BY <2>1, <2>2, NodeStep
<1> QED
  BY <1>1, <1>2, <1>3, <1>4, <1>5, <1>6, <1>7, <1>8, <1>9 DEF Next, Verifier

LEMMA AlwaysIInv == Spec => []IInv
BY InitIInv, NextIInv, PTL DEF Spec

\* If more confirmations are asked for than the chain reorganises and grew by
\* meanwhile, a response is about one block, which stays in the chain, and its
\* status and events are of that block.
THEOREM ResponsesAreSettled == Spec => []ResponseSettled
<1>1. IInv => ResponseSettled
  BY DEF IInv
<1> QED
  BY <1>1, AlwaysIInv, PTL

\* A transaction that was final and deep enough is never answered INVALID, in
\* whichever order the node answers.
THEOREM SettledTransactionsConfirm == Spec => []SettledIsConfirmed
<1>1. IInv => SettledIsConfirmed
  BY DEF IInv, SettledInv, SettledIsConfirmed
<1> QED
  BY <1>1, AlwaysIInv, PTL
=============================================================================
