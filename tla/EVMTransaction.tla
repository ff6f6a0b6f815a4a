--------------------------- MODULE EVMTransaction ---------------------------
(***************************************************************************)
(* One verification of an EVMTransaction request                           *)
(* (src/src/verification/evm-transaction/evm-transaction.ts) while the     *)
(* node's chain grows and reorganises.  The head, the transaction and its  *)
(* receipt are asked for at once and answered in any order; the block is   *)
(* asked for afterwards, by its hash.                                      *)
(***************************************************************************)
EXTENDS EVMNode, VerifierBase

CONSTANTS
  MaxEvents,  \* 50
  Requests

\* An event as its log: the number in the block, and the block it was in.
EVMTransaction_Event == [logIndex : Nat, of : Block, removed : {FALSE}]

\* Sender, receiver, value and input are functions of the transaction alone;
\* its status is that of its execution in a block, `receiptOf`.
EVMTransaction_ResponseBody ==
  [block : Block, receiptOf : Block, events : Seq(EVMTransaction_Event)]

EVMTransaction_RequestBody ==
  [requiredConfirmations : Nat, provideInput : BOOLEAN,
   listEvents : BOOLEAN, logIndices : Seq(Nat)]

EVMTransaction_Request == AttestationType_Request(EVMTransaction_RequestBody)

EVMTransaction_Response ==
  AttestationType_Response(EVMTransaction_RequestBody, EVMTransaction_ResponseBody)

ASSUME EVMRequestsAssumption ==
  /\ MaxEvents \in Nat
  /\ Requests \subseteq EVMTransaction_Request

VARIABLES
  pc,
  request,
  awaited,      \* the answers of Promise.all still to come
  blockNumber,
  txInfo,       \* the block of the transaction, {} if it is unknown
  txReceipt,    \* the block of the receipt, {} if there is none
  outcome,
  \* what the properties recall, and the code does not have
  began,        \* `highest` when the verification began
  ended,        \* and when it ended
  settled       \* the transaction was final and deep enough when it began

verifierVars == <<pc, request, awaited, blockNumber, txInfo, txReceipt, outcome,
                  began, ended, settled>>
vars == <<nodeVars, verifierVars>>

body == request.requestBody

\* A transaction in no block has no number; BigInt(null) throws.
Pending == [number |-> 0, fork |-> CHOOSE f \in Forks : TRUE, holds |-> TRUE]

Running == [error |-> "none", status |-> "none", response |-> {}]

-----------------------------------------------------------------------------
(* What is made of the answers *)

\* Mutants: the block itself does not count; it counts twice.
Unconfirmed_NotCounted(n) == blockNumber - n < body.requiredConfirmations

Unconfirmed_Twice(n) == blockNumber - n + 2 < body.requiredConfirmations

Unconfirmed(n) == blockNumber - n + 1 < body.requiredConfirmations

logs(b) == [i \in 1..NumLogs[b.fork] |->
  [logIndex |-> FirstIndex[b.fork] + i - 1, of |-> b, removed |-> FALSE]]

Selectable(b, i) ==
  FirstIndex[b.fork] <= i /\ i < FirstIndex[b.fork] + NumLogs[b.fork]

EventsRefused(b) ==
  \/ ~body.listEvents /\ body.logIndices # <<>>
  \/ body.listEvents /\ Len(body.logIndices) > MaxEvents
  \/ \E k \in DOMAIN body.logIndices : ~Selectable(b, body.logIndices[k])

\* All of them up to MaxEvents, or those asked for in the order asked for.
events(b) ==
  IF ~body.listEvents THEN <<>>
  ELSE IF body.logIndices = <<>>
  THEN SubSeq(logs(b), 1, IF NumLogs[b.fork] < MaxEvents THEN NumLogs[b.fork] ELSE MaxEvents)
  ELSE [k \in DOMAIN body.logIndices |->
          logs(b)[body.logIndices[k] - FirstIndex[b.fork] + 1]]

-----------------------------------------------------------------------------
(* The verification *)

Init ==
  /\ NodeInit
  /\ pc = "idle"
  /\ request \in Requests
  /\ awaited = {"blockNumber", "transaction", "receipt"}
  /\ blockNumber = 0
  /\ txInfo = {} /\ txReceipt = {}
  /\ outcome = Running
  /\ began = 0 /\ ended = 0
  /\ settled = FALSE

\* The request can be met by the block that holds the transaction now, and by
\* the shortest chain the node can still come to have.
Settled ==
  \E b \in Including :
    /\ Final(b)
    /\ highest - ReorgDepth - b.number + 1 >= body.requiredConfirmations
    /\ ~EventsRefused(b)

VerifyEVMTransaction ==
  /\ pc = "idle"
  /\ pc' = "awaiting"
  /\ began' = highest
  /\ settled' = Settled
  /\ UNCHANGED <<nodeVars, request, awaited, blockNumber, txInfo, txReceipt, outcome, ended>>

GetBlockNumber ==
  /\ pc = "awaiting" /\ "blockNumber" \in awaited
  /\ awaited' = awaited \ {"blockNumber"}
  /\ blockNumber' = Len(chain)
  /\ UNCHANGED <<nodeVars, pc, request, txInfo, txReceipt, outcome, began, ended, settled>>

GetTransaction ==
  /\ pc = "awaiting" /\ "transaction" \in awaited
  /\ awaited' = awaited \ {"transaction"}
  /\ \/ txInfo' = Including
     \/ Including = {} /\ txInfo' = {Pending}
  /\ UNCHANGED <<nodeVars, pc, request, blockNumber, txReceipt, outcome, began, ended, settled>>

GetTransactionReceipt ==
  /\ pc = "awaiting" /\ "receipt" \in awaited
  /\ awaited' = awaited \ {"receipt"}
  /\ txReceipt' = Including
  /\ UNCHANGED <<nodeVars, pc, request, blockNumber, txInfo, outcome, began, ended, settled>>

Return(end) == outcome' = end /\ pc' = "done" /\ ended' = highest

\* Promise.all has resolved.
CheckAnswers ==
  /\ pc = "awaiting" /\ awaited = {}
  /\ \/ /\ txInfo = {} \/ txReceipt = {}
        /\ Return(Invalid("INVALID"))
     \/ /\ txReceipt # {} /\ txInfo = {Pending}
        /\ Return(Throws("INTERNAL_SERVER_ERROR"))
     \/ /\ txReceipt # {}
        /\ \E b \in txInfo \ {Pending} :
             \/ Unconfirmed(b.number) /\ Return(Invalid("INVALID"))
             \/ ~Unconfirmed(b.number) /\ pc' = "block" /\ UNCHANGED <<outcome, ended>>
  /\ UNCHANGED <<nodeVars, request, awaited, blockNumber, txInfo, txReceipt, began, settled>>

\* getBlock by the transaction's block hash.  A node may or may not still know
\* a block that was replaced.
GetBlock ==
  /\ pc = "block"
  /\ \E block \in txInfo, of \in txReceipt :
       \/ ~Known(block) /\ Return(Invalid("INVALID"))
       \/ EventsRefused(of) /\ Return(Invalid("INVALID"))
       \/ /\ ~EventsRefused(of)
          /\ Return(Valid(MakeResponse(request, block.number,
               [block |-> block, receiptOf |-> of, events |-> events(of)])))
  /\ UNCHANGED <<nodeVars, request, awaited, blockNumber, txInfo, txReceipt, began, settled>>

RequestFails ==
  /\ pc \in {"awaiting", "block"}
  /\ Return(Throws("INTERNAL_SERVER_ERROR"))
  /\ UNCHANGED <<nodeVars, request, awaited, blockNumber, txInfo, txReceipt, began, settled>>

Verifier ==
  \/ VerifyEVMTransaction
  \/ GetBlockNumber \/ GetTransaction \/ GetTransactionReceipt
  \/ CheckAnswers \/ GetBlock
  \/ RequestFails

Next == Verifier \/ (Node /\ UNCHANGED verifierVars)

Spec == Init /\ [][Next]_vars

-----------------------------------------------------------------------------
(* Properties *)

\* If more confirmations are asked for than the chain ever reorganises and grew
\* by during the verification, a VALID response is about one block that stays
\* in the chain: status and events are of the execution in that block, and the
\* events are those asked for, though block, transaction and receipt came from
\* answers the node gave at different times.
ResponseSettled ==
  \A r \in outcome.response :
    body.requiredConfirmations > ReorgDepth + (ended - began) =>
      LET b == r.responseBody.block
          listed == r.responseBody.events IN
        /\ Final(b) /\ b.holds
        /\ r.responseBody.receiptOf = b
        /\ \A k \in DOMAIN listed : listed[k].of = b
        /\ body.logIndices # <<>> =>
             /\ Len(listed) = Len(body.logIndices)
             /\ \A k \in DOMAIN listed : listed[k].logIndex = body.logIndices[k]

\* A transaction that was final, and as deep as asked for whatever the node's
\* head may still be, is never reported INVALID.
SettledIsConfirmed == settled => outcome.status # "INVALID"
=============================================================================
