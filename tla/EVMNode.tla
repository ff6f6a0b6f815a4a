------------------------------ MODULE EVMNode ------------------------------
(***************************************************************************)
(* The node of an EVM chain that the verifier asks over JSON-RPC, another  *)
(* program, and one transaction that its blocks may hold.  The chain       *)
(* grows, and its newest blocks may be replaced by others in which the     *)
(* transaction is elsewhere, executes differently, or is missing.          *)
(* The verifier has to rely on a depth below which that never happens.     *)
(***************************************************************************)
EXTENDS Integers, Sequences

CONSTANTS
  ReorgDepth,  \* only the ReorgDepth newest heights are ever replaced
  Forks,       \* tell apart the blocks that compete for a height
  FirstIndex,  \* per fork, the number in the block of the transaction's first log
  NumLogs,     \* per fork, how many logs the transaction has
  MaxHeight    \* bound: the height of the chain

ASSUME NodeAssumption ==
  /\ ReorgDepth \in Nat
  /\ FirstIndex \in [Forks -> Nat]
  /\ NumLogs \in [Forks -> Nat]
  /\ MaxHeight \in Nat

VARIABLES
  chain,   \* the node's blocks, genesis left out
  highest  \* the greatest height it ever had

nodeVars == <<chain, highest>>

\* A block; its hash and time are functions of all of it.
Block == [number : 0..MaxHeight, fork : Forks, holds : BOOLEAN]

\* The block that holds the transaction, if there is one.
Including == {chain[n] : n \in {m \in DOMAIN chain : chain[m].holds}}

Known(b) == b.number \in DOMAIN chain /\ chain[b.number] = b

\* A block that is never replaced.
Final(b) == Known(b) /\ highest - b.number >= ReorgDepth

NodeInit == chain = <<>> /\ highest = 0

Grow ==
  /\ Len(chain) < MaxHeight
  /\ \E fork \in Forks, holds \in BOOLEAN :
       /\ holds => Including = {}
       /\ chain' = Append(chain, [number |-> Len(chain) + 1, fork |-> fork, holds |-> holds])
  /\ highest' = IF Len(chain') > highest THEN Len(chain') ELSE highest

\* The newest block turns out not to be the chain's.
Retract ==
  /\ chain # <<>>
  /\ ~Final(chain[Len(chain)])
  /\ chain' = SubSeq(chain, 1, Len(chain) - 1)
  /\ UNCHANGED highest

Node == Grow \/ Retract
=============================================================================
