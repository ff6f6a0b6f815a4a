-------------------------- MODULE MCEVMTransaction --------------------------
(* Model-checking instance of EVMTransaction. *)
EXTENDS EVMTransaction

\* In the second fork, another transaction's log comes first.
MCFirstIndex == [f \in Forks |-> f - 1]

MCNumLogs == [f \in Forks |-> IF f = 1 THEN 3 ELSE 1]

EventLists ==
  {<<FALSE, <<>>>>, <<FALSE, <<0>>>>, <<TRUE, <<>>>>, <<TRUE, <<1, 0>>>>, <<TRUE, <<0, 1, 2>>>>}

MCRequests ==
  {[attestationType |-> "EVMTransaction", sourceId |-> SourceId, requestBody |->
      [requiredConfirmations |-> confirmations, provideInput |-> FALSE,
       listEvents |-> list[1], logIndices |-> list[2]]] :
     confirmations \in 1..3, list \in EventLists}
=============================================================================
