----------------------------- MODULE JobService -----------------------------
(***************************************************************************)
(* What the Web2Json process pool promises its callers, with no children,  *)
(* pipes or timers in sight: a service that                                *)
(*   - refuses a job when MaxWaiting jobs already wait, and only then,     *)
(*   - starts the waiting jobs in the order in which they came,            *)
(*   - gives every job at most one result, and never changes it,           *)
(*   - rejects every waiting job when it closes,                           *)
(*   - finishes what it started, and until it closes starts what waits.    *)
(* ProcessPool implements it: the waiting jobs are requestQueue, the       *)
(* active ones the requests whose timer is armed.                          *)
(***************************************************************************)
EXTENDS Naturals, Sequences

CONSTANTS
  Jobs,        \* the jobs callers may submit
  MaxWaiting,  \* how many may wait
  Answers,     \* results that only a job which was started can get
  Failures     \* results of a started job the service gave up

VARIABLES
  waiting,  \* jobs accepted and not started, in order of arrival
  active,   \* jobs started and not finished
  result,   \* "none" before submission, "pending", then the job's result
  closed    \* the service was told to stop

vars == <<waiting, active, result, closed>>

Init ==
  /\ waiting = <<>>
  /\ active = {}
  /\ result = [j \in Jobs |-> "none"]
  /\ closed = FALSE

Accept(j) ==
  /\ result[j] = "none"
  /\ Len(waiting) < MaxWaiting
  /\ waiting' = Append(waiting, j)
  /\ result' = [result EXCEPT ![j] = "pending"]
  /\ UNCHANGED <<active, closed>>

Refuse(j) ==
  /\ result[j] = "none"
  /\ Len(waiting) >= MaxWaiting
  /\ result' = [result EXCEPT ![j] = "BACKPRESSURE"]
  /\ UNCHANGED <<waiting, active, closed>>

Start ==
  /\ waiting # <<>>
  /\ active' = active \cup {Head(waiting)}
  /\ waiting' = Tail(waiting)
  /\ UNCHANGED <<result, closed>>

\* The job at the head cannot be started at all.
StartFails ==
  /\ waiting # <<>>
  /\ result' = [result EXCEPT ![Head(waiting)] = "UNKNOWN_ERROR"]
  /\ waiting' = Tail(waiting)
  /\ UNCHANGED <<active, closed>>

Finish(j) ==
  /\ j \in active
  /\ active' = active \ {j}
  /\ \E o \in Answers \cup Failures : result' = [result EXCEPT ![j] = o]
  /\ UNCHANGED <<waiting, closed>>

Close ==
  /\ ~closed
  /\ closed' = TRUE
  /\ result' = [j \in Jobs |-> IF \E i \in 1..Len(waiting) : waiting[i] = j
                               THEN "SHUTDOWN" ELSE result[j]]
  /\ waiting' = <<>>
  /\ UNCHANGED active

Next ==
  \/ \E j \in Jobs : Accept(j) \/ Refuse(j) \/ Finish(j)
  \/ Start \/ StartFails
  \/ Close

SafeSpec == Init /\ [][Next]_vars

Spec ==
  /\ SafeSpec
  /\ \A j \in Jobs : WF_vars(Finish(j))
  /\ WF_vars(~closed /\ (Start \/ StartFails))
=============================================================================
