------------------------- MODULE ProcessPool_proofs -------------------------
(***************************************************************************)
(* Proofs about ProcessPool: the safety properties of the pool hold for    *)
(* any number of requests, children, queue places and failures.            *)
(***************************************************************************)
EXTENDS ProcessPool, FiniteSetTheorems, TLAPS

-----------------------------------------------------------------------------
(* The inductive invariant *)

Distinct(list) == \A i, j \in 1..Len(list) : list[i] = list[j] => i = j

\* Children are numbered 1, 2, ...: the number of the next one is fresh.
ChildIds ==
  /\ idCounter > 0
  /\ \A w \in workers : 0 < w /\ w < idCounter
  /\ \A w \in Nat : Idle(w) => 0 < w /\ w < idCounter
  /\ \A r \in Requests : runningOn[r] < idCounter
  /\ \A w \in exits \cup errors : 0 < w /\ w < idCounter
  /\ \A t \in tasks : 0 < t[1] /\ t[1] < idCounter
  /\ \A m \in replies : 0 < m[1]

QueueOnce == Distinct(requestQueue) /\ NoLostRequest

Staffing ==
  /\ IsFiniteSet(workers)
  /\ PoolStaffed
  /\ shutdownInitiated => workers = {}

\* A child with a pending event of its end is not running.
Processes ==
  /\ NoOrphanProcess
  /\ live \cap (exits \cup errors) = {}

\* Only requests that were started are in the pipes, once.
Messages ==
  /\ NoAbandonedWork
  /\ \A t \in tasks : outcome[t[2]] # "none" /\ ~Queued(t[2])
  /\ \A m \in replies : outcome[m[2]] # "none" /\ ~Queued(m[2])
  /\ \A m \in replies : <<m[1], m[2]>> \notin tasks

IInv ==
  /\ TypeOK
  /\ ChildIds
  /\ QueueOnce
  /\ ExclusiveWorker
  /\ Staffing
  /\ Processes
  /\ NoLostWakeup
  /\ Messages

-----------------------------------------------------------------------------
(* Lists *)

\* Removing x from a list without repetitions removes x and nothing else.
LEMMA WithoutProps ==
  ASSUME NEW S, NEW list \in Seq(S), NEW x, Distinct(list)
  PROVE  /\ Without(list, x) \in Seq(S)
         /\ Distinct(Without(list, x))
         /\ \A y : Among(y, Without(list, x)) <=> Among(y, list) /\ y # x
<1>1. CASE ~Among(x, list)
  BY <1>1 DEF Without, Among, Distinct
<1>2. CASE Among(x, list)
  <2> DEFINE k == CHOOSE i \in 1..Len(list) : list[i] = x
             n == Len(list)
             rest == [i \in 1..(n - 1) |-> IF i < k THEN list[i] ELSE list[i + 1]]
  <2>1. k \in 1..n /\ list[k] = x
    BY <1>2 DEF Among
  <2>2. Without(list, x) = rest
    BY <1>2 DEF Without
  <2> HIDE DEF k
  <2>3. n \in Nat /\ n - 1 \in Nat
    BY <2>1
  <2>4. rest \in Seq(S) /\ Len(rest) = n - 1
    <3>1. \A i \in 1..(n - 1) : rest[i] \in S
      BY <2>1, <2>3
    <3>2. rest \in [1..(n - 1) -> S]
      BY <3>1
    <3>. QED BY <2>3, <3>2
  <2>5. Distinct(rest)
    <3> SUFFICES ASSUME NEW i \in 1..(n - 1), NEW j \in 1..(n - 1),
                        rest[i] = rest[j]
                 PROVE  i = j
      BY <2>4 DEF Distinct
    <3>. QED BY <2>1, <2>3 DEF Distinct
  <2>6. ASSUME NEW y, Among(y, rest)
        PROVE  Among(y, list) /\ y # x
    <3>1. PICK i \in 1..(n - 1) : rest[i] = y
      BY <2>4, <2>6 DEF Among
    <3>2. CASE i < k
      BY <3>1, <3>2, <2>1, <2>3 DEF Among, Distinct
    <3>3. CASE ~(i < k)
      BY <3>1, <3>3, <2>1, <2>3 DEF Among, Distinct
    <3>. QED BY <3>2, <3>3
  <2>7. ASSUME NEW y, Among(y, list), y # x
        PROVE  Among(y, rest)
    <3>1. PICK i \in 1..n : list[i] = y
      BY <2>7 DEF Among
    <3>2. CASE i < k
      <4>1. i \in 1..(n - 1) /\ rest[i] = y
        BY <3>1, <3>2, <2>1, <2>3
      <4>. QED BY <4>1, <2>4 DEF Among
    <3>3. CASE i > k
      <4>1. i - 1 \in 1..(n - 1) /\ rest[i - 1] = y
        BY <3>1, <3>3, <2>1, <2>3
      <4>. QED BY <4>1, <2>4 DEF Among
    <3>. QED BY <3>1, <3>2, <3>3, <2>1, <2>7
  <2>. QED BY <2>2, <2>4, <2>5, <2>6, <2>7
<1>. QED BY <1>1, <1>2

\* Appending a new element.
LEMMA AppendProps ==
  ASSUME NEW S, NEW list \in Seq(S), NEW x \in S,
         Distinct(list), ~Among(x, list)
  PROVE  /\ Append(list, x) \in Seq(S)
         /\ Distinct(Append(list, x))
         /\ \A y : Among(y, Append(list, x)) <=> Among(y, list) \/ y = x
<1> DEFINE n == Len(list)
           longer == Append(list, x)
<1>1. /\ longer \in Seq(S) /\ Len(longer) = n + 1 /\ n \in Nat
      /\ longer[n + 1] = x
      /\ \A i \in 1..n : longer[i] = list[i]
  OBVIOUS
<1>2. Distinct(longer)
  BY <1>1 DEF Distinct, Among
<1>3. \A y : Among(y, longer) <=> Among(y, list) \/ y = x
  <2>1. ASSUME NEW y, Among(y, longer) PROVE Among(y, list) \/ y = x
    BY <1>1, <2>1 DEF Among
  <2>2. ASSUME NEW y, Among(y, list) PROVE Among(y, longer)
    BY <1>1, <2>2 DEF Among
  <2>3. Among(x, longer)
    <3>1. n + 1 \in 1..Len(longer)
      BY <1>1
    <3>. QED BY <1>1, <3>1 DEF Among
  <2>. QED BY <2>1, <2>2, <2>3
<1>. QED BY <1>1, <1>2, <1>3

\* Taking the head of a list without repetitions.
LEMMA TailProps ==
  ASSUME NEW S, NEW list \in Seq(S), list # <<>>, Distinct(list)
  PROVE  /\ Head(list) \in S
         /\ Among(Head(list), list)
         /\ Tail(list) \in Seq(S)
         /\ Distinct(Tail(list))
         /\ \A y : Among(y, Tail(list)) <=> Among(y, list) /\ y # Head(list)
<1> DEFINE n == Len(list)
           rest == Tail(list)
<1>1. /\ n \in Nat /\ n > 0 /\ Head(list) = list[1] /\ list[1] \in S
      /\ rest \in Seq(S) /\ Len(rest) = n - 1
      /\ \A i \in 1..(n - 1) : rest[i] = list[i + 1]
  OBVIOUS
<1>2. Distinct(rest)
  BY <1>1 DEF Distinct
<1>3. Among(Head(list), list)
  BY <1>1 DEF Among
<1>4. ASSUME NEW y, Among(y, rest) PROVE Among(y, list) /\ y # Head(list)
  BY <1>1, <1>4 DEF Among, Distinct
<1>5. ASSUME NEW y, Among(y, list), y # Head(list) PROVE Among(y, rest)
  <2>1. PICK i \in 1..n : list[i] = y
    BY <1>5 DEF Among
  <2>2. i - 1 \in 1..Len(rest) /\ rest[i - 1] = y
    BY <1>1, <1>5, <2>1
  <2>. QED BY <2>2 DEF Among
<1>. QED BY <1>1, <1>2, <1>3, <1>4, <1>5

-----------------------------------------------------------------------------
(* What handleWorkerExit does to the pool *)

\* The pool forked a replacement for w.
Replaced(w, up, failing) ==
  /\ ~shutdownInitiated
  /\ w \in workers
  /\ workers' = (workers \ {w}) \cup {idCounter}
  /\ idCounter' = idCounter + 1
  /\ \A v : Among(v, availableWorkers')
            <=> (Among(v, availableWorkers) /\ v # w) \/ v = idCounter
  /\ \/ live' = up \cup {idCounter} /\ errors' = failing
     \/ live' = up /\ errors' = failing \cup {idCounter}

\* The pool did not manage w, or is shutting down.
NotReplaced(w, up, failing) ==
  /\ shutdownInitiated \/ w \notin workers
  /\ workers' = workers \ {w}
  /\ idCounter' = idCounter
  /\ \A v : Among(v, availableWorkers')
            <=> Among(v, availableWorkers) /\ v # w
  /\ live' = up
  /\ errors' = failing

\* handleWorkerExit either replaces the child by a fresh one or only forgets
\* it; both keep the number of children.
LEMMA HandleWorkerExitEffect ==
  ASSUME IInv, NEW w \in Nat, NEW up \in SUBSET Nat,
         NEW failing \in SUBSET Nat, handleWorkerExit(w, up, failing)
  PROVE  /\ workers' \in SUBSET Nat
         /\ availableWorkers' \in Seq(Nat)
         /\ idCounter' \in Nat
         /\ live' \in SUBSET Nat
         /\ errors' \in SUBSET Nat
         /\ failures' \in Nat
         /\ Distinct(availableWorkers')
         /\ IsFiniteSet(workers')
         /\ ~shutdownInitiated => Cardinality(workers') = PoolSize
         /\ Replaced(w, up, failing) \/ NotReplaced(w, up, failing)
<1> DEFINE kept == workers \ {w}
           idle == Without(availableWorkers, w)
<1>1. /\ IsFiniteSet(workers) /\ workers \in SUBSET Nat
      /\ Cardinality(workers) \in Nat
      /\ availableWorkers \in Seq(Nat) /\ Distinct(availableWorkers)
      /\ idCounter \in Nat /\ failures \in Nat
      /\ ~shutdownInitiated => Cardinality(workers) = PoolSize
      /\ idCounter \notin workers /\ ~Among(idCounter, availableWorkers)
  BY FS_CardinalityType
     DEF IInv, TypeOK, ExclusiveWorker, Distinct, Staffing, PoolStaffed,
         ChildIds, Idle
<1>2. /\ IsFiniteSet(kept)
      /\ Cardinality(kept) =
           IF w \in workers THEN Cardinality(workers) - 1 ELSE Cardinality(workers)
  BY <1>1, FS_RemoveElement
<1>3. /\ idle \in Seq(Nat) /\ Distinct(idle)
      /\ \A v : Among(v, idle) <=> Among(v, availableWorkers) /\ v # w
  BY <1>1, WithoutProps
<1>4. CASE ReplacesWorker(w)
  <2>1. ~shutdownInitiated /\ w \in workers
    BY <1>1, <1>2, <1>4, PoolAssumption DEF ReplacesWorker
  <2>2. createWorker(kept, idle, up, failing)
    BY <1>4 DEF handleWorkerExit
  <2>3. /\ IsFiniteSet(kept \cup {idCounter})
        /\ Cardinality(kept \cup {idCounter}) = PoolSize
    <3>1. /\ IsFiniteSet(kept \cup {idCounter})
          /\ Cardinality(kept \cup {idCounter}) = Cardinality(kept) + 1
      BY <1>1, <1>2, FS_AddElement
    <3>. QED BY <1>1, <1>2, <2>1, <3>1, PoolAssumption
  <2>4. /\ Append(idle, idCounter) \in Seq(Nat)
        /\ Distinct(Append(idle, idCounter))
        /\ \A v : Among(v, Append(idle, idCounter))
                  <=> Among(v, idle) \/ v = idCounter
    BY <1>1, <1>3, AppendProps
  <2>5. Replaced(w, up, failing)
    BY <1>3, <2>1, <2>2, <2>4 DEF createWorker, Replaced
  <2>6. live' \in SUBSET Nat /\ errors' \in SUBSET Nat /\ failures' \in Nat
    <3>1. /\ live' = up \cup {idCounter} \/ live' = up
          /\ errors' = failing \/ errors' = failing \cup {idCounter}
          /\ failures' = failures \/ failures' = failures + 1
      BY <2>2 DEF createWorker
    <3>2. up \cup {idCounter} \in SUBSET Nat /\ failing \cup {idCounter} \in SUBSET Nat
      BY <1>1
    <3>3. failures' \in Nat
      BY <1>1, <3>1
    <3>4. live' \in SUBSET Nat
      <4>1. CASE live' = up
        BY <4>1
      <4>2. CASE live' = up \cup {idCounter}
        BY <3>2, <4>2
      <4>. QED BY <3>1, <4>1, <4>2
    <3>5. errors' \in SUBSET Nat
      <4>1. CASE errors' = failing
        BY <4>1
      <4>2. CASE errors' = failing \cup {idCounter}
        BY <3>2, <4>2
      <4>. QED BY <3>1, <4>1, <4>2
    <3>. QED BY <3>3, <3>4, <3>5
  <2>. QED BY <1>1, <2>2, <2>3, <2>4, <2>5, <2>6 DEF createWorker
<1>5. CASE ~ReplacesWorker(w)
  <2>1. shutdownInitiated \/ w \notin workers
    BY <1>1, <1>2, <1>5, PoolAssumption DEF ReplacesWorker
  <2>2. /\ workers' = kept /\ availableWorkers' = idle
        /\ live' = up /\ errors' = failing
        /\ idCounter' = idCounter /\ failures' = failures
    BY <1>5 DEF handleWorkerExit
  <2>3. NotReplaced(w, up, failing)
    BY <1>3, <2>1, <2>2 DEF NotReplaced
  <2>4. ~shutdownInitiated => Cardinality(workers') = PoolSize
    BY <1>1, <1>2, <2>1, <2>2
  <2>. QED BY <1>1, <1>2, <1>3, <2>2, <2>3, <2>4
<1>. QED BY <1>4, <1>5

-----------------------------------------------------------------------------
(* The invariant is inductive: one lemma for each action *)

LEMMA InitIInv == Init => IInv
<1> SUFFICES ASSUME Init PROVE IInv
  OBVIOUS
<1>1. PoolSize \in Nat /\ PoolSize > 0
  BY PoolAssumption
<1>2. /\ IsFiniteSet(1..PoolSize)
      /\ Cardinality(1..PoolSize) = PoolSize
  BY <1>1, FS_Interval
<1>3. /\ availableWorkers \in Seq(Nat)
      /\ Len(availableWorkers) = PoolSize
      /\ \A i \in 1..PoolSize : availableWorkers[i] = i
  <2>1. availableWorkers = [i \in 1..PoolSize |-> i]
    BY DEF Init
  <2>2. availableWorkers \in [1..PoolSize -> Nat]
    BY <1>1, <2>1
  <2>. QED BY <1>1, <2>1, <2>2
<1>4. \A v : Idle(v) <=> v \in 1..PoolSize
  BY <1>1, <1>3 DEF Idle, Among
<1>5. \A r : ~Queued(r)
  BY DEF Init, Queued, Among
<1>6. TypeOK
  <2>1. 1..PoolSize \in SUBSET Nat
    BY <1>1
  <2>2. workers \in SUBSET Nat /\ live \in SUBSET Nat
    BY <2>1 DEF Init
  <2>3. requestQueue \in Seq(Requests)
    BY DEF Init
  <2>4. runningOn \in [Requests -> Nat]
    BY DEF Init, NoWorker
  <2>5. idCounter \in Nat
    BY <1>1 DEF Init
  <2>6. /\ outcome \in [Requests -> Settled \cup {"none", "pending"}]
        /\ tasks \in SUBSET (Nat \X Requests)
        /\ replies \in SUBSET (Nat \X Requests \X Answers)
    BY DEF Init
  <2>. QED BY <1>3, <2>2, <2>3, <2>4, <2>5, <2>6 DEF Init, TypeOK
<1>7. ChildIds
  BY <1>1, <1>4 DEF Init, ChildIds, NoWorker
<1>8. QueueOnce
  BY <1>5 DEF Init, QueueOnce, Distinct, NoLostRequest, NoWorker
<1>9. ExclusiveWorker
  BY <1>1, <1>3 DEF Init, ExclusiveWorker, NoWorker
<1>10. Staffing
  BY <1>2, <1>4 DEF Init, Staffing, PoolStaffed
<1>11. Processes
  BY DEF Init, Processes, NoOrphanProcess
<1>12. NoLostWakeup
  BY DEF Init, NoLostWakeup
<1>13. Messages
  BY DEF Init, Messages, NoAbandonedWork
<1>. QED
  BY <1>6, <1>7, <1>8, <1>9, <1>10, <1>11, <1>12, <1>13 DEF IInv

\* A refused request touches its own promise only.
LEMMA RefuseStep ==
  ASSUME IInv, NEW r \in Requests, RefuseRequest(r)
  PROVE  IInv'
<1> USE DEF RefuseRequest, poolVars, childVars
<1>1. TypeOK'
  BY DEF IInv, TypeOK, Settled
<1>2. ChildIds'
  BY DEF IInv, ChildIds, Idle
<1>3. QueueOnce'
  BY DEF IInv, TypeOK, QueueOnce, NoLostRequest, Queued
<1>4. ExclusiveWorker'
  BY DEF IInv, ExclusiveWorker, Idle
<1>5. Staffing'
  BY DEF IInv, Staffing, PoolStaffed, Idle, On
<1>6. Processes'
  BY DEF IInv, Processes, NoOrphanProcess
<1>7. NoLostWakeup'
  BY DEF IInv, NoLostWakeup
<1>8. Messages'
  BY DEF IInv, TypeOK, Messages, NoAbandonedWork, Queued
<1>. QED
  BY <1>1, <1>2, <1>3, <1>4, <1>5, <1>6, <1>7, <1>8 DEF IInv

\* An accepted request is fresh, so it enters the queue once.
LEMMA AcceptStep ==
  ASSUME IInv, NEW r \in Requests, AcceptRequest(r)
  PROVE  IInv'
<1> USE DEF AcceptRequest, childVars
<1>1. ~Queued(r) /\ runningOn[r] = NoWorker
  BY DEF IInv, QueueOnce, NoLostRequest
<1>2. /\ requestQueue' \in Seq(Requests)
      /\ Distinct(requestQueue')
      /\ \A q : Queued(q)' <=> Queued(q) \/ q = r
  BY <1>1, AppendProps DEF IInv, TypeOK, QueueOnce, Queued
<1>3. TypeOK'
  BY <1>2 DEF IInv, TypeOK
<1>4. ChildIds'
  BY DEF IInv, ChildIds, Idle
<1>5. QueueOnce'
  BY <1>1, <1>2 DEF IInv, TypeOK, QueueOnce, NoLostRequest
<1>6. ExclusiveWorker'
  BY DEF IInv, ExclusiveWorker, Idle
<1>7. Staffing'
  BY DEF IInv, Staffing, PoolStaffed, Idle, On
<1>8. Processes'
  BY DEF IInv, Processes, NoOrphanProcess
<1>9. NoLostWakeup'
  BY DEF NoLostWakeup
<1>10. Messages'
  BY <1>2 DEF IInv, TypeOK, Messages, NoAbandonedWork
<1>. QED
  BY <1>3, <1>4, <1>5, <1>6, <1>7, <1>8, <1>9, <1>10 DEF IInv

\* A dispatched request leaves the queue and occupies an idle child.
LEMMA DispatchStep ==
  ASSUME IInv, Dispatch
  PROVE  IInv'
<1> PICK r, w : r = Head(requestQueue) /\ w = Head(availableWorkers)
  OBVIOUS
<1>1. /\ r \in Requests /\ Queued(r)
      /\ requestQueue' \in Seq(Requests)
      /\ Distinct(requestQueue')
      /\ \A q : Queued(q)' <=> Queued(q) /\ q # r
  BY TailProps DEF Dispatch, IInv, TypeOK, QueueOnce, Queued
<1>2. /\ w \in Nat /\ Idle(w)
      /\ availableWorkers' \in Seq(Nat)
      /\ Distinct(availableWorkers')
      /\ \A v : Idle(v)' <=> Idle(v) /\ v # w
  BY TailProps
     DEF Dispatch, shiftWorker, IInv, TypeOK, ExclusiveWorker, Distinct, Idle
<1>3. /\ 0 < w /\ w < idCounter
      /\ outcome[r] = "pending" /\ runningOn[r] = NoWorker
      /\ \A q \in Requests : runningOn[q] # w
  BY <1>1, <1>2
     DEF IInv, ChildIds, QueueOnce, NoLostRequest, ExclusiveWorker, NoWorker
<1>4. /\ runningOn' = [runningOn EXCEPT ![r] = w]
      /\ listening' = listening \cup {r}
      /\ \/ tasks' = tasks \cup {<<w, r>>} /\ errors' = errors
         \/ tasks' = tasks /\ w \notin live /\ errors' \in {errors, errors \cup {w}}
      /\ UNCHANGED <<workers, idCounter, shutdownInitiated, processing, outcome,
                     live, exits, replies, failures>>
      /\ processing
  BY DEF Dispatch
<1>5. TypeOK'
  <2>1. errors' \in SUBSET Nat
    BY <1>2, <1>4 DEF IInv, TypeOK
  <2>2. tasks' \in SUBSET (Nat \X Requests)
    BY <1>1, <1>2, <1>4 DEF IInv, TypeOK
  <2>. QED BY <1>1, <1>2, <1>4, <2>1, <2>2 DEF IInv, TypeOK
<1>6. ChildIds'
  BY <1>1, <1>2, <1>3, <1>4 DEF IInv, TypeOK, ChildIds
<1>7. QueueOnce'
  BY <1>1, <1>3, <1>4 DEF IInv, TypeOK, QueueOnce, NoLostRequest, NoWorker
<1>8. ExclusiveWorker'
  BY <1>1, <1>2, <1>3, <1>4
     DEF IInv, TypeOK, ExclusiveWorker, Distinct, NoWorker
<1>9. Staffing'
  <2>1. \A v \in workers : v # w => (On(v)' = {} => On(v) = {})
    BY <1>1, <1>3, <1>4 DEF IInv, TypeOK, On, NoWorker, ChildIds
  <2>2. r \in On(w)'
    BY <1>1, <1>4 DEF IInv, TypeOK, On
  <2>. QED BY <1>2, <1>4, <2>1, <2>2 DEF IInv, Staffing, PoolStaffed
<1>10. Processes'
  BY <1>4 DEF IInv, Processes, NoOrphanProcess
<1>11. NoLostWakeup'
  BY <1>4 DEF NoLostWakeup
<1>12. Messages'
  <2>2. \A t \in tasks : t[2] # r
    BY <1>1 DEF IInv, Messages
  <2>3. \A m \in replies : m[2] # r
    BY <1>1 DEF IInv, Messages
  <2>4. NoAbandonedWork'
    BY <1>1, <1>3, <1>4, <2>2 DEF IInv, TypeOK, Messages, NoAbandonedWork
  <2>5. \A t \in tasks' : outcome'[t[2]] # "none" /\ ~Queued(t[2])'
    BY <1>1, <1>3, <1>4 DEF IInv, Messages
  <2>6. \A m \in replies' : outcome'[m[2]] # "none" /\ ~Queued(m[2])'
    BY <1>1, <1>4 DEF IInv, Messages
  <2>7. \A m \in replies' : <<m[1], m[2]>> \notin tasks'
    BY <1>4, <2>3 DEF IInv, Messages
  <2>. QED BY <2>4, <2>5, <2>6, <2>7 DEF Messages
<1>. QED
  BY <1>5, <1>6, <1>7, <1>8, <1>9, <1>10, <1>11, <1>12 DEF IInv

\* When the loop ends with requests left no child is idle, so each of the
\* children of the pool, and there is one, runs a request.
LEMMA QueueProcessedStep ==
  ASSUME IInv, QueueProcessed
  PROVE  IInv'
<1> USE DEF QueueProcessed, childVars
<1>1. TypeOK'
  BY DEF IInv, TypeOK
<1>2. ChildIds'
  BY DEF IInv, ChildIds, Idle
<1>3. QueueOnce'
  BY DEF IInv, QueueOnce, NoLostRequest, Queued
<1>4. ExclusiveWorker'
  BY DEF IInv, ExclusiveWorker, Idle
<1>5. Staffing'
  BY DEF IInv, Staffing, PoolStaffed, Idle, On
<1>6. Processes'
  BY DEF IInv, Processes, NoOrphanProcess
<1>7. NoLostWakeup'
  <2> SUFFICES ASSUME ~shutdownInitiated, requestQueue # <<>>
               PROVE  \E r \in Requests : runningOn[r] # NoWorker
    BY DEF NoLostWakeup
  <2>1. \A v : ~Idle(v)
    BY DEF Idle, Among
  <2>2. PICK v : v \in workers
    BY PoolAssumption, FS_EmptySet DEF IInv, Staffing, PoolStaffed
  <2>3. On(v) # {} /\ v # NoWorker
    BY <2>1, <2>2 DEF IInv, Staffing, PoolStaffed, ChildIds, NoWorker
  <2>. QED BY <2>3 DEF On
<1>8. Messages'
  BY DEF IInv, Messages, NoAbandonedWork, Queued
<1>. QED
  BY <1>1, <1>2, <1>3, <1>4, <1>5, <1>6, <1>7, <1>8 DEF IInv

\* The child that answered served no other request, so it becomes idle.
LEMMA HandleMessageStep ==
  ASSUME IInv, NEW m \in replies, HandleMessage(m)
  PROVE  IInv'
<1> PICK w, r, o : m = <<w, r, o>> /\ w \in Nat /\ r \in Requests /\ o \in Answers
  BY DEF IInv, TypeOK
<1>1. /\ runningOn[r] = w
      /\ runningOn' = [runningOn EXCEPT ![r] = NoWorker]
      /\ outcome' = [outcome EXCEPT ![r] = o]
      /\ processing'
      /\ listening' = listening \ {r}
      /\ availableWorkers' = Append(availableWorkers, w)
      /\ replies' = replies \ {m}
      /\ UNCHANGED <<workers, requestQueue, idCounter, shutdownInitiated,
                     live, exits, errors, tasks, failures>>
  BY DEF HandleMessage, completeRequest
<1>2. w > 0
  BY DEF IInv, ChildIds
<1>3. ~Idle(w) /\ ~Queued(r) /\ outcome[r] = "pending" /\ w < idCounter /\ 0 < w
      /\ \A q \in Requests \ {r} : runningOn[q] # w
  BY <1>1, <1>2
     DEF IInv, TypeOK, ExclusiveWorker, QueueOnce, NoLostRequest, ChildIds, NoWorker
<1>4. /\ availableWorkers' \in Seq(Nat)
      /\ Distinct(availableWorkers')
      /\ \A v : Idle(v)' <=> Idle(v) \/ v = w
  <2>1. Distinct(availableWorkers) /\ availableWorkers \in Seq(Nat)
    BY DEF IInv, TypeOK, ExclusiveWorker, Distinct
  <2>. QED BY <1>1, <1>3, <2>1, AppendProps DEF Idle
<1>5. TypeOK'
  BY <1>1, <1>4 DEF IInv, TypeOK, Settled, NoWorker
<1>6. ChildIds'
  BY <1>1, <1>3, <1>4 DEF IInv, TypeOK, ChildIds, NoWorker
<1>7. QueueOnce'
  BY <1>1, <1>3 DEF IInv, TypeOK, QueueOnce, NoLostRequest, Queued, NoWorker, Answers
<1>8. ExclusiveWorker'
  BY <1>1, <1>3, <1>4 DEF IInv, TypeOK, ExclusiveWorker, Distinct, NoWorker
<1>9. Staffing'
  <2>1. \A v \in workers : v # w => (On(v)' = {} => On(v) = {})
    BY <1>1 DEF IInv, TypeOK, On
  <2>. QED BY <1>1, <1>4, <2>1 DEF IInv, Staffing, PoolStaffed
<1>10. Processes'
  BY <1>1 DEF IInv, Processes, NoOrphanProcess
<1>11. NoLostWakeup'
  BY <1>1 DEF NoLostWakeup
<1>12. Messages'
  <2>1. NoAbandonedWork'
    <3> SUFFICES ASSUME NEW t \in tasks, t[1] \in live
                 PROVE  runningOn'[t[2]] = t[1] /\ outcome'[t[2]] = "pending"
      BY <1>1 DEF NoAbandonedWork
    <3>1. t = <<t[1], t[2]>> /\ t[2] \in Requests
      BY DEF IInv, TypeOK
    <3>2. runningOn[t[2]] = t[1] /\ outcome[t[2]] = "pending"
      BY DEF IInv, Messages, NoAbandonedWork
    <3>3. t[2] # r
      BY <1>1, <3>1, <3>2 DEF IInv, Messages
    <3>. QED BY <1>1, <3>1, <3>2, <3>3 DEF IInv, TypeOK
  <2>. QED BY <1>1, <2>1 DEF IInv, TypeOK, Messages, Queued, Answers
<1>. QED
  BY <1>5, <1>6, <1>7, <1>8, <1>9, <1>10, <1>11, <1>12 DEF IInv

LEMMA DropMessageStep ==
  ASSUME IInv, NEW m \in replies, DropMessage(m)
  PROVE  IInv'
<1> USE DEF DropMessage, poolVars
<1>1. TypeOK'
  BY DEF IInv, TypeOK
<1>2. ChildIds' /\ ExclusiveWorker' /\ Processes' /\ NoLostWakeup'
  BY DEF IInv, ChildIds, ExclusiveWorker, Processes, NoOrphanProcess,
         NoLostWakeup, Idle
<1>3. QueueOnce' /\ Staffing'
  BY DEF IInv, QueueOnce, NoLostRequest, Staffing, PoolStaffed, Queued, Idle, On
<1>4. Messages'
  BY DEF IInv, Messages, NoAbandonedWork, Queued
<1>. QED BY <1>1, <1>2, <1>3, <1>4 DEF IInv

\* A child answers the request it was sent, and forgets it.
LEMMA ChildAnswersStep ==
  ASSUME IInv, NEW t \in tasks, NEW o \in Answers, ChildAnswers(t, o)
  PROVE  IInv'
<1> USE DEF ChildAnswers, poolVars
<1>1. TypeOK'
  BY DEF IInv, TypeOK
<1>2. ChildIds' /\ ExclusiveWorker' /\ Processes' /\ NoLostWakeup'
  BY DEF IInv, ChildIds, ExclusiveWorker, Processes, NoOrphanProcess,
         NoLostWakeup, Idle
<1>3. QueueOnce' /\ Staffing'
  BY DEF IInv, QueueOnce, NoLostRequest, Staffing, PoolStaffed, Queued, Idle, On
<1>4. Messages'
  <2>1. t = <<t[1], t[2]>>
    BY DEF IInv, TypeOK
  <2>. QED BY <2>1 DEF IInv, TypeOK, Messages, NoAbandonedWork, Queued
<1>. QED BY <1>1, <1>2, <1>3, <1>4 DEF IInv

LEMMA ChildDiesStep ==
  ASSUME IInv, NEW w \in live, ChildDies(w)
  PROVE  IInv'
<1> USE DEF ChildDies, poolVars
<1>1. w \in workers /\ w \in Nat /\ 0 < w /\ w < idCounter
  BY DEF IInv, TypeOK, Processes, NoOrphanProcess, ChildIds
<1>2. TypeOK'
  BY <1>1 DEF IInv, TypeOK
<1>3. ChildIds'
  BY <1>1 DEF IInv, ChildIds, Idle
<1>4. ExclusiveWorker' /\ Processes' /\ NoLostWakeup'
  BY DEF IInv, ExclusiveWorker, Processes, NoOrphanProcess, NoLostWakeup, Idle
<1>5. QueueOnce' /\ Staffing'
  BY DEF IInv, QueueOnce, NoLostRequest, Staffing, PoolStaffed, Queued, Idle, On
<1>6. Messages'
  BY DEF IInv, Messages, NoAbandonedWork, Queued
<1>. QED BY <1>2, <1>3, <1>4, <1>5, <1>6 DEF IInv

\* handleWorkerExit of a child that does not run any more, with every request
\* left as it is: what 'exit' and 'error' of an idle child do.
LEMMA ForgetStep ==
  ASSUME IInv, NEW w \in Nat, w \notin live, NEW failing \in SUBSET errors,
         handleWorkerExit(w, live, failing), exits' \in SUBSET exits,
         UNCHANGED <<requestQueue, shutdownInitiated, processing, runningOn,
                     listening, outcome, tasks, replies>>
  PROVE  IInv'
<1>1. failing \in SUBSET Nat /\ live \in SUBSET Nat
  BY DEF IInv, TypeOK
<1>2. /\ workers' \in SUBSET Nat
      /\ availableWorkers' \in Seq(Nat)
      /\ idCounter' \in Nat
      /\ live' \in SUBSET Nat
      /\ errors' \in SUBSET Nat
      /\ failures' \in Nat
      /\ Distinct(availableWorkers')
      /\ IsFiniteSet(workers')
      /\ ~shutdownInitiated => Cardinality(workers') = PoolSize
      /\ Replaced(w, live, failing) \/ NotReplaced(w, live, failing)
  BY <1>1, HandleWorkerExitEffect
<1>3. TypeOK'
  BY <1>2 DEF IInv, TypeOK
<1>4. /\ idCounter \notin exits \cup errors
      /\ \A t \in tasks : t[1] # idCounter
      /\ \A v \in live' : v \in live \/ v = idCounter
  BY <1>2 DEF IInv, TypeOK, ChildIds, Replaced, NotReplaced
<1>5. ChildIds'
  BY <1>2 DEF IInv, TypeOK, ChildIds, Idle, Replaced, NotReplaced
<1>6. QueueOnce'
  BY DEF IInv, QueueOnce, NoLostRequest, Queued
<1>7. ExclusiveWorker'
  BY <1>2 DEF IInv, TypeOK, ExclusiveWorker, Distinct, ChildIds, Idle,
              Replaced, NotReplaced
<1>8. Staffing'
  BY <1>2 DEF IInv, Staffing, PoolStaffed, Idle, On, Replaced, NotReplaced
<1>9. Processes'
  <2>1. CASE Replaced(w, live, failing)
    <3>1. live' \cap (exits' \cup errors') = {}
      <4>1. CASE live' = live \cup {idCounter} /\ errors' = failing
        BY <4>1, <1>4 DEF IInv, Processes
      <4>2. CASE live' = live /\ errors' = failing \cup {idCounter}
        <5>1. idCounter \notin live
          BY DEF IInv, TypeOK, Processes, NoOrphanProcess, ChildIds
        <5>. QED BY <4>2, <5>1 DEF IInv, Processes
      <4>. QED BY <2>1, <4>1, <4>2 DEF Replaced
    <3>2. live' \subseteq workers'
      BY <2>1, <1>4 DEF IInv, Processes, NoOrphanProcess, Replaced
    <3>. QED BY <2>1, <3>1, <3>2 DEF Processes, NoOrphanProcess, Replaced
  <2>2. CASE NotReplaced(w, live, failing)
    BY <2>2 DEF IInv, Processes, NoOrphanProcess, NotReplaced
  <2>. QED BY <1>2, <2>1, <2>2
<1>10. NoLostWakeup'
  BY DEF IInv, NoLostWakeup
<1>11. Messages'
  BY <1>4 DEF IInv, Messages, NoAbandonedWork, Queued
<1>. QED
  BY <1>3, <1>5, <1>6, <1>7, <1>8, <1>9, <1>10, <1>11 DEF IInv

LEMMA ExitStep ==
  ASSUME IInv, NEW w \in exits, Exit(w)
  PROVE  IInv'
<1>1. w \in Nat /\ w \notin live /\ errors \in SUBSET errors
  BY DEF IInv, TypeOK, Processes
<1>. QED BY <1>1, ForgetStep DEF Exit

LEMMA ErrorIdleStep ==
  ASSUME IInv, NEW w \in errors, ErrorIdle(w)
  PROVE  IInv'
<1>1. w \in Nat /\ w \notin live /\ errors \ {w} \in SUBSET errors
  BY DEF IInv, TypeOK, Processes
<1>. QED BY <1>1, ForgetStep DEF ErrorIdle

\* A request is given up and its child terminated: the timer and errorHandler.
LEMMA GiveUpStep ==
  ASSUME IInv, NEW r \in Requests, NEW w \in Nat, w # NoWorker, runningOn[r] = w,
         NEW o \in {"PROCESSING_TIMEOUT", "UNKNOWN_ERROR"},
         NEW failing \in SUBSET errors,
         completeRequest(r, o), terminateWorker(w, failing),
         UNCHANGED <<requestQueue, shutdownInitiated, replies>>
  PROVE  IInv'
<1> DEFINE up == live \ {w}
<1>1. failing \in SUBSET Nat /\ up \in SUBSET Nat
  BY DEF IInv, TypeOK
<1>2. /\ workers' \in SUBSET Nat
      /\ availableWorkers' \in Seq(Nat)
      /\ idCounter' \in Nat
      /\ live' \in SUBSET Nat
      /\ errors' \in SUBSET Nat
      /\ failures' \in Nat
      /\ Distinct(availableWorkers')
      /\ IsFiniteSet(workers')
      /\ ~shutdownInitiated => Cardinality(workers') = PoolSize
      /\ Replaced(w, up, failing) \/ NotReplaced(w, up, failing)
  BY <1>1, HandleWorkerExitEffect DEF terminateWorker
<1>3. /\ runningOn' = [runningOn EXCEPT ![r] = NoWorker]
      /\ outcome' = [outcome EXCEPT ![r] = o]
      /\ processing'
      /\ listening' = listening \ On(w)
      /\ exits' = exits \cup ({w} \cap live)
      /\ tasks' = {t \in tasks : t[1] # w}
  BY DEF completeRequest, terminateWorker
<1>4. /\ ~Queued(r) /\ outcome[r] = "pending" /\ w < idCounter /\ ~Idle(w)
      /\ \A q \in Requests \ {r} : runningOn[q] # w
      /\ idCounter \notin exits \cup errors \cup live
      /\ \A t \in tasks : t[1] # idCounter
  BY DEF IInv, TypeOK, QueueOnce, NoLostRequest, ExclusiveWorker, ChildIds,
         Processes, NoOrphanProcess
<1>5. TypeOK'
  BY <1>2, <1>3 DEF IInv, TypeOK, Settled, NoWorker
<1>6. ChildIds'
  BY <1>2, <1>3, <1>4
     DEF IInv, TypeOK, ChildIds, Idle, Replaced, NotReplaced, NoWorker
<1>7. QueueOnce'
  BY <1>3, <1>4 DEF IInv, TypeOK, QueueOnce, NoLostRequest, Queued, NoWorker
<1>8. ExclusiveWorker'
  BY <1>2, <1>3, <1>4
     DEF IInv, TypeOK, ExclusiveWorker, Distinct, ChildIds, Idle, NoWorker,
         Replaced, NotReplaced
<1>9. Staffing'
  <2>1. \A v \in workers : v # w => (On(v)' = {} => On(v) = {})
    BY <1>3 DEF IInv, TypeOK, On
  <2>. QED
    BY <1>2, <2>1 DEF IInv, Staffing, PoolStaffed, Idle, Replaced, NotReplaced
<1>10. Processes'
  <2>1. up \cap (exits' \cup failing) = {} /\ up \subseteq workers \ {w}
    BY <1>3 DEF IInv, Processes, NoOrphanProcess
  <2>2. CASE Replaced(w, up, failing)
    <3>1. live' \cap (exits' \cup errors') = {}
      <4>1. w # idCounter /\ idCounter \notin exits'
        BY <1>3, <1>4
      <4>2. CASE live' = up \cup {idCounter} /\ errors' = failing
        BY <4>1, <4>2, <2>1, <1>4
      <4>3. CASE live' = up /\ errors' = failing \cup {idCounter}
        BY <4>1, <4>3, <2>1, <1>4
      <4>. QED BY <2>2, <4>2, <4>3 DEF Replaced
    <3>2. live' \subseteq workers'
      BY <2>1, <2>2 DEF Replaced
    <3>. QED BY <2>2, <3>1, <3>2 DEF Processes, NoOrphanProcess, Replaced
  <2>3. CASE NotReplaced(w, up, failing)
    BY <2>1, <2>3 DEF IInv, Processes, NoOrphanProcess, NotReplaced
  <2>. QED BY <1>2, <2>2, <2>3
<1>11. NoLostWakeup'
  BY <1>3 DEF NoLostWakeup
<1>12. Messages'
  <2>1. \A t \in tasks' : t[1] \in live' => t[1] \in live /\ t[1] # w
    <3>1. \A v \in live' : v \in live \/ v = idCounter
      BY <1>2 DEF Replaced, NotReplaced
    <3>. QED BY <1>3, <1>4, <3>1
  <2>2. NoAbandonedWork'
    <3> SUFFICES ASSUME NEW t \in tasks, t[1] \in live, t[1] # w
                 PROVE  runningOn'[t[2]] = t[1] /\ outcome'[t[2]] = "pending"
      BY <1>3, <2>1 DEF NoAbandonedWork
    <3>1. runningOn[t[2]] = t[1] /\ outcome[t[2]] = "pending" /\ t[2] \in Requests
      BY DEF IInv, TypeOK, Messages, NoAbandonedWork
    <3>. QED BY <1>3, <3>1 DEF IInv, TypeOK
  <2>. QED BY <1>3, <2>2 DEF IInv, TypeOK, Messages, Queued
<1>. QED
  BY <1>5, <1>6, <1>7, <1>8, <1>9, <1>10, <1>11, <1>12 DEF IInv

LEMMA TimeoutStep ==
  ASSUME IInv, NEW r \in Requests, Timeout(r)
  PROVE  IInv'
<1>1. runningOn[r] \in Nat /\ errors \in SUBSET errors
  BY DEF IInv, TypeOK
<1>. QED BY <1>1, GiveUpStep DEF Timeout, TimerArmed

LEMMA ErrorBusyStep ==
  ASSUME IInv, NEW w \in errors, NEW r \in Requests, ErrorBusy(w, r)
  PROVE  IInv'
<1>1. w \in Nat /\ w # NoWorker /\ errors \ {w} \in SUBSET errors
  BY DEF IInv, TypeOK, ChildIds, NoWorker
<1>. QED BY <1>1, GiveUpStep DEF ErrorBusy

\* The request that cannot be sent was waiting and the child was idle, so the
\* one is settled for the first time and the other's place taken by a new child.
LEMMA DispatchFailsStep ==
  ASSUME IInv, DispatchFails
  PROVE  IInv'
<1> PICK r, w : r = Head(requestQueue) /\ w = Head(availableWorkers)
  OBVIOUS
<1> DEFINE up == live \ {w}
<1>1. /\ r \in Requests /\ Queued(r)
      /\ requestQueue' \in Seq(Requests)
      /\ Distinct(requestQueue')
      /\ \A q : Queued(q)' <=> Queued(q) /\ q # r
  BY TailProps DEF DispatchFails, IInv, TypeOK, QueueOnce, Queued
<1>2. w \in Nat /\ Idle(w)
  <2>1. Distinct(availableWorkers) /\ availableWorkers \in Seq(Nat)
    BY DEF IInv, TypeOK, ExclusiveWorker, Distinct
  <2>. QED BY <2>1, TailProps DEF DispatchFails, Idle
<1>3. /\ w < idCounter /\ 0 < w
      /\ outcome[r] = "pending" /\ runningOn[r] = NoWorker
      /\ \A q \in Requests : runningOn[q] # w
      /\ idCounter \notin exits \cup errors \cup live
      /\ \A t \in tasks : t[1] # idCounter /\ t[2] # r
  BY <1>1, <1>2
     DEF IInv, TypeOK, ChildIds, QueueOnce, NoLostRequest, ExclusiveWorker,
         Processes, NoOrphanProcess, Messages, NoWorker
<1>4. completeRequest(r, "UNKNOWN_ERROR") /\ terminateWorker(w, errors)
      /\ UNCHANGED <<shutdownInitiated, replies>>
  BY DEF DispatchFails
<1>5. up \in SUBSET Nat /\ errors \in SUBSET Nat
  BY DEF IInv, TypeOK
<1>6. /\ workers' \in SUBSET Nat
      /\ availableWorkers' \in Seq(Nat)
      /\ idCounter' \in Nat
      /\ live' \in SUBSET Nat
      /\ errors' \in SUBSET Nat
      /\ failures' \in Nat
      /\ Distinct(availableWorkers')
      /\ IsFiniteSet(workers')
      /\ ~shutdownInitiated => Cardinality(workers') = PoolSize
      /\ Replaced(w, up, errors) \/ NotReplaced(w, up, errors)
  BY <1>2, <1>4, <1>5, HandleWorkerExitEffect DEF terminateWorker
<1>7. /\ runningOn' = runningOn
      /\ outcome' = [outcome EXCEPT ![r] = "UNKNOWN_ERROR"]
      /\ processing'
      /\ listening' = listening \ On(w)
      /\ exits' = exits \cup ({w} \cap live)
      /\ tasks' = {t \in tasks : t[1] # w}
  BY <1>1, <1>3, <1>4 DEF completeRequest, terminateWorker, IInv, TypeOK
<1>8. TypeOK'
  BY <1>1, <1>4, <1>6, <1>7 DEF IInv, TypeOK, Settled
<1>9. ChildIds'
  BY <1>2, <1>3, <1>4, <1>6, <1>7
     DEF IInv, TypeOK, ChildIds, Idle, Replaced, NotReplaced
<1>10. QueueOnce'
  BY <1>1, <1>3, <1>7 DEF IInv, TypeOK, QueueOnce, NoLostRequest
<1>11. ExclusiveWorker'
  BY <1>3, <1>6, <1>7
     DEF IInv, TypeOK, ExclusiveWorker, Distinct, ChildIds, Idle,
         Replaced, NotReplaced
<1>12. Staffing'
  BY <1>4, <1>6, <1>7
     DEF IInv, Staffing, PoolStaffed, Idle, On, Replaced, NotReplaced
<1>13. Processes'
  <2>1. up \cap (exits' \cup errors) = {} /\ up \subseteq workers \ {w}
    BY <1>7 DEF IInv, Processes, NoOrphanProcess
  <2>2. CASE Replaced(w, up, errors)
    <3>1. live' \cap (exits' \cup errors') = {}
      <4>1. w # idCounter /\ idCounter \notin exits'
        BY <1>2, <1>3, <1>7
      <4>2. CASE live' = up \cup {idCounter} /\ errors' = errors
        BY <4>1, <4>2, <2>1, <1>3
      <4>3. CASE live' = up /\ errors' = errors \cup {idCounter}
        BY <4>1, <4>3, <2>1, <1>3
      <4>. QED BY <2>2, <4>2, <4>3 DEF Replaced
    <3>2. live' \subseteq workers'
      BY <2>1, <2>2 DEF Replaced
    <3>. QED BY <1>4, <2>2, <3>1, <3>2 DEF Processes, NoOrphanProcess, Replaced
  <2>3. CASE NotReplaced(w, up, errors)
    BY <1>4, <2>1, <2>3 DEF IInv, Processes, NoOrphanProcess, NotReplaced
  <2>. QED BY <1>6, <2>2, <2>3
<1>14. NoLostWakeup'
  BY <1>7 DEF NoLostWakeup
<1>15. Messages'
  <2>1. \A t \in tasks' : t[1] \in live' => t[1] \in live /\ t[1] # w
    <3>1. \A v \in live' : v \in live \/ v = idCounter
      BY <1>6 DEF Replaced, NotReplaced
    <3>. QED BY <1>3, <1>7, <3>1
  <2>2. NoAbandonedWork'
    BY <1>3, <1>7, <2>1 DEF IInv, TypeOK, Messages, NoAbandonedWork
  <2>3. \A t \in tasks' : outcome'[t[2]] # "none" /\ ~Queued(t[2])'
    BY <1>1, <1>3, <1>7 DEF IInv, TypeOK, Messages
  <2>4. \A m \in replies' : outcome'[m[2]] # "none" /\ ~Queued(m[2])'
    BY <1>1, <1>3, <1>4, <1>7 DEF IInv, TypeOK, Messages
  <2>5. \A m \in replies' : <<m[1], m[2]>> \notin tasks'
    BY <1>4, <1>7 DEF IInv, Messages
  <2>. QED BY <2>2, <2>3, <2>4, <2>5 DEF Messages
<1>. QED
  BY <1>8, <1>9, <1>10, <1>11, <1>12, <1>13, <1>14, <1>15 DEF IInv

\* Shutdown settles what waits, leaves what runs to its timer and kills every
\* process, for all of them belong to the pool.
LEMMA ShutdownStep ==
  ASSUME IInv, Shutdown
  PROVE  IInv'
<1> USE DEF Shutdown
<1>1. /\ requestQueue' = <<>> /\ availableWorkers' = <<>>
      /\ workers' = {} /\ shutdownInitiated' = TRUE
      /\ \A q : ~Queued(q)'
      /\ \A v : ~Idle(v)'
  BY DEF Queued, Idle, Among
<1>2. /\ outcome' \in [Requests -> Settled \cup {"none", "pending"}]
      /\ \A r \in Requests :
           outcome'[r] = IF Queued(r) THEN "SHUTDOWN" ELSE outcome[r]
  BY DEF RejectQueued, IInv, TypeOK, Settled
<1>3. live' = {} /\ exits' \subseteq exits \cup live
  BY DEF IInv, Processes, NoOrphanProcess
<1>4. TypeOK'
  BY <1>1, <1>2, <1>3 DEF IInv, TypeOK
<1>5. ChildIds'
  BY <1>1, <1>3 DEF IInv, TypeOK, ChildIds, Processes, NoOrphanProcess
<1>6. QueueOnce'
  BY <1>1, <1>2 DEF IInv, QueueOnce, NoLostRequest, Distinct
<1>7. ExclusiveWorker'
  BY <1>1 DEF IInv, ExclusiveWorker
<1>8. Staffing'
  BY <1>1, FS_EmptySet DEF Staffing, PoolStaffed
<1>9. Processes'
  BY <1>1, <1>3 DEF Processes, NoOrphanProcess
<1>10. NoLostWakeup'
  BY <1>1 DEF NoLostWakeup
<1>11. Messages'
  BY <1>1, <1>2, <1>3 DEF IInv, TypeOK, Messages, NoAbandonedWork
<1>. QED
  BY <1>4, <1>5, <1>6, <1>7, <1>8, <1>9, <1>10, <1>11 DEF IInv

LEMMA NextIInv == IInv /\ [Next]_vars => IInv'
<1> SUFFICES ASSUME IInv, [Next]_vars PROVE IInv'
  OBVIOUS
<1>1. CASE UNCHANGED vars
  BY <1>1
     DEF vars, poolVars, childVars, IInv, TypeOK, ChildIds, QueueOnce, Distinct,
         NoLostRequest, ExclusiveWorker, Staffing, PoolStaffed, Processes,
         NoOrphanProcess, NoLostWakeup, Messages, NoAbandonedWork, Queued, Idle, On
<1>2. CASE Next
  BY <1>2, RefuseStep, AcceptStep, TimeoutStep, DispatchStep, DispatchFailsStep,
     QueueProcessedStep, HandleMessageStep, DropMessageStep, ErrorIdleStep,
     ErrorBusyStep, ExitStep, ShutdownStep, ChildAnswersStep, ChildDiesStep
     DEF Next, ProcessQueue
<1>. QED BY <1>1, <1>2

LEMMA AlwaysIInv == SafeSpec => []IInv
  BY InitIInv, NextIInv, PTL DEF SafeSpec

-----------------------------------------------------------------------------
(* Theorems *)

\* The state keeps its types (lines 28-35 and what the handlers assign).
THEOREM TypeCorrect == SafeSpec => []TypeOK
<1>1. IInv => TypeOK
  BY DEF IInv
<1>. QED BY <1>1, AlwaysIInv, PTL

\* Requests that wait always have a running request whose completion or timer
\* calls processQueue (lines 152-194): the queue cannot be forgotten.
THEOREM WakeupSafe == SafeSpec => []NoLostWakeup
<1>1. IInv => NoLostWakeup
  BY DEF IInv
<1>. QED BY <1>1, AlwaysIInv, PTL

\* An unsettled request waits in the queue or holds a timer (lines 142-178).
THEOREM RequestsKept == SafeSpec => []NoLostRequest
<1>1. IInv => NoLostRequest
  BY DEF IInv, QueueOnce
<1>. QED BY <1>1, AlwaysIInv, PTL

\* A child serves one request at a time and is offered only when free
\* (lines 152-161, 199-202).
THEOREM WorkersExclusive == SafeSpec => []ExclusiveWorker
<1>1. IInv => ExclusiveWorker
  BY DEF IInv
<1>. QED BY <1>1, AlwaysIInv, PTL

\* Timeouts, crashes and failed forks never shrink the pool (lines 101-114).
THEOREM PoolKeepsItsSize == SafeSpec => []PoolStaffed
<1>1. IInv => PoolStaffed
  BY DEF IInv, Staffing
<1>. QED BY <1>1, AlwaysIInv, PTL

\* Every running process is managed, and none outlives shutdown (lines 67-70,
\* 101-114, 256-268).
THEOREM NoOrphans == SafeSpec => []NoOrphanProcess
<1>1. IInv => NoOrphanProcess
  BY DEF IInv, Processes
<1>. QED BY <1>1, AlwaysIInv, PTL

\* A computation whose request was settled has been killed (lines 181-194).
THEOREM WorkNotAbandoned == SafeSpec => []NoAbandonedWork
<1>1. IInv => NoAbandonedWork
  BY DEF IInv, Messages
<1>. QED BY <1>1, AlwaysIInv, PTL

\* Whatever settles a request finds it unsettled, so a promise keeps its first
\* and only result though timers, answers, errors and shutdown race
\* (lines 170-178).
THEOREM SettledForever == SafeSpec => SettledOnce
<1> DEFINE Kept == \A r \in Requests : outcome[r] \in Settled => outcome'[r] = outcome[r]
<1>1. IInv /\ [Next]_vars => [Kept]_vars
  <2> SUFFICES ASSUME IInv, Next PROVE Kept
    OBVIOUS
  <2>1. \A r \in Requests :
          Queued(r) \/ runningOn[r] # NoWorker => outcome[r] \notin Settled
    BY DEF IInv, QueueOnce, NoLostRequest, Settled, Answers
  <2>2. outcome \in [Requests -> Settled \cup {"none", "pending"}]
    BY DEF IInv, TypeOK
  <2>3. ASSUME NEW r \in Requests, RefuseRequest(r) \/ AcceptRequest(r) PROVE Kept
    BY <2>2, <2>3 DEF RefuseRequest, AcceptRequest, Settled, Answers
  <2>4. ASSUME NEW r \in Requests, Timeout(r) PROVE Kept
    BY <2>1, <2>2, <2>4 DEF Timeout, TimerArmed, completeRequest
  <2>5. CASE ProcessQueue
    <3>1. requestQueue # <<>> => Queued(Head(requestQueue))
      BY TailProps DEF IInv, TypeOK, QueueOnce, Queued
    <3>. QED
      BY <2>1, <2>2, <2>5, <3>1
         DEF ProcessQueue, Dispatch, DispatchFails, QueueProcessed, completeRequest
  <2>6. ASSUME NEW m \in replies, HandleMessage(m) \/ DropMessage(m) PROVE Kept
    <3>1. m[1] # NoWorker
      BY DEF IInv, ChildIds, NoWorker
    <3>. QED
      BY <2>1, <2>2, <2>6, <3>1 DEF HandleMessage, DropMessage, completeRequest
  <2>7. ASSUME NEW w \in errors, NEW r \in Requests, ErrorIdle(w) \/ ErrorBusy(w, r)
        PROVE  Kept
    <3>1. w # NoWorker
      BY DEF IInv, ChildIds, NoWorker
    <3>. QED BY <2>1, <2>2, <2>7, <3>1 DEF ErrorIdle, ErrorBusy, completeRequest
  <2>8. ASSUME NEW w \in errors, ErrorIdle(w) PROVE Kept
    BY <2>8 DEF ErrorIdle
  <2>9. ASSUME NEW w \in exits, Exit(w) PROVE Kept
    BY <2>9 DEF Exit
  <2>10. CASE Shutdown
    BY <2>1, <2>10 DEF Shutdown, RejectQueued
  <2>11. ASSUME NEW t \in tasks, NEW o \in Answers, ChildAnswers(t, o) PROVE Kept
    BY <2>11 DEF ChildAnswers
  <2>12. ASSUME NEW w \in live, ChildDies(w) PROVE Kept
    BY <2>12 DEF ChildDies
  <2>. QED
    BY <2>3, <2>4, <2>5, <2>6, <2>7, <2>8, <2>9, <2>10, <2>11, <2>12 DEF Next
<1>. QED BY <1>1, AlwaysIInv, PTL DEF SafeSpec, SettledOnce

-----------------------------------------------------------------------------
(* The pool implements JobService *)

Running == {r \in Requests : runningOn[r] # NoWorker}

\* What settles a running request is a Finish of the job service.
LEMMA CompleteIsFinish ==
  ASSUME IInv, NEW r \in Requests, runningOn[r] # NoWorker,
         NEW o \in Answers \cup {"PROCESSING_TIMEOUT", "UNKNOWN_ERROR"},
         completeRequest(r, o), UNCHANGED <<requestQueue, shutdownInitiated>>
  PROVE  Promise!Finish(r)
<1>1. Running' = Running \ {r}
  BY DEF completeRequest, Running, IInv, TypeOK, NoWorker
<1>. QED BY <1>1 DEF completeRequest, Running, Promise!Finish

\* Every step of the pool is a step of the job service or changes nothing a
\* caller can see.
LEMMA StepSimulation ==
  ASSUME IInv, [Next]_vars
  PROVE  [Promise!Next]_(Promise!vars)
<1>1. CASE UNCHANGED vars
  BY <1>1 DEF vars, poolVars, Promise!vars
<1>2. ASSUME NEW r \in Requests, RefuseRequest(r) PROVE Promise!Next
  BY <1>2 DEF RefuseRequest, isQueueFull, poolVars, Promise!Next, Promise!Refuse
<1>3. ASSUME NEW r \in Requests, AcceptRequest(r) PROVE Promise!Next
  <2>1. ~(Len(requestQueue) >= MaxQueueSize) => Len(requestQueue) < MaxQueueSize
    BY PoolAssumption DEF IInv, TypeOK
  <2>. QED BY <1>3, <2>1 DEF AcceptRequest, isQueueFull, Promise!Next, Promise!Accept
<1>4. ASSUME NEW r \in Requests, Timeout(r) PROVE Promise!Next
  BY <1>4, CompleteIsFinish DEF Timeout, TimerArmed, Promise!Next
<1>5. CASE Dispatch
  <2>1. Head(requestQueue) \in Requests
    BY <1>5, TailProps DEF Dispatch, IInv, TypeOK, QueueOnce
  <2>2. Head(availableWorkers) \in Nat /\ Head(availableWorkers) # NoWorker
    <3>1. Distinct(availableWorkers) /\ availableWorkers \in Seq(Nat)
      BY DEF IInv, TypeOK, ExclusiveWorker, Distinct
    <3>2. Head(availableWorkers) \in Nat /\ Idle(Head(availableWorkers))
      BY <1>5, <3>1, TailProps DEF Dispatch, Idle
    <3>. QED BY <3>2 DEF IInv, ChildIds, NoWorker
  <2>3. Running' = Running \cup {Head(requestQueue)}
    BY <1>5, <2>1, <2>2 DEF Dispatch, Running, IInv, TypeOK
  <2>. QED BY <1>5, <2>3 DEF Dispatch, Running, Promise!Next, Promise!Start
<1>6. CASE DispatchFails
  <2>1. runningOn[Head(requestQueue)] = NoWorker /\ Head(requestQueue) \in Requests
    BY <1>6, TailProps
       DEF DispatchFails, IInv, TypeOK, QueueOnce, NoLostRequest, Queued
  <2>2. Running' = Running
    BY <1>6, <2>1 DEF DispatchFails, completeRequest, Running, IInv, TypeOK
  <2>. QED
    BY <1>6, <2>2
       DEF DispatchFails, completeRequest, Running, Promise!Next, Promise!StartFails
<1>7. CASE QueueProcessed
  BY <1>7 DEF QueueProcessed, Promise!vars
<1>8. ASSUME NEW m \in replies, HandleMessage(m) PROVE Promise!Next
  <2>1. m[2] \in Requests /\ m[3] \in Answers /\ m[1] # NoWorker
    BY DEF IInv, TypeOK, ChildIds, NoWorker
  <2>. QED BY <1>8, <2>1, CompleteIsFinish DEF HandleMessage, Promise!Next
<1>9. ASSUME NEW m \in replies, DropMessage(m) PROVE UNCHANGED Promise!vars
  BY <1>9 DEF DropMessage, poolVars, Promise!vars
<1>10. ASSUME NEW w \in errors, NEW r \in Requests, ErrorBusy(w, r) PROVE Promise!Next
  <2>1. w # NoWorker
    BY DEF IInv, ChildIds, NoWorker
  <2>. QED BY <1>10, <2>1, CompleteIsFinish DEF ErrorBusy, Promise!Next
<1>11. ASSUME NEW w \in errors, ErrorIdle(w) PROVE UNCHANGED Promise!vars
  BY <1>11 DEF ErrorIdle, Promise!vars
<1>12. ASSUME NEW w \in exits, Exit(w) PROVE UNCHANGED Promise!vars
  BY <1>12 DEF Exit, Promise!vars
<1>13. CASE Shutdown
  BY <1>13
     DEF Shutdown, RejectQueued, Queued, Among, Promise!Next, Promise!Close
<1>14. ASSUME NEW t \in tasks, NEW o \in Answers, ChildAnswers(t, o)
       PROVE  UNCHANGED Promise!vars
  BY <1>14 DEF ChildAnswers, poolVars, Promise!vars
<1>15. ASSUME NEW w \in live, ChildDies(w) PROVE UNCHANGED Promise!vars
  BY <1>15 DEF ChildDies, poolVars, Promise!vars
<1>16. CASE Next
  BY <1>2, <1>3, <1>4, <1>5, <1>6, <1>7, <1>8, <1>9, <1>10, <1>11, <1>12, <1>13,
     <1>14, <1>15, <1>16 DEF Next, ProcessQueue
<1>. QED BY <1>1, <1>16

\* Callers of filterAndEncodeData see a bounded FIFO service that settles each
\* request at most once (the whole of process-pool.service.ts).
THEOREM PoolImplementsJobService == SafeSpec => Promise!SafeSpec
<1>1. Init => Promise!Init
  <2> SUFFICES ASSUME Init PROVE Promise!Init
    OBVIOUS
  <2>1. Running = {}
    BY DEF Init, Running
  <2>. QED BY <2>1 DEF Init, Running, Promise!Init
<1>2. IInv /\ [Next]_vars => [Promise!Next]_(Promise!vars)
  BY StepSimulation
<1>. QED BY <1>1, <1>2, AlwaysIInv, PTL DEF SafeSpec, Promise!SafeSpec
=============================================================================
