---------------------------- MODULE ProcessPool ----------------------------
(***************************************************************************)
(* The Web2Json process pool                                               *)
(* (src/src/verification/web-2-json/process-pool.service.ts): a bounded    *)
(* FIFO queue of jq/ABI requests served by PoolSize forked child           *)
(* processes, each request guarded by a timer that kills its child.        *)
(*                                                                         *)
(* The parent is one JavaScript thread: every handler below runs to        *)
(* completion, and so is one action.  A handler that ends by calling       *)
(* processQueue() sets `processing`; while it is set only the iterations   *)
(* of processQueue's loop run in the parent, and the children, the pipes   *)
(* and the operating system go on by themselves.                           *)
(*                                                                         *)
(* The children, the IPC pipes and the 'exit'/'error' events are the       *)
(* environment: a child may answer, hang, or die at any moment, its 'exit' *)
(* event may overtake an answer that is still in the pipe, and a message   *)
(* sent to a dead child either raises 'error' later or is lost, and one to *)
(* a child that was never forked may throw at once.                        *)
(***************************************************************************)
EXTENDS Naturals, Sequences, FiniteSets

CONSTANTS
  Requests,      \* the calls of filterAndEncodeData
  PoolSize,      \* number of children (os.cpus().length)
  MaxQueueSize,  \* queued requests before backpressure (1000)
  Unsendable,    \* requests whose task always makes worker.send() throw
  MaxFailures    \* bound: children that die or fail to spawn by themselves

ASSUME PoolAssumption ==
  /\ PoolSize \in Nat \ {0}
  /\ MaxQueueSize \in Nat
  /\ Unsendable \subseteq Requests
  /\ MaxFailures \in Nat

VARIABLES
  \* the fields of ProcessPoolService
  workers,            \* this.workers: ids of the children it manages
  availableWorkers,   \* this.availableWorkers, first to be used first
  requestQueue,       \* this.requestQueue
  idCounter,          \* this.idCounter: id of the next child
  shutdownInitiated,  \* this.shutdownInitiated
  processing,         \* processQueue() is on the call stack
  \* the closures of executeRequestOnWorker and the promises returned
  runningOn,          \* child whose timer and 'error' handler request r holds
  listening,          \* requests whose 'message' handler is still attached
  outcome,            \* what the promise of request r was settled with
  \* the children, the pipes and the operating system
  live,               \* children whose process runs
  exits,              \* children whose 'exit' event is not yet delivered
  errors,             \* children with an 'error' event not yet delivered
  tasks,              \* <<child, request>> sent and not answered
  replies,            \* <<child, request, outcome>> in the pipe to the parent
  failures            \* number of spontaneous failures so far

poolVars  == <<workers, availableWorkers, requestQueue, idCounter,
               shutdownInitiated, processing>>
childVars == <<live, exits, errors, tasks, replies, failures>>
vars == <<poolVars, runningOn, listening, outcome, childVars>>

NoWorker == 0

\* What a child answers: the encoded data, or the status of its jq/ABI error.
Answers == {"ENCODED", "WORKER_ERROR"}

Settled == Answers \cup
  {"PROCESSING_TIMEOUT", "UNKNOWN_ERROR", "BACKPRESSURE", "SHUTDOWN"}

-----------------------------------------------------------------------------
(* Helpers of the handlers *)

\* Requests whose handlers are registered on child w.
On(w) == {r \in Requests : runningOn[r] = w}

Among(x, list) == \E i \in 1..Len(list) : list[i] = x

\* Removes w from a list in which it stands at most once.
Without(list, w) ==
  IF Among(w, list)
  THEN LET k == CHOOSE i \in 1..Len(list) : list[i] = w
       IN  [i \in 1..(Len(list) - 1) |-> IF i < k THEN list[i] ELSE list[i + 1]]
  ELSE list

Queued(r) == Among(r, requestQueue)
Idle(w)   == Among(w, availableWorkers)

\* Mutant: one request too many may wait.
isQueueFull_OffByOne == Len(requestQueue) > MaxQueueSize

isQueueFull == Len(requestQueue) >= MaxQueueSize

\* availableWorkers.shift()
\* Mutant: the child is read and not removed.
shiftWorker_Peeks == availableWorkers

shiftWorker == Tail(availableWorkers)

\* The timer of r is armed: it is cleared only when r completes.
\* Mutant: a child that exits takes its timers with it.
TimerArmed_ByWorker(r) == runningOn[r] \in workers

TimerArmed(r) == runningOn[r] # NoWorker

\* A request of the queue that shutdown() rejects.
\* Mutants: shutdown() empties the queue without rejecting anything; it
\* resolves the waiting promises with no value.
RejectQueued_Nothing == outcome

RejectQueued_Resolves ==
  [r \in Requests |-> IF Queued(r) THEN "undefined" ELSE outcome[r]]

RejectQueued ==
  [r \in Requests |-> IF Queued(r) THEN "SHUTDOWN" ELSE outcome[r]]

\* handleWorkerExit replaces w unless the pool is still full or shutting down.
\* Mutants: createWorker does not look at shutdownInitiated; the length is
\* compared before the child is removed.
ReplacesWorker_AfterShutdown(w) == Cardinality(workers \ {w}) < PoolSize

ReplacesWorker_BeforeFilter(w) ==
  Cardinality(workers) < PoolSize /\ ~shutdownInitiated

ReplacesWorker(w) ==
  Cardinality(workers \ {w}) < PoolSize /\ ~shutdownInitiated

\* createWorker: fork() gives a running process, or reports 'error' soon.
\* `up` and `failing` are the running and the failing children before it.
createWorker(kept, idle, up, failing) ==
  /\ workers' = kept \cup {idCounter}
  /\ availableWorkers' = Append(idle, idCounter)
  /\ idCounter' = idCounter + 1
  /\ \/ /\ live' = up \cup {idCounter}
        /\ errors' = failing
        /\ UNCHANGED failures
     \/ /\ failures < MaxFailures
        /\ failures' = failures + 1
        /\ live' = up
        /\ errors' = failing \cup {idCounter}

handleWorkerExit(w, up, failing) ==
  LET kept == workers \ {w}
      idle == Without(availableWorkers, w)
  IN \/ /\ ReplacesWorker(w)
        /\ createWorker(kept, idle, up, failing)
     \/ /\ ~ReplacesWorker(w)
        /\ workers' = kept
        /\ availableWorkers' = idle
        /\ live' = up
        /\ errors' = failing
        /\ UNCHANGED <<idCounter, failures>>

\* terminateWorker: drop the message handlers, SIGKILL, handleWorkerExit.
\* Mutant: the child is not killed.
terminateWorker_NoKill(w, failing) ==
  /\ listening' = listening \ On(w)
  /\ UNCHANGED <<exits, tasks>>
  /\ handleWorkerExit(w, live, failing)

terminateWorker(w, failing) ==
  /\ listening' = listening \ On(w)
  /\ exits' = exits \cup ({w} \cap live)
  /\ tasks' = {t \in tasks : t[1] # w}
  /\ handleWorkerExit(w, live \ {w}, failing)

\* completeRequest: detach the handlers, stop the timer, settle, processQueue.
\* Mutants: the queue is not looked at; the timer is not cleared.
completeRequest_NoProcessQueue(r, o) ==
  /\ runningOn' = [runningOn EXCEPT ![r] = NoWorker]
  /\ outcome' = [outcome EXCEPT ![r] = o]
  /\ UNCHANGED processing

completeRequest_TimerLeft(r, o) ==
  /\ UNCHANGED runningOn
  /\ outcome' = [outcome EXCEPT ![r] = o]
  /\ processing' = TRUE

completeRequest(r, o) ==
  /\ runningOn' = [runningOn EXCEPT ![r] = NoWorker]
  /\ outcome' = [outcome EXCEPT ![r] = o]
  /\ processing' = TRUE

-----------------------------------------------------------------------------
(* The handlers of the parent *)

\* onModuleInit has run: initializePool forked PoolSize children.
Init ==
  /\ workers = 1..PoolSize
  /\ availableWorkers = [i \in 1..PoolSize |-> i]
  /\ requestQueue = <<>>
  /\ idCounter = PoolSize + 1
  /\ shutdownInitiated = FALSE
  /\ processing = FALSE
  /\ runningOn = [r \in Requests |-> NoWorker]
  /\ listening = {}
  /\ outcome = [r \in Requests |-> "none"]
  /\ live = 1..PoolSize
  /\ exits = {}
  /\ errors = {}
  /\ tasks = {}
  /\ replies = {}
  /\ failures = 0

\* filterAndEncodeData, queue full: the call throws BackpressureException.
RefuseRequest(r) ==
  /\ ~processing
  /\ outcome[r] = "none"
  /\ isQueueFull
  /\ outcome' = [outcome EXCEPT ![r] = "BACKPRESSURE"]
  /\ UNCHANGED <<poolVars, runningOn, listening, childVars>>

\* filterAndEncodeData: queue the request and processQueue.  The flag
\* shutdownInitiated is not consulted.
AcceptRequest(r) ==
  /\ ~processing
  /\ outcome[r] = "none"
  /\ ~isQueueFull
  /\ outcome' = [outcome EXCEPT ![r] = "pending"]
  /\ requestQueue' = Append(requestQueue, r)
  /\ processing' = TRUE
  /\ UNCHANGED <<workers, availableWorkers, idCounter, shutdownInitiated,
                 runningOn, listening, childVars>>

\* One iteration of processQueue: executeRequestOnWorker on both heads.
Dispatch ==
  /\ processing
  /\ requestQueue # <<>>
  /\ availableWorkers # <<>>
  /\ LET r == Head(requestQueue)
         w == Head(availableWorkers)
     IN /\ r \notin Unsendable \/ w \notin live
        /\ requestQueue' = Tail(requestQueue)
        /\ availableWorkers' = shiftWorker
        /\ runningOn' = [runningOn EXCEPT ![r] = w]
        /\ listening' = listening \cup {r}
        /\ \/ /\ w \in live
              /\ tasks' = tasks \cup {<<w, r>>}
              /\ UNCHANGED errors
           \/ /\ w \notin live                  \* the channel is closed
              /\ errors' \in {errors, errors \cup {w}}
              /\ UNCHANGED tasks
  /\ UNCHANGED <<workers, idCounter, shutdownInitiated, processing, outcome,
                 live, exits, replies, failures>>

\* The same when worker.send() throws (the task cannot be sent, or the child
\* was never forked and has no channel): reject, terminateWorker; the nested
\* processQueue goes on with the loop.
DispatchFails ==
  /\ processing
  /\ requestQueue # <<>>
  /\ availableWorkers # <<>>
  /\ LET r == Head(requestQueue)
         w == Head(availableWorkers)
     IN /\ r \in Unsendable \/ w \notin live
        /\ completeRequest(r, "UNKNOWN_ERROR")
        /\ terminateWorker(w, errors)
  /\ requestQueue' = Tail(requestQueue)
  /\ UNCHANGED <<shutdownInitiated, replies>>

\* The loop of processQueue ends.
QueueProcessed ==
  /\ processing
  /\ requestQueue = <<>> \/ availableWorkers = <<>>
  /\ processing' = FALSE
  /\ UNCHANGED <<workers, availableWorkers, requestQueue, idCounter,
                 shutdownInitiated, runningOn, listening, outcome, childVars>>

\* messageHandler: the answer settles its request and frees the child.
HandleMessage(m) ==
  LET w == m[1]
      r == m[2]
  IN /\ ~processing
     /\ runningOn[r] = w
     /\ r \in listening
     /\ completeRequest(r, m[3])
     /\ listening' = listening \ {r}
     /\ availableWorkers' = Append(availableWorkers, w)
     /\ replies' = replies \ {m}
     /\ UNCHANGED <<workers, requestQueue, idCounter, shutdownInitiated,
                    live, exits, errors, tasks, failures>>

\* An answer nobody listens to any more.
DropMessage(m) ==
  /\ ~processing
  /\ ~(runningOn[m[2]] = m[1] /\ m[2] \in listening)
  /\ replies' = replies \ {m}
  /\ UNCHANGED <<poolVars, runningOn, listening, outcome,
                 live, exits, errors, tasks, failures>>

\* timeoutHandler.
Timeout(r) ==
  /\ ~processing
  /\ TimerArmed(r)
  /\ completeRequest(r, "PROCESSING_TIMEOUT")
  /\ terminateWorker(runningOn[r], errors)
  /\ UNCHANGED <<requestQueue, shutdownInitiated, replies>>

\* 'error' of a child that runs nothing: createWorker's listener only.
ErrorIdle(w) ==
  /\ ~processing
  /\ On(w) = {}
  /\ handleWorkerExit(w, live, errors \ {w})
  /\ UNCHANGED <<requestQueue, shutdownInitiated, processing, runningOn,
                 listening, outcome, exits, tasks, replies>>

\* 'error' of a child that runs r: createWorker's listener, then r's
\* errorHandler.  The second handleWorkerExit, in terminateWorker, finds the
\* child gone and the pool full (or shut down), and changes nothing.
ErrorBusy(w, r) ==
  /\ ~processing
  /\ runningOn[r] = w
  /\ completeRequest(r, "UNKNOWN_ERROR")
  /\ terminateWorker(w, errors \ {w})
  /\ UNCHANGED <<requestQueue, shutdownInitiated, replies>>

\* 'exit': handleWorkerExit only.  The request that ran on w stays with its
\* timer, and a replacement does not look at the queue.
Exit(w) ==
  /\ ~processing
  /\ exits' = exits \ {w}
  /\ handleWorkerExit(w, live, errors)
  /\ UNCHANGED <<requestQueue, shutdownInitiated, processing, runningOn,
                 listening, outcome, tasks, replies>>

\* onModuleDestroy -> shutdown.
Shutdown ==
  /\ ~processing
  /\ ~shutdownInitiated
  /\ shutdownInitiated' = TRUE
  /\ outcome' = RejectQueued
  /\ requestQueue' = <<>>
  /\ listening' = {r \in listening : runningOn[r] \notin workers}
  /\ live' = live \ workers
  /\ exits' = exits \cup (live \cap workers)
  /\ tasks' = {t \in tasks : t[1] \notin workers}
  /\ workers' = {}
  /\ availableWorkers' = <<>>
  /\ UNCHANGED <<idCounter, processing, runningOn, errors, replies, failures>>

-----------------------------------------------------------------------------
(* The children *)

\* worker-process.ts: 'message' runs execute() and sends its result back.
ChildAnswers(t, o) ==
  /\ t[1] \in live
  /\ tasks' = tasks \ {t}
  /\ replies' = replies \cup {<<t[1], t[2], o>>}
  /\ UNCHANGED <<poolVars, runningOn, listening, outcome,
                 live, exits, errors, failures>>

\* A child runs out of memory, crashes or is killed from outside.
ChildDies(w) ==
  /\ failures < MaxFailures
  /\ failures' = failures + 1
  /\ live' = live \ {w}
  /\ exits' = exits \cup {w}
  /\ tasks' = {t \in tasks : t[1] # w}
  /\ UNCHANGED <<poolVars, runningOn, listening, outcome, errors, replies>>

-----------------------------------------------------------------------------

ProcessQueue == Dispatch \/ DispatchFails \/ QueueProcessed

Next ==
  \/ \E r \in Requests : RefuseRequest(r) \/ AcceptRequest(r) \/ Timeout(r)
  \/ ProcessQueue
  \/ \E m \in replies : HandleMessage(m) \/ DropMessage(m)
  \/ \E w \in errors : ErrorIdle(w) \/ \E r \in Requests : ErrorBusy(w, r)
  \/ \E w \in exits : Exit(w)
  \/ Shutdown
  \/ \E t \in tasks, o \in Answers : ChildAnswers(t, o)
  \/ \E w \in live : ChildDies(w)

\* The event loop runs a handler to its end, fires every armed timer and
\* delivers every event.  Children owe no answer, and callers no call.
Fairness ==
  /\ WF_vars(ProcessQueue)
  /\ \A r \in Requests : WF_vars(Timeout(r))
  /\ WF_vars(\E w \in errors : ErrorIdle(w) \/ \E r \in Requests : ErrorBusy(w, r))
  /\ WF_vars(\E w \in exits : Exit(w))

SafeSpec == Init /\ [][Next]_vars
Spec == SafeSpec /\ Fairness

-----------------------------------------------------------------------------
(* Properties *)

TypeOK ==
  /\ workers \in SUBSET Nat
  /\ availableWorkers \in Seq(Nat)
  /\ requestQueue \in Seq(Requests)
  /\ idCounter \in Nat
  /\ shutdownInitiated \in BOOLEAN
  /\ processing \in BOOLEAN
  /\ runningOn \in [Requests -> Nat]
  /\ listening \in SUBSET Requests
  /\ outcome \in [Requests -> Settled \cup {"none", "pending"}]
  /\ live \in SUBSET Nat
  /\ exits \in SUBSET Nat
  /\ errors \in SUBSET Nat
  /\ tasks \in SUBSET (Nat \X Requests)
  /\ replies \in SUBSET (Nat \X Requests \X Answers)
  /\ failures \in Nat

\* Whenever requests wait, some request runs, so its answer or at the latest
\* its timer will call processQueue.  Exits and errors replace children without
\* calling it, so nothing else would wake the queue (lines 107-114, 152-178).
NoLostWakeup ==
  (~shutdownInitiated /\ ~processing /\ requestQueue # <<>>)
    => \E r \in Requests : runningOn[r] # NoWorker

\* An unsettled request is in the queue or holds a timer, not both, and
\* nothing else is: nobody waits for a promise the pool forgot (lines 142,
\* 154, 170-178, 256-262).
NoLostRequest ==
  \A r \in Requests :
    /\ outcome[r] = "pending" <=> Queued(r) \/ runningOn[r] # NoWorker
    /\ ~(Queued(r) /\ runningOn[r] # NoWorker)

\* A child serves one request at a time and is offered for the next one only
\* when it is done, however exits, late answers and timers interleave.
ExclusiveWorker ==
  /\ \A r \in Requests : runningOn[r] # NoWorker =>
       /\ ~Idle(runningOn[r])
       /\ \A q \in Requests \ {r} : runningOn[q] # runningOn[r]
  /\ \A i, j \in 1..Len(availableWorkers) :
       availableWorkers[i] = availableWorkers[j] => i = j

\* Until shutdown the pool keeps its size, and each of its children is idle or
\* serves a request: timeouts, crashes and failed forks leak no slot.
PoolStaffed ==
  ~shutdownInitiated =>
    /\ Cardinality(workers) = PoolSize
    /\ \A w \in workers : Idle(w) \/ On(w) # {}

\* Every running process is one the pool manages, and none survives shutdown
\* or is forked after it: handlers that fire late do not leave orphans.
NoOrphanProcess ==
  /\ live \subseteq workers
  /\ shutdownInitiated => live = {}

\* A child that still computes does so for the request that waits for it:
\* once a request is settled (by its timer, an error, shutdown) its
\* computation is killed (lines 101-105, 181-194).
NoAbandonedWork ==
  \A t \in tasks :
    t[1] \in live => runningOn[t[2]] = t[1] /\ outcome[t[2]] = "pending"

\* A settled request is never settled again: a timer racing an answer, an
\* 'error' or shutdown (isRequestCompleted and clearTimeout, lines 170-178).
SettledOnce ==
  [][\A r \in Requests : outcome[r] \in Settled => outcome'[r] = outcome[r]]_vars

\* A request submitted before shutdown is settled, though children may hang
\* or die without a word.
SubmittedSettles ==
  \A r \in Requests :
    (outcome[r] = "pending" /\ ~shutdownInitiated) ~> (outcome[r] \in Settled)

\* After the last failure the pool is back at full strength with running
\* processes only, or shuts down.
PoolRecovers ==
  []<>(shutdownInitiated \/ (workers \subseteq live /\ Cardinality(workers) = PoolSize))

\* The pool implements the service its callers see.
Promise == INSTANCE JobService WITH
  Jobs       <- Requests,
  MaxWaiting <- MaxQueueSize,
  Failures   <- {"PROCESSING_TIMEOUT", "UNKNOWN_ERROR"},
  waiting    <- requestQueue,
  active     <- {r \in Requests : runningOn[r] # NoWorker},
  result     <- outcome,
  closed     <- shutdownInitiated

\* Callers see a bounded FIFO job service that finishes what it accepts.
ImplementsJobService == Promise!Spec
=============================================================================
