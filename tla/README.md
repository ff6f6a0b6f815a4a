# A TLA+ model of the Flare verifier-indexer-api

The program (`src/src`, NestJS on one Node.js thread per process) answers
attestation requests of the Flare Data Connector. A request names something
that is or is not true of a chain (BTC, DOGE, XRP, an EVM chain) or of a web
resource, and several independent verifiers must come to the same verdict and
the same encoded response. The modules in this directory model the parts in
which that is hard, TLC checks them on small instances, and TLAPS proves their
safety properties for every value of the constants.

## 1. Inventory

| component | source (`src/src/`) | state | operations | model |
|---|---|---|---|---|
| Web2Json process pool | `verification/web-2-json/process-pool.service.ts`, `worker-process.ts` | children, idle children, request queue, shutdown flag, closures of running requests | submit, dispatch, answer, time out, error, exit, shutdown | `ProcessPool`, `JobService` |
| Web2Json request flow | `services/web2-json-verifier.service.ts`, `verification/web-2-json/web2-json-verifications.ts` | none of its own | fail-fast check, lookup, fetch, pool call, mapping of errors to statuses | `UnindexedAttestations` |
| Web2Json validators | `verification/web-2-json/validate-*.ts`, `utils.ts` | none | nesting and size limits, endpoints and authentication, URL, jq, ABI, addresses | `Web2Json` |
| Indexer database | `entity/*` (written by an external indexer) | block, transaction, state, prune, version tables | insert, confirm, remove, prune | `IndexerDB` (external) |
| Indexed query manager | `indexed-query-manager/*` | none | queries of the tables, one `await` each | `IndexedQueryManager` |
| ReferencedPaymentNonexistence | `verification/referenced-payment-nonexistence/*`, `verification/response-status.ts` | none | one verification of five reads | `ReferencedPaymentNonexistence` |
| XRPPaymentNonexistence | `verification/xrp-payment-nonexistence/*` | none | the same reads, other conditions | `XRPPaymentNonexistence` |
| ConfirmedBlockHeightExists | `verification/confirmed-block-height-exists/*` | none | two reads | `ConfirmedBlockHeightExists` |
| Payment, XRPPayment, BalanceDecreasingTransaction | `verification/payment/*`, `xrp-payment/*`, `balance-decreasing-transaction/*` | none | one read | `Payment`, `XRPPayment` |
| EVMTransaction | `verification/evm-transaction/*` | none | RPC calls, some concurrent | `EVMTransaction`, on `EVMNode` |
| AddressValidity | `verification/address-validity/*` | none | checks of an address | `AddressValidity` |
| Verifier base services | `services/common/verifier-base.service.ts`, `services/*-verifier.service.ts` | none | the endpoints, integrity code, catch-all | `VerifierBase` |
| Indexer API | `services/indexer-services/*` | none | state, block and transaction queries, pages | `IndexerApi` |
| Controllers, DTOs | `controllers`, `dtos` | none | routing, field validation | in part: which endpoint runs what, and the shapes of requests and responses |
| Configuration, authentication, bootstrap | `config`, `auth`, `middleware`, `utils`, `verifier-modules`, `main.ts` | read once | - | in part: the types of Web2Json's configuration |
| Encoding | `external-libs` | none | ABI encoding | not modelled |
| Build scripts | `../scripts` | none | generate DTOs and documents | not modelled |

**How they interact.** A controller hands a request to a verifier service, which
decodes it and calls one verification function. The chain verifications reach
the database only through the indexed query manager; every query is an `await`,
none of them share a transaction, and the indexer, another program, writes
the same tables meanwhile. `Web2Json` fetches a resource and hands
data, jq filter and ABI to the process pool; the pool forks children, talks to
them by IPC messages, and guards each request with a timer. Nothing else is
shared between requests.

**What is hard.**

* *The pool.* Answers, timers, `error` and `exit` events of a child race; the
  loser must do nothing. `handleWorkerExit` replaces a child without looking at
  the queue. `send()` may throw inside the loop of `processQueue`. Handlers fire
  after `shutdown()`. Correct means: no request is lost or settled twice, no child
  serves two requests, no slot leaks, no process is orphaned, no queued request
  waits beside idle children, every request submitted is settled.
* *Verifications.* Reads that do not belong to one snapshot, blocks of forks,
  block times that step back, history that is pruned, queries that fail. Correct
  means: what is answered is true of the final chain, what goes into a response
  does not depend on how far or how far back a database reaches, and a database
  that holds the answer gives it.
* *Two answers to one request.* A request is prepared on one day and verified on
  another, by servers whose databases differ. Correct means: the integrity code
  prepared is that of the response verified.
* *Chains that change under the verifier.* An EVM node reorganises between the
  answers to three concurrent calls and the one after them. Correct means: deep
  enough confirmations make the response one of a single block that stays.
* *Lists in pages.* Each page is a query of its own, over tables that are written.
* *Chains of awaits.* A name server, a data source and a child may each never
  answer. Correct means: the call is answered nevertheless.
* *Error mapping.* Every exception becomes a status; a status that says INVALID
  while the verifier merely failed makes verifiers disagree.

`PROJECT.json` lists each hazard at its line with the properties that cover it,
or the reason why none does yet.

## 2. Plan

Written in this order, most important first:

1. `JobService`, `ProcessPool`, `ProcessPool_proofs` - the only component with
   state of its own, and the refinement of the service callers see.
2. `IndexerDB`, `IndexedQueryManager`, `ReferencedPaymentNonexistence` and its
   proofs - the verification with the most reads, whose verdict is about
   *absence*.
3. `VerifierBase`, then `ConfirmedBlockHeightExists` and `Payment` composed in
   `ConfirmedAttestations`; `XRPPayment` beside `XRPPaymentNonexistence`.
4. `IndexerApi`; `EVMTransaction` on `EVMNode`.
5. `AddressValidity` and `Web2Json`, composed with `JobService` in
   `UnindexedAttestations`.

```
VerifierBase <-- ConfirmedBlockHeightExists, Payment <-- ConfirmedAttestations
             <-- XRPPayment <-- XRPPaymentNonexistence
             <-- AddressValidity, Web2Json <-- UnindexedAttestations --> JobService
             <-- EVMTransaction --> EVMNode                                  ^
IndexerDB <-- IndexedQueryManager <-- all that read confirmed blocks         |  (proved)
          <-- IndexerApi                                                ProcessPool
```

Each component's proofs are in the module `..._proofs` that extends it; those of the
verifications and of the indexer API share `IndexedQueryManager_proofs`. Every safety
property that a passing run checks is proved (section 5 says how, and what is not proved).

## 3. Modules

### ProcessPool

The parent is one JavaScript thread. Every handler runs to completion and is one
action; the exception is `processQueue`, whose loop forks, sends and fails step by
step. A handler that ends by calling it sets `processing`, and while that is set
the parent takes only iterations of the loop (`Dispatch`, `DispatchFails`,
`QueueProcessed`), as children, pipes and the operating system go on.

| model | code (`process-pool.service.ts`) |
|---|---|
| `workers`, `availableWorkers`, `requestQueue`, `idCounter`, `shutdownInitiated` | the fields of the same names |
| `runningOn[r]` | the closure of `executeRequestOnWorker`: the timer of `r` is armed, and `r`'s `error` handler is registered, on that child |
| `listening` | requests whose `message` handler is attached |
| `outcome[r]` | what the promise of `filterAndEncodeData` was settled with |
| `live`, `exits`, `errors`, `tasks`, `replies` | running processes; undelivered `exit` and `error` events; messages to and from children |
| `AcceptRequest`, `RefuseRequest` | `filterAndEncodeData` |
| `Dispatch`, `DispatchFails`, `QueueProcessed` | `processQueue`, `executeRequestOnWorker` and its catch |
| `HandleMessage`, `DropMessage` | `messageHandler`; an answer nobody listens to |
| `Timeout` | `timeoutHandler` |
| `ErrorIdle`, `ErrorBusy` | the `error` listener of `createWorker`, and with it `errorHandler` |
| `Exit` | the `exit` listener |
| `Shutdown` | `onModuleDestroy`, `shutdown` |
| `ChildAnswers`, `ChildDies` | `worker-process.ts`; the operating system |

The environment is as bad as Node.js allows: a child may answer, hang or die at
any moment; its `exit` may be delivered before an answer still in the pipe; a
message to a dead child raises `error` or vanishes; `fork()` may fail, which is reported
by a later `error`, and a child that was never forked has no channel, so that
`send()` to it throws.
`ErrorBusy` performs the two listeners in one step, as an event emitter does.

`JobService` is the promise to callers: a FIFO queue of bounded length, one
result per job, rejection of waiting jobs at close, and everything started is
finished. `ImplementsJobService` maps its waiting jobs to `requestQueue` and its
active ones to the requests whose timer is armed.

### IndexerDB and IndexedQueryManager

The indexer is another program, so `IndexerDB` is external: it is the most
general writer that keeps the three assumptions the code makes of it. (1)
Confirmed blocks are final; they are added at the top and dropped at the bottom.
(2) The state row names a height up to which blocks and transactions are all
written (`IIndexedQueryManager.ts:66`). (3) The transactions of a block are
dropped with or after its row. Everything else is free: the order in
which a block and its transactions appear, how late the state row is, which
unconfirmed blocks of forks are stored and removed, when history is dropped.

`IndexedQueryManager` has the queries: `Source` chooses between the two managers. UTXO
queries filter unconfirmed blocks; XRP queries have no such filter. Each operator
gives the set of rows that the query may return at this moment.

### ReferencedPaymentNonexistence and XRPPaymentNonexistence

One verification goes through the reads of `getReferencedTransactions`, each an
action at its own `pc`, in the order of the awaits: overflow block, state, transactions,
minimal block, end block. The indexer's actions may come between any two. A verification
only reads, so several at a time do not affect each other and one is enough. A
transaction is the record of how it compares with the request; hashing, address
and amount arithmetic are abstracted to these comparisons. UTXO queries select
transactions by reference and source only; XRP queries
also compare destination, amount and status in SQL (the columns are taken to agree
with the stored response), and parse the rows themselves.

Two variables of `ReferencedPaymentNonexistence` belong to the properties only:
`answerable` (the database held the answer when the request came) and `failed` (a
read failed).

`XRPPaymentNonexistence` has the same reads; `Selected` is what SQL compares and
`Matches` what the loop compares again. Beside it, `VerifyXRPPayment` verifies `XRPPayment`
requests on the same tables: `payment` keeps the last one's end, so that the two
verdicts of one server can be compared. The transactions are in the terms of the
payment here (destination, amount, memo, tag, status), because both verifications look at them.

### VerifierBase, ConfirmedBlockHeightExists, Payment, ConfirmedAttestations

`VerifierBase` is `verifier-base.service.ts`: a verification ends in a status, a response
or an exception, and each endpoint makes an answer of it (`prepareRequest`,
`prepareResponse`, `verifyEncodedRequestFDC`). `mic` is `prepareRequest` without the
encoding, and an integrity code, being a hash of the whole response, is the response itself. `verifyFDC`
catches every exception of the verification and reports MALFORMED; a response of
AddressValidity is encoded whatever its status.

`ConfirmedBlockHeightExists` and `Payment` (with BalanceDecreasingTransaction) are the
operators of those verifications. `ConfirmedAttestations` is the life of one request:
`prepareRequest` runs the verification, the indexer goes on, `verifyFDC` runs it
again. `VerifyRequest` is `verifyRequestInternal` up to the first await; `ReadBlock`,
`ReadLowerBlock` and `ReadTransaction` are the reads with all that follows up to the
next await; `ReadFails` is a query that throws. `lowest` is the properties' own: the lowest
height whose rows the answer needs.

### IndexerApi

One request to the indexer API, of each route, and `UpdatePruneState`, the indexer's
other row. The routes of one read are one action; `block-range` reads the tip state and
then the prune state (XRP: one row), `transaction-block` reads the transaction and
then its block. A client that lists transactions asks for page after page
(`ListTransaction` repeats with the next `offset`) until one has fewer items than the limit. `matching` and `itemsOf` are what the
query builder does: with `returnResponse`, rows are joined with inputs and outputs, `limit` and
`offset` count joined rows, and `getMany` folds those of a page back into transactions.

### EVMNode, EVMTransaction

`EVMNode` (external) grows and retracts blocks; a block deeper than `ReorgDepth`
is never retracted. In each fork the transaction may be elsewhere, execute differently
or be missing. `EVMTransaction` asks for the head, the transaction and the receipt at once
(`awaited` are the answers of `Promise.all` still to come, in any order), checks
confirmations, and asks for the block by its hash. `Pending`, a transaction without a
block, makes `BigInt(null)` throw.

### AddressValidity, Web2Json, UnindexedAttestations

`AddressValidity` has the checks of an address in the code's order, per chain; what
base 58 and bech32 decoding make of the text (length, alphabet, checksum, version, groups of
bits) is the address. `IsEncoding` is what 25 bytes in base 58, and groups in bech32, look like as
text: their length and first character; these are facts of the encodings, not of this code. `Web2Json` has the validators: of the request (URL, endpoint and
authentication, headers, query, body, jq, ABI), of the addresses the name server
gave, and of the response. What URL, jq, JSON and ABI parsers make of a text is the text.
`checkJsonDepthAndKeys` is the recursive count of the code, with its running total and its early
end (`checkItems` is its loop, `carried` what one item leaves to the next); a value is a model value's type and its
parts, and `JsonAssumption` says that none is among its own parts. `Web2JsonWithinLimits` holds the count against the depth and the number of keys defined on the value.

`UnindexedAttestations` runs several calls at once. A Web2Json call goes through the
fail-fast check (`VerifyRequest`), `Lookup` or `LookupTimesOut`, `FetchAnswers` or `FetchFails`, and
waits for the pool (`PoolSettles`), each await interleaved with the other calls. The pool is
`JobService`, which may stand for `ProcessPool` because that refines it
(`PoolImplementsJobService`, `ImplementsJobService`). `resolved` and `fetched` are the
properties' own.

## 4. Runs

| run | question | distinct states |
|---|---|---|
| `pool_safety` | is any request, child or slot lost, doubled or left behind, before or after shutdown? | 8.6 million |
| `pool_liveness` | is every request settled, does the pool recover, is it a job service? | 291 thousand |
| `nonexistence_utxo` | are verdicts true of the chain, final and available, with forks and times that step back? | 5.0 million |
| `nonexistence_xrp` | the same for XRP's queries | 1.0 million |
| `nonexistence_source_failure` | can a failed query make a request INVALID? (it can: see 6) | - |
| `nonexistence_xrppayment` | does XRPPaymentNonexistence ever contradict the chain, or XRPPayment? | 1.8 million |
| `attestations_utxo` | does what was prepared verify, is it final, and is it refused only for want of data? | 1.4 million |
| `evm_transaction` | is a confirmed transaction that of one block that stays, and is a settled one confirmed? | 10.0 million |
| `indexer_api_utxo` | are pages, ranges and refusals of the indexer API true? | 350 thousand |
| `indexer_api_confirmed` | is a block by number a confirmed one? (it need not be: see 6) | - |
| `indexer_api_responses` | are the responses in a list whole? (they need not be: see 6) | - |
| `unindexed_attestations` | is every call answered, and is what is VALID in order? | 829 thousand |

**Bounds and why they are enough.**

* `pool_safety`: two children, so that one can be idle, dead or late while the
  other works; four requests of which one cannot be sent, and `MaxQueueSize` 1,
  so the queue is empty, full and refusing; `MaxFailures` 2, so a replacement
  may fail as well as the original. The three sendable requests are symmetric.
* `pool_liveness`: one child is the hard case for progress, since nothing but
  its timer can free the queue; three requests, one unsendable; two failures. No
  symmetry.
* `nonexistence_utxo`, `nonexistence_xrp`: `MaxHeight` 4 leaves room for a window of up to
  three blocks, the overflow block and one block dropped below; requests vary the lower end of
  the window, the deadline's height and its time, so that the gap between deadline and overflow
  block and empty or inverted windows occur. `SteppingTime` gives blocks 2 and 3
  the times 3 and 2. One unconfirmed header at a time, with the right or a forked
  time, is enough to be mistaken for the block sought. Each ledger holds one
  transaction of each kind at each height, or a payment beside an unreadable row.
* `nonexistence_xrppayment`: the same heights; transactions differ from the payment asked
  for in one respect each (every comparison has one that only it refuses); the payment stands
  before, in and behind the window, or beside an unreadable row. `LUT_FORK_TIMESTAMP` 3 puts blocks on both sides of the
  fork. No forked headers: XRP's queries take any row, and `nonexistence_xrp` has them.
* `attestations_utxo`: the same stepping chain and one forked header; windows of 0 to 2
  seconds, heights up to one beyond the chain, requests of a foreign source; for
  transactions every way a summary may end. The fork time 3 of the lowest used timestamp
  lies between the times of the window.
* `evm_transaction`: four heights and `ReorgDepth` 1, so a block can be replaced, settle and get
  two more confirmations; two forks whose logs differ in number and first index; one to three confirmations,
  and lists of events absent, all, reordered, too many and refused.
* `indexer_api_*`: three blocks of which one has two transactions, and a page limit of 2, so pages
  end within a block and at its end; every route; every combination of the ends of a range.
  `PagesComplete` speaks of lists with both ends within the indexed range, the only ones whose
  content is fixed, and without the joins of UTXO chains' responses, which are cut otherwise
  (`indexer_api_responses`). The runs are of UTXO chains; XRP's branches (a filter by source, one state
  row, no joins) are covered by the proofs, which hold for either `Source`.
* `unindexed_attestations`: two calls, of which one has every request that differs from
  a good one in one part (at, below and above each limit; JSON values with keys in one part or spread over several), and one place in the
  queue, so that it fills up between the fail-fast check and the pool call. Two calls of
  AddressValidity for every address of the bounded set: programs of 2 to 41 bytes, groups that fill no
  bytes, every version of every network.
* `CHECK_DEADLOCK FALSE`: in the pool all requests may be settled and all events
  delivered; the chains are finite and may be stored and dropped, or grown, altogether.
  `unindexed_attestations` checks for deadlock, and its end is an explicit step.

**Fairness** is assumed in two runs, and only of the parent's event
loop and of timers. `pool_liveness`: a handler that runs goes on (`ProcessQueue`), an armed timer fires
(`Timeout(r)`), a pending `error` or `exit` is delivered. Children owe nothing: they may
hang for ever, which is what the timer is for. Neither callers nor shutdown are fair. Answers need no
fairness, because the timer settles what an answer does not. `unindexed_attestations`: a settled
promise continues its call (`PoolSettles`), `withTimeout` and axios' timeout
fire (`LookupTimesOut`, `FetchFails`), and the pool keeps what `JobService` promises
while it is open. Neither name server nor source must answer.

**What the properties say** is written above each of them in the modules. The
type invariants apart:

* pool: `NoLostWakeup`, `NoLostRequest`, `ExclusiveWorker`, `PoolStaffed`,
  `NoOrphanProcess`, `NoAbandonedWork`, `SettledOnce`; liveness `SubmittedSettles`
  and `PoolRecovers`; refinement `ImplementsJobService`.
* verdicts: `NonexistenceSound`, `ExistenceSound`, `NoContradiction`, `ResponseFinal`,
  `LowestUsedIsFinal`, `UnavailabilityJustified`, `PreparedVerifies`, `ResponseSettled`,
  `SettledIsConfirmed`.
* indexer API: `PagesComplete`, `RangeStored`, `NotFoundJustified`.
* without an indexer: `Web2JsonSound`, `Web2JsonWithinLimits`, `AddressAsSpecified`; liveness `AlwaysAnswered`.

Two have an exception that matters to whoever uses the system. By `PreparedVerifies` a
ConfirmedBlockHeightExists request may come to another response than the one it was prepared with in
one way only, where the chain's times step back by more than the window: the lower window block is the
highest one with an early enough time, which may be a block above the requested one that appears after preparation
(the run goes through this case). The property says nothing of what a provider makes of such a request.
`ResponseSettled` holds for requests of more confirmations than the chain reorganises
*and* grows during a verification, since the head is read independently of the transaction.

Each property of a passing run has a mutant: an operator beside the original
(`..._NoKill`, `..._OffByOne`) that is the code with a plausible bug, under which the
run finds that property violated.

## 5. Proofs

`ProcessPool_proofs`, from `PoolAssumption` alone (at least one child; the code takes
the number of CPUs) and for any number of requests, children and failures:
`TypeCorrect`, `WakeupSafe`, `RequestsKept`, `WorkersExclusive`, `PoolKeepsItsSize`,
`NoOrphans`, `WorkNotAbandoned`, `SettledForever`, and `PoolImplementsJobService`: `SafeSpec`
implies the safety half of `JobService` under the refinement mapping.

None of these is inductive as it stands. `IInv` is their conjunction with what ties the pieces
together: every child known to anything is numbered below `idCounter`, so a new child is really
new (`ChildIds`); a request stands in the queue once (`QueueOnce`); the managed children are finitely
many, and none after shutdown (`Staffing`); a child whose end is still to be reported does not run
(`Processes`); and only requests that were started are in the pipes, once (`Messages`). The point to
see is that the available list may hold a child that is dead and no longer managed (its `exit`
overtook its answer): exclusiveness must not be stated for `workers` only, and
`NoLostWakeup` survives because a request given to such a child still has its timer. The lists
and `handleWorkerExit` have lemmas of their own, the two ways a child is given up (its `exit` or an idle
`error`; a timeout, a busy `error` or a failed send) share one each, and there is one lemma per action.

`ReferencedPaymentNonexistence_proofs`, from `IndexerAssumption` and `RequestAssumption` and for
chains, requests, forks and histories of any size: `TypeCorrect`, `NonexistenceIsSound`,
`ExistenceIsSound`, `ResponseIsFinal`, `UnavailabilityIsJustified`. `IInv` says, for each read already
made, what it still means while the indexer writes: the overflow block is a confirmed block of the
chain, and no stored block below it overflows (`OverflowInv`); the state row has reached its
predecessor (`CompleteInv`); every row found is on the chain and in the window, and until the minimal
block is read nothing of the window that is still stored was missed (`FoundInv`); if the minimal block
was then found, nothing was missed at all (`WindowInv`). The last step is why the code must read the
minimal block *after* the transactions. `AnswerInv` keeps what `answerable` promised until the
minimal block is dropped.

`IndexedQueryManager_proofs` has what these rest on and other readers of the tables will: what
each query returns (`ConfirmedBlocks`, `BlockRowProps`, `OverflowResult`, `BlockResult`,
`LastBeforeResult`), what the indexer keeps (`DBInitInv`, `DBUnchanged`) and how it
may move between two reads (`IndexerMoves`).

`XRPPaymentNonexistence_proofs`, from the indexer's assumptions and `XrpRequestsAssumption`
(requests and transactions have the DTOs' types): `TypeCorrect`, `NonexistenceIsSound`,
`PaymentsAndAbsenceAgree`, `LowestUsedTimestampIsFinal`. The same knowledge read by read, in which
`FoundAll(n)` says that every transaction of block `n` that SQL selects was found. `Selected` must
then let through everything that `Matches` counts (`MatchesSelected`). That a payment and its
absence never contradict takes no comparison of the two verifications: `PaymentInv` ties a
confirmed payment, and `NonexistenceSound` an absence, to the same final ledger, and a payment that
shows what the absence denies is a transaction that matches.

`ConfirmedAttestations_proofs`, from the indexer's assumptions, `RequestsAssumption` and
`TransactionIdAssumption` (an id names one transaction of one block: it is the primary key of
its table, `utxo-entity-definitions.ts:72`, `xrp-entity-definitions.ts:54`): `TypeCorrect`,
`ResponsesAreFinal`, `PreparedRequestsVerify`, `UnavailabilityIsJustified`. `ContentInv` says what
each response is made of: the rows of the requested block and of one whose time
is before the window with none such between the two, or a transaction of the ledger. Only here do prepared and verified
response meet: two lower blocks that both satisfy `IsLower` are the same one unless one of them is above
the requested block; and by `LowerInv` the later one is never below the earlier one, because what
the indexer drops is below all that it keeps. `LowestInv` carries what was stored when a
verification began to the read that needs it. Uniqueness of ids was not assumed before the proof of
`PreparedRequestsVerify` asked for it.

`EVMTransaction_proofs`, from `NodeAssumption` and `EVMRequestsAssumption`: `ResponsesAreSettled`
and `SettledTransactionsConfirm`, for any chain, any number of forks and any depth of reorganisation.
The heights `ReorgDepth` below the head at the beginning (`Stable`) keep their blocks; `TxInv`,
`ReceiptInv` and `Settles` say what each of the concurrent answers, given at a time of its own, tells of
them, so that all orders of the answers are one case.

`IndexerApi_proofs`, from the indexer's assumptions, `ApiAssumption`,
`TransactionIdAssumption` and `FiniteAssumption` (a block has finitely many transactions):
`ReportedRangesAreStored`, `RefusalsAreJustified` and `PagesAreComplete`. The tables grow at
the top only, so what was stored at the beginning stays below the upper end of its table
(`StoredInv`), and a read that finds nothing leaves the lower end, a row dropped since, as the
only reason. For the pages: as long as nothing of the range was dropped, the rows that match are the
same in every query (`MatchingRows`), and they can be ordered in one way only (`SortedUnique`: at the
least index at which two orders differ, the row that one of them puts there comes too late in the
other; ids break the ties). So pages that were queried at different times are pages of one sequence;
`PagesInv` says that what was listed is its beginning, up to `offset`, and a page that is not full
ends it (`PageStep`).

`UnindexedAttestations_proofs`, from `CallsAssumption`, `EncodingAssumption` (an address is one that base 58
or bech32 can write) and Web2Json's configuration types, for any number of calls and any length of the
pool's queue: `ValidDataPassedChecks`, `ValidDataWithinLimits`, `AddressesAsSpecified`, and `CallsUseJobService` (whatever the
calls do, the pool takes a step of `JobService` or none, which is what permits `JobService` there in
place of `ProcessPool`). A call carries what it has passed from one await to the next (`CallInv`); `PoolInv`
makes a result stay once it is there. `AddressesAsSpecified` is a fact about the code's checks alone: the
networks' rules speak of bytes and versions, the code also of the text's length and first character, and
`IsEncoding` is exactly what makes the two agree.
The proof attempts changed two statements. `Web2JsonSound` had said of ABI signatures
what was true of the signatures in the run only; it now says what the code checks. Its limits on
depth and keys became a property of their own, `Web2JsonWithinLimits`.

`ValidDataWithinLimits` compares recursive functions on JSON values, `checkJsonDepthAndKeys` with
`Depth` and `Keys`. The library's induction theorems take operators as parameters, which the
provers cannot instantiate, so recursion and induction are derived here, for sets in place of
operators. By `JsonAssumption`, a nonempty set of values has one with no part in the set
(`LeastValue`); hence a set that has a value whenever it has the value's parts has all
(`ValueInduction`), and an equation that gives a function at a value from its values at the parts has
a solution (`SolutionExists`), so that what is written as a recursive function satisfies its equation
(`CheckDefined`, `DepthDefined`, `KeysDefined`). The loop over the items is the same over their number (`LoopExists`).
`ChecksCount` is then an induction over the value and, within it, over its items: a check that ends
valid has counted exactly the keys of the value on top of those it was given, stayed within their limit,
and met no level deeper than allowed.

Only model-checked:

* `SubmittedSettles`, `PoolRecovers`, `AlwaysAnswered` and the liveness half of `ImplementsJobService`:
  temporal reasoning under fairness is beyond the prover.
* what the violation runs refute.

## 6. What the development found

* **Divergence** (`nonexistence_source_failure`). `UtxoIndexQueryManager.ts:66` catches every
  error of the state query and goes on with height 0, so a request whose answer is in the
  database gets `INVALID: BLOCK DOES NOT EXIST`. `response-status.ts:18` provides
  `SYSTEM_FAILURE`, an indeterminate status, for "Source failure - error in checking". The XRP
  manager lets the error through.
* **Divergence** (`indexer_api_confirmed`). `utxo-indexer.service.ts:143` selects a block by its
  height only, so the row may be that of a fork; `indexer.controller.ts:87`: "Blocks that are not
  confirmed yet cannot be obtained using this route."
* **Divergence** (`indexer_api_responses`). With `returnResponse`, `limit` and `offset` count
  joined rows (`utxo-indexer.service.ts:250`), so a page may begin or end within the inputs and
  outputs of a transaction, whose response is then not whole.
* Behaviour that no document speaks of, and that the model or its writing shows: an endpoint
  configured with a port can never match, because it is compared with a host name
  (`validate-request.ts:74`); every exception of a verification, a full pool included, is
  MALFORMED to a provider (`verifier-base.service.ts:105`); the request of a child that
  crashes is not settled by the crash but by its timer, as `PROCESSING_TIMEOUT`; a request submitted
  after shutdown is queued and never settled (hence `SubmittedSettles` is about requests submitted
  before); a child that cannot be forked is replaced at once and without delay; a child whose `exit`
  overtook its answer is offered once more, and the request it gets times out or fails.

## 7. Not modelled, and why

* Encoding, jq and ABI evaluation, URL parsing, base 58, bech32 and their checksums, mcc's
  transaction summaries: pure functions of long strings, out of TLC's reach; their results
  are inputs of the models.
* What normalises a text before it is compared: a leading slash added to a configured path, jq filter names
  in lower case. The cache in which ethers keeps the answers to equal calls for an instant: an answer
  of `EVMNode` is of a moment after its call.
* Controllers: routing and documentation. DTOs: the validation of single fields; their shapes are
  the record sets of the models. Health routes and the version route read constants.
* Configuration, authentication, logging, bootstrap: read once at start, or I/O only.
* Build scripts: not part of the running server.
* `getLatestBlockTimestamp` and `getBlockByHash` of the query managers: no verification calls them.
* `limit=0` in lists of transactions: what typeorm makes of it is not in this code.
* The filters of XRP's lists by destination tag and memo: they are like the one by source, which is modelled.
* Time: a timer may fire at any moment, which covers every duration.
* A `fork()` that throws at once (out of memory): it ends the parent process.
* The rate of forks, memory and CPU of children.
* Integers beyond 2^53: `deadlineTimestamp` is not bounded by the code; times in the
  model are small, and a query that fails for that reason is `ReadFails`.
