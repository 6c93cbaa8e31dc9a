# TLA+ specifications of S2AX

S2AX (module name `sub2api`) is a gateway that resells access to AI providers:
users pay for balance or subscriptions, requests are forwarded through pools of
upstream accounts, and every request is billed. The server (`src/backend`, Go)
may run as several processes against one Postgres database and one Redis. This
directory specifies the parts of it that handle money, mutual exclusion and the
caches that requests are admitted and routed by, checks them with TLC on small
instances, and proves their safety properties with TLAPS for all values of the
constants.

Paths below are relative to `src/backend/internal` unless they begin with `src/`.

## 1. Inventory

What all parts have in common: goroutines of several processes share nothing but
rows of Postgres and keys of Redis. There are few transactions that span more
than one step of a workflow; instead, workflows are made of conditional updates
(`WHERE status = ...`), unique indexes, leases with a time to live, and audit rows
that later steps look at. What is hard is therefore always the same: what another
goroutine, a crash, a lost answer or a long pause does between two statements.

| Part | State | Operations | Hard behaviour | What makes it correct |
|---|---|---|---|---|
| Order fulfilment (`service/payment_order.go`, `payment_order_lifecycle.go`, `payment_fulfillment.go`, `redeem_service.go`) | order row, redeem code, audit rows, provider's order | create, webhook, cancel, expire, verify, reconcile, fulfil, retry | webhooks repeated and late, cancel against payment, lease takeover, crash between grant and completion | granted once, only for money received; completed means granted; money never forgotten |
| Refunds (`service/payment_refund.go`) | order row, balance, audit rows, provider's refund | request, prepare, execute, query and finalize | deduction before the provider's answer, rollback that fails, lost audit rows, two administrators | refunded means returned; one refund at a time; balance taken is accounted for and bounded |
| Idempotent execution (`service/idempotency.go`, `repository/idempotency_repo.go`) | idempotency record | execute, renew, cleanup | stale reads before a takeover, expiry, crash after the effect, detached executions | one executor, one effect per record lifetime, replay of the right answer |
| System operation lock (`service/system_operation_lock_service.go`) | one idempotency record | acquire, renew, release | renewal failing, release racing the renewal | one update, rollback or restart at a time |
| In-flight reservation and balance cache (`service/billing_inflight_reservation.go`, `repository/billing_inflight_cache.go`, `service/billing_cache_service.go`, `service/gateway_usage_billing.go`) | cached balance, reservations, reference counts, queued cache writes, users row | check, reserve, renew, hand over, charge, sync, release | asynchronous billing after the handler, stale reads, dropped tasks, expiry | requests do not overdraw together; a reservation lives exactly as long as it must |
| Batch image jobs (`service/batch_image_*.go`, `repository/batch_image_*.go`) | job status, frozen balance, queue | submit, hold, poll, settle, capture, release, recover | hold, capture and status in different transactions, retries running out | a hold is captured or released, once |
| Usage billing (`repository/usage_billing_repo.go`) | dedup rows and archive, balance, quotas | apply | duplicate request ids against archiving | a request is billed once |
| Concurrency slots (`service/concurrency_service.go`, `repository/concurrency_cache.go`) | sorted sets of slots, wait counters, leases | acquire, wait, refresh, release, cleanup | leases that expire while in use, counters without owners | never more than the limit; slots come back |
| Scheduler snapshot (`service/scheduler_snapshot_service.go`, `repository/scheduler_outbox_repo.go`) | outbox, watermark, snapshots per bucket | poll, rebuild, full rebuild | ids committed out of order, old rebuild after a new one | every event reaches the snapshot |
| Auth cache invalidation (`service/auth_cache_invalidation_outbox.go`) | outbox with claims, caches | claim, first and second pass, retry | readers that refill with old values | a revoked key disappears from every cache |
| Platform quota flusher (`service/user_platform_quota_flusher.go`) | dirty set, usage in Redis and Postgres | increment, flush, reset | snapshot taken before a reset and written after it | usage is not lost |
| Virtual currency (`service/virtual_currency*.go`, `repository/virtual_currency_repo.go`) | accounts, holds, ledger | hold, capture, release, expire | expiry against capture | ledger and balances agree |

Interactions. A webhook or a ticker drives the order; fulfilment calls the redeem
service (balance) or the subscription service (days) and the affiliate service; a
refund takes back from the same balance that usage billing charges. Admin
operations, payments among them, run under the idempotency coordinator, and the
system operation lock is built on the same table. A gateway request passes the
eligibility check and the reservation (Redis), is forwarded, and hands its
reservation to a task of the usage record pool, which charges the users row and
then the cached balance. Before that it has looked up its API key in the
authentication caches, taken a slot of the user and of an account (a WebSocket
connection: a lease), and chosen the account from the scheduler's snapshot. A batch
image job holds part of the same balance until it is settled, and shares the
request-id table with usage billing.

The rest of the repository is listed in PROJECT.json with the reason why it is not
modelled: protocol translation and streaming (`service/*gateway*`, `openai_*`,
`gemini_*`, ...), clients of external services, dashboards and metrics, plugin
processes, CRUD, generated code (`src/backend/ent`) and the user interfaces
(`src/frontend`, `src/mobile-android`).

## 2. Plan

Done, in this order: `PaymentContract` and `PaymentFulfillment`, `PaymentRefund`,
`IdempotencyStore` and `IdempotentExecute`, `SystemOperationLock`,
`InflightReservation`, `BatchImageBilling`, `BatchImageQueue` and their composition
`BatchImageHold`, `AuthCacheInvalidation`, `SchedulerBucket` and `SchedulerSnapshot`,
`WSIngressLease`, `ConcurrencySlots`; then the proofs about all of them, the safety of the
system operation lock, of the balance under several reservations and of the
authentication caches last.

To model if the project is extended: the archive of request ids in usage billing,
the quota flusher against admin resets, virtual currency holds, live leases.

The number of runs is kept small on purpose: one for each component, and one for each
disagreement between the code and what it says of itself that can be read off one
trace.

## 3. Modules

| Module | Models |
|---|---|
| `PaymentContract` | abstract: receive, grant, rebate, settle, each once and in this order |
| `PaymentFulfillment` | one order from its committed PENDING row to COMPLETED |
| `PaymentRefund` | refunds of one completed balance order |
| `IdempotencyStore` | the statements of the idempotency repository on one row |
| `IdempotentExecute` | `IdempotencyCoordinator.Execute` on one key |
| `SystemOperationLock` | the lock around update, rollback and restart |
| `InflightReservation` | admission, reservation and billing of one user's requests |
| `BatchImageBilling` | the hold of a batch job: reserve, capture and release, each claiming a request id in its transaction |
| `BatchImageQueue` | the Redis queue of batch jobs: ready, processing, lock, delayed retry, stale recovery |
| `BatchImageHold` | one batch job over both: submission, cancellation, sweep, workers, settlement |
| `AuthCacheInvalidation` | one API key in the local caches and in Redis, with the invalidation outbox and its messages |
| `SchedulerBucket` | the scripts that publish, retire and reopen the snapshot of a bucket |
| `SchedulerSnapshot` | one group's bucket with the outbox, the poll, the full rebuild and lookups |
| `WSIngressLease` | the leases of one API key's WebSocket connections, in time |
| `ConcurrencySlots` | slots and wait queue of one user over several instances |
| `*Proofs` | theorems about the module they are named after; `ConcurrencySlotsProofs` also about `SystemOperationLock`, `WSIngressLeaseProofs` also about `AuthCacheInvalidation` |
| `MC*` | the roots of the runs, with the symmetry sets where symmetry is used |

Definitions keep the names of the Go functions; PROJECT.json maps each one to its
lines. Definitions whose comment begins with `Mutant:` are wrong variants of the
definition after them and are not used by any specification; they exist to show
that the properties can fail.

**Granularity.** One step is one SQL statement or transaction, one Redis script,
one call to a payment provider, or the operation that an idempotent request
carries out. Everything a handler does between two of those touches only its own
variables.

**PaymentFulfillment.** Workers are goroutines: webhook deliveries, user and admin
requests, tickers. `pc` says which statement comes next. Time is used in the code
only as `updated_at <= now - 5 minutes` (lease, and grace period of expired
orders) and `expires_at <= now`, so the clock is two booleans, `old` and `due`.
`updated_at` is also the fencing token of the fulfilment lease; since every update
writes a new value, the model keeps the set `holders` of workers whose version
equals the stored one. `CreateOrder` after its transaction is an actor of its own
(`creator`), because its last write is unconditional. The provider is external:
it may lose, repeat and delay webhooks, refuse to close a paid order, and fail.
Failing statements under the lease lead to `markFailed`, elsewhere to a return.
`answered` is the HTTP answer to the genuine webhook: an error is answered 500 and the
provider delivers again, 2xx ends its retries. Several paths answer 2xx although an error
kept the delivery from being acted upon (no matching provider instance, an order that
cannot be read, a lost update whose order cannot be read again or whose audit row cannot be
written): `answered` is then `"unheard"`. `groupActive` is the status of a subscription
order's group, which administrators change at any time; without it the order fails at every
attempt. A genuine webhook's signature is taken to verify.

**PaymentRefund.** `plan` is the `RefundPlan` a request carries between its
statements. The audit table has a unique index on order and action, so the second
`REFUND_PENDING` row of an order is silently lost and a second `REFUND_SUCCESS` row
aborts its transaction: `pendingDetail` and `audit` model both. Histories (`taken`,
`overruled`, `died`, `unlogged`) record what properties speak of and are
read by no action. `SpendBalance` stands for usage billing, which may drive the
balance below zero. The answer to a query of a pending refund may be invalid or carry a
status nobody knows, which the code takes for a failed refund whatever became of it. A
statement that fails has had no effect: an update whose answer is lost is left out.

**IdempotencyStore, IdempotentExecute.** The store's operators are the statements
with their WHERE clauses; `locked_until` NULL is 0. A request carries the `now` it
read at its beginning and the row it read before a takeover, as the code does.
`effects` counts effects in the present lifetime of the record: from its claim as a
missing row, or as one that has expired by the present time, to the next such claim. A
request that read an expired row and takes over the live one that replaced it does not begin
a new lifetime; if that row had succeeded, `retaken` records it. `late` records
that a claim was made after its own lease had run out or an execution outlived its
record. An operation that returns an error is taken to have had no effect. Requests in `Detached` have an `ExecutionTimeout` and a renewal goroutine.

**SystemOperationLock.** The same store with the operation id as fingerprint. The
clock counts renewal intervals (a third of the lease) and waits for a renewal that
is due or under way: one that takes longer is a failing one, and counted as a fault. A
failing renewal may have had its effect. `Acquire` writes times that it computed
when it began and may be as slow as `MaxAcquire` intervals. `created` holds the
operations that inserted the row they hold, and `missed` for how many intervals such a
holder has been without a confirmed renewal.

**InflightReservation.** `fills` and `deducts` are the tasks of the cache-write
queue, executed in any order by the workers; a load of the balance may be joined
by other calls (singleflight) until the caller that loads goes on. `refs` is the
reference count of the handle and `held` the members of the Redis set. There is
no clock: a reservation that nobody renews may expire at any time once it is of no
use, and earlier only by a fault. A charge is at most the estimate, which the code does not
guarantee, and a transaction that fails charges nothing (a lost answer to its commit is left
out). The sum that the
reservation script computes is the number of reserved units (`Total`), which needs no
recursion; the run compares it with a fold. Two histories
name the exceptions of the properties: `lapsed` (a request went on without a
reservation: fail-open, early expiry, or a charge that missed the cache) and
`raced` (a balance read before a charge reached the cache was used after it).

The remaining modules use a history `gaps` (`gap` in `SchedulerSnapshot`) in the same way. The code tolerates certain
schedules, most of them repaired by a time to live or a periodic job; each has a name,
is recorded where it happens, and is an exception of the properties it affects.
Everything else must hold without exception. No guard reads them.

**BatchImageBilling, BatchImageQueue, BatchImageHold.** The three transactions of a hold
each insert a request id of their own; a second one is a no-op. The queue is one job's
place in the Redis lists and its lock. The job has one submission, calls of `Cancel`,
the sweep for stuck submissions and workers, each a program counter over the
statements. A call that fails may have had its effect. Gaps: `orphaned` (a crash or an
error left nobody whose turn it is), `burned` (the release was claimed before the hold
existed), `slipped` (a capture reported as failed is in force, and the job is then
failed and released), `outlived` (a worker went on after its lock expired), `upstream`
(the job at the provider was not stopped: a call failed or a process died, or, without any
failure, `Cancel` had read the job before its provider name was stored and cancels it after).
`served` says that the job's provider, account and key can be resolved. They may stop to be,
for good: the worker's and the settlement's errors then requeue the job without counting a
failure (`Unserved`), and `Cancel` fails before it has changed anything.

**AuthCacheInvalidation.** A snapshot of the key is the number of changes it has seen.
A lookup goes through the local cache, Redis and the database and fills both on its way
back, with any step of anybody in between. An event is claimed, invalidated, published,
and invalidated and published a second time after `authInvalidationSafetyDelay`. That
delay may pass only when the lookups that began before the first pass are over; a slower
lookup is a fault. Gaps: `slow` (that fault), `straddle` (a lookup read Redis before the
second pass deleted the entry and fills its local cache after the message), `missed`
(the message of the second pass reached no subscriber).

**SchedulerBucket, SchedulerSnapshot.** The content of a snapshot is the number of changes
committed when it was loaded, and `era` the number of retirements at that time. Versions
are kept only as their order, the pairs `allocated` of writers that have a version newer
than the active one. Pollers, full rebuilds and lookups are writers: they take the bucket's lock (or, for
lookups, do without), capture an epoch, load, allocate a version and activate it. A change
is either a transaction with its outbox row, or a change followed by an insertion that may
be lost. A few steps that cannot be told apart are merged: taking the lifecycle lease and
reading the group; retiring or reopening and giving up the lease; reading the registered
and the active groups. The extra rebuild of a lagging outbox and copies of single accounts
are left out. `unhandled` holds the events that no poll has read and gone through with;
an event stays there for good when its id is below the watermark by the time it becomes
visible. The bucket is a mixed one (Anthropic or Gemini) and the account an antigravity
account that belongs to it while `mixed` (its mixed_scheduling) is on. A bulk event
rebuilds the bucket in any case, an event of one account only if the account belongs to it
when the event is handled (`Chosen`). An account that belongs to its buckets for good is the
same with `mixed` never turned off. `gap` records that one of these has happened: a
transaction found its event pending and committed after that event was read (`Suppressed`);
the insert of an event failed (`EnqueueLost`); a poll skipped a bucket that somebody else was
rebuilding (`TryLockBucket`); older data was published after newer (`Overtaken`); an update of
one account turned its mixed_scheduling off (`Left`). Three things that the code may do more
are left out, all of which could only publish older data over newer, that is, end in
`Overtaken`: a lookup that publishes because a snapshot is empty, lacks the copy of an account
or cannot be read, and the query that buckets of one batch share.

**WSIngressLease.** Time is discrete and `age` counts from the last score of the member.
Every script first removes expired members, so an expired member and a missing one are the
same. A call is answered or given up within `OpTimeout`; the Redis client does not apply
a context's deadline to its socket, so that this constant stands for the operation's
timeout and the client's own together, and it must be shorter than the refresh interval.
A command that was given up may run at any later time, and may run twice. There is no
bound on faults. How long it takes to close a connection that was cancelled is not timed.
Redis keeps scores in whole seconds, so that a member may expire up to a second before the
model's; the bounds of the properties are short by as much.

**ConcurrencySlots.** A request stands for its slot and runs while its client is there,
since the slot is given back when the client leaves. `drift` counts by how much the wait
counter may fall short of the queue. The counter's time to live (120 s) is longer than a
request may wait (30 s), so it passes only when
nobody who is counted waits (`counted`). In the code every increment renews it: a count that
leaked stays for as long as the user's requests go on, and `CapacityReturns` speaks only of
what happens once they have ended. A restart ends an
instance's requests and starts its sweep, which does not wait for the others. Gaps:
`outlived` (a request ran longer than its slot's time to live), `swept` (the sweep removed
the slot of a request that another instance was serving). The slots of accounts go through
the same scripts.

## 4. Runs

| Run | Properties | Result |
|---|---|---|
| `fulfillment_safety` | `TypeOK`, `GrantedAtMostOnce`, `GrantedOnlyIfPaid`, `CompletedIsGranted`, `PaidNeverReopened`, `CompletedIsFinal`, `ImplementsContract`, `PaymentIsSettled` | hold, the last under fairness |
| `refund_safety` | `TypeOK`, `RefundedMeansReturned`, `RefundIsExclusive`, `TakenIsAccountedFor`, `TakenAtMostAmount`, `RefundedIsFinal`, `RefundNeverOverdraws` | hold |
| `idempotent_execute` | `TypeOK`, `OneExecutor`, `OneEffect`, `ReplayMatches` | hold |
| `system_lock` | `CreatorKeepsLock` | hold |
| `system_lock_busy` | `OneSystemOperation` | violated |
| `inflight_reservation` | `NoJointOverdraft`, `HeldUntilDeducted`, `NoLeakedReservation` | hold |
| `batch_hold` | `OthersStayFrozen`, `EndMatchesCharge`, `NoUpstreamOrphan`, `HoldIsResolved` | hold, the last under fairness |
| `batch_hold_leak` | `HoldNeverLeaks` | violated |
| `auth_cache` | `NoStaleAfterLastPass`, `ChangeReachesEveryone` | hold, the last under fairness |
| `scheduler_snapshot` | `NoSnapshotFromBeforeRetirement`, `DrainedMeansFresh`, `SnapshotConverges` | hold, the last under fairness |
| `ws_ingress_lease` | `OverrunIsBounded`, `LimitHolds`, `LostOnlyAfterFailure`, `OccupiedMeansThere` | hold |
| `concurrency_slots` | `RunningWithinLimit`, `QueueWithinLimit`, `NothingLeftBehind`, `CapacityReturns` | hold, the last under fairness |

Three runs list `TypeOK`. The others check only what the variables say of each other; the
types are proved for them too.

**Bounds.**

- Fulfilment: two workers and two faults. Every race in the code is between two
  goroutines on the row; a takeover needs an owner and a successor, and a fault to
  make the owner lose its lease. Symmetry is not used here or in any run that checks
  liveness.
- Refunds: two requests, amount 2 (so that a partial refund and a partly covered
  deduction exist), a starting balance from -1 to 3 (more than the amount, so
  that a second deduction has something left to take), one fault.
- Idempotency: two requests (one detached), two payloads, lease 1, time to live 2,
  clock up to 4, two faults: enough for a record to be claimed, to expire while it is
  being executed, to be taken over and to expire again.
- System lock: three operations and two faults, which may be two renewals in a row; the
  lease is three renewal intervals, as in the code, and an `Acquire` may take as long as
  a lease. The time to live is no longer than the run in `system_lock`, so that clean-up
  removes rows. `system_lock_busy` has two operations, no fault, no slow `Acquire` and a
  longer time to live, so that nothing but the takeover is to blame.
- Reservation: three requests (one that has been charged, one that holds, one that
  is admitted), estimates 1 and 2, opening balance 2, a cache-write queue of one,
  one fault.
- Batch: one job, two workers (one may have lost its lock), one `Cancel`, a hold of 2
  next to 2 of other jobs, a result that costs less (1) or more (3) than the hold, two
  attempts to settle, two faults, losses of the service or repeated submissions.
  `batch_hold_leak` has one worker and no faults, so that its trace is the race of `Cancel`
  alone.
- Authentication cache: two instances with one lookup each (who may be the owner of the
  event or not), one change, one fault.
- Scheduler: one poller, one full rebuild and one lookup that publishes; two changes of
  the account or of the group, so that a group is deactivated and activated again, or an
  account changes, joins or leaves the bucket while an event is pending; a batch that may
  hold both; one fault. Bulk events do not occur in the run; the proofs include them.
- WebSocket leases: two connections and a limit of one; time to live 6, interval 2, call 1,
  in the proportions of the code (60, 20 and at most a few seconds) rounded up.
- Slots: four requests of two instances for one slot and a queue of two, so that the queue
  is full while somebody runs and one more is turned away; two faults.

CHECK_DEADLOCK is off where the system may really come to rest (a refunded order, the
end of a bounded clock, requests that have all ended, fresh caches and an empty outbox,
a job that has ended).

**Fairness.** Faults are bounded and never fair: the liveness properties say what
happens once faults cease. Everywhere, weak fairness of a started goroutine's or worker
loop's steps is justified by calls that have timeouts and by loops that the process runs
for as long as it lives; weak fairness of an expiry, by time passing.

- Fulfilment: workers, `Age`, and strong fairness of the delivery of a genuine webhook
  as long as none was answered 2xx (`Redeliver`); after that nothing is assumed of the
  provider, so that an order that is not done by then depends on its own goroutine. That the
  provider goes on until the first 2xx is an assumption: real providers give up after days.
  Nothing is assumed of customers, administrators, tickers or the provider's other
  answers. A stall of the lease owner for five minutes is a fault.
- Batch: the submission, the sweep, begun cancellations, the workers and the queue's
  upkeep go on, and the provider's job ends. Nobody has to cancel, and an account that
  stopped to serve need not come back.
- Authentication cache: begun lookups, outbox workers, messages and reconnection go on.
  Nobody has to look the key up, and no cached entry has to expire.
- Scheduler: polls and periodic full rebuilds go on (the latter need
  `FullRebuildIntervalSeconds` above zero), begun changes end, locks and leases expire.
  Nobody has to look anything up, and a lookup may stop half way.
- Slots: begun requests end, times to live pass, sweeps finish.

**What the violations show.** Each of these two runs checks one statement that the
repository makes about itself; PROJECT.json quotes it.

- `system_lock_busy`: a reclaimed lock keeps the fingerprint of the operation that
  created the row, so its new holder cannot renew it and loses it after one lease.
- `batch_hold_leak`: a `Cancel` between the insertion of the job and the reservation of
  its hold claims the release's request id and finds nothing to release. The hold is
  reserved after that and no later release has any effect: the balance stays frozen.

**Other behaviour met while modelling.** The models contain these; the properties are
stated so that they hold beside them.

- A webhook may be answered 2xx after an error that kept it from being acted upon
  (`NotificationUnheard`, `AlreadyProcessed`). The provider does not deliver again, and the
  payment waits for somebody to verify or retry the order: `PaymentIsSettled` excepts it, and
  an order whose subscription group is out of service.
- The lease version of a fulfilment is read back in a second statement, so a worker that
  pauses between the two adopts the version of the next owner and may fail the order
  under it. Nothing is granted twice.
- After a failed rollback the finalization of a pending refund deducts again, because it
  goes by the first `REFUND_PENDING` row only; a refund asked for without deduction
  that the provider answers with "pending" deducts when it is finalized.
- The takeover of an idempotency record compares id, status and lock but not the expiry;
  of two requests that read the same expired success, the second takes over the new
  success of the first and repeats its effect (`retaken`, the second exception of
  `OneEffect`).
- The cached balance is read before the reservation script and passed to it, so that a
  charge in between counts on neither side of the comparison (`raced`).
- The scheduler's outbox keeps rows for a grace period so that late commits are still
  found, but the poll never reads below its watermark (`unhandled`); the periodic full
  rebuild is what repairs this (`SnapshotConverges`). Reading the row is not enough either:
  with two instances, a row that becomes visible late may be read by a poll that then
  fails, while the other instance's poll, which began before, sets the watermark past it.
  Proving `DrainedMeansFresh` for any number of pollers brought this out: an event counts
  as handled only when its poll went through with the batch.
- A batch job whose provider, account or key can no longer be resolved is requeued for
  ever, and `Cancel` fails for the same reason: its hold stays frozen until the account
  serves again. `HoldIsResolved` excepts it (`served`).
- An update of one account that turns mixed_scheduling off leaves it in the snapshots of
  the mixed buckets, because `rebuildByAccount` chooses the buckets by the account as it is
  now; a comment in `handleBulkAccountEvent` says of bulk updates that they must be cleaned.
  The full rebuild repairs it.
- A starting instance sweeps the slots and the wait count of instances that are alive
  (`swept`, `drift`).
- A WebSocket connection is cancelled not one time to live after its last confirmed
  refresh but up to an interval and a call later (`OverrunIsBounded`).

## 5. Proofs

TLAPS proves, from the assumptions on the constants that the modules state and for
any number of workers, requests, instances, faults and amounts:

| Module | Theorems | Inductive invariant |
|---|---|---|
| `PaymentFulfillmentProofs` | `TypeCorrect`, `AtMostOnce`, `OnlyIfPaid`, `CompletedGranted`, `NeverReopened`, `CompletedFinal`, `Refinement` | `TypeOK /\ MoneyInv /\ MarkInv /\ OrderInv` |
| `PaymentRefundProofs` | `TypeCorrect`, `RefundedReturned`, `Exclusive`, `TakenBounded`, `TakenAccounted`, `RefundedStays`, `NeverOverdraws` | `TypeOK /\ ReturnInv /\ RefundIsExclusive /\ TakenInv`, and `HoldingInv` on top of it |
| `IdempotentExecuteProofs` | `TypeCorrect`, `Exclusion`, `EffectOnce`, `ReplaySound` | `TypeOK /\ IdInv /\ ExecInv /\ EffectInv` |
| `InflightReservationProofs` | `TypeCorrect`, `HeldToTheCharge`, `NothingLeaks`, `NobodyOverdraws` | `TypeOK /\ RefInv /\ HeldUntilDeducted /\ LeakInv`, and `CostInv /\ CoverInv` on top of it |
| `BatchImageHoldProofs` | `TypeCorrect`, `OthersSafe`, `ChargedAsEnded`, `UpstreamKnown` | `TypeOK`, `JobInv`, `WorkerInv`, `EndedInv`, `ClaimInv`, `LockInv`, `SettleInv`, `OthersStayFrozen`, `UpstreamInv` |
| `SchedulerSnapshotProofs` | `TypeCorrect`, `FencedByEpoch`, `FreshWhenDrained` | `TypeOK /\ FenceInv /\ RowInv /\ OpenInv /\ LoadInv /\ FreshInv` |
| `ConcurrencySlotsProofs` | `TypeCorrect`, `WithinLimit`, `QueueBounded`, `CleanEnd` | `TypeOK /\ SlotInv /\ QueueInv /\ CleanInv` |
| the same, about `SystemOperationLock` | `LockTypeCorrect`, `CreatorKeepsIt` | `LockTypeOK /\ LockIdInv /\ CreatorInv` |
| `WSIngressLeaseProofs` | `TypeCorrect`, `OverrunBounded`, `WithinLimit`, `LossNeedsFailure`, `OccupiedJustified` | `TypeOK /\ MemberInv /\ \A l : LeaseOK(l)` |
| the same, about `AuthCacheInvalidation` | `AuthTypeCorrect`, `NothingStaleRemains` | `AuthTypeOK /\ LookupInv /\ EventInv`, and `PassInv(u)` for every change `u` |

Each module proves `Init => IInv`, then that every action keeps each part of `IInv`, and
from `Invariance` the theorems. Two of them go on to a second specification, whose names
begin with `Lock` and `Auth` for that reason; the two share neither state nor lemmas.

*Fulfilment.* `GrantedAtMostOnce` is not inductive: that a second grant does not
happen is because of the marks (used code, assignment row, rebate row), so `MarkInv`
says that the counters equal the marks. `MoneyInv` carries the payment from the
provider to every worker that acts on it, which is why a cancelled order may become
paid but never the reverse, and why `CreateOrder`'s unconditional FAILED cannot hit a
paid order: nobody can pay before it has returned. `OrderInv` says that a worker that
is about to complete has seen the grant and the rebate. The leases are not part of
the argument: at-most-once holds even for a worker that has lost its lease. The
refinement maps `received`, `grants`, `rebates` and `settled` to the provider's
state, the two counters and the status.

*Refunds.* `RefundIsExclusive` is inductive together with the types. `TakenInv` locates
the deduction: it is with the request that executes the refund, in the amount of its
plan, and with nobody while the order can be refunded again; without it a retry could
take a second time. That argument ends where `finalizeRefundFailed` overrules a status,
because from then on several requests may execute at once. `TakenAccounted` does not
need it: `HoldingInv` says that, as long as nothing went wrong and the provider has not
returned the money, what was taken is what all executing requests together can still
undo. A deduction adds to both sides, a rollback takes from both, and at rest nobody
executes. The sum is counted in units, as the cardinality of `Deducted`.

*Idempotency.* `IdInv` ties the ids and fingerprints that requests remember to the
row. `ExecInv` is the heart: whoever executes owns the present row, the row says
`processing` and has not expired, and a request that is about to take over an expired
record either read another row or began too early for its WHERE clause to match.
`EffectInv` follows the effect from the execution to the stored status; a takeover that does
not begin a lifetime meets a row that is not a success, or is the exception `retaken`.

*System lock.* `CreatorInv` measures the lock of the operation that inserted the row: it
is locked, and kept, for what the missed renewals and the one that is due now have left of
the lease, which is how a slow `Acquire` and two failing renewals in a row add up. While
that is positive no takeover matches and clean-up leaves the row alone; so the row stays the
operation's own, its renewals match, and `renewLoop` does not end. The theorem is about
creators only: an operation that took the row over has another one's fingerprint in it,
which `system_lock_busy` is about.

*Reservation.* That a reservation is still held says nothing about who will give it back,
so `RefInv` says what the reference count is: one for the handler between reservation and
return, one for the billing task until it is done. The hand-over adds the task's reference
before the handler gives up its own, so no order of the two ends reaches zero early.
`LeakInv` is the converse, before the first fault: what is held has somebody who counts.
`NobodyOverdraws` compares a sum of estimates with a balance that is read from a cache,
and both move. `CoverInv` bounds every balance that somebody still goes by (cached, on its
way to the cache, or read for a reservation) by the balance of the users row and the charges
that have not reached the cache (`Bound`); since a request's reservation is held until its
charge has (`HeldUntilDeducted`), the script's comparison then leaves room for every
request that is outstanding. The lemmas about `Total` follow from the library's theorems on
cardinalities and need no induction.

*Batch.* A capture and a release are two transactions with two ids, so nothing in the
database keeps both from happening; only the lock and the order of the steps do. `LockInv`
gives the lock to the worker at a locked step, `SettleInv` what that worker may rely on (the
job stays settling under it; a captured job never counts a failure; one whose retries are
used up is not captured), and `ClaimInv` why a release means that the job has ended or never
began, or that its retries are used up. `OthersStayFrozen` is then inductive itself.
`UpstreamInv` follows the job at the provider from the answer to `Submit` to the stored
name. The lock's time to live is the reason for the exception `outlived`.

*Scheduler.* `FenceInv` is the argument of the epochs: a token of the present epoch was
taken after the last retirement, so the accounts loaded under it were loaded after it too.
`FreshInv` is what `DrainedMeansFresh` rests on: either the snapshot has the last
change, or an event announces it, and each poll that has read that event will still cover
it (it has not yet loaded, or has loaded everything, or is going to give the batch up). To
announce it the event must still be one the bucket is rebuilt for, which is why an account
that leaves the bucket through an event of its own is an exception, and through a bulk event
is not. It needs `RowInv` and `OpenInv`, since a dedup key that is still set must mean
that nobody has read the row, and ids must not be confused; and, while there is no
snapshot, that whatever may be published first has every change.

*Authentication caches.* `PassInv(u)` follows the snapshots of before change `u`, in the
order in which the second pass cuts them off. Once it is scheduled, a lookup that read the
database before the change is one that the safety delay waits for (`early`). Once it has
deleted the entry of Redis, nothing in Redis or with a lookup is that old (`Clean`): what
read the database is over, and what read Redis just before is the gap `straddle`. Once it
has published, a local cache that is that old has a message to handle (`Notified`), and a
subscription that breaks before then is the gap `missed`. A lookup may still copy from
Redis to a local cache at any time, so `Clean` and `Notified` must be kept together. None of
it depends on who holds the claim: workers that have lost theirs repeat a pass, which does
no harm, and cannot end the event. `EventInv` says what they may rely on, that nobody is
in a second pass before its delay is over.

*Slots.* Before a gap the requests that run are among the members of the sorted set, whose
size the script bounds (`SlotInv`). `QueueInv` needs, besides the difference of queue and
counter, the requests that the counter does not stand for (`Uncounted`): the counter may
expire while only those wait.

*Leases.* `TimeOK` is the proof that the loss rule of `refresh` closes a connection in
time. The rule compares the time since the last confirmation with the time to live only when
the ticker fires, so the invariant counts in ticks: since the acquisition, or since the tick
of the last refresh that was confirmed, the ticker has fired at a multiple of the interval,
and the member's age and the overrun together are no more than the time since, plus the
part of a call. `YoungOK` bounds the age as long as no refresh has failed, `CallOK` says
that what a call was answered is still true when its caller looks at it.

**Assumptions.** Most say that a marker is not a member of a set or that a bound is a
number. These say something of the code:

- `TimesAssumption` (leases): a call is shorter than the interval, an interval and two
  calls are shorter than the time to live, which is a multiple of the interval. The code
  has 60 s, 20 s and an operation timeout of 2 s. With a time to live of two intervals and
  calls of half of one, a slow acquisition followed by a slow refresh would lose a lease
  although nothing failed.
- `PollersAssumption` (scheduler): an outbox worker, a full rebuild and a lookup are
  different goroutines. `WritersAssumption` says that there are no others.
- `InstancesAssumption` (slots): some instance serves the requests.
- `RequestsAssumption` (reservation): the requests of a user are finitely many.
- `MaxAcquireAssumption` (system lock) is no restriction: any bound on the duration of an
  `Acquire` will do.

**Only model-checked.** The liveness properties (`PaymentIsSettled`, `HoldIsResolved`,
`ChangeReachesEveryone`, `SnapshotConverges`, `CapacityReturns`) are out of the prover's
reach. Every invariant and every action property of the passing runs is proved.

## 6. Not modelled, and the limits of the models

- Pricing and the limits on pending and daily orders before an order row exists;
  refunds that take subscription days instead of balance.
- Money is a small integer; rounding and the epsilon comparisons of the code are left
  out.
- Orders, keys and users are independent in the code paths modelled, so each model has
  one of them. The caches that fulfilment invalidates after its commits appear only
  as a call that may fail.
- A singleflight load whose cache write was dropped cannot be joined in
  `InflightReservation`, and the fail-open admission of requests without a price is
  the same as that of a failing read.
- The items of a batch job and their downloads, the deletion of its output and of its
  record. The balance of other jobs is one number.
- In the caches: negative entries, statistics, jitter, and the single-account copies next
  to the scheduler's snapshots. In the slots: the active index (which users a sweep
  visits), the slots of API keys, which only feed statistics, and live leases.
- Account selection, protocol translation and streaming take most of the repository's
  lines. They transform data and move bytes; what they share with other requests are the
  slots, leases, snapshots and reservations that are modelled. The generated database
  code (`src/backend/ent`) and the user interfaces have no logic of their own to model.
- Postgres is taken to be serializable for the single statements and short
  transactions used here, Redis to be one server without failover.
