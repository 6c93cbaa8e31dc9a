-------------------------- MODULE IdempotentExecute --------------------------
(***************************************************************************)
(* IdempotencyCoordinator.Execute (service/idempotency.go): requests that  *)
(* carry the same idempotency key share one row, and only the one that     *)
(* claims it runs the operation.  A request is one attempt of a client; a  *)
(* client that got an answer, or lost it, may try again.  Each statement   *)
(* and the operation itself are one step.                                  *)
(*                                                                         *)
(* The record's time to live opens a window: a claim of a missing record,  *)
(* or of one that has expired by then, starts a new one.  effects counts   *)
(* the times the operation took effect within the window.                  *)
(***************************************************************************)
EXTENDS IdempotencyStore

CONSTANTS
  Requests,
  Payloads,     \* what a request may carry, told apart by its fingerprint
  Detached,     \* the requests with an ExecutionTimeout: they renew their lease
  None,         \* no payload
  Backoff,      \* IdempotencyConfig.FailedRetryBackoff
  MaxFaults     \* bound on crashes and failing statements

ASSUME DetachedAssumption == Detached \subseteq Requests
ASSUME NoneAssumption == None \notin Payloads
ASSUME BackoffAssumption == Backoff \in Nat
ASSUME MaxFaultsAssumption == MaxFaults \in Nat

VARIABLES
  pc,         \* what each request does next
  payload,    \* what it carries
  now,        \* the time each request read when it began
  existing,   \* id and status of the row each request read
  recordId,   \* record.ID of each request that executes
  renewing,   \* its renewal goroutine runs
  body,       \* the payload whose result response_body holds
  mixedUp,    \* history: a request was answered with the result of another payload
  effects,    \* history: effects of the operation in this window
  retaken,    \* history: in this window a live success was taken over
  late,       \* history: a claim was made after its own lease had run out, or a
              \* request executed past the expiry of its record
  faults

vars == <<row, lastId, clock, pc, payload, now, existing, recordId, renewing, body,
          mixedUp, effects, retaken, late, faults>>

Executing == {"execute", "markSucceeded", "markFailed"}

Steps == {"idle", "create", "get", "reclaimExpired", "getLatest", "reclaim"} \cup Executing

Nothing == [id |-> 0, status |-> "none"]

Init ==
  /\ row = NoRow(None) /\ lastId = 0 /\ clock = 0
  /\ pc = [r \in Requests |-> "idle"]
  /\ payload = [r \in Requests |-> None]
  /\ now = [r \in Requests |-> 0]
  /\ existing = [r \in Requests |-> Nothing]
  /\ recordId = [r \in Requests |-> 0]
  /\ renewing = [r \in Requests |-> FALSE]
  /\ body = None /\ mixedUp = FALSE /\ effects = 0 /\ retaken = FALSE
  /\ late = FALSE /\ faults = 0

-----------------------------------------------------------------------------
Goto(r, step) == pc' = [pc EXCEPT ![r] = step]

\* Execute returns: the deferred stopRenewal waits for the goroutine.
Return(r) ==
  /\ Goto(r, "idle")
  /\ payload' = [payload EXCEPT ![r] = None]
  /\ now' = [now EXCEPT ![r] = 0]
  /\ existing' = [existing EXCEPT ![r] = Nothing]
  /\ recordId' = [recordId EXCEPT ![r] = 0]
  /\ renewing' = [renewing EXCEPT ![r] = FALSE]

Least(a, b) == IF a <= b THEN a ELSE b

\* lockedUntil and expiresAt are computed from the time read at the beginning.
ClaimLock(r)   == now[r] + Lease
ClaimExpiry(r) == now[r] + Ttl

\* The request owns row id and starts the operation, and its renewal.
Claim(r, id) ==
  /\ Goto(r, "execute")
  /\ recordId' = [recordId EXCEPT ![r] = id]
  /\ renewing' = [renewing EXCEPT ![r] = r \in Detached]
  /\ late' = (late \/ ClaimLock(r) <= clock \/ ClaimExpiry(r) <= clock)

\* The record that is claimed is a new one.
NewWindow == effects' = 0 /\ retaken' = FALSE

Start(r, p) ==
  /\ pc[r] = "idle"
  /\ Goto(r, "create")
  /\ payload' = [payload EXCEPT ![r] = p]
  /\ now' = [now EXCEPT ![r] = clock]
  /\ UNCHANGED <<store, clock, existing, recordId, renewing, body, mixedUp, effects, retaken,
                 late, faults>>

Create(r) ==
  /\ pc[r] = "create"
  /\ \/ /\ CreateProcessing(payload[r], ClaimLock(r), ClaimExpiry(r))
        /\ Claim(r, lastId + 1)
        /\ NewWindow
     \/ /\ row.id # 0 /\ Goto(r, "get")
        /\ UNCHANGED <<store, recordId, renewing, effects, retaken, late>>
  /\ UNCHANGED <<clock, payload, now, existing, body, mixedUp, faults>>

Remember(r) == existing' = [existing EXCEPT ![r] = [id |-> row.id, status |-> row.status]]

\* The switch on existing.Status.  A stored body that cannot be decoded (it was
\* cut off at MaxStoredResponseLen) is answered with an error.
ByStatus(r) ==
  \/ /\ row.status = "succeeded"
     /\ mixedUp' = (mixedUp \/ body # payload[r])
     /\ Return(r)
  \/ /\ \/ row.status \in {"processing", "succeeded"}
        \/ row.status = "failed_retryable" /\ row.lockedUntil > now[r]
     /\ Return(r) /\ UNCHANGED mixedUp
  \/ /\ row.status = "failed_retryable" /\ row.lockedUntil <= now[r]
     /\ Remember(r) /\ Goto(r, "reclaim") /\ UNCHANGED <<payload, now, recordId, renewing,
                                                         mixedUp>>

GetByScopeAndKeyHash(r) ==
  /\ pc[r] = "get"
  /\ \/ /\ row.id = 0 \/ row.fingerprint # payload[r]
        /\ Return(r) /\ UNCHANGED mixedUp
     \/ /\ row.id # 0 /\ row.fingerprint = payload[r] /\ row.expiresAt <= now[r]
        /\ Remember(r) /\ Goto(r, "reclaimExpired")
        /\ UNCHANGED <<payload, now, recordId, renewing, mixedUp>>
     \/ /\ row.id # 0 /\ row.fingerprint = payload[r] /\ row.expiresAt > now[r]
        /\ ByStatus(r)
  /\ UNCHANGED <<store, clock, body, effects, retaken, late, faults>>

\* The record had expired when it was read: whatever its status, try to take it
\* over.  By now it may be a live one that looks like the one read: a success has
\* no lock.
ReclaimExpired(r) ==
  /\ pc[r] = "reclaimExpired"
  /\ \/ /\ TryReclaim(existing[r].id, existing[r].status, now[r], ClaimLock(r), ClaimExpiry(r))
        /\ Claim(r, existing[r].id)
        /\ IF row.expiresAt <= clock THEN NewWindow
           ELSE retaken' = (retaken \/ row.status = "succeeded") /\ UNCHANGED effects
     \/ /\ ~Reclaimable(existing[r].id, existing[r].status, now[r])
        /\ Goto(r, "getLatest")
        /\ UNCHANGED <<store, recordId, renewing, effects, retaken, late>>
  /\ UNCHANGED <<clock, payload, now, existing, body, mixedUp, faults>>

\* Mutant: the fingerprint is not compared again.
GetLatestUnchecked(r) ==
  /\ pc[r] = "getLatest"
  /\ \/ row.id = 0 /\ Return(r) /\ UNCHANGED mixedUp
     \/ row.id # 0 /\ ByStatus(r)
  /\ UNCHANGED <<store, clock, body, effects, retaken, late, faults>>

\* The row is read again after a lost takeover; its expiry is not looked at.
GetLatest(r) ==
  /\ pc[r] = "getLatest"
  /\ \/ /\ row.id = 0 \/ row.fingerprint # payload[r]
        /\ Return(r) /\ UNCHANGED mixedUp
     \/ row.id # 0 /\ row.fingerprint = payload[r] /\ ByStatus(r)
  /\ UNCHANGED <<store, clock, body, effects, retaken, late, faults>>

\* Retry after a failure.
Reclaim(r) ==
  /\ pc[r] = "reclaim"
  /\ \/ /\ TryReclaim(existing[r].id, "failed_retryable", now[r], ClaimLock(r), ClaimExpiry(r))
        /\ Claim(r, existing[r].id) /\ UNCHANGED <<payload, now, existing>>
     \/ /\ ~Reclaimable(existing[r].id, "failed_retryable", now[r])
        /\ Return(r) /\ UNCHANGED <<store, late>>
  /\ UNCHANGED <<clock, body, mixedUp, effects, retaken, faults>>

-----------------------------------------------------------------------------
\* execute(ctx): the operation takes effect, or fails without one; that it undoes
\* what it did before it returns an error is an assumption on the operation.
Execute(r) ==
  /\ pc[r] = "execute"
  /\ \/ Goto(r, "markSucceeded") /\ effects' = Least(effects + 1, 2)
     \/ Goto(r, "markFailed") /\ UNCHANGED effects
  /\ UNCHANGED <<store, clock, payload, now, existing, recordId, renewing, body, mixedUp,
                 retaken,
                 late, faults>>

\* A tick of renewProcessingLease; it stops when the row is not its own any more.
RenewProcessingLease(r) ==
  /\ pc[r] \in Executing /\ renewing[r]
  /\ \/ /\ ExtendProcessingLock(recordId[r], payload[r], clock + Lease, clock + Ttl)
        /\ UNCHANGED renewing
     \/ /\ ~Extendable(recordId[r], payload[r])
        /\ renewing' = [renewing EXCEPT ![r] = FALSE] /\ UNCHANGED store
  /\ UNCHANGED <<clock, pc, payload, now, existing, recordId, body, mixedUp, effects,
                 retaken, late, faults>>

\* A detached request takes the time again before it stores its outcome.
FinalExpiry(r) == IF r \in Detached THEN clock + Ttl ELSE ClaimExpiry(r)

\* Mutant: a result that could not be stored is recorded as a failure to retry.
MarkRequestSucceededRetryable(r) ==
  /\ pc[r] = "markSucceeded"
  /\ MarkFailedRetryable(recordId[r], clock + Backoff, FinalExpiry(r))
  /\ Return(r)
  /\ UNCHANGED <<clock, body, mixedUp, effects, retaken, late, faults>>

MarkRequestSucceeded(r) ==
  /\ pc[r] = "markSucceeded"
  /\ MarkSucceeded(recordId[r], FinalExpiry(r))
  /\ body' = IF row.id = recordId[r] THEN payload[r] ELSE body
  /\ Return(r)
  /\ UNCHANGED <<clock, mixedUp, effects, retaken, late, faults>>

\* Mutant: a status no reader knows.
MarkRequestFailedUnknown(r) ==
  /\ pc[r] = "markFailed"
  /\ Mark(recordId[r], "failed", clock + Backoff, FinalExpiry(r))
  /\ Return(r)
  /\ UNCHANGED <<clock, body, mixedUp, effects, retaken, late, faults>>

MarkRequestFailed(r) ==
  /\ pc[r] = "markFailed"
  /\ MarkFailedRetryable(recordId[r], clock + Backoff, FinalExpiry(r))
  /\ Return(r)
  /\ UNCHANGED <<clock, body, mixedUp, effects, retaken, late, faults>>

\* The process dies, the client disconnects or a statement fails: Execute ends
\* without another change of the row.
Crash(r) ==
  /\ pc[r] # "idle" /\ faults < MaxFaults /\ faults' = faults + 1
  /\ Return(r)
  /\ UNCHANGED <<store, clock, body, mixedUp, effects, retaken, late>>

-----------------------------------------------------------------------------
Cleanup ==
  /\ DeleteExpired
  /\ UNCHANGED <<clock, pc, payload, now, existing, recordId, renewing, body, mixedUp,
                 effects, retaken,
                 late, faults>>

Tick ==
  /\ clock < MaxClock /\ clock' = clock + 1
  /\ late' = (late \/ /\ row.expiresAt <= clock + 1
                      /\ \E r \in Requests : pc[r] \in Executing)
  /\ UNCHANGED <<store, pc, payload, now, existing, recordId, renewing, body, mixedUp,
                 effects, retaken, faults>>

RequestStep(r) ==
  \/ Create(r) \/ GetByScopeAndKeyHash(r) \/ ReclaimExpired(r) \/ GetLatest(r)
  \/ Reclaim(r) \/ Execute(r) \/ RenewProcessingLease(r)
  \/ MarkRequestSucceeded(r) \/ MarkRequestFailed(r)

Next ==
  \/ Cleanup \/ Tick
  \/ \E r \in Requests : (\E p \in Payloads : Start(r, p)) \/ RequestStep(r) \/ Crash(r)

Spec == Init /\ [][Next]_vars

-----------------------------------------------------------------------------
(* Properties *)

Rows == [id : Nat, fingerprint : Payloads \cup {None}, status : RowStatuses,
         lockedUntil : Nat, expiresAt : Nat]

StoreTypeOK == row \in Rows /\ lastId \in Nat /\ clock \in 0..MaxClock

RequestTypeOK ==
  /\ pc \in [Requests -> Steps] /\ payload \in [Requests -> Payloads \cup {None}]
  /\ now \in [Requests -> 0..MaxClock]
  /\ existing \in [Requests -> [id : Nat, status : RowStatuses]]
  /\ recordId \in [Requests -> Nat]
  /\ renewing \in [Requests -> BOOLEAN]

HistoryTypeOK ==
  /\ body \in Payloads \cup {None}
  /\ mixedUp \in BOOLEAN /\ effects \in 0..2 /\ retaken \in BOOLEAN /\ late \in BOOLEAN
  /\ faults \in 0..MaxFaults

\* Every variable keeps its type.
TypeOK == StoreTypeOK /\ RequestTypeOK /\ HistoryTypeOK

\* Two requests with the same key never run the operation at the same time,
\* unless a request was late: it stalled for a whole lease before it claimed the
\* record, or ran until the record expired.
OneExecutor ==
  ~late => \A r, s \in Requests :
    pc[r] \in Executing /\ pc[s] \in Executing => r = s

\* In the lifetime of a record, from its claim as a missing or truly expired one
\* to the next such claim, the operation takes effect at most once, through
\* crashes, failures and retries, with the same exception and one more: a request
\* that read the record expired takes over the success another one has stored
\* since.  And a stored success is the result of exactly one effect.
OneEffect ==
  ~late /\ ~retaken => effects <= 1 /\ (row.status = "succeeded" => effects = 1)

\* A request is only ever answered with the stored result of its own payload.
ReplayMatches == ~mixedUp

=============================================================================
