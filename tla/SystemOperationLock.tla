------------------------- MODULE SystemOperationLock -------------------------
(***************************************************************************)
(* The lock that keeps update, rollback and restart of the service apart   *)
(* (service/system_operation_lock_service.go): one row of the idempotency  *)
(* store whose request_fingerprint is the operation's id.  A goroutine     *)
(* renews the lease of a held lock three times per lease.                  *)
(*                                                                         *)
(* The clock counts renewal intervals.  It does not pass while a renewal   *)
(* is due or under way, which has two seconds: what takes longer than an   *)
(* interval is a failing renewal.                                          *)
(***************************************************************************)
EXTENDS IdempotencyStore

CONSTANTS
  Operations,   \* ids of operations
  None,         \* no operation
  MaxAcquire,   \* bound on the intervals an Acquire takes
  MaxFailures   \* bound on crashes, failing renewals and releases

ASSUME NoneAssumption == None \notin Operations
ASSUME MaxAcquireAssumption == MaxAcquire \in Nat
ASSUME MaxFailuresAssumption == MaxFailures \in Nat

VARIABLES
  phase,      \* what each operation does next
  now,        \* the time Acquire read when it began
  existing,   \* id and status of the row it read
  recordId,   \* SystemOperationLock.recordID
  loop,       \* its renewLoop: off, on, or stopping with a call under way
  due,        \* the loop has not yet had its tick in this interval
  created,    \* history: the operations that hold the row they inserted
  missed,     \* history: the intervals such a holder has let pass without a renewal
  failures

lockVars ==
  <<row, lastId, clock, phase, now, existing, recordId, loop, due, created, missed, failures>>

Steps == {"idle", "create", "get", "reclaim", "held"}

Nothing == [id |-> 0, status |-> "none"]

LockInit ==
  /\ row = NoRow(None) /\ lastId = 0 /\ clock = 0
  /\ phase = [o \in Operations |-> "idle"]
  /\ now = [o \in Operations |-> 0]
  /\ existing = [o \in Operations |-> Nothing]
  /\ recordId = [o \in Operations |-> 0]
  /\ loop = [o \in Operations |-> "off"]
  /\ due = [o \in Operations |-> FALSE]
  /\ created = {} /\ missed = [o \in Operations |-> 0] /\ failures = 0

-----------------------------------------------------------------------------
Failure == failures < MaxFailures /\ failures' = failures + 1

\* Acquire fails; nothing is held and no goroutine runs.
Refuse(o) ==
  /\ phase' = [phase EXCEPT ![o] = "idle"]
  /\ now' = [now EXCEPT ![o] = 0]
  /\ existing' = [existing EXCEPT ![o] = Nothing]
  /\ UNCHANGED <<recordId, loop, due>>

\* The lock is held and its renewLoop started.
Hold(o, id) ==
  /\ phase' = [phase EXCEPT ![o] = "held"]
  /\ recordId' = [recordId EXCEPT ![o] = id]
  /\ loop' = [loop EXCEPT ![o] = "on"]
  /\ now' = [now EXCEPT ![o] = 0]
  /\ existing' = [existing EXCEPT ![o] = Nothing]
  /\ UNCHANGED due

\* The operation has ended; a renewal may still be under way.
Ended(o, loopState) ==
  /\ phase' = [phase EXCEPT ![o] = "idle"]
  /\ loop' = [loop EXCEPT ![o] = loopState]
  /\ due' = [due EXCEPT ![o] = FALSE]
  /\ now' = [now EXCEPT ![o] = 0]
  /\ existing' = [existing EXCEPT ![o] = Nothing]
  /\ created' = created \ {o} /\ missed' = [missed EXCEPT ![o] = 0]

\* History: with so many renewals in a row without success the lock may run out.
Late(o) == missed[o] + 1 >= Lease \/ missed[o] + 1 >= Ttl

Acquire(o) ==
  /\ phase[o] = "idle" /\ loop[o] = "off"
  /\ phase' = [phase EXCEPT ![o] = "create"]
  /\ now' = [now EXCEPT ![o] = clock]
  /\ UNCHANGED <<store, clock, existing, recordId, loop, due, created, missed, failures>>

CreateLock(o) ==
  /\ phase[o] = "create"
  /\ \/ /\ CreateProcessing(o, now[o] + Lease, now[o] + Ttl)
        /\ Hold(o, lastId + 1)
        /\ created' = created \cup {o}
        /\ missed' = [missed EXCEPT ![o] = clock - now[o]]
     \/ /\ row.id # 0 /\ phase' = [phase EXCEPT ![o] = "get"]
        /\ UNCHANGED <<store, now, existing, recordId, loop, due, created, missed>>
  /\ UNCHANGED <<clock, failures>>

\* Busy while the row is locked, whatever its holder does.
GetLock(o) ==
  /\ phase[o] = "get"
  /\ IF row.id = 0 \/ (row.status = "processing" /\ row.lockedUntil > now[o])
       THEN Refuse(o)
       ELSE /\ existing' = [existing EXCEPT ![o] = [id |-> row.id, status |-> row.status]]
            /\ phase' = [phase EXCEPT ![o] = "reclaim"]
            /\ UNCHANGED <<now, recordId, loop, due>>
  /\ UNCHANGED <<store, clock, created, missed, failures>>

ReclaimLock(o) ==
  /\ phase[o] = "reclaim"
  /\ \/ /\ TryReclaim(existing[o].id, existing[o].status, now[o], now[o] + Lease, now[o] + Ttl)
        /\ Hold(o, existing[o].id) /\ UNCHANGED missed
     \/ /\ ~Reclaimable(existing[o].id, existing[o].status, now[o])
        /\ Refuse(o) /\ UNCHANGED <<store, missed>>
  /\ UNCHANGED <<clock, created, failures>>

\* The operation succeeded or failed; either way the row can be reclaimed now.
ReleaseLock(o, succeeded) ==
  /\ phase[o] = "held"
  /\ IF succeeded THEN MarkSucceeded(recordId[o], clock + Ttl)
     ELSE MarkFailedRetryable(recordId[o], clock, clock + Ttl)
  /\ Ended(o, IF loop[o] = "on" THEN "stopping" ELSE "off")
  /\ UNCHANGED <<clock, recordId, failures>>

\* History: a renewal that succeeds in time makes up for the missed ones.
Renewed(o) == missed' = [missed EXCEPT ![o] = IF Late(o) THEN @ ELSE 0]

Missed(o) == missed' = [missed EXCEPT ![o] = @ + 1]

\* Mutant: the loop ends with the first renewal that fails.
RenewLoopGivesUp(o) ==
  /\ loop[o] = "on" /\ due[o]
  /\ due' = [due EXCEPT ![o] = FALSE]
  /\ \/ /\ ExtendProcessingLock(recordId[o], o, clock + Lease, clock + Ttl)
        /\ Renewed(o) /\ UNCHANGED <<loop, failures>>
     \/ /\ Failure /\ Missed(o)
        /\ loop' = [loop EXCEPT ![o] = "off"] /\ UNCHANGED store
     \/ /\ ~Extendable(recordId[o], o)
        /\ loop' = [loop EXCEPT ![o] = "off"] /\ UNCHANGED <<store, missed, failures>>
  /\ UNCHANGED <<clock, phase, now, existing, recordId, created>>

\* One tick of renewLoop: the lease is extended, a failing call, which may have had
\* its effect, is tried again at the next tick, and a row that is not the
\* operation's own ends the loop.
RenewLoop(o) ==
  /\ loop[o] = "on" /\ due[o]
  /\ due' = [due EXCEPT ![o] = FALSE]
  /\ \/ /\ ExtendProcessingLock(recordId[o], o, clock + Lease, clock + Ttl)
        /\ Renewed(o) /\ UNCHANGED <<loop, failures>>
     \/ /\ Failure /\ Missed(o) /\ UNCHANGED loop
        /\ \/ ExtendProcessingLock(recordId[o], o, clock + Lease, clock + Ttl)
           \/ UNCHANGED store
     \/ /\ ~Extendable(recordId[o], o)
        /\ loop' = [loop EXCEPT ![o] = "off"] /\ UNCHANGED <<store, missed, failures>>
  /\ UNCHANGED <<clock, phase, now, existing, recordId, created>>

\* The call that was under way when Release closed stopCh, if there was one.
LastRenewal(o) ==
  /\ loop[o] = "stopping" /\ loop' = [loop EXCEPT ![o] = "off"]
  /\ \/ ExtendProcessingLock(recordId[o], o, clock + Lease, clock + Ttl)
     \/ UNCHANGED store
  /\ UNCHANGED <<clock, phase, now, existing, recordId, due, created, missed, failures>>

\* The process dies, or the release fails and leaves a renewal under way.
Crash(o) ==
  /\ phase[o] # "idle" /\ Failure
  /\ \/ Ended(o, "off")
     \/ loop[o] = "on" /\ Ended(o, "stopping")
  /\ UNCHANGED <<store, clock, recordId>>

Cleanup ==
  /\ DeleteExpired
  /\ UNCHANGED <<clock, phase, now, existing, recordId, loop, due, created, missed, failures>>

Tick ==
  /\ clock < MaxClock /\ clock' = clock + 1
  /\ \A o \in Operations :
       /\ ~due[o] /\ loop[o] # "stopping"
       /\ phase[o] \in {"create", "get", "reclaim"} => clock < now[o] + MaxAcquire
  /\ due' = [o \in Operations |-> loop[o] = "on"]
  /\ UNCHANGED <<store, phase, now, existing, recordId, loop, created, missed, failures>>

OperationStep(o) ==
  \/ Acquire(o) \/ CreateLock(o) \/ GetLock(o) \/ ReclaimLock(o)
  \/ \E succeeded \in BOOLEAN : ReleaseLock(o, succeeded)
  \/ RenewLoop(o) \/ LastRenewal(o) \/ Crash(o)

LockNext == Cleanup \/ Tick \/ \E o \in Operations : OperationStep(o)

LockSpec == LockInit /\ [][LockNext]_lockVars

-----------------------------------------------------------------------------
(* Properties *)

\* Every variable keeps its type.
LockTypeOK ==
  /\ row \in [id : Nat, fingerprint : Operations \cup {None}, status : RowStatuses,
              lockedUntil : Nat, expiresAt : Nat]
  /\ lastId \in Nat /\ clock \in 0..MaxClock
  /\ phase \in [Operations -> Steps] /\ now \in [Operations -> 0..MaxClock]
  /\ existing \in [Operations -> [id : Nat, status : RowStatuses]]
  /\ recordId \in [Operations -> Nat]
  /\ loop \in [Operations -> {"off", "on", "stopping"}]
  /\ due \in [Operations -> BOOLEAN]
  /\ created \in SUBSET Operations /\ missed \in [Operations -> Nat] /\ failures \in 0..MaxFailures

Holds(o) == phase[o] = "held"

\* The operation that inserted the row keeps the lock until it ends, whatever others
\* do, though renewals fail, unless so many fail in a row that the lease runs out:
\* the row stays locked for it, its loop goes on and nobody else holds the row.
CreatorKeepsLock ==
  \A o \in created :
    ~Late(o) =>
      /\ recordId[o] = row.id /\ row.status = "processing" /\ clock < row.lockedUntil
      /\ loop[o] = "on"
      /\ \A p \in Operations : Holds(p) /\ recordId[p] = row.id => p = o

\* ErrSystemOperationBusy: a second operation is refused because "another system
\* operation is in progress".
OneSystemOperation == \A o, p \in Operations : Holds(o) /\ Holds(p) => o = p

=============================================================================
