-------------------------- MODULE IdempotencyStore ---------------------------
(***************************************************************************)
(* One row of idempotency_records (repository/idempotency_repo.go), the    *)
(* row of one (scope, key hash), and the statements on it.  The            *)
(* idempotent executor and the system operation lock are both built on it. *)
(*                                                                         *)
(* Times are values of one clock.  A NULL locked_until is 0: both mean     *)
(* "not locked" to every reader.                                           *)
(***************************************************************************)
EXTENDS Integers

CONSTANTS
  Lease,     \* IdempotencyConfig.ProcessingTimeout
  Ttl,       \* how long a record is kept
  MaxClock   \* bound on the clock

ASSUME LeaseAssumption == Lease \in Nat \ {0}
ASSUME TtlAssumption == Ttl \in Nat \ {0}
ASSUME MaxClockAssumption == MaxClock \in Nat

VARIABLES
  row,      \* the row, or NoRow
  lastId,   \* the id the last insert was given
  clock

store == <<row, lastId>>

RowStatuses == {"none", "processing", "succeeded", "failed_retryable"}

\* id 0 is no row.
NoRow(fp) == [id |-> 0, fingerprint |-> fp, status |-> "none",
              lockedUntil |-> 0, expiresAt |-> 0]

\* INSERT ... ON CONFLICT DO NOTHING: inserts only when there is no row.
CreateProcessing(fp, lockedUntil, expiresAt) ==
  /\ row.id = 0
  /\ lastId' = lastId + 1
  /\ row' = [id |-> lastId + 1, fingerprint |-> fp, status |-> "processing",
             lockedUntil |-> lockedUntil, expiresAt |-> expiresAt]

\* Mutant: the lock window is not looked at.
ReclaimableLocked(id, from, now) == row.id = id /\ row.status = from

\* The WHERE clause of TryReclaim.
Reclaimable(id, from, now) ==
  row.id = id /\ row.status = from /\ row.lockedUntil <= now

\* TryReclaim does not touch request_fingerprint.
TryReclaim(id, from, now, lockedUntil, expiresAt) ==
  /\ Reclaimable(id, from, now)
  /\ row' = [row EXCEPT !.status = "processing", !.lockedUntil = lockedUntil,
                        !.expiresAt = expiresAt]
  /\ UNCHANGED lastId

\* The WHERE clause of ExtendProcessingLock.
Extendable(id, fp) ==
  row.id = id /\ row.status = "processing" /\ row.fingerprint = fp

ExtendProcessingLock(id, fp, lockedUntil, expiresAt) ==
  /\ Extendable(id, fp)
  /\ row' = [row EXCEPT !.lockedUntil = lockedUntil, !.expiresAt = expiresAt]
  /\ UNCHANGED lastId

\* MarkSucceeded and MarkFailedRetryable: by id alone; no such row is no error.
Mark(id, status, lockedUntil, expiresAt) ==
  /\ row' = IF row.id # id THEN row
            ELSE [row EXCEPT !.status = status, !.lockedUntil = lockedUntil,
                             !.expiresAt = expiresAt]
  /\ UNCHANGED lastId

MarkSucceeded(id, expiresAt) == Mark(id, "succeeded", 0, expiresAt)

MarkFailedRetryable(id, lockedUntil, expiresAt) ==
  Mark(id, "failed_retryable", lockedUntil, expiresAt)

\* The cleanup service's statement.
DeleteExpired ==
  /\ row.id # 0 /\ row.expiresAt <= clock
  /\ row' = NoRow(row.fingerprint)
  /\ UNCHANGED lastId

=============================================================================
