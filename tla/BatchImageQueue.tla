--------------------------- MODULE BatchImageQueue ---------------------------
(***************************************************************************)
(* The Redis queue of batch image jobs (repository/batch_image_queue.go),  *)
(* as one job sees it: the ready list, the delayed and active sorted sets, *)
(* the inflight key that keeps a queued job from being queued again, and   *)
(* the lock of the job.  Every script and every pipeline is one step.      *)
(***************************************************************************)
EXTENDS Naturals

CONSTANTS
  Workers,   \* the workers that take jobs
  NoOne,     \* the lock is free
  Ghost      \* the lock is held by a worker that has died

ASSUME LockAssumption == NoOne \notin Workers /\ Ghost \notin Workers /\ NoOne # Ghost

VARIABLES
  ready,      \* how many times the job is in batch_image:queue:ready
  delayed,    \* the job is in batch_image:queue:delayed
  active,     \* the job is in batch_image:queue:active
  inflight,   \* batch_image:queue:inflight:<job> exists
  lock        \* batch_image:queue:lock:<job>

queueVars == <<ready, delayed, active, inflight, lock>>

QueueInit ==
  /\ ready = 0 /\ delayed = FALSE /\ active = FALSE /\ inflight = FALSE
  /\ lock = NoOne

\* A job that is queued already stays as it is (ErrBatchImageAlreadyQueued, which
\* every caller takes for success).
Enqueue ==
  IF inflight THEN UNCHANGED queueVars
  ELSE /\ inflight' = TRUE /\ ready' = ready + 1
       /\ UNCHANGED <<delayed, active, lock>>

Reserve ==
  /\ ready > 0 /\ ready' = ready - 1
  /\ active' = TRUE
  /\ UNCHANGED <<delayed, inflight, lock>>

RequeueAfter ==
  /\ active' = FALSE /\ delayed' = TRUE
  /\ UNCHANGED <<ready, inflight, lock>>

Ack ==
  /\ active' = FALSE /\ delayed' = FALSE /\ inflight' = FALSE
  /\ UNCHANGED <<ready, lock>>

MoveDueDelayedToReady ==
  /\ delayed /\ delayed' = FALSE
  /\ ready' = ready + 1
  /\ UNCHANGED <<active, inflight, lock>>

RecoverStaleActive ==
  /\ active /\ active' = FALSE
  /\ ready' = ready + 1
  /\ UNCHANGED <<delayed, inflight, lock>>

TryAcquireJobLock(w) ==
  /\ lock = NoOne /\ lock' = w
  /\ UNCHANGED <<ready, delayed, active, inflight>>

\* Only the holder's own token is deleted.
ReleaseJobLock(w) ==
  /\ lock' = IF lock = w THEN NoOne ELSE lock
  /\ UNCHANGED <<ready, delayed, active, inflight>>

\* The time to live of the lock passes.
JobLockExpires ==
  /\ lock # NoOne /\ lock' = NoOne
  /\ UNCHANGED <<ready, delayed, active, inflight>>

\* The holder dies and nobody refreshes the lock any more.
AbandonJobLock(w) ==
  /\ lock' = IF lock = w THEN Ghost ELSE lock
  /\ UNCHANGED <<ready, delayed, active, inflight>>

\* The time to live of the inflight key passes; nobody renews it.
InflightExpires ==
  /\ inflight /\ inflight' = FALSE
  /\ UNCHANGED <<ready, delayed, active, lock>>

=============================================================================
