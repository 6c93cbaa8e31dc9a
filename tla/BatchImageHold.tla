--------------------------- MODULE BatchImageHold ----------------------------
(***************************************************************************)
(* One batch image job and the balance it holds, from Submit to the last   *)
(* release or capture: the request that submits it and the ones that       *)
(* cancel it (service/batch_image_public.go), the sweep for submissions    *)
(* that got stuck (batch_image_billing_recovery.go), the workers           *)
(* (batch_image_worker.go, batch_image_processor.go) and the settlement    *)
(* (batch_image_settlement.go), over the job row                           *)
(* (repository/batch_image_repo.go), the queue and the hold.               *)
(*                                                                         *)
(* Every statement, transaction, script and call of the provider is one    *)
(* step.  There is no clock: a time-out passes at any moment once nobody   *)
(* renews it, and counts as a fault while somebody should.  A failing call *)
(* has no effect, or has it and only the answer is lost.  That the user    *)
(* may delete the record, and then cancel no more, is left out: Cancel     *)
(* need not be called anyway.                                              *)
(***************************************************************************)
EXTENDS BatchImageBilling, BatchImageQueue

CONSTANTS
  Cancels,      \* the calls of Cancel
  Costs,        \* what the result of the job may cost
  MaxRetries,   \* batchImageSettlementMaxRetries
  MaxFaults     \* bound on failing calls, crashes, early time-outs, repeated submissions and
                \* losses of service

ASSUME CostsAssumption == Costs \subseteq Nat
ASSUME MaxRetriesAssumption == MaxRetries \in Nat \ {0}
ASSUME MaxFaultsAssumption == MaxFaults \in Nat

VARIABLES
  status,     \* batch_image_jobs.status
  named,      \* provider_job_name is set
  retries,    \* retry_count, counted up to MaxRetries
  provider,   \* the job at the provider
  cost,       \* what its result costs; more than Amount cannot be settled
  served,     \* the provider is registered, the account of the job resolves and is
              \* supported there, answers, and has the output
  submit,     \* the step of Submit
  sweep,      \* the step of ReleaseStaleUnsubmittedOnce
  cancel,     \* the step of each Cancel
  work,       \* the step of each worker
  target,     \* the status a worker is about to set
  gaps,       \* history: what happened that the code does not make good again
  faults

jobVars == <<status, named, retries>>
provVars == <<provider, cost, served>>
pcVars == <<submit, sweep, cancel, work, target>>
vars == <<billingVars, queueVars, jobVars, provVars, pcVars, gaps, faults>>

Statuses == {"created", "uploading", "submitted", "running", "indexing", "settling",
             "completed", "failed", "cancelled", "output_deleted"}

Terminal == {"completed", "failed", "cancelled", "output_deleted"}

\* orphaned: nobody is left whose turn it is to go on.  burned: the release was
\* claimed before the hold.  slipped: a capture reported as failed is in force.
\* outlived: a worker went on without its lock.  upstream: the job at the provider
\* was not stopped, because a call failed or because Cancel had read the job before its
\* name was stored.
Gaps == {"orphaned", "burned", "slipped", "outlived", "upstream"}

\* "reject" releases and marks the job failed, "return" only releases, "recover" and
\* "retry" follow a release that failed.
SubmitSteps == {"reserve", "items", "upload", "provider", "store", "abort", "enqueue",
                "reject", "return", "recover", "retry", "mark", "done"}

SweepSteps == {"idle", "release", "retry"}

CancelSteps == {"idle", "stop", "enqueue", "transition", "release", "retry", "done"}

WorkSteps == {"idle", "lock", "load", "process", "query", "index", "transition", "release",
              "settle", "capture", "settled", "record", "exhaust", "giveup", "reread",
              "ack", "requeue", "unlock"}

Init ==
  /\ BillingInit /\ QueueInit
  /\ status = "created" /\ named = FALSE /\ retries = 0
  /\ provider = "none" /\ cost = 0 /\ served = TRUE
  /\ submit = "reserve" /\ sweep = "idle"
  /\ cancel = [c \in Cancels |-> "idle"]
  /\ work = [w \in Workers |-> "idle"]
  /\ target = [w \in Workers |-> "running"]
  /\ gaps = {} /\ faults = 0

-----------------------------------------------------------------------------
Fault == faults < MaxFaults /\ faults' = faults + 1

NoFault == UNCHANGED <<faults, gaps>>

\* A fault the code makes good, and one that leaves a gap.
Recovered == Fault /\ UNCHANGED gaps

Gap(kind) == Fault /\ gaps' = gaps \cup {kind}

\* CanTransitionBatchImageJob.
CanTransition(from, to) ==
  \/ from \in Terminal \ {"output_deleted"} /\ to = "output_deleted"
  \/ from \notin Terminal /\ to = "failed"
  \/ <<from, to>> \in {<<"created", "uploading">>, <<"created", "submitted">>,
                       <<"created", "cancelled">>, <<"uploading", "submitted">>,
                       <<"uploading", "cancelled">>, <<"submitted", "running">>,
                       <<"submitted", "indexing">>, <<"submitted", "cancelled">>,
                       <<"running", "running">>, <<"running", "indexing">>,
                       <<"running", "cancelled">>, <<"indexing", "settling">>,
                       <<"settling", "completed">>}

SetStatus(to) == status' = to /\ UNCHANGED <<named, retries>>

\* TransitionBatchImageJobStatus, continuing with ok or, after an error, with bad.
Transition(to, ok, bad) ==
  \/ CanTransition(status, to) /\ SetStatus(to) /\ ok /\ NoFault
  \/ ~CanTransition(status, to) /\ UNCHANGED jobVars /\ bad /\ NoFault

\* releaseBatchImageBalanceHold, continuing with ok or, after an error, with bad.
Release(ok, bad) ==
  \/ ReleaseBatchImageBalance /\ ok /\ NoFault
  \/ ReleaseRefused /\ UNCHANGED billingVars /\ bad /\ NoFault
  \/ (ReleaseBatchImageBalance \/ UNCHANGED billingVars) /\ bad /\ Recovered

\* enqueueBillingRetry and enqueueReleaseRetry: a failing call is only logged.
EnqueueRetry ==
  \/ Enqueue /\ NoFault
  \/ UNCHANGED queueVars /\ Gap("orphaned")

-----------------------------------------------------------------------------
(* Submit *)

SubmitGoto(step) == submit' = step /\ UNCHANGED <<sweep, cancel, work, target>>

\* reserveBatchImageBalanceHold.  After an error nobody looks whether the hold was
\* reserved all the same.
SubmitReserve ==
  /\ submit = "reserve"
  /\ \/ /\ ReserveBatchImageBalance /\ SubmitGoto("items") /\ UNCHANGED faults
        /\ gaps' = IF "release" \in claims THEN gaps \cup {"burned"} ELSE gaps
     \/ ReserveRefused /\ UNCHANGED billingVars /\ SubmitGoto("mark") /\ NoFault
     \/ UNCHANGED billingVars /\ SubmitGoto("mark") /\ Recovered
     \/ ReserveBatchImageBalance /\ SubmitGoto("mark") /\ Gap("orphaned")
  /\ UNCHANGED <<queueVars, jobVars, provVars>>

SubmitItems ==
  /\ submit = "items"
  /\ \/ SubmitGoto("upload") /\ NoFault
     \/ SubmitGoto("reject") /\ Recovered
  /\ UNCHANGED <<billingVars, queueVars, jobVars, provVars>>

SubmitUpload ==
  /\ submit = "upload"
  /\ \/ Transition("uploading", SubmitGoto("provider"), SubmitGoto("return"))
     \/ UNCHANGED jobVars /\ SubmitGoto("reject") /\ Recovered
     \/ /\ CanTransition(status, "uploading") /\ SetStatus("uploading")   \* the answer is lost
        /\ SubmitGoto("reject") /\ Recovered
  /\ UNCHANGED <<billingVars, queueVars, provVars>>

\* provider.Submit, which may refuse the job or give no name.
SubmitProvider ==
  /\ submit = "provider"
  /\ \/ provider' = "active" /\ SubmitGoto("store") /\ NoFault
     \/ UNCHANGED provider /\ SubmitGoto("reject") /\ NoFault
     \/ provider' = "active" /\ SubmitGoto("reject") /\ Gap("upstream")
  /\ UNCHANGED <<billingVars, queueVars, jobVars, cost, served>>

\* UpdateBatchImageJobProviderSubmit.
StoreName ==
  /\ CanTransition(status, "submitted")
  /\ status' = "submitted" /\ named' = TRUE /\ UNCHANGED retries

SubmitStore ==
  /\ submit = "store"
  /\ \/ StoreName /\ SubmitGoto("enqueue") /\ NoFault
     \/ ~CanTransition(status, "submitted") /\ UNCHANGED jobVars /\ SubmitGoto("abort") /\ NoFault
     \/ UNCHANGED jobVars /\ SubmitGoto("abort") /\ Recovered
     \/ StoreName /\ SubmitGoto("abort") /\ Gap("orphaned")
  /\ UNCHANGED <<billingVars, queueVars, provVars>>

\* provider.Cancel: a job that has ended stays as it is.
ProviderCancel == provider' = (IF provider = "active" THEN "cancelled" ELSE provider)

\* Mutant: the upstream job is left alone.
SubmitAbortNothing ==
  /\ submit = "abort" /\ SubmitGoto("done") /\ NoFault
  /\ UNCHANGED <<billingVars, queueVars, jobVars, provVars>>

\* abortOrphanProviderJob.
SubmitAbort ==
  /\ submit = "abort" /\ SubmitGoto("done")
  /\ \/ ProviderCancel /\ NoFault
     \/ UNCHANGED provider /\ Gap("upstream")
  /\ UNCHANGED <<billingVars, queueVars, jobVars, cost, served>>

\* A failure marks nothing failed: the job stays submitted, outside the queue.
SubmitEnqueue ==
  /\ submit = "enqueue" /\ SubmitGoto("done")
  /\ EnqueueRetry
  /\ UNCHANGED <<billingVars, jobVars, provVars>>

\* The client submits again under the same idempotency key: a job that it finds
\* submitted is put into the queue once more.
Resubmit ==
  /\ submit = "done" /\ status = "submitted"
  /\ SubmitGoto("enqueue") /\ Recovered
  /\ UNCHANGED <<billingVars, queueVars, jobVars, provVars>>

\* releaseFailedSubmitHold.
SubmitRelease ==
  /\ submit \in {"reject", "return"}
  /\ Release(SubmitGoto(IF submit = "reject" THEN "mark" ELSE "done"), SubmitGoto("recover"))
  /\ UNCHANGED <<queueVars, jobVars, provVars>>

\* RecordBatchImageJobSubmitFailure overwrites every status; its error is ignored.
SubmitMark ==
  /\ submit \in {"mark", "recover"}
  /\ SubmitGoto(IF submit = "mark" THEN "done" ELSE "retry")
  /\ \/ SetStatus("failed") /\ NoFault
     \/ UNCHANGED jobVars /\ Recovered
  /\ UNCHANGED <<billingVars, queueVars, provVars>>

SubmitRetry ==
  /\ submit = "retry" /\ SubmitGoto("done")
  /\ EnqueueRetry
  /\ UNCHANGED <<billingVars, jobVars, provVars>>

\* The process dies; the steps from where nobody takes over leave a gap.
SubmitCrash ==
  /\ submit # "done" /\ SubmitGoto("done")
  /\ CASE submit \in {"enqueue", "retry"} -> Gap("orphaned")
       [] submit \in {"store", "abort"}   -> Gap("upstream")
       [] OTHER                           -> Recovered
  /\ UNCHANGED <<billingVars, queueVars, jobVars, provVars>>

SubmitStep ==
  \/ SubmitReserve \/ SubmitItems \/ SubmitUpload \/ SubmitProvider \/ SubmitStore
  \/ SubmitAbort \/ SubmitEnqueue \/ SubmitRelease \/ SubmitMark \/ SubmitRetry

-----------------------------------------------------------------------------
(* ReleaseStaleUnsubmittedOnce *)

SweepGoto(step) == sweep' = step /\ UNCHANGED <<submit, cancel, work, target>>

\* Nothing touches updated_at any more, or a submission was slow without a heartbeat.
Stale == IF submit = "done" THEN NoFault ELSE Recovered

FailStaleUnsubmitted ==
  /\ sweep = "idle"
  /\ status \in {"created", "uploading"} /\ ~named
  /\ SetStatus("failed")
  /\ \/ SweepGoto("release") /\ Stale
     \/ SweepGoto("idle") /\ submit = "done" /\ Gap("orphaned")   \* the answer is lost
  /\ UNCHANGED <<billingVars, queueVars, provVars>>

SweepRelease ==
  /\ sweep = "release"
  /\ Release(SweepGoto("idle"), SweepGoto("retry"))
  /\ UNCHANGED <<queueVars, jobVars, provVars>>

SweepRetry ==
  /\ sweep = "retry" /\ SweepGoto("idle")
  /\ EnqueueRetry
  /\ UNCHANGED <<billingVars, jobVars, provVars>>

SweepCrash ==
  /\ sweep # "idle" /\ SweepGoto("idle") /\ Gap("orphaned")
  /\ UNCHANGED <<billingVars, queueVars, jobVars, provVars>>

SweepStep == FailStaleUnsubmitted \/ SweepRelease \/ SweepRetry

-----------------------------------------------------------------------------
(* Cancel *)

CancelGoto(c, step) ==
  cancel' = [cancel EXCEPT ![c] = step] /\ UNCHANGED <<submit, sweep, work, target>>

\* A settling job counts as done and is left alone.
CancelRead(c) ==
  /\ cancel[c] = "idle"
  /\ CancelGoto(c, IF status \in {"failed", "cancelled"} THEN "release"
                   ELSE IF status \in Terminal \cup {"settling"} THEN "done"
                   ELSE IF named THEN "stop" ELSE "transition")
  /\ NoFault
  /\ UNCHANGED <<billingVars, queueVars, jobVars, provVars>>

CancelStop(c) ==
  /\ cancel[c] = "stop"
  /\ \/ ProviderCancel /\ CancelGoto(c, "enqueue") /\ NoFault
     \/ ~served /\ UNCHANGED provider /\ CancelGoto(c, "done") /\ NoFault
     \/ (ProviderCancel \/ UNCHANGED provider) /\ CancelGoto(c, "done") /\ Recovered
  /\ UNCHANGED <<billingVars, queueVars, jobVars, cost, served>>

CancelEnqueue(c) ==
  /\ cancel[c] = "enqueue" /\ CancelGoto(c, "done")
  /\ \/ Enqueue /\ NoFault
     \/ UNCHANGED queueVars /\ Recovered
  /\ UNCHANGED <<billingVars, jobVars, provVars>>

\* The job read had no name; by now it may have one, and the provider is not told.
CancelTransition(c) ==
  /\ cancel[c] = "transition"
  /\ \/ /\ CanTransition(status, "cancelled") /\ SetStatus("cancelled")
        /\ CancelGoto(c, "release") /\ UNCHANGED faults
        /\ gaps' = IF named THEN gaps \cup {"upstream"} ELSE gaps
     \/ ~CanTransition(status, "cancelled") /\ UNCHANGED jobVars /\ CancelGoto(c, "done") /\ NoFault
     \/ UNCHANGED jobVars /\ CancelGoto(c, "done") /\ Recovered
     \/ /\ CanTransition(status, "cancelled") /\ SetStatus("cancelled")   \* the answer is lost
        /\ CancelGoto(c, "done") /\ Fault
        /\ gaps' = gaps \cup {"orphaned"} \cup (IF named THEN {"upstream"} ELSE {})
  /\ UNCHANGED <<billingVars, queueVars, provVars>>

CancelRelease(c) ==
  /\ cancel[c] = "release"
  /\ Release(CancelGoto(c, "done"), CancelGoto(c, "retry"))
  /\ UNCHANGED <<queueVars, jobVars, provVars>>

CancelRetry(c) ==
  /\ cancel[c] = "retry" /\ CancelGoto(c, "done")
  /\ EnqueueRetry
  /\ UNCHANGED <<billingVars, jobVars, provVars>>

CancelCrash(c) ==
  /\ cancel[c] \notin {"idle", "done"} /\ CancelGoto(c, "done")
  /\ IF cancel[c] \in {"release", "retry"} THEN Gap("orphaned") ELSE Recovered
  /\ UNCHANGED <<billingVars, queueVars, jobVars, provVars>>

CancelStep(c) ==
  \/ CancelStop(c) \/ CancelEnqueue(c) \/ CancelTransition(c) \/ CancelRelease(c)
  \/ CancelRetry(c)

-----------------------------------------------------------------------------
(* The workers *)

WorkGoto(w, step) ==
  work' = [work EXCEPT ![w] = step] /\ UNCHANGED <<submit, sweep, cancel, target>>

WorkReserve(w) ==
  /\ work[w] = "idle" /\ Reserve /\ WorkGoto(w, "lock") /\ NoFault
  /\ UNCHANGED <<billingVars, jobVars, provVars>>

\* A lock that is taken, or an error, sends the job back to the queue.
WorkLock(w) ==
  /\ work[w] = "lock"
  /\ \/ TryAcquireJobLock(w) /\ WorkGoto(w, "load") /\ NoFault
     \/ lock # NoOne /\ UNCHANGED queueVars /\ WorkGoto(w, "requeue") /\ NoFault
     \/ UNCHANGED queueVars /\ WorkGoto(w, "requeue") /\ Recovered
     \/ TryAcquireJobLock(w) /\ WorkGoto(w, "requeue") /\ Recovered
  /\ UNCHANGED <<billingVars, jobVars, provVars>>

\* BatchImagePipelineProcessor.Process reads the job.
WorkLoad(w) ==
  /\ work[w] = "load"
  /\ \/ WorkGoto(w, IF status = "settling" THEN "settle" ELSE "process") /\ NoFault
     \/ WorkGoto(w, "requeue") /\ Recovered
  /\ UNCHANGED <<billingVars, queueVars, jobVars, provVars>>

\* The errors that stay for as long as the job is not served: the worker comes back,
\* however often, and nothing counts them.
Unserved(w) == ~served /\ WorkGoto(w, "requeue") /\ NoFault

\* BatchImageProviderProcessor.Process reads it again.  A job that has ended needs
\* neither provider nor account.
WorkProcess(w) ==
  /\ work[w] = "process"
  /\ \/ /\ WorkGoto(w, IF status \in {"failed", "cancelled"} THEN "release"
                       ELSE IF status \in Terminal \cup {"settling"} THEN "ack"
                       ELSE IF ~named THEN "requeue"
                       ELSE IF status = "indexing" THEN "index" ELSE "query")
        /\ NoFault
     \/ status \notin Terminal \cup {"settling"} /\ Unserved(w)
     \/ WorkGoto(w, "requeue") /\ Recovered
  /\ UNCHANGED <<billingVars, queueVars, jobVars, provVars>>

TransitionNext(w, to) ==
  /\ work' = [work EXCEPT ![w] = "transition"] /\ target' = [target EXCEPT ![w] = to]
  /\ UNCHANGED <<submit, sweep, cancel>>

\* provider.Get; while the job is queued there the worker only comes back later.
WorkQuery(w) ==
  /\ work[w] = "query"
  /\ \/ provider = "active" /\ TransitionNext(w, "running") /\ NoFault
     \/ provider = "active" /\ WorkGoto(w, "requeue") /\ NoFault
     \/ provider \in {"good", "bad"} /\ TransitionNext(w, "indexing") /\ NoFault
     \/ provider = "failed" /\ TransitionNext(w, "failed") /\ NoFault
     \/ provider = "cancelled" /\ TransitionNext(w, "cancelled") /\ NoFault
     \/ Unserved(w)
     \/ WorkGoto(w, "requeue") /\ Recovered
  /\ UNCHANGED <<billingVars, queueVars, jobVars, provVars>>

AfterTransition(to) ==
  CASE to = "indexing"                -> "index"
    [] to \in {"failed", "cancelled"} -> "release"
    [] OTHER                          -> "requeue"

WorkTransition(w) ==
  /\ work[w] = "transition"
  /\ \/ Transition(target[w], WorkGoto(w, AfterTransition(target[w])), WorkGoto(w, "requeue"))
     \/ UNCHANGED jobVars /\ WorkGoto(w, "requeue") /\ Recovered
     \/ /\ CanTransition(status, target[w]) /\ SetStatus(target[w])
        /\ WorkGoto(w, "requeue") /\ Recovered
  /\ UNCHANGED <<billingVars, queueVars, provVars>>

\* indexAndSettle: output that cannot be parsed fails the job, and so does every error
\* of Index except missing output; the items are written only while the job is indexing.
WorkIndex(w) ==
  /\ work[w] = "index"
  /\ \/ provider = "bad" /\ TransitionNext(w, "failed") /\ NoFault
     \/ provider = "good" /\ status = "indexing" /\ TransitionNext(w, "settling") /\ NoFault
     \/ provider = "good" /\ status # "indexing" /\ WorkGoto(w, "requeue") /\ NoFault
     \/ Unserved(w)
     \/ (WorkGoto(w, "requeue") \/ TransitionNext(w, "failed")) /\ Recovered
  /\ UNCHANGED <<billingVars, queueVars, jobVars, provVars>>

\* releaseTerminalHold.
WorkRelease(w) ==
  /\ work[w] = "release"
  /\ Release(WorkGoto(w, "ack"), WorkGoto(w, "requeue"))
  /\ UNCHANGED <<queueVars, jobVars, provVars>>

-----------------------------------------------------------------------------
(* Settle *)

\* Mutant: the job is marked settled before the hold is captured.
SettleMarksFirst(w) ==
  /\ work[w] = "settle"
  /\ WorkGoto(w, IF status = "settling" THEN "settled" ELSE "requeue") /\ NoFault
  /\ UNCHANGED <<billingVars, queueVars, jobVars, provVars>>

\* Settle reads the job once more; the exhausted retries come before every check that
\* can fail again and again, but for the one that the job has a key and an account.
Settle(w) ==
  /\ work[w] = "settle"
  /\ \/ /\ WorkGoto(w, IF status = "completed" THEN "ack"
                       ELSE IF status # "settling" THEN "requeue"
                       ELSE IF retries >= MaxRetries THEN "exhaust"
                       ELSE IF cost > Amount THEN "record" ELSE "capture")
        /\ NoFault
     \/ status = "settling" /\ Unserved(w)
     \/ WorkGoto(w, "requeue") /\ Recovered
  /\ UNCHANGED <<billingVars, queueVars, jobVars, provVars>>

\* captureBatchImageBalanceHold.  A failing call slips when the capture is, or comes
\* to be, in force.
SettleCapture(w) ==
  /\ work[w] = "capture"
  /\ \/ CaptureBatchImageBalance(cost) /\ WorkGoto(w, "settled") /\ NoFault
     \/ CaptureRefused(cost) /\ UNCHANGED billingVars /\ WorkGoto(w, "record") /\ NoFault
     \/ /\ UNCHANGED billingVars /\ WorkGoto(w, "record") /\ Fault
        /\ gaps' = IF "capture" \in claims THEN gaps \cup {"slipped"} ELSE gaps
     \/ CaptureBatchImageBalance(cost) /\ WorkGoto(w, "record") /\ Gap("slipped")
  /\ UNCHANGED <<queueVars, jobVars, provVars>>

\* MarkBatchImageJobSettled.
MarkSettled(w) ==
  /\ work[w] = "settled"
  /\ \/ status = "settling" /\ SetStatus("completed") /\ WorkGoto(w, "ack") /\ NoFault
     \/ status # "settling" /\ UNCHANGED jobVars /\ WorkGoto(w, "requeue") /\ NoFault
     \/ UNCHANGED jobVars /\ WorkGoto(w, "requeue") /\ Recovered
     \/ status = "settling" /\ SetStatus("completed") /\ WorkGoto(w, "requeue") /\ Recovered
  /\ UNCHANGED <<billingVars, queueVars, provVars>>

\* Mutant: the failure is not counted.
RecordNothing == UNCHANGED jobVars

\* SetBatchImageJobSettlementFailed.
SetSettlementFailed ==
  /\ retries' = IF retries < MaxRetries THEN retries + 1 ELSE retries
  /\ UNCHANGED <<status, named>>

\* A billing error makes the pipeline look at the job again, another one does not.
RecordSettlementFailure(w) ==
  LET onward == IF cost > Amount THEN "requeue" ELSE "reread"
  IN  /\ work[w] = "record"
      /\ \/ /\ SetSettlementFailed /\ NoFault
            /\ WorkGoto(w, IF retries' >= MaxRetries THEN "exhaust" ELSE onward)
         \/ SetSettlementFailed /\ WorkGoto(w, onward) /\ Recovered
         \/ UNCHANGED jobVars /\ WorkGoto(w, onward) /\ Recovered
      /\ UNCHANGED <<billingVars, queueVars, provVars>>

\* failExhaustedSettlement: release, and only then fail the job.
FailExhausted(w) ==
  /\ work[w] = "exhaust"
  /\ Release(WorkGoto(w, "giveup"), WorkGoto(w, "reread"))
  /\ UNCHANGED <<queueVars, jobVars, provVars>>

GiveUp(w) ==
  /\ work[w] = "giveup"
  /\ \/ Transition("failed", WorkGoto(w, "reread"), WorkGoto(w, "requeue"))
     \/ UNCHANGED jobVars /\ WorkGoto(w, "requeue") /\ Recovered
     \/ CanTransition(status, "failed") /\ SetStatus("failed") /\ WorkGoto(w, "requeue") /\ Recovered
  /\ UNCHANGED <<billingVars, queueVars, provVars>>

\* The pipeline: a job that has ended is acknowledged, another comes back.
SettleReread(w) ==
  /\ work[w] = "reread"
  /\ \/ WorkGoto(w, IF status \in Terminal THEN "ack" ELSE "requeue") /\ NoFault
     \/ WorkGoto(w, "requeue") /\ Recovered
  /\ UNCHANGED <<billingVars, queueVars, jobVars, provVars>>

-----------------------------------------------------------------------------
(* The end of RunOnce, and the upkeep of the queue *)

WorkAck(w) ==
  /\ work[w] = "ack" /\ WorkGoto(w, "unlock")
  /\ \/ Ack /\ NoFault
     \/ UNCHANGED queueVars /\ Recovered
  /\ UNCHANGED <<billingVars, jobVars, provVars>>

WorkRequeue(w) ==
  /\ work[w] = "requeue" /\ WorkGoto(w, "unlock")
  /\ \/ RequeueAfter /\ NoFault
     \/ UNCHANGED queueVars /\ Recovered
  /\ UNCHANGED <<billingVars, jobVars, provVars>>

WorkUnlock(w) ==
  /\ work[w] = "unlock" /\ WorkGoto(w, "idle")
  /\ \/ ReleaseJobLock(w) /\ NoFault
     \/ AbandonJobLock(w) /\ Recovered   \* the lock is left to its time to live
  /\ UNCHANGED <<billingVars, jobVars, provVars>>

WorkCrash(w) ==
  /\ work[w] # "idle" /\ WorkGoto(w, "idle")
  /\ AbandonJobLock(w) /\ Recovered
  /\ UNCHANGED <<billingVars, jobVars, provVars>>

WorkStep(w) ==
  \/ WorkReserve(w) \/ WorkLock(w) \/ WorkLoad(w) \/ WorkProcess(w) \/ WorkQuery(w)
  \/ WorkTransition(w) \/ WorkIndex(w) \/ WorkRelease(w) \/ Settle(w) \/ SettleCapture(w)
  \/ MarkSettled(w) \/ RecordSettlementFailure(w) \/ FailExhausted(w) \/ GiveUp(w)
  \/ SettleReread(w) \/ WorkAck(w) \/ WorkRequeue(w) \/ WorkUnlock(w)

MoveDueDelayed ==
  /\ MoveDueDelayedToReady /\ NoFault
  /\ UNCHANGED <<billingVars, jobVars, provVars, pcVars>>

\* The heartbeat keeps the entry of a working worker fresh.
RecoverStale ==
  /\ RecoverStaleActive
  /\ IF \A w \in Workers : work[w] = "idle" THEN NoFault ELSE Recovered
  /\ UNCHANGED <<billingVars, jobVars, provVars, pcVars>>

\* The lock of a worker that works is refreshed.
LockExpires ==
  /\ JobLockExpires
  /\ IF lock = Ghost THEN NoFault ELSE Gap("outlived")
  /\ UNCHANGED <<billingVars, jobVars, provVars, pcVars>>

InflightLapses ==
  /\ InflightExpires /\ Recovered
  /\ UNCHANGED <<billingVars, jobVars, provVars, pcVars>>

\* The job ends at the provider, with output that parses or not.
ProviderEnds ==
  /\ provider = "active" /\ NoFault
  /\ \/ provider' = "good" /\ cost' \in Costs
     \/ provider' \in {"bad", "failed"} /\ UNCHANGED cost
  /\ UNCHANGED <<billingVars, queueVars, jobVars, pcVars, served>>

\* The account is deleted, loses its credentials or changes its type, the provider is
\* taken out of the configuration, or the output is missing; and an administrator may,
\* but need not, put it right.
LoseService ==
  /\ served /\ served' = FALSE /\ Recovered
  /\ UNCHANGED <<billingVars, queueVars, jobVars, provider, cost, pcVars>>

RegainService ==
  /\ ~served /\ served' = TRUE /\ NoFault
  /\ UNCHANGED <<billingVars, queueVars, jobVars, provider, cost, pcVars>>

\* BatchImageCleanupService marks the output of a completed job deleted.
CleanupOutput ==
  /\ status = "completed" /\ SetStatus("output_deleted") /\ NoFault
  /\ UNCHANGED <<billingVars, queueVars, provVars, pcVars>>

Crash ==
  \/ SubmitCrash \/ SweepCrash
  \/ \E c \in Cancels : CancelCrash(c)
  \/ \E w \in Workers : WorkCrash(w)

Next ==
  \/ SubmitStep \/ Resubmit \/ SweepStep
  \/ \E c \in Cancels : CancelRead(c) \/ CancelStep(c)
  \/ \E w \in Workers : WorkStep(w)
  \/ MoveDueDelayed \/ RecoverStale \/ LockExpires \/ InflightLapses
  \/ ProviderEnds \/ LoseService \/ RegainService \/ CleanupOutput
  \/ Crash

Spec == Init /\ [][Next]_vars

\* The steps of A that are not faults.
Working(A) == A /\ UNCHANGED faults

\* Everything that runs goes on, the sweep and the queue's upkeep come round again, and
\* the provider ends every job; the user need not cancel, nothing need fail, and a
\* service that was lost need not come back.
Fairness ==
  /\ WF_vars(Working(SubmitStep)) /\ WF_vars(Working(SweepStep))
  /\ \A c \in Cancels : WF_vars(Working(CancelStep(c)))
  /\ \A w \in Workers : WF_vars(Working(WorkStep(w)))
  /\ WF_vars(Working(MoveDueDelayed)) /\ WF_vars(Working(RecoverStale))
  /\ WF_vars(Working(LockExpires)) /\ WF_vars(Working(ProviderEnds))

FairSpec == Spec /\ Fairness

-----------------------------------------------------------------------------
(* Properties *)

\* Every variable keeps its type.
TypeOK ==
  /\ claims \subseteq RequestIDs
  /\ balance \in Nat /\ frozen \in Nat /\ charged \in 0..Amount /\ returned \in {0, Amount}
  /\ ready \in Nat /\ delayed \in BOOLEAN /\ active \in BOOLEAN /\ inflight \in BOOLEAN
  /\ lock \in Workers \cup {NoOne, Ghost}
  /\ status \in Statuses /\ named \in BOOLEAN
  /\ retries \in 0..MaxRetries
  /\ provider \in {"none", "active", "good", "bad", "failed", "cancelled"}
  /\ cost \in Costs \cup {0} /\ served \in BOOLEAN
  /\ submit \in SubmitSteps /\ sweep \in SweepSteps
  /\ cancel \in [Cancels -> CancelSteps] /\ work \in [Workers -> WorkSteps]
  /\ target \in [Workers -> Statuses]
  /\ gaps \subseteq Gaps /\ faults \in 0..MaxFaults

\* A captured hold is not given back as well, and a job that never reserved gives
\* nothing back: what is frozen is the money of the other jobs and the open hold,
\* through crashes, retries and cancellations, unless a capture that was reported
\* as failed is in force or a worker lost its lock.
OthersStayFrozen ==
  gaps \cap {"slipped", "outlived"} = {} =>
    frozen = Others + (IF HoldOpen THEN Amount ELSE 0)

\* A job that ended well has been paid for, one that failed or was cancelled costs
\* nothing (under the same exceptions).
EndMatchesCharge ==
  gaps \cap {"slipped", "outlived"} = {} =>
    /\ status \in {"completed", "output_deleted"} => "capture" \in claims /\ charged = cost
    /\ status \in {"failed", "cancelled"} => "capture" \notin claims

\* abortOrphanProviderJob: once Submit has returned, an upstream job that goes on and
\* costs money belongs to a job that is alive here and knows its name, unless a call that
\* was to stop it failed or Cancel had read the job before its name was stored.
NoUpstreamOrphan ==
  submit = "done" /\ provider = "active" /\ "upstream" \notin gaps =>
    named /\ status \notin Terminal

\* Every hold is captured or given back in the end: after a crash of the submission
\* before the provider answered (the sweep), of a worker (stale recovery), between
\* capture and MarkBatchImageJobSettled (the claimed id), after failing releases (the
\* retry queue) and when the settlement can never succeed (exhausted retries).  While
\* the job is not served nothing resolves its hold: the worker only comes back and
\* Cancel fails; once it is served again, for good, the hold is resolved.
HoldIsResolved ==
  HoldOpen ~> (~HoldOpen \/ ~served \/ gaps \cap {"orphaned", "burned", "outlived"} # {})

\* The comments on the recovery of holds: the frozen balance must not leak.  With no
\* fault at all, every hold is captured or given back.
HoldNeverLeaks == HoldOpen ~> ~HoldOpen

=============================================================================
