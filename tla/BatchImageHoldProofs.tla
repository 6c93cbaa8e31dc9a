------------------------ MODULE BatchImageHoldProofs ------------------------
(***************************************************************************)
(* Proofs about BatchImageHold for any number of workers, cancellations    *)
(* and faults, any hold, balance and cost of the result.                   *)
(***************************************************************************)
EXTENDS BatchImageHold, TLAPS

\* The job has ended without a result.
Ended == status \in {"failed", "cancelled"}

\* The job has its result, or is about to be settled.
Settled == status \in {"settling", "completed", "output_deleted"}

\* No capture was misreported and no worker outlived its lock.
Safe == gaps \cap {"slipped", "outlived"} = {}

\* The steps of a worker that follow a settling job, and the ones it takes under the lock.
SettleSteps == {"settle", "capture", "settled", "record", "exhaust", "giveup"}

LockedSteps == {"load", "process", "query", "index", "transition", "release", "reread", "ack"}
               \cup SettleSteps

\* The job row against the submission and the provider: only a submission that has its hold
\* gives the job its name, and a job moves on only with what the provider said of it.
JobInv ==
  /\ ~named => status \in {"created", "uploading", "failed", "cancelled"}
  /\ named => submit \in {"abort", "enqueue", "done"} /\ "hold" \in claims
  /\ submit \in {"items", "upload", "provider", "store"} => "hold" \in claims
  /\ submit \in {"reserve", "items", "upload", "provider"} => provider = "none"
  /\ status = "indexing" => provider \in {"good", "bad"}
  /\ Settled => provider = "good"

\* What a worker knows: the step it is at fits the job as it can only have become since.
WorkerInv(w) ==
  /\ work[w] \in {"query", "index", "transition"} \cup SettleSteps => named
  /\ work[w] = "index" => provider \in {"good", "bad"}
  /\ work[w] = "transition" =>
       \/ target[w] = "running"
       \/ target[w] = "indexing" /\ provider \in {"good", "bad"}
       \/ target[w] = "settling" /\ provider = "good"
       \/ target[w] \in {"failed", "cancelled"} /\ provider \notin {"none", "active"}
  /\ work[w] \in SettleSteps => provider = "good"
  /\ work[w] = "settled" => "capture" \in claims
  /\ work[w] \in {"exhaust", "giveup"} => retries >= MaxRetries
  /\ work[w] = "release" => Ended

\* Whoever releases on behalf of an ended job does so for a job that stays ended.
EndedInv ==
  /\ sweep \in {"release", "retry"} => Ended
  /\ \A c \in Cancels : cancel[c] \in {"release", "retry"} => Ended

\* The claims against the history of the money, and what a claim says of the job.
ClaimInv ==
  /\ "capture" \notin claims => charged = 0
  /\ "release" \notin claims \/ "hold" \notin claims => returned = 0
  /\ "capture" \in claims => named /\ provider = "good"
  /\ "release" \in claims =>
       \/ Ended
       \/ ~named /\ submit \in {"reject", "return", "recover", "mark", "retry", "done"}
       \/ retries >= MaxRetries

\* A worker at a locked step has the lock, unless it outlived it.
LockInv ==
  "outlived" \notin gaps => \A w \in Workers : work[w] \in LockedSteps => lock = w

\* What a worker that has the lock may rely on.
SettleWorker(w) ==
  /\ work[w] \in {"query", "index", "transition"} => ~Settled
  /\ work[w] \in SettleSteps \ {"settle"} => status = "settling"
  /\ work[w] = "capture" => retries < MaxRetries
  /\ work[w] \in {"record", "exhaust", "giveup"} => "capture" \notin claims

\* Under the lock nobody else settles: the job stays settling while a worker settles it, a
\* captured job is never counted as a failure, and one with its retries used up is not
\* captured.
SettleInv ==
  Safe =>
    /\ \A w \in Workers : SettleWorker(w)
    /\ "capture" \in claims => Settled /\ charged = cost /\ charged <= Amount
    /\ "capture" \in claims /\ status = "settling" => retries < MaxRetries
    /\ status \in {"completed", "output_deleted"} => "capture" \in claims

\* A job at the provider that goes on is one that Submit still has in hand, or one that is
\* alive and known by its name.
UpstreamInv ==
  "upstream" \notin gaps /\ provider = "active" =>
    submit \in {"store", "abort"} \/ (named /\ status \notin Terminal)

\* The inductive invariant.
IInv ==
  /\ TypeOK
  /\ JobInv /\ (\A w \in Workers : WorkerInv(w)) /\ EndedInv /\ ClaimInv
  /\ LockInv /\ SettleInv /\ OthersStayFrozen /\ UpstreamInv

-----------------------------------------------------------------------------
\* Faults stay within their bound, and gaps are only added.
LEMMA FaultTypes ==
  ASSUME TypeOK
  PROVE  /\ Fault => faults' \in 0..MaxFaults
         /\ NoFault => faults' \in 0..MaxFaults /\ gaps' = gaps
         /\ Recovered => faults' \in 0..MaxFaults /\ gaps' = gaps
         /\ \A kind \in Gaps : Gap(kind) => faults' \in 0..MaxFaults /\ gaps' = gaps \cup {kind}
BY MaxFaultsAssumption DEF TypeOK, Fault, NoFault, Recovered, Gap

\* The numbers of the model are numbers.
LEMMA Numbers ==
  ASSUME TypeOK
  PROVE  /\ Amount \in Nat /\ Amount > 0 /\ Others \in Nat /\ cost \in Nat
         /\ MaxRetries \in Nat /\ retries \in Nat
<1>1. cost \in Costs \cup {0}
  BY DEF TypeOK
<1>2. \A x \in Costs : x \in Nat
  BY CostsAssumption
<1>3. cost \in Nat
  BY <1>1, <1>2
<1>. QED BY <1>3, AmountAssumption, OthersAssumption, MaxRetriesAssumption DEF TypeOK

\* Queueing the job keeps the types of the queue, and the lock.
LEMMA EnqueueTypes ==
  ASSUME TypeOK, Enqueue \/ UNCHANGED queueVars
  PROVE  /\ ready' \in Nat /\ delayed' \in BOOLEAN /\ active' \in BOOLEAN
         /\ inflight' \in BOOLEAN /\ lock' = lock
<1>1. ready' = ready \/ ready' = ready + 1
  BY DEF Enqueue, queueVars
<1>2. delayed' = delayed /\ active' = active /\ inflight' \in {inflight, TRUE} /\ lock' = lock
  BY DEF Enqueue, queueVars
<1>3. ready' \in Nat
  BY <1>1 DEF TypeOK
<1>. QED BY <1>2, <1>3, Zenon DEF TypeOK

\* From where a job may come to each status.
LEMMA Transitions ==
  /\ CanTransition(status, "uploading") => status = "created"
  /\ CanTransition(status, "submitted") => status \in {"created", "uploading"}
  /\ CanTransition(status, "running") => status \in {"submitted", "running"}
  /\ CanTransition(status, "indexing") => status \in {"submitted", "running"}
  /\ CanTransition(status, "settling") => status = "indexing"
  /\ CanTransition(status, "failed") => status \notin Terminal
  /\ CanTransition(status, "cancelled") =>
       status \in {"created", "uploading", "submitted", "running"}
BY DEF CanTransition, Terminal

\* Two workers are not at locked steps together, unless one outlived its lock.
LEMMA OneWorker ==
  ASSUME LockInv, "outlived" \notin gaps,
         NEW w \in Workers, NEW v \in Workers, work[w] \in LockedSteps, work[v] \in LockedSteps
  PROVE  v = w
BY DEF LockInv

-----------------------------------------------------------------------------
(* What a step keeps that leaves the workers, or everything else, alone *)

\* Steps of the submission, the sweep and the cancellations that touch neither the money
\* nor the job.
LEMMA OthersMove ==
  ASSUME IInv, gaps \subseteq gaps',
         UNCHANGED <<billingVars, jobVars, provVars, work, target, lock>>
  PROVE  (\A v \in Workers : WorkerInv(v))' /\ LockInv' /\ SettleInv' /\ OthersStayFrozen'
<1>1. Safe' => Safe
  BY DEF Safe
<1>2. (\A v \in Workers : WorkerInv(v))'
  BY DEF IInv, WorkerInv, Ended, billingVars, jobVars, provVars
<1>3. LockInv'
  BY DEF IInv, LockInv
<1>4. SettleInv'
  BY <1>1 DEF IInv, SettleInv, SettleWorker, Settled, billingVars, jobVars, provVars
<1>5. OthersStayFrozen'
  BY <1>1 DEF IInv, Safe, OthersStayFrozen, HoldOpen, billingVars
<1>. QED BY <1>2, <1>3, <1>4, <1>5

\* A worker goes on, and touches nothing but its own step, its target and the queue.
LEMMA WorkerMoves ==
  ASSUME IInv, TypeOK', NEW w \in Workers,
         UNCHANGED <<billingVars, jobVars, provVars, submit, sweep, cancel, gaps>>,
         \A v \in Workers \ {w} :
           work'[v] = work[v] /\ target'[v] = target[v] /\ (lock = v => lock' = v),
         WorkerInv(w)', Safe => SettleWorker(w)',
         "outlived" \notin gaps /\ work'[w] \in LockedSteps => lock' = w
  PROVE  IInv'
<1>1. JobInv' /\ EndedInv' /\ ClaimInv' /\ OthersStayFrozen' /\ UpstreamInv'
  BY DEF IInv, JobInv, Settled, EndedInv, Ended, ClaimInv, OthersStayFrozen, HoldOpen,
         UpstreamInv, billingVars, jobVars, provVars
<1>2. (\A v \in Workers : WorkerInv(v))'
  BY DEF IInv, WorkerInv, Ended, billingVars, jobVars, provVars
<1>3. LockInv'
  BY DEF IInv, LockInv
<1>4. SettleInv'
  BY DEF IInv, SettleInv, SettleWorker, Safe, Settled, billingVars, jobVars, provVars
<1>. QED BY <1>1, <1>2, <1>3, <1>4 DEF IInv

-----------------------------------------------------------------------------
(* Steps of the submission, the sweep and the cancellations that only move on *)

\* The items are written, with the hold in place.
LEMMA SubmitItemsStep ==
  ASSUME IInv, SubmitItems
  PROVE  IInv'
<1>0. gaps \subseteq gaps' /\ gaps' \subseteq Gaps /\ faults' \in 0..MaxFaults
  BY FaultTypes DEF IInv, TypeOK, Gaps, SubmitItems
<1>1. TypeOK'
  BY <1>0
     DEF IInv, TypeOK, SubmitItems, SubmitGoto, billingVars, queueVars, jobVars, provVars,
         SubmitSteps
<1>2. JobInv' /\ ClaimInv' /\ UpstreamInv'
  BY FaultTypes
     DEF IInv, JobInv, Settled, ClaimInv, Ended, UpstreamInv, Terminal, Gaps, SubmitItems,
         SubmitGoto, billingVars, queueVars, jobVars, provVars
<1>3. EndedInv'
  BY DEF IInv, TypeOK, EndedInv, Ended, SubmitItems, SubmitGoto, billingVars, queueVars, jobVars,
         provVars
<1>4. UNCHANGED <<billingVars, jobVars, provVars, work, target, lock>>
  BY DEF SubmitItems, SubmitGoto, billingVars, queueVars, jobVars, provVars
<1>. QED BY <1>0, <1>1, <1>2, <1>3, <1>4, OthersMove DEF IInv

\* The submission ends with its job queued, or orphaned.
LEMMA SubmitEnqueueStep ==
  ASSUME IInv, SubmitEnqueue
  PROVE  IInv'
<1>0. gaps \subseteq gaps' /\ gaps' \subseteq Gaps /\ faults' \in 0..MaxFaults
  BY FaultTypes DEF IInv, TypeOK, Gaps, SubmitEnqueue, EnqueueRetry
<1>1. TypeOK'
  BY <1>0, EnqueueTypes
     DEF IInv, TypeOK, SubmitEnqueue, SubmitGoto, EnqueueRetry, billingVars, jobVars, provVars,
         SubmitSteps
<1>2. JobInv' /\ ClaimInv' /\ UpstreamInv'
  BY FaultTypes
     DEF IInv, JobInv, Settled, ClaimInv, Ended, UpstreamInv, Terminal, Gaps, SubmitEnqueue,
         SubmitGoto, EnqueueRetry, Enqueue, queueVars, billingVars, jobVars, provVars
<1>3. EndedInv'
  BY DEF IInv, TypeOK, EndedInv, Ended, SubmitEnqueue, SubmitGoto, EnqueueRetry, Enqueue,
         queueVars, billingVars, jobVars, provVars
<1>4. UNCHANGED <<billingVars, jobVars, provVars, work, target, lock>>
  BY DEF SubmitEnqueue, SubmitGoto, EnqueueRetry, Enqueue, queueVars, billingVars, jobVars,
         provVars
<1>. QED BY <1>0, <1>1, <1>2, <1>3, <1>4, OthersMove DEF IInv

\* A repeated submission only queues the job again.
LEMMA ResubmitStep ==
  ASSUME IInv, Resubmit
  PROVE  IInv'
<1>0. gaps \subseteq gaps' /\ gaps' \subseteq Gaps /\ faults' \in 0..MaxFaults
  BY FaultTypes DEF IInv, TypeOK, Gaps, Resubmit
<1>1. TypeOK'
  BY <1>0
     DEF IInv, TypeOK, Resubmit, SubmitGoto, billingVars, queueVars, jobVars, provVars,
         SubmitSteps
<1>2. JobInv' /\ ClaimInv' /\ UpstreamInv'
  BY FaultTypes
     DEF IInv, JobInv, Settled, ClaimInv, Ended, UpstreamInv, Terminal, Gaps, Resubmit,
         SubmitGoto, billingVars, queueVars, jobVars, provVars
<1>3. EndedInv'
  BY DEF IInv, TypeOK, EndedInv, Ended, Resubmit, SubmitGoto, billingVars, queueVars, jobVars,
         provVars
<1>4. UNCHANGED <<billingVars, jobVars, provVars, work, target, lock>>
  BY DEF Resubmit, SubmitGoto, billingVars, queueVars, jobVars, provVars
<1>. QED BY <1>0, <1>1, <1>2, <1>3, <1>4, OthersMove DEF IInv

\* The failed release goes to the queue.
LEMMA SubmitRetryStep ==
  ASSUME IInv, SubmitRetry
  PROVE  IInv'
<1>0. gaps \subseteq gaps' /\ gaps' \subseteq Gaps /\ faults' \in 0..MaxFaults
  BY FaultTypes DEF IInv, TypeOK, Gaps, SubmitRetry, EnqueueRetry
<1>1. TypeOK'
  BY <1>0, EnqueueTypes
     DEF IInv, TypeOK, SubmitRetry, SubmitGoto, EnqueueRetry, billingVars, jobVars, provVars,
         SubmitSteps
<1>2. JobInv' /\ ClaimInv' /\ UpstreamInv'
  BY FaultTypes
     DEF IInv, JobInv, Settled, ClaimInv, Ended, UpstreamInv, Terminal, Gaps, SubmitRetry,
         SubmitGoto, EnqueueRetry, Enqueue, queueVars, billingVars, jobVars, provVars
<1>3. EndedInv'
  BY DEF IInv, TypeOK, EndedInv, Ended, SubmitRetry, SubmitGoto, EnqueueRetry, Enqueue, queueVars,
         billingVars, jobVars, provVars
<1>4. UNCHANGED <<billingVars, jobVars, provVars, work, target, lock>>
  BY DEF SubmitRetry, SubmitGoto, EnqueueRetry, Enqueue, queueVars, billingVars, jobVars, provVars
<1>. QED BY <1>0, <1>1, <1>2, <1>3, <1>4, OthersMove DEF IInv

\* The submission dies.
LEMMA SubmitCrashStep ==
  ASSUME IInv, SubmitCrash
  PROVE  IInv'
<1>0. gaps \subseteq gaps' /\ gaps' \subseteq Gaps /\ faults' \in 0..MaxFaults
  BY FaultTypes DEF IInv, TypeOK, Gaps, SubmitCrash
<1>1. TypeOK'
  BY <1>0
     DEF IInv, TypeOK, SubmitCrash, SubmitGoto, billingVars, queueVars, jobVars, provVars,
         SubmitSteps
<1>2. JobInv' /\ ClaimInv' /\ UpstreamInv'
  BY FaultTypes
     DEF IInv, JobInv, Settled, ClaimInv, Ended, UpstreamInv, Terminal, Gaps, SubmitCrash,
         SubmitGoto, billingVars, queueVars, jobVars, provVars
<1>3. EndedInv'
  BY DEF IInv, TypeOK, EndedInv, Ended, SubmitCrash, SubmitGoto, billingVars, queueVars, jobVars,
         provVars
<1>4. UNCHANGED <<billingVars, jobVars, provVars, work, target, lock>>
  BY DEF SubmitCrash, SubmitGoto, billingVars, queueVars, jobVars, provVars
<1>. QED BY <1>0, <1>1, <1>2, <1>3, <1>4, OthersMove DEF IInv

\* The failed release of the sweep goes to the queue.
LEMMA SweepRetryStep ==
  ASSUME IInv, SweepRetry
  PROVE  IInv'
<1>0. gaps \subseteq gaps' /\ gaps' \subseteq Gaps /\ faults' \in 0..MaxFaults
  BY FaultTypes DEF IInv, TypeOK, Gaps, SweepRetry, EnqueueRetry
<1>1. TypeOK'
  BY <1>0, EnqueueTypes
     DEF IInv, TypeOK, SweepRetry, SweepGoto, EnqueueRetry, billingVars, jobVars, provVars,
         SweepSteps
<1>2. JobInv' /\ ClaimInv' /\ UpstreamInv'
  BY FaultTypes
     DEF IInv, JobInv, Settled, ClaimInv, Ended, UpstreamInv, Terminal, Gaps, SweepRetry,
         SweepGoto, EnqueueRetry, Enqueue, queueVars, billingVars, jobVars, provVars
<1>3. EndedInv'
  BY DEF IInv, TypeOK, EndedInv, Ended, SweepRetry, SweepGoto, EnqueueRetry, Enqueue, queueVars,
         billingVars, jobVars, provVars
<1>4. UNCHANGED <<billingVars, jobVars, provVars, work, target, lock>>
  BY DEF SweepRetry, SweepGoto, EnqueueRetry, Enqueue, queueVars, billingVars, jobVars, provVars
<1>. QED BY <1>0, <1>1, <1>2, <1>3, <1>4, OthersMove DEF IInv

\* The sweep dies.
LEMMA SweepCrashStep ==
  ASSUME IInv, SweepCrash
  PROVE  IInv'
<1>0. gaps \subseteq gaps' /\ gaps' \subseteq Gaps /\ faults' \in 0..MaxFaults
  BY FaultTypes DEF IInv, TypeOK, Gaps, SweepCrash
<1>1. TypeOK'
  BY <1>0
     DEF IInv, TypeOK, SweepCrash, SweepGoto, billingVars, queueVars, jobVars, provVars,
         SweepSteps
<1>2. JobInv' /\ ClaimInv' /\ UpstreamInv'
  BY FaultTypes
     DEF IInv, JobInv, Settled, ClaimInv, Ended, UpstreamInv, Terminal, Gaps, SweepCrash,
         SweepGoto, billingVars, queueVars, jobVars, provVars
<1>3. EndedInv'
  BY DEF IInv, TypeOK, EndedInv, Ended, SweepCrash, SweepGoto, billingVars, queueVars, jobVars,
         provVars
<1>4. UNCHANGED <<billingVars, jobVars, provVars, work, target, lock>>
  BY DEF SweepCrash, SweepGoto, billingVars, queueVars, jobVars, provVars
<1>. QED BY <1>0, <1>1, <1>2, <1>3, <1>4, OthersMove DEF IInv

\* Cancel decides by the status it reads.
LEMMA CancelReadStep ==
  ASSUME IInv, NEW c \in Cancels, CancelRead(c)
  PROVE  IInv'
<1>0. gaps \subseteq gaps' /\ gaps' \subseteq Gaps /\ faults' \in 0..MaxFaults
  BY FaultTypes DEF IInv, TypeOK, Gaps, CancelRead
<1>1. TypeOK'
  BY <1>0
     DEF IInv, TypeOK, CancelRead, CancelGoto, billingVars, queueVars, jobVars, provVars,
         CancelSteps
<1>2. JobInv' /\ ClaimInv' /\ UpstreamInv'
  BY FaultTypes
     DEF IInv, JobInv, Settled, ClaimInv, Ended, UpstreamInv, Terminal, Gaps, CancelRead,
         CancelGoto, billingVars, queueVars, jobVars, provVars
<1>3. EndedInv'
  BY DEF IInv, TypeOK, EndedInv, Ended, CancelRead, CancelGoto, billingVars, queueVars, jobVars,
         provVars, Terminal
<1>4. UNCHANGED <<billingVars, jobVars, provVars, work, target, lock>>
  BY DEF CancelRead, CancelGoto, billingVars, queueVars, jobVars, provVars
<1>. QED BY <1>0, <1>1, <1>2, <1>3, <1>4, OthersMove DEF IInv

\* Cancel queues the job.
LEMMA CancelEnqueueStep ==
  ASSUME IInv, NEW c \in Cancels, CancelEnqueue(c)
  PROVE  IInv'
<1>0. gaps \subseteq gaps' /\ gaps' \subseteq Gaps /\ faults' \in 0..MaxFaults
  BY FaultTypes DEF IInv, TypeOK, Gaps, CancelEnqueue
<1>1. TypeOK'
  BY <1>0, EnqueueTypes
     DEF IInv, TypeOK, CancelEnqueue, CancelGoto, billingVars, jobVars, provVars, CancelSteps
<1>2. JobInv' /\ ClaimInv' /\ UpstreamInv'
  BY FaultTypes
     DEF IInv, JobInv, Settled, ClaimInv, Ended, UpstreamInv, Terminal, Gaps, CancelEnqueue,
         CancelGoto, Enqueue, queueVars, billingVars, jobVars, provVars
<1>3. EndedInv'
  BY DEF IInv, TypeOK, EndedInv, Ended, CancelEnqueue, CancelGoto, Enqueue, queueVars,
         billingVars, jobVars, provVars
<1>4. UNCHANGED <<billingVars, jobVars, provVars, work, target, lock>>
  BY DEF CancelEnqueue, CancelGoto, Enqueue, queueVars, billingVars, jobVars, provVars
<1>. QED BY <1>0, <1>1, <1>2, <1>3, <1>4, OthersMove DEF IInv

\* The failed release of a cancellation goes to the queue.
LEMMA CancelRetryStep ==
  ASSUME IInv, NEW c \in Cancels, CancelRetry(c)
  PROVE  IInv'
<1>0. gaps \subseteq gaps' /\ gaps' \subseteq Gaps /\ faults' \in 0..MaxFaults
  BY FaultTypes DEF IInv, TypeOK, Gaps, CancelRetry, EnqueueRetry
<1>1. TypeOK'
  BY <1>0, EnqueueTypes
     DEF IInv, TypeOK, CancelRetry, CancelGoto, EnqueueRetry, billingVars, jobVars, provVars,
         CancelSteps
<1>2. JobInv' /\ ClaimInv' /\ UpstreamInv'
  BY FaultTypes
     DEF IInv, JobInv, Settled, ClaimInv, Ended, UpstreamInv, Terminal, Gaps, CancelRetry,
         CancelGoto, EnqueueRetry, Enqueue, queueVars, billingVars, jobVars, provVars
<1>3. EndedInv'
  BY DEF IInv, TypeOK, EndedInv, Ended, CancelRetry, CancelGoto, EnqueueRetry, Enqueue, queueVars,
         billingVars, jobVars, provVars
<1>4. UNCHANGED <<billingVars, jobVars, provVars, work, target, lock>>
  BY DEF CancelRetry, CancelGoto, EnqueueRetry, Enqueue, queueVars, billingVars, jobVars, provVars
<1>. QED BY <1>0, <1>1, <1>2, <1>3, <1>4, OthersMove DEF IInv

\* The cancellation dies.
LEMMA CancelCrashStep ==
  ASSUME IInv, NEW c \in Cancels, CancelCrash(c)
  PROVE  IInv'
<1>0. gaps \subseteq gaps' /\ gaps' \subseteq Gaps /\ faults' \in 0..MaxFaults
  BY FaultTypes DEF IInv, TypeOK, Gaps, CancelCrash
<1>1. TypeOK'
  BY <1>0
     DEF IInv, TypeOK, CancelCrash, CancelGoto, billingVars, queueVars, jobVars, provVars,
         CancelSteps
<1>2. JobInv' /\ ClaimInv' /\ UpstreamInv'
  BY FaultTypes
     DEF IInv, JobInv, Settled, ClaimInv, Ended, UpstreamInv, Terminal, Gaps, CancelCrash,
         CancelGoto, billingVars, queueVars, jobVars, provVars
<1>3. EndedInv'
  BY DEF IInv, TypeOK, EndedInv, Ended, CancelCrash, CancelGoto, billingVars, queueVars, jobVars,
         provVars
<1>4. UNCHANGED <<billingVars, jobVars, provVars, work, target, lock>>
  BY DEF CancelCrash, CancelGoto, billingVars, queueVars, jobVars, provVars
<1>. QED BY <1>0, <1>1, <1>2, <1>3, <1>4, OthersMove DEF IInv

-----------------------------------------------------------------------------
(* Steps of the workers that only move on *)

\* A worker takes the job from the ready list.
LEMMA WorkReserveStep ==
  ASSUME IInv, NEW w \in Workers, WorkReserve(w)
  PROVE  IInv'
<1>0. faults' \in 0..MaxFaults /\ gaps' = gaps
  BY FaultTypes DEF IInv, WorkReserve, Reserve, WorkGoto
<1>1. TypeOK' /\ gaps' = gaps
  BY <1>0
     DEF IInv, TypeOK, WorkReserve, Reserve, WorkGoto, billingVars, jobVars, provVars, WorkSteps
<1>2. WorkerInv(w)'
  BY DEF IInv, TypeOK, JobInv, WorkerInv, Settled, Ended, SettleSteps, WorkReserve, Reserve,
         WorkGoto, billingVars, jobVars, provVars
<1>3. Safe => SettleWorker(w)'
  BY <1>1
     DEF IInv, TypeOK, JobInv, WorkerInv, SettleInv, Safe, SettleWorker, Settled, SettleSteps,
         WorkReserve, Reserve, WorkGoto, billingVars, jobVars, provVars, Terminal
<1>4. /\ \A v \in Workers \ {w} :
          work'[v] = work[v] /\ target'[v] = target[v] /\ (lock = v => lock' = v)
      /\ "outlived" \notin gaps /\ work'[w] \in LockedSteps => lock' = w
  BY LockAssumption
     DEF IInv, TypeOK, LockInv, LockedSteps, SettleSteps, WorkReserve, Reserve, WorkGoto,
         billingVars, jobVars, provVars
<1>5. UNCHANGED <<billingVars, jobVars, provVars, submit, sweep, cancel>>
  BY DEF WorkReserve, Reserve, WorkGoto, billingVars, jobVars, provVars
<1>. QED BY <1>1, <1>2, <1>3, <1>4, <1>5, WorkerMoves

\* It goes on only with the lock.
LEMMA WorkLockStep ==
  ASSUME IInv, NEW w \in Workers, WorkLock(w)
  PROVE  IInv'
<1>0. faults' \in 0..MaxFaults /\ gaps' = gaps
  BY FaultTypes DEF IInv, WorkLock, TryAcquireJobLock, WorkGoto
<1>1. TypeOK' /\ gaps' = gaps
  BY <1>0
     DEF IInv, TypeOK, WorkLock, TryAcquireJobLock, WorkGoto, queueVars, billingVars, jobVars,
         provVars, WorkSteps
<1>2. WorkerInv(w)'
  BY DEF IInv, TypeOK, JobInv, WorkerInv, Settled, Ended, SettleSteps, WorkLock,
         TryAcquireJobLock, WorkGoto, queueVars, billingVars, jobVars, provVars
<1>3. Safe => SettleWorker(w)'
  BY <1>1
     DEF IInv, TypeOK, JobInv, WorkerInv, SettleInv, Safe, SettleWorker, Settled, SettleSteps,
         WorkLock, TryAcquireJobLock, WorkGoto, queueVars, billingVars, jobVars, provVars,
         Terminal
<1>4. /\ \A v \in Workers \ {w} :
          work'[v] = work[v] /\ target'[v] = target[v] /\ (lock = v => lock' = v)
      /\ "outlived" \notin gaps /\ work'[w] \in LockedSteps => lock' = w
  BY LockAssumption
     DEF IInv, TypeOK, LockInv, LockedSteps, SettleSteps, WorkLock, TryAcquireJobLock, WorkGoto,
         queueVars, billingVars, jobVars, provVars
<1>5. UNCHANGED <<billingVars, jobVars, provVars, submit, sweep, cancel>>
  BY DEF WorkLock, TryAcquireJobLock, WorkGoto, queueVars, billingVars, jobVars, provVars
<1>. QED BY <1>1, <1>2, <1>3, <1>4, <1>5, WorkerMoves

\* A settling job is settled.
LEMMA WorkLoadStep ==
  ASSUME IInv, NEW w \in Workers, WorkLoad(w)
  PROVE  IInv'
<1>0. faults' \in 0..MaxFaults /\ gaps' = gaps
  BY FaultTypes DEF IInv, WorkLoad, WorkGoto
<1>1. TypeOK' /\ gaps' = gaps
  BY <1>0
     DEF IInv, TypeOK, WorkLoad, WorkGoto, billingVars, queueVars, jobVars, provVars, WorkSteps
<1>2. WorkerInv(w)'
  BY DEF IInv, TypeOK, JobInv, WorkerInv, Settled, Ended, SettleSteps, WorkLoad, WorkGoto,
         billingVars, queueVars, jobVars, provVars
<1>3. Safe => SettleWorker(w)'
  BY <1>1
     DEF IInv, TypeOK, JobInv, WorkerInv, SettleInv, Safe, SettleWorker, Settled, SettleSteps,
         WorkLoad, WorkGoto, billingVars, queueVars, jobVars, provVars, Terminal
<1>4. /\ \A v \in Workers \ {w} :
          work'[v] = work[v] /\ target'[v] = target[v] /\ (lock = v => lock' = v)
      /\ "outlived" \notin gaps /\ work'[w] \in LockedSteps => lock' = w
  BY LockAssumption
     DEF IInv, TypeOK, LockInv, LockedSteps, SettleSteps, WorkLoad, WorkGoto, billingVars,
         queueVars, jobVars, provVars
<1>5. UNCHANGED <<billingVars, jobVars, provVars, submit, sweep, cancel>>
  BY DEF WorkLoad, WorkGoto, billingVars, queueVars, jobVars, provVars
<1>. QED BY <1>1, <1>2, <1>3, <1>4, <1>5, WorkerMoves

\* The status read under the lock decides.
LEMMA WorkProcessStep ==
  ASSUME IInv, NEW w \in Workers, WorkProcess(w)
  PROVE  IInv'
<1>0. faults' \in 0..MaxFaults /\ gaps' = gaps
  BY FaultTypes DEF IInv, WorkProcess, Unserved, WorkGoto
<1>1. TypeOK' /\ gaps' = gaps
  BY <1>0
     DEF IInv, TypeOK, WorkProcess, Unserved, WorkGoto, billingVars, queueVars, jobVars, provVars, WorkSteps
<1>2. WorkerInv(w)'
  BY DEF IInv, TypeOK, JobInv, WorkerInv, Settled, Ended, SettleSteps, WorkProcess, Unserved,
         WorkGoto,
         billingVars, queueVars, jobVars, provVars, Terminal
<1>3. Safe => SettleWorker(w)'
  BY <1>1
     DEF IInv, TypeOK, JobInv, WorkerInv, SettleInv, Safe, SettleWorker, Settled, SettleSteps,
         WorkProcess, Unserved, WorkGoto, billingVars, queueVars, jobVars, provVars, Terminal
<1>4. /\ \A v \in Workers \ {w} :
          work'[v] = work[v] /\ target'[v] = target[v] /\ (lock = v => lock' = v)
      /\ "outlived" \notin gaps /\ work'[w] \in LockedSteps => lock' = w
  BY LockAssumption
     DEF IInv, TypeOK, LockInv, LockedSteps, SettleSteps, WorkProcess, Unserved, WorkGoto, billingVars,
         queueVars, jobVars, provVars
<1>5. UNCHANGED <<billingVars, jobVars, provVars, submit, sweep, cancel>>
  BY DEF WorkProcess, Unserved, WorkGoto, billingVars, queueVars, jobVars, provVars
<1>. QED BY <1>1, <1>2, <1>3, <1>4, <1>5, WorkerMoves

\* What the provider says decides the next status.
LEMMA WorkQueryStep ==
  ASSUME IInv, NEW w \in Workers, WorkQuery(w)
  PROVE  IInv'
<1>0. faults' \in 0..MaxFaults /\ gaps' = gaps
  BY FaultTypes DEF IInv, WorkQuery, Unserved, TransitionNext, WorkGoto
<1>1. TypeOK' /\ gaps' = gaps
  BY <1>0
     DEF IInv, TypeOK, WorkQuery, Unserved, TransitionNext, WorkGoto, billingVars, queueVars, jobVars,
         provVars, WorkSteps, Statuses
<1>2. WorkerInv(w)'
  BY DEF IInv, TypeOK, JobInv, WorkerInv, Settled, Ended, SettleSteps, WorkQuery, Unserved,
         TransitionNext,
         WorkGoto, billingVars, queueVars, jobVars, provVars
<1>3. Safe => SettleWorker(w)'
  BY <1>1
     DEF IInv, TypeOK, JobInv, WorkerInv, SettleInv, Safe, SettleWorker, Settled, SettleSteps,
         WorkQuery, Unserved, TransitionNext, WorkGoto, billingVars, queueVars, jobVars, provVars, Terminal
<1>4. /\ \A v \in Workers \ {w} :
          work'[v] = work[v] /\ target'[v] = target[v] /\ (lock = v => lock' = v)
      /\ "outlived" \notin gaps /\ work'[w] \in LockedSteps => lock' = w
  BY LockAssumption
     DEF IInv, TypeOK, LockInv, LockedSteps, SettleSteps, WorkQuery, Unserved, TransitionNext, WorkGoto,
         billingVars, queueVars, jobVars, provVars
<1>5. UNCHANGED <<billingVars, jobVars, provVars, submit, sweep, cancel>>
  BY DEF WorkQuery, Unserved, TransitionNext, WorkGoto, billingVars, queueVars, jobVars, provVars
<1>. QED BY <1>1, <1>2, <1>3, <1>4, <1>5, WorkerMoves

\* Only good output of a job that is indexing leads to settling.
LEMMA WorkIndexStep ==
  ASSUME IInv, NEW w \in Workers, WorkIndex(w)
  PROVE  IInv'
<1>0. faults' \in 0..MaxFaults /\ gaps' = gaps
  BY FaultTypes DEF IInv, WorkIndex, Unserved, TransitionNext, WorkGoto
<1>1. TypeOK' /\ gaps' = gaps
  BY <1>0
     DEF IInv, TypeOK, WorkIndex, Unserved, TransitionNext, WorkGoto, billingVars, queueVars, jobVars,
         provVars, WorkSteps, Statuses
<1>2. WorkerInv(w)'
  BY DEF IInv, TypeOK, JobInv, WorkerInv, Settled, Ended, SettleSteps, WorkIndex, Unserved,
         TransitionNext,
         WorkGoto, billingVars, queueVars, jobVars, provVars
<1>3. Safe => SettleWorker(w)'
  BY <1>1
     DEF IInv, TypeOK, JobInv, WorkerInv, SettleInv, Safe, SettleWorker, Settled, SettleSteps,
         WorkIndex, Unserved, TransitionNext, WorkGoto, billingVars, queueVars, jobVars, provVars, Terminal
<1>4. /\ \A v \in Workers \ {w} :
          work'[v] = work[v] /\ target'[v] = target[v] /\ (lock = v => lock' = v)
      /\ "outlived" \notin gaps /\ work'[w] \in LockedSteps => lock' = w
  BY LockAssumption
     DEF IInv, TypeOK, LockInv, LockedSteps, SettleSteps, WorkIndex, Unserved, TransitionNext, WorkGoto,
         billingVars, queueVars, jobVars, provVars
<1>5. UNCHANGED <<billingVars, jobVars, provVars, submit, sweep, cancel>>
  BY DEF WorkIndex, Unserved, TransitionNext, WorkGoto, billingVars, queueVars, jobVars, provVars
<1>. QED BY <1>1, <1>2, <1>3, <1>4, <1>5, WorkerMoves

\* A settling job with retries left is captured.
LEMMA SettleStep ==
  ASSUME IInv, NEW w \in Workers, Settle(w)
  PROVE  IInv'
<1>0. faults' \in 0..MaxFaults /\ gaps' = gaps
  BY FaultTypes DEF IInv, Settle, Unserved, WorkGoto
<1>1. TypeOK' /\ gaps' = gaps
  BY <1>0
     DEF IInv, TypeOK, Settle, Unserved, WorkGoto, billingVars, queueVars, jobVars, provVars,
         WorkSteps
<1>2. WorkerInv(w)'
  BY DEF IInv, TypeOK, JobInv, WorkerInv, Settled, Ended, SettleSteps, Settle, Unserved, WorkGoto,
         billingVars, queueVars, jobVars, provVars
<1>3. Safe => SettleWorker(w)'
  <2>1. work'[w] \in {"ack", "requeue"} \/ status = "settling"
    BY DEF IInv, TypeOK, Settle, Unserved, WorkGoto
  <2>2. work'[w] = "exhaust" => retries >= MaxRetries
    BY DEF IInv, TypeOK, Settle, Unserved, WorkGoto
  <2>3. work'[w] = "record" => cost > Amount
    BY DEF IInv, TypeOK, Settle, Unserved, WorkGoto
  <2>4. work'[w] = "capture" => ~(retries >= MaxRetries)
    BY DEF IInv, TypeOK, Settle, Unserved, WorkGoto
  <2>5. work'[w] \in {"ack", "requeue", "exhaust", "record", "capture"}
    BY DEF IInv, TypeOK, Settle, Unserved, WorkGoto
  <2>6. UNCHANGED <<status, retries, claims>>
    BY DEF Settle, Unserved, billingVars, jobVars
  <2>. QED BY <2>1, <2>2, <2>3, <2>4, <2>5, <2>6, Numbers
           DEF IInv, SettleInv, SettleWorker, SettleSteps, Settled
<1>4. /\ \A v \in Workers \ {w} :
          work'[v] = work[v] /\ target'[v] = target[v] /\ (lock = v => lock' = v)
      /\ "outlived" \notin gaps /\ work'[w] \in LockedSteps => lock' = w
  BY LockAssumption
     DEF IInv, TypeOK, LockInv, LockedSteps, SettleSteps, Settle, Unserved, WorkGoto, billingVars,
         queueVars, jobVars, provVars
<1>5. UNCHANGED <<billingVars, jobVars, provVars, submit, sweep, cancel>>
  BY DEF Settle, Unserved, WorkGoto, billingVars, queueVars, jobVars, provVars
<1>. QED BY <1>1, <1>2, <1>3, <1>4, <1>5, WorkerMoves

\* After a failure the job is read again.
LEMMA SettleRereadStep ==
  ASSUME IInv, NEW w \in Workers, SettleReread(w)
  PROVE  IInv'
<1>0. faults' \in 0..MaxFaults /\ gaps' = gaps
  BY FaultTypes DEF IInv, SettleReread, WorkGoto
<1>1. TypeOK' /\ gaps' = gaps
  BY <1>0
     DEF IInv, TypeOK, SettleReread, WorkGoto, billingVars, queueVars, jobVars, provVars,
         WorkSteps
<1>2. WorkerInv(w)'
  BY DEF IInv, TypeOK, JobInv, WorkerInv, Settled, Ended, SettleSteps, SettleReread, WorkGoto,
         billingVars, queueVars, jobVars, provVars, Terminal
<1>3. Safe => SettleWorker(w)'
  BY <1>1
     DEF IInv, TypeOK, JobInv, WorkerInv, SettleInv, Safe, SettleWorker, Settled, SettleSteps,
         SettleReread, WorkGoto, billingVars, queueVars, jobVars, provVars, Terminal
<1>4. /\ \A v \in Workers \ {w} :
          work'[v] = work[v] /\ target'[v] = target[v] /\ (lock = v => lock' = v)
      /\ "outlived" \notin gaps /\ work'[w] \in LockedSteps => lock' = w
  BY LockAssumption
     DEF IInv, TypeOK, LockInv, LockedSteps, SettleSteps, SettleReread, WorkGoto, billingVars,
         queueVars, jobVars, provVars
<1>5. UNCHANGED <<billingVars, jobVars, provVars, submit, sweep, cancel>>
  BY DEF SettleReread, WorkGoto, billingVars, queueVars, jobVars, provVars
<1>. QED BY <1>1, <1>2, <1>3, <1>4, <1>5, WorkerMoves

\* The job leaves the queue.
LEMMA WorkAckStep ==
  ASSUME IInv, NEW w \in Workers, WorkAck(w)
  PROVE  IInv'
<1>0. faults' \in 0..MaxFaults /\ gaps' = gaps
  BY FaultTypes DEF IInv, WorkAck, WorkGoto, Ack
<1>1. TypeOK' /\ gaps' = gaps
  <2>1. work' \in [Workers -> WorkSteps] /\ UNCHANGED <<submit, sweep, cancel, target>>
    BY DEF IInv, TypeOK, WorkAck, WorkGoto, WorkSteps
  <2>2. /\ ready' \in Nat /\ lock' \in Workers \cup {NoOne, Ghost}
        /\ delayed' \in BOOLEAN /\ active' \in BOOLEAN /\ inflight' \in BOOLEAN
    BY DEF IInv, TypeOK, WorkAck, Ack, queueVars
  <2>3. UNCHANGED <<billingVars, jobVars, provVars>>
    BY DEF WorkAck
  <2>. QED BY <1>0, <2>1, <2>2, <2>3 DEF IInv, TypeOK, billingVars, jobVars, provVars
<1>2. WorkerInv(w)'
  BY DEF IInv, TypeOK, JobInv, WorkerInv, Settled, Ended, SettleSteps, WorkAck, WorkGoto, Ack,
         queueVars, billingVars, jobVars, provVars
<1>3. Safe => SettleWorker(w)'
  BY <1>1
     DEF IInv, TypeOK, JobInv, WorkerInv, SettleInv, Safe, SettleWorker, Settled, SettleSteps,
         WorkAck, WorkGoto, Ack, queueVars, billingVars, jobVars, provVars, Terminal
<1>4. /\ \A v \in Workers \ {w} :
          work'[v] = work[v] /\ target'[v] = target[v] /\ (lock = v => lock' = v)
      /\ "outlived" \notin gaps /\ work'[w] \in LockedSteps => lock' = w
  BY LockAssumption
     DEF IInv, TypeOK, LockInv, LockedSteps, SettleSteps, WorkAck, WorkGoto, Ack, queueVars,
         billingVars, jobVars, provVars
<1>5. UNCHANGED <<billingVars, jobVars, provVars, submit, sweep, cancel>>
  BY DEF WorkAck, WorkGoto, Ack, queueVars, billingVars, jobVars, provVars
<1>. QED BY <1>1, <1>2, <1>3, <1>4, <1>5, WorkerMoves

\* The job comes back later.
LEMMA WorkRequeueStep ==
  ASSUME IInv, NEW w \in Workers, WorkRequeue(w)
  PROVE  IInv'
<1>0. faults' \in 0..MaxFaults /\ gaps' = gaps
  BY FaultTypes DEF IInv, WorkRequeue, WorkGoto, RequeueAfter
<1>1. TypeOK' /\ gaps' = gaps
  <2>1. work' \in [Workers -> WorkSteps] /\ UNCHANGED <<submit, sweep, cancel, target>>
    BY DEF IInv, TypeOK, WorkRequeue, WorkGoto, WorkSteps
  <2>2. /\ ready' \in Nat /\ lock' \in Workers \cup {NoOne, Ghost}
        /\ delayed' \in BOOLEAN /\ active' \in BOOLEAN /\ inflight' \in BOOLEAN
    BY DEF IInv, TypeOK, WorkRequeue, RequeueAfter, queueVars
  <2>3. UNCHANGED <<billingVars, jobVars, provVars>>
    BY DEF WorkRequeue
  <2>. QED BY <1>0, <2>1, <2>2, <2>3 DEF IInv, TypeOK, billingVars, jobVars, provVars
<1>2. WorkerInv(w)'
  BY DEF IInv, TypeOK, JobInv, WorkerInv, Settled, Ended, SettleSteps, WorkRequeue, WorkGoto,
         RequeueAfter, queueVars, billingVars, jobVars, provVars
<1>3. Safe => SettleWorker(w)'
  BY <1>1
     DEF IInv, TypeOK, JobInv, WorkerInv, SettleInv, Safe, SettleWorker, Settled, SettleSteps,
         WorkRequeue, WorkGoto, RequeueAfter, queueVars, billingVars, jobVars, provVars, Terminal
<1>4. /\ \A v \in Workers \ {w} :
          work'[v] = work[v] /\ target'[v] = target[v] /\ (lock = v => lock' = v)
      /\ "outlived" \notin gaps /\ work'[w] \in LockedSteps => lock' = w
  BY LockAssumption
     DEF IInv, TypeOK, LockInv, LockedSteps, SettleSteps, WorkRequeue, WorkGoto, RequeueAfter,
         queueVars, billingVars, jobVars, provVars
<1>5. UNCHANGED <<billingVars, jobVars, provVars, submit, sweep, cancel>>
  BY DEF WorkRequeue, WorkGoto, RequeueAfter, queueVars, billingVars, jobVars, provVars
<1>. QED BY <1>1, <1>2, <1>3, <1>4, <1>5, WorkerMoves

\* The lock is given back, or left to expire.
LEMMA WorkUnlockStep ==
  ASSUME IInv, NEW w \in Workers, WorkUnlock(w)
  PROVE  IInv'
<1>0. faults' \in 0..MaxFaults /\ gaps' = gaps
  BY FaultTypes DEF IInv, WorkUnlock, WorkGoto, ReleaseJobLock, AbandonJobLock
<1>1. TypeOK' /\ gaps' = gaps
  BY <1>0
     DEF IInv, TypeOK, WorkUnlock, WorkGoto, ReleaseJobLock, AbandonJobLock, billingVars, jobVars,
         provVars, WorkSteps
<1>2. WorkerInv(w)'
  BY DEF IInv, TypeOK, JobInv, WorkerInv, Settled, Ended, SettleSteps, WorkUnlock, WorkGoto,
         ReleaseJobLock, AbandonJobLock, billingVars, jobVars, provVars
<1>3. Safe => SettleWorker(w)'
  BY <1>1
     DEF IInv, TypeOK, JobInv, WorkerInv, SettleInv, Safe, SettleWorker, Settled, SettleSteps,
         WorkUnlock, WorkGoto, ReleaseJobLock, AbandonJobLock, billingVars, jobVars, provVars,
         Terminal
<1>4. /\ \A v \in Workers \ {w} :
          work'[v] = work[v] /\ target'[v] = target[v] /\ (lock = v => lock' = v)
      /\ "outlived" \notin gaps /\ work'[w] \in LockedSteps => lock' = w
  BY LockAssumption
     DEF IInv, TypeOK, LockInv, LockedSteps, SettleSteps, WorkUnlock, WorkGoto, ReleaseJobLock,
         AbandonJobLock, billingVars, jobVars, provVars
<1>5. UNCHANGED <<billingVars, jobVars, provVars, submit, sweep, cancel>>
  BY DEF WorkUnlock, WorkGoto, ReleaseJobLock, AbandonJobLock, billingVars, jobVars, provVars
<1>. QED BY <1>1, <1>2, <1>3, <1>4, <1>5, WorkerMoves

\* The worker dies; its lock is a ghost.
LEMMA WorkCrashStep ==
  ASSUME IInv, NEW w \in Workers, WorkCrash(w)
  PROVE  IInv'
<1>0. faults' \in 0..MaxFaults /\ gaps' = gaps
  BY FaultTypes DEF IInv, WorkCrash, WorkGoto, AbandonJobLock
<1>1. TypeOK' /\ gaps' = gaps
  BY <1>0
     DEF IInv, TypeOK, WorkCrash, WorkGoto, AbandonJobLock, billingVars, jobVars, provVars,
         WorkSteps
<1>2. WorkerInv(w)'
  BY DEF IInv, TypeOK, JobInv, WorkerInv, Settled, Ended, SettleSteps, WorkCrash, WorkGoto,
         AbandonJobLock, billingVars, jobVars, provVars
<1>3. Safe => SettleWorker(w)'
  BY <1>1
     DEF IInv, TypeOK, JobInv, WorkerInv, SettleInv, Safe, SettleWorker, Settled, SettleSteps,
         WorkCrash, WorkGoto, AbandonJobLock, billingVars, jobVars, provVars, Terminal
<1>4. /\ \A v \in Workers \ {w} :
          work'[v] = work[v] /\ target'[v] = target[v] /\ (lock = v => lock' = v)
      /\ "outlived" \notin gaps /\ work'[w] \in LockedSteps => lock' = w
  BY LockAssumption
     DEF IInv, TypeOK, LockInv, LockedSteps, SettleSteps, WorkCrash, WorkGoto, AbandonJobLock,
         billingVars, jobVars, provVars
<1>5. UNCHANGED <<billingVars, jobVars, provVars, submit, sweep, cancel>>
  BY DEF WorkCrash, WorkGoto, AbandonJobLock, billingVars, jobVars, provVars
<1>. QED BY <1>1, <1>2, <1>3, <1>4, <1>5, WorkerMoves

-----------------------------------------------------------------------------
(* Releases *)

\* releaseBatchImageBalanceHold gives back what is frozen, once, provided that the hold has
\* not been captured.
LEMMA Released ==
  ASSUME IInv, ReleaseBatchImageBalance \/ UNCHANGED billingVars, gaps' = gaps,
         Safe => "capture" \notin claims
  PROVE  /\ claims' \subseteq RequestIDs /\ balance' \in Nat /\ frozen' \in Nat
         /\ returned' \in {0, Amount} /\ charged' = charged
         /\ claims' = claims \/ claims' = claims \cup {"release"}
         /\ "release" \notin claims' \/ "hold" \notin claims' => returned' = 0
         /\ OthersStayFrozen'
<1>0. Amount \in Nat /\ Amount > 0 /\ Others \in Nat
  BY Numbers DEF IInv
<1>1. /\ TypeOK /\ OthersStayFrozen
      /\ "release" \notin claims \/ "hold" \notin claims => returned = 0
  BY DEF IInv, ClaimInv
<1>2. CASE UNCHANGED billingVars
  BY <1>1, <1>2 DEF TypeOK, OthersStayFrozen, HoldOpen, billingVars
<1>3. CASE "release" \notin claims /\ "hold" \notin claims /\ ReleaseBatchImageBalance
  <2>1. claims' = claims \cup {"release"} /\ UNCHANGED <<balance, frozen, charged, returned>>
    BY <1>3 DEF ReleaseBatchImageBalance, Applied, moneyVars
  <2>. QED BY <1>1, <1>3, <2>1 DEF TypeOK, OthersStayFrozen, HoldOpen, RequestIDs
<1>4. CASE "release" \notin claims /\ "hold" \in claims /\ ReleaseBatchImageBalance
  <2>1. /\ claims' = claims \cup {"release"} /\ charged' = charged
        /\ frozen >= Amount /\ frozen' = frozen - Amount /\ balance' = balance + Amount
        /\ returned' = returned + Amount
    BY <1>4 DEF ReleaseBatchImageBalance, Applied
  <2>2. returned = 0 /\ returned' = Amount
    BY <1>0, <1>1, <1>4, <2>1
  <2>3. claims' \subseteq RequestIDs /\ balance' \in Nat /\ frozen' \in Nat
    BY <1>0, <1>1, <2>1 DEF TypeOK, RequestIDs
  <2>4. OthersStayFrozen'
    <3>1. ~HoldOpen'
      BY <1>0, <2>2 DEF HoldOpen
    <3>2. ASSUME Safe PROVE frozen' = Others
      <4>1. HoldOpen
        BY <1>4, <2>2, <3>2 DEF HoldOpen
      <4>2. frozen = Others + Amount
        BY <1>1, <3>2, <4>1 DEF OthersStayFrozen, Safe
      <4>. QED BY <1>0, <2>1, <4>2
    <3>3. Others + 0 = Others
      BY <1>0
    <3>. QED BY <3>1, <3>2, <3>3 DEF OthersStayFrozen, Safe
  <2>. QED BY <1>4, <2>1, <2>2, <2>3, <2>4
<1>5. "release" \in claims /\ ReleaseBatchImageBalance => UNCHANGED billingVars
  BY DEF ReleaseBatchImageBalance, Applied
<1>. QED BY <1>2, <1>3, <1>4, <1>5

\* The submission releases while the job has no name.
LEMMA SubmitReleaseStep ==
  ASSUME IInv, SubmitRelease
  PROVE  IInv'
<1>0. /\ ReleaseBatchImageBalance \/ UNCHANGED billingVars
      /\ gaps' = gaps /\ faults' \in 0..MaxFaults
      /\ submit' \in {"mark", "done", "recover"} /\ UNCHANGED <<sweep, cancel, work, target>>
      /\ UNCHANGED <<queueVars, jobVars, provVars>>
  BY FaultTypes DEF IInv, SubmitRelease, Release, SubmitGoto
<1>1. submit \in {"reject", "return"} /\ ~named /\ "capture" \notin claims
  BY DEF IInv, JobInv, ClaimInv, SubmitRelease
<1>2. /\ claims' \subseteq RequestIDs /\ balance' \in Nat /\ frozen' \in Nat
      /\ returned' \in {0, Amount} /\ charged' = charged
      /\ claims' = claims \/ claims' = claims \cup {"release"}
      /\ "release" \notin claims' \/ "hold" \notin claims' => returned' = 0
      /\ OthersStayFrozen'
  BY <1>0, <1>1, Released
<1>3. TypeOK'
  BY <1>0, <1>2 DEF IInv, TypeOK, SubmitSteps, queueVars, jobVars, provVars
<1>4. JobInv' /\ EndedInv' /\ ClaimInv' /\ UpstreamInv'
  BY <1>0, <1>1, <1>2
     DEF IInv, TypeOK, JobInv, Settled, EndedInv, Ended, ClaimInv, UpstreamInv, Terminal,
         queueVars, jobVars, provVars
<1>5. (\A v \in Workers : WorkerInv(v))' /\ LockInv' /\ SettleInv'
  BY <1>0, <1>1, <1>2
     DEF IInv, TypeOK, WorkerInv, Ended, SettleSteps, LockInv, LockedSteps, SettleInv,
         SettleWorker, Safe, Settled, queueVars, jobVars, provVars
<1>. QED BY <1>2, <1>3, <1>4, <1>5 DEF IInv

\* The sweep releases for a job that it has failed.
LEMMA SweepReleaseStep ==
  ASSUME IInv, SweepRelease
  PROVE  IInv'
<1>0. /\ ReleaseBatchImageBalance \/ UNCHANGED billingVars
      /\ gaps' = gaps /\ faults' \in 0..MaxFaults
      /\ sweep' \in {"idle", "retry"} /\ UNCHANGED <<submit, cancel, work, target>>
      /\ UNCHANGED <<queueVars, jobVars, provVars>>
  BY FaultTypes DEF IInv, SweepRelease, Release, SweepGoto
<1>1. Ended /\ (Safe => "capture" \notin claims) /\ sweep = "release"
  BY DEF IInv, EndedInv, SettleInv, SettleWorker, Ended, Settled, SweepRelease
<1>2. /\ claims' \subseteq RequestIDs /\ balance' \in Nat /\ frozen' \in Nat
      /\ returned' \in {0, Amount} /\ charged' = charged
      /\ claims' = claims \/ claims' = claims \cup {"release"}
      /\ "release" \notin claims' \/ "hold" \notin claims' => returned' = 0
      /\ OthersStayFrozen'
  BY <1>0, <1>1, Released
<1>3. TypeOK'
  BY <1>0, <1>2 DEF IInv, TypeOK, SweepSteps, queueVars, jobVars, provVars
<1>4. JobInv' /\ EndedInv' /\ ClaimInv' /\ UpstreamInv'
  BY <1>0, <1>1, <1>2
     DEF IInv, TypeOK, JobInv, Settled, EndedInv, Ended, ClaimInv, UpstreamInv, Terminal,
         queueVars, jobVars, provVars
<1>5. (\A v \in Workers : WorkerInv(v))' /\ LockInv' /\ SettleInv'
  BY <1>0, <1>1, <1>2
     DEF IInv, TypeOK, WorkerInv, Ended, SettleSteps, LockInv, LockedSteps, SettleInv,
         SettleWorker, Safe, Settled, queueVars, jobVars, provVars
<1>. QED BY <1>2, <1>3, <1>4, <1>5 DEF IInv

\* A cancellation releases for a job that has ended.
LEMMA CancelReleaseStep ==
  ASSUME IInv, NEW c \in Cancels, CancelRelease(c)
  PROVE  IInv'
<1>0. /\ ReleaseBatchImageBalance \/ UNCHANGED billingVars
      /\ gaps' = gaps /\ faults' \in 0..MaxFaults
      /\ \E s \in {"done", "retry"} : cancel' = [cancel EXCEPT ![c] = s]
      /\ UNCHANGED <<submit, sweep, work, target>>
      /\ UNCHANGED <<queueVars, jobVars, provVars>>
  BY FaultTypes DEF IInv, CancelRelease, Release, CancelGoto
<1>1. Ended /\ (Safe => "capture" \notin claims) /\ cancel[c] = "release"
  BY DEF IInv, EndedInv, SettleInv, SettleWorker, Ended, Settled, CancelRelease
<1>2. /\ claims' \subseteq RequestIDs /\ balance' \in Nat /\ frozen' \in Nat
      /\ returned' \in {0, Amount} /\ charged' = charged
      /\ claims' = claims \/ claims' = claims \cup {"release"}
      /\ "release" \notin claims' \/ "hold" \notin claims' => returned' = 0
      /\ OthersStayFrozen'
  BY <1>0, <1>1, Released
<1>3. TypeOK'
  BY <1>0, <1>2 DEF IInv, TypeOK, CancelSteps, queueVars, jobVars, provVars
<1>4. JobInv' /\ EndedInv' /\ ClaimInv' /\ UpstreamInv'
  BY <1>0, <1>1, <1>2
     DEF IInv, TypeOK, JobInv, Settled, EndedInv, Ended, ClaimInv, UpstreamInv, Terminal,
         queueVars, jobVars, provVars
<1>5. (\A v \in Workers : WorkerInv(v))' /\ LockInv' /\ SettleInv'
  BY <1>0, <1>1, <1>2
     DEF IInv, TypeOK, WorkerInv, Ended, SettleSteps, LockInv, LockedSteps, SettleInv,
         SettleWorker, Safe, Settled, queueVars, jobVars, provVars
<1>. QED BY <1>2, <1>3, <1>4, <1>5 DEF IInv

\* A worker releases for a job that has ended.
LEMMA WorkReleaseStep ==
  ASSUME IInv, NEW w \in Workers, WorkRelease(w)
  PROVE  IInv'
<1>0. /\ ReleaseBatchImageBalance \/ UNCHANGED billingVars
      /\ gaps' = gaps /\ faults' \in 0..MaxFaults
      /\ \E s \in {"ack", "requeue"} : work' = [work EXCEPT ![w] = s]
      /\ UNCHANGED <<submit, sweep, cancel, target>>
      /\ UNCHANGED <<queueVars, jobVars, provVars>>
  BY FaultTypes DEF IInv, WorkRelease, Release, WorkGoto
<1>1. Ended /\ (Safe => "capture" \notin claims) /\ work[w] = "release"
  BY DEF IInv, WorkerInv, SettleInv, SettleWorker, Ended, Settled, WorkRelease
<1>2. /\ claims' \subseteq RequestIDs /\ balance' \in Nat /\ frozen' \in Nat
      /\ returned' \in {0, Amount} /\ charged' = charged
      /\ claims' = claims \/ claims' = claims \cup {"release"}
      /\ "release" \notin claims' \/ "hold" \notin claims' => returned' = 0
      /\ OthersStayFrozen'
  BY <1>0, <1>1, Released
<1>3. TypeOK'
  BY <1>0, <1>2 DEF IInv, TypeOK, WorkSteps, queueVars, jobVars, provVars
<1>4. JobInv' /\ EndedInv' /\ ClaimInv' /\ UpstreamInv'
  BY <1>0, <1>1, <1>2
     DEF IInv, TypeOK, JobInv, Settled, EndedInv, Ended, ClaimInv, UpstreamInv, Terminal,
         queueVars, jobVars, provVars
<1>5. (\A v \in Workers : WorkerInv(v))'
  BY <1>0, <1>1, <1>2
     DEF IInv, TypeOK, WorkerInv, Ended, SettleSteps, queueVars, jobVars, provVars
<1>6. LockInv'
  BY <1>0, <1>1, <1>2
     DEF IInv, TypeOK, LockInv, LockedSteps, SettleSteps, queueVars, jobVars, provVars
<1>7. SettleInv'
  BY <1>0, <1>1, <1>2
     DEF IInv, TypeOK, SettleInv, SettleWorker, Safe, Settled, SettleSteps, queueVars, jobVars,
         provVars
<1>. QED BY <1>2, <1>3, <1>4, <1>5, <1>6, <1>7 DEF IInv

\* An exhausted settlement releases a hold that nobody has captured.
LEMMA FailExhaustedStep ==
  ASSUME IInv, NEW w \in Workers, FailExhausted(w)
  PROVE  IInv'
<1>0. /\ ReleaseBatchImageBalance \/ UNCHANGED billingVars
      /\ gaps' = gaps /\ faults' \in 0..MaxFaults
      /\ \E s \in {"giveup", "reread"} : work' = [work EXCEPT ![w] = s]
      /\ UNCHANGED <<submit, sweep, cancel, target>>
      /\ UNCHANGED <<queueVars, jobVars, provVars>>
  BY FaultTypes DEF IInv, FailExhausted, Release, WorkGoto
<1>1. /\ work[w] = "exhaust" /\ retries >= MaxRetries
      /\ Safe => "capture" \notin claims /\ status = "settling"
  BY DEF IInv, WorkerInv, SettleInv, SettleWorker, SettleSteps, FailExhausted
<1>2. /\ claims' \subseteq RequestIDs /\ balance' \in Nat /\ frozen' \in Nat
      /\ returned' \in {0, Amount} /\ charged' = charged
      /\ claims' = claims \/ claims' = claims \cup {"release"}
      /\ "release" \notin claims' \/ "hold" \notin claims' => returned' = 0
      /\ OthersStayFrozen'
  BY <1>0, <1>1, Released
<1>3. TypeOK'
  BY <1>0, <1>2 DEF IInv, TypeOK, WorkSteps, queueVars, jobVars, provVars
<1>4. JobInv' /\ EndedInv' /\ ClaimInv' /\ UpstreamInv'
  BY <1>0, <1>1, <1>2
     DEF IInv, TypeOK, JobInv, Settled, EndedInv, Ended, ClaimInv, UpstreamInv, Terminal,
         queueVars, jobVars, provVars
<1>5. (\A v \in Workers : WorkerInv(v))'
  BY <1>0, <1>1, <1>2
     DEF IInv, TypeOK, WorkerInv, Ended, SettleSteps, queueVars, jobVars, provVars
<1>6. LockInv'
  BY <1>0, <1>1, <1>2
     DEF IInv, TypeOK, LockInv, LockedSteps, SettleSteps, queueVars, jobVars, provVars
<1>7. SettleInv'
  BY <1>0, <1>1, <1>2
     DEF IInv, TypeOK, SettleInv, SettleWorker, Safe, Settled, SettleSteps, queueVars, jobVars,
         provVars
<1>. QED BY <1>2, <1>3, <1>4, <1>5, <1>6, <1>7 DEF IInv

-----------------------------------------------------------------------------
(* Changes of the job *)

\* The job is submitted, or ends, before anybody settles it.
LEMMA BeforeSettling ==
  ASSUME IInv, gaps \subseteq gaps', ~Settled, ~Settled', Ended => Ended', named => named',
         UNCHANGED <<billingVars, provVars, retries, work, target, lock>>
  PROVE  (\A v \in Workers : WorkerInv(v))' /\ LockInv' /\ SettleInv' /\ OthersStayFrozen'
<1>1. Safe' => Safe
  BY DEF Safe
<1>2. (\A v \in Workers : WorkerInv(v))'
  BY DEF IInv, WorkerInv, billingVars, provVars
<1>3. LockInv'
  BY DEF IInv, LockInv
<1>4. SettleInv'
  BY <1>1 DEF IInv, SettleInv, SettleWorker, Settled, SettleSteps, billingVars, provVars
<1>5. OthersStayFrozen'
  BY <1>1 DEF IInv, Safe, OthersStayFrozen, HoldOpen, billingVars
<1>. QED BY <1>2, <1>3, <1>4, <1>5

\* Only a job that nobody has ended is uploaded.
LEMMA SubmitUploadStep ==
  ASSUME IInv, SubmitUpload
  PROVE  IInv'
<1>0. /\ submit = "upload" /\ submit' \in {"provider", "return", "reject"}
      /\ status' = status \/ (status = "created" /\ status' = "uploading")
      /\ UNCHANGED <<billingVars, queueVars, provVars, named, retries, sweep, cancel, work, target>>
      /\ gaps' = gaps /\ faults' \in 0..MaxFaults
  BY FaultTypes, Transitions
     DEF IInv, TypeOK, SubmitUpload, Transition, SetStatus, jobVars, SubmitGoto, billingVars,
         queueVars, provVars
<1>1. TypeOK'
  BY <1>0 DEF IInv, TypeOK, SubmitSteps, Statuses, billingVars, queueVars, jobVars, provVars
<1>2. JobInv' /\ EndedInv' /\ ClaimInv' /\ UpstreamInv'
  BY <1>0
     DEF IInv, TypeOK, JobInv, Settled, EndedInv, Ended, ClaimInv, UpstreamInv, Terminal,
         billingVars, jobVars, provVars
<1>3. (\A v \in Workers : WorkerInv(v))' /\ LockInv' /\ SettleInv' /\ OthersStayFrozen'
  <2>1. CASE status' = status /\ named' = named
    BY <1>0, <2>1, OthersMove DEF jobVars, queueVars
  <2>2. CASE ~(status' = status /\ named' = named)
    <3>1. ~Settled /\ ~Settled' /\ (Ended => Ended') /\ (named => named')
      BY <1>0, <2>2 DEF IInv, JobInv, Settled, Ended
    <3>. QED BY <1>0, <3>1, BeforeSettling DEF queueVars
  <2>. QED BY <2>1, <2>2
<1>. QED BY <1>1, <1>2, <1>3 DEF IInv

\* The job gets its name while the submission has its hold.
LEMMA SubmitStoreStep ==
  ASSUME IInv, SubmitStore
  PROVE  IInv'
<1>a. gaps \subseteq gaps' /\ gaps' \subseteq Gaps /\ faults' \in 0..MaxFaults
  BY FaultTypes DEF IInv, TypeOK, Gaps, SubmitStore
<1>0. /\ submit = "store" /\ submit' \in {"enqueue", "abort"}
      /\ \/ status' = status /\ named' = named /\ submit' = "abort"
         \/ status \in {"created", "uploading"} /\ status' = "submitted" /\ named' = TRUE
      /\ UNCHANGED <<billingVars, queueVars, provVars, retries, sweep, cancel, work, target>>
  BY FaultTypes, Transitions
     DEF IInv, TypeOK, SubmitStore, StoreName, SubmitGoto, jobVars, billingVars, queueVars,
         provVars
<1>b. named' \in BOOLEAN
  BY <1>0, Zenon DEF IInv, TypeOK
<1>1. TypeOK'
  BY <1>0, <1>a, <1>b
     DEF IInv, TypeOK, SubmitSteps, Statuses, billingVars, queueVars, jobVars, provVars
<1>2. JobInv' /\ EndedInv' /\ ClaimInv' /\ UpstreamInv'
  BY <1>0, <1>a
     DEF IInv, TypeOK, JobInv, Settled, EndedInv, Ended, ClaimInv, UpstreamInv, Terminal,
         billingVars, jobVars, provVars
<1>3. (\A v \in Workers : WorkerInv(v))' /\ LockInv' /\ SettleInv' /\ OthersStayFrozen'
  <2>1. CASE status' = status /\ named' = named
    BY <1>0, <1>a, <2>1, OthersMove DEF jobVars, queueVars
  <2>2. CASE ~(status' = status /\ named' = named)
    <3>1. ~Settled /\ ~Settled' /\ (Ended => Ended') /\ (named => named')
      BY <1>0, <1>a, <2>2 DEF IInv, JobInv, Settled, Ended
    <3>. QED BY <1>0, <1>a, <3>1, BeforeSettling DEF queueVars
  <2>. QED BY <2>1, <2>2
<1>. QED BY <1>1, <1>2, <1>3 DEF IInv

\* A failed submission marks a job without a name.
LEMMA SubmitMarkStep ==
  ASSUME IInv, SubmitMark
  PROVE  IInv'
<1>0. /\ submit \in {"mark", "recover"} /\ submit' \in {"done", "retry"}
      /\ status' \in {status, "failed"}
      /\ UNCHANGED <<billingVars, queueVars, provVars, named, retries, sweep, cancel, work, target>>
      /\ gaps' = gaps /\ faults' \in 0..MaxFaults
  BY FaultTypes
     DEF IInv, TypeOK, SubmitMark, SubmitGoto, SetStatus, jobVars, billingVars, queueVars,
         provVars
<1>1. TypeOK'
  BY <1>0 DEF IInv, TypeOK, SubmitSteps, Statuses, billingVars, queueVars, jobVars, provVars
<1>2. JobInv' /\ EndedInv' /\ ClaimInv' /\ UpstreamInv'
  BY <1>0
     DEF IInv, TypeOK, JobInv, Settled, EndedInv, Ended, ClaimInv, UpstreamInv, Terminal,
         billingVars, jobVars, provVars
<1>3. (\A v \in Workers : WorkerInv(v))' /\ LockInv' /\ SettleInv' /\ OthersStayFrozen'
  <2>1. CASE status' = status /\ named' = named
    BY <1>0, <2>1, OthersMove DEF jobVars, queueVars
  <2>2. CASE ~(status' = status /\ named' = named)
    <3>1. ~Settled /\ ~Settled' /\ (Ended => Ended') /\ (named => named')
      BY <1>0, <2>2 DEF IInv, JobInv, Settled, Ended
    <3>. QED BY <1>0, <3>1, BeforeSettling DEF queueVars
  <2>. QED BY <2>1, <2>2
<1>. QED BY <1>1, <1>2, <1>3 DEF IInv

\* The sweep fails a job without a name.
LEMMA FailStaleUnsubmittedStep ==
  ASSUME IInv, FailStaleUnsubmitted
  PROVE  IInv'
<1>a. gaps \subseteq gaps' /\ gaps' \subseteq Gaps /\ faults' \in 0..MaxFaults
  BY FaultTypes DEF IInv, TypeOK, Gaps, FailStaleUnsubmitted, Stale
<1>0. /\ sweep' \in {"release", "idle"}
      /\ status \in {"created", "uploading"} /\ ~named /\ status' = "failed"
      /\ UNCHANGED <<billingVars, queueVars, provVars, named, retries, submit, cancel, work, target>>
  BY FaultTypes
     DEF IInv, TypeOK, FailStaleUnsubmitted, SetStatus, SweepGoto, Stale, billingVars, queueVars,
         provVars
<1>1. TypeOK'
  BY <1>0, <1>a DEF IInv, TypeOK, SweepSteps, Statuses, billingVars, queueVars, jobVars, provVars
<1>2. JobInv' /\ EndedInv' /\ ClaimInv' /\ UpstreamInv'
  BY <1>0, <1>a
     DEF IInv, TypeOK, JobInv, Settled, EndedInv, Ended, ClaimInv, UpstreamInv, Terminal,
         billingVars, jobVars, provVars
<1>3. (\A v \in Workers : WorkerInv(v))' /\ LockInv' /\ SettleInv' /\ OthersStayFrozen'
  <2>1. CASE status' = status /\ named' = named
    BY <1>0, <1>a, <2>1, OthersMove DEF jobVars, queueVars
  <2>2. CASE ~(status' = status /\ named' = named)
    <3>1. ~Settled /\ ~Settled' /\ (Ended => Ended') /\ (named => named')
      BY <1>0, <1>a, <2>2 DEF IInv, JobInv, Settled, Ended
    <3>. QED BY <1>0, <1>a, <3>1, BeforeSettling DEF queueVars
  <2>. QED BY <2>1, <2>2
<1>. QED BY <1>1, <1>2, <1>3 DEF IInv

\* A cancellation ends a job that is not yet settling.
LEMMA CancelTransitionStep ==
  ASSUME IInv, NEW c \in Cancels, CancelTransition(c)
  PROVE  IInv'
<1>a. gaps \subseteq gaps' /\ gaps' \subseteq Gaps /\ faults' \in 0..MaxFaults
  BY FaultTypes DEF IInv, TypeOK, Gaps, CancelTransition
<1>0. /\ \E s \in {"release", "done"} :
           /\ cancel' = [cancel EXCEPT ![c] = s]
           /\ \/ status' = status /\ gaps' = gaps /\ s = "done"
              \/ /\ status \in {"created", "uploading", "submitted", "running"}
                 /\ status' = "cancelled"
                 /\ named => "upstream" \in gaps'
      /\ UNCHANGED <<billingVars, queueVars, provVars, named, retries, submit, sweep, work, target>>
  BY FaultTypes, Transitions
     DEF IInv, TypeOK, CancelTransition, SetStatus, CancelGoto, jobVars, billingVars, queueVars,
         provVars
<1>1. TypeOK'
  BY <1>0, <1>a DEF IInv, TypeOK, CancelSteps, Statuses, billingVars, queueVars, jobVars, provVars
<1>2. JobInv' /\ EndedInv' /\ ClaimInv' /\ UpstreamInv'
  BY <1>0, <1>a
     DEF IInv, TypeOK, JobInv, Settled, EndedInv, Ended, ClaimInv, UpstreamInv, Terminal,
         billingVars, jobVars, provVars
<1>3. (\A v \in Workers : WorkerInv(v))' /\ LockInv' /\ SettleInv' /\ OthersStayFrozen'
  <2>1. CASE status' = status /\ named' = named
    BY <1>0, <1>a, <2>1, OthersMove DEF jobVars, queueVars
  <2>2. CASE ~(status' = status /\ named' = named)
    <3>1. ~Settled /\ ~Settled' /\ (Ended => Ended') /\ (named => named')
      BY <1>0, <1>a, <2>2 DEF IInv, JobInv, Settled, Ended
    <3>. QED BY <1>0, <1>a, <3>1, BeforeSettling DEF queueVars
  <2>. QED BY <2>1, <2>2
<1>. QED BY <1>1, <1>2, <1>3 DEF IInv

\* Whether the job is served does not matter to what the workers rely on.
LEMMA ServiceStep ==
  ASSUME IInv, LoseService \/ RegainService
  PROVE  IInv'
<1>0. /\ UNCHANGED <<billingVars, queueVars, jobVars, provider, cost, pcVars, gaps>>
      /\ served' \in BOOLEAN /\ faults' \in 0..MaxFaults
  BY FaultTypes DEF IInv, LoseService, RegainService
<1>1. TypeOK'
  BY <1>0 DEF IInv, TypeOK, pcVars, billingVars, queueVars, jobVars
<1>2. JobInv' /\ EndedInv' /\ ClaimInv' /\ UpstreamInv'
  BY <1>0 DEF IInv, JobInv, Settled, EndedInv, Ended, ClaimInv, UpstreamInv, pcVars, billingVars,
              jobVars
<1>3. (\A v \in Workers : WorkerInv(v))' /\ LockInv'
  BY <1>0 DEF IInv, WorkerInv, Ended, LockInv, pcVars, queueVars, billingVars, jobVars
<1>4. SettleInv' /\ OthersStayFrozen'
  BY <1>0 DEF IInv, SettleInv, SettleWorker, Safe, Settled, OthersStayFrozen, HoldOpen, pcVars,
              billingVars, jobVars
<1>. QED BY <1>1, <1>2, <1>3, <1>4 DEF IInv

\* The output of a completed job is deleted.
LEMMA CleanupOutputStep ==
  ASSUME IInv, CleanupOutput
  PROVE  IInv'
<1>0. /\ status = "completed" /\ status' = "output_deleted"
      /\ UNCHANGED <<billingVars, queueVars, provVars, pcVars, named, retries>>
      /\ gaps' = gaps /\ faults' \in 0..MaxFaults
  BY FaultTypes
     DEF IInv, TypeOK, CleanupOutput, SetStatus, billingVars, queueVars, provVars, pcVars
<1>1. TypeOK'
  BY <1>0 DEF IInv, TypeOK, Statuses, pcVars, billingVars, queueVars, jobVars, provVars
<1>2. JobInv' /\ EndedInv' /\ ClaimInv' /\ UpstreamInv'
  BY <1>0
     DEF IInv, TypeOK, JobInv, Settled, EndedInv, Ended, ClaimInv, UpstreamInv, Terminal, pcVars,
         billingVars, jobVars, provVars
<1>3. (\A v \in Workers : WorkerInv(v))' /\ LockInv'
  BY <1>0
     DEF IInv, TypeOK, WorkerInv, Ended, SettleSteps, LockInv, LockedSteps, pcVars, queueVars,
         billingVars, jobVars, provVars
<1>4. SettleInv' /\ OthersStayFrozen'
  BY <1>0
     DEF IInv, TypeOK, SettleInv, SettleWorker, Safe, Settled, SettleSteps, OthersStayFrozen,
         HoldOpen, pcVars, billingVars, jobVars, provVars
<1>. QED BY <1>1, <1>2, <1>3, <1>4 DEF IInv

\* A worker moves a job on that is not yet settling.
LEMMA WorkTransitionStep ==
  ASSUME IInv, NEW w \in Workers, WorkTransition(w)
  PROVE  IInv'
<1>0. /\ work[w] = "transition"
      /\ \E s \in {"index", "release", "requeue"} :
           /\ work' = [work EXCEPT ![w] = s]
           /\ \/ status' = status /\ s = "requeue"
              \/ /\ CanTransition(status, target[w]) /\ status' = target[w]
                 /\ s = "index" => target[w] = "indexing"
                 /\ s = "release" => target[w] \in {"failed", "cancelled"}
      /\ UNCHANGED <<billingVars, queueVars, provVars, named, retries, submit, sweep, cancel, target>>
      /\ gaps' = gaps /\ faults' \in 0..MaxFaults
  BY FaultTypes
     DEF IInv, TypeOK, WorkTransition, Transition, SetStatus, jobVars, WorkGoto, AfterTransition,
         billingVars, queueVars, provVars
<1>t. status' # status =>
        \/ status' = "running" /\ status = "submitted"
        \/ status' = "indexing" /\ status \in {"submitted", "running"} /\ provider \in {"good", "bad"}
        \/ status' = "settling" /\ status = "indexing" /\ provider = "good"
        \/ status' \in {"failed", "cancelled"} /\ status \notin Terminal
           /\ provider \notin {"none", "active"}
  BY <1>0, Transitions DEF IInv, WorkerInv, Terminal
<1>1. TypeOK'
  BY <1>0, <1>t DEF IInv, TypeOK, WorkSteps, Statuses, billingVars, queueVars, jobVars, provVars
<1>2. JobInv' /\ EndedInv' /\ ClaimInv' /\ UpstreamInv'
  BY <1>0, <1>t
     DEF IInv, TypeOK, JobInv, Settled, EndedInv, Ended, ClaimInv, UpstreamInv, Terminal,
         WorkerInv, SettleSteps, billingVars, jobVars, provVars
<1>3. (\A v \in Workers : WorkerInv(v))'
  BY <1>0, <1>t DEF IInv, TypeOK, WorkerInv, Ended, SettleSteps, billingVars, jobVars, provVars
<1>4. LockInv'
  BY <1>0
     DEF IInv, TypeOK, LockInv, LockedSteps, SettleSteps, queueVars, billingVars, jobVars,
         provVars
<1>5. SettleInv'
  <2>1. ASSUME Safe PROVE "capture" \notin claims /\ ~Settled
    BY <1>0, <2>1 DEF IInv, SettleInv, SettleWorker
  <2>2. ASSUME Safe, NEW v \in Workers, v # w PROVE work[v] \notin LockedSteps
    BY <1>0, <2>2, OneWorker DEF IInv, Safe, LockedSteps
  <2>3. ASSUME Safe PROVE status' \notin {"completed", "output_deleted"}
    BY <1>0, <1>t, <2>1, <2>3 DEF Settled
  <2>4. ASSUME Safe, NEW v \in Workers PROVE SettleWorker(v)'
    <3>1. CASE v # w
      BY <1>0, <2>2, <2>4, <3>1 DEF IInv, TypeOK, SettleWorker, LockedSteps, SettleSteps
    <3>2. CASE v = w
      BY <1>0, <1>t, <2>1, <2>4, <3>2 DEF IInv, TypeOK, SettleWorker, Settled, SettleSteps
    <3>. QED BY <3>1, <3>2
  <2>. QED BY <1>0, <2>1, <2>3, <2>4
           DEF SettleInv, SettleWorker, Safe, Settled, billingVars, provVars
<1>6. OthersStayFrozen'
  BY <1>0 DEF IInv, TypeOK, OthersStayFrozen, HoldOpen, billingVars, jobVars, provVars
<1>. QED BY <1>1, <1>2, <1>3, <1>4, <1>5, <1>6 DEF IInv

\* A captured job is completed.
LEMMA MarkSettledStep ==
  ASSUME IInv, NEW w \in Workers, MarkSettled(w)
  PROVE  IInv'
<1>0. /\ work[w] = "settled"
      /\ \E s \in {"ack", "requeue"} : work' = [work EXCEPT ![w] = s]
      /\ status' = status \/ (status = "settling" /\ status' = "completed")
      /\ UNCHANGED <<billingVars, queueVars, provVars, submit, sweep, cancel, target>> /\ UNCHANGED <<named, retries>>
      /\ gaps' = gaps /\ faults' \in 0..MaxFaults
  BY FaultTypes
     DEF IInv, TypeOK, MarkSettled, SetStatus, WorkGoto, jobVars, billingVars, queueVars, provVars
<1>1. TypeOK'
  BY <1>0 DEF IInv, TypeOK, WorkSteps, Statuses, billingVars, queueVars, jobVars, provVars
<1>2. JobInv' /\ EndedInv' /\ ClaimInv' /\ UpstreamInv'
  BY <1>0
     DEF IInv, TypeOK, JobInv, Settled, EndedInv, Ended, ClaimInv, UpstreamInv, Terminal,
         WorkerInv, SettleSteps, billingVars, jobVars, provVars
<1>3. (\A v \in Workers : WorkerInv(v))'
  BY <1>0 DEF IInv, TypeOK, WorkerInv, Ended, SettleSteps, billingVars, jobVars, provVars
<1>4. LockInv'
  BY <1>0
     DEF IInv, TypeOK, LockInv, LockedSteps, SettleSteps, queueVars, billingVars, jobVars,
         provVars
<1>5. SettleInv'
  <2>1. Safe => status = "settling" /\ "capture" \in claims
    BY <1>0 DEF IInv, SettleInv, SettleWorker, WorkerInv, SettleSteps
  <2>2. ASSUME Safe, NEW v \in Workers, v # w PROVE work[v] \notin LockedSteps
    BY <1>0, <2>2, OneWorker DEF IInv, Safe, LockedSteps, SettleSteps
  <2>3. ASSUME Safe, NEW v \in Workers PROVE SettleWorker(v)'
    <3>1. CASE v # w
      BY <1>0, <2>2, <2>3, <3>1 DEF IInv, TypeOK, SettleWorker, LockedSteps, SettleSteps
    <3>2. CASE v = w
      BY <1>0, <2>1, <2>3, <3>2 DEF IInv, TypeOK, SettleWorker, Settled, SettleSteps, billingVars
    <3>. QED BY <3>1, <3>2
  <2>. QED BY <1>0, <2>1, <2>3
           DEF IInv, TypeOK, SettleInv, SettleWorker, Safe, Settled, billingVars, provVars
<1>6. OthersStayFrozen'
  BY <1>0 DEF IInv, TypeOK, OthersStayFrozen, HoldOpen, billingVars, jobVars, provVars
<1>. QED BY <1>1, <1>2, <1>3, <1>4, <1>5, <1>6 DEF IInv

\* A job whose settlement is given up has not been captured.
LEMMA GiveUpStep ==
  ASSUME IInv, NEW w \in Workers, GiveUp(w)
  PROVE  IInv'
<1>0. /\ work[w] = "giveup"
      /\ \E s \in {"reread", "requeue"} : work' = [work EXCEPT ![w] = s]
      /\ status' = status \/ (status \notin Terminal /\ status' = "failed")
      /\ UNCHANGED <<billingVars, queueVars, provVars, submit, sweep, cancel, target>> /\ UNCHANGED <<named, retries>>
      /\ gaps' = gaps /\ faults' \in 0..MaxFaults
  BY FaultTypes, Transitions
     DEF IInv, TypeOK, GiveUp, Transition, SetStatus, jobVars, WorkGoto, billingVars, queueVars,
         provVars
<1>1. TypeOK'
  BY <1>0 DEF IInv, TypeOK, WorkSteps, Statuses, billingVars, queueVars, jobVars, provVars
<1>2. JobInv' /\ EndedInv' /\ ClaimInv' /\ UpstreamInv'
  BY <1>0
     DEF IInv, TypeOK, JobInv, Settled, EndedInv, Ended, ClaimInv, UpstreamInv, Terminal,
         WorkerInv, SettleSteps, billingVars, jobVars, provVars
<1>3. (\A v \in Workers : WorkerInv(v))'
  BY <1>0 DEF IInv, TypeOK, WorkerInv, Ended, SettleSteps, billingVars, jobVars, provVars
<1>4. LockInv'
  BY <1>0
     DEF IInv, TypeOK, LockInv, LockedSteps, SettleSteps, queueVars, billingVars, jobVars,
         provVars
<1>5. SettleInv'
  <2>1. Safe => status = "settling" /\ "capture" \notin claims
    BY <1>0 DEF IInv, SettleInv, SettleWorker, SettleSteps
  <2>2. ASSUME Safe, NEW v \in Workers, v # w PROVE work[v] \notin LockedSteps
    BY <1>0, <2>2, OneWorker DEF IInv, Safe, LockedSteps, SettleSteps
  <2>3. ASSUME Safe, NEW v \in Workers PROVE SettleWorker(v)'
    <3>1. CASE v # w
      BY <1>0, <2>2, <2>3, <3>1 DEF IInv, TypeOK, SettleWorker, LockedSteps, SettleSteps
    <3>2. CASE v = w
      BY <1>0, <2>1, <2>3, <3>2 DEF IInv, TypeOK, SettleWorker, Settled, SettleSteps, billingVars
    <3>. QED BY <3>1, <3>2
  <2>. QED BY <1>0, <2>1, <2>3
           DEF IInv, TypeOK, SettleInv, SettleWorker, Safe, Settled, billingVars, provVars
<1>6. OthersStayFrozen'
  BY <1>0 DEF IInv, TypeOK, OthersStayFrozen, HoldOpen, billingVars, jobVars, provVars
<1>. QED BY <1>1, <1>2, <1>3, <1>4, <1>5, <1>6 DEF IInv

\* A failure is counted only for a job that has not been captured.
LEMMA RecordSettlementFailureStep ==
  ASSUME IInv, NEW w \in Workers, RecordSettlementFailure(w)
  PROVE  IInv'
<1>0. /\ work[w] = "record"
      /\ retries' = retries \/ (retries < MaxRetries /\ retries' = retries + 1)
      /\ \E s \in {"exhaust", "reread", "requeue"} :
           work' = [work EXCEPT ![w] = s] /\ (s = "exhaust" => retries' >= MaxRetries)
      /\ UNCHANGED <<billingVars, queueVars, provVars, submit, sweep, cancel, target>> /\ UNCHANGED <<status, named>>
      /\ gaps' = gaps /\ faults' \in 0..MaxFaults
  BY FaultTypes
     DEF IInv, TypeOK, RecordSettlementFailure, SetSettlementFailed, WorkGoto, jobVars,
         billingVars, queueVars, provVars
<1>1. TypeOK'
  BY <1>0, Numbers DEF IInv, TypeOK, WorkSteps, billingVars, queueVars, jobVars, provVars
<1>2. JobInv' /\ EndedInv' /\ ClaimInv' /\ UpstreamInv'
  BY <1>0, Numbers
     DEF IInv, TypeOK, JobInv, Settled, EndedInv, Ended, ClaimInv, UpstreamInv, Terminal,
         WorkerInv, SettleSteps, billingVars, jobVars, provVars
<1>3. (\A v \in Workers : WorkerInv(v))'
  BY <1>0, Numbers DEF IInv, TypeOK, WorkerInv, Ended, SettleSteps, billingVars, jobVars, provVars
<1>4. LockInv'
  BY <1>0
     DEF IInv, TypeOK, LockInv, LockedSteps, SettleSteps, queueVars, billingVars, jobVars,
         provVars
<1>5. SettleInv'
  <2>1. Safe => status = "settling" /\ "capture" \notin claims
    BY <1>0 DEF IInv, SettleInv, SettleWorker, SettleSteps
  <2>2. ASSUME Safe, NEW v \in Workers, v # w PROVE work[v] \notin LockedSteps
    BY <1>0, <2>2, OneWorker DEF IInv, Safe, LockedSteps, SettleSteps
  <2>3. ASSUME Safe, NEW v \in Workers PROVE SettleWorker(v)'
    <3>1. CASE v # w
      BY <1>0, <2>2, <2>3, <3>1 DEF IInv, TypeOK, SettleWorker, LockedSteps, SettleSteps
    <3>2. CASE v = w
      BY <1>0, <2>1, <2>3, <3>2 DEF IInv, TypeOK, SettleWorker, Settled, SettleSteps, billingVars
    <3>. QED BY <3>1, <3>2
  <2>. QED BY <1>0, <2>1, <2>3
           DEF IInv, TypeOK, SettleInv, SettleWorker, Safe, Settled, billingVars, provVars
<1>6. OthersStayFrozen'
  BY <1>0 DEF IInv, TypeOK, OthersStayFrozen, HoldOpen, billingVars, jobVars, provVars
<1>. QED BY <1>1, <1>2, <1>3, <1>4, <1>5, <1>6 DEF IInv

-----------------------------------------------------------------------------
(* The hold *)

\* The hold is reserved before the job is known to anybody else.
LEMMA SubmitReserveStep ==
  ASSUME IInv, SubmitReserve
  PROVE  IInv'
<1>a. gaps \subseteq gaps' /\ gaps' \subseteq Gaps /\ faults' \in 0..MaxFaults
  BY FaultTypes DEF IInv, TypeOK, Gaps, SubmitReserve
<1>0. /\ submit = "reserve" /\ submit' \in {"items", "mark"}
      /\ \/ UNCHANGED billingVars
         \/ /\ "hold" \notin claims /\ claims' = claims \cup {"hold"}
            /\ balance >= Amount /\ balance' = balance - Amount /\ frozen' = frozen + Amount
            /\ UNCHANGED <<charged, returned>>
      /\ submit' = "items" => "hold" \in claims'
      /\ UNCHANGED <<queueVars, jobVars, provVars, sweep, cancel, work, target>>
  BY DEF SubmitReserve, ReserveBatchImageBalance, Applied, SubmitGoto, billingVars
<1>1. "hold" \notin claims => "capture" \notin claims /\ returned = 0
  BY DEF IInv, ClaimInv, JobInv
<1>2. TypeOK'
  <2>1. claims' \subseteq RequestIDs
    BY <1>0 DEF IInv, TypeOK, RequestIDs, billingVars
  <2>2. balance' \in Nat /\ frozen' \in Nat
    BY <1>0, Numbers DEF IInv, TypeOK, billingVars
  <2>. QED BY <1>0, <1>a, <2>1, <2>2
           DEF IInv, TypeOK, SubmitSteps, billingVars, queueVars, jobVars, provVars
<1>3. JobInv' /\ EndedInv' /\ ClaimInv' /\ UpstreamInv'
  BY <1>0, <1>a, <1>1
     DEF IInv, JobInv, Settled, EndedInv, Ended, ClaimInv, UpstreamInv, billingVars, jobVars,
         provVars
<1>4. (\A v \in Workers : WorkerInv(v))' /\ LockInv'
  BY <1>0, <1>a DEF IInv, WorkerInv, Ended, LockInv, billingVars, queueVars, jobVars, provVars
<1>5. Safe' => Safe
  BY <1>a DEF Safe
<1>6. SettleInv'
  BY <1>0, <1>5 DEF IInv, SettleInv, SettleWorker, Settled, billingVars, jobVars, provVars
<1>7. OthersStayFrozen'
  <2>1. CASE UNCHANGED billingVars
    BY <1>5, <2>1 DEF IInv, OthersStayFrozen, Safe, HoldOpen, billingVars
  <2>2. CASE ~UNCHANGED billingVars
    <3>1. ~HoldOpen /\ HoldOpen' /\ frozen' = frozen + Amount
      BY <1>0, <1>1, <2>2 DEF HoldOpen
    <3>2. Safe => frozen = Others
      BY <3>1, Numbers DEF IInv, OthersStayFrozen, Safe
    <3>. QED BY <1>5, <3>1, <3>2 DEF OthersStayFrozen, Safe
  <2>. QED BY <2>1, <2>2
<1>. QED BY <1>2, <1>3, <1>4, <1>6, <1>7 DEF IInv

\* A capture takes the open hold: nobody has released it, and nobody will.
LEMMA SettleCaptureStep ==
  ASSUME IInv, NEW w \in Workers, SettleCapture(w)
  PROVE  IInv'
<1>a. gaps \subseteq gaps' /\ gaps' \subseteq Gaps /\ faults' \in 0..MaxFaults
  BY FaultTypes DEF IInv, TypeOK, Gaps, SettleCapture
<1>b. Safe' => Safe
  BY <1>a DEF Safe
<1>0. /\ work[w] = "capture"
      /\ \/ UNCHANGED billingVars
         \/ /\ "capture" \notin claims /\ claims' = claims \cup {"capture"}
            /\ cost <= Amount /\ frozen >= Amount
            /\ balance' = balance + (Amount - cost) /\ frozen' = frozen - Amount
            /\ charged' = charged + cost /\ UNCHANGED returned
      /\ UNCHANGED <<queueVars, jobVars, provVars, submit, sweep, cancel, target>>
  BY DEF SettleCapture, CaptureBatchImageBalance, Applied, WorkGoto, billingVars
<1>1. \/ work' = [work EXCEPT ![w] = "settled"] /\ "capture" \in claims'
      \/ /\ work' = [work EXCEPT ![w] = "record"]
         /\ "capture" \in claims' => "slipped" \in gaps'
  BY FaultTypes
     DEF IInv, Gaps, SettleCapture, CaptureBatchImageBalance, CaptureRefused, Applied, WorkGoto,
         billingVars
<1>2. TypeOK'
  <2>1. claims' \subseteq RequestIDs
    BY <1>0 DEF IInv, TypeOK, RequestIDs, billingVars
  <2>2. balance' \in Nat /\ frozen' \in Nat /\ charged' \in 0..Amount /\ returned' = returned
    BY <1>0, Numbers DEF IInv, TypeOK, ClaimInv, billingVars
  <2>. QED BY <1>0, <1>1, <1>a, <2>1, <2>2
           DEF IInv, TypeOK, WorkSteps, queueVars, jobVars, provVars
<1>3. JobInv' /\ EndedInv' /\ ClaimInv' /\ UpstreamInv'
  BY <1>0, <1>a
     DEF IInv, JobInv, WorkerInv, SettleSteps, Settled, EndedInv, Ended, ClaimInv, UpstreamInv,
         billingVars, jobVars, provVars
<1>4. (\A v \in Workers : WorkerInv(v))'
  BY <1>0, <1>1 DEF IInv, TypeOK, WorkerInv, SettleSteps, Ended, billingVars, jobVars, provVars
<1>5. LockInv'
  BY <1>0, <1>1, <1>a DEF IInv, TypeOK, LockInv, LockedSteps, SettleSteps, queueVars
<1>6. SettleInv'
  <2>1. Safe => status = "settling" /\ retries < MaxRetries
    BY <1>0 DEF IInv, SettleInv, SettleWorker, SettleSteps
  <2>2. ASSUME Safe, NEW v \in Workers, v # w PROVE work[v] \notin LockedSteps
    BY <1>0, <2>2, OneWorker DEF IInv, Safe, LockedSteps, SettleSteps
  <2>3. ASSUME Safe', NEW v \in Workers PROVE SettleWorker(v)'
    <3>1. CASE v # w
      BY <1>0, <1>1, <1>b, <2>2, <2>3, <3>1
         DEF IInv, TypeOK, SettleWorker, LockedSteps, SettleSteps
    <3>2. CASE v = w
      BY <1>0, <1>1, <1>b, <2>1, <2>3, <3>2
         DEF IInv, TypeOK, SettleWorker, Safe, Settled, SettleSteps, jobVars
    <3>. QED BY <3>1, <3>2
  <2>4. Safe' => /\ "capture" \in claims' => Settled' /\ charged' = cost' /\ charged' <= Amount
                 /\ "capture" \in claims' /\ status' = "settling" => retries' < MaxRetries
                 /\ status' \in {"completed", "output_deleted"} => "capture" \in claims'
    BY <1>0, <1>b, <2>1, Numbers
       DEF IInv, TypeOK, SettleInv, SettleWorker, ClaimInv, Settled, billingVars, jobVars, provVars
  <2>. QED BY <2>3, <2>4 DEF SettleInv, SettleWorker
<1>7. OthersStayFrozen'
  <2>1. CASE UNCHANGED billingVars
    BY <1>b, <2>1 DEF IInv, OthersStayFrozen, Safe, HoldOpen, billingVars
  <2>2. CASE ~UNCHANGED billingVars
    <3>1. frozen' = frozen - Amount /\ ~HoldOpen'
      BY <1>0, <2>2 DEF HoldOpen
    <3>2. Safe => HoldOpen
      <4>1. named /\ "hold" \in claims
        BY <1>0 DEF IInv, WorkerInv, SettleSteps, JobInv
      <4>2. Safe => status = "settling" /\ retries < MaxRetries
        BY <1>0 DEF IInv, SettleInv, SettleWorker, SettleSteps
      <4>3. Safe => "release" \notin claims
        BY <4>1, <4>2, Numbers DEF IInv, ClaimInv, Ended
      <4>. QED BY <1>0, <2>2, <4>1, <4>3 DEF IInv, ClaimInv, HoldOpen
    <3>3. Safe => frozen' = Others + 0
      BY <3>1, <3>2, Numbers DEF IInv, TypeOK, OthersStayFrozen, Safe
    <3>. QED BY <1>b, <3>1, <3>3 DEF OthersStayFrozen, Safe
  <2>. QED BY <2>1, <2>2
<1>. QED BY <1>2, <1>3, <1>4, <1>5, <1>6, <1>7 DEF IInv

-----------------------------------------------------------------------------
(* The provider and the queue *)

\* The job at the provider is in the hands of the submission.
LEMMA SubmitProviderStep ==
  ASSUME IInv, SubmitProvider
  PROVE  IInv'
<1>a. gaps \subseteq gaps' /\ gaps' \subseteq Gaps /\ faults' \in 0..MaxFaults
  BY FaultTypes DEF IInv, TypeOK, Gaps, SubmitProvider
<1>0. /\ submit = "provider" /\ submit' \in {"store", "reject"}
      /\ \/ provider' = provider \/ (provider' = "active" /\ submit' = "store")
         \/ provider' = "active" /\ "upstream" \in gaps'
      /\ UNCHANGED <<billingVars, queueVars, jobVars, cost, served, sweep, cancel, work, target>>
  BY FaultTypes
     DEF IInv, TypeOK, Gaps, SubmitProvider, SubmitGoto, billingVars, queueVars, jobVars
<1>1. TypeOK'
  BY <1>0, <1>a DEF IInv, TypeOK, SubmitSteps, billingVars, queueVars, jobVars, provVars
<1>2. JobInv' /\ EndedInv' /\ ClaimInv' /\ UpstreamInv'
  BY <1>0, <1>a
     DEF IInv, TypeOK, JobInv, Settled, EndedInv, Ended, ClaimInv, UpstreamInv, Terminal,
         billingVars, jobVars, provVars
<1>3. (\A v \in Workers : WorkerInv(v))' /\ LockInv' /\ SettleInv' /\ OthersStayFrozen'
  <2>1. Safe' => Safe
    BY <1>0, <1>a, <1>a DEF Safe
  <2>. QED BY <1>0, <1>a, <1>a, <2>1
              DEF IInv, TypeOK, WorkerInv, Ended, SettleSteps, LockInv, SettleInv, SettleWorker,
              Settled, OthersStayFrozen, Safe, HoldOpen, JobInv, billingVars, queueVars, jobVars
<1>. QED BY <1>1, <1>2, <1>3 DEF IInv

\* The submission stops a job whose name it could not store.
LEMMA SubmitAbortStep ==
  ASSUME IInv, SubmitAbort
  PROVE  IInv'
<1>a. gaps \subseteq gaps' /\ gaps' \subseteq Gaps /\ faults' \in 0..MaxFaults
  BY FaultTypes DEF IInv, TypeOK, Gaps, SubmitAbort
<1>0. /\ submit = "abort" /\ submit' = "done"
      /\ \/ provider' = IF provider = "active" THEN "cancelled" ELSE provider
         \/ provider' = provider /\ "upstream" \in gaps'
      /\ UNCHANGED <<billingVars, queueVars, jobVars, cost, served, sweep, cancel, work, target>>
  BY FaultTypes
     DEF IInv, TypeOK, Gaps, SubmitAbort, SubmitGoto, ProviderCancel, billingVars, queueVars,
         jobVars
<1>1. TypeOK'
  BY <1>0, <1>a DEF IInv, TypeOK, SubmitSteps, billingVars, queueVars, jobVars, provVars
<1>2. JobInv' /\ EndedInv' /\ ClaimInv' /\ UpstreamInv'
  BY <1>0, <1>a
     DEF IInv, TypeOK, JobInv, Settled, EndedInv, Ended, ClaimInv, UpstreamInv, Terminal,
         billingVars, jobVars, provVars
<1>3. (\A v \in Workers : WorkerInv(v))' /\ LockInv' /\ SettleInv' /\ OthersStayFrozen'
  <2>1. Safe' => Safe
    BY <1>0, <1>a, <1>a DEF Safe
  <2>. QED BY <1>0, <1>a, <1>a, <2>1
              DEF IInv, TypeOK, WorkerInv, Ended, SettleSteps, LockInv, SettleInv, SettleWorker,
              Settled, OthersStayFrozen, Safe, HoldOpen, JobInv, billingVars, queueVars, jobVars
<1>. QED BY <1>1, <1>2, <1>3 DEF IInv

\* A cancellation stops the job at the provider.
LEMMA CancelStopStep ==
  ASSUME IInv, NEW c \in Cancels, CancelStop(c)
  PROVE  IInv'
<1>0. /\ \E s \in {"enqueue", "done"} : cancel' = [cancel EXCEPT ![c] = s]
      /\ provider' \in {provider, IF provider = "active" THEN "cancelled" ELSE provider}
      /\ UNCHANGED <<billingVars, queueVars, jobVars, cost, served, submit, sweep, work, target>>
      /\ gaps' = gaps /\ faults' \in 0..MaxFaults
  BY FaultTypes
     DEF IInv, TypeOK, CancelStop, ProviderCancel, CancelGoto, billingVars, queueVars, jobVars
<1>1. TypeOK'
  BY <1>0 DEF IInv, TypeOK, CancelSteps, billingVars, queueVars, jobVars, provVars
<1>2. JobInv' /\ EndedInv' /\ ClaimInv' /\ UpstreamInv'
  BY <1>0
     DEF IInv, TypeOK, JobInv, Settled, EndedInv, Ended, ClaimInv, UpstreamInv, Terminal,
         billingVars, jobVars, provVars
<1>3. (\A v \in Workers : WorkerInv(v))' /\ LockInv' /\ SettleInv' /\ OthersStayFrozen'
  <2>1. Safe' => Safe
    BY <1>0 DEF Safe
  <2>. QED BY <1>0, <2>1
              DEF IInv, TypeOK, WorkerInv, Ended, SettleSteps, LockInv, SettleInv, SettleWorker,
              Settled, OthersStayFrozen, Safe, HoldOpen, JobInv, billingVars, queueVars, jobVars
<1>. QED BY <1>1, <1>2, <1>3 DEF IInv

\* The provider ends the job, and says what it costs.
LEMMA ProviderEndsStep ==
  ASSUME IInv, ProviderEnds
  PROVE  IInv'
<1>0. /\ provider = "active" /\ provider' \in {"good", "bad", "failed"}
      /\ cost' = cost \/ cost' \in Costs
      /\ UNCHANGED <<billingVars, queueVars, jobVars, served, pcVars>>
      /\ gaps' = gaps /\ faults' \in 0..MaxFaults
  BY FaultTypes DEF IInv, TypeOK, ProviderEnds, billingVars, queueVars, jobVars, pcVars
<1>1. TypeOK'
  BY <1>0 DEF IInv, TypeOK, pcVars, billingVars, queueVars, jobVars, provVars
<1>2. JobInv' /\ EndedInv' /\ ClaimInv' /\ UpstreamInv'
  BY <1>0
     DEF IInv, TypeOK, JobInv, Settled, EndedInv, Ended, ClaimInv, UpstreamInv, Terminal, pcVars,
         billingVars, jobVars, provVars
<1>3. (\A v \in Workers : WorkerInv(v))' /\ LockInv' /\ SettleInv' /\ OthersStayFrozen'
  <2>1. Safe' => Safe
    BY <1>0 DEF Safe
  <2>. QED BY <1>0, <2>1
              DEF IInv, TypeOK, WorkerInv, Ended, SettleSteps, LockInv, SettleInv, SettleWorker,
              Settled, OthersStayFrozen, Safe, HoldOpen, JobInv, billingVars, queueVars, jobVars, pcVars, ClaimInv
<1>. QED BY <1>1, <1>2, <1>3 DEF IInv

\* A delayed job becomes ready.
LEMMA MoveDueDelayedStep ==
  ASSUME IInv, MoveDueDelayed
  PROVE  IInv'
<1>1. gaps \subseteq gaps' /\ gaps' \subseteq Gaps /\ faults' \in 0..MaxFaults
  BY FaultTypes DEF IInv, TypeOK, Gaps, MoveDueDelayed
<1>2. UNCHANGED <<billingVars, jobVars, provVars, pcVars>>
  BY DEF MoveDueDelayed
<1>3. TypeOK'
  <2>1. ready' \in Nat /\ lock' \in Workers \cup {NoOne, Ghost}
    BY DEF IInv, TypeOK, MoveDueDelayed, MoveDueDelayedToReady
  <2>2. delayed' \in BOOLEAN /\ active' \in BOOLEAN /\ inflight' \in BOOLEAN
    BY Zenon DEF IInv, TypeOK, MoveDueDelayed, MoveDueDelayedToReady
  <2>. QED BY <1>1, <1>2, <2>1, <2>2 DEF IInv, TypeOK, billingVars, jobVars, provVars, pcVars
<1>4. LockInv'
  BY <1>1, <1>2, FaultTypes, LockAssumption
     DEF IInv, TypeOK, Gaps, LockInv, MoveDueDelayed, MoveDueDelayedToReady, pcVars
<1>5. Safe' => Safe
  BY <1>1 DEF Safe
<1>6. JobInv' /\ EndedInv' /\ ClaimInv' /\ UpstreamInv' /\ OthersStayFrozen'
  BY <1>1, <1>2, <1>5
     DEF IInv, JobInv, Settled, EndedInv, Ended, ClaimInv, UpstreamInv, OthersStayFrozen, Safe,
         HoldOpen, billingVars, jobVars, provVars, pcVars
<1>7. (\A v \in Workers : WorkerInv(v))' /\ SettleInv'
  BY <1>2, <1>5
     DEF IInv, WorkerInv, Ended, SettleInv, SettleWorker, Settled, billingVars, jobVars, provVars,
         pcVars
<1>. QED BY <1>3, <1>4, <1>6, <1>7 DEF IInv

\* A job nobody works on becomes ready.
LEMMA RecoverStaleStep ==
  ASSUME IInv, RecoverStale
  PROVE  IInv'
<1>1. gaps \subseteq gaps' /\ gaps' \subseteq Gaps /\ faults' \in 0..MaxFaults
  BY FaultTypes DEF IInv, TypeOK, Gaps, RecoverStale
<1>2. UNCHANGED <<billingVars, jobVars, provVars, pcVars>>
  BY DEF RecoverStale
<1>3. TypeOK'
  <2>1. ready' \in Nat /\ lock' \in Workers \cup {NoOne, Ghost}
    BY DEF IInv, TypeOK, RecoverStale, RecoverStaleActive
  <2>2. delayed' \in BOOLEAN /\ active' \in BOOLEAN /\ inflight' \in BOOLEAN
    BY Zenon DEF IInv, TypeOK, RecoverStale, RecoverStaleActive
  <2>. QED BY <1>1, <1>2, <2>1, <2>2 DEF IInv, TypeOK, billingVars, jobVars, provVars, pcVars
<1>4. LockInv'
  BY <1>1, <1>2, FaultTypes, LockAssumption
     DEF IInv, TypeOK, Gaps, LockInv, RecoverStale, RecoverStaleActive, pcVars
<1>5. Safe' => Safe
  BY <1>1 DEF Safe
<1>6. JobInv' /\ EndedInv' /\ ClaimInv' /\ UpstreamInv' /\ OthersStayFrozen'
  BY <1>1, <1>2, <1>5
     DEF IInv, JobInv, Settled, EndedInv, Ended, ClaimInv, UpstreamInv, OthersStayFrozen, Safe,
         HoldOpen, billingVars, jobVars, provVars, pcVars
<1>7. (\A v \in Workers : WorkerInv(v))' /\ SettleInv'
  BY <1>2, <1>5
     DEF IInv, WorkerInv, Ended, SettleInv, SettleWorker, Settled, billingVars, jobVars, provVars,
         pcVars
<1>. QED BY <1>3, <1>4, <1>6, <1>7 DEF IInv

\* The lock of a worker expires only with a gap.
LEMMA LockExpiresStep ==
  ASSUME IInv, LockExpires
  PROVE  IInv'
<1>1. gaps \subseteq gaps' /\ gaps' \subseteq Gaps /\ faults' \in 0..MaxFaults
  BY FaultTypes DEF IInv, TypeOK, Gaps, LockExpires
<1>2. UNCHANGED <<billingVars, jobVars, provVars, pcVars>>
  BY DEF LockExpires
<1>3. TypeOK'
  <2>1. ready' \in Nat /\ lock' \in Workers \cup {NoOne, Ghost}
    BY DEF IInv, TypeOK, LockExpires, JobLockExpires
  <2>2. delayed' \in BOOLEAN /\ active' \in BOOLEAN /\ inflight' \in BOOLEAN
    BY Zenon DEF IInv, TypeOK, LockExpires, JobLockExpires
  <2>. QED BY <1>1, <1>2, <2>1, <2>2 DEF IInv, TypeOK, billingVars, jobVars, provVars, pcVars
<1>4. LockInv'
  BY <1>1, <1>2, FaultTypes, LockAssumption
     DEF IInv, TypeOK, Gaps, LockInv, LockExpires, JobLockExpires, pcVars
<1>5. Safe' => Safe
  BY <1>1 DEF Safe
<1>6. JobInv' /\ EndedInv' /\ ClaimInv' /\ UpstreamInv' /\ OthersStayFrozen'
  BY <1>1, <1>2, <1>5
     DEF IInv, JobInv, Settled, EndedInv, Ended, ClaimInv, UpstreamInv, OthersStayFrozen, Safe,
         HoldOpen, billingVars, jobVars, provVars, pcVars
<1>7. (\A v \in Workers : WorkerInv(v))' /\ SettleInv'
  BY <1>2, <1>5
     DEF IInv, WorkerInv, Ended, SettleInv, SettleWorker, Settled, billingVars, jobVars, provVars,
         pcVars
<1>. QED BY <1>3, <1>4, <1>6, <1>7 DEF IInv

\* The inflight key expires.
LEMMA InflightLapsesStep ==
  ASSUME IInv, InflightLapses
  PROVE  IInv'
<1>1. gaps \subseteq gaps' /\ gaps' \subseteq Gaps /\ faults' \in 0..MaxFaults
  BY FaultTypes DEF IInv, TypeOK, Gaps, InflightLapses
<1>2. UNCHANGED <<billingVars, jobVars, provVars, pcVars>>
  BY DEF InflightLapses
<1>3. TypeOK'
  <2>1. ready' \in Nat /\ lock' \in Workers \cup {NoOne, Ghost}
    BY DEF IInv, TypeOK, InflightLapses, InflightExpires
  <2>2. delayed' \in BOOLEAN /\ active' \in BOOLEAN /\ inflight' \in BOOLEAN
    BY Zenon DEF IInv, TypeOK, InflightLapses, InflightExpires
  <2>. QED BY <1>1, <1>2, <2>1, <2>2 DEF IInv, TypeOK, billingVars, jobVars, provVars, pcVars
<1>4. LockInv'
  BY <1>1, <1>2, FaultTypes, LockAssumption
     DEF IInv, TypeOK, Gaps, LockInv, InflightLapses, InflightExpires, pcVars
<1>5. Safe' => Safe
  BY <1>1 DEF Safe
<1>6. JobInv' /\ EndedInv' /\ ClaimInv' /\ UpstreamInv' /\ OthersStayFrozen'
  BY <1>1, <1>2, <1>5
     DEF IInv, JobInv, Settled, EndedInv, Ended, ClaimInv, UpstreamInv, OthersStayFrozen, Safe,
         HoldOpen, billingVars, jobVars, provVars, pcVars
<1>7. (\A v \in Workers : WorkerInv(v))' /\ SettleInv'
  BY <1>2, <1>5
     DEF IInv, WorkerInv, Ended, SettleInv, SettleWorker, Settled, billingVars, jobVars, provVars,
         pcVars
<1>. QED BY <1>3, <1>4, <1>6, <1>7 DEF IInv

-----------------------------------------------------------------------------
\* The initial states.
LEMMA InitIInv == Init => IInv
<1>1. SUFFICES ASSUME Init PROVE IInv
  OBVIOUS
<1>2. TypeOK
  <2>1. /\ claims = {} /\ balance \in Nat /\ frozen \in Nat /\ charged \in 0..Amount
        /\ returned \in {0, Amount} /\ ready \in Nat /\ retries \in 0..MaxRetries
        /\ faults \in 0..MaxFaults
    BY <1>1, AmountAssumption, OpeningAssumption, OthersAssumption, MaxRetriesAssumption,
       MaxFaultsAssumption DEF Init, BillingInit, QueueInit
  <2>2. /\ delayed = FALSE /\ active = FALSE /\ inflight = FALSE /\ lock = NoOne /\ named = FALSE
        /\ status = "created" /\ provider = "none" /\ cost = 0 /\ served = TRUE
        /\ submit = "reserve" /\ sweep = "idle" /\ gaps = {}
        /\ cancel = [c \in Cancels |-> "idle"] /\ work = [w \in Workers |-> "idle"]
        /\ target = [w \in Workers |-> "running"]
    BY <1>1 DEF Init, QueueInit
  <2>. QED BY <2>1, <2>2
           DEF TypeOK, Statuses, SubmitSteps, SweepSteps, CancelSteps, WorkSteps, RequestIDs
<1>3. JobInv /\ EndedInv /\ ClaimInv /\ UpstreamInv
  BY <1>1 DEF Init, BillingInit, JobInv, Settled, EndedInv, Ended, ClaimInv, UpstreamInv
<1>4. (\A w \in Workers : WorkerInv(w)) /\ LockInv /\ SettleInv
  BY <1>1
     DEF Init, BillingInit, WorkerInv, LockInv, LockedSteps, SettleSteps, SettleInv, SettleWorker,
         Settled
<1>5. OthersStayFrozen
  BY <1>1, OthersAssumption DEF Init, BillingInit, OthersStayFrozen, HoldOpen
<1>. QED BY <1>2, <1>3, <1>4, <1>5 DEF IInv

\* Every step keeps the invariant.
LEMMA NextIInv == IInv /\ [Next]_vars => IInv'
<1>1. SUFFICES ASSUME IInv, [Next]_vars PROVE IInv'
  OBVIOUS
<1>2. ASSUME UNCHANGED vars PROVE IInv'
  <2>1. UNCHANGED <<billingVars, queueVars, jobVars, provVars, pcVars, gaps, faults>>
    BY <1>2 DEF vars
  <2>2. TypeOK'
    BY <1>1, <2>1 DEF IInv, TypeOK, billingVars, queueVars, jobVars, provVars, pcVars
  <2>3. JobInv' /\ EndedInv' /\ ClaimInv' /\ UpstreamInv'
    BY <1>1, <2>1 DEF IInv, JobInv, Settled, EndedInv, Ended, ClaimInv, UpstreamInv, billingVars,
       jobVars, provVars, pcVars
  <2>4. (\A v \in Workers : WorkerInv(v))' /\ LockInv' /\ SettleInv' /\ OthersStayFrozen'
    BY <1>1, <2>1, OthersMove DEF queueVars, pcVars
  <2>. QED BY <2>2, <2>3, <2>4 DEF IInv
<1>3. ASSUME SubmitStep \/ Resubmit \/ SubmitCrash PROVE IInv'
  BY <1>1, <1>3, SubmitReserveStep, SubmitItemsStep, SubmitUploadStep, SubmitProviderStep,
     SubmitStoreStep, SubmitAbortStep, SubmitEnqueueStep, SubmitReleaseStep, SubmitMarkStep,
     SubmitRetryStep, ResubmitStep, SubmitCrashStep DEF SubmitStep
<1>4. ASSUME SweepStep \/ SweepCrash PROVE IInv'
  BY <1>1, <1>4, FailStaleUnsubmittedStep, SweepReleaseStep, SweepRetryStep, SweepCrashStep
     DEF SweepStep
<1>5. ASSUME NEW c \in Cancels, CancelRead(c) \/ CancelStep(c) \/ CancelCrash(c) PROVE IInv'
  BY <1>1, <1>5, CancelReadStep, CancelStopStep, CancelEnqueueStep, CancelTransitionStep,
     CancelReleaseStep, CancelRetryStep, CancelCrashStep DEF CancelStep
<1>6. ASSUME NEW w \in Workers, WorkStep(w) \/ WorkCrash(w) PROVE IInv'
  BY <1>1, <1>6, WorkReserveStep, WorkLockStep, WorkLoadStep, WorkProcessStep, WorkQueryStep,
     WorkTransitionStep, WorkIndexStep, WorkReleaseStep, SettleStep, SettleCaptureStep,
     MarkSettledStep, RecordSettlementFailureStep, FailExhaustedStep, GiveUpStep,
     SettleRereadStep, WorkAckStep, WorkRequeueStep, WorkUnlockStep, WorkCrashStep DEF WorkStep
<1>7. ASSUME MoveDueDelayed \/ RecoverStale \/ LockExpires \/ InflightLapses PROVE IInv'
  BY <1>1, <1>7, MoveDueDelayedStep, RecoverStaleStep, LockExpiresStep, InflightLapsesStep
<1>8. ASSUME ProviderEnds \/ LoseService \/ RegainService \/ CleanupOutput PROVE IInv'
  BY <1>1, <1>8, ProviderEndsStep, ServiceStep, CleanupOutputStep
<1>. QED BY <1>1, <1>2, <1>3, <1>4, <1>5, <1>6, <1>7, <1>8 DEF Next, Crash

-----------------------------------------------------------------------------
\* The inductive invariant holds in every reachable state.
THEOREM Invariance == Spec => []IInv
BY InitIInv, NextIInv, PTL DEF Spec

\* Every variable keeps its type: in particular the balance and the frozen balance of the
\* user never become negative, and the capture takes no more than the hold.
THEOREM TypeCorrect == Spec => []TypeOK
<1>1. IInv => TypeOK
  BY DEF IInv
<1>. QED BY <1>1, Invariance, PTL

\* Through crashes, retries, cancellations, sweeps and lost answers the job takes from the
\* frozen balance what it has put there and no more, unless a capture that was reported as
\* failed is in force or a worker outlived its lock.
THEOREM OthersSafe == Spec => []OthersStayFrozen
<1>1. IInv => OthersStayFrozen
  BY DEF IInv
<1>. QED BY <1>1, Invariance, PTL

\* A job that ended well has been paid for exactly, and one that failed or was cancelled
\* costs nothing, under the same exceptions.
THEOREM ChargedAsEnded == Spec => []EndMatchesCharge
<1>1. IInv => EndMatchesCharge
  BY DEF IInv, SettleInv, SettleWorker, Safe, Settled, EndMatchesCharge
<1>. QED BY <1>1, Invariance, PTL

\* Once the submission has returned, a job that goes on at the provider is alive here and
\* known by its name, unless a step that was to stop it failed or Cancel had read the job
\* without its name.
THEOREM UpstreamKnown == Spec => []NoUpstreamOrphan
<1>1. IInv => NoUpstreamOrphan
  BY DEF IInv, UpstreamInv, NoUpstreamOrphan
<1>. QED BY <1>1, Invariance, PTL

=============================================================================
