-------------------------- MODULE SchedulerSnapshot --------------------------
(***************************************************************************)
(* How a change of an account or of its group reaches the snapshot the     *)
(* scheduler reads: the outbox and the statements on it                    *)
(* (repository/scheduler_outbox_repo.go), the poll of every instance, the  *)
(* periodic full rebuild and the lookup that publishes what it had to load *)
(* itself (service/scheduler_snapshot_service.go).                         *)
(*                                                                         *)
(* One group with one bucket, and the account its events are about.  What  *)
(* a snapshot holds is the number of changes of the bucket's accounts that *)
(* were committed when it was loaded.                                      *)
(* The cached copies of single accounts, last-used times and the extra     *)
(* rebuilds on a lagging outbox are left out.                              *)
(***************************************************************************)
EXTENDS SchedulerBucket, FiniteSets

CONSTANTS
  Pollers,      \* one runOutboxWorker per instance
  Rebuilders,   \* runFullRebuildWorker
  Readers,      \* callers of ListSchedulableAccounts
  Kinds,        \* the event types that occur
  BatchLimit,   \* rows of one ListAfterAndReleaseDedup
  MaxChanges,   \* bound on the changes
  MaxFaults     \* bound on crashes, failing calls and slow holders of the lock

ASSUME WritersAssumption == Writers = Pollers \cup Rebuilders \cup Readers
ASSUME PollersAssumption == Pollers \cap (Rebuilders \cup Readers) = {}
ASSUME KindsAssumption == Kinds \subseteq {"account", "bulk", "group"}
ASSUME BoundsAssumption ==
  BatchLimit \in Nat \ {0} /\ MaxChanges \in Nat \ {0} /\ MaxFaults \in Nat

VARIABLES
  groupActive,  \* the group's status
  members,      \* committed changes of the bucket's accounts
  mixed,        \* the account belongs to the bucket (IsMixedSchedulingEnabled)
  change,       \* each change: [stage, kind, row, on]
  outbox,       \* committed rows: [id, kind, keyed]
  nextId,       \* the sequence behind the ids
  watermark,    \* sched:outbox:watermark
  poll,         \* a poll under way: [wm, batch, last, seen, life], and the ids it read
  task,         \* each writer's step: [pc, token, data, strict, alive, err]
  unhandled,    \* history: ids of committed rows that no poll has read and gone through
  gap,          \* history: something after which a drained outbox may leave a stale snapshot
  faults

dbVars == <<groupActive, members, mixed>>
rowVars == <<outbox, nextId>>
outboxVars == <<change, rowVars, watermark>>
historyVars == <<unhandled, gap>>
vars == <<bucketVars, dbVars, outboxVars, poll, task, historyVars, faults>>

Changes == 1..MaxChanges

\* schedulerOutboxEventSupportsDedup
Keyed == {"account", "group"}

NoData == [members |-> 0, era |-> 0]
NoChange == [stage |-> "none", kind |-> "account", row |-> 0, on |-> 0]
Ended == [NoChange EXCEPT !.stage = "done"]
NoPoll == [wm |-> 0, batch |-> {}, last |-> 0, seen |-> FALSE, life |-> FALSE, ids |-> {}]
Idle ==
  [pc |-> "idle", token |-> 0, data |-> NoData, strict |-> FALSE, alive |-> FALSE, err |-> FALSE]

At(w, pc) == task[w].pc = pc
Goto(w, pc) == task' = [task EXCEPT ![w].pc = pc]
Begin(w, pc, token, strict) ==
  task' = [task EXCEPT ![w] = [Idle EXCEPT !.pc = pc, !.token = token, !.strict = strict]]

Init ==
  /\ Unused
  /\ groupActive = TRUE /\ members = 0 /\ mixed = TRUE
  /\ change = [c \in Changes |-> NoChange]
  /\ outbox = {} /\ nextId = 1 /\ watermark = 0
  /\ poll = [i \in Pollers |-> NoPoll]
  /\ task = [w \in Writers |-> Idle]
  /\ unhandled = {} /\ gap = FALSE /\ faults = 0

-----------------------------------------------------------------------------
(* Changes, and enqueueSchedulerOutbox                                       *)

\* Changes are started in order; which is which does not matter.
MayStart(c) == change[c].stage = "none" /\ (c > 1 => change[c - 1].stage # "none")

\* The row whose dedup_key an insert of this kind meets, and an open transaction that
\* has inserted the same key, for whose end it waits.
Conflict(kind) == {r \in outbox : r.keyed /\ r.kind = kind}
Blocked(kind) ==
  kind \in Keyed /\ \E d \in Changes : /\ change[d].stage = "open"
                                       /\ change[d].kind = kind
                                       /\ change[d].row # 0

Row(id, kind) == [id |-> id, kind |-> kind, keyed |-> kind \in Keyed]

\* A change of an account that is not in the bucket, and does not come into it, is none of
\* the bucket's.
Apply(kind) ==
  /\ groupActive' = IF kind = "group" THEN ~groupActive ELSE groupActive
  /\ members' = IF kind # "group" /\ (mixed \/ mixed') THEN members + 1 ELSE members

\* A transaction that changes accounts and inserts the event (Update, UpdateExtra,
\* BulkUpdate): the id is taken here and visible at the commit.  Only such changes turn
\* mixed_scheduling off or on.
TxEnqueue(c, kind) ==
  /\ MayStart(c) /\ kind # "group" /\ ~Blocked(kind)
  /\ IF Conflict(kind) = {}
     THEN /\ change' = [change EXCEPT ![c] = [stage |-> "open", kind |-> kind, row |-> nextId, on |-> 0]]
          /\ nextId' = nextId + 1
     ELSE /\ \E r \in Conflict(kind) :
               change' = [change EXCEPT ![c] = [stage |-> "open", kind |-> kind, row |-> 0, on |-> r.id]]
          /\ UNCHANGED nextId
  /\ UNCHANGED <<bucketVars, dbVars, outbox, watermark, poll, task, historyVars, faults>>

\* The transaction found its event pending and inserted none; by now that was read.
Suppressed(tx) == tx.row = 0 /\ tx.on \notin {r.id : r \in Conflict(tx.kind)}

\* It takes the account out of the bucket, and not through a bulk event.
Left(tx) == tx.kind # "bulk" /\ mixed /\ ~mixed'

TxCommit(c) ==
  LET tx == change[c] IN
  /\ tx.stage = "open"
  /\ mixed' \in BOOLEAN
  /\ Apply(tx.kind)
  /\ outbox' = IF tx.row = 0 THEN outbox ELSE outbox \cup {Row(tx.row, tx.kind)}
  /\ unhandled' = IF tx.row = 0 THEN unhandled ELSE unhandled \cup {tx.row}
  /\ gap' = (gap \/ Suppressed(tx) \/ Left(tx))
  /\ change' = [change EXCEPT ![c] = Ended]
  /\ UNCHANGED <<bucketVars, nextId, watermark, poll, task, faults>>

TxRollback(c) ==
  /\ change[c].stage = "open"
  /\ change' = [change EXCEPT ![c] = Ended]
  /\ UNCHANGED <<bucketVars, dbVars, rowVars, watermark, poll, task, historyVars, faults>>

\* A change that is committed on its own, and the insert that follows it (ClearError,
\* group Update and Delete).
ChangeFirst(c, kind) ==
  /\ MayStart(c)
  /\ UNCHANGED mixed
  /\ Apply(kind)
  /\ change' = [change EXCEPT ![c] = [stage |-> "written", kind |-> kind, row |-> 0, on |-> 0]]
  /\ UNCHANGED <<bucketVars, rowVars, watermark, poll, task, historyVars, faults>>

EnqueueAfter(c) ==
  LET kind == change[c].kind IN
  /\ change[c].stage = "written" /\ ~Blocked(kind)
  /\ change' = [change EXCEPT ![c] = Ended]
  /\ IF Conflict(kind) = {}
     THEN /\ outbox' = outbox \cup {Row(nextId, kind)}
          /\ unhandled' = unhandled \cup {nextId}
          /\ nextId' = nextId + 1
     ELSE UNCHANGED <<rowVars, unhandled>>
  /\ UNCHANGED <<bucketVars, dbVars, watermark, poll, task, gap, faults>>

\* The insert fails, which is only logged: the change stays without an event.
EnqueueLost(c) ==
  /\ change[c].stage = "written" /\ faults < MaxFaults
  /\ change' = [change EXCEPT ![c] = Ended]
  /\ gap' = TRUE
  /\ faults' = faults + 1
  /\ UNCHANGED <<bucketVars, dbVars, rowVars, watermark, poll, task, unhandled>>

-----------------------------------------------------------------------------
(* Rebuilding the bucket: rebuildBucketWithTokenPolicyAndQueryCache and      *)
(* SetSnapshot                                                               *)

\* How a writer's work ends: a poll goes on with the next event of its batch, or gives
\* the batch up; a full rebuild and a lookup are over.
Succeed(w, lifecycle) ==
  /\ Begin(w, IF w \in Pollers THEN "handle" ELSE "idle", 0, FALSE)
  /\ poll' = IF w \in Pollers /\ lifecycle
             THEN [poll EXCEPT ![w].seen = TRUE, ![w].life = TRUE]
             ELSE poll

GiveUp(w) ==
  /\ task' = [task EXCEPT ![w] = Idle]
  /\ poll' = IF w \in Pollers THEN [poll EXCEPT ![w] = NoPoll] ELSE poll

\* A poll that finds the bucket locked counts its event as handled, though the other
\* rebuild may have loaded the accounts before the change.
TryLockBucket(w) ==
  /\ At(w, "lock")
  /\ IF lock = NoOne
     THEN /\ lock' = w
          /\ Goto(w, "load")
          /\ UNCHANGED <<poll, gap>>
     ELSE /\ UNCHANGED lock
          /\ IF task[w].strict
             THEN GiveUp(w) /\ UNCHANGED gap
             ELSE /\ Succeed(w, FALSE)
                  /\ gap' = (gap \/ w \in Pollers)
  /\ UNCHANGED <<fenceVars, snapshotVars, lease, dbVars, outboxVars, unhandled, faults>>

\* A query that another bucket of the same batch has made already may be used instead of
\* a new one; with one bucket there is none.
LoadAccounts(w) ==
  /\ At(w, "load")
  /\ task' = [task EXCEPT ![w].pc = "allocate", ![w].data = [members |-> members, era |-> retirements]]
  /\ UNCHANGED <<bucketVars, dbVars, outboxVars, poll, historyVars, faults>>

\* The publication is over; a lookup took no lock.
EndPublish(w, err) ==
  task' = [task EXCEPT ![w] =
    IF w \in Readers THEN Idle ELSE [Idle EXCEPT !.pc = "unlock", !.strict = task[w].strict, !.err = err]]

\* A fence ends it too: an error for a strict rebuild, success for the others.
AllocateVersion(w) ==
  /\ At(w, "allocate")
  /\ IF Fenced(task[w].token)
     THEN /\ EndPublish(w, task[w].strict)
          /\ UNCHANGED allocated
     ELSE /\ Goto(w, "activate")
          /\ AllocateSnapshotVersion(w)
  /\ UNCHANGED <<fenceVars, active, lock, lease, dbVars, outboxVars, poll, historyVars, faults>>

\* Newer data gives way to older: what is published is too old, or what it replaces newer.
Overtaken(d) ==
  /\ active' # NoSnapshot
  /\ \/ d.members > active'.members
     \/ active # NoSnapshot /\ active.members > active'.members

ActivateVersion(w) ==
  LET d == task[w].data IN
  /\ At(w, "activate")
  /\ IF Fenced(task[w].token)
     THEN /\ EndPublish(w, task[w].strict)
          /\ AbandonVersion(w)
          /\ UNCHANGED <<active, gap>>
     ELSE /\ EndPublish(w, FALSE)
          /\ ActivateSnapshot(w, d)
          /\ gap' = (gap \/ Overtaken(d))
  /\ UNCHANGED <<fenceVars, lock, lease, dbVars, outboxVars, poll, unhandled, faults>>

\* An unlock that fails is ignored, and leaves the lock to its time to live.
FinishRebuild(w) ==
  /\ At(w, "unlock")
  /\ \/ UnlockBucket /\ UNCHANGED faults
     \/ UNCHANGED lock /\ faults < MaxFaults /\ faults' = faults + 1
  /\ IF task[w].err THEN GiveUp(w) ELSE Succeed(w, task[w].strict)
  /\ UNCHANGED <<fenceVars, snapshotVars, lease, dbVars, outboxVars, historyVars>>

-----------------------------------------------------------------------------
(* prepareGroupLifecycle                                                     *)

\* The lease is taken and the group read under it.
AcquireLifecycleLease(w) ==
  /\ At(w, "life")
  /\ IF lease = NoOne
     THEN /\ lease' = w
          /\ task' = [task EXCEPT ![w].pc = "decide", ![w].alive = groupActive]
          /\ UNCHANGED poll
     ELSE GiveUp(w) /\ UNCHANGED lease
  /\ UNCHANGED <<fenceVars, snapshotVars, lock, dbVars, outboxVars, historyVars, faults>>

\* An active group's bucket is reopened and rebuilt strictly, another's is retired;
\* the lease is given back before the rebuild.
DecideLifecycle(w) ==
  /\ At(w, "decide")
  /\ lease' = NoOne
  /\ IF task[w].alive
     THEN /\ ReopenBucket
          /\ Begin(w, "lock", NextToken, TRUE)
          /\ UNCHANGED poll
     ELSE RetireBucket /\ Succeed(w, TRUE)
  /\ UNCHANGED <<lock, dbVars, outboxVars, historyVars, faults>>

-----------------------------------------------------------------------------
(* pollOutbox and handleOutboxEvent                                          *)

ReadWatermark(i) ==
  /\ At(i, "idle")
  /\ Goto(i, "list")
  /\ poll' = [poll EXCEPT ![i].wm = watermark]
  /\ UNCHANGED <<bucketVars, dbVars, outboxVars, historyVars, faults>>

\* The rows above a watermark that one statement reads: those with the smallest ids.
Batch(wm) ==
  {r \in outbox : /\ r.id > wm
                  /\ Cardinality({s \in outbox : s.id > wm /\ s.id <= r.id}) <= BatchLimit}

Ids(rows) == {r.id : r \in rows}

\* The poll handles these rows next.
TakeBatch(i, rows) ==
  /\ Goto(i, "handle")
  /\ \E last \in rows :
       /\ \A r \in rows : r.id <= last.id
       /\ poll' = [poll EXCEPT ![i] =
                     [NoPoll EXCEPT !.batch = rows, !.last = last.id, !.ids = Ids(rows)]]

\* Mutant: the keys stay until the rows are deleted.
ListKeepsDedup(i) ==
  LET rows == Batch(poll[i].wm) IN
  /\ At(i, "list")
  /\ IF rows = {} THEN GiveUp(i) ELSE TakeBatch(i, rows)
  /\ UNCHANGED <<bucketVars, dbVars, change, rowVars, watermark, historyVars, faults>>

ListAfterAndReleaseDedup(i) ==
  LET rows == Batch(poll[i].wm) IN
  /\ At(i, "list")
  /\ IF rows = {}
     THEN GiveUp(i) /\ UNCHANGED outbox
     ELSE /\ TakeBatch(i, rows)
          /\ outbox' = {[r EXCEPT !.keyed = r.keyed /\ r.id \notin Ids(rows)] : r \in outbox}
  /\ UNCHANGED <<bucketVars, dbVars, change, nextId, watermark, historyVars, faults>>

\* The next row of the batch, when it is of one of these kinds.
Event(i, kinds) ==
  {r \in poll[i].batch : r.kind \in kinds /\ \A s \in poll[i].batch : r.id <= s.id}

\* rebuildByAccount chooses the buckets the account belongs to now, the bulk handler all
\* that it may have belonged to.
Chosen(kind) == kind = "bulk" \/ (kind = "account" /\ mixed)

\* handleAccountEvent, handleBulkAccountEvent: the bucket is rebuilt once in a batch; a
\* retired one is left alone.
HandleAccountEvent(i) ==
  /\ At(i, "handle")
  /\ \E r \in Event(i, {"account", "bulk"}) :
       /\ poll' = [poll EXCEPT ![i].batch = @ \ {r}, ![i].seen = @ \/ Chosen(r.kind)]
       /\ IF poll[i].seen \/ retired \/ ~Chosen(r.kind)
          THEN UNCHANGED <<task, fenceVars>>
          ELSE /\ CaptureBucketWriteToken
               /\ Begin(i, "lock", NextToken, FALSE)
  /\ UNCHANGED <<snapshotVars, lock, lease, dbVars, outboxVars, historyVars, faults>>

HandleGroupEvent(i) ==
  /\ At(i, "handle")
  /\ \E r \in Event(i, {"group"}) : poll' = [poll EXCEPT ![i].batch = @ \ {r}]
  /\ IF poll[i].life THEN UNCHANGED task ELSE Goto(i, "life")
  /\ UNCHANGED <<bucketVars, dbVars, outboxVars, historyVars, faults>>

\* A plain SET: another instance may have moved it further.
SetOutboxWatermark(i) ==
  /\ At(i, "handle") /\ poll[i].batch = {}
  /\ watermark' = poll[i].last
  /\ unhandled' = unhandled \ poll[i].ids
  /\ Goto(i, "clean")
  /\ UNCHANGED <<bucketVars, dbVars, change, rowVars, poll, gap, faults>>

\* cleanupConsumedOutbox: the rows up to the watermark that are older than ten
\* seconds; which ones are is left open.  None goes while another instance cleans up.
CleanupConsumedOutbox(i) ==
  /\ At(i, "clean")
  /\ \E old \in SUBSET {r \in outbox : r.id <= poll[i].last} : outbox' = outbox \ old
  /\ GiveUp(i)
  /\ UNCHANGED <<bucketVars, dbVars, change, nextId, watermark, historyVars, faults>>

-----------------------------------------------------------------------------
(* rebuildFullSnapshot, ListSchedulableAccounts and faults                   *)

\* The registered buckets and the active groups are read: an active group's bucket is
\* captured, a registered bucket of another group is settled by its lifecycle.
StartFullRebuild(w) ==
  /\ w \in Rebuilders /\ At(w, "idle")
  /\ \/ groupActive /\ Goto(w, "capture")
     \/ ~groupActive /\ active # NoSnapshot /\ Goto(w, "life")
  /\ UNCHANGED <<bucketVars, dbVars, outboxVars, poll, historyVars, faults>>

\* Mutant: a retired bucket of an active group is skipped.
CaptureSkipsRetired(w) ==
  /\ At(w, "capture")
  /\ IF retired
     THEN Goto(w, "idle") /\ UNCHANGED fenceVars
     ELSE /\ CaptureBucketWriteToken
          /\ Begin(w, "lock", NextToken, FALSE)
  /\ UNCHANGED <<snapshotVars, lock, lease, dbVars, outboxVars, poll, historyVars, faults>>

CaptureCanonicalTask(w) ==
  /\ At(w, "capture")
  /\ IF retired
     THEN Goto(w, "life") /\ UNCHANGED fenceVars
     ELSE /\ CaptureBucketWriteToken
          /\ Begin(w, "lock", NextToken, FALSE)
  /\ UNCHANGED <<snapshotVars, lock, lease, dbVars, outboxVars, poll, historyVars, faults>>

\* A lookup that finds no snapshot captures a token and loads the accounts itself (an
\* empty one, a missing copy of an account and a failing read count as none in the code;
\* they are left out).
MissSnapshot(w) ==
  /\ w \in Readers /\ At(w, "idle")
  /\ active = NoSnapshot
  /\ CaptureBucketWriteToken
  /\ Begin(w, "load", NextToken, FALSE)
  /\ UNCHANGED <<snapshotVars, lock, lease, dbVars, outboxVars, poll, historyVars, faults>>

Rebuilding == {"load", "allocate", "activate", "unlock"}

\* A call fails, or its answer is lost: the deferred calls give lock and lease back.
\* (A lookup that fails publishes nothing.)
CallFails(w) ==
  /\ w \notin Readers /\ task[w].pc \notin {"idle", "unlock"} /\ faults < MaxFaults
  /\ faults' = faults + 1
  /\ IF task[w].pc \in Rebuilding
     THEN EndPublish(w, TRUE) /\ UNCHANGED <<poll, lease>>
     ELSE /\ GiveUp(w)
          /\ lease' = IF At(w, "decide") THEN NoOne ELSE lease
  /\ AbandonVersion(w)
  /\ UNCHANGED <<fenceVars, active, lock, dbVars, outboxVars, historyVars>>

\* The process dies and is started again, and leaves its lock or lease behind; with
\* neither, it is as if its call had failed.
Crash(w) ==
  /\ ~At(w, "idle") /\ w \in {lock, lease} /\ faults < MaxFaults
  /\ faults' = faults + 1
  /\ GiveUp(w)
  /\ AbandonVersion(w)
  /\ UNCHANGED <<fenceVars, active, lock, lease, dbVars, outboxVars, historyVars>>

\* Thirty seconds are over: the holder is gone, or (a fault) still at work.
ExpireLock ==
  /\ lock # NoOne
  /\ lock' = NoOne
  /\ IF task[lock].pc \in Rebuilding
     THEN faults < MaxFaults /\ faults' = faults + 1
     ELSE UNCHANGED faults
  /\ UNCHANGED <<fenceVars, snapshotVars, lease, dbVars, outboxVars, poll, task, historyVars>>

\* The lease lasts twice as long as what its holder may do under it.
ExpireLease ==
  /\ lease # NoOne /\ ~At(lease, "decide")
  /\ lease' = NoOne
  /\ UNCHANGED <<fenceVars, snapshotVars, lock, dbVars, outboxVars, poll, task, historyVars, faults>>

-----------------------------------------------------------------------------
WriterStep(w) ==
  \/ TryLockBucket(w) \/ LoadAccounts(w) \/ AllocateVersion(w) \/ ActivateVersion(w)
  \/ FinishRebuild(w) \/ AcquireLifecycleLease(w) \/ DecideLifecycle(w)
  \/ StartFullRebuild(w) \/ CaptureCanonicalTask(w)

PollStep(i) ==
  \/ ReadWatermark(i) \/ ListAfterAndReleaseDedup(i) \/ HandleAccountEvent(i)
  \/ HandleGroupEvent(i) \/ SetOutboxWatermark(i) \/ CleanupConsumedOutbox(i)

ChangeStep(c) ==
  \/ \E kind \in Kinds : TxEnqueue(c, kind) \/ ChangeFirst(c, kind)
  \/ TxCommit(c) \/ TxRollback(c) \/ EnqueueAfter(c) \/ EnqueueLost(c)

Next ==
  \/ \E c \in Changes : ChangeStep(c)
  \/ \E w \in Writers : WriterStep(w) \/ MissSnapshot(w) \/ CallFails(w) \/ Crash(w)
  \/ \E i \in Pollers : PollStep(i)
  \/ ExpireLock \/ ExpireLease

Spec == Init /\ [][Next]_vars

\* The pollers and the full rebuild go on, timeouts pass; nobody has to change or look up
\* anything, but a change that is begun ends.
Fairness ==
  /\ \A i \in Pollers : WF_vars(WriterStep(i) \/ PollStep(i))
  /\ \A w \in Rebuilders : WF_vars(WriterStep(w))
  /\ WF_vars(\E c \in Changes : TxCommit(c) \/ TxRollback(c) \/ EnqueueAfter(c))
  /\ WF_vars(ExpireLock) /\ WF_vars(ExpireLease)

FairSpec == Spec /\ Fairness

-----------------------------------------------------------------------------
EventKinds == {"account", "bulk", "group"}
Steps ==
  {"idle", "list", "handle", "clean", "capture", "life", "decide", "lock"} \cup Rebuilding
Entries == [stage : {"none", "open", "written", "done"}, kind : EventKinds, row : Nat, on : Nat]
Rows == [id : Nat, kind : EventKinds, keyed : BOOLEAN]
Polls ==
  [wm : Nat, batch : SUBSET Rows, last : Nat, seen : BOOLEAN, life : BOOLEAN, ids : SUBSET Nat]
Tasks ==
  [pc : Steps, token : Nat, data : Data, strict : BOOLEAN, alive : BOOLEAN, err : BOOLEAN]

\* Every variable keeps its type.
TypeOK ==
  /\ epoch \in Nat /\ retired \in BOOLEAN /\ retirements \in Nat
  /\ active \in Data \cup {NoSnapshot} /\ allocated \subseteq Writers \X Writers
  /\ lock \in Writers \cup {NoOne} /\ lease \in Writers \cup {NoOne}
  /\ groupActive \in BOOLEAN /\ members \in Nat /\ mixed \in BOOLEAN
  /\ change \in [Changes -> Entries]
  /\ outbox \subseteq Rows /\ nextId \in Nat \ {0} /\ watermark \in Nat
  /\ poll \in [Pollers -> Polls] /\ task \in [Writers -> Tasks]
  /\ unhandled \subseteq Nat /\ gap \in BOOLEAN /\ faults \in 0..MaxFaults

\* From its retirement on, a bucket is never served from a snapshot loaded before: a
\* retired bucket has none, and one that was reopened has only what was loaded since,
\* however late a writer from before publishes (the epoch in scheduler_cache.go).
NoSnapshotFromBeforeRetirement ==
  active # NoSnapshot => ~retired /\ active.era = retirements

Drained ==
  /\ \A c \in Changes : change[c].stage \in {"none", "done"}
  /\ unhandled = {}

\* Once every event was handled by a poll that went through with its batch, the snapshot
\* has every change: skipping what was already rebuilt in the batch, releasing dedup keys
\* before handling, a batch given up half way, a crash, a watermark set again and fenced
\* rebuilds lose nothing.  The exceptions (gap): an event suppressed by one that was read
\* before the commit, an insert that failed, a bucket that was busy, newer data overtaken
\* by older, and an update of one account that turns its mixed_scheduling off, after which
\* rebuildByAccount passes over the mixed buckets that list it (a comment in
\* handleBulkAccountEvent says that they must be cleaned).
DrainedMeansFresh ==
  (Drained /\ ~gap /\ active # NoSnapshot) => active.members = members

Converged == IF groupActive THEN active # NoSnapshot /\ active.members = members ELSE active = NoSnapshot

\* Whatever the outbox missed, the periodic full rebuild brings the snapshot of an
\* active group up to date and takes that of another away, for good once changes stop.
SnapshotConverges == <>[]Converged

=============================================================================
