----------------------- MODULE SchedulerSnapshotProofs -----------------------
(***************************************************************************)
(* Proofs about SchedulerBucket and SchedulerSnapshot, for any number of   *)
(* instances, rebuilds, lookups, changes and faults.                       *)
(***************************************************************************)
EXTENDS SchedulerSnapshot, TLAPS

-----------------------------------------------------------------------------
(* The inductive invariant                                                   *)

Publishing == {"allocate", "activate"}
Carrying == {"lock", "load"} \cup Publishing

\* A token of the present epoch was taken after the last retirement, and so was what was
\* loaded under it.  (While the bucket is retired nobody has such a token.)
FenceInv ==
  /\ \A w \in Writers :
       /\ task[w].token <= epoch
       /\ retired => task[w].token < epoch
       /\ task[w].pc \in Carrying => task[w].token > 0
       /\ task[w].pc \in Publishing /\ task[w].token = epoch => task[w].data.era = retirements
  /\ NoSnapshotFromBeforeRetirement

\* The ids of rows are taken once, and a row that still has its dedup key was read by no
\* poll.
RowInv ==
  /\ \A r \in outbox : r.id < nextId
  /\ \A r, s \in outbox : r.id = s.id => r = s
  /\ \A id \in unhandled : id < nextId
  /\ \A i \in Pollers : /\ \A id \in poll[i].ids : id < nextId
                        /\ task[i].pc \in {"idle", "list"} => poll[i].ids = {}
  /\ \A r \in outbox : r.keyed => r.id \in unhandled /\ \A i \in Pollers : r.id \notin poll[i].ids

\* The id of an open transaction's row is nobody else's.
OpenInv ==
  \A c \in Changes : change[c].row # 0 =>
    /\ change[c].row < nextId
    /\ change[c].row \notin unhandled
    /\ \A r \in outbox : r.id # change[c].row
    /\ \A i \in Pollers : change[c].row \notin poll[i].ids
    /\ \A d \in Changes : d # c => change[d].row # change[c].row

\* Nobody has loaded changes that were not made; while there is no snapshot, the version
\* of a writer that is not fenced is not too old.
LoadInv ==
  /\ active # NoSnapshot => active.members <= members
  /\ \A w \in Writers :
       /\ task[w].pc \in Publishing => task[w].data.members <= members
       /\ task[w].pc = "activate" /\ ~Fenced(task[w].token) /\ active = NoSnapshot => HoldsVersion(w)

\* The snapshot has every change; while there is none, whatever may be published first has.
Settled ==
  IF active = NoSnapshot
  THEN \A w \in Writers :
         task[w].pc \in Publishing /\ ~Fenced(task[w].token) => task[w].data.members = members
  ELSE active.members = members

\* The poll will load the accounts yet, or has loaded every change, or gives up.
WillCover(i) ==
  \/ /\ task[i].pc \in {"handle", "life", "decide"}
     /\ ~poll[i].seen /\ \E r \in poll[i].batch : Chosen(r.kind)
  \/ task[i].pc \in {"lock", "load"} /\ ~Fenced(task[i].token)
  \/ task[i].pc \in Publishing /\ ~Fenced(task[i].token) /\ task[i].data.members = members
  \/ task[i].pc = "unlock" /\ task[i].err

\* An event that announces the last change: whatever poll has read it covers that change.
Announces(id) ==
  /\ \A r \in outbox : r.id = id => Chosen(r.kind)
  /\ \A i \in Pollers : id \in poll[i].ids => WillCover(i)

Announced ==
  \/ \E c \in Changes : change[c].stage = "written" /\ Chosen(change[c].kind)
  \/ \E id \in unhandled : Announces(id)

\* Either the snapshot has the last change or an event announces it.
FreshInv == ~gap => Settled \/ Announced

IInv == TypeOK /\ FenceInv /\ RowInv /\ OpenInv /\ LoadInv /\ FreshInv

-----------------------------------------------------------------------------
(* What the steps do to the task and the poll of one writer                  *)

\* A task that is given another record.
LEMMA TaskSet ==
  ASSUME task \in [Writers -> Tasks], NEW w \in Writers, NEW t \in Tasks,
         task' = [task EXCEPT ![w] = t]
  PROVE  /\ task' \in [Writers -> Tasks] /\ task'[w] = t
         /\ \A v \in Writers : v # w => task'[v] = task[v]
  OBVIOUS

\* The record of a writer that does nothing.
LEMMA IdleTask == Idle \in Tasks /\ Idle.pc = "idle" /\ Idle.token = 0
BY DEF Idle, NoData, Tasks, Data, Steps

\* Begin
LEMMA Begins ==
  ASSUME task \in [Writers -> Tasks], NEW w \in Writers, NEW pc \in Steps, NEW token \in Nat,
         NEW strict \in BOOLEAN, Begin(w, pc, token, strict)
  PROVE  /\ task' \in [Writers -> Tasks] /\ task'[w].pc = pc /\ task'[w].token = token
         /\ \A v \in Writers : v # w => task'[v] = task[v]
<1> DEFINE t == [Idle EXCEPT !.pc = pc, !.token = token, !.strict = strict]
<1>1. t \in Tasks /\ t.pc = pc /\ t.token = token
  BY DEF Idle, NoData, Tasks, Data
<1>2. task' = [task EXCEPT ![w] = t]
  BY DEF Begin
<1> HIDE DEF t
<1>. QED BY <1>1, <1>2

\* Goto
LEMMA Moves ==
  ASSUME task \in [Writers -> Tasks], NEW w \in Writers, NEW pc \in Steps, Goto(w, pc)
  PROVE  /\ task' \in [Writers -> Tasks]
         /\ task'[w].pc = pc /\ task'[w].token = task[w].token /\ task'[w].data = task[w].data
         /\ task'[w].err = task[w].err
         /\ \A v \in Writers : v # w => task'[v] = task[v]
BY DEF Goto, Tasks

\* A poll that is over has read nothing.
LEMMA EmptyPoll == NoPoll \in Polls /\ NoPoll.ids = {} /\ ~NoPoll.seen
BY DEF NoPoll, Polls

\* Succeed
LEMMA Succeeds ==
  ASSUME task \in [Writers -> Tasks], poll \in [Pollers -> Polls], NEW w \in Writers,
         NEW lifecycle \in BOOLEAN, Succeed(w, lifecycle)
  PROVE  /\ task' \in [Writers -> Tasks] /\ poll' \in [Pollers -> Polls]
         /\ task'[w].pc = (IF w \in Pollers THEN "handle" ELSE "idle") /\ task'[w].token = 0
         /\ \A v \in Writers : v # w => task'[v] = task[v]
         /\ \A i \in Pollers : /\ poll'[i].ids = poll[i].ids /\ poll'[i].batch = poll[i].batch
                               /\ i # w => poll'[i] = poll[i]
<1> DEFINE pc == IF w \in Pollers THEN "handle" ELSE "idle"
<1>1. pc \in Steps /\ Begin(w, pc, 0, FALSE)
  BY DEF Steps, Succeed
<1>2. /\ task' \in [Writers -> Tasks] /\ task'[w].pc = pc /\ task'[w].token = 0
      /\ \A v \in Writers : v # w => task'[v] = task[v]
  BY <1>1, Begins
<1>3. /\ poll' \in [Pollers -> Polls]
      /\ \A i \in Pollers : /\ poll'[i].ids = poll[i].ids /\ poll'[i].batch = poll[i].batch
                            /\ i # w => poll'[i] = poll[i]
  BY DEF Succeed, Polls
<1>. QED BY <1>2, <1>3

\* GiveUp
LEMMA GivesUp ==
  ASSUME task \in [Writers -> Tasks], poll \in [Pollers -> Polls], NEW w \in Writers, GiveUp(w)
  PROVE  /\ task' \in [Writers -> Tasks] /\ poll' \in [Pollers -> Polls]
         /\ task'[w].pc = "idle" /\ task'[w].token = 0
         /\ \A v \in Writers : v # w => task'[v] = task[v]
         /\ \A i \in Pollers : IF i = w THEN poll'[i].ids = {} ELSE poll'[i] = poll[i]
<1>1. /\ task' \in [Writers -> Tasks] /\ task'[w].pc = "idle" /\ task'[w].token = 0
      /\ \A v \in Writers : v # w => task'[v] = task[v]
  BY IdleTask, TaskSet DEF GiveUp
<1>2. /\ poll' \in [Pollers -> Polls]
      /\ \A i \in Pollers : IF i = w THEN poll'[i].ids = {} ELSE poll'[i] = poll[i]
  BY EmptyPoll DEF GiveUp
<1>. QED BY <1>1, <1>2

\* EndPublish
LEMMA EndsPublish ==
  ASSUME task \in [Writers -> Tasks], NEW w \in Writers, NEW err \in BOOLEAN, EndPublish(w, err)
  PROVE  /\ task' \in [Writers -> Tasks]
         /\ task'[w].pc = (IF w \in Readers THEN "idle" ELSE "unlock") /\ task'[w].token = 0
         /\ w \in Pollers => task'[w].err = err
         /\ \A v \in Writers : v # w => task'[v] = task[v]
<1>1. CASE w \in Readers
  BY <1>1, IdleTask, TaskSet, PollersAssumption DEF EndPublish
<1>2. CASE w \notin Readers
  <2> DEFINE t == [Idle EXCEPT !.pc = "unlock", !.strict = task[w].strict, !.err = err]
  <2>1. t \in Tasks /\ t.pc = "unlock" /\ t.token = 0 /\ t.err = err
    BY DEF Idle, NoData, Tasks, Data, Steps, Rebuilding
  <2>2. task' = [task EXCEPT ![w] = t]
    BY <1>2 DEF EndPublish
  <2> HIDE DEF t
  <2>. QED BY <1>2, <2>1, <2>2
<1>. QED BY <1>1, <1>2

-----------------------------------------------------------------------------
(* Types                                                                     *)

\* Entries and rows are well formed.
LEMMA Records ==
  ASSUME NEW kind \in EventKinds, NEW id \in Nat, NEW on \in Nat
  PROVE  /\ Ended \in Entries /\ Ended.row = 0 /\ Ended.stage = "done"
         /\ NoChange \in Entries /\ NoChange.row = 0
         /\ [stage |-> "open", kind |-> kind, row |-> id, on |-> on] \in Entries
         /\ [stage |-> "written", kind |-> kind, row |-> 0, on |-> 0] \in Entries
         /\ Row(id, kind) \in Rows
BY DEF Entries, Rows, Row, Ended, NoChange, EventKinds, Keyed

\* Apply
LEMMA Applies ==
  ASSUME groupActive \in BOOLEAN, members \in Nat, NEW kind, Apply(kind)
  PROVE  groupActive' \in BOOLEAN /\ members' \in Nat
<1>1. groupActive' \in BOOLEAN
  BY Zenon DEF Apply
<1>2. members' \in Nat
  BY DEF Apply
<1>. QED BY <1>1, <1>2

\* Nothing was published, nobody works.
LEMMA InitIInv == Init => IInv
<1> SUFFICES ASSUME Init PROVE IInv
  OBVIOUS
<1>1. Idle \in Tasks /\ Idle.pc = "idle" /\ Idle.token = 0
  BY IdleTask
<1>2. NoChange \in Entries /\ NoChange.row = 0
  BY Records DEF EventKinds
<1>3. TypeOK
  <2>1. task \in [Writers -> Tasks] /\ poll \in [Pollers -> Polls] /\ change \in [Changes -> Entries]
    BY <1>1, <1>2, EmptyPoll DEF Init
  <2>2. /\ epoch \in Nat /\ retired \in BOOLEAN /\ retirements \in Nat /\ active = NoSnapshot
        /\ allocated = {} /\ lock = NoOne /\ lease = NoOne
    BY DEF Init, Unused
  <2>3. /\ groupActive \in BOOLEAN /\ members \in Nat /\ outbox = {} /\ nextId \in Nat \ {0}
        /\ mixed \in BOOLEAN /\ watermark \in Nat /\ unhandled = {} /\ gap = FALSE /\ faults \in 0..MaxFaults
    BY BoundsAssumption DEF Init
  <2>. QED BY <2>1, <2>2, <2>3 DEF TypeOK
<1>4. FenceInv /\ LoadInv
  BY <1>1
     DEF Init, Unused, FenceInv, LoadInv, NoSnapshotFromBeforeRetirement, Carrying, Publishing
<1>5. RowInv /\ OpenInv
  BY <1>2, EmptyPoll DEF Init, RowInv, OpenInv
<1>6. FreshInv
  BY <1>1 DEF Init, Unused, FreshInv, Settled, Publishing
<1>. QED BY <1>3, <1>4, <1>5, <1>6 DEF IInv

\* Every step keeps the types.
LEMMA NextType == TypeOK /\ [Next]_vars => TypeOK'
<1> SUFFICES ASSUME TypeOK, [Next]_vars PROVE TypeOK'
  OBVIOUS
<1> USE WritersAssumption, KindsAssumption, BoundsAssumption DEF TypeOK
<1>1. ASSUME NEW c \in Changes, NEW kind \in Kinds, TxEnqueue(c, kind) PROVE TypeOK'
  <2>1. kind \in EventKinds /\ \A r \in outbox : r.id \in Nat
    BY DEF EventKinds, Rows
  <2>2. change' \in [Changes -> Entries] /\ nextId' \in Nat \ {0}
    <3>1. CASE Conflict(kind) = {}
      <4>1. nextId' = nextId + 1
        BY <1>1, <3>1 DEF TxEnqueue
      <4>2. [stage |-> "open", kind |-> kind, row |-> nextId, on |-> 0] \in Entries
        BY <2>1, Records
      <4>3. change' \in [Changes -> Entries]
        BY <1>1, <3>1, <4>2 DEF TxEnqueue
      <4>. QED BY <4>1, <4>3
    <3>2. CASE Conflict(kind) # {}
      <4>1. PICK r \in Conflict(kind) :
              change' = [change EXCEPT ![c] = [stage |-> "open", kind |-> kind, row |-> 0, on |-> r.id]]
        BY <1>1, <3>2 DEF TxEnqueue
      <4>2. r.id \in Nat
        BY <2>1 DEF Conflict
      <4>. QED BY <1>1, <2>1, <3>2, <4>1, <4>2, Records DEF TxEnqueue
    <3>. QED BY <3>1, <3>2
  <2>. QED BY <1>1, <2>2
              DEF TxEnqueue, bucketVars, fenceVars, snapshotVars, dbVars, outboxVars, rowVars,
                  historyVars
<1>2. ASSUME NEW c \in Changes, TxCommit(c) PROVE TypeOK'
  <2>1. change[c].kind \in EventKinds /\ change[c].row \in Nat
    BY DEF Entries
  <2>2. change' \in [Changes -> Entries] /\ outbox' \subseteq Rows /\ unhandled' \subseteq Nat
    BY <1>2, <2>1, Records DEF TxCommit
  <2>3. groupActive' \in BOOLEAN /\ members' \in Nat
    BY <1>2, Applies DEF TxCommit
  <2>4. gap' \in BOOLEAN /\ mixed' \in BOOLEAN
    BY <1>2, Zenon DEF TxCommit
  <2>. QED BY <1>2, <2>2, <2>3, <2>4
              DEF TxCommit, bucketVars, fenceVars, snapshotVars, dbVars, outboxVars, rowVars,
                  historyVars
<1>3. ASSUME NEW c \in Changes, TxRollback(c) PROVE TypeOK'
  BY <1>3, Records
     DEF TxRollback, EventKinds, bucketVars, fenceVars, snapshotVars, dbVars, outboxVars, rowVars,
         historyVars
<1>4. ASSUME NEW c \in Changes, NEW kind \in Kinds, ChangeFirst(c, kind) PROVE TypeOK'
  <2>1. change' \in [Changes -> Entries]
    BY <1>4, Records DEF ChangeFirst, EventKinds
  <2>2. groupActive' \in BOOLEAN /\ members' \in Nat
    BY <1>4, Applies DEF ChangeFirst
  <2>. QED BY <1>4, <2>1, <2>2
              DEF ChangeFirst, bucketVars, fenceVars, snapshotVars, dbVars, outboxVars, rowVars,
                  historyVars
<1>5. ASSUME NEW c \in Changes, EnqueueAfter(c) PROVE TypeOK'
  <2>1. change[c].kind \in EventKinds
    BY DEF Entries
  <2>2. change' \in [Changes -> Entries]
    BY <1>5, <2>1, Records DEF EnqueueAfter
  <2>3. outbox' \subseteq Rows /\ unhandled' \subseteq Nat /\ nextId' \in Nat \ {0}
    <3>1. Row(nextId, change[c].kind) \in Rows
      BY <2>1, Records
    <3>2. nextId' \in {nextId, nextId + 1}
      BY <1>5 DEF EnqueueAfter, rowVars
    <3>3. outbox' \subseteq outbox \cup {Row(nextId, change[c].kind)}
      BY <1>5 DEF EnqueueAfter, rowVars
    <3>4. unhandled' \subseteq unhandled \cup {nextId}
      BY <1>5 DEF EnqueueAfter, rowVars
    <3>. QED BY <3>1, <3>2, <3>3, <3>4
  <2>. QED BY <1>5, <2>2, <2>3
              DEF EnqueueAfter, bucketVars, fenceVars, snapshotVars, dbVars, outboxVars, rowVars,
                  historyVars
<1>6. ASSUME NEW c \in Changes, EnqueueLost(c) PROVE TypeOK'
  <2>1. change' \in [Changes -> Entries]
    BY <1>6, Records DEF EnqueueLost, EventKinds
  <2>2. faults' \in 0..MaxFaults /\ gap' \in BOOLEAN
    BY <1>6 DEF EnqueueLost
  <2>. QED BY <1>6, <2>1, <2>2
              DEF EnqueueLost, bucketVars, fenceVars, snapshotVars, dbVars, outboxVars, rowVars,
                  historyVars
<1>7. ASSUME NEW w \in Writers, TryLockBucket(w) PROVE TypeOK'
  <2>1. task' \in [Writers -> Tasks] /\ poll' \in [Pollers -> Polls]
    BY <1>7, Moves, Succeeds, GivesUp DEF TryLockBucket, Steps, Rebuilding
  <2>2. lock' \in Writers \cup {NoOne} /\ gap' \in BOOLEAN
    BY <1>7, Zenon DEF TryLockBucket
  <2>. QED BY <1>7, <2>1, <2>2
              DEF TryLockBucket, bucketVars, fenceVars, snapshotVars, dbVars, outboxVars, rowVars,
                  historyVars
<1>8. ASSUME NEW w \in Writers, LoadAccounts(w) PROVE TypeOK'
  <2>1. task' \in [Writers -> Tasks]
    <3>1. "allocate" \in Steps /\ [members |-> members, era |-> retirements] \in Data
      BY DEF Steps, Rebuilding, Data
    <3>. QED BY <1>8, <3>1 DEF LoadAccounts, Tasks
  <2>. QED BY <1>8, <2>1
              DEF LoadAccounts, bucketVars, fenceVars, snapshotVars, dbVars, outboxVars, rowVars,
                  historyVars
<1>9. ASSUME NEW w \in Writers, AllocateVersion(w) PROVE TypeOK'
  <2>1. task[w].strict \in BOOLEAN
    BY DEF Tasks
  <2>2. task' \in [Writers -> Tasks]
    BY <1>9, <2>1, Moves, EndsPublish DEF AllocateVersion, Steps, Rebuilding
  <2>3. allocated' \subseteq Writers \X Writers
    BY <1>9 DEF AllocateVersion, AllocateSnapshotVersion
  <2>. QED BY <1>9, <2>2, <2>3
              DEF AllocateVersion, bucketVars, fenceVars, snapshotVars, dbVars, outboxVars,
                  rowVars, historyVars
<1>10. ASSUME NEW w \in Writers, ActivateVersion(w) PROVE TypeOK'
  <2>1. task[w].strict \in BOOLEAN /\ task[w].data \in Data
    BY DEF Tasks
  <2>2. task' \in [Writers -> Tasks]
    BY <1>10, <2>1, EndsPublish DEF ActivateVersion
  <2>3. allocated' \subseteq Writers \X Writers /\ active' \in Data \cup {NoSnapshot}
    BY <1>10, <2>1
       DEF ActivateVersion, ActivateSnapshot, AbandonVersion, KeepVersions, snapshotVars
  <2>4. gap' \in BOOLEAN
    BY <1>10, Zenon DEF ActivateVersion
  <2>. QED BY <1>10, <2>2, <2>3, <2>4
              DEF ActivateVersion, bucketVars, fenceVars, snapshotVars, dbVars, outboxVars,
                  rowVars, historyVars
<1>11. ASSUME NEW w \in Writers, FinishRebuild(w) PROVE TypeOK'
  <2>0. task[w].strict \in BOOLEAN
    BY DEF Tasks
  <2>1. task' \in [Writers -> Tasks] /\ poll' \in [Pollers -> Polls]
    BY <1>11, <2>0, Succeeds, GivesUp DEF FinishRebuild
  <2>. QED BY <1>11, <2>1
              DEF FinishRebuild, UnlockBucket, bucketVars, fenceVars, snapshotVars, dbVars,
                  outboxVars, rowVars, historyVars
<1>12. ASSUME NEW w \in Writers, AcquireLifecycleLease(w) PROVE TypeOK'
  <2>1. task' \in [Writers -> Tasks] /\ poll' \in [Pollers -> Polls]
    <3>1. CASE lease = NoOne
      BY <1>12, <3>1 DEF AcquireLifecycleLease, Tasks, Steps
    <3>2. CASE lease # NoOne
      BY <1>12, <3>2, GivesUp DEF AcquireLifecycleLease
    <3>. QED BY <3>1, <3>2
  <2>2. lease' \in Writers \cup {NoOne}
    BY <1>12 DEF AcquireLifecycleLease
  <2>. QED BY <1>12, <2>1, <2>2
              DEF AcquireLifecycleLease, bucketVars, fenceVars, snapshotVars, dbVars, outboxVars,
                  rowVars, historyVars
<1>13. ASSUME NEW w \in Writers, DecideLifecycle(w) PROVE TypeOK'
  <2>1. NextToken \in Nat
    BY DEF NextToken
  <2>2. task' \in [Writers -> Tasks] /\ poll' \in [Pollers -> Polls]
    BY <1>13, <2>1, Begins, Succeeds DEF DecideLifecycle, Steps
  <2>3. epoch' \in Nat /\ retirements' \in Nat
    <3>1. CASE ReopenBucket
      BY <2>1, <3>1 DEF ReopenBucket
    <3>2. CASE RetireBucket
      BY <3>2 DEF RetireBucket
    <3>. QED BY <1>13, <3>1, <3>2 DEF DecideLifecycle
  <2>4. retired' \in BOOLEAN
    BY <1>13 DEF DecideLifecycle, ReopenBucket, RetireBucket
  <2>5. active' \in {active, NoSnapshot} /\ allocated' = allocated
    BY <1>13 DEF DecideLifecycle, ReopenBucket, RetireBucket
  <2>. QED BY <1>13, <2>2, <2>3, <2>4, <2>5
              DEF DecideLifecycle, bucketVars, fenceVars, snapshotVars, dbVars, outboxVars,
                  rowVars, historyVars
<1>14. ASSUME NEW w \in Writers, StartFullRebuild(w) PROVE TypeOK'
  <2>1. task' \in [Writers -> Tasks]
    BY <1>14, Moves DEF StartFullRebuild, Steps
  <2>. QED BY <1>14, <2>1
              DEF StartFullRebuild, bucketVars, fenceVars, snapshotVars, dbVars, outboxVars,
                  rowVars, historyVars
<1>15. ASSUME NEW w \in Writers, CaptureCanonicalTask(w) PROVE TypeOK'
  <2>1. NextToken \in Nat
    BY DEF NextToken
  <2>2. task' \in [Writers -> Tasks]
    BY <1>15, <2>1, Begins, Moves DEF CaptureCanonicalTask, Steps
  <2>. QED BY <1>15, <2>1, <2>2
              DEF CaptureCanonicalTask, CaptureBucketWriteToken, bucketVars, fenceVars,
                  snapshotVars, dbVars, outboxVars, rowVars, historyVars
<1>16. ASSUME NEW w \in Writers, MissSnapshot(w) PROVE TypeOK'
  <2>1. NextToken \in Nat
    BY DEF NextToken
  <2>2. task' \in [Writers -> Tasks]
    BY <1>16, <2>1, Begins DEF MissSnapshot, Steps, Rebuilding
  <2>. QED BY <1>16, <2>1, <2>2
              DEF MissSnapshot, CaptureBucketWriteToken, bucketVars, fenceVars, snapshotVars,
                  dbVars, outboxVars, rowVars, historyVars
<1>17. ASSUME NEW w \in Writers, CallFails(w) PROVE TypeOK'
  <2>1. task' \in [Writers -> Tasks] /\ poll' \in [Pollers -> Polls]
    BY <1>17, EndsPublish, GivesUp DEF CallFails
  <2>2. allocated' \subseteq Writers \X Writers
    BY <1>17 DEF CallFails, AbandonVersion, KeepVersions
  <2>3. faults' \in 0..MaxFaults
    BY <1>17 DEF CallFails
  <2>4. lease' \in {lease, NoOne}
    BY <1>17 DEF CallFails
  <2>. QED BY <1>17, <2>1, <2>2, <2>3, <2>4
              DEF CallFails, bucketVars, fenceVars, snapshotVars, dbVars, outboxVars, rowVars,
                  historyVars
<1>18. ASSUME NEW w \in Writers, Crash(w) PROVE TypeOK'
  <2>1. task' \in [Writers -> Tasks] /\ poll' \in [Pollers -> Polls]
    BY <1>18, GivesUp DEF Crash
  <2>2. allocated' \subseteq Writers \X Writers /\ faults' \in 0..MaxFaults
    BY <1>18 DEF Crash, AbandonVersion, KeepVersions
  <2>. QED BY <1>18, <2>1, <2>2
              DEF Crash, bucketVars, fenceVars, snapshotVars, dbVars, outboxVars, rowVars,
                  historyVars
<1>19. ASSUME NEW i \in Pollers, ReadWatermark(i) PROVE TypeOK'
  <2>1. task' \in [Writers -> Tasks]
    BY <1>19, Moves DEF ReadWatermark, Steps
  <2>2. poll' \in [Pollers -> Polls]
    BY <1>19 DEF ReadWatermark, Polls
  <2>. QED BY <1>19, <2>1, <2>2
              DEF ReadWatermark, bucketVars, fenceVars, snapshotVars, dbVars, outboxVars, rowVars,
                  historyVars
<1>20. ASSUME NEW i \in Pollers, ListAfterAndReleaseDedup(i) PROVE TypeOK'
  <2>1. CASE Batch(poll[i].wm) = {}
    <3>1. task' \in [Writers -> Tasks] /\ poll' \in [Pollers -> Polls]
      BY <1>20, <2>1, GivesUp DEF ListAfterAndReleaseDedup
    <3>. QED BY <1>20, <2>1, <3>1
                DEF ListAfterAndReleaseDedup, bucketVars, fenceVars, snapshotVars, dbVars,
                    outboxVars, rowVars, historyVars
  <2>2. CASE Batch(poll[i].wm) # {}
    <3>1. task' \in [Writers -> Tasks]
      BY <1>20, <2>2, Moves DEF ListAfterAndReleaseDedup, TakeBatch, Steps
    <3>2. Batch(poll[i].wm) \subseteq Rows /\ Ids(Batch(poll[i].wm)) \subseteq Nat
      BY DEF Batch, Ids, Rows
    <3>3. poll' \in [Pollers -> Polls]
      <4>1. PICK last \in Batch(poll[i].wm) :
              poll' = [poll EXCEPT ![i] = [NoPoll EXCEPT !.batch = Batch(poll[i].wm),
                                             !.last = last.id, !.ids = Ids(Batch(poll[i].wm))]]
        BY <1>20, <2>2 DEF ListAfterAndReleaseDedup, TakeBatch
      <4>2. last.id \in Nat
        BY <3>2 DEF Rows
      <4>. QED BY <3>2, <4>1, <4>2 DEF NoPoll, Polls
    <3>4. outbox' \subseteq Rows
      <4>1. ASSUME NEW r \in outbox
            PROVE  [r EXCEPT !.keyed = r.keyed /\ r.id \notin Ids(Batch(poll[i].wm))] \in Rows
        BY DEF Rows
      <4>. QED BY <1>20, <2>2, <4>1 DEF ListAfterAndReleaseDedup
    <3>. QED BY <1>20, <3>1, <3>3, <3>4
                DEF ListAfterAndReleaseDedup, bucketVars, fenceVars, snapshotVars, dbVars,
                    outboxVars, rowVars, historyVars
  <2>. QED BY <2>1, <2>2
<1>21. ASSUME NEW i \in Pollers, HandleAccountEvent(i) PROVE TypeOK'
  <2>1. NextToken \in Nat
    BY DEF NextToken
  <2>2. task' \in [Writers -> Tasks]
    BY <1>21, <2>1, Begins DEF HandleAccountEvent, Steps
  <2>3. poll' \in [Pollers -> Polls]
    <3>1. PICK r : poll' = [poll EXCEPT ![i].batch = @ \ {r}, ![i].seen = @ \/ Chosen(r.kind)]
      BY <1>21 DEF HandleAccountEvent
    <3>2. poll[i] \in Polls
      OBVIOUS
    <3>3. PICK b, seen : b = poll[i].batch \ {r} /\ seen = (poll[i].seen \/ Chosen(r.kind))
      OBVIOUS
    <3>4. b \in SUBSET Rows
      BY <3>2, <3>3 DEF Polls
    <3>5. seen \in BOOLEAN
      BY <3>3
    <3>6. [poll[i] EXCEPT !.batch = b, !.seen = seen] \in Polls
      BY <3>2, <3>4, <3>5 DEF Polls
    <3>7. poll' = [poll EXCEPT ![i] = [poll[i] EXCEPT !.batch = b, !.seen = seen]]
      BY <3>1, <3>3
    <3>. QED BY <3>6, <3>7
  <2>4. epoch' \in Nat /\ retired' \in BOOLEAN /\ retirements' \in Nat
    BY <1>21, <2>1 DEF HandleAccountEvent, CaptureBucketWriteToken, fenceVars
  <2>. QED BY <1>21, <2>2, <2>3, <2>4
              DEF HandleAccountEvent, bucketVars, fenceVars, snapshotVars, dbVars, outboxVars,
                  rowVars, historyVars
<1>22. ASSUME NEW i \in Pollers, HandleGroupEvent(i) PROVE TypeOK'
  <2>1. task' \in [Writers -> Tasks]
    BY <1>22, Moves DEF HandleGroupEvent, Steps
  <2>2. poll' \in [Pollers -> Polls]
    BY <1>22 DEF HandleGroupEvent, Polls
  <2>. QED BY <1>22, <2>1, <2>2
              DEF HandleGroupEvent, bucketVars, fenceVars, snapshotVars, dbVars, outboxVars,
                  rowVars, historyVars
<1>23. ASSUME NEW i \in Pollers, SetOutboxWatermark(i) PROVE TypeOK'
  <2>1. task' \in [Writers -> Tasks]
    BY <1>23, Moves DEF SetOutboxWatermark, Steps
  <2>2. watermark' \in Nat /\ unhandled' \subseteq Nat
    BY <1>23 DEF SetOutboxWatermark, Polls
  <2>. QED BY <1>23, <2>1, <2>2
              DEF SetOutboxWatermark, bucketVars, fenceVars, snapshotVars, dbVars, outboxVars,
                  rowVars, historyVars
<1>24. ASSUME NEW i \in Pollers, CleanupConsumedOutbox(i) PROVE TypeOK'
  <2>1. task' \in [Writers -> Tasks] /\ poll' \in [Pollers -> Polls]
    BY <1>24, GivesUp DEF CleanupConsumedOutbox
  <2>. QED BY <1>24, <2>1
              DEF CleanupConsumedOutbox, bucketVars, fenceVars, snapshotVars, dbVars, outboxVars,
                  rowVars, historyVars
<1>25. CASE ExpireLock
  BY <1>25 DEF ExpireLock, bucketVars, fenceVars, snapshotVars, dbVars, outboxVars,
     rowVars, historyVars
<1>26. CASE ExpireLease
  BY <1>26 DEF ExpireLease, At, bucketVars, fenceVars, snapshotVars, dbVars, outboxVars,
     rowVars, historyVars
<1>27. CASE UNCHANGED vars
  BY <1>27 DEF vars, bucketVars, fenceVars, snapshotVars, dbVars, outboxVars, rowVars,
     historyVars
<1>. QED BY <1>1, <1>2, <1>3, <1>4, <1>5, <1>6, <1>7, <1>8, <1>9, <1>10, <1>11, <1>12,
   <1>13, <1>14, <1>15, <1>16, <1>17, <1>18, <1>19, <1>20, <1>21, <1>22, <1>23, <1>24,
   <1>25, <1>26, <1>27 DEF Next, ChangeStep, WriterStep, PollStep

-----------------------------------------------------------------------------
(* What a step may do to tasks, tokens and versions                          *)

\* A task goes on with the token and what was loaded, or drops the token.
TaskKept(v) ==
  \/ task'[v] = task[v]
  \/ task'[v].pc \notin Carrying /\ task'[v].token \in {0, task[v].token}
  \/ /\ task[v].pc \in Carrying /\ task'[v].token = task[v].token
     /\ task'[v].pc \in Publishing => task[v].pc \in Publishing /\ task'[v].data = task[v].data

\* A version is newer than the active one from its allocation to the next activation.
VersionKept(v) ==
  \/ task'[v].pc # "activate" \/ HoldsVersion(v)'
  \/ task[v].pc = "activate" /\ task'[v].token = task[v].token /\ ~HoldsVersion(v)

Kept(v) == TaskKept(v) /\ VersionKept(v)

\* A step that loads, publishes and fences nothing.
Quiet ==
  /\ epoch' = epoch /\ retired' = retired /\ retirements' = retirements /\ active' = active
  /\ members' >= members
  /\ \A v \in Writers : Kept(v)

\* A step that takes a token.
Captures(w) ==
  /\ ~retired /\ retired' = retired /\ epoch' = NextToken /\ retirements' = retirements
  /\ active' = active /\ members' = members
  /\ task'[w].pc \in {"lock", "load"} /\ task'[w].token = NextToken
  /\ \A v \in Writers : v # w => Kept(v)

\* A writer whose task stays as it is, with the versions.
LEMMA SameKept ==
  ASSUME NEW v, task'[v] = task[v], HoldsVersion(v) => HoldsVersion(v)'
  PROVE  Kept(v)
BY DEF Kept, TaskKept, VersionKept

\* A writer that abandons its version leaves the others theirs.
LEMMA Abandons ==
  ASSUME NEW w \in Writers, NEW v \in Writers, v # w, AbandonVersion(w)
  PROVE  HoldsVersion(v) => HoldsVersion(v)'
BY DEF AbandonVersion, KeepVersions, HoldsVersion

\* Most steps are quiet.
LEMMA Classify ==
  ASSUME TypeOK, [Next]_vars
  PROVE  \/ Quiet
         \/ \E w \in Writers : LoadAccounts(w) \/ ActivateVersion(w) \/ DecideLifecycle(w) \/ Captures(w)
<1> DEFINE Goal == \/ Quiet
                   \/ \E w \in Writers : LoadAccounts(w) \/ ActivateVersion(w) \/ DecideLifecycle(w) \/ Captures(w)
<1> SUFFICES Goal
  OBVIOUS
<1> USE WritersAssumption DEF TypeOK
<1>0. ASSUME UNCHANGED <<epoch, retired, retirements, active, allocated, members>>,
             NEW w \in Writers, \A v \in Writers : v # w => task'[v] = task[v],
             TaskKept(w), VersionKept(w)
      PROVE  Quiet
  BY <1>0 DEF Quiet, Kept, TaskKept, VersionKept, HoldsVersion
<1>1. ASSUME NEW c \in Changes, NEW kind \in Kinds, TxEnqueue(c, kind) PROVE Goal
  BY <1>1
     DEF TxEnqueue, Quiet, Kept, TaskKept, VersionKept, HoldsVersion, bucketVars, fenceVars,
         snapshotVars, dbVars, outboxVars, rowVars, historyVars
<1>2. ASSUME NEW c \in Changes, TxCommit(c) PROVE Goal
  BY <1>2
     DEF TxCommit, Apply, Quiet, Kept, TaskKept, VersionKept, HoldsVersion, bucketVars, fenceVars,
         snapshotVars, dbVars, outboxVars, rowVars, historyVars
<1>3. ASSUME NEW c \in Changes, TxRollback(c) PROVE Goal
  BY <1>3
     DEF TxRollback, Quiet, Kept, TaskKept, VersionKept, HoldsVersion, bucketVars, fenceVars,
         snapshotVars, dbVars, outboxVars, rowVars, historyVars
<1>4. ASSUME NEW c \in Changes, NEW kind \in Kinds, ChangeFirst(c, kind) PROVE Goal
  BY <1>4
     DEF ChangeFirst, Apply, Quiet, Kept, TaskKept, VersionKept, HoldsVersion, bucketVars,
         fenceVars, snapshotVars, dbVars, outboxVars, rowVars, historyVars
<1>5. ASSUME NEW c \in Changes, EnqueueAfter(c) PROVE Goal
  BY <1>5
     DEF EnqueueAfter, Quiet, Kept, TaskKept, VersionKept, HoldsVersion, bucketVars, fenceVars,
         snapshotVars, dbVars, outboxVars, rowVars, historyVars
<1>6. ASSUME NEW c \in Changes, EnqueueLost(c) PROVE Goal
  BY <1>6
     DEF EnqueueLost, Quiet, Kept, TaskKept, VersionKept, HoldsVersion, bucketVars, fenceVars,
         snapshotVars, dbVars, outboxVars, rowVars, historyVars
<1>7. ASSUME NEW w \in Writers, TryLockBucket(w) PROVE Goal
  <2>0. task[w].pc = "lock"
    BY <1>7 DEF TryLockBucket, At
  <2>1. /\ \A v \in Writers : v # w => task'[v] = task[v]
        /\ \/ task'[w].pc = "load" /\ task'[w].token = task[w].token
           \/ task'[w].pc \in {"idle", "handle"} /\ task'[w].token = 0
    <3>1. CASE lock = NoOne
      BY <1>7, <3>1, Moves DEF TryLockBucket, Steps, Rebuilding
    <3>2. CASE lock # NoOne /\ task[w].strict
      BY <1>7, <3>2, GivesUp DEF TryLockBucket
    <3>3. CASE lock # NoOne /\ ~task[w].strict
      BY <1>7, <3>3, Succeeds DEF TryLockBucket
    <3>. QED BY <3>1, <3>2, <3>3
  <2>2. TaskKept(w) /\ task'[w].pc # "activate"
    BY <2>0, <2>1 DEF TaskKept, Carrying, Publishing
  <2>. QED BY <1>7, <2>1, <2>2, <1>0
              DEF VersionKept, TryLockBucket, bucketVars, fenceVars, snapshotVars, dbVars,
                  outboxVars, rowVars, historyVars
<1>8. ASSUME NEW w \in Writers, LoadAccounts(w) PROVE Goal
  BY <1>8
<1>9. ASSUME NEW w \in Writers, AllocateVersion(w) PROVE Goal
  <2>0. task[w].strict \in BOOLEAN
    BY DEF Tasks
  <2>1. CASE Fenced(task[w].token)
    <3>1. /\ \A v \in Writers : v # w => task'[v] = task[v]
          /\ task'[w].pc \notin Carrying /\ task'[w].token = 0
      BY <1>9, <2>0, <2>1, EndsPublish DEF AllocateVersion, Carrying, Publishing
    <3>. QED BY <1>9, <2>1, <3>1, <1>0 DEF AllocateVersion, TaskKept, VersionKept, Carrying,
                Publishing, fenceVars, dbVars
  <2>2. CASE ~Fenced(task[w].token)
    <3>1. /\ \A v \in Writers : v # w => task'[v] = task[v]
          /\ task'[w].pc = "activate" /\ task'[w].token = task[w].token
          /\ task'[w].data = task[w].data
      BY <1>9, <2>2, Moves DEF AllocateVersion, Steps, Rebuilding
    <3>2. HoldsVersion(w)' /\ \A v \in Writers : HoldsVersion(v) => HoldsVersion(v)'
      BY <1>9, <2>2 DEF AllocateVersion, AllocateSnapshotVersion, HoldsVersion
    <3>3. task[w].pc = "allocate"
      BY <1>9 DEF AllocateVersion, At
    <3>4. \A v \in Writers : Kept(v)
      BY <3>1, <3>2, <3>3 DEF Kept, TaskKept, VersionKept, Carrying, Publishing
    <3>. QED BY <1>9, <3>4 DEF Quiet, AllocateVersion, fenceVars, dbVars
  <2>. QED BY <2>1, <2>2
<1>10. ASSUME NEW w \in Writers, ActivateVersion(w) PROVE Goal
  BY <1>10
<1>11. ASSUME NEW w \in Writers, FinishRebuild(w) PROVE Goal
  <2>0. task[w].strict \in BOOLEAN
    BY DEF Tasks
  <2>1. \A v \in Writers : v # w => task'[v] = task[v]
    BY <1>11, <2>0, Succeeds, GivesUp DEF FinishRebuild, Steps, Rebuilding
  <2>2. TaskKept(w) /\ task'[w].pc # "activate"
    BY <1>11, <2>0, Succeeds, GivesUp
       DEF FinishRebuild, At, Steps, Rebuilding, TaskKept, Carrying, Publishing
  <2>. QED BY <1>11, <2>1, <2>2, <1>0
              DEF VersionKept, FinishRebuild, bucketVars, fenceVars, snapshotVars, dbVars,
                  outboxVars, rowVars, historyVars
<1>12. ASSUME NEW w \in Writers, AcquireLifecycleLease(w) PROVE Goal
  <2>1. CASE lease = NoOne
    <3>1. /\ \A v \in Writers : v # w => task'[v] = task[v]
          /\ task'[w].pc = "decide" /\ task'[w].token = task[w].token
      BY <1>12, <2>1 DEF AcquireLifecycleLease, Tasks
    <3>. QED BY <1>12, <3>1, <1>0 DEF AcquireLifecycleLease, TaskKept, VersionKept, Carrying,
                Publishing, fenceVars, snapshotVars, dbVars
  <2>2. CASE lease # NoOne
    <3>1. /\ \A v \in Writers : v # w => task'[v] = task[v]
          /\ task'[w].pc = "idle" /\ task'[w].token = 0
      BY <1>12, <2>2, GivesUp DEF AcquireLifecycleLease
    <3>. QED BY <1>12, <3>1, <1>0 DEF AcquireLifecycleLease, TaskKept, VersionKept, Carrying,
                Publishing, fenceVars, snapshotVars, dbVars
  <2>. QED BY <2>1, <2>2
<1>13. ASSUME NEW w \in Writers, DecideLifecycle(w) PROVE Goal
  BY <1>13
<1>14. ASSUME NEW w \in Writers, StartFullRebuild(w) PROVE Goal
  <2>1. \A v \in Writers : v # w => task'[v] = task[v]
    BY <1>14, Moves DEF StartFullRebuild, Steps, Rebuilding
  <2>2. TaskKept(w) /\ task'[w].pc # "activate"
    BY <1>14, Moves DEF StartFullRebuild, At, Steps, Rebuilding, TaskKept, Carrying, Publishing
  <2>. QED BY <1>14, <2>1, <2>2, <1>0
              DEF VersionKept, StartFullRebuild, bucketVars, fenceVars, snapshotVars, dbVars,
                  outboxVars, rowVars, historyVars
<1>15. ASSUME NEW w \in Writers, CaptureCanonicalTask(w) PROVE Goal
  <2>0. NextToken \in Nat /\ "lock" \in Steps
    BY DEF NextToken, Steps, Rebuilding
  <2>1. CASE ~retired
    <3>1. /\ task'[w].pc = "lock" /\ task'[w].token = NextToken
          /\ \A v \in Writers : v # w => task'[v] = task[v]
      BY <1>15, <2>0, <2>1, Begins DEF CaptureCanonicalTask
    <3>2. \A v \in Writers : v # w => Kept(v)
      BY <1>15, <3>1, SameKept DEF CaptureCanonicalTask, HoldsVersion, snapshotVars
    <3>3. Captures(w)
      BY <1>15, <2>1, <3>1, <3>2
         DEF Captures, CaptureCanonicalTask, CaptureBucketWriteToken, snapshotVars, dbVars
    <3>. QED BY <3>3
  <2>2. CASE retired
    <3>1. /\ \A v \in Writers : v # w => task'[v] = task[v]
          /\ task'[w].pc = "life" /\ task'[w].token = task[w].token
      BY <1>15, <2>2, Moves DEF CaptureCanonicalTask, Steps
    <3>. QED BY <1>15, <2>2, <3>1, <1>0 DEF CaptureCanonicalTask, TaskKept, VersionKept, Carrying,
                Publishing, fenceVars, snapshotVars, dbVars
  <2>. QED BY <2>1, <2>2
<1>16. ASSUME NEW w \in Writers, MissSnapshot(w) PROVE Goal
  <2>0. NextToken \in Nat /\ "load" \in Steps
    BY DEF NextToken, Steps, Rebuilding
  <2>1. /\ task'[w].pc = "load" /\ task'[w].token = NextToken
      /\ \A v \in Writers : v # w => task'[v] = task[v]
    BY <1>16, <2>0, Begins DEF MissSnapshot
  <2>2. \A v \in Writers : v # w => Kept(v)
    BY <1>16, <2>1, SameKept DEF MissSnapshot, HoldsVersion, snapshotVars
  <2>3. Captures(w)
    BY <1>16, <2>1, <2>2 DEF Captures, MissSnapshot, CaptureBucketWriteToken, snapshotVars, dbVars
  <2>. QED BY <2>3
<1>17. ASSUME NEW w \in Writers, CallFails(w) PROVE Goal
  <2>1. /\ \A v \in Writers : v # w => task'[v] = task[v]
        /\ task'[w].pc \notin Carrying /\ task'[w].token = 0
    BY <1>17, EndsPublish, GivesUp DEF CallFails, Carrying, Publishing
  <2>2. \A v \in Writers : v # w => (HoldsVersion(v) => HoldsVersion(v)')
    BY <1>17, Abandons DEF CallFails
  <2>3. \A v \in Writers : Kept(v)
    BY <2>1, <2>2 DEF Kept, TaskKept, VersionKept, Carrying, Publishing
  <2>. QED BY <1>17, <2>3 DEF Quiet, CallFails, fenceVars, dbVars
<1>18. ASSUME NEW w \in Writers, Crash(w) PROVE Goal
  <2>1. /\ \A v \in Writers : v # w => task'[v] = task[v]
        /\ task'[w].pc \notin Carrying /\ task'[w].token = 0
    BY <1>18, GivesUp DEF Crash, Carrying, Publishing
  <2>2. \A v \in Writers : v # w => (HoldsVersion(v) => HoldsVersion(v)')
    BY <1>18, Abandons DEF Crash
  <2>3. \A v \in Writers : Kept(v)
    BY <2>1, <2>2 DEF Kept, TaskKept, VersionKept, Carrying, Publishing
  <2>. QED BY <1>18, <2>3 DEF Quiet, Crash, fenceVars, dbVars
<1>19. ASSUME NEW i \in Pollers, ReadWatermark(i) PROVE Goal
  <2>1. \A v \in Writers : v # i => task'[v] = task[v]
    BY <1>19, Moves DEF ReadWatermark, Steps, Rebuilding
  <2>2. TaskKept(i) /\ task'[i].pc # "activate"
    BY <1>19, Moves DEF ReadWatermark, At, Steps, Rebuilding, TaskKept, Carrying, Publishing
  <2>. QED BY <1>19, <2>1, <2>2, <1>0
              DEF VersionKept, ReadWatermark, bucketVars, fenceVars, snapshotVars, dbVars,
                  outboxVars, rowVars, historyVars
<1>20. ASSUME NEW i \in Pollers, ListAfterAndReleaseDedup(i) PROVE Goal
  <2>1. /\ \A v \in Writers : v # i => task'[v] = task[v]
        /\ \/ task'[i].pc = "idle" /\ task'[i].token = 0
           \/ task'[i].pc = "handle" /\ task'[i].token = task[i].token
    <3>1. CASE Batch(poll[i].wm) = {}
      BY <1>20, <3>1, GivesUp DEF ListAfterAndReleaseDedup
    <3>2. CASE Batch(poll[i].wm) # {}
      BY <1>20, <3>2, Moves DEF ListAfterAndReleaseDedup, TakeBatch, Steps
    <3>. QED BY <3>1, <3>2
  <2>2. TaskKept(i) /\ task'[i].pc # "activate"
    BY <2>1 DEF TaskKept, Carrying, Publishing
  <2>. QED BY <1>20, <2>1, <2>2, <1>0
              DEF VersionKept, ListAfterAndReleaseDedup, bucketVars, fenceVars, snapshotVars,
                  dbVars, outboxVars, rowVars, historyVars
<1>21. ASSUME NEW i \in Pollers, HandleAccountEvent(i) PROVE Goal
  <2>0. NextToken \in Nat /\ "lock" \in Steps
    BY DEF NextToken, Steps, Rebuilding
  <2>1. CASE CaptureBucketWriteToken /\ Begin(i, "lock", NextToken, FALSE)
    <3>1. /\ task'[i].pc = "lock" /\ task'[i].token = NextToken
          /\ \A v \in Writers : v # i => task'[v] = task[v]
      BY <2>0, <2>1, Begins
    <3>2. \A v \in Writers : v # i => Kept(v)
      BY <1>21, <3>1, SameKept DEF HandleAccountEvent, HoldsVersion, snapshotVars
    <3>3. Captures(i)
      BY <1>21, <2>1, <3>1, <3>2
         DEF Captures, HandleAccountEvent, CaptureBucketWriteToken, snapshotVars, dbVars
    <3>. QED BY <3>3
  <2>2. CASE UNCHANGED <<task, fenceVars>>
    <3>1. \A v \in Writers : Kept(v)
      BY <1>21, <2>2, SameKept DEF HandleAccountEvent, HoldsVersion, snapshotVars
    <3>2. UNCHANGED <<epoch, retired, retirements, active, members>>
      BY <1>21, <2>2 DEF HandleAccountEvent, fenceVars, snapshotVars, dbVars
    <3>3. Quiet
      BY <3>1, <3>2 DEF Quiet
    <3>. QED BY <3>3
  <2>. QED BY <1>21, <2>1, <2>2 DEF HandleAccountEvent
<1>22. ASSUME NEW i \in Pollers, HandleGroupEvent(i) PROVE Goal
  <2>1. \A v \in Writers : v # i => task'[v] = task[v]
    BY <1>22, Moves DEF HandleGroupEvent, Steps, Rebuilding
  <2>2. TaskKept(i) /\ (task'[i].pc # "activate")
    BY <1>22, Moves DEF HandleGroupEvent, At, Steps, Rebuilding, TaskKept, Carrying, Publishing
  <2>. QED BY <1>22, <2>1, <2>2, <1>0
              DEF VersionKept, HandleGroupEvent, bucketVars, fenceVars, snapshotVars, dbVars,
                  outboxVars, rowVars, historyVars
<1>23. ASSUME NEW i \in Pollers, SetOutboxWatermark(i) PROVE Goal
  <2>1. \A v \in Writers : v # i => task'[v] = task[v]
    BY <1>23, Moves DEF SetOutboxWatermark, Steps, Rebuilding
  <2>2. TaskKept(i) /\ task'[i].pc # "activate"
    BY <1>23, Moves DEF SetOutboxWatermark, At, Steps, Rebuilding, TaskKept, Carrying, Publishing
  <2>. QED BY <1>23, <2>1, <2>2, <1>0
              DEF VersionKept, SetOutboxWatermark, bucketVars, fenceVars, snapshotVars, dbVars,
                  outboxVars, rowVars, historyVars
<1>24. ASSUME NEW i \in Pollers, CleanupConsumedOutbox(i) PROVE Goal
  <2>1. \A v \in Writers : v # i => task'[v] = task[v]
    BY <1>24, GivesUp DEF CleanupConsumedOutbox, Steps, Rebuilding
  <2>2. TaskKept(i) /\ task'[i].pc # "activate"
    BY <1>24, GivesUp
       DEF CleanupConsumedOutbox, At, Steps, Rebuilding, TaskKept, Carrying, Publishing
  <2>. QED BY <1>24, <2>1, <2>2, <1>0
              DEF VersionKept, CleanupConsumedOutbox, bucketVars, fenceVars, snapshotVars, dbVars,
                  outboxVars, rowVars, historyVars
<1>25. CASE ExpireLock
  BY <1>25
     DEF ExpireLock, Quiet, Kept, TaskKept, VersionKept, HoldsVersion, bucketVars, fenceVars,
         snapshotVars, dbVars, outboxVars, rowVars, historyVars
<1>26. CASE ExpireLease
  BY <1>26
     DEF ExpireLease, Quiet, Kept, TaskKept, VersionKept, HoldsVersion, bucketVars, fenceVars,
         snapshotVars, dbVars, outboxVars, rowVars, historyVars
<1>27. CASE UNCHANGED vars
  BY <1>27
     DEF vars, Quiet, Kept, TaskKept, VersionKept, HoldsVersion, bucketVars, fenceVars,
         snapshotVars, dbVars, outboxVars, rowVars, historyVars
<1> HIDE DEF Goal
<1>. QED BY <1>1, <1>2, <1>3, <1>4, <1>5, <1>6, <1>7, <1>8, <1>9, <1>10, <1>11, <1>12,
   <1>13, <1>14, <1>15, <1>16, <1>17, <1>18, <1>19, <1>20, <1>21, <1>22, <1>23, <1>24,
   <1>25, <1>26, <1>27 DEF Next, ChangeStep, WriterStep, PollStep

-----------------------------------------------------------------------------
(* The epoch                                                                 *)

\* What DecideLifecycle does to its own task.
LEMMA Decides ==
  ASSUME TypeOK, NEW w \in Writers, DecideLifecycle(w)
  PROVE  /\ \A v \in Writers : v # w => task'[v] = task[v]
         /\ \/ /\ ReopenBucket /\ task'[w].pc = "lock" /\ task'[w].token = NextToken
               /\ poll' = poll
            \/ /\ RetireBucket /\ task'[w].pc \in {"handle", "idle"} /\ task'[w].token = 0
               /\ \A i \in Pollers : poll'[i].ids = poll[i].ids /\ (i # w => poll'[i] = poll[i])
         /\ members' = members /\ allocated' = allocated
<1> USE DEF TypeOK
<1>1. NextToken \in Nat /\ "lock" \in Steps
  BY DEF NextToken, Steps
<1>2. CASE task[w].alive
  BY <1>1, <1>2, Begins DEF DecideLifecycle, ReopenBucket, dbVars
<1>3. CASE ~task[w].alive
  BY <1>3, Succeeds DEF DecideLifecycle, RetireBucket, dbVars
<1>. QED BY <1>2, <1>3

\* What LoadAccounts does to its task.
LEMMA Loads ==
  ASSUME TypeOK, NEW w \in Writers, LoadAccounts(w)
  PROVE  /\ \A v \in Writers : v # w => task'[v] = task[v]
         /\ task[w].pc = "load" /\ task'[w].pc = "allocate" /\ task'[w].token = task[w].token
         /\ task'[w].data.members = members /\ task'[w].data.era = retirements
         /\ UNCHANGED <<epoch, retired, retirements, active, allocated, members>>
BY DEF TypeOK, LoadAccounts, At, Tasks, bucketVars, fenceVars, snapshotVars, dbVars

\* What ActivateVersion does to its task, and when it publishes.
LEMMA Activates ==
  ASSUME TypeOK, NEW w \in Writers, ActivateVersion(w)
  PROVE  /\ \A v \in Writers : v # w => task'[v] = task[v]
         /\ task[w].pc = "activate" /\ task'[w].pc \in {"unlock", "idle"} /\ task'[w].token = 0
         /\ UNCHANGED <<epoch, retired, retirements, members>>
         /\ active' = (IF ~Fenced(task[w].token) /\ HoldsVersion(w) THEN task[w].data ELSE active)
         /\ Fenced(task[w].token) \/ ~HoldsVersion(w)
              => \A v \in Writers : v # w => (HoldsVersion(v) => HoldsVersion(v)')
<1> USE DEF TypeOK
<1>1. task[w].strict \in BOOLEAN
  BY DEF Tasks
<1>2. CASE Fenced(task[w].token)
  <2>1. EndPublish(w, task[w].strict) /\ AbandonVersion(w) /\ active' = active
    BY <1>2 DEF ActivateVersion
  <2>2. \A v \in Writers : v # w => (HoldsVersion(v) => HoldsVersion(v)')
    BY <2>1, Abandons
  <2>. QED BY <1>1, <1>2, <2>1, <2>2, EndsPublish DEF ActivateVersion, At, fenceVars, dbVars
<1>3. CASE ~Fenced(task[w].token)
  <2>1. EndPublish(w, FALSE) /\ ActivateSnapshot(w, task[w].data)
    BY <1>3 DEF ActivateVersion
  <2>2. active' = (IF HoldsVersion(w) THEN task[w].data ELSE active)
    BY <2>1 DEF ActivateSnapshot, snapshotVars
  <2>3. ~HoldsVersion(w) => \A v \in Writers : HoldsVersion(v) => HoldsVersion(v)'
    BY <2>1 DEF ActivateSnapshot, snapshotVars, HoldsVersion
  <2>. QED BY <1>3, <2>1, <2>2, <2>3, EndsPublish DEF ActivateVersion, At, fenceVars, dbVars
<1>. QED BY <1>2, <1>3

\* Every step keeps tokens and snapshots on the right side of the last retirement.
LEMMA NextFence == TypeOK /\ FenceInv /\ TypeOK' /\ [Next]_vars => FenceInv'
<1> SUFFICES ASSUME TypeOK, FenceInv, TypeOK', [Next]_vars PROVE FenceInv'
  OBVIOUS
<1> USE DEF FenceInv, NoSnapshotFromBeforeRetirement
<1>0. \A v \in Writers : task[v].token \in Nat /\ task'[v].token \in Nat /\ epoch \in Nat
  BY DEF TypeOK, Tasks
<1>1. CASE Quiet
  BY <1>0, <1>1 DEF Quiet, Kept, TaskKept, Carrying, Publishing
<1>2. ASSUME NEW w \in Writers, LoadAccounts(w) PROVE FenceInv'
  BY <1>0, <1>2, Loads DEF Carrying, Publishing
<1>3. ASSUME NEW w \in Writers, ActivateVersion(w) PROVE FenceInv'
  <2>1. active' # NoSnapshot => ~retired /\ active'.era = retirements
    BY <1>3, Activates DEF Fenced, Publishing
  <2>. QED BY <1>0, <1>3, <2>1, Activates DEF Carrying, Publishing
<1>4. ASSUME NEW w \in Writers, DecideLifecycle(w) PROVE FenceInv'
  <2>1. CASE ReopenBucket /\ task'[w].pc = "lock" /\ task'[w].token = NextToken
    <3>1. epoch <= epoch' /\ epoch' > 0 /\ task'[w].token = epoch' /\ ~retired'
      BY <1>0, <2>1 DEF ReopenBucket, NextToken
    <3>2. \A v \in Writers : task[v].token = epoch' => ~retired /\ task[v].token = epoch
      BY <1>0, <2>1 DEF ReopenBucket, NextToken
    <3>3. \A v \in Writers : v # w => task'[v] = task[v]
      BY <1>4, Decides
    <3>4. retirements' = retirements /\ (active' # NoSnapshot => ~retired /\ active' = active)
      BY <2>1 DEF ReopenBucket
    <3>5. epoch' \in Nat
      BY DEF TypeOK
    <3>. QED BY <1>0, <2>1, <3>1, <3>2, <3>3, <3>4, <3>5 DEF Carrying, Publishing
  <2>2. CASE RetireBucket /\ task'[w].pc \in {"handle", "idle"} /\ task'[w].token = 0
    BY <1>0, <1>4, <2>2, Decides DEF RetireBucket, Carrying, Publishing
  <2>. QED BY <1>4, <2>1, <2>2, Decides
<1>5. ASSUME NEW w \in Writers, Captures(w) PROVE FenceInv'
  BY <1>0, <1>5 DEF Captures, NextToken, Kept, TaskKept, Carrying, Publishing
<1>. QED BY <1>1, <1>2, <1>3, <1>4, <1>5, Classify


\* Taking a token or reopening an open bucket fences nobody that has one.
LEMMA SameEpoch ==
  ASSUME TypeOK, FenceInv, NEW v \in Writers, task[v].pc \in Carrying, epoch' = NextToken
  PROVE  epoch' = epoch
<1>1. task[v].token \in Nat /\ epoch \in Nat
  BY DEF TypeOK, Tasks
<1>. QED BY <1>1 DEF FenceInv, NextToken

\* Every step keeps what LoadInv says of loaded data and of versions.
LEMMA NextLoad == TypeOK /\ FenceInv /\ LoadInv /\ TypeOK' /\ [Next]_vars => LoadInv'
<1> SUFFICES ASSUME TypeOK, FenceInv, LoadInv, TypeOK', [Next]_vars PROVE LoadInv'
  OBVIOUS
<1> USE DEF LoadInv
<1>0. /\ members \in Nat /\ members' \in Nat /\ active \in Data \cup {NoSnapshot}
      /\ \A v \in Writers : /\ task[v].token \in Nat /\ task[v].data \in Data
                            /\ task[v].data.members \in Nat
  BY DEF TypeOK, Tasks, Data
<1>1. CASE Quiet
  <2>1. active' # NoSnapshot => active'.members <= members'
    BY <1>0, <1>1 DEF Quiet, Data
  <2>2. ASSUME NEW v \in Writers, task'[v].pc \in Publishing PROVE task'[v].data.members <= members'
    BY <1>0, <1>1, <2>2 DEF Quiet, Kept, TaskKept, Carrying, Publishing
  <2>3. ASSUME NEW v \in Writers, task'[v].pc = "activate", ~Fenced(task[v].token)', active' = NoSnapshot
        PROVE  HoldsVersion(v)'
    BY <1>1, <2>3 DEF Quiet, Kept, VersionKept, Fenced
  <2>. QED BY <2>1, <2>2, <2>3
<1>2. ASSUME NEW w \in Writers, LoadAccounts(w) PROVE LoadInv'
  BY <1>0, <1>2, Loads DEF Publishing, Fenced, HoldsVersion
<1>3. ASSUME NEW w \in Writers, ActivateVersion(w) PROVE LoadInv'
  <2>1. active' # NoSnapshot => active'.members <= members'
    BY <1>3, Activates DEF Publishing
  <2>2. ASSUME NEW v \in Writers, task'[v].pc \in Publishing PROVE task'[v].data.members <= members'
    BY <1>3, <2>2, Activates DEF Publishing
  <2>3. ASSUME NEW v \in Writers, task'[v].pc = "activate", ~Fenced(task[v].token)', active' = NoSnapshot
        PROVE  HoldsVersion(v)'
    <3>1. v # w /\ task'[v] = task[v]
      BY <1>3, <2>3, Activates
    <3>2. Fenced(task[w].token) \/ ~HoldsVersion(w)
      BY <1>0, <1>3, <2>3, Activates, NoSnapshotAssumption
    <3>3. active = NoSnapshot /\ ~Fenced(task[v].token)
      BY <1>3, <2>3, <3>1, <3>2, Activates DEF Fenced
    <3>. QED BY <1>3, <2>3, <3>1, <3>2, <3>3, Activates
  <2>. QED BY <2>1, <2>2, <2>3
<1>4. ASSUME NEW w \in Writers, DecideLifecycle(w) PROVE LoadInv'
  <2>1. /\ \A v \in Writers : v # w => task'[v] = task[v]
        /\ task'[w].pc \notin Publishing /\ members' = members /\ allocated' = allocated
    BY <1>4, Decides DEF Publishing
  <2>2. active' \in {active, NoSnapshot}
    BY <1>4 DEF DecideLifecycle, ReopenBucket, RetireBucket
  <2>3. ASSUME NEW v \in Writers, task'[v].pc = "activate", ~Fenced(task[v].token)', active' = NoSnapshot
        PROVE  HoldsVersion(v)'
    <3>1. v # w /\ task'[v] = task[v]
      BY <2>1, <2>3 DEF Publishing
    <3>2. ReopenBucket
      BY <1>4, <2>3, Decides DEF Fenced, RetireBucket
    <3>3. epoch' = epoch
      BY <2>3, <3>1, <3>2, SameEpoch DEF ReopenBucket, Carrying, Publishing
    <3>4. ~retired
      BY <1>0, <2>3, <3>1, <3>3 DEF FenceInv, Fenced, TypeOK
    <3>. QED BY <2>1, <2>3, <3>1, <3>2, <3>3, <3>4 DEF ReopenBucket, Fenced, HoldsVersion
  <2>. QED BY <2>1, <2>2, <2>3
<1>5. ASSUME NEW w \in Writers, Captures(w) PROVE LoadInv'
  <2>1. active' # NoSnapshot => active'.members <= members'
    BY <1>5 DEF Captures
  <2>2. ASSUME NEW v \in Writers, task'[v].pc \in Publishing PROVE task'[v].data.members <= members'
    BY <1>0, <1>5, <2>2 DEF Captures, Kept, TaskKept, Carrying, Publishing
  <2>3. ASSUME NEW v \in Writers, task'[v].pc = "activate", ~Fenced(task[v].token)', active' = NoSnapshot
        PROVE  HoldsVersion(v)'
    <3>1. VersionKept(v)
      BY <1>5, <2>3 DEF Captures, Kept
    <3>2. ASSUME ~HoldsVersion(v)' PROVE FALSE
      <4>1. task[v].pc = "activate" /\ task'[v].token = task[v].token /\ ~HoldsVersion(v)
        BY <2>3, <3>1, <3>2 DEF VersionKept
      <4>2. epoch' = epoch
        BY <1>5, <4>1, SameEpoch DEF Captures, Carrying, Publishing
      <4>. QED BY <1>5, <2>3, <4>1, <4>2 DEF Captures, Fenced
    <3>. QED BY <3>2
  <2>. QED BY <2>1, <2>2, <2>3
<1>. QED BY <1>1, <1>2, <1>3, <1>4, <1>5, Classify

-----------------------------------------------------------------------------
(* Snapshots that have every change                                          *)

\* A retired bucket has no snapshot, and nobody may publish one.
LEMMA RetiredSettled ==
  ASSUME FenceInv, retired
  PROVE  Settled
BY DEF FenceInv, NoSnapshotFromBeforeRetirement, Settled, Fenced

\* Retiring the bucket takes the snapshot away and fences everybody.
LEMMA RetireSettles ==
  ASSUME RetireBucket
  PROVE  Settled'
BY DEF RetireBucket, Settled, Fenced

\* As long as nothing changes, a snapshot with every change gives way only to one like it.
LEMMA SettledKept ==
  ASSUME TypeOK, FenceInv, LoadInv, TypeOK', [Next]_vars, members' = members, ~gap', Settled
  PROVE  Settled'
<1>0. /\ members \in Nat /\ active \in Data \cup {NoSnapshot}
      /\ \A v \in Writers : /\ task[v].token \in Nat /\ task[v].data \in Data
                            /\ task[v].data.members \in Nat
  BY DEF TypeOK, Tasks, Data
<1>1. CASE Quiet
  BY <1>1 DEF Quiet, Kept, TaskKept, Carrying, Publishing, Settled, Fenced
<1>2. ASSUME NEW w \in Writers, LoadAccounts(w) PROVE Settled'
  BY <1>2, Loads DEF Publishing, Settled, Fenced
<1>3. ASSUME NEW w \in Writers, ActivateVersion(w) PROVE Settled'
  <2>1. CASE Fenced(task[w].token) \/ ~HoldsVersion(w)
    BY <1>3, <2>1, Activates DEF Publishing, Settled, Fenced
  <2>2. CASE ~Fenced(task[w].token) /\ HoldsVersion(w)
    <3>1. active' = task[w].data /\ active' # NoSnapshot /\ task[w].data.members <= members
      BY <1>0, <1>3, <2>2, Activates, NoSnapshotAssumption DEF LoadInv, Publishing
    <3>2. CASE active = NoSnapshot
      BY <1>3, <2>2, <3>1, <3>2, Activates DEF Publishing, Settled
    <3>3. CASE active # NoSnapshot
      <4>1. active.members = members
        BY <3>3 DEF Settled
      <4>2. ~(active.members > active'.members)
        BY <1>3, <2>2, <3>1, <3>3 DEF ActivateVersion, Overtaken
      <4>. QED BY <1>0, <3>1, <4>1, <4>2 DEF Settled
    <3>. QED BY <3>2, <3>3
  <2>. QED BY <2>1, <2>2
<1>4. ASSUME NEW w \in Writers, DecideLifecycle(w) PROVE Settled'
  <2>1. CASE RetireBucket
    BY <2>1, RetireSettles
  <2>2. CASE ReopenBucket /\ task'[w].pc = "lock"
    <3>1. ASSUME NEW v \in Writers, task'[v].pc \in Publishing, ~Fenced(task[v].token)'
          PROVE  ~retired /\ ~Fenced(task[v].token) /\ task'[v] = task[v]
      <4>1. task'[v] = task[v]
        BY <1>4, <2>2, <3>1, Decides DEF Publishing
      <4>2. epoch' = epoch
        BY <2>2, <3>1, <4>1, SameEpoch DEF ReopenBucket, Carrying
      <4>3. task[v].token = epoch
        BY <3>1, <4>1, <4>2 DEF Fenced
      <4>4. ~retired
        BY <1>0, <4>3 DEF FenceInv, TypeOK
      <4>. QED BY <4>1, <4>3, <4>4 DEF Fenced
    <3>2. active' # NoSnapshot => active' = active
      BY <2>2 DEF ReopenBucket
    <3>3. active' = NoSnapshot => retired \/ active = NoSnapshot
      BY <2>2 DEF ReopenBucket
    <3>. QED BY <3>1, <3>2, <3>3 DEF Settled
  <2>. QED BY <1>4, <2>1, <2>2, Decides
<1>5. ASSUME NEW w \in Writers, Captures(w) PROVE Settled'
  <2>1. ASSUME NEW v \in Writers, task'[v].pc \in Publishing, ~Fenced(task[v].token)'
        PROVE  /\ task[v].pc \in Publishing /\ ~Fenced(task[v].token)
               /\ task'[v].data = task[v].data
    <3>1. TaskKept(v) /\ ~retired
      BY <1>5, <2>1 DEF Captures, Kept, Publishing
    <3>2. /\ task[v].pc \in Publishing /\ task'[v].data = task[v].data
          /\ task'[v].token = task[v].token
      BY <2>1, <3>1 DEF TaskKept, Carrying
    <3>3. epoch' = epoch
      BY <1>5, <3>2, SameEpoch DEF Captures, Carrying
    <3>. QED BY <2>1, <3>1, <3>2, <3>3 DEF Fenced
  <2>2. active' = active
    BY <1>5 DEF Captures
  <2>. QED BY <2>1, <2>2 DEF Settled
<1>. QED BY <1>1, <1>2, <1>3, <1>4, <1>5, Classify

-----------------------------------------------------------------------------
(* Rows and ids                                                              *)

\* A poll keeps the ids it read until it is over.
PollKept(i) ==
  \/ poll'[i].ids = {}
  \/ /\ poll'[i].ids = poll[i].ids
     /\ task'[i].pc \in {"idle", "list"} => task[i].pc \in {"idle", "list"}

\* Every step but the one that reads a batch keeps the polls.
LEMMA PollsKept ==
  ASSUME TypeOK, [Next]_vars, NEW i \in Pollers, ~ListAfterAndReleaseDedup(i)
  PROVE  PollKept(i)
<1> USE WritersAssumption, PollersAssumption DEF TypeOK
<1>0. ASSUME poll' = poll, task' = task PROVE PollKept(i)
  BY <1>0 DEF PollKept
<1>1. ASSUME NEW c \in Changes, ChangeStep(c) PROVE PollKept(i)
  BY <1>0, <1>1
     DEF ChangeStep, TxEnqueue, TxCommit, TxRollback, ChangeFirst, EnqueueAfter, EnqueueLost
<1>2. CASE ExpireLock \/ ExpireLease \/ UNCHANGED vars
  BY <1>0, <1>2 DEF ExpireLock, ExpireLease, vars
<1>3. ASSUME NEW w \in Writers, TryLockBucket(w) PROVE PollKept(i)
  <2>1. CASE lock = NoOne
    BY <1>3, <2>1, Moves DEF TryLockBucket, Steps, Rebuilding, PollKept
  <2>2. CASE lock # NoOne /\ task[w].strict
    BY <1>3, <2>2, GivesUp DEF TryLockBucket, PollKept
  <2>3. CASE lock # NoOne /\ ~task[w].strict
    BY <1>3, <2>3, Succeeds DEF TryLockBucket, PollKept
  <2>. QED BY <2>1, <2>2, <2>3
<1>4. ASSUME NEW w \in Writers, LoadAccounts(w) PROVE PollKept(i)
  BY <1>4, Loads DEF LoadAccounts, PollKept
<1>5. ASSUME NEW w \in Writers, AllocateVersion(w) PROVE PollKept(i)
  <2>1. task[w].strict \in BOOLEAN
    BY DEF Tasks
  <2>2. \A v \in Writers : v # w => task'[v] = task[v]
    BY <1>5, <2>1, Moves, EndsPublish DEF AllocateVersion, Steps, Rebuilding
  <2>3. task'[w].pc \in {"activate", "unlock"} \/ w \in Readers
    BY <1>5, <2>1, Moves, EndsPublish DEF AllocateVersion, Steps, Rebuilding
  <2>. QED BY <1>5, <2>2, <2>3 DEF AllocateVersion, PollKept
<1>6. ASSUME NEW w \in Writers, ActivateVersion(w) PROVE PollKept(i)
  <2>1. task[w].strict \in BOOLEAN
    BY DEF Tasks
  <2>2. task'[w].pc = "unlock" \/ w \in Readers
    BY <1>6, <2>1, EndsPublish DEF ActivateVersion
  <2>. QED BY <1>6, <2>2, Activates DEF ActivateVersion, PollKept
<1>7. ASSUME NEW w \in Writers, FinishRebuild(w) PROVE PollKept(i)
  <2>1. task[w].strict \in BOOLEAN
    BY DEF Tasks
  <2>. QED BY <1>7, <2>1, Succeeds, GivesUp DEF FinishRebuild, PollKept
<1>8. ASSUME NEW w \in Writers, AcquireLifecycleLease(w) PROVE PollKept(i)
  <2>1. CASE lease = NoOne
    BY <1>8, <2>1 DEF AcquireLifecycleLease, Tasks, PollKept
  <2>2. CASE lease # NoOne
    BY <1>8, <2>2, GivesUp DEF AcquireLifecycleLease, PollKept
  <2>. QED BY <2>1, <2>2
<1>9. ASSUME NEW w \in Writers, DecideLifecycle(w) PROVE PollKept(i)
  <2>1. CASE task[w].alive
    <3>1. NextToken \in Nat /\ "lock" \in Steps
      BY DEF NextToken, Steps
    <3>2. task'[w].pc = "lock" /\ \A v \in Writers : v # w => task'[v] = task[v]
      BY <1>9, <2>1, <3>1, Begins DEF DecideLifecycle
    <3>. QED BY <1>9, <2>1, <3>2 DEF DecideLifecycle, PollKept
  <2>2. CASE ~task[w].alive
    BY <1>9, <2>2, Succeeds DEF DecideLifecycle, PollKept
  <2>. QED BY <2>1, <2>2
<1>10. ASSUME NEW w \in Writers, StartFullRebuild(w) PROVE PollKept(i)
  BY <1>10, Moves DEF StartFullRebuild, Steps, PollKept
<1>11. ASSUME NEW w \in Writers, CaptureCanonicalTask(w) PROVE PollKept(i)
  <2>1. NextToken \in Nat
    BY DEF NextToken
  <2>2. /\ \A v \in Writers : v # w => task'[v] = task[v]
        /\ task'[w].pc \in {"life", "lock"}
    BY <1>11, <2>1, Moves, Begins DEF CaptureCanonicalTask, Steps
  <2>. QED BY <1>11, <2>2 DEF CaptureCanonicalTask, PollKept
<1>12. ASSUME NEW w \in Writers, MissSnapshot(w) PROVE PollKept(i)
  <2>1. NextToken \in Nat
    BY DEF NextToken
  <2>2. \A v \in Writers : v # w => task'[v] = task[v]
    BY <1>12, <2>1, Begins DEF MissSnapshot, Steps, Rebuilding
  <2>. QED BY <1>12, <2>2 DEF MissSnapshot, PollKept
<1>13. ASSUME NEW w \in Writers, CallFails(w) PROVE PollKept(i)
  <2>1. CASE task[w].pc \in Rebuilding
    BY <1>13, <2>1, EndsPublish DEF CallFails, PollKept
  <2>2. CASE task[w].pc \notin Rebuilding
    BY <1>13, <2>2, GivesUp DEF CallFails, PollKept
  <2>. QED BY <2>1, <2>2
<1>14. ASSUME NEW w \in Writers, Crash(w) PROVE PollKept(i)
  BY <1>14, GivesUp DEF Crash, PollKept
<1>15. ASSUME NEW j \in Pollers, ReadWatermark(j) PROVE PollKept(i)
  <2>1. poll'[i].ids = poll[i].ids
    BY <1>15 DEF ReadWatermark, Polls
  <2>2. task'[i] = task[i] \/ task[i].pc = "idle"
    BY <1>15, Moves DEF ReadWatermark, At, Steps
  <2>. QED BY <2>1, <2>2 DEF PollKept
<1>16. ASSUME NEW j \in Pollers, ListAfterAndReleaseDedup(j) PROVE PollKept(i)
  <2>1. CASE Batch(poll[j].wm) = {}
    BY <1>16, <2>1, GivesUp DEF ListAfterAndReleaseDedup, PollKept
  <2>2. CASE Batch(poll[j].wm) # {}
    <3>1. i # j
      BY <1>16
    <3>2. task'[i] = task[i]
      BY <1>16, <2>2, <3>1, Moves DEF ListAfterAndReleaseDedup, TakeBatch, Steps
    <3>3. poll'[i] = poll[i]
      BY <1>16, <2>2, <3>1 DEF ListAfterAndReleaseDedup, TakeBatch
    <3>. QED BY <3>2, <3>3 DEF PollKept
  <2>. QED BY <2>1, <2>2
<1>17. ASSUME NEW j \in Pollers, HandleAccountEvent(j) PROVE PollKept(i)
  <2>1. poll'[i].ids = poll[i].ids
    BY <1>17 DEF HandleAccountEvent, Polls
  <2>2. task' = task \/ Begin(j, "lock", NextToken, FALSE)
    BY <1>17 DEF HandleAccountEvent
  <2>3. NextToken \in Nat /\ "lock" \in Steps
    BY DEF NextToken, Steps
  <2>4. task'[i] = task[i] \/ task'[i].pc = "lock"
    BY <2>2, <2>3, Begins
  <2>. QED BY <2>1, <2>4 DEF PollKept
<1>18. ASSUME NEW j \in Pollers, HandleGroupEvent(j) PROVE PollKept(i)
  <2>1. poll'[i].ids = poll[i].ids
    BY <1>18 DEF HandleGroupEvent, Polls
  <2>2. task'[i] = task[i] \/ task'[i].pc = "life"
    BY <1>18, Moves DEF HandleGroupEvent, Steps
  <2>. QED BY <2>1, <2>2 DEF PollKept
<1>19. ASSUME NEW j \in Pollers, SetOutboxWatermark(j) PROVE PollKept(i)
  BY <1>19, Moves DEF SetOutboxWatermark, Steps, PollKept
<1>20. ASSUME NEW j \in Pollers, CleanupConsumedOutbox(j) PROVE PollKept(i)
  BY <1>20, GivesUp DEF CleanupConsumedOutbox, PollKept
<1>. QED BY <1>1, <1>2, <1>3, <1>4, <1>5, <1>6, <1>7, <1>8, <1>9, <1>10, <1>11, <1>12, <1>13,
   <1>14, <1>15, <1>16, <1>17, <1>18, <1>19, <1>20 DEF Next, WriterStep, PollStep


\* Steps of writers and polls that leave the outbox and the changes alone.
LEMMA IdsKept ==
  ASSUME RowInv, OpenInv, UNCHANGED <<outbox, nextId, change>>, unhandled' = unhandled,
         \A i \in Pollers : PollKept(i)
  PROVE  RowInv' /\ OpenInv'
<1>1. \A i \in Pollers : poll'[i].ids \subseteq poll[i].ids
  BY DEF PollKept
<1>2. \A i \in Pollers : task'[i].pc \in {"idle", "list"} => poll'[i].ids = {}
  BY DEF PollKept, RowInv
<1>3. RowInv'
  BY <1>1, <1>2 DEF RowInv
<1>4. OpenInv'
  BY <1>1 DEF OpenInv
<1>. QED BY <1>3, <1>4

\* Every step keeps ids apart, and keyed rows unread.
LEMMA NextIds == TypeOK /\ RowInv /\ OpenInv /\ TypeOK' /\ [Next]_vars => RowInv' /\ OpenInv'
<1> SUFFICES ASSUME TypeOK, RowInv, OpenInv, TypeOK', [Next]_vars PROVE RowInv' /\ OpenInv'
  OBVIOUS
<1> USE DEF TypeOK
<1>0. /\ nextId \in Nat /\ nextId # 0 /\ \A c \in Changes : change[c].row \in Nat
      /\ \A r \in outbox : r.id \in Nat
      /\ unhandled \subseteq Nat /\ \A i \in Pollers : poll[i].ids \subseteq Nat
  BY DEF Entries, Rows, Polls
<1>1. ASSUME NEW c \in Changes, NEW kind \in Kinds, TxEnqueue(c, kind) PROVE RowInv' /\ OpenInv'
  <2>1. /\ UNCHANGED <<outbox, unhandled, poll, task>>
        /\ nextId' \in {nextId, nextId + 1}
        /\ \A d \in Changes : d # c => change'[d] = change[d]
        /\ change'[c].row = 0 \/ (change'[c].row = nextId /\ nextId' = nextId + 1)
    BY <1>1 DEF TxEnqueue, historyVars
  <2>2. RowInv'
    <3>1. \A n \in Nat : n < nextId => n < nextId'
      BY <1>0, <2>1
    <3>. QED BY <1>0, <2>1, <3>1 DEF RowInv
  <2>3. OpenInv'
    <3>1. \A d \in Changes : change[d].row < nextId
      BY <1>0 DEF OpenInv
    <3>. QED BY <1>0, <2>1, <3>1 DEF OpenInv, RowInv
  <2>. QED BY <2>2, <2>3
<1>2. ASSUME NEW c \in Changes, TxCommit(c) PROVE RowInv' /\ OpenInv'
  <2>1. /\ UNCHANGED <<nextId, poll, task>> /\ change'[c].row = 0
        /\ \A d \in Changes : d # c => change'[d] = change[d]
    BY <1>2 DEF TxCommit, Ended, NoChange
  <2>2. CASE change[c].row = 0
    <3>1. outbox' = outbox /\ unhandled' = unhandled
      BY <1>2, <2>2 DEF TxCommit
    <3>. QED BY <2>1, <3>1 DEF RowInv, OpenInv
  <2>3. CASE change[c].row # 0
    <3> DEFINE r0 == Row(change[c].row, change[c].kind)
    <3>1. outbox' = outbox \cup {r0} /\ unhandled' = unhandled \cup {change[c].row}
      BY <1>2, <2>3 DEF TxCommit
    <3>2. r0.id = change[c].row
      BY DEF Row
    <3>3. /\ change[c].row < nextId /\ \A r \in outbox : r.id # change[c].row
          /\ \A i \in Pollers : change[c].row \notin poll[i].ids
          /\ \A d \in Changes : d # c => change[d].row # change[c].row
      BY <2>3 DEF OpenInv
    <3> HIDE DEF r0
    <3>4. RowInv'
      BY <2>1, <3>1, <3>2, <3>3 DEF RowInv
    <3>5. OpenInv'
      BY <2>1, <3>1, <3>2, <3>3 DEF OpenInv
    <3>. QED BY <3>4, <3>5
  <2>. QED BY <2>2, <2>3
<1>3. ASSUME NEW c \in Changes, TxRollback(c) PROVE RowInv' /\ OpenInv'
  <2>1. /\ UNCHANGED <<outbox, unhandled, nextId, poll, task>> /\ change'[c].row = 0
        /\ \A d \in Changes : d # c => change'[d] = change[d]
    BY <1>3 DEF TxRollback, Ended, NoChange, rowVars, historyVars
  <2>. QED BY <2>1 DEF RowInv, OpenInv
<1>4. ASSUME NEW c \in Changes, NEW kind \in Kinds, ChangeFirst(c, kind) PROVE RowInv' /\ OpenInv'
  <2>1. /\ UNCHANGED <<outbox, unhandled, nextId, poll, task>> /\ change'[c].row = 0
        /\ \A d \in Changes : d # c => change'[d] = change[d]
    BY <1>4 DEF ChangeFirst, rowVars, historyVars
  <2>. QED BY <2>1 DEF RowInv, OpenInv
<1>5. ASSUME NEW c \in Changes, EnqueueAfter(c) PROVE RowInv' /\ OpenInv'
  <2>1. /\ UNCHANGED <<poll, task>> /\ change'[c].row = 0
        /\ \A d \in Changes : d # c => change'[d] = change[d]
    BY <1>5 DEF EnqueueAfter, Ended, NoChange
  <2>2. CASE Conflict(change[c].kind) # {}
    <3>1. UNCHANGED <<outbox, unhandled, nextId>>
      BY <1>5, <2>2 DEF EnqueueAfter, rowVars
    <3>. QED BY <2>1, <3>1 DEF RowInv, OpenInv
  <2>3. CASE Conflict(change[c].kind) = {}
    <3> DEFINE r0 == Row(nextId, change[c].kind)
    <3>1. outbox' = outbox \cup {r0} /\ unhandled' = unhandled \cup {nextId} /\ nextId' = nextId + 1
      BY <1>5, <2>3 DEF EnqueueAfter
    <3>2. r0.id = nextId
      BY DEF Row
    <3> HIDE DEF r0
    <3>3. RowInv'
      BY <1>0, <2>1, <3>1, <3>2 DEF RowInv
    <3>4. OpenInv'
      BY <1>0, <2>1, <3>1, <3>2 DEF OpenInv
    <3>. QED BY <3>3, <3>4
  <2>. QED BY <2>2, <2>3
<1>6. ASSUME NEW c \in Changes, EnqueueLost(c) PROVE RowInv' /\ OpenInv'
  <2>1. /\ UNCHANGED <<outbox, unhandled, nextId, poll, task>> /\ change'[c].row = 0
        /\ \A d \in Changes : d # c => change'[d] = change[d]
    BY <1>6 DEF EnqueueLost, Ended, NoChange, rowVars
  <2>. QED BY <2>1 DEF RowInv, OpenInv
<1>7. ASSUME NEW i \in Pollers, ListAfterAndReleaseDedup(i) PROVE RowInv' /\ OpenInv'
  <2> DEFINE rows == Batch(poll[i].wm)
  <2>1. UNCHANGED <<nextId, unhandled, change>>
    BY <1>7 DEF ListAfterAndReleaseDedup, historyVars
  <2>2. CASE rows = {}
    <3>1. outbox' = outbox /\ GiveUp(i)
      BY <1>7, <2>2 DEF ListAfterAndReleaseDedup
    <3>2. \A j \in Pollers : PollKept(j)
      BY <3>1, GivesUp, WritersAssumption DEF PollKept
    <3>. QED BY <2>1, <3>1, <3>2, IdsKept
  <2>3. CASE rows # {}
    <3>1. outbox' = {[r EXCEPT !.keyed = r.keyed /\ r.id \notin Ids(rows)] : r \in outbox}
      BY <1>7, <2>3 DEF ListAfterAndReleaseDedup
    <3>2. TakeBatch(i, rows)
      BY <1>7, <2>3 DEF ListAfterAndReleaseDedup
    <3>3. /\ \A j \in Pollers : j # i => poll'[j] = poll[j] /\ task'[j] = task[j]
          /\ poll'[i].ids = Ids(rows) /\ task'[i].pc = "handle"
      BY <3>2, Moves, WritersAssumption DEF TakeBatch, NoPoll, Steps
    <3>4. \A s \in outbox' : \E r \in outbox : s.id = r.id /\ s = [r EXCEPT !.keyed = s.keyed]
                                /\ (s.keyed => r.keyed /\ s.id \notin Ids(rows))
      BY <3>1 DEF Rows
    <3>5. \A id \in Ids(rows) : \E r \in outbox : r.id = id
      BY DEF Ids, Batch
    <3> HIDE DEF rows
    <3>6. \A r, s \in outbox' : r.id = s.id => r = s
      <4>1. SUFFICES ASSUME NEW r \in outbox', NEW s \in outbox', r.id = s.id PROVE r = s
        OBVIOUS
      <4>2. PICK p \in outbox : r = [p EXCEPT !.keyed = p.keyed /\ p.id \notin Ids(rows)]
        BY <3>1
      <4>3. PICK q \in outbox : s = [q EXCEPT !.keyed = q.keyed /\ q.id \notin Ids(rows)]
        BY <3>1
      <4>4. r.id = p.id /\ s.id = q.id
        BY <4>2, <4>3 DEF Rows
      <4>. QED BY <4>1, <4>2, <4>3, <4>4 DEF RowInv
    <3>7. RowInv'
      <4>1. \A r \in outbox' : r.id < nextId'
        BY <2>1, <3>4 DEF RowInv
      <4>2. \A j \in Pollers : /\ \A id \in poll'[j].ids : id < nextId'
                               /\ task'[j].pc \in {"idle", "list"} => poll'[j].ids = {}
        BY <2>1, <3>3, <3>5 DEF RowInv
      <4>3. \A r \in outbox' : r.keyed => r.id \in unhandled' /\ \A j \in Pollers : r.id \notin poll'[j].ids
        BY <2>1, <3>3, <3>4 DEF RowInv
      <4>. QED BY <2>1, <3>6, <4>1, <4>2, <4>3 DEF RowInv
    <3>8. OpenInv'
      <4>1. SUFFICES ASSUME NEW c \in Changes, change[c].row # 0
                     PROVE  /\ change[c].row \notin Ids(rows)
                            /\ \A r \in outbox' : r.id # change[c].row
        BY <2>1, <3>3 DEF OpenInv
      <4>2. \A r \in outbox : r.id # change[c].row
        BY <4>1 DEF OpenInv
      <4>. QED BY <3>4, <3>5, <4>2
    <3>. QED BY <3>7, <3>8
  <2>. QED BY <2>2, <2>3
<1>8. ASSUME NEW i \in Pollers, SetOutboxWatermark(i) PROVE RowInv' /\ OpenInv'
  <2>1. UNCHANGED <<outbox, nextId, change, poll>> /\ unhandled' = unhandled \ poll[i].ids
    BY <1>8 DEF SetOutboxWatermark, rowVars
  <2>2. \A j \in Pollers : task'[j].pc \in {"idle", "list"} => task[j].pc \in {"idle", "list"}
    BY <1>8, Moves, WritersAssumption DEF SetOutboxWatermark, Steps
  <2>. QED BY <2>1, <2>2 DEF RowInv, OpenInv
<1>9. ASSUME NEW i \in Pollers, CleanupConsumedOutbox(i) PROVE RowInv' /\ OpenInv'
  <2>1. UNCHANGED <<nextId, change, unhandled>> /\ outbox' \subseteq outbox
    BY <1>9 DEF CleanupConsumedOutbox, historyVars
  <2>2. \A j \in Pollers : /\ poll'[j].ids \subseteq poll[j].ids
                           /\ task'[j].pc \in {"idle", "list"} => poll'[j].ids = {}
    BY <1>9, GivesUp, WritersAssumption DEF CleanupConsumedOutbox, RowInv
  <2>3. RowInv'
    BY <2>1, <2>2 DEF RowInv
  <2>4. OpenInv'
    BY <2>1, <2>2 DEF OpenInv
  <2>. QED BY <2>3, <2>4
<1>10. ASSUME UNCHANGED <<outbox, nextId, change, unhandled>>,
              ~(\E i \in Pollers : ListAfterAndReleaseDedup(i))
       PROVE  RowInv' /\ OpenInv'
  BY <1>10, PollsKept, IdsKept
<1>11. ASSUME NEW w \in Writers, WriterStep(w) \/ MissSnapshot(w) \/ CallFails(w) \/ Crash(w)
       PROVE  UNCHANGED <<outbox, nextId, change, unhandled>>
  BY <1>11 DEF WriterStep, TryLockBucket, LoadAccounts, AllocateVersion, ActivateVersion,
     FinishRebuild, AcquireLifecycleLease, DecideLifecycle, StartFullRebuild, CaptureCanonicalTask,
     MissSnapshot, CallFails, Crash, outboxVars, rowVars, historyVars
<1>12. ASSUME NEW i \in Pollers, ReadWatermark(i) \/ HandleAccountEvent(i) \/ HandleGroupEvent(i)
       PROVE  UNCHANGED <<outbox, nextId, change, unhandled>>
  BY <1>12
     DEF ReadWatermark, HandleAccountEvent, HandleGroupEvent, outboxVars, rowVars, historyVars
<1>13. CASE ExpireLock \/ ExpireLease \/ UNCHANGED vars
  BY <1>10, <1>7, <1>13 DEF ExpireLock, ExpireLease, vars, outboxVars, rowVars, historyVars
<1>. QED BY <1>1, <1>2, <1>3, <1>4, <1>5, <1>6, <1>7, <1>8, <1>9, <1>10, <1>11, <1>12, <1>13
     DEF Next, ChangeStep, PollStep

-----------------------------------------------------------------------------
(* Announcements                                                             *)

\* A poll that covers the last change goes on to do so, unless it is over.
CoverKept(i) ==
  poll'[i].ids = {} \/ (poll'[i].ids = poll[i].ids /\ (WillCover(i) => WillCover(i)'))

\* Announcements last as long as what the polls cover.
LEMMA AnnouncedKept ==
  ASSUME Announced, \A i \in Pollers : CoverKept(i), unhandled' = unhandled, mixed => mixed',
         \A s \in outbox' : \E r \in outbox : r.id = s.id /\ r.kind = s.kind,
         \A c \in Changes : change[c].stage = "written" /\ Chosen(change[c].kind)
                              => change'[c] = change[c]
  PROVE  Announced'
<1>1. CASE \E c \in Changes : change[c].stage = "written" /\ Chosen(change[c].kind)
  BY <1>1 DEF Announced, Chosen
<1>2. ASSUME NEW id \in unhandled, Announces(id) PROVE Announced'
  <2>1. \A i \in Pollers : id \in poll'[i].ids => WillCover(i)'
    BY <1>2 DEF Announces, CoverKept
  <2>2. \A s \in outbox' : s.id = id => Chosen(s.kind)'
    BY <1>2 DEF Announces, Chosen
  <2>3. Announces(id)'
    BY <2>1, <2>2 DEF Announces
  <2>. QED BY <2>3 DEF Announced
<1>. QED BY <1>1, <1>2 DEF Announced

\* A poll that takes no part in a step.
LEMMA OtherCovers ==
  ASSUME TypeOK, FenceInv, NEW i \in Pollers, task'[i] = task[i], poll'[i] = poll[i],
         members' = members, mixed => mixed', retired' = retired, epoch' \in {epoch, NextToken}
  PROVE  CoverKept(i)
<1>1. i \in Writers
  BY WritersAssumption
<1>2. task[i].pc \in Carrying => epoch' = epoch
  BY <1>1, SameEpoch
<1>. QED BY <1>2 DEF CoverKept, WillCover, Chosen, Fenced, Carrying, Publishing

\* A new event that no poll has read announces the last change.
LEMMA NewAnnouncement ==
  ASSUME NEW id \in unhandled', \A r \in outbox' : r.id = id => Chosen(r.kind)',
         \A i \in Pollers : id \notin poll'[i].ids
  PROVE  Announced'
BY DEF Announced, Announces

\* The steps of changes.
LEMMA ChangeFresh ==
  ASSUME IInv, TypeOK', RowInv', NEW c \in Changes, ChangeStep(c), ~gap'
  PROVE  Settled' \/ Announced'
<1> USE DEF IInv, TypeOK
<1>0. Settled \/ Announced
  <2>1. ~gap
    BY DEF ChangeStep, TxEnqueue, TxCommit, TxRollback, ChangeFirst, EnqueueAfter, EnqueueLost,
       historyVars
  <2>. QED BY <2>1 DEF FreshInv
<1>1. UNCHANGED <<epoch, retired, retirements, active, task, poll>>
  BY DEF ChangeStep, TxEnqueue, TxCommit, TxRollback, ChangeFirst, EnqueueAfter, EnqueueLost,
     bucketVars, fenceVars, snapshotVars
<1>2. ASSUME members' = members, Settled PROVE Settled'
  BY <1>1, <1>2 DEF Settled, Fenced
<1>3. ASSUME members' = members, mixed => mixed' PROVE \A i \in Pollers : CoverKept(i)
  BY <1>1, <1>3, OtherCovers
<1>4. ASSUME NEW kind \in Kinds, TxEnqueue(c, kind) PROVE Settled' \/ Announced'
  <2>1. UNCHANGED <<members, mixed, outbox, unhandled>>
    BY <1>4 DEF TxEnqueue, dbVars, historyVars
  <2>2. \A d \in Changes : change[d].stage = "written" => change'[d] = change[d]
    BY <1>4 DEF TxEnqueue, MayStart
  <2>. QED BY <1>0, <1>2, <1>3, <2>1, <2>2, AnnouncedKept
<1>5. CASE TxCommit(c)
  <2>0. ~Suppressed(change[c]) /\ ~Left(change[c])
    BY <1>5 DEF TxCommit
  <2>1. CASE members' = members
    <3>1. mixed => mixed'
      BY <1>5, <2>0, <2>1 DEF TxCommit, Apply, Left
    <3>2. ASSUME NEW d \in Changes, change[d].stage = "written" /\ Chosen(change[d].kind)
          PROVE  Announced'
      <4>1. change'[d] = change[d]
        BY <1>5, <3>2 DEF TxCommit
      <4>. QED BY <3>1, <3>2, <4>1 DEF Announced, Chosen
    <3>3. ASSUME NEW id \in unhandled, Announces(id) PROVE Announced'
      <4>1. id \in unhandled' /\ \A i \in Pollers : id \in poll'[i].ids => WillCover(i)'
        <5>1. \A i \in Pollers : id \in poll'[i].ids => WillCover(i)'
          BY <1>1, <1>3, <2>1, <3>1, <3>3 DEF Announces, CoverKept
        <5>. QED BY <1>5, <5>1 DEF TxCommit
      <4>2. \A r \in outbox' : r.id = id => Chosen(r.kind)'
        <5>1. change[c].row # 0 => id # change[c].row
          BY DEF OpenInv
        <5>2. Row(change[c].row, change[c].kind).id = change[c].row
          BY DEF Row
        <5>. QED BY <1>5, <3>1, <3>3, <5>1, <5>2 DEF TxCommit, Announces, Chosen
      <4>. QED BY <4>1, <4>2 DEF Announced, Announces
    <3>. QED BY <1>0, <1>2, <2>1, <3>2, <3>3 DEF Announced
  <2>2. ASSUME members' # members, NEW kind, kind = change[c].kind PROVE Chosen(kind)'
    <3>1. change[c].kind # "group" /\ (mixed \/ mixed')
      BY <1>5, <2>2 DEF TxCommit, Apply
    <3>2. change[c].kind = "bulk" \/ mixed'
      BY <2>0, <3>1 DEF Left
    <3>3. change[c].kind \in EventKinds
      BY DEF Entries
    <3>4. change[c].kind = "bulk" \/ (change[c].kind = "account" /\ mixed')
      BY <3>1, <3>2, <3>3 DEF EventKinds
    <3>. QED BY <2>2, <3>4 DEF Chosen
  <2>3. CASE members' # members /\ change[c].row # 0
    <3> DEFINE id == change[c].row
    <3>1. id \in unhandled' /\ Row(id, change[c].kind) \in outbox'
      BY <1>5, <2>3 DEF TxCommit
    <3>2. Row(id, change[c].kind).id = id /\ Row(id, change[c].kind).kind = change[c].kind
      BY DEF Row
    <3>3. \A r \in outbox' : r.id = id => r.kind = change[c].kind
      BY <3>1, <3>2 DEF RowInv
    <3>4. \A i \in Pollers : id \notin poll'[i].ids
      BY <1>1, <2>3 DEF OpenInv
    <3>. QED BY <2>2, <2>3, <3>1, <3>3, <3>4, NewAnnouncement
  <2>4. CASE members' # members /\ change[c].row = 0
    <3>1. outbox' = outbox /\ unhandled' = unhandled
      BY <1>5, <2>4 DEF TxCommit
    <3>2. PICK r \in Conflict(change[c].kind) : r.id = change[c].on
      BY <2>0, <2>4 DEF Suppressed
    <3>3. r \in outbox /\ r.keyed /\ r.kind = change[c].kind
      BY <3>2 DEF Conflict
    <3>4. r.id \in unhandled' /\ \A i \in Pollers : r.id \notin poll'[i].ids
      BY <1>1, <3>1, <3>3 DEF RowInv
    <3>5. \A s \in outbox' : s.id = r.id => s.kind = change[c].kind
      BY <3>1, <3>3 DEF RowInv
    <3>. QED BY <2>2, <2>4, <3>4, <3>5, NewAnnouncement
  <2>. QED BY <2>1, <2>3, <2>4
<1>6. CASE TxRollback(c)
  <2>1. UNCHANGED <<members, mixed, outbox, unhandled>>
    BY <1>6 DEF TxRollback, dbVars, rowVars, historyVars
  <2>2. \A d \in Changes : change[d].stage = "written" => change'[d] = change[d]
    BY <1>6 DEF TxRollback
  <2>. QED BY <1>0, <1>2, <1>3, <2>1, <2>2, AnnouncedKept
<1>7. ASSUME NEW kind \in Kinds, ChangeFirst(c, kind) PROVE Settled' \/ Announced'
  <2>1. UNCHANGED <<mixed, outbox, unhandled>>
    BY <1>7 DEF ChangeFirst, rowVars, historyVars
  <2>2. CASE members' = members
    <3>1. \A d \in Changes : change[d].stage = "written" => change'[d] = change[d]
      BY <1>7 DEF ChangeFirst, MayStart
    <3>. QED BY <1>0, <1>2, <1>3, <2>1, <2>2, <3>1, AnnouncedKept
  <2>3. CASE members' # members
    <3>1. kind # "group" /\ mixed /\ kind \in EventKinds
      BY <1>7, <2>1, <2>3, KindsAssumption DEF ChangeFirst, Apply, EventKinds
    <3>2. change'[c].stage = "written" /\ change'[c].kind = kind
      BY <1>7 DEF ChangeFirst
    <3>. QED BY <2>1, <3>1, <3>2 DEF Announced, Chosen, EventKinds
  <2>. QED BY <2>2, <2>3
<1>8. CASE EnqueueAfter(c)
  <2>1. members' = members /\ mixed' = mixed /\ \A d \in Changes : d # c => change'[d] = change[d]
    BY <1>8 DEF EnqueueAfter, dbVars
  <2>2. CASE Chosen(change[c].kind) /\ Conflict(change[c].kind) = {}
    <3>1. nextId \in unhandled' /\ outbox' = outbox \cup {Row(nextId, change[c].kind)}
      BY <1>8, <2>2 DEF EnqueueAfter
    <3>2. Row(nextId, change[c].kind).id = nextId
          /\ Row(nextId, change[c].kind).kind = change[c].kind
      BY DEF Row
    <3>3. \A r \in outbox' : r.id = nextId => Chosen(r.kind)'
      BY <2>1, <2>2, <3>1, <3>2 DEF RowInv, Chosen
    <3>4. \A i \in Pollers : nextId \notin poll'[i].ids
      BY <1>1 DEF RowInv
    <3>. QED BY <3>1, <3>3, <3>4, NewAnnouncement
  <2>3. CASE Chosen(change[c].kind) /\ Conflict(change[c].kind) # {}
    <3>1. outbox' = outbox /\ unhandled' = unhandled
      BY <1>8, <2>3 DEF EnqueueAfter, rowVars
    <3>2. PICK r \in Conflict(change[c].kind) : TRUE
      BY <2>3
    <3>3. r \in outbox /\ r.keyed /\ r.kind = change[c].kind
      BY <3>2 DEF Conflict
    <3>4. r.id \in unhandled' /\ \A i \in Pollers : r.id \notin poll'[i].ids
      BY <1>1, <3>1, <3>3 DEF RowInv
    <3>5. \A s \in outbox' : s.id = r.id => Chosen(s.kind)'
      BY <2>1, <2>3, <3>1, <3>3 DEF RowInv, Chosen
    <3>. QED BY <3>4, <3>5, NewAnnouncement
  <2>4. CASE ~Chosen(change[c].kind)
    <3>1. ASSUME NEW d \in Changes, change[d].stage = "written" /\ Chosen(change[d].kind)
          PROVE  Announced'
      BY <2>1, <2>4, <3>1 DEF Announced, Chosen
    <3>2. ASSUME NEW id \in unhandled, Announces(id) PROVE Announced'
      <4>1. id \in unhandled' /\ \A i \in Pollers : id \in poll'[i].ids => WillCover(i)'
        <5>1. \A i \in Pollers : id \in poll'[i].ids => WillCover(i)'
          BY <1>1, <1>3, <2>1, <3>2 DEF Announces, CoverKept
        <5>. QED BY <1>8, <5>1 DEF EnqueueAfter
      <4>2. \A r \in outbox' : r.id = id => Chosen(r.kind)'
        <5>1. id # nextId
          BY DEF RowInv
        <5>2. Row(nextId, change[c].kind).id = nextId
          BY DEF Row
        <5>3. outbox' \subseteq outbox \cup {Row(nextId, change[c].kind)}
          BY <1>8 DEF EnqueueAfter, rowVars
        <5>. QED BY <2>1, <3>2, <5>1, <5>2, <5>3 DEF Announces, Chosen
      <4>. QED BY <4>1, <4>2 DEF Announced, Announces
    <3>. QED BY <1>0, <1>2, <2>1, <3>1, <3>2 DEF Announced
  <2>. QED BY <2>2, <2>3, <2>4
<1>9. CASE EnqueueLost(c)
  BY <1>9 DEF EnqueueLost
<1>. QED BY <1>4, <1>5, <1>6, <1>7, <1>8, <1>9 DEF ChangeStep


\* The steps of the rebuild, of the lifecycle and of failures: whoever covers the last
\* change goes on, gives the batch up, or leaves a snapshot that has it.
LEMMA WriterFresh ==
  ASSUME IInv, NEW w \in Writers, WriterStep(w) \/ MissSnapshot(w) \/ CallFails(w) \/ Crash(w),
         ~gap', Announced, ~Settled
  PROVE  Settled' \/ Announced'
<1> USE WritersAssumption, PollersAssumption DEF IInv, TypeOK
<1> DEFINE Others == \A i \in Pollers : i # w => CoverKept(i)
<1>0. ~retired
  BY RetiredSettled
<1>1. members' = members /\ mixed' = mixed
  BY DEF WriterStep, TryLockBucket, LoadAccounts, AllocateVersion, ActivateVersion, FinishRebuild,
     AcquireLifecycleLease, DecideLifecycle, StartFullRebuild, CaptureCanonicalTask, MissSnapshot,
     CallFails, Crash, dbVars
<1>2. ASSUME \A i \in Pollers : CoverKept(i) PROVE Announced'
  <2>1. UNCHANGED <<outbox, change, unhandled>>
    BY DEF WriterStep, TryLockBucket, LoadAccounts, AllocateVersion, ActivateVersion,
           FinishRebuild,
       AcquireLifecycleLease, DecideLifecycle, StartFullRebuild, CaptureCanonicalTask, MissSnapshot,
       CallFails, Crash, outboxVars, rowVars, historyVars
  <2>. QED BY <1>1, <1>2, <2>1, AnnouncedKept
<1>3. ASSUME \A i \in Pollers : i # w => task'[i] = task[i] /\ poll'[i] = poll[i],
             retired' = retired, epoch' \in {epoch, NextToken},
             w \in Pollers => CoverKept(w)
      PROVE  Announced'
  BY <1>1, <1>2, <1>3, OtherCovers
<1>4. CASE TryLockBucket(w)
  <2>1. epoch' = epoch /\ retired' = retired /\ task[w].pc = "lock"
    BY <1>4 DEF TryLockBucket, At, fenceVars
  <2>2. CASE lock = NoOne
    <3>1. /\ \A v \in Writers : v # w => task'[v] = task[v]
          /\ task'[w].pc = "load" /\ task'[w].token = task[w].token /\ poll' = poll
      BY <1>4, <2>2, Moves DEF TryLockBucket, Steps, Rebuilding
    <3>2. w \in Pollers => CoverKept(w)
      BY <2>1, <3>1 DEF CoverKept, WillCover, Fenced, Publishing
    <3>. QED BY <1>3, <2>1, <3>1, <3>2
  <2>3. CASE lock # NoOne /\ task[w].strict
    <3>1. GiveUp(w)
      BY <1>4, <2>3 DEF TryLockBucket
    <3>. QED BY <1>3, <2>1, <3>1, GivesUp DEF CoverKept
  <2>4. CASE lock # NoOne /\ ~task[w].strict
    <3>1. Succeed(w, FALSE) /\ w \notin Pollers
      BY <1>4, <2>4 DEF TryLockBucket
    <3>. QED BY <1>3, <2>1, <3>1, Succeeds
  <2>. QED BY <2>2, <2>3, <2>4
<1>5. CASE LoadAccounts(w)
  <2>1. poll' = poll
    BY <1>5 DEF LoadAccounts
  <2>2. w \in Pollers => CoverKept(w)
    BY <1>1, <1>5, <2>1, Loads DEF CoverKept, WillCover, Fenced, Publishing
  <2>. QED BY <1>3, <1>5, <2>1, <2>2, Loads
<1>6. CASE AllocateVersion(w)
  <2>1. epoch' = epoch /\ retired' = retired /\ poll' = poll /\ task[w].pc = "allocate"
    BY <1>6 DEF AllocateVersion, At, fenceVars
  <2>2. CASE Fenced(task[w].token)
    <3>1. task[w].strict \in BOOLEAN
      BY DEF Tasks
    <3>2. \A v \in Writers : v # w => task'[v] = task[v]
      BY <1>6, <2>2, <3>1, EndsPublish DEF AllocateVersion
    <3>3. ~WillCover(w)
      BY <2>1, <2>2 DEF WillCover, Publishing
    <3>. QED BY <1>3, <2>1, <3>2, <3>3 DEF CoverKept
  <2>3. CASE ~Fenced(task[w].token)
    <3>1. /\ \A v \in Writers : v # w => task'[v] = task[v]
          /\ task'[w].pc = "activate" /\ task'[w].token = task[w].token
          /\ task'[w].data = task[w].data
      BY <1>6, <2>3, Moves DEF AllocateVersion, Steps, Rebuilding
    <3>2. w \in Pollers => CoverKept(w)
      BY <1>1, <2>1, <3>1 DEF CoverKept, WillCover, Fenced, Publishing
    <3>. QED BY <1>3, <2>1, <3>1, <3>2
  <2>. QED BY <2>2, <2>3
<1>7. CASE ActivateVersion(w)
  <2>1. poll' = poll /\ task[w].pc = "activate"
    BY <1>7 DEF ActivateVersion, At
  <2>2. CASE w \in Pollers /\ WillCover(w)
    <3>1. ~Fenced(task[w].token) /\ task[w].data.members = members
      BY <2>1, <2>2 DEF WillCover, Publishing
    <3>2. /\ task[w].data \in Data /\ members \in Nat
          /\ active \in Data \cup {NoSnapshot}
      BY DEF Tasks
    <3>3. CASE HoldsVersion(w)
      BY <1>1, <1>7, <3>1, <3>2, <3>3, Activates, NoSnapshotAssumption DEF Settled
    <3>4. CASE ~HoldsVersion(w)
      <4>1. active # NoSnapshot /\ active' = active /\ active.members <= members
        BY <1>7, <2>1, <3>1, <3>4, Activates DEF LoadInv
      <4>2. ~(task[w].data.members > active'.members)
        BY <1>7, <3>1, <4>1 DEF ActivateVersion, Overtaken
      <4>3. active.members \in Nat
        BY <3>2, <4>1 DEF Data
      <4>4. active.members = members
        BY <3>1, <3>2, <4>1, <4>2, <4>3
      <4>. QED BY <4>1, <4>4 DEF Settled
    <3>. QED BY <3>3, <3>4
  <2>3. CASE ~(w \in Pollers /\ WillCover(w))
    <3>1. w \in Pollers => CoverKept(w)
      BY <2>1, <2>3 DEF CoverKept
    <3>. QED BY <1>3, <1>7, <2>1, <3>1, Activates
  <2>. QED BY <2>2, <2>3
<1>8. CASE FinishRebuild(w)
  <2>1. epoch' = epoch /\ retired' = retired /\ task[w].pc = "unlock"
    BY <1>8 DEF FinishRebuild, At, fenceVars
  <2>2. CASE task[w].err
    <3>1. GiveUp(w)
      BY <1>8, <2>2 DEF FinishRebuild
    <3>. QED BY <1>3, <2>1, <3>1, GivesUp DEF CoverKept
  <2>3. CASE ~task[w].err
    <3>1. Succeed(w, task[w].strict) /\ task[w].strict \in BOOLEAN
      BY <1>8, <2>3 DEF FinishRebuild, Tasks
    <3>2. ~WillCover(w)
      BY <2>1, <2>3 DEF WillCover, Publishing
    <3>. QED BY <1>3, <2>1, <3>1, <3>2, Succeeds DEF CoverKept
  <2>. QED BY <2>2, <2>3
<1>9. CASE AcquireLifecycleLease(w)
  <2>1. epoch' = epoch /\ retired' = retired /\ task[w].pc = "life"
    BY <1>9 DEF AcquireLifecycleLease, At, fenceVars
  <2>2. CASE lease = NoOne
    <3>1. /\ \A v \in Writers : v # w => task'[v] = task[v]
          /\ task'[w].pc = "decide" /\ poll' = poll
      BY <1>9, <2>2 DEF AcquireLifecycleLease, Tasks
    <3>2. w \in Pollers => CoverKept(w)
      BY <1>1, <2>1, <3>1 DEF CoverKept, WillCover, Publishing, Chosen
    <3>. QED BY <1>3, <2>1, <3>1, <3>2
  <2>3. CASE lease # NoOne
    <3>1. GiveUp(w)
      BY <1>9, <2>3 DEF AcquireLifecycleLease
    <3>. QED BY <1>3, <2>1, <3>1, GivesUp DEF CoverKept
  <2>. QED BY <2>2, <2>3
<1>10. CASE DecideLifecycle(w)
  <2>1. CASE RetireBucket
    BY <2>1, RetireSettles
  <2>2. CASE /\ ReopenBucket /\ task'[w].pc = "lock" /\ task'[w].token = NextToken
             /\ poll' = poll
    <3>1. epoch' = NextToken /\ retired' = retired
      BY <1>0, <2>2 DEF ReopenBucket
    <3>2. w \in Pollers => CoverKept(w)
      BY <1>0, <2>2, <3>1 DEF CoverKept, WillCover, Fenced
    <3>. QED BY <1>3, <1>10, <2>2, <3>1, <3>2, Decides
  <2>. QED BY <1>10, <2>1, <2>2, Decides
<1>11. CASE StartFullRebuild(w)
  <2>1. epoch' = epoch /\ retired' = retired /\ poll' = poll /\ w \notin Pollers
    BY <1>11 DEF StartFullRebuild, bucketVars, fenceVars
  <2>2. \A v \in Writers : v # w => task'[v] = task[v]
    BY <1>11, Moves DEF StartFullRebuild, Steps
  <2>. QED BY <1>3, <2>1, <2>2
<1>12. CASE CaptureCanonicalTask(w)
  <2>1. /\ epoch' = NextToken /\ retired' = retired /\ poll' = poll
        /\ task[w].pc = "capture" /\ Begin(w, "lock", NextToken, FALSE)
    BY <1>0, <1>12 DEF CaptureCanonicalTask, At, CaptureBucketWriteToken
  <2>2. NextToken \in Nat /\ "lock" \in Steps
    BY DEF NextToken, Steps
  <2>3. \A v \in Writers : v # w => task'[v] = task[v]
    BY <2>1, <2>2, Begins
  <2>4. ~WillCover(w)
    BY <2>1 DEF WillCover, Publishing
  <2>. QED BY <1>3, <2>1, <2>3, <2>4 DEF CoverKept
<1>13. CASE MissSnapshot(w)
  <2>1. /\ epoch' = NextToken /\ retired' = retired /\ poll' = poll
        /\ w \notin Pollers /\ Begin(w, "load", NextToken, FALSE)
    BY <1>13 DEF MissSnapshot, CaptureBucketWriteToken
  <2>2. NextToken \in Nat /\ "load" \in Steps
    BY DEF NextToken, Steps, Rebuilding
  <2>3. \A v \in Writers : v # w => task'[v] = task[v]
    BY <2>1, <2>2, Begins
  <2>. QED BY <1>3, <2>1, <2>3
<1>14. CASE CallFails(w)
  <2>1. epoch' = epoch /\ retired' = retired
    BY <1>14 DEF CallFails, fenceVars
  <2>2. CASE task[w].pc \in Rebuilding
    <3>1. EndPublish(w, TRUE) /\ poll' = poll /\ w \notin Readers
      BY <1>14, <2>2 DEF CallFails
    <3>2. /\ \A v \in Writers : v # w => task'[v] = task[v]
          /\ w \in Pollers => task'[w].pc = "unlock" /\ task'[w].err
      BY <3>1, EndsPublish
    <3>3. w \in Pollers => CoverKept(w)
      BY <3>1, <3>2 DEF CoverKept, WillCover
    <3>. QED BY <1>3, <2>1, <3>1, <3>2, <3>3
  <2>3. CASE task[w].pc \notin Rebuilding
    <3>1. GiveUp(w)
      BY <1>14, <2>3 DEF CallFails
    <3>. QED BY <1>3, <2>1, <3>1, GivesUp DEF CoverKept
  <2>. QED BY <2>2, <2>3
<1>15. CASE Crash(w)
  <2>1. epoch' = epoch /\ retired' = retired /\ GiveUp(w)
    BY <1>15 DEF Crash, fenceVars
  <2>. QED BY <1>3, <2>1, GivesUp DEF CoverKept
<1>. QED BY <1>4, <1>5, <1>6, <1>7, <1>8, <1>9, <1>10, <1>11, <1>12, <1>13, <1>14, <1>15
     DEF WriterStep

\* The steps of a poll: a batch that announces the last change is handled in full, which
\* rebuilds the bucket once.
LEMMA PollFresh ==
  ASSUME IInv, NEW i \in Pollers, PollStep(i), ~gap', Announced, ~Settled
  PROVE  Settled' \/ Announced'
<1> USE WritersAssumption DEF IInv, TypeOK
<1>0. ~retired
  BY RetiredSettled
<1>1. members' = members /\ mixed' = mixed /\ change' = change
  BY DEF PollStep, ReadWatermark, ListAfterAndReleaseDedup, HandleAccountEvent, HandleGroupEvent,
     SetOutboxWatermark, CleanupConsumedOutbox, dbVars, outboxVars
<1>2. ASSUME UNCHANGED <<retired>>, epoch' \in {epoch, NextToken},
             \A j \in Pollers : j # i => task'[j] = task[j] /\ poll'[j] = poll[j],
             CoverKept(i)
      PROVE  \A j \in Pollers : CoverKept(j)
  BY <1>1, <1>2, OtherCovers
<1>3. CASE ReadWatermark(i)
  <2>1. UNCHANGED <<epoch, retired, outbox, unhandled>> /\ task[i].pc = "idle"
    BY <1>3 DEF ReadWatermark, At, bucketVars, fenceVars, outboxVars, rowVars, historyVars
  <2>2. /\ \A j \in Pollers : j # i => task'[j] = task[j] /\ poll'[j] = poll[j]
        /\ poll'[i].ids = poll[i].ids
    BY <1>3, Moves DEF ReadWatermark, Steps, Polls
  <2>3. ~WillCover(i)
    BY <2>1 DEF WillCover, Publishing
  <2>4. \A j \in Pollers : CoverKept(j)
    BY <1>2, <2>1, <2>2, <2>3 DEF CoverKept
  <2>. QED BY <1>1, <2>1, <2>4, AnnouncedKept
<1>4. CASE ListAfterAndReleaseDedup(i)
  <2> DEFINE rows == Batch(poll[i].wm)
  <2>1. UNCHANGED <<epoch, retired, unhandled>> /\ task[i].pc = "list"
    BY <1>4 DEF ListAfterAndReleaseDedup, At, bucketVars, fenceVars, historyVars
  <2>2. CASE rows = {}
    <3>1. outbox' = outbox /\ GiveUp(i)
      BY <1>4, <2>2 DEF ListAfterAndReleaseDedup
    <3>2. \A j \in Pollers : CoverKept(j)
      BY <1>2, <2>1, <3>1, GivesUp DEF CoverKept
    <3>. QED BY <1>1, <2>1, <3>1, <3>2, AnnouncedKept
  <2>3. CASE rows # {}
    <3>1. outbox' = {[r EXCEPT !.keyed = r.keyed /\ r.id \notin Ids(rows)] : r \in outbox}
      BY <1>4, <2>3 DEF ListAfterAndReleaseDedup
    <3>2. TakeBatch(i, rows)
      BY <1>4, <2>3 DEF ListAfterAndReleaseDedup
    <3>3. /\ \A j \in Pollers : j # i => task'[j] = task[j] /\ poll'[j] = poll[j]
          /\ poll'[i].ids = Ids(rows) /\ poll'[i].batch = rows /\ ~poll'[i].seen
          /\ task'[i].pc = "handle"
      BY <3>2, Moves DEF TakeBatch, NoPoll, Steps
    <3>4. \A s \in outbox' : \E r \in outbox : s.id = r.id /\ s.kind = r.kind
      BY <3>1 DEF Rows
    <3>5. CASE \E c \in Changes : change[c].stage = "written" /\ Chosen(change[c].kind)
      BY <1>1, <3>5 DEF Announced, Chosen
    <3>6. ASSUME NEW id \in unhandled, Announces(id) PROVE Announced'
      <4>1. \A s \in outbox' : s.id = id => Chosen(s.kind)'
        BY <1>1, <3>4, <3>6 DEF Announces, Chosen
      <4>2. ASSUME NEW j \in Pollers, j # i, id \in poll'[j].ids PROVE WillCover(j)'
        <5>1. CoverKept(j)
          BY <1>1, <2>1, <3>3, <4>2, OtherCovers
        <5>. QED BY <3>3, <3>6, <4>2, <5>1 DEF CoverKept, Announces
      <4>3. ASSUME id \in poll'[i].ids PROVE WillCover(i)'
        <5>1. PICK r \in rows : r.id = id
          BY <3>3, <4>3 DEF Ids
        <5>2. r \in outbox
          BY DEF Batch
        <5>3. Chosen(r.kind)
          BY <3>6, <5>1, <5>2 DEF Announces
        <5>4. Chosen(r.kind)'
          BY <1>1, <5>3 DEF Chosen
        <5>. QED BY <3>3, <5>1, <5>4 DEF WillCover
      <4>. QED BY <2>1, <4>1, <4>2, <4>3 DEF Announced, Announces
    <3>. QED BY <3>5, <3>6 DEF Announced
  <2>. QED BY <2>2, <2>3
<1>5. CASE HandleAccountEvent(i)
  <2>1. UNCHANGED <<outbox, unhandled>> /\ task[i].pc = "handle"
    BY <1>5 DEF HandleAccountEvent, At, outboxVars, rowVars, historyVars
  <2>2. PICK r \in Event(i, {"account", "bulk"}) :
          /\ poll' = [poll EXCEPT ![i].batch = @ \ {r}, ![i].seen = @ \/ Chosen(r.kind)]
          /\ IF poll[i].seen \/ retired \/ ~Chosen(r.kind)
             THEN UNCHANGED <<task, fenceVars>>
             ELSE /\ CaptureBucketWriteToken
                  /\ Begin(i, "lock", NextToken, FALSE)
    BY <1>5 DEF HandleAccountEvent
  <2>3. /\ \A j \in Pollers : j # i => poll'[j] = poll[j]
        /\ poll'[i].ids = poll[i].ids /\ poll'[i].batch = poll[i].batch \ {r}
        /\ poll'[i].seen = (poll[i].seen \/ Chosen(r.kind))
    BY <2>2 DEF Polls
  <2>4. CASE poll[i].seen \/ ~Chosen(r.kind)
    <3>1. task' = task /\ epoch' = epoch /\ retired' = retired
      BY <2>2, <2>4 DEF fenceVars
    <3>2. poll[i].seen => ~WillCover(i)
      BY <2>1 DEF WillCover, Publishing
    <3>3. ASSUME ~poll[i].seen, ~Chosen(r.kind) PROVE WillCover(i) => WillCover(i)'
      <4>1. ~poll'[i].seen
        BY <2>3, <3>3
      <4>2. ASSUME NEW s \in poll[i].batch, Chosen(s.kind)
            PROVE  s \in poll'[i].batch /\ Chosen(s.kind)'
        BY <1>1, <2>3, <3>3, <4>2 DEF Chosen
      <4>. QED BY <2>1, <3>1, <4>1, <4>2 DEF WillCover, Publishing
    <3>4. WillCover(i) => WillCover(i)'
      BY <2>4, <3>2, <3>3
    <3>5. \A j \in Pollers : CoverKept(j)
      BY <1>2, <2>3, <3>1, <3>4 DEF CoverKept
    <3>. QED BY <1>1, <2>1, <3>5, AnnouncedKept
  <2>5. CASE ~poll[i].seen /\ Chosen(r.kind)
    <3>1. epoch' = NextToken /\ retired' = retired /\ Begin(i, "lock", NextToken, FALSE)
      BY <1>0, <2>2, <2>5 DEF CaptureBucketWriteToken
    <3>2. NextToken \in Nat /\ "lock" \in Steps
      BY DEF NextToken, Steps
    <3>3. /\ task'[i].pc = "lock" /\ task'[i].token = NextToken
          /\ \A v \in Writers : v # i => task'[v] = task[v]
      BY <3>1, <3>2, Begins
    <3>4. CoverKept(i)
      BY <1>0, <2>3, <3>1, <3>3 DEF CoverKept, WillCover, Fenced
    <3>5. \A j \in Pollers : CoverKept(j)
      BY <1>2, <2>3, <3>1, <3>3, <3>4
    <3>. QED BY <1>1, <2>1, <3>5, AnnouncedKept
  <2>. QED BY <2>4, <2>5
<1>6. CASE HandleGroupEvent(i)
  <2>1. UNCHANGED <<epoch, retired, outbox, unhandled>> /\ task[i].pc = "handle"
    BY <1>6 DEF HandleGroupEvent, At, bucketVars, fenceVars, outboxVars, rowVars, historyVars
  <2>2. PICK r \in Event(i, {"group"}) : poll' = [poll EXCEPT ![i].batch = @ \ {r}]
    BY <1>6 DEF HandleGroupEvent
  <2>3. /\ \A j \in Pollers : j # i => poll'[j] = poll[j]
        /\ poll'[i].ids = poll[i].ids /\ poll'[i].seen = poll[i].seen
        /\ poll'[i].batch = poll[i].batch \ {r} /\ r.kind = "group"
    BY <2>2 DEF Polls, Event
  <2>4. /\ \A v \in Writers : v # i => task'[v] = task[v]
        /\ task'[i].pc \in {"handle", "life"}
    BY <1>6, <2>1, Moves DEF HandleGroupEvent, Steps
  <2>5. WillCover(i) => WillCover(i)'
    BY <1>1, <2>1, <2>3, <2>4 DEF WillCover, Publishing, Chosen
  <2>6. \A j \in Pollers : CoverKept(j)
    BY <1>2, <2>1, <2>3, <2>4, <2>5 DEF CoverKept
  <2>. QED BY <1>1, <2>1, <2>6, AnnouncedKept
<1>7. CASE SetOutboxWatermark(i)
  <2>1. /\ UNCHANGED <<epoch, retired, outbox, poll>> /\ task[i].pc = "handle"
        /\ poll[i].batch = {} /\ unhandled' = unhandled \ poll[i].ids
    BY <1>7 DEF SetOutboxWatermark, At, bucketVars, fenceVars, rowVars
  <2>2. \A j \in Pollers : j # i => task'[j] = task[j]
    BY <1>7, Moves DEF SetOutboxWatermark, Steps
  <2>3. ~WillCover(i)
    BY <2>1 DEF WillCover, Publishing
  <2>4. CASE \E c \in Changes : change[c].stage = "written" /\ Chosen(change[c].kind)
    BY <1>1, <2>4 DEF Announced, Chosen
  <2>5. ASSUME NEW id \in unhandled, Announces(id) PROVE Announced'
    <3>1. id \notin poll[i].ids
      BY <2>3, <2>5 DEF Announces
    <3>2. \A j \in Pollers : CoverKept(j)
      BY <1>2, <2>1, <2>2, <2>3 DEF CoverKept
    <3>. QED BY <1>1, <2>1, <2>5, <3>1, <3>2 DEF Announced, Announces, CoverKept, Chosen
  <2>. QED BY <2>4, <2>5 DEF Announced
<1>8. CASE CleanupConsumedOutbox(i)
  <2>1. UNCHANGED <<epoch, retired, unhandled>> /\ outbox' \subseteq outbox /\ GiveUp(i)
    BY <1>8 DEF CleanupConsumedOutbox, bucketVars, fenceVars, historyVars
  <2>2. \A j \in Pollers : CoverKept(j)
    BY <1>2, <2>1, GivesUp DEF CoverKept
  <2>. QED BY <1>1, <2>1, <2>2, AnnouncedKept
<1>. QED BY <1>3, <1>4, <1>5, <1>6, <1>7, <1>8 DEF PollStep

\* Every step keeps the last change in the snapshot or announced.
LEMMA NextFresh == IInv /\ TypeOK' /\ RowInv' /\ [Next]_vars => FreshInv'
<1> SUFFICES ASSUME IInv, TypeOK', RowInv', [Next]_vars, ~gap' PROVE Settled' \/ Announced'
  BY DEF FreshInv
<1>1. ASSUME NEW c \in Changes, ChangeStep(c) PROVE Settled' \/ Announced'
  BY <1>1, ChangeFresh
<1>2. ASSUME ~(\E c \in Changes : ChangeStep(c)) PROVE members' = members
  BY <1>2 DEF Next, WriterStep, PollStep, TryLockBucket, LoadAccounts, AllocateVersion,
     ActivateVersion, FinishRebuild, AcquireLifecycleLease, DecideLifecycle, StartFullRebuild,
     CaptureCanonicalTask, MissSnapshot, CallFails, Crash, ReadWatermark, ListAfterAndReleaseDedup,
     HandleAccountEvent, HandleGroupEvent, SetOutboxWatermark, CleanupConsumedOutbox, ExpireLock,
     ExpireLease, vars, dbVars
<1>3. ASSUME ~(\E c \in Changes : ChangeStep(c)), Settled PROVE Settled'
  BY <1>2, <1>3, SettledKept DEF IInv
<1>4. ASSUME ~(\E c \in Changes : ChangeStep(c)) PROVE ~gap
  BY <1>4 DEF Next, WriterStep, PollStep, TryLockBucket, LoadAccounts, AllocateVersion,
     ActivateVersion, FinishRebuild, AcquireLifecycleLease, DecideLifecycle, StartFullRebuild,
     CaptureCanonicalTask, MissSnapshot, CallFails, Crash, ReadWatermark, ListAfterAndReleaseDedup,
     HandleAccountEvent, HandleGroupEvent, SetOutboxWatermark, CleanupConsumedOutbox, ExpireLock,
     ExpireLease, vars, historyVars
<1>5. ASSUME NEW w \in Writers, WriterStep(w) \/ MissSnapshot(w) \/ CallFails(w) \/ Crash(w),
             ~Settled, Announced
      PROVE  Settled' \/ Announced'
  BY <1>5, WriterFresh
<1>6. ASSUME NEW i \in Pollers, PollStep(i), ~Settled, Announced PROVE Settled' \/ Announced'
  BY <1>6, PollFresh
<1>7. ASSUME ExpireLock \/ ExpireLease \/ UNCHANGED vars, Announced PROVE Announced'
  <2>1. UNCHANGED <<epoch, retired, members, mixed, task, poll, change, outbox, unhandled>>
    BY <1>7 DEF ExpireLock, ExpireLease, vars, bucketVars, fenceVars, dbVars, outboxVars, rowVars,
       historyVars
  <2>2. \A i \in Pollers : CoverKept(i)
    BY <2>1, OtherCovers DEF IInv
  <2>. QED BY <1>7, <2>1, <2>2, AnnouncedKept
<1>8. ~gap => Settled \/ Announced
  BY DEF IInv, FreshInv
<1>. QED BY <1>1, <1>3, <1>4, <1>5, <1>6, <1>7, <1>8 DEF Next

\* The invariant is inductive.
LEMMA NextIInv == IInv /\ [Next]_vars => IInv'
BY NextType, NextFence, NextLoad, NextIds, NextFresh DEF IInv

\* The inductive invariant holds always.
THEOREM Invariance == Spec => []IInv
BY InitIInv, NextIInv, PTL DEF Spec

-----------------------------------------------------------------------------
\* Every variable keeps its type.
THEOREM TypeCorrect == Spec => []TypeOK
<1>1. IInv => TypeOK
  BY DEF IInv
<1>. QED BY <1>1, Invariance, PTL

\* No snapshot that was loaded before a bucket was retired is ever served after it: the
\* epoch that retireBucketScript opens fences every writer from before.
THEOREM FencedByEpoch == Spec => []NoSnapshotFromBeforeRetirement
<1>1. IInv => NoSnapshotFromBeforeRetirement
  BY DEF IInv, FenceInv
<1>. QED BY <1>1, Invariance, PTL

\* Once every event was handled by a poll that went through with its batch, the snapshot
\* has every change, unless one of the five named gaps occurred (pollOutbox,
\* ListAfterAndReleaseDedup, enqueueSchedulerOutbox).
THEOREM FreshWhenDrained == Spec => []DrainedMeansFresh
<1>1. IInv => DrainedMeansFresh
  <2> SUFFICES ASSUME IInv, Drained, ~gap, active # NoSnapshot PROVE active.members = members
    BY DEF DrainedMeansFresh
  <2>1. ~Announced
    BY DEF Drained, Announced
  <2>. QED BY <2>1 DEF IInv, FreshInv, Settled
<1>. QED BY <1>1, Invariance, PTL

=============================================================================
