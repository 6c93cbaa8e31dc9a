--------------------------- MODULE SchedulerBucket ---------------------------
(***************************************************************************)
(* What Redis keeps for one scheduler bucket, and the scripts that change  *)
(* it (repository/scheduler_cache.go): the epoch of its writers, the       *)
(* retired mark, the active snapshot, the rebuild lock, and the lifecycle  *)
(* lease of its group.                                                     *)
(*                                                                         *)
(* A version is a number that only grows, and only its order counts, so    *)
(* the model keeps that order, among the writers that hold a version newer *)
(* than the active one.  Any other writer's version is one that            *)
(* activateSnapshotScript finds too old.                                   *)
(* The bucket is a member of the set of registered buckets exactly while   *)
(* it has an active snapshot: the same scripts write both.                 *)
(***************************************************************************)
EXTENDS Naturals

CONSTANTS
  Writers,      \* whoever may publish a snapshot
  NoOne,        \* a lock or a lease nobody holds
  NoSnapshot    \* no active version

Data == [members : Nat, era : Nat]

ASSUME NoOneAssumption == NoOne \notin Writers
ASSUME NoSnapshotAssumption == NoSnapshot \notin Data

VARIABLES
  epoch,        \* sched:epoch, 0 while the key is missing
  retired,      \* sched:retired exists
  retirements,  \* history: how often the bucket was retired
  active,       \* the active snapshot: the members and the retirements it was loaded at
  allocated,    \* pairs <<v, w>> of writers with a version newer than the active one: v
                \* is w or its version is older
  lock,         \* holder of sched:lock
  lease         \* holder of sched:group:lifecycle-lock

fenceVars == <<epoch, retired, retirements>>
snapshotVars == <<active, allocated>>
bucketVars == <<fenceVars, snapshotVars, lock, lease>>

\* The bucket before anything was published.
Unused ==
  /\ epoch = 0 /\ retired = FALSE /\ retirements = 0 /\ active = NoSnapshot
  /\ allocated = {} /\ lock = NoOne /\ lease = NoOne

\* captureBucketWriteTokenScript on a bucket that is not retired: the token is
\* NextToken, and a bucket without an epoch gets its first.
NextToken == IF epoch = 0 THEN 1 ELSE epoch

CaptureBucketWriteToken ==
  /\ ~retired
  /\ epoch' = NextToken
  /\ UNCHANGED <<retired, retirements>>

\* What allocate and activate refuse: a retired bucket, a token of another epoch.
Fenced(token) == retired \/ epoch # token

\* The writer's version is newer than the active one.
HoldsVersion(w) == <<w, w>> \in allocated

AllocateSnapshotVersion(w) ==
  allocated' = allocated \cup {<<v, w>> : v \in {u \in Writers : HoldsVersion(u)} \cup {w}}

KeepVersions(S) == allocated' = {p \in allocated : p[1] \in S /\ p[2] \in S}

\* A writer that gives up leaves its version unused.
AbandonVersion(w) == KeepVersions(Writers \ {w})

\* activateSnapshotScript after its fences: it switches to the version unless a newer
\* one is active, and says nothing of the difference.
ActivateSnapshot(w, d) ==
  IF HoldsVersion(w)
  THEN /\ active' = d
       /\ KeepVersions({v \in Writers \ {w} : <<w, v>> \in allocated})
  ELSE UNCHANGED snapshotVars

\* Mutant: writers from before the retirement keep their epoch.
RetireBucketSameEpoch ==
  /\ retired' = TRUE
  /\ retirements' = IF retired THEN retirements ELSE retirements + 1
  /\ epoch' = NextToken
  /\ active' = NoSnapshot
  /\ UNCHANGED allocated

\* retireBucketScript: only the first retirement opens a new epoch.
RetireBucket ==
  /\ retired' = TRUE
  /\ retirements' = IF retired THEN retirements ELSE retirements + 1
  /\ epoch' = IF retired THEN epoch ELSE epoch + 1
  /\ active' = NoSnapshot
  /\ UNCHANGED allocated

\* reopenBucketScript: the mark goes, the epoch stays; a bucket that was not retired
\* is left as it is.
ReopenBucket ==
  /\ retired' = FALSE
  /\ epoch' = NextToken
  /\ active' = IF retired THEN NoSnapshot ELSE active
  /\ UNCHANGED <<allocated, retirements>>

\* UnlockBucket deletes the lock whoever holds it.
UnlockBucket == lock' = NoOne

=============================================================================
