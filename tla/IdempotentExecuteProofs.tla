---------------------- MODULE IdempotentExecuteProofs -----------------------
(***************************************************************************)
(* Proofs about IdempotentExecute for any requests and payloads, any       *)
(* lease, time to live and backoff, and any number of faults.              *)
(***************************************************************************)
EXTENDS IdempotentExecute, TLAPS

\* Ids are never reused, so a request that remembers an id remembers a row with
\* its own fingerprint, however often that row was taken over; and the stored
\* result belongs to the row's fingerprint.
IdInv ==
  /\ row.id <= lastId /\ (row.id = 0 <=> row.status = "none")
  /\ row.status = "succeeded" => body = row.fingerprint
  /\ ~mixedUp
  /\ \A r \in Requests :
       /\ now[r] <= clock
       /\ pc[r] \in Executing =>
            /\ recordId[r] # 0 /\ recordId[r] <= lastId
            /\ recordId[r] = row.id => row.fingerprint = payload[r]
       /\ pc[r] \in {"reclaimExpired", "reclaim"} =>
            /\ existing[r].id # 0 /\ existing[r].id <= lastId
            /\ existing[r].id = row.id => row.fingerprint = payload[r]

\* As long as nobody was late, the row says who executes: it is processing and
\* not expired; and a live processing row is locked for everyone who remembers it
\* as processing, whether its executor still runs or has crashed.
ExecInv ==
  ~late =>
    /\ \A r \in Requests : pc[r] \in Executing =>
         /\ recordId[r] = row.id /\ row.status = "processing" /\ clock < row.expiresAt
         /\ \A s \in Requests : pc[s] \in Executing => s = r
    /\ row.status = "processing" /\ clock < row.expiresAt =>
         \A s \in Requests :
           pc[s] = "reclaimExpired" /\ existing[s].id = row.id /\ existing[s].status = "processing"
             => now[s] < row.lockedUntil

\* And the row and the executor say whether the operation has taken effect, as
\* long as no live success was taken over.
EffectInv ==
  ~late /\ ~retaken =>
    /\ effects \in {0, 1}
    /\ row.status = "succeeded" => effects = 1
    /\ row.status = "failed_retryable" => effects = 0
    /\ \A r \in Requests :
         /\ pc[r] \in {"execute", "markFailed"} => effects = 0
         /\ pc[r] = "markSucceeded" => effects = 1

\* The inductive invariant.
IInv == TypeOK /\ IdInv /\ ExecInv /\ EffectInv

-----------------------------------------------------------------------------
\* What an UPDATE of the row leaves and what it changes.
LEMMA RowUpdate ==
  ASSUME StoreTypeOK, NEW st \in RowStatuses, NEW lock \in Nat, NEW expiry \in Nat
  PROVE  LET new == [row EXCEPT !.status = st, !.lockedUntil = lock, !.expiresAt = expiry]
         IN /\ new \in Rows /\ new.id = row.id /\ new.fingerprint = row.fingerprint
            /\ new.status = st /\ new.lockedUntil = lock /\ new.expiresAt = expiry
BY DEF StoreTypeOK, Rows

\* The fields of the row have their types.
LEMMA RowFields ==
  ASSUME StoreTypeOK
  PROVE  /\ row.id \in Nat /\ row.fingerprint \in Payloads \cup {None}
         /\ row.status \in RowStatuses /\ row.lockedUntil \in Nat /\ row.expiresAt \in Nat
         /\ lastId \in Nat /\ clock \in Nat
BY MaxClockAssumption DEF StoreTypeOK, Rows

\* A request that returns leaves every local variable well typed.
LEMMA ReturnTypes ==
  ASSUME RequestTypeOK, NEW r \in Requests, Return(r)
  PROVE  RequestTypeOK'
BY MaxClockAssumption DEF RequestTypeOK, Return, Goto, Nothing, RowStatuses, Steps

\* So does one that claims the record.
LEMMA ClaimTypes ==
  ASSUME RequestTypeOK, NEW r \in Requests, NEW id \in Nat, Claim(r, id),
         UNCHANGED <<payload, now, existing>>
  PROVE  RequestTypeOK'
<1>1. pc' \in [Requests -> Steps]
  BY DEF RequestTypeOK, Claim, Goto, Steps, Executing
<1>2. recordId' \in [Requests -> Nat]
  BY DEF RequestTypeOK, Claim
<1>3. renewing' \in [Requests -> BOOLEAN]
  BY DEF RequestTypeOK, Claim
<1>. QED BY <1>1, <1>2, <1>3 DEF RequestTypeOK

\* And one that remembers the row it read.
LEMMA RememberTypes ==
  ASSUME RequestTypeOK, StoreTypeOK, NEW r \in Requests, Remember(r),
         NEW step \in Steps, Goto(r, step), UNCHANGED <<payload, now, recordId, renewing>>
  PROVE  RequestTypeOK'
<1>1. existing' \in [Requests -> [id : Nat, status : RowStatuses]]
  BY RowFields DEF RequestTypeOK, Remember
<1>2. pc' \in [Requests -> Steps]
  BY DEF RequestTypeOK, Goto
<1>. QED BY <1>1, <1>2 DEF RequestTypeOK

\* Claim times are natural numbers.
LEMMA ClaimTimes ==
  ASSUME RequestTypeOK, NEW r \in Requests
  PROVE  ClaimLock(r) \in Nat /\ ClaimExpiry(r) \in Nat /\ now[r] \in Nat
BY LeaseAssumption, TtlAssumption, MaxClockAssumption
   DEF RequestTypeOK, ClaimLock, ClaimExpiry

\* What a takeover leaves and what it changes.
LEMMA ReclaimUpdate ==
  ASSUME StoreTypeOK, RequestTypeOK, NEW r \in Requests, NEW id, NEW from, NEW t,
         TryReclaim(id, from, t, ClaimLock(r), ClaimExpiry(r))
  PROVE  /\ row'.id = row.id /\ row'.fingerprint = row.fingerprint
         /\ row'.status = "processing" /\ row'.lockedUntil = ClaimLock(r)
         /\ row'.expiresAt = ClaimExpiry(r) /\ row' \in Rows
<1>1. row' = [row EXCEPT !.status = "processing", !.lockedUntil = ClaimLock(r),
                         !.expiresAt = ClaimExpiry(r)]
  BY DEF TryReclaim
<1>2. "processing" \in RowStatuses
  BY DEF RowStatuses
<1>3. ClaimLock(r) \in Nat /\ ClaimExpiry(r) \in Nat
  BY ClaimTimes
<1>. QED BY <1>1, <1>2, <1>3 DEF StoreTypeOK, Rows

\* What a renewal leaves and what it changes.
LEMMA RenewUpdate ==
  ASSUME StoreTypeOK, NEW id, NEW fp,
         ExtendProcessingLock(id, fp, clock + Lease, clock + Ttl)
  PROVE  /\ row'.id = row.id /\ row'.fingerprint = row.fingerprint
         /\ row'.status = row.status /\ row'.lockedUntil = clock + Lease
         /\ row'.expiresAt = clock + Ttl /\ row' \in Rows
<1>1. row' = [row EXCEPT !.lockedUntil = clock + Lease, !.expiresAt = clock + Ttl]
  BY DEF ExtendProcessingLock
<1>2. clock + Lease \in Nat /\ clock + Ttl \in Nat /\ row.status \in RowStatuses
  BY RowFields, LeaseAssumption, TtlAssumption
<1>. QED BY <1>1, <1>2 DEF StoreTypeOK, Rows

\* A claim that leaves nobody late was made within its own lease.
LEMMA OnTime ==
  ASSUME StoreTypeOK, RequestTypeOK, NEW r \in Requests, NEW id, Claim(r, id), ~late'
  PROVE  ~late /\ clock < ClaimExpiry(r) /\ clock < ClaimLock(r)
<1>1. ~late /\ ~(ClaimLock(r) <= clock) /\ ~(ClaimExpiry(r) <= clock)
  BY Zenon DEF Claim
<1>. QED BY <1>1, RowFields, ClaimTimes

\* An empty store and idle requests satisfy the invariant.
LEMMA InitIInv == Init => IInv
<1> SUFFICES ASSUME Init PROVE IInv
  OBVIOUS
<1> USE MaxClockAssumption, MaxFaultsAssumption
<1>1. StoreTypeOK
  BY DEF Init, StoreTypeOK, Rows, NoRow, RowStatuses
<1>2. RequestTypeOK
  BY DEF Init, RequestTypeOK, Steps, Nothing, RowStatuses
<1>3. HistoryTypeOK
  <2>1. effects \in 0..2 /\ faults \in 0..MaxFaults
    BY DEF Init
  <2>. QED BY <2>1 DEF Init, HistoryTypeOK
<1>4. IdInv /\ ExecInv /\ EffectInv
  BY DEF Init, IdInv, ExecInv, EffectInv, NoRow, Nothing, Executing
<1>. QED BY <1>1, <1>2, <1>3, <1>4 DEF IInv, TypeOK

\* Every step of every request, of the cleanup and of the clock keeps it.
LEMMA NextIInv == IInv /\ [Next]_vars => IInv'
<1> SUFFICES ASSUME IInv, [Next]_vars PROVE IInv'
  OBVIOUS
<1> USE LeaseAssumption, TtlAssumption, BackoffAssumption, MaxClockAssumption,
        MaxFaultsAssumption, NoneAssumption
    DEF IInv, TypeOK, store
<1>1. CASE Cleanup
  <2>1. StoreTypeOK'
    BY <1>1 DEF StoreTypeOK, Cleanup, DeleteExpired, NoRow, Rows, RowStatuses,
       RequestTypeOK
  <2>2. RequestTypeOK'
    BY <1>1 DEF RequestTypeOK, Cleanup, DeleteExpired, NoRow, StoreTypeOK,
       Rows, Steps, Executing, RowStatuses
  <2>3. HistoryTypeOK'
    BY <1>1 DEF HistoryTypeOK, Cleanup, DeleteExpired, NoRow, RequestTypeOK
  <2>4. IdInv'
    BY <1>1 DEF IdInv, Cleanup, DeleteExpired, NoRow, StoreTypeOK,
       RequestTypeOK, HistoryTypeOK, Rows, Executing, Steps
  <2>5. ExecInv'
    BY <1>1 DEF ExecInv, Cleanup, DeleteExpired, NoRow, IdInv, Executing,
       StoreTypeOK, RequestTypeOK, HistoryTypeOK, Rows
  <2>6. EffectInv'
    BY <1>1 DEF EffectInv, Cleanup, DeleteExpired, NoRow, IdInv, ExecInv,
       Executing, StoreTypeOK, RequestTypeOK, HistoryTypeOK, Rows
  <2>. QED BY <2>1, <2>2, <2>3, <2>4, <2>5, <2>6
<1>2. CASE Tick
  <2>1. StoreTypeOK'
    BY <1>2 DEF StoreTypeOK, Tick, Rows, RowStatuses, RequestTypeOK
  <2>2. RequestTypeOK'
    BY <1>2 DEF RequestTypeOK, Tick, StoreTypeOK, Rows, Steps, Executing,
       RowStatuses
  <2>3. HistoryTypeOK'
    BY <1>2 DEF HistoryTypeOK, Tick, RequestTypeOK
  <2>4. IdInv'
    BY <1>2 DEF IdInv, Tick, StoreTypeOK, RequestTypeOK, HistoryTypeOK, Rows,
       Executing, Steps
  <2>5. ExecInv'
    <3> SUFFICES ASSUME ~late' PROVE ExecInv'
      BY DEF ExecInv
    <3>1. ~late /\ UNCHANGED <<row, pc, now, existing, recordId>> /\ clock' = clock + 1
      BY <1>2 DEF Tick
    <3>2. \A r \in Requests : pc[r] \in Executing => clock' < row.expiresAt
      <4> SUFFICES ASSUME NEW r \in Requests, pc[r] \in Executing PROVE clock' < row.expiresAt
        OBVIOUS
      <4>1. ~(row.expiresAt <= clock + 1)
        BY <1>2 DEF Tick
      <4>. QED BY <3>1, <4>1, RowFields
    <3>3. clock' < row.expiresAt => clock < row.expiresAt
      BY <3>1, RowFields
    <3>. QED BY <3>1, <3>2, <3>3 DEF ExecInv
  <2>6. EffectInv'
    BY <1>2 DEF EffectInv, Tick, IdInv, ExecInv, Executing, StoreTypeOK,
       RequestTypeOK, HistoryTypeOK, Rows
  <2>. QED BY <2>1, <2>2, <2>3, <2>4, <2>5, <2>6
<1>3. ASSUME NEW r \in Requests, NEW p \in Payloads, Start(r, p) PROVE IInv'
  <2>1. StoreTypeOK'
    BY <1>3 DEF StoreTypeOK, Start, Goto, Rows, RowStatuses, RequestTypeOK
  <2>2. RequestTypeOK'
    BY <1>3 DEF RequestTypeOK, Start, Goto, StoreTypeOK, Rows, Steps,
       Executing, RowStatuses
  <2>3. HistoryTypeOK'
    BY <1>3 DEF HistoryTypeOK, Start, Goto, RequestTypeOK
  <2>4. IdInv'
    BY <1>3 DEF IdInv, Start, Goto, StoreTypeOK, RequestTypeOK, HistoryTypeOK,
       Rows, Executing, Steps
  <2>5. ExecInv'
    BY <1>3 DEF ExecInv, Start, Goto, IdInv, Executing, StoreTypeOK,
       RequestTypeOK, HistoryTypeOK, Rows
  <2>6. EffectInv'
    BY <1>3 DEF EffectInv, Start, Goto, IdInv, ExecInv, Executing,
       StoreTypeOK, RequestTypeOK, HistoryTypeOK, Rows
  <2>. QED BY <2>1, <2>2, <2>3, <2>4, <2>5, <2>6
<1>4. ASSUME NEW r \in Requests, Create(r) PROVE IInv'
  <2>1. StoreTypeOK'
    BY <1>4 DEF StoreTypeOK, Create, Claim, Goto, ClaimLock, ClaimExpiry,
       CreateProcessing, Rows, RowStatuses, RequestTypeOK
  <2>2. RequestTypeOK'
    <3>1. CASE row.id = 0
      BY <1>4, <3>1, ClaimTypes, RowFields DEF Create
    <3>2. CASE row.id # 0
      BY <1>4, <3>2 DEF Create, CreateProcessing, Goto, RequestTypeOK, Steps
    <3>. QED BY <3>1, <3>2
  <2>3. HistoryTypeOK'
    <3>1. effects' \in 0..2
      BY <1>4 DEF Create, NewWindow, HistoryTypeOK
    <3>2. late' \in BOOLEAN /\ retaken' \in BOOLEAN
      BY <1>4 DEF Create, NewWindow, Claim, HistoryTypeOK
    <3>. QED BY <1>4, <3>1, <3>2 DEF Create, HistoryTypeOK
  <2>4. IdInv'
    BY <1>4 DEF IdInv, Create, Claim, Goto, ClaimLock, ClaimExpiry,
       CreateProcessing, StoreTypeOK, RequestTypeOK, HistoryTypeOK, Rows,
       Executing, Steps
  <2>5. ExecInv'
    <3>1. CASE row.id = 0
      <4> SUFFICES ASSUME ~late' PROVE ExecInv'
        BY DEF ExecInv
      <4>1. ~late /\ clock < ClaimExpiry(r)
        BY <1>4, <3>1, OnTime DEF Create
      <4>2. \A s \in Requests : pc[s] \notin Executing
        BY <3>1, <4>1 DEF ExecInv, IdInv
      <4>3. /\ row'.id = lastId + 1 /\ row'.status = "processing"
            /\ row'.expiresAt = ClaimExpiry(r) /\ clock' = clock
            /\ recordId'[r] = lastId + 1 /\ existing' = existing
        BY <1>4, <3>1 DEF Create, CreateProcessing, Claim, RequestTypeOK
      <4>4. \A s \in Requests : /\ s # r => pc'[s] = pc[s]
                                /\ s = r => pc'[s] = "execute"
        BY <1>4, <3>1 DEF Create, Claim, Goto, RequestTypeOK
      <4>5. \A s \in Requests : pc'[s] = "reclaimExpired" => existing[s].id <= lastId
                                                           /\ existing[s].id \in Nat
        BY <4>4 DEF IdInv, RequestTypeOK
      <4>. QED BY <4>1, <4>2, <4>3, <4>4, <4>5, RowFields DEF ExecInv, Executing
    <3>2. CASE row.id # 0
      BY <1>4, <3>2 DEF Create, CreateProcessing, Goto, RequestTypeOK, ExecInv, Executing
    <3>. QED BY <3>1, <3>2
  <2>6. EffectInv'
    <3> SUFFICES ASSUME ~late', ~retaken' PROVE EffectInv'
      BY DEF EffectInv
    <3>1. CASE row.id = 0
      <4>1. ~late
        BY <1>4, <3>1 DEF Create, Claim
      <4>2. \A s \in Requests : pc[s] \notin Executing
        BY <3>1, <4>1 DEF ExecInv, IdInv
      <4>3. row'.status = "processing" /\ effects' = 0
        BY <1>4, <3>1 DEF Create, CreateProcessing, NewWindow
      <4>4. \A s \in Requests : pc'[s] = IF s = r THEN "execute" ELSE pc[s]
        BY <1>4, <3>1 DEF Create, Claim, Goto, RequestTypeOK
      <4>. QED BY <4>2, <4>3, <4>4 DEF EffectInv, Executing
    <3>2. CASE row.id # 0
      BY <1>4, <3>2 DEF Create, CreateProcessing, Goto, RequestTypeOK, EffectInv
    <3>. QED BY <3>1, <3>2
  <2>. QED BY <2>1, <2>2, <2>3, <2>4, <2>5, <2>6
<1>5. ASSUME NEW r \in Requests, GetByScopeAndKeyHash(r) PROVE IInv'
  <2>1. StoreTypeOK'
    BY <1>5 DEF StoreTypeOK, GetByScopeAndKeyHash, Return, Goto, Nothing,
       ByStatus, Remember, Rows, RowStatuses, RequestTypeOK
  <2>2. RequestTypeOK'
    <3>1. ASSUME Return(r) PROVE RequestTypeOK'
      BY <3>1, ReturnTypes
    <3>2. ASSUME NEW step \in Steps, Remember(r), Goto(r, step),
                 UNCHANGED <<payload, now, recordId, renewing>>
          PROVE  RequestTypeOK'
      BY <3>2, RememberTypes
    <3>3. "reclaim" \in Steps /\ "reclaimExpired" \in Steps
      BY DEF Steps
    <3>. QED BY <1>5, <3>1, <3>2, <3>3 DEF GetByScopeAndKeyHash, ByStatus
  <2>3. HistoryTypeOK'
    BY <1>5 DEF HistoryTypeOK, GetByScopeAndKeyHash, Return, Goto, Nothing,
       ByStatus, Remember, RequestTypeOK
  <2>4. IdInv'
    BY <1>5 DEF IdInv, GetByScopeAndKeyHash, Return, Goto, Nothing, ByStatus,
       Remember, StoreTypeOK, RequestTypeOK, HistoryTypeOK, Rows, Executing,
       Steps
  <2>5. ExecInv'
    BY <1>5 DEF ExecInv, GetByScopeAndKeyHash, Return, Goto, Nothing,
       ByStatus, Remember, IdInv, Executing, StoreTypeOK, RequestTypeOK,
       HistoryTypeOK, Rows
  <2>6. EffectInv'
    BY <1>5 DEF EffectInv, GetByScopeAndKeyHash, Return, Goto, Nothing,
       ByStatus, Remember, IdInv, ExecInv, Executing, StoreTypeOK,
       RequestTypeOK, HistoryTypeOK, Rows
  <2>. QED BY <2>1, <2>2, <2>3, <2>4, <2>5, <2>6
<1>6. ASSUME NEW r \in Requests, ReclaimExpired(r) PROVE IInv'
  <2>1. StoreTypeOK'
    <3> DEFINE took == Reclaimable(existing[r].id, existing[r].status, now[r])
    <3>1. CASE took
      <4>0. TryReclaim(existing[r].id, existing[r].status, now[r], ClaimLock(r), ClaimExpiry(r))
        BY <1>6, <3>1 DEF ReclaimExpired
      <4>1. /\ row'.id = row.id /\ row'.fingerprint = row.fingerprint
            /\ row'.status = "processing" /\ row'.lockedUntil = ClaimLock(r)
            /\ row'.expiresAt = ClaimExpiry(r) /\ row' \in Rows
        BY <4>0, ReclaimUpdate
      <4>. QED BY <1>6, <3>1, <4>1 DEF ReclaimExpired, TryReclaim, StoreTypeOK
    <3>2. CASE ~took
      BY <1>6, <3>2 DEF ReclaimExpired, TryReclaim, StoreTypeOK
    <3>. QED BY <3>1, <3>2
  <2>2. RequestTypeOK'
    <3>1. CASE Reclaimable(existing[r].id, existing[r].status, now[r])
      <4>1. existing[r].id \in Nat
        BY DEF RequestTypeOK
      <4>. QED BY <1>6, <3>1, <4>1, ClaimTypes DEF ReclaimExpired
    <3>2. CASE ~Reclaimable(existing[r].id, existing[r].status, now[r])
      BY <1>6, <3>2 DEF ReclaimExpired, TryReclaim, Goto, RequestTypeOK, Steps
    <3>. QED BY <3>1, <3>2
  <2>3. HistoryTypeOK'
    <3>1. effects' \in 0..2
      BY <1>6 DEF ReclaimExpired, NewWindow, HistoryTypeOK
    <3>2. late' \in BOOLEAN /\ retaken' \in BOOLEAN
      BY <1>6 DEF ReclaimExpired, NewWindow, Claim, HistoryTypeOK
    <3>. QED BY <1>6, <3>1, <3>2 DEF ReclaimExpired, HistoryTypeOK
  <2>4. IdInv'
    <3> DEFINE took == Reclaimable(existing[r].id, existing[r].status, now[r])
    <3>1. CASE took
      <4>0. TryReclaim(existing[r].id, existing[r].status, now[r], ClaimLock(r), ClaimExpiry(r))
        BY <1>6, <3>1 DEF ReclaimExpired
      <4>1. /\ row'.id = row.id /\ row'.fingerprint = row.fingerprint
            /\ row'.status = "processing" /\ row'.lockedUntil = ClaimLock(r)
            /\ row'.expiresAt = ClaimExpiry(r) /\ row' \in Rows
        BY <4>0, ReclaimUpdate
      <4>2. /\ \A s \in Requests : /\ s # r => pc'[s] = pc[s] /\ recordId'[s] = recordId[s]
                                   /\ s = r => pc'[s] = "execute" /\ recordId'[s] = row.id
            /\ UNCHANGED <<lastId, clock, payload, now, existing, body, mixedUp>>
        BY <1>6, <3>1 DEF ReclaimExpired, TryReclaim, Reclaimable, Claim, Goto, RequestTypeOK
      <4>3. row.id # 0 /\ row.id = existing[r].id /\ row.fingerprint = payload[r]
        BY <1>6, <3>1 DEF ReclaimExpired, Reclaimable, IdInv
      <4>. QED BY <4>1, <4>2, <4>3 DEF IdInv, Executing
    <3>2. CASE ~took
      BY <1>6, <3>2
         DEF ReclaimExpired, TryReclaim, Goto, Nothing, IdInv, RequestTypeOK, Executing,
         StoreTypeOK
    <3>. QED BY <3>1, <3>2
  <2>5. ExecInv'
    <3> DEFINE took == Reclaimable(existing[r].id, existing[r].status, now[r])
    <3>1. CASE took
      <4>0. TryReclaim(existing[r].id, existing[r].status, now[r], ClaimLock(r), ClaimExpiry(r))
        BY <1>6, <3>1 DEF ReclaimExpired
      <4>1. /\ row'.id = row.id /\ row'.fingerprint = row.fingerprint
            /\ row'.status = "processing" /\ row'.lockedUntil = ClaimLock(r)
            /\ row'.expiresAt = ClaimExpiry(r) /\ row' \in Rows
        BY <4>0, ReclaimUpdate
      <4> SUFFICES ASSUME ~late' PROVE ExecInv'
        BY DEF ExecInv
      <4>2. ~late /\ clock < ClaimExpiry(r) /\ clock < ClaimLock(r)
        BY <1>6, <3>1, OnTime DEF ReclaimExpired
      <4>3. \A s \in Requests : pc[s] \notin Executing
        BY <1>6, <3>1, <4>2, RowFields, ClaimTimes DEF ReclaimExpired, Reclaimable, ExecInv
      <4>4. /\ \A s \in Requests : /\ s # r => pc'[s] = pc[s]
                                   /\ s = r => pc'[s] = "execute" /\ recordId'[s] = row.id
            /\ UNCHANGED <<clock, now, existing>>
        BY <1>6, <3>1 DEF ReclaimExpired, TryReclaim, Reclaimable, Claim, Goto, RequestTypeOK
      <4>5. \A s \in Requests : now[s] < ClaimLock(r)
        BY <4>2, RowFields, ClaimTimes DEF IdInv
      <4>. QED BY <4>1, <4>2, <4>3, <4>4, <4>5 DEF ExecInv, Executing
    <3>2. CASE ~took
      <4>1. \A s \in Requests : /\ pc'[s] \in Executing \cup {"reclaimExpired"} => s # r
                                /\ s # r => /\ pc'[s] = pc[s] /\ recordId'[s] = recordId[s]
                                            /\ existing'[s] = existing[s] /\ now'[s] = now[s]
        BY <1>6, <3>2 DEF ReclaimExpired, TryReclaim, Goto, RequestTypeOK, Executing
      <4>. QED BY <1>6, <3>2, <4>1 DEF ReclaimExpired, TryReclaim, ExecInv
    <3>. QED BY <3>1, <3>2
  <2>6. EffectInv'
    <3> DEFINE took == Reclaimable(existing[r].id, existing[r].status, now[r])
    <3>1. CASE took
      <4>0. TryReclaim(existing[r].id, existing[r].status, now[r], ClaimLock(r), ClaimExpiry(r))
        BY <1>6, <3>1 DEF ReclaimExpired
      <4>1. /\ row'.id = row.id /\ row'.fingerprint = row.fingerprint
            /\ row'.status = "processing" /\ row'.lockedUntil = ClaimLock(r)
            /\ row'.expiresAt = ClaimExpiry(r) /\ row' \in Rows
        BY <4>0, ReclaimUpdate
      <4> SUFFICES ASSUME ~late', ~retaken' PROVE EffectInv'
        BY DEF EffectInv
      <4>2. ~late
        BY <1>6, <3>1 DEF ReclaimExpired, Claim
      <4>3. \A s \in Requests : pc[s] \notin Executing
        BY <1>6, <3>1, <4>2, RowFields, ClaimTimes DEF ReclaimExpired, Reclaimable, ExecInv
      <4>4. \A s \in Requests : /\ s # r => pc'[s] = pc[s]
                                /\ s = r => pc'[s] = "execute"
        BY <1>6, <3>1 DEF ReclaimExpired, Claim, Goto, RequestTypeOK
      <4>5. effects' = 0
        <5>1. CASE row.expiresAt <= clock
          BY <1>6, <3>1, <5>1 DEF ReclaimExpired, NewWindow
        <5>2. CASE ~(row.expiresAt <= clock)
          <6>1. effects' = effects /\ ~retaken /\ row.status # "succeeded"
            BY <1>6, <3>1, <5>2 DEF ReclaimExpired
          <6>2. row.status # "none"
            BY <1>6, <3>1 DEF ReclaimExpired, Reclaimable, IdInv
          <6>3. row.status # "processing"
            BY <1>6, <3>1, <4>2, <5>2, RowFields, ClaimTimes
               DEF ReclaimExpired, Reclaimable, ExecInv
          <6>4. row.status = "failed_retryable"
            BY <6>1, <6>2, <6>3, RowFields DEF RowStatuses
          <6>. QED BY <6>1, <6>4, <4>2 DEF EffectInv
        <5>. QED BY <5>1, <5>2
      <4>. QED BY <4>1, <4>3, <4>4, <4>5 DEF EffectInv, Executing
    <3>2. CASE ~took
      BY <1>6, <3>2 DEF ReclaimExpired, TryReclaim, Goto, RequestTypeOK, EffectInv
    <3>. QED BY <3>1, <3>2
  <2>. QED BY <2>1, <2>2, <2>3, <2>4, <2>5, <2>6
<1>7. ASSUME NEW r \in Requests, GetLatest(r) PROVE IInv'
  <2>1. StoreTypeOK'
    BY <1>7 DEF StoreTypeOK, GetLatest, Return, Goto, Nothing, ByStatus,
       Remember, Rows, RowStatuses, RequestTypeOK
  <2>2. RequestTypeOK'
    <3>1. ASSUME Return(r) PROVE RequestTypeOK'
      BY <3>1, ReturnTypes
    <3>2. ASSUME NEW step \in Steps, Remember(r), Goto(r, step),
                 UNCHANGED <<payload, now, recordId, renewing>>
          PROVE  RequestTypeOK'
      BY <3>2, RememberTypes
    <3>3. "reclaim" \in Steps /\ "reclaimExpired" \in Steps
      BY DEF Steps
    <3>. QED BY <1>7, <3>1, <3>2, <3>3 DEF GetLatest, ByStatus
  <2>3. HistoryTypeOK'
    BY <1>7 DEF HistoryTypeOK, GetLatest, Return, Goto, Nothing, ByStatus,
       Remember, RequestTypeOK
  <2>4. IdInv'
    BY <1>7 DEF IdInv, GetLatest, Return, Goto, Nothing, ByStatus, Remember,
       StoreTypeOK, RequestTypeOK, HistoryTypeOK, Rows, Executing, Steps
  <2>5. ExecInv'
    <3>1. \A s \in Requests : /\ pc'[s] \in Executing \cup {"reclaimExpired"} => s # r
                              /\ s # r => /\ pc'[s] = pc[s] /\ recordId'[s] = recordId[s]
                                          /\ existing'[s] = existing[s] /\ now'[s] = now[s]
      BY <1>7 DEF GetLatest, ByStatus, Remember, Return, Goto, RequestTypeOK, Executing
    <3>. QED BY <1>7, <3>1 DEF GetLatest, ExecInv
  <2>6. EffectInv'
    BY <1>7 DEF EffectInv, GetLatest, Return, Goto, Nothing, ByStatus,
       Remember, IdInv, ExecInv, Executing, StoreTypeOK, RequestTypeOK,
       HistoryTypeOK, Rows
  <2>. QED BY <2>1, <2>2, <2>3, <2>4, <2>5, <2>6
<1>8. ASSUME NEW r \in Requests, Reclaim(r) PROVE IInv'
  <2>1. StoreTypeOK'
    <3> DEFINE took == Reclaimable(existing[r].id, "failed_retryable", now[r])
    <3>1. CASE took
      <4>0. TryReclaim(existing[r].id, "failed_retryable", now[r], ClaimLock(r), ClaimExpiry(r))
        BY <1>8, <3>1 DEF Reclaim
      <4>1. /\ row'.id = row.id /\ row'.fingerprint = row.fingerprint
            /\ row'.status = "processing" /\ row'.lockedUntil = ClaimLock(r)
            /\ row'.expiresAt = ClaimExpiry(r) /\ row' \in Rows
        BY <4>0, ReclaimUpdate
      <4>. QED BY <1>8, <3>1, <4>1 DEF Reclaim, TryReclaim, StoreTypeOK
    <3>2. CASE ~took
      BY <1>8, <3>2 DEF Reclaim, TryReclaim, StoreTypeOK
    <3>. QED BY <3>1, <3>2
  <2>2. RequestTypeOK'
    <3>1. CASE Reclaimable(existing[r].id, "failed_retryable", now[r])
      <4>1. existing[r].id \in Nat
        BY DEF RequestTypeOK
      <4>. QED BY <1>8, <3>1, <4>1, ClaimTypes DEF Reclaim
    <3>2. CASE ~Reclaimable(existing[r].id, "failed_retryable", now[r])
      BY <1>8, <3>2, ReturnTypes DEF Reclaim, TryReclaim
    <3>. QED BY <3>1, <3>2
  <2>3. HistoryTypeOK'
    BY <1>8 DEF HistoryTypeOK, Reclaim, Return, Goto, Nothing, Claim,
       ClaimLock, ClaimExpiry, TryReclaim, Reclaimable, RequestTypeOK
  <2>4. IdInv'
    <3> DEFINE took == Reclaimable(existing[r].id, "failed_retryable", now[r])
    <3>1. CASE took
      <4>0. TryReclaim(existing[r].id, "failed_retryable", now[r], ClaimLock(r), ClaimExpiry(r))
        BY <1>8, <3>1 DEF Reclaim
      <4>1. /\ row'.id = row.id /\ row'.fingerprint = row.fingerprint
            /\ row'.status = "processing" /\ row'.lockedUntil = ClaimLock(r)
            /\ row'.expiresAt = ClaimExpiry(r) /\ row' \in Rows
        BY <4>0, ReclaimUpdate
      <4>2. /\ \A s \in Requests : /\ s # r => pc'[s] = pc[s] /\ recordId'[s] = recordId[s]
                                   /\ s = r => pc'[s] = "execute" /\ recordId'[s] = row.id
            /\ UNCHANGED <<lastId, clock, payload, now, existing, body, mixedUp>>
        BY <1>8, <3>1 DEF Reclaim, TryReclaim, Reclaimable, Claim, Goto, RequestTypeOK
      <4>3. row.id # 0 /\ row.id = existing[r].id /\ row.fingerprint = payload[r]
        BY <1>8, <3>1 DEF Reclaim, Reclaimable, IdInv
      <4>. QED BY <4>1, <4>2, <4>3 DEF IdInv, Executing
    <3>2. CASE ~took
      BY <1>8, <3>2
         DEF Reclaim, TryReclaim, Return, Goto, Nothing, IdInv, RequestTypeOK, Executing,
         StoreTypeOK
    <3>. QED BY <3>1, <3>2
  <2>5. ExecInv'
    <3> DEFINE took == Reclaimable(existing[r].id, "failed_retryable", now[r])
    <3>1. CASE took
      <4>0. TryReclaim(existing[r].id, "failed_retryable", now[r], ClaimLock(r), ClaimExpiry(r))
        BY <1>8, <3>1 DEF Reclaim
      <4>1. /\ row'.id = row.id /\ row'.fingerprint = row.fingerprint
            /\ row'.status = "processing" /\ row'.lockedUntil = ClaimLock(r)
            /\ row'.expiresAt = ClaimExpiry(r) /\ row' \in Rows
        BY <4>0, ReclaimUpdate
      <4> SUFFICES ASSUME ~late' PROVE ExecInv'
        BY DEF ExecInv
      <4>2. ~late /\ clock < ClaimExpiry(r) /\ clock < ClaimLock(r)
        BY <1>8, <3>1, OnTime DEF Reclaim
      <4>3. \A s \in Requests : pc[s] \notin Executing
        BY <1>8, <3>1, <4>2, RowFields, ClaimTimes DEF Reclaim, Reclaimable, ExecInv
      <4>4. /\ \A s \in Requests : /\ s # r => pc'[s] = pc[s]
                                   /\ s = r => pc'[s] = "execute" /\ recordId'[s] = row.id
            /\ UNCHANGED <<clock, now, existing>>
        BY <1>8, <3>1 DEF Reclaim, TryReclaim, Reclaimable, Claim, Goto, RequestTypeOK
      <4>5. \A s \in Requests : now[s] < ClaimLock(r)
        BY <4>2, RowFields, ClaimTimes DEF IdInv
      <4>. QED BY <4>1, <4>2, <4>3, <4>4, <4>5 DEF ExecInv, Executing
    <3>2. CASE ~took
      <4>1. \A s \in Requests : /\ pc'[s] \in Executing \cup {"reclaimExpired"} => s # r
                                /\ s # r => /\ pc'[s] = pc[s] /\ recordId'[s] = recordId[s]
                                            /\ existing'[s] = existing[s] /\ now'[s] = now[s]
        BY <1>8, <3>2 DEF Reclaim, TryReclaim, Return, Goto, RequestTypeOK, Executing
      <4>. QED BY <1>8, <3>2, <4>1 DEF Reclaim, TryReclaim, ExecInv
    <3>. QED BY <3>1, <3>2
  <2>6. EffectInv'
    <3> SUFFICES ASSUME ~late', ~retaken' PROVE EffectInv'
      BY DEF EffectInv
    <3>1. CASE Reclaimable(existing[r].id, "failed_retryable", now[r])
      <4>1. ~late /\ row.status = "failed_retryable"
        BY <1>8, <3>1 DEF Reclaim, Reclaimable, Claim
      <4>2. TryReclaim(existing[r].id, "failed_retryable", now[r], ClaimLock(r), ClaimExpiry(r))
        BY <1>8, <3>1 DEF Reclaim
      <4>3. row'.status = "processing"
        BY <4>2, ReclaimUpdate
      <4>4. /\ effects' = effects /\ retaken' = retaken
            /\ \A s \in Requests : pc'[s] = IF s = r THEN "execute" ELSE pc[s]
        BY <1>8, <3>1 DEF Reclaim, Claim, Goto, RequestTypeOK
      <4>. QED BY <4>1, <4>3, <4>4 DEF EffectInv
    <3>2. CASE ~Reclaimable(existing[r].id, "failed_retryable", now[r])
      <4>1. ~late /\ row' = row /\ effects' = effects /\ retaken' = retaken
        BY <1>8, <3>2 DEF Reclaim, TryReclaim
      <4>2. \A s \in Requests : pc'[s] = pc[s] \/ pc'[s] \notin Executing
        BY <1>8, <3>2 DEF Reclaim, TryReclaim, Return, Goto, Executing, RequestTypeOK
      <4>. QED BY <4>1, <4>2 DEF EffectInv, Executing
    <3>. QED BY <3>1, <3>2
  <2>. QED BY <2>1, <2>2, <2>3, <2>4, <2>5, <2>6
<1>9. ASSUME NEW r \in Requests, Execute(r) PROVE IInv'
  <2>1. StoreTypeOK'
    BY <1>9 DEF StoreTypeOK, Execute, Goto, Least, Rows, RowStatuses,
       RequestTypeOK
  <2>2. RequestTypeOK'
    BY <1>9 DEF RequestTypeOK, Execute, Goto, Least, StoreTypeOK, Rows, Steps,
       Executing, RowStatuses
  <2>3. HistoryTypeOK'
    BY <1>9 DEF HistoryTypeOK, Execute, Goto, Least, RequestTypeOK
  <2>4. IdInv'
    BY <1>9 DEF IdInv, Execute, Goto, Least, StoreTypeOK, RequestTypeOK,
       HistoryTypeOK, Rows, Executing, Steps
  <2>5. ExecInv'
    BY <1>9 DEF ExecInv, Execute, Goto, Least, IdInv, Executing, StoreTypeOK,
       RequestTypeOK, HistoryTypeOK, Rows
  <2>6. EffectInv'
    BY <1>9 DEF EffectInv, Execute, Goto, Least, IdInv, ExecInv, Executing,
       StoreTypeOK, RequestTypeOK, HistoryTypeOK, Rows
  <2>. QED BY <2>1, <2>2, <2>3, <2>4, <2>5, <2>6
<1>10. ASSUME NEW r \in Requests, RenewProcessingLease(r) PROVE IInv'
  <2>1. StoreTypeOK'
    <3>1. CASE Extendable(recordId[r], payload[r])
      <4>1. /\ row'.id = row.id /\ row'.fingerprint = row.fingerprint
            /\ row'.status = row.status /\ row'.lockedUntil = clock + Lease
            /\ row'.expiresAt = clock + Ttl /\ row' \in Rows
        BY <1>10, <3>1, RenewUpdate DEF RenewProcessingLease
      <4>. QED BY <1>10, <3>1, <4>1 DEF RenewProcessingLease, ExtendProcessingLock, StoreTypeOK
    <3>2. CASE ~Extendable(recordId[r], payload[r])
      BY <1>10, <3>2 DEF RenewProcessingLease, ExtendProcessingLock, StoreTypeOK
    <3>. QED BY <3>1, <3>2
  <2>2. RequestTypeOK'
    BY <1>10 DEF RequestTypeOK, RenewProcessingLease, ExtendProcessingLock,
       Extendable, StoreTypeOK, Rows, Steps, Executing, RowStatuses
  <2>3. HistoryTypeOK'
    BY <1>10 DEF HistoryTypeOK, RenewProcessingLease, ExtendProcessingLock,
       Extendable, RequestTypeOK
  <2>4. IdInv'
    <3>1. CASE Extendable(recordId[r], payload[r])
      <4>1. /\ row'.id = row.id /\ row'.fingerprint = row.fingerprint
            /\ row'.status = row.status /\ row'.lockedUntil = clock + Lease
            /\ row'.expiresAt = clock + Ttl /\ row' \in Rows
        BY <1>10, <3>1, RenewUpdate DEF RenewProcessingLease
      <4>. QED BY <1>10, <3>1, <4>1 DEF RenewProcessingLease, ExtendProcessingLock, IdInv
    <3>2. CASE ~Extendable(recordId[r], payload[r])
      BY <1>10, <3>2 DEF RenewProcessingLease, ExtendProcessingLock, IdInv
    <3>. QED BY <3>1, <3>2
  <2>5. ExecInv'
    <3>1. CASE Extendable(recordId[r], payload[r])
      <4>1. /\ row'.id = row.id /\ row'.fingerprint = row.fingerprint
            /\ row'.status = row.status /\ row'.lockedUntil = clock + Lease
            /\ row'.expiresAt = clock + Ttl /\ row' \in Rows
        BY <1>10, <3>1, RenewUpdate DEF RenewProcessingLease
      <4>. QED BY <1>10, <3>1, <4>1, RowFields, ClaimTimes
           DEF RenewProcessingLease, ExtendProcessingLock, IdInv, ExecInv
    <3>2. CASE ~Extendable(recordId[r], payload[r])
      BY <1>10, <3>2 DEF RenewProcessingLease, ExtendProcessingLock, ExecInv
    <3>. QED BY <3>1, <3>2
  <2>6. EffectInv'
    BY <1>10 DEF EffectInv, RenewProcessingLease, ExtendProcessingLock,
       Extendable, IdInv, ExecInv, Executing, StoreTypeOK, RequestTypeOK,
       HistoryTypeOK, Rows
  <2>. QED BY <2>1, <2>2, <2>3, <2>4, <2>5, <2>6
<1>11. ASSUME NEW r \in Requests, MarkRequestSucceeded(r) PROVE IInv'
  <2>1. StoreTypeOK'
    <3>1. FinalExpiry(r) \in Nat /\ 0 \in Nat
      BY RowFields, ClaimTimes DEF FinalExpiry
    <3>2. row' \in Rows
      BY <1>11, <3>1, RowUpdate
         DEF MarkRequestSucceeded, MarkSucceeded, Mark, RowStatuses, StoreTypeOK
    <3>. QED BY <1>11, <3>2 DEF MarkRequestSucceeded, MarkSucceeded, Mark, StoreTypeOK
  <2>2. RequestTypeOK'
    BY <1>11 DEF RequestTypeOK, MarkRequestSucceeded, Return, Goto, Nothing,
       MarkSucceeded, Mark, FinalExpiry, ClaimExpiry, StoreTypeOK, Rows,
       Steps, Executing, RowStatuses
  <2>3. HistoryTypeOK'
    BY <1>11 DEF HistoryTypeOK, MarkRequestSucceeded, Return, Goto, Nothing,
       MarkSucceeded, Mark, FinalExpiry, ClaimExpiry, RequestTypeOK
  <2>4. IdInv'
    BY <1>11 DEF IdInv, MarkRequestSucceeded, Return, Goto, Nothing,
       MarkSucceeded, Mark, FinalExpiry, ClaimExpiry, StoreTypeOK,
       RequestTypeOK, HistoryTypeOK, Rows, Executing, Steps
  <2>5. ExecInv'
    BY <1>11 DEF ExecInv, MarkRequestSucceeded, Return, Goto, Nothing,
       MarkSucceeded, Mark, FinalExpiry, ClaimExpiry, IdInv, Executing,
       StoreTypeOK, RequestTypeOK, HistoryTypeOK, Rows
  <2>6. EffectInv'
    BY <1>11 DEF EffectInv, MarkRequestSucceeded, Return, Goto, Nothing,
       MarkSucceeded, Mark, FinalExpiry, ClaimExpiry, IdInv, ExecInv,
       Executing, StoreTypeOK, RequestTypeOK, HistoryTypeOK, Rows
  <2>. QED BY <2>1, <2>2, <2>3, <2>4, <2>5, <2>6
<1>12. ASSUME NEW r \in Requests, MarkRequestFailed(r) PROVE IInv'
  <2>1. StoreTypeOK'
    <3>1. FinalExpiry(r) \in Nat /\ clock + Backoff \in Nat
      BY RowFields, ClaimTimes DEF FinalExpiry
    <3>2. row' \in Rows
      BY <1>12, <3>1, RowUpdate
         DEF MarkRequestFailed, MarkFailedRetryable, Mark, RowStatuses, StoreTypeOK
    <3>. QED BY <1>12, <3>2 DEF MarkRequestFailed, MarkFailedRetryable, Mark, StoreTypeOK
  <2>2. RequestTypeOK'
    BY <1>12 DEF RequestTypeOK, MarkRequestFailed, Return, Goto, Nothing,
       MarkFailedRetryable, Mark, FinalExpiry, ClaimExpiry, StoreTypeOK, Rows,
       Steps, Executing, RowStatuses
  <2>3. HistoryTypeOK'
    BY <1>12 DEF HistoryTypeOK, MarkRequestFailed, Return, Goto, Nothing,
       MarkFailedRetryable, Mark, FinalExpiry, ClaimExpiry, RequestTypeOK
  <2>4. IdInv'
    BY <1>12 DEF IdInv, MarkRequestFailed, Return, Goto, Nothing,
       MarkFailedRetryable, Mark, FinalExpiry, ClaimExpiry, StoreTypeOK,
       RequestTypeOK, HistoryTypeOK, Rows, Executing, Steps
  <2>5. ExecInv'
    BY <1>12 DEF ExecInv, MarkRequestFailed, Return, Goto, Nothing,
       MarkFailedRetryable, Mark, FinalExpiry, ClaimExpiry, IdInv, Executing,
       StoreTypeOK, RequestTypeOK, HistoryTypeOK, Rows
  <2>6. EffectInv'
    BY <1>12 DEF EffectInv, MarkRequestFailed, Return, Goto, Nothing,
       MarkFailedRetryable, Mark, FinalExpiry, ClaimExpiry, IdInv, ExecInv,
       Executing, StoreTypeOK, RequestTypeOK, HistoryTypeOK, Rows
  <2>. QED BY <2>1, <2>2, <2>3, <2>4, <2>5, <2>6
<1>13. ASSUME NEW r \in Requests, Crash(r) PROVE IInv'
  <2>1. StoreTypeOK'
    BY <1>13 DEF StoreTypeOK, Crash, Return, Goto, Nothing, Rows, RowStatuses,
       RequestTypeOK
  <2>2. RequestTypeOK'
    BY <1>13 DEF RequestTypeOK, Crash, Return, Goto, Nothing, StoreTypeOK,
       Rows, Steps, Executing, RowStatuses
  <2>3. HistoryTypeOK'
    BY <1>13 DEF HistoryTypeOK, Crash, Return, Goto, Nothing, RequestTypeOK
  <2>4. IdInv'
    BY <1>13 DEF IdInv, Crash, Return, Goto, Nothing, StoreTypeOK,
       RequestTypeOK, HistoryTypeOK, Rows, Executing, Steps
  <2>5. ExecInv'
    BY <1>13 DEF ExecInv, Crash, Return, Goto, Nothing, IdInv, Executing,
       StoreTypeOK, RequestTypeOK, HistoryTypeOK, Rows
  <2>6. EffectInv'
    BY <1>13 DEF EffectInv, Crash, Return, Goto, Nothing, IdInv, ExecInv,
       Executing, StoreTypeOK, RequestTypeOK, HistoryTypeOK, Rows
  <2>. QED BY <2>1, <2>2, <2>3, <2>4, <2>5, <2>6
<1>14. CASE UNCHANGED vars
  <2>1. StoreTypeOK'
    BY <1>14 DEF StoreTypeOK, vars, Rows, RowStatuses, RequestTypeOK
  <2>2. RequestTypeOK'
    BY <1>14 DEF RequestTypeOK, vars, StoreTypeOK, Rows, Steps, Executing,
       RowStatuses
  <2>3. HistoryTypeOK'
    BY <1>14 DEF HistoryTypeOK, vars, RequestTypeOK
  <2>4. IdInv'
    BY <1>14 DEF IdInv, vars, StoreTypeOK, RequestTypeOK, HistoryTypeOK, Rows,
       Executing, Steps
  <2>5. ExecInv'
    BY <1>14 DEF ExecInv, vars, IdInv, Executing, StoreTypeOK, RequestTypeOK,
       HistoryTypeOK, Rows
  <2>6. EffectInv'
    BY <1>14 DEF EffectInv, vars, IdInv, ExecInv, Executing, StoreTypeOK,
       RequestTypeOK, HistoryTypeOK, Rows
  <2>. QED BY <2>1, <2>2, <2>3, <2>4, <2>5, <2>6
<1>. QED
  BY <1>1, <1>2, <1>3, <1>4, <1>5, <1>6, <1>7, <1>8, <1>9, <1>10, <1>11,
     <1>12, <1>13, <1>14 DEF Next, RequestStep

\* The inductive invariant holds in every reachable state.
THEOREM Invariance == Spec => []IInv
BY InitIInv, NextIInv, PTL DEF Spec

\* Every variable keeps its type.
THEOREM TypeCorrect == Spec => []TypeOK
<1>1. IInv => TypeOK
  BY DEF IInv
<1>. QED BY <1>1, Invariance, PTL

\* Requests with the same key never run the operation at the same time, unless
\* one of them was late.
THEOREM Exclusion == Spec => []OneExecutor
<1>1. IInv => OneExecutor
  BY DEF IInv, ExecInv, OneExecutor
<1>. QED BY <1>1, Invariance, PTL

\* In the lifetime of a record the operation takes effect at most once, unless a
\* request was late or took over a live success it had read as an expired one.
THEOREM EffectOnce == Spec => []OneEffect
<1>1. IInv => OneEffect
  BY DEF IInv, EffectInv, OneEffect
<1>. QED BY <1>1, Invariance, PTL

\* No request is ever answered with the stored result of another payload.
THEOREM ReplaySound == Spec => []ReplayMatches
<1>1. IInv => ReplayMatches
  BY DEF IInv, IdInv, ReplayMatches
<1>. QED BY <1>1, Invariance, PTL

=============================================================================
