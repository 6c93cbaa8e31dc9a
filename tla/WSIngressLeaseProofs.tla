------------------------ MODULE WSIngressLeaseProofs ------------------------
(***************************************************************************)
(* Proofs about two specifications that share no state: WSIngressLease,    *)
(* for any set of connections, any limit, any times that satisfy           *)
(* TimesAssumption and any number of failing, repeated and late calls, and *)
(* then AuthCacheInvalidation.                                             *)
(***************************************************************************)
EXTENDS WSIngressLease, AuthCacheInvalidation, FiniteSetTheorems, TLAPS

\* The members of the sorted set that no script reaps.
Members == {l \in Leases : Held(l)}

\* acquireOpenAIWSIngressLeaseScript is the only one that adds a member.
MemberInv == IsFiniteSet(Members) /\ Cardinality(Members) <= MaxConnections

\* A command that is late is an acquire only after a failed call or a crash, so a
\* connection that is there is never put back by one.  What a call was answered is
\* still true of the member when the caller looks at it.
CallOK(l) ==
  /\ pc[l] \in {"new", "acquire"} => late[l] = "none" /\ over[l] = 0
  /\ late[l] = "acquire" => pc[l] = "done" /\ errs[l] \cap {"acquire", "crash"} # {}
  /\ pc[l] = "new" => ~Held(l)
  /\ Calling(l) /\ ans[l] = "yes" => age[l] <= op[l]
  /\ Calling(l) /\ ans[l] = "no" => ~Held(l)
  /\ pc[l] = "refresh" => timer[l] = op[l]

\* As long as no refresh failed, the member is younger than one interval and two calls.
YoungOK(l) ==
  "refresh" \notin errs[l] =>
    /\ pc[l] = "open" => age[l] <= timer[l] + OpTimeout
    /\ pc[l] = "refresh" => age[l] <= Interval + OpTimeout + op[l]

\* The times at which the ticker fires, counted from one of its ticks.
FiringTimes == {q \in 0..(TTL + Interval) : \E k \in 0..q : q = k * Interval}

\* The last confirmation was the acquisition, with which the ticker was started: it has
\* fired at q since.
SinceAcquire(l, q) ==
  /\ since[l] = q + timer[l]
  /\ age[l] + over[l] <= since[l] + OpTimeout
  /\ IF pc[l] = "open" THEN q < TTL ELSE q <= TTL

\* The last confirmation was a refresh, which took some part of OpTimeout after a tick:
\* the ticker has fired at q after that tick.
SinceRefresh(l, q) ==
  /\ q + timer[l] - OpTimeout <= since[l] /\ since[l] <= q + timer[l]
  /\ age[l] + over[l] <= q + timer[l]
  /\ IF pc[l] = "open" THEN q <= TTL ELSE q <= TTL + Interval

\* How long ago the member was scored, and how long the connection has been without it,
\* against the time since the last confirmation.
TimeOK(l) ==
  /\ over[l] <= Interval + OpTimeout
  /\ Open(l) => /\ over[l] > 0 => ~Held(l)
                /\ \E q \in FiringTimes : SinceAcquire(l, q) \/ SinceRefresh(l, q)

LossOK(l) == lost[l] => "refresh" \in errs[l]

OccupiedOK(l) ==
  (Held(l) /\ pc[l] \in {"new", "done"}) => errs[l] \cap {"acquire", "release", "crash"} # {}

LeaseOK(l) == CallOK(l) /\ YoungOK(l) /\ TimeOK(l) /\ LossOK(l) /\ OccupiedOK(l)

\* The inductive invariant.
IInv == TypeOK /\ MemberInv /\ \A l \in Leases : LeaseOK(l)

-----------------------------------------------------------------------------
\* The ticker fires at multiples of the interval: after q at q + Interval, and before
\* TTL + Interval not later than at TTL.
LEMMA Firing ==
  /\ 0 \in FiringTimes
  /\ \A q \in FiringTimes :
       /\ q \in Nat
       /\ q <= TTL => q + Interval \in FiringTimes
       /\ q < TTL + Interval => q <= TTL
<1>1. 0 \in FiringTimes
  BY TimesAssumption DEF FiringTimes
<1>2. ASSUME NEW q \in FiringTimes
      PROVE  /\ q \in Nat
             /\ q <= TTL => q + Interval \in FiringTimes
             /\ q < TTL + Interval => q <= TTL
  <2>1. q \in Nat
    BY TimesAssumption DEF FiringTimes
  <2>2. PICK k \in 0..q : q = k * Interval
    BY DEF FiringTimes
  <2>3. PICK n \in 1..TTL : TTL = n * Interval
    BY TimesAssumption
  <2>4. k \in Nat /\ n \in Nat /\ Interval \in Nat /\ Interval > 0
    BY <2>1, TimesAssumption
  <2>5. q + Interval = (k + 1) * Interval /\ TTL + Interval = (n + 1) * Interval
    BY <2>2, <2>3, <2>4
  <2>6. ASSUME q <= TTL PROVE q + Interval \in FiringTimes
    <3>1. q + Interval \in 0..(TTL + Interval)
      BY <2>1, <2>6, TimesAssumption
    <3>2. k + 1 \in 0..(q + Interval)
      BY <2>1, <2>4
    <3>. QED BY <3>1, <3>2, <2>5 DEF FiringTimes
  <2>7. ASSUME q < TTL + Interval PROVE q <= TTL
    <3>1. k < n + 1
      BY <2>2, <2>4, <2>5, <2>7
    <3>2. k <= n
      BY <3>1, <2>4
    <3>. QED BY <3>2, <2>2, <2>3, <2>4
  <2>. QED BY <2>1, <2>6, <2>7
<1>. QED BY <1>1, <1>2

\* The step of a connection leaves the others alone.
LEMMA OthersUntouched ==
  ASSUME TypeOK, NEW l \in Leases, LeaseStep(l), NEW m \in Leases, m # l
  PROVE  LeaseOK(m) => LeaseOK(m)'
<1>1. /\ pc'[m] = pc[m] /\ age'[m] = age[m] /\ ans'[m] = ans[m] /\ op'[m] = op[m]
      /\ timer'[m] = timer[m] /\ since'[m] = since[m] /\ late'[m] = late[m]
      /\ errs'[m] = errs[m] /\ lost'[m] = lost[m] /\ over'[m] = over[m]
  BY DEF TypeOK, LeaseStep, Acquire, Call, Execute, LateExecute, RunScript, Acquired,
     AcquireFails, StartRefresh, Refreshed, RefreshFails, LoopGoesOn, Close, Release,
     ReleaseFails, Crash, localVars
<1>. QED
  BY <1>1 DEF LeaseOK, CallOK, YoungOK, TimeOK, LossOK, OccupiedOK, SinceAcquire,
     SinceRefresh, Held, Calling, Open

\* Nobody is connected at the beginning.
LEMMA InitIInv == Init => IInv
<1> SUFFICES ASSUME Init PROVE IInv
  OBVIOUS
<1>1. TypeOK
  BY TimesAssumption DEF Init, TypeOK
<1>2. Members = {}
  BY TimesAssumption DEF Init, Members, Held
<1>3. MemberInv
  BY <1>2, FS_EmptySet, LimitAssumption DEF MemberInv
<1>4. ASSUME NEW l \in Leases PROVE LeaseOK(l)
  BY TimesAssumption DEF Init, LeaseOK, CallOK, YoungOK, TimeOK, LossOK, OccupiedOK, Held,
     Calling, Open
<1>. QED BY <1>1, <1>3, <1>4 DEF IInv

\* Every step keeps the types.
LEMMA NextType == IInv /\ [Next]_vars => TypeOK'
<1> SUFFICES ASSUME IInv, [Next]_vars PROVE TypeOK'
  OBVIOUS
<1> USE TimesAssumption DEF IInv, TypeOK
<1>1. ASSUME NEW l \in Leases, Acquire(l) PROVE TypeOK'
  BY <1>1 DEF Acquire, Call
<1>2. ASSUME NEW l \in Leases, Execute(l) PROVE TypeOK'
  BY <1>2 DEF Execute, RunScript, Grants, AcquireGrants, RefreshGrants, Calling
<1>3. ASSUME NEW l \in Leases, LateExecute(l) PROVE TypeOK'
  BY <1>3 DEF LateExecute, RunScript, Grants, AcquireGrants, RefreshGrants, localVars
<1>4. ASSUME NEW l \in Leases, Acquired(l) PROVE TypeOK'
  BY <1>4 DEF Acquired
<1>5. ASSUME NEW l \in Leases, AcquireFails(l) PROVE TypeOK'
  BY <1>5 DEF AcquireFails
<1>6. ASSUME NEW l \in Leases, StartRefresh(l) PROVE TypeOK'
  BY <1>6 DEF StartRefresh, Call
<1>7. ASSUME NEW l \in Leases, Refreshed(l) PROVE TypeOK'
  BY <1>7 DEF Refreshed, LoopGoesOn
<1>8. ASSUME NEW l \in Leases, RefreshFails(l) PROVE TypeOK'
  BY <1>8 DEF RefreshFails, LoopGoesOn
<1>9. ASSUME NEW l \in Leases, Close(l) PROVE TypeOK'
  BY <1>9 DEF Close, Open
<1>10. ASSUME NEW l \in Leases, Release(l) PROVE TypeOK'
  BY <1>10 DEF Release
<1>11. ASSUME NEW l \in Leases, ReleaseFails(l) PROVE TypeOK'
  BY <1>11 DEF ReleaseFails
<1>12. ASSUME NEW l \in Leases, Crash(l) PROVE TypeOK'
  BY <1>12 DEF Crash, Calling
<1>13. CASE Tick
  <2>1. ASSUME NEW l \in Leases, Open(l)
        PROVE  since[l] + 1 <= TTL + Interval + OpTimeout /\ timer[l] + 1 <= Interval
    BY <1>13, <2>1, Firing DEF Tick, LeaseOK, CallOK, TimeOK, SinceAcquire, SinceRefresh,
       FiringTimes, Open, Calling
  <2>. QED BY <1>13, <2>1 DEF Tick, Held, Calling, Open
<1>14. CASE UNCHANGED vars
  BY <1>14 DEF vars, localVars
<1>. QED BY <1>1, <1>2, <1>3, <1>4, <1>5, <1>6, <1>7, <1>8, <1>9, <1>10, <1>11, <1>12,
   <1>13, <1>14 DEF Next, LeaseStep

\* A connection that is not there has no time to keep.
LEMMA ClosedTime ==
  ASSUME IInv, NEW l \in Leases, ~Open(l)', over'[l] = over[l]
  PROVE  YoungOK(l)' /\ TimeOK(l)'
<1>1. over[l] <= Interval + OpTimeout
  BY DEF IInv, LeaseOK, TimeOK
<1>. QED BY <1>1 DEF YoungOK, TimeOK, Open

\* A script that scores the member of a connection finds it in the set.
LEMMA ScoredTime ==
  ASSUME IInv, TypeOK', NEW l \in Leases,
         pc'[l] = pc[l], since'[l] = since[l], timer'[l] = timer[l], over'[l] = over[l],
         age'[l] = age[l] \/ (age'[l] = 0 /\ (Open(l) => Held(l)))
  PROVE  TimeOK(l)'
<1>1. CASE ~Open(l)
  BY <1>1, ClosedTime DEF Open
<1>2. CASE Open(l)
  <2>1. PICK q \in FiringTimes : SinceAcquire(l, q) \/ SinceRefresh(l, q)
    BY <1>2 DEF IInv, LeaseOK, TimeOK
  <2>2. /\ over[l] <= Interval + OpTimeout
        /\ over[l] > 0 => ~Held(l)
    BY <1>2 DEF IInv, LeaseOK, TimeOK
  <2>3. /\ age[l] \in Nat /\ over[l] \in Nat /\ since[l] \in Nat /\ timer[l] \in Nat
        /\ q \in Nat /\ OpTimeout \in Nat /\ TTL \in Nat /\ age'[l] \in Nat
    BY Firing, TimesAssumption DEF IInv, TypeOK
  <2>4. age'[l] <= age[l] /\ (over'[l] > 0 => ~Held(l)')
    BY <1>2, <2>2, <2>3 DEF Held
  <2>5. SinceAcquire(l, q)' \/ SinceRefresh(l, q)'
    BY <2>1, <2>3, <2>4 DEF SinceAcquire, SinceRefresh
  <2>. QED BY <2>2, <2>4, <2>5 DEF TimeOK
<1>. QED BY <1>1, <1>2

\* Every step of a connection keeps what is known of it.
LEMMA LeaseStepOK ==
  ASSUME IInv, TypeOK', NEW l \in Leases, LeaseStep(l)
  PROVE  LeaseOK(l)'
<1> USE TimesAssumption DEF IInv, LeaseOK
<1>1. CASE Acquire(l)
  <2>1. CallOK(l)'
    BY <1>1 DEF Acquire, Call, TypeOK, CallOK, Held, Calling
  <2>2. ~Open(l)' /\ over'[l] = over[l]
    BY <1>1 DEF Acquire, Call, TypeOK, Open
  <2>3. YoungOK(l)' /\ TimeOK(l)'
    BY <2>2, ClosedTime
  <2>4. LossOK(l)'
    BY <1>1 DEF Acquire, Call, TypeOK, LossOK, YoungOK, CallOK, Held, Calling
  <2>5. OccupiedOK(l)'
    BY <1>1 DEF Acquire, Call, TypeOK, OccupiedOK, CallOK, Held, Calling
  <2>. QED BY <2>1, <2>3, <2>4, <2>5
<1>2. CASE Execute(l)
  <2>1. CallOK(l)'
    BY <1>2 DEF Execute, RunScript, Grants, AcquireGrants, RefreshGrants, Calling,
       TypeOK, CallOK, Held
  <2>2. YoungOK(l)'
    BY <1>2 DEF Execute, RunScript, Grants, AcquireGrants, RefreshGrants, Calling,
       TypeOK, YoungOK, CallOK, Held
  <2>3. TimeOK(l)'
    <3>1. /\ pc'[l] = pc[l] /\ since'[l] = since[l] /\ timer'[l] = timer[l] /\ over'[l] = over[l]
      BY <1>2 DEF Execute
    <3>2. age'[l] = age[l] \/ (age'[l] = 0 /\ (Open(l) => Held(l)))
      BY <1>2 DEF Execute, RunScript, Grants, RefreshGrants, TypeOK, Open
    <3>. QED BY <3>1, <3>2, ScoredTime
  <2>4. LossOK(l)'
    BY <1>2 DEF Execute, RunScript, Grants, AcquireGrants, RefreshGrants, Calling,
       TypeOK, LossOK, YoungOK, CallOK, Held
  <2>5. OccupiedOK(l)'
    BY <1>2 DEF Execute, RunScript, Grants, AcquireGrants, RefreshGrants, Calling,
       TypeOK, OccupiedOK, CallOK, Held
  <2>. QED BY <2>1, <2>2, <2>3, <2>4, <2>5
<1>3. CASE LateExecute(l)
  <2>1. CallOK(l)'
    BY <1>3 DEF LateExecute, RunScript, Grants, AcquireGrants, RefreshGrants, localVars,
       TypeOK, CallOK, Held, Calling
  <2>2. YoungOK(l)'
    BY <1>3 DEF LateExecute, RunScript, Grants, AcquireGrants, RefreshGrants, localVars,
       TypeOK, YoungOK, CallOK, Held, Calling
  <2>3. TimeOK(l)'
    <3>1. /\ pc'[l] = pc[l] /\ since'[l] = since[l] /\ timer'[l] = timer[l] /\ over'[l] = over[l]
      BY <1>3 DEF LateExecute, localVars
    <3>2. Open(l) => late[l] # "acquire"
      BY DEF CallOK, Open
    <3>3. age'[l] = age[l] \/ (age'[l] = 0 /\ (Open(l) => Held(l)))
      BY <1>3, <3>2 DEF LateExecute, RunScript, Grants, RefreshGrants, TypeOK
    <3>. QED BY <3>1, <3>3, ScoredTime
  <2>4. LossOK(l)'
    BY <1>3 DEF LateExecute, RunScript, Grants, AcquireGrants, RefreshGrants, localVars,
       TypeOK, LossOK, YoungOK, CallOK, Held, Calling
  <2>5. OccupiedOK(l)'
    BY <1>3 DEF LateExecute, RunScript, Grants, AcquireGrants, RefreshGrants, localVars,
       TypeOK, OccupiedOK, CallOK, Held, Calling
  <2>. QED BY <2>1, <2>2, <2>3, <2>4, <2>5
<1>4. CASE Acquired(l)
  <2>1. CallOK(l)'
    BY <1>4 DEF Acquired, TypeOK, CallOK, Held, Calling
  <2>2. YoungOK(l)'
    BY <1>4 DEF Acquired, TypeOK, YoungOK, CallOK, Held, Calling
  <2>3. TimeOK(l)'
    BY <1>4, Firing DEF Acquired, TypeOK, TimeOK, CallOK, SinceAcquire, SinceRefresh,
       Held, Open, Calling
  <2>4. LossOK(l)'
    BY <1>4 DEF Acquired, TypeOK, LossOK, YoungOK, CallOK, Held, Calling
  <2>5. OccupiedOK(l)'
    BY <1>4 DEF Acquired, TypeOK, OccupiedOK, CallOK, Held, Calling
  <2>. QED BY <2>1, <2>2, <2>3, <2>4, <2>5
<1>5. CASE AcquireFails(l)
  <2>1. CallOK(l)'
    <3>1. "acquire" \in errs'[l]
      BY <1>5 DEF AcquireFails, TypeOK
    <3>2. pc'[l] = "done" /\ late'[l] = "acquire" /\ ~Calling(l)'
      BY <1>5 DEF AcquireFails, TypeOK, Calling
    <3>. QED BY <3>1, <3>2 DEF CallOK
  <2>2. ~Open(l)' /\ over'[l] = over[l]
    BY <1>5 DEF AcquireFails, TypeOK, Open
  <2>3. YoungOK(l)' /\ TimeOK(l)'
    BY <2>2, ClosedTime
  <2>4. LossOK(l)'
    BY <1>5 DEF AcquireFails, TypeOK, LossOK, YoungOK, CallOK, Held, Calling
  <2>5. OccupiedOK(l)'
    <3>1. "acquire" \in errs'[l]
      BY <1>5 DEF AcquireFails, TypeOK
    <3>. QED BY <3>1 DEF OccupiedOK
  <2>. QED BY <2>1, <2>3, <2>4, <2>5
<1>6. CASE StartRefresh(l)
  <2>1. CallOK(l)'
    BY <1>6 DEF StartRefresh, Call, TypeOK, CallOK, Held, Calling
  <2>2. YoungOK(l)'
    BY <1>6 DEF StartRefresh, Call, TypeOK, YoungOK, CallOK, Held, Calling
  <2>3. TimeOK(l)'
    BY <1>6, Firing DEF StartRefresh, Call, TypeOK, TimeOK, CallOK, SinceAcquire,
       SinceRefresh, Held, Open, Calling
  <2>4. LossOK(l)'
    BY <1>6 DEF StartRefresh, Call, TypeOK, LossOK, YoungOK, CallOK, Held, Calling
  <2>5. OccupiedOK(l)'
    BY <1>6 DEF StartRefresh, Call, TypeOK, OccupiedOK, CallOK, Held, Calling
  <2>. QED BY <2>1, <2>2, <2>3, <2>4, <2>5
<1>7. CASE Refreshed(l)
  <2>1. CallOK(l)'
    BY <1>7 DEF Refreshed, LoopGoesOn, TypeOK, CallOK, Held, Calling
  <2>2. YoungOK(l)'
    BY <1>7 DEF Refreshed, LoopGoesOn, TypeOK, YoungOK, CallOK, Held, Calling
  <2>3. TimeOK(l)'
    BY <1>7, Firing DEF Refreshed, LoopGoesOn, TypeOK, TimeOK, CallOK, SinceAcquire,
       SinceRefresh, Held, Open, Calling
  <2>4. LossOK(l)'
    BY <1>7 DEF Refreshed, LoopGoesOn, TypeOK, LossOK, YoungOK, CallOK, Held, Calling
  <2>5. OccupiedOK(l)'
    BY <1>7 DEF Refreshed, LoopGoesOn, TypeOK, OccupiedOK, CallOK, Held, Calling
  <2>. QED BY <2>1, <2>2, <2>3, <2>4, <2>5
<1>8. CASE RefreshFails(l)
  <2>1. CallOK(l)'
    BY <1>8 DEF RefreshFails, LoopGoesOn, TypeOK, CallOK, Held, Calling
  <2>2. YoungOK(l)'
    BY <1>8 DEF RefreshFails, LoopGoesOn, TypeOK, YoungOK, CallOK, Held, Calling
  <2>3. TimeOK(l)'
    BY <1>8, Firing DEF RefreshFails, LoopGoesOn, TypeOK, TimeOK, CallOK, SinceAcquire,
       SinceRefresh, Held, Open, Calling
  <2>4. LossOK(l)'
    BY <1>8 DEF RefreshFails, LoopGoesOn, TypeOK, LossOK, YoungOK, CallOK, Held, Calling
  <2>5. OccupiedOK(l)'
    BY <1>8 DEF RefreshFails, LoopGoesOn, TypeOK, OccupiedOK, CallOK, Held, Calling
  <2>. QED BY <2>1, <2>2, <2>3, <2>4, <2>5
<1>9. CASE Close(l)
  <2>1. CallOK(l)'
    BY <1>9 DEF Close, Open, TypeOK, CallOK, Held, Calling
  <2>2. YoungOK(l)'
    BY <1>9 DEF Close, Open, TypeOK, YoungOK, CallOK, Held, Calling
  <2>3. TimeOK(l)'
    BY <1>9, Firing DEF Close, Open, TypeOK, TimeOK, CallOK, SinceAcquire, SinceRefresh,
       Held, Calling
  <2>4. LossOK(l)'
    BY <1>9 DEF Close, Open, TypeOK, LossOK, YoungOK, CallOK, Held, Calling
  <2>5. OccupiedOK(l)'
    BY <1>9 DEF Close, Open, TypeOK, OccupiedOK, CallOK, Held, Calling
  <2>. QED BY <2>1, <2>2, <2>3, <2>4, <2>5
<1>10. CASE Release(l)
  <2>1. CallOK(l)'
    BY <1>10 DEF Release, TypeOK, CallOK, Held, Calling
  <2>2. ~Open(l)' /\ over'[l] = over[l]
    BY <1>10 DEF Release, TypeOK, Open
  <2>3. YoungOK(l)' /\ TimeOK(l)'
    BY <2>2, ClosedTime
  <2>4. LossOK(l)'
    BY <1>10 DEF Release, TypeOK, LossOK, YoungOK, CallOK, Held, Calling
  <2>5. OccupiedOK(l)'
    BY <1>10 DEF Release, TypeOK, OccupiedOK, CallOK, Held, Calling
  <2>. QED BY <2>1, <2>3, <2>4, <2>5
<1>11. CASE ReleaseFails(l)
  <2>1. CallOK(l)'
    BY <1>11 DEF ReleaseFails, TypeOK, CallOK, Held, Calling
  <2>2. ~Open(l)' /\ over'[l] = over[l]
    BY <1>11 DEF ReleaseFails, TypeOK, Open
  <2>3. YoungOK(l)' /\ TimeOK(l)'
    BY <2>2, ClosedTime
  <2>4. LossOK(l)'
    BY <1>11 DEF ReleaseFails, TypeOK, LossOK, YoungOK, CallOK, Held, Calling
  <2>5. OccupiedOK(l)'
    BY <1>11 DEF ReleaseFails, TypeOK, OccupiedOK, CallOK, Held, Calling
  <2>. QED BY <2>1, <2>3, <2>4, <2>5
<1>12. CASE Crash(l)
  <2>1. CallOK(l)'
    <3>1. pc'[l] = "done" /\ "crash" \in errs'[l] /\ late'[l] \in {late[l], pc[l]} /\ ~Calling(l)'
      BY <1>12 DEF Crash, TypeOK, Calling
    <3>. QED BY <3>1 DEF CallOK
  <2>2. ~Open(l)' /\ over'[l] = over[l]
    BY <1>12 DEF Crash, TypeOK, Open
  <2>3. YoungOK(l)' /\ TimeOK(l)'
    BY <2>2, ClosedTime
  <2>4. LossOK(l)'
    BY <1>12 DEF Crash, Calling, TypeOK, LossOK, YoungOK, CallOK, Held
  <2>5. OccupiedOK(l)'
    <3>1. "crash" \in errs'[l]
      BY <1>12 DEF Crash, TypeOK
    <3>. QED BY <3>1 DEF OccupiedOK
  <2>. QED BY <2>1, <2>3, <2>4, <2>5
<1>. QED BY <1>1, <1>2, <1>3, <1>4, <1>5, <1>6, <1>7, <1>8, <1>9, <1>10, <1>11,
   <1>12 DEF LeaseStep

\* Time keeps what is known of every connection.
LEMMA TickOK ==
  ASSUME IInv, TypeOK', NEW l \in Leases, Tick
  PROVE  LeaseOK(l)'
<1> USE TimesAssumption DEF IInv, LeaseOK, Tick
<1>1. CallOK(l)'
  BY DEF TypeOK, CallOK, Held, Calling, Open
<1>2. YoungOK(l)'
  BY DEF TypeOK, YoungOK, CallOK, Held, Calling, Open
<1>3. TimeOK(l)'
  <2>1. CASE ~Open(l)
    BY <2>1 DEF TypeOK, TimeOK, Open
  <2>2. CASE Open(l)
    <3>1. PICK q \in FiringTimes : SinceAcquire(l, q) \/ SinceRefresh(l, q)
      BY <2>2 DEF TimeOK
    <3>2. /\ q \in Nat /\ age[l] \in 0..TTL /\ over[l] \in Nat /\ since[l] \in Nat
          /\ timer[l] \in Nat /\ op[l] \in Nat
          /\ over[l] > 0 => age[l] = TTL
      <4>1. q \in Nat
        BY Firing
      <4>2. /\ age[l] \in 0..TTL /\ over[l] \in Nat /\ since[l] \in Nat
            /\ timer[l] \in Nat /\ op[l] \in Nat
        BY DEF TypeOK
      <4>3. over[l] > 0 => age[l] = TTL
        BY <2>2, <4>2 DEF TimeOK, Held
      <4>. QED BY <4>1, <4>2, <4>3
    <3>3. /\ since'[l] = since[l] + 1 /\ timer'[l] = timer[l] + 1 /\ pc'[l] = pc[l]
          /\ age'[l] + over'[l] <= age[l] + over[l] + 1
          /\ over'[l] > 0 => age'[l] = TTL
      BY <2>2, <3>2 DEF TypeOK, Open, Held
    <3>4. SinceAcquire(l, q)' \/ SinceRefresh(l, q)'
      BY <3>1, <3>2, <3>3 DEF SinceAcquire, SinceRefresh
    <3>5. timer'[l] <= (IF pc[l] = "open" THEN Interval ELSE OpTimeout)
      BY <2>2, <3>2, <3>3 DEF CallOK, Open, Calling
    <3>6. over'[l] <= Interval + OpTimeout
      BY <2>2, <3>2, <3>3, <3>4, <3>5 DEF TypeOK, SinceAcquire, SinceRefresh, Open
    <3>. QED BY <2>2, <3>2, <3>3, <3>4, <3>6 DEF TimeOK, Held, Open
  <2>. QED BY <2>1, <2>2
<1>4. LossOK(l)'
  BY DEF TypeOK, LossOK
<1>5. OccupiedOK(l)'
  BY DEF TypeOK, OccupiedOK, CallOK, Held, Calling
<1>. QED BY <1>1, <1>2, <1>3, <1>4, <1>5

\* A step puts at most one member into the set, and only below the limit.
LEMMA NextMembers == IInv /\ [Next]_vars /\ TypeOK' => MemberInv'
<1> SUFFICES ASSUME IInv, [Next]_vars, TypeOK' PROVE MemberInv'
  OBVIOUS
<1> USE TimesAssumption, LimitAssumption DEF IInv
<1>1. ASSUME NEW l \in Leases, NEW script, RunScript(l, script) PROVE MemberInv'
  <2>1. CASE Held(l) \/ ~AcquireGrants(l) \/ script # "acquire"
    <3>1. age' = age \/ (Held(l) /\ age' = [age EXCEPT ![l] = 0])
      BY <1>1, <2>1 DEF RunScript, Grants, RefreshGrants
    <3>2. \A m \in Leases : Held(m)' <=> Held(m)
      BY <3>1 DEF Held, TypeOK
    <3>3. Members' = Members
      BY <3>2 DEF Members
    <3>. QED BY <3>3 DEF MemberInv
  <2>2. CASE ~Held(l) /\ AcquireGrants(l) /\ script = "acquire"
    <3>1. Members' = Members \cup {l} /\ l \notin Members
      BY <1>1, <2>2 DEF Members, RunScript, Grants, Held, TypeOK
    <3>2. Cardinality(Members) < MaxConnections
      BY <2>2 DEF AcquireGrants, Members
    <3>3. IsFiniteSet(Members') /\ Cardinality(Members') = Cardinality(Members) + 1
      BY <3>1, FS_AddElement DEF MemberInv
    <3>4. Cardinality(Members) \in Nat
      BY FS_CardinalityType DEF MemberInv
    <3>. QED BY <3>2, <3>3, <3>4 DEF MemberInv
  <2>. QED BY <2>1, <2>2
<1>2. CASE Members' \subseteq Members
  BY <1>2, FS_Subset, FS_CardinalityType DEF MemberInv
<1>3. ASSUME NEW l \in Leases, LeaseStep(l) PROVE MemberInv'
  <2>1. CASE Execute(l) \/ LateExecute(l)
    BY <1>1, <2>1 DEF Execute, LateExecute
  <2>2. CASE Release(l) \/ ReleaseFails(l)
    <3>1. Members' \subseteq Members
      BY <2>2 DEF Release, ReleaseFails, Members, Held, TypeOK
    <3>. QED BY <3>1, <1>2
  <2>3. CASE UNCHANGED age
    <3>1. Members' \subseteq Members
      BY <2>3 DEF Members, Held
    <3>. QED BY <3>1, <1>2
  <2>. QED BY <1>3, <2>1, <2>2, <2>3 DEF LeaseStep, Acquire, Acquired, AcquireFails,
          StartRefresh, Refreshed, RefreshFails, Close, Crash
<1>4. CASE Tick
  <2>1. Members' \subseteq Members
    BY <1>4 DEF Tick, Members, Held, TypeOK
  <2>. QED BY <2>1, <1>2
<1>5. CASE UNCHANGED vars
  <2>1. Members' \subseteq Members
    BY <1>5 DEF vars, Members, Held
  <2>. QED BY <2>1, <1>2
<1>. QED BY <1>3, <1>4, <1>5 DEF Next

\* The invariant is inductive.
LEMMA NextIInv == IInv /\ [Next]_vars => IInv'
<1> SUFFICES ASSUME IInv, [Next]_vars PROVE IInv'
  OBVIOUS
<1>1. TypeOK'
  BY NextType
<1>2. MemberInv'
  BY <1>1, NextMembers
<1>3. ASSUME NEW m \in Leases PROVE LeaseOK(m)'
  <2>1. ASSUME NEW l \in Leases, LeaseStep(l) PROVE LeaseOK(m)'
    <3>1. CASE m = l
      BY <1>1, <2>1, <3>1, LeaseStepOK
    <3>2. CASE m # l
      BY <2>1, <3>2, OthersUntouched DEF IInv
    <3>. QED BY <3>1, <3>2
  <2>2. CASE Tick
    BY <1>1, <2>2, TickOK
  <2>3. CASE UNCHANGED vars
    BY <2>3 DEF IInv, LeaseOK, CallOK, YoungOK, TimeOK, LossOK, OccupiedOK, SinceAcquire,
       SinceRefresh, Held, Calling, Open, vars, localVars
  <2>. QED BY <2>1, <2>2, <2>3 DEF Next
<1>. QED BY <1>1, <1>2, <1>3 DEF IInv

\* The inductive invariant holds always.
THEOREM Invariance == Spec => []IInv
BY InitIInv, NextIInv, PTL DEF Spec

-----------------------------------------------------------------------------
\* Every variable keeps its type.
THEOREM TypeCorrect == Spec => []TypeOK
<1>1. IInv => TypeOK
  BY DEF IInv
<1>. QED BY <1>1, Invariance, PTL

\* A connection whose lease Redis dropped is cancelled within an interval and a call, for
\* all times with TTL a multiple of the interval (the loss rule of refresh).
THEOREM OverrunBounded == Spec => []OverrunIsBounded
<1>1. IInv => OverrunIsBounded
  BY DEF IInv, LeaseOK, TimeOK, OverrunIsBounded
<1>. QED BY <1>1, Invariance, PTL

\* Connections with a lease never exceed the limit, for any limit and any number of them.
THEOREM WithinLimit == Spec => []LimitHolds
<1>1. IInv => LimitHolds
  <2> SUFFICES ASSUME IInv PROVE LimitHolds
    OBVIOUS
  <2> DEFINE S == {l \in Leases : Open(l) /\ Held(l)}
  <2>1. S \subseteq Members
    BY DEF Members
  <2>2. Cardinality(S) <= Cardinality(Members) /\ IsFiniteSet(S)
    BY <2>1, FS_Subset DEF IInv, MemberInv
  <2>3. Cardinality(S) \in Nat /\ Cardinality(Members) \in Nat
    BY <2>2, FS_CardinalityType DEF IInv, MemberInv
  <2>. QED BY <2>2, <2>3, LimitAssumption DEF LimitHolds, IInv, MemberInv
<1>. QED BY <1>1, Invariance, PTL

\* No connection is cancelled unless one of its refreshes failed.
THEOREM LossNeedsFailure == Spec => []LostOnlyAfterFailure
<1>1. IInv => LostOnlyAfterFailure
  BY DEF IInv, LeaseOK, LossOK, LostOnlyAfterFailure
<1>. QED BY <1>1, Invariance, PTL

\* Capacity is occupied only by connections that are there or that failed to say goodbye.
THEOREM OccupiedJustified == Spec => []OccupiedMeansThere
<1>1. IInv => OccupiedMeansThere
  BY DEF IInv, LeaseOK, OccupiedOK, OccupiedMeansThere
<1>. QED BY <1>1, Invariance, PTL

-----------------------------------------------------------------------------
(***************************************************************************)
(* The authentication snapshots of AuthCacheInvalidation, for any          *)
(* instances, lookups, changes and faults.                                 *)
(***************************************************************************)

\* A lookup that holds a snapshot.
Carries(r) == lookup[r].step \in {"l1", "l2"}

\* The snapshots in Redis and of the lookups under way have seen change u.
Clean(u) ==
  /\ l2 # Absent => u <= l2
  /\ \A r \in Readers : Carries(r) => u <= lookup[r].value

\* A local cache that has not seen change u has a message to handle.
Notified(u) == \A i \in Instances : l1[i] # Absent /\ l1[i] < u => inbox[i] > 0

\* Only what was read from the database is written to Redis.
LookupInv == \A r \in Readers : lookup[r].step = "l2" => lookup[r].from = "db"

\* An event exists once its change is committed; who works on a claimed event works on its
\* present pass; and a second pass begins when the safety delay is over.
EventInv ==
  \A u \in Events :
    /\ stage[u] = "none" <=> db < u
    /\ \A i \in Instances :
         /\ stage[u] = "none" => proc[i][u] = "idle"
         /\ proc[i][u] = "idle" => pass[i][u] = "first"
         /\ proc[i][u] # "idle" /\ claimedBy[u] = i => pass[i][u] = stage[u]
         /\ pass[i][u] = "second" => stage[u] \in {"second", "done"} /\ early[u] = {}

\* Where a snapshot from before change u can still be: with a lookup the safety delay waits
\* for; after the second pass deleted the entry of Redis, in local caches alone; and after it
\* was published, in those that have a message to handle.
PassInv(u) ==
  /\ stage[u] = "second" => \A r \in Readers :
       Carries(r) /\ lookup[r].from = "db" /\ lookup[r].value < u => r \in early[u]
  /\ \A i \in Instances :
       pass[i][u] = "second" /\ proc[i][u] \in {"publish", "finish"} => Clean(u)
  /\ Delivered(u) => Clean(u) /\ Notified(u)

\* The inductive invariant of the authentication caches.
AuthInv ==
  /\ AuthTypeOK /\ LookupInv /\ EventInv
  /\ gaps = {} => \A u \in Events : PassInv(u)

-----------------------------------------------------------------------------
\* The records of lookups.
AuthLookups ==
  [step : {"idle", "redis", "db", "l1", "l2"}, value : Versions, from : {"redis", "db"}]

\* The initial state satisfies the invariant.
LEMMA InitAuth == ASSUME AuthInit PROVE AuthInv
<1>1. MaxUpdates \in Nat /\ MaxFaults \in Nat
  BY BoundsAssumption
<1>2. AuthTypeOK
  BY <1>1 DEF AuthInit, AuthTypeOK, Versions, Idle, ProcSteps, Gaps
<1>3. LookupInv
  BY DEF AuthInit, LookupInv, Idle
<1>4. EventInv
  BY <1>1 DEF AuthInit, EventInv, Events
<1>5. \A u \in Events : PassInv(u)
  BY DEF AuthInit, PassInv, Delivered, SecondPass
<1>. QED BY <1>2, <1>3, <1>4, <1>5 DEF AuthInv

\* Changes to one lookup keep the types of all.
LEMMA LookupType ==
  ASSUME AuthTypeOK, NEW r \in Readers, NEW v \in AuthLookups
  PROVE  [lookup EXCEPT ![r] = v] \in [Readers -> AuthLookups]
BY DEF AuthTypeOK, AuthLookups

LEMMA LookupGoes ==
  ASSUME AuthTypeOK, NEW r \in Readers, NEW step \in {"redis", "db", "l1", "l2"},
         LookupGoto(r, step)
  PROVE  /\ lookup' \in [Readers -> AuthLookups]
         /\ lookup'[r].step = step /\ lookup'[r].value = lookup[r].value
         /\ lookup'[r].from = lookup[r].from
         /\ \A s \in Readers \ {r} : lookup'[s] = lookup[s]
<1> DEFINE v == [lookup[r] EXCEPT !.step = step]
<1>1. lookup \in [Readers -> AuthLookups] /\ lookup[r] \in AuthLookups
  BY DEF AuthTypeOK, AuthLookups
<1>2. /\ v \in AuthLookups /\ v.step = step /\ v.value = lookup[r].value
      /\ v.from = lookup[r].from
  BY <1>1 DEF AuthLookups
<1>3. lookup' = [lookup EXCEPT ![r] = v]
  BY DEF LookupGoto
<1> HIDE DEF v
<1>. QED BY <1>1, <1>2, <1>3

LEMMA LookupDone ==
  ASSUME AuthTypeOK, NEW r \in Readers, LookupEnds(r)
  PROVE  /\ lookup' \in [Readers -> AuthLookups] /\ lookup'[r].step = "idle"
         /\ \A s \in Readers \ {r} : lookup'[s] = lookup[s]
         /\ early' \in [Events -> SUBSET Readers]
         /\ \A u \in Events : early'[u] = early[u] \ {r}
<1>1. Idle \in AuthLookups /\ Idle.step = "idle"
  BY BoundsAssumption DEF Idle, AuthLookups, Versions
<1>2. lookup' = [lookup EXCEPT ![r] = Idle]
  BY DEF LookupEnds
<1>3. lookup' \in [Readers -> AuthLookups]
  BY <1>1, <1>2, LookupType
<1>4. lookup'[r] = Idle /\ \A s \in Readers \ {r} : lookup'[s] = lookup[s]
  BY <1>2 DEF AuthTypeOK
<1>. QED BY <1>1, <1>3, <1>4 DEF AuthTypeOK, LookupEnds

\* One fault more is within the bound.
LEMMA AuthFault ==
  ASSUME AuthTypeOK
  PROVE  /\ Fault => faults' \in 0..MaxFaults
         /\ Recovered => faults' \in 0..MaxFaults /\ gaps' = gaps
         /\ NoFault => faults' \in 0..MaxFaults /\ gaps' = gaps
BY BoundsAssumption DEF AuthTypeOK, Fault, Recovered, NoFault

\* One processEvent changes its step.
LEMMA ProcType ==
  ASSUME AuthTypeOK, NEW i \in Instances, NEW u \in Events
  PROVE  /\ \A step \in ProcSteps : ProcGoto(i, u, step) =>
              /\ proc' \in [Instances -> [Events -> ProcSteps]] /\ pass' = pass
              /\ proc'[i][u] = step
              /\ \A j \in Instances, w \in Events :
                   j # i \/ w # u => proc'[j][w] = proc[j][w]
         /\ ProcEnds(i, u) =>
              /\ proc' \in [Instances -> [Events -> ProcSteps]]
              /\ pass' \in [Instances -> [Events -> {"first", "second"}]]
              /\ proc'[i][u] = "idle" /\ pass'[i][u] = "first"
              /\ \A j \in Instances, w \in Events :
                   j # i \/ w # u => proc'[j][w] = proc[j][w] /\ pass'[j][w] = pass[j][w]
<1>1. ASSUME NEW step \in ProcSteps, ProcGoto(i, u, step)
      PROVE  /\ proc' \in [Instances -> [Events -> ProcSteps]] /\ pass' = pass
             /\ proc'[i][u] = step
             /\ \A j \in Instances, w \in Events :
                  j # i \/ w # u => proc'[j][w] = proc[j][w]
  BY <1>1 DEF AuthTypeOK, ProcGoto
<1>2. ASSUME ProcEnds(i, u)
      PROVE  /\ proc' \in [Instances -> [Events -> ProcSteps]]
             /\ proc'[i][u] = "idle"
             /\ \A j \in Instances, w \in Events :
                  j # i \/ w # u => proc'[j][w] = proc[j][w]
  <2>1. "idle" \in ProcSteps
    BY DEF ProcSteps
  <2>. QED BY <1>2, <2>1 DEF AuthTypeOK, ProcEnds
<1>3. ASSUME ProcEnds(i, u)
      PROVE  /\ pass' \in [Instances -> [Events -> {"first", "second"}]]
             /\ pass'[i][u] = "first"
             /\ \A j \in Instances, w \in Events :
                  j # i \/ w # u => pass'[j][w] = pass[j][w]
  BY <1>3 DEF AuthTypeOK, ProcEnds
<1>. QED BY <1>1, <1>2, <1>3

-----------------------------------------------------------------------------
\* What a step may do to a lookup: it gets a snapshot from Redis or from the database.
LookupMoves ==
  \A r \in Readers : Carries(r)' =>
    \/ /\ Carries(r) /\ lookup'[r].value = lookup[r].value
       /\ lookup'[r].from = lookup[r].from
    \/ l2 # Absent /\ lookup'[r].value = l2 /\ lookup'[r].from = "redis"
    \/ lookup'[r].value = db

\* To the entry of Redis: it goes, or a lookup writes it.
RedisMoves ==
  l2' = l2 \/ l2' = Absent \/ \E r \in Readers : Carries(r) /\ l2' = lookup[r].value

\* To a local cache: it is emptied, a lookup writes it, or it keeps its message.
LocalMoves ==
  \A i \in Instances :
    \/ l1'[i] = Absent
    \/ l1'[i] = l1[i] /\ (inbox[i] > 0 => inbox'[i] > 0)
    \/ \E r \in Readers : Carries(r) /\ l1'[i] = lookup[r].value

\* To an event that does not enter a new stage.
EarlyMoves(u) ==
  early'[u] \subseteq early[u] /\ \A r \in early[u] : r \in early'[u] \/ ~Carries(r)'

LEMMA CleanKept ==
  ASSUME NEW u \in Events, u <= db, Clean(u), LookupMoves, RedisMoves
  PROVE  Clean(u)'
<1>1. l2' # Absent => u <= l2'
  BY DEF Clean, RedisMoves
<1>2. ASSUME NEW r \in Readers, Carries(r)' PROVE u <= lookup'[r].value
  BY <1>2 DEF Clean, LookupMoves
<1>. QED BY <1>1, <1>2 DEF Clean

LEMMA NotifiedKept ==
  ASSUME AuthTypeOK, AuthTypeOK', NEW u \in Events, Clean(u), Notified(u), LocalMoves
  PROVE  Notified(u)'
<1> SUFFICES ASSUME NEW i \in Instances, l1'[i] # Absent, l1'[i] < u PROVE inbox'[i] > 0
  BY DEF Notified
<1>1. CASE l1'[i] = l1[i] /\ (inbox[i] > 0 => inbox'[i] > 0)
  BY <1>1 DEF Notified
<1>2. ASSUME NEW r \in Readers, Carries(r), l1'[i] = lookup[r].value PROVE FALSE
  <2>1. u <= lookup[r].value /\ lookup[r].value \in Nat /\ u \in Nat
    BY <1>2 DEF Clean, AuthTypeOK, Versions, Events
  <2>. QED BY <1>2, <2>1
<1>. QED BY <1>1, <1>2 DEF LocalMoves

\* A step keeps what is known of change u when it moves snapshots as above and only a
\* deletion and a publication of its second pass bring it forward.
LEMMA PassKept ==
  ASSUME AuthInv, AuthTypeOK', NEW u \in Events, PassInv(u),
         LookupMoves, RedisMoves, Delivered(u) => LocalMoves,
         stage'[u] = "second" => stage[u] = "second" /\ EarlyMoves(u),
         \A i \in Instances : pass'[i][u] = "second" /\ proc'[i][u] \in {"publish", "finish"}
           => \/ pass[i][u] = "second" /\ proc[i][u] \in {"publish", "finish"}
              \/ Clean(u)',
         Delivered(u)' => Delivered(u) \/ (Clean(u)' /\ Notified(u)')
  PROVE  PassInv(u)'
<1>1. u \in Nat /\ db \in Nat /\ MaxUpdates \in Nat
  BY BoundsAssumption DEF AuthInv, AuthTypeOK, Versions, Events
<1>2. stage[u] # "none" => u <= db
  BY <1>1 DEF AuthInv, EventInv
<1>3. ASSUME stage'[u] = "second", NEW r \in Readers, Carries(r)',
             lookup'[r].from = "db", lookup'[r].value < u
      PROVE  r \in early'[u]
  <2>1. stage[u] = "second" /\ EarlyMoves(u) /\ u <= db
    BY <1>2, <1>3
  <2>2. lookup'[r].value # db
    BY <1>1, <1>3, <2>1
  <2>3. Carries(r) /\ lookup[r].value < u /\ lookup[r].from = "db"
    BY <1>3, <2>2 DEF LookupMoves
  <2>. QED BY <1>3, <2>1, <2>3 DEF PassInv, EarlyMoves
<1>4. ASSUME NEW i \in Instances, pass[i][u] = "second", proc[i][u] \in {"publish", "finish"}
      PROVE  Clean(u)'
  <2>1. u <= db
    BY <1>2, <1>4 DEF AuthInv, EventInv
  <2>2. Clean(u)
    BY <1>4 DEF PassInv
  <2>. QED BY <2>1, <2>2, CleanKept
<1>5. ASSUME Delivered(u) PROVE Clean(u)' /\ Notified(u)'
  <2>1. stage[u] # "none"
    BY <1>5 DEF Delivered, SecondPass, AuthInv, EventInv
  <2>2. Clean(u) /\ Notified(u)
    BY <1>5 DEF PassInv
  <2>. QED BY <1>2, <1>5, <2>1, <2>2, CleanKept, NotifiedKept DEF AuthInv
<1>. QED BY <1>3, <1>4, <1>5 DEF PassInv

\* A step that leaves the events and who works on them alone.
LEMMA QuietAuth ==
  ASSUME AuthInv, AuthTypeOK', LookupInv',
         UNCHANGED <<db, stage, claimedBy, proc, pass, gaps>>,
         LookupMoves, RedisMoves, LocalMoves, \A u \in Events : EarlyMoves(u)
  PROVE  AuthInv'
<1>1. EventInv'
  BY DEF AuthInv, EventInv, EarlyMoves
<1>2. ASSUME gaps' = {}, NEW u \in Events PROVE PassInv(u)'
  <2>1. PassInv(u)
    BY <1>2 DEF AuthInv
  <2>2. Delivered(u)' <=> Delivered(u)
    BY DEF Delivered, SecondPass
  <2>. QED BY <2>1, <2>2, PassKept
<1>. QED BY <1>1, <1>2 DEF AuthInv

\* A step that leaves the lookups and the caches alone.
LEMMA StillCaches ==
  ASSUME UNCHANGED <<l1, l2, lookup>>
  PROVE  /\ LookupMoves /\ RedisMoves /\ (LookupInv => LookupInv')
         /\ (\A i \in Instances : inbox[i] > 0 => inbox'[i] > 0) => LocalMoves
BY DEF LookupMoves, RedisMoves, LocalMoves, Carries, LookupInv

LEMMA StillEarly ==
  ASSUME UNCHANGED early
  PROVE  \A u \in Events : EarlyMoves(u)
BY DEF EarlyMoves

-----------------------------------------------------------------------------
LEMMA StartLookupAuth ==
  ASSUME AuthInv, NEW r \in Readers, StartLookup(r)
  PROVE  AuthInv'
<1>1. /\ UNCHANGED <<db, l1, l2, stage, claimedBy, early, proc, pass, inbox, connected, gaps>>
      /\ LookupGoto(r, "redis") /\ faults' \in 0..MaxFaults
  BY AuthFault DEF StartLookup, cacheVars, outboxVars, procVars,
     channelVars, AuthInv
<1>2. /\ lookup' \in [Readers -> AuthLookups] /\ lookup'[r].step = "redis"
      /\ \A s \in Readers \ {r} : lookup'[s] = lookup[s]
  BY <1>1, LookupGoes DEF AuthInv
<1>3. AuthTypeOK'
  BY <1>1, <1>2 DEF AuthInv, AuthTypeOK, AuthLookups
<1>4. LookupInv' /\ LookupMoves
  BY <1>2 DEF AuthInv, LookupInv, LookupMoves, Carries
<1>5. RedisMoves /\ LocalMoves
  BY <1>1 DEF RedisMoves, LocalMoves
<1>. QED BY <1>1, <1>3, <1>4, <1>5, StillEarly, QuietAuth

LEMMA GetAuthCacheAuth ==
  ASSUME AuthInv, NEW r \in Readers, GetAuthCache(r)
  PROVE  AuthInv'
<1>1. /\ UNCHANGED <<db, l1, l2, stage, claimedBy, early, proc, pass, inbox, connected, gaps>>
      /\ faults' \in 0..MaxFaults
  BY AuthFault DEF GetAuthCache, cacheVars, outboxVars, procVars,
     channelVars, AuthInv
<1>2. /\ lookup' \in [Readers -> AuthLookups]
      /\ \A s \in Readers \ {r} : lookup'[s] = lookup[s]
      /\ \/ lookup'[r].step = "db"
         \/ /\ l2 # Absent /\ lookup'[r].step = "l1" /\ lookup'[r].value = l2
            /\ lookup'[r].from = "redis"
  <2> DEFINE v == [step |-> "l1", value |-> l2, from |-> "redis"]
  <2>1. CASE l2 # Absent /\ lookup' = [lookup EXCEPT ![r] = v]
    <3>1. v \in AuthLookups
      BY <2>1 DEF AuthInv, AuthTypeOK, AuthLookups
    <3>2. lookup'[r] = v /\ \A s \in Readers \ {r} : lookup'[s] = lookup[s]
      BY <2>1 DEF AuthInv, AuthTypeOK
    <3>3. lookup' \in [Readers -> AuthLookups]
      BY <2>1, <3>1, LookupType DEF AuthInv
    <3>. QED BY <2>1, <3>2, <3>3
  <2>2. CASE LookupGoto(r, "db")
    BY <2>2, LookupGoes DEF AuthInv
  <2>. QED BY <2>1, <2>2 DEF GetAuthCache
<1>3. AuthTypeOK'
  BY <1>1, <1>2 DEF AuthInv, AuthTypeOK, AuthLookups
<1>4. LookupInv' /\ LookupMoves
  BY <1>2 DEF AuthInv, LookupInv, LookupMoves, Carries
<1>5. RedisMoves /\ LocalMoves
  BY <1>1 DEF RedisMoves, LocalMoves
<1>. QED BY <1>1, <1>3, <1>4, <1>5, StillEarly, QuietAuth

LEMMA GetByKeyAuth ==
  ASSUME AuthInv, NEW r \in Readers, GetByKeyForAuth(r)
  PROVE  AuthInv'
<1>1. /\ UNCHANGED <<db, l1, l2, stage, claimedBy, proc, pass, inbox, connected, gaps>>
      /\ faults' \in 0..MaxFaults
  BY AuthFault DEF GetByKeyForAuth, cacheVars, procVars, channelVars, AuthInv
<1>2. /\ lookup' \in [Readers -> AuthLookups]
      /\ early' \in [Events -> SUBSET Readers]
      /\ \A s \in Readers \ {r} : lookup'[s] = lookup[s]
      /\ \/ lookup'[r].step = "idle" /\ \A u \in Events : early'[u] = early[u] \ {r}
         \/ /\ lookup'[r].step = "l1" /\ lookup'[r].value = db /\ lookup'[r].from = "db"
            /\ early' = early
  <2> DEFINE v == [step |-> "l1", value |-> db, from |-> "db"]
  <2>1. CASE lookup' = [lookup EXCEPT ![r] = v] /\ early' = early
    <3>1. v \in AuthLookups
      BY DEF AuthInv, AuthTypeOK, AuthLookups
    <3>2. lookup'[r] = v /\ \A s \in Readers \ {r} : lookup'[s] = lookup[s]
      BY <2>1 DEF AuthInv, AuthTypeOK
    <3>3. lookup' \in [Readers -> AuthLookups]
      BY <2>1, <3>1, LookupType DEF AuthInv
    <3>. QED BY <2>1, <3>2, <3>3 DEF AuthInv, AuthTypeOK
  <2>2. CASE LookupEnds(r)
    BY <2>2, LookupDone DEF AuthInv
  <2>. QED BY <2>1, <2>2 DEF GetByKeyForAuth
<1>3. AuthTypeOK'
  BY <1>1, <1>2 DEF AuthInv, AuthTypeOK, AuthLookups
<1>4. LookupInv' /\ LookupMoves
  BY <1>2 DEF AuthInv, LookupInv, LookupMoves, Carries
<1>5. RedisMoves /\ LocalMoves
  BY <1>1 DEF RedisMoves, LocalMoves
<1>6. \A u \in Events : EarlyMoves(u)
  BY <1>2 DEF EarlyMoves, Carries
<1>. QED BY <1>1, <1>3, <1>4, <1>5, <1>6, QuietAuth

LEMMA SetL1Auth ==
  ASSUME AuthInv, NEW r \in Readers, SetAuthCacheL1(r)
  PROVE  AuthInv'
<1>1. /\ UNCHANGED <<db, l2, stage, claimedBy, proc, pass, inbox, connected, gaps>>
      /\ faults' \in 0..MaxFaults /\ lookup[r].step = "l1"
      /\ l1' = [l1 EXCEPT ![r[1]] = lookup[r].value]
  BY AuthFault DEF SetAuthCacheL1, procVars, channelVars, AuthInv
<1>2. /\ lookup' \in [Readers -> AuthLookups]
      /\ early' \in [Events -> SUBSET Readers]
      /\ \A s \in Readers \ {r} : lookup'[s] = lookup[s]
      /\ \/ lookup'[r].step = "idle" /\ \A u \in Events : early'[u] = early[u] \ {r}
         \/ /\ lookup'[r].step = "l2" /\ lookup'[r].value = lookup[r].value
            /\ lookup'[r].from = lookup[r].from /\ lookup[r].from = "db" /\ early' = early
  <2>1. CASE lookup[r].from = "redis" /\ LookupEnds(r)
    BY <2>1, LookupDone DEF AuthInv
  <2>2. CASE lookup[r].from # "redis" /\ LookupGoto(r, "l2") /\ UNCHANGED early
    BY <2>2, LookupGoes DEF AuthInv, AuthTypeOK
  <2>. QED BY <2>1, <2>2 DEF SetAuthCacheL1
<1>3. lookup[r].value \in Versions /\ r[1] \in Instances
  BY DEF AuthInv, AuthTypeOK, Readers
<1>4. AuthTypeOK'
  BY <1>1, <1>2, <1>3 DEF AuthInv, AuthTypeOK, AuthLookups
<1>5. LookupInv' /\ LookupMoves
  BY <1>1, <1>2 DEF AuthInv, LookupInv, LookupMoves, Carries
<1>6. RedisMoves /\ LocalMoves
  BY <1>1 DEF RedisMoves, LocalMoves, Carries, AuthInv, AuthTypeOK
<1>7. \A u \in Events : EarlyMoves(u)
  BY <1>2 DEF EarlyMoves, Carries
<1>. QED BY <1>1, <1>4, <1>5, <1>6, <1>7, QuietAuth

LEMMA SetL2Auth ==
  ASSUME AuthInv, NEW r \in Readers, SetAuthCacheL2(r)
  PROVE  AuthInv'
<1>1. /\ UNCHANGED <<db, l1, stage, claimedBy, proc, pass, inbox, connected, gaps>>
      /\ faults' \in 0..MaxFaults /\ lookup[r].step = "l2" /\ LookupEnds(r)
      /\ l2' = l2 \/ l2' = lookup[r].value
  BY AuthFault DEF SetAuthCacheL2, procVars, channelVars, AuthInv
<1>2. /\ lookup' \in [Readers -> AuthLookups] /\ lookup'[r].step = "idle"
      /\ early' \in [Events -> SUBSET Readers]
      /\ \A s \in Readers \ {r} : lookup'[s] = lookup[s]
      /\ \A u \in Events : early'[u] = early[u] \ {r}
  BY <1>1, LookupDone DEF AuthInv
<1>3. lookup[r].value \in Versions
  BY DEF AuthInv, AuthTypeOK
<1>4. AuthTypeOK'
  BY <1>1, <1>2, <1>3 DEF AuthInv, AuthTypeOK, AuthLookups
<1>5. LookupInv' /\ LookupMoves
  BY <1>2 DEF AuthInv, LookupInv, LookupMoves, Carries
<1>6. RedisMoves /\ LocalMoves
  BY <1>1 DEF RedisMoves, LocalMoves, Carries
<1>7. \A u \in Events : EarlyMoves(u)
  BY <1>2 DEF EarlyMoves, Carries
<1>. QED BY <1>1, <1>4, <1>5, <1>6, <1>7, QuietAuth

\* Entries expire, and messages empty a local cache.
LEMMA EmptyAuth ==
  ASSUME AuthInv,
         ExpireL2 \/ \E i \in Instances : ExpireL1(i) \/ HandleMessage(i)
  PROVE  AuthInv'
<1>1. /\ UNCHANGED <<db, lookup, stage, claimedBy, early, proc, pass, connected, gaps>>
      /\ faults' \in 0..MaxFaults
  BY AuthFault DEF ExpireL1, ExpireL2, HandleMessage, outboxVars,
     procVars, channelVars, AuthInv
<1>2. /\ l2' = l2 \/ l2' = Absent
      /\ \/ l1' = l1 /\ inbox' = inbox
         \/ \E i \in Instances : /\ l1' = [l1 EXCEPT ![i] = Absent]
                                 /\ \/ inbox' = inbox
                                    \/ inbox[i] > 0 /\ inbox' = [inbox EXCEPT ![i] = @ - 1]
  BY DEF ExpireL1, ExpireL2, HandleMessage, channelVars
<1>3. AuthTypeOK'
  <2>1. l1' \in [Instances -> Versions \cup {Absent}]
    BY <1>2 DEF AuthInv, AuthTypeOK
  <2>2. inbox' \in [Instances -> Nat]
    BY <1>2 DEF AuthInv, AuthTypeOK
  <2>3. l2' \in Versions \cup {Absent}
    BY <1>2 DEF AuthInv, AuthTypeOK
  <2>. QED BY <1>1, <2>1, <2>2, <2>3 DEF AuthInv, AuthTypeOK
<1>4. LookupInv' /\ LookupMoves
  BY <1>1 DEF AuthInv, LookupInv, LookupMoves, Carries
<1>5. RedisMoves /\ LocalMoves
  BY <1>2 DEF RedisMoves, LocalMoves, AuthInv, AuthTypeOK
<1>. QED BY <1>1, <1>3, <1>4, <1>5, StillEarly, QuietAuth


-----------------------------------------------------------------------------
\* A claimed event goes on to the next step of its pass.
LEMMA ProcGoesOn ==
  ASSUME AuthInv, NEW i \in Instances, NEW u \in Events, proc[i][u] # "idle",
         NEW step \in ProcSteps \ {"idle"}, ProcGoto(i, u, step),
         UNCHANGED <<db, stage, claimedBy, early>>
  PROVE  EventInv'
<1>1. /\ pass' = pass /\ proc'[i][u] # "idle"
      /\ \A j \in Instances, w \in Events : j # i \/ w # u => proc'[j][w] = proc[j][w]
  BY ProcType DEF AuthInv
<1>2. \A j \in Instances, w \in Events : proc'[j][w] = "idle" <=> proc[j][w] = "idle"
  BY <1>1
<1>. QED BY <1>1, <1>2 DEF AuthInv, EventInv

\* processEvent ends, and may give the event back.
LEMMA ProcGivesUp ==
  ASSUME AuthInv, NEW i \in Instances, NEW u \in Events, ProcEnds(i, u),
         claimedBy' = claimedBy \/ Unclaim(u), UNCHANGED <<db, stage, early>>
  PROVE  EventInv' /\ claimedBy' \in [Events -> Instances \cup {NoOne}]
<1>1. /\ proc'[i][u] = "idle" /\ pass'[i][u] = "first"
      /\ \A j \in Instances, w \in Events :
           j # i \/ w # u => proc'[j][w] = proc[j][w] /\ pass'[j][w] = pass[j][w]
  BY ProcType DEF AuthInv
<1>2. \A w \in Events : claimedBy'[w] = claimedBy[w] \/ claimedBy'[w] = NoOne
  BY DEF AuthInv, AuthTypeOK, Unclaim
<1>3. claimedBy' \in [Events -> Instances \cup {NoOne}]
  BY DEF AuthInv, AuthTypeOK, Unclaim
<1>4. ASSUME NEW w \in Events, NEW j \in Instances
      PROVE  /\ stage'[w] = "none" => proc'[j][w] = "idle"
             /\ proc'[j][w] = "idle" => pass'[j][w] = "first"
             /\ proc'[j][w] # "idle" /\ claimedBy'[w] = j => pass'[j][w] = stage'[w]
             /\ pass'[j][w] = "second" => stage'[w] \in {"second", "done"} /\ early'[w] = {}
  <2>1. CASE j = i /\ w = u
    BY <1>1, <2>1
  <2>2. CASE j # i \/ w # u
    <3>1. proc'[j][w] = proc[j][w] /\ pass'[j][w] = pass[j][w]
      BY <1>1, <2>2
    <3>2. claimedBy'[w] = j => claimedBy[w] = j
      BY <1>2, NoOneAssumption
    <3>. QED BY <3>1, <3>2 DEF AuthInv, EventInv
  <2>. QED BY <2>1, <2>2
<1>5. \A w \in Events : stage'[w] = "none" <=> db' < w
  BY DEF AuthInv, EventInv
<1>. QED BY <1>3, <1>4, <1>5 DEF EventInv

LEMMA UpdateAuth ==
  ASSUME AuthInv, Update
  PROVE  AuthInv'
<1>1. /\ UNCHANGED <<l1, l2, lookup, claimedBy, early, proc, pass, inbox, connected, gaps>>
      /\ db < MaxUpdates /\ db' = db + 1 /\ stage' = [stage EXCEPT ![db + 1] = "first"]
      /\ faults' \in 0..MaxFaults
  BY AuthFault DEF Update, cacheVars, procVars, channelVars, AuthInv
<1>2. MaxUpdates \in Nat /\ db \in Nat /\ db + 1 \in Events /\ db' \in Versions
  BY <1>1, BoundsAssumption DEF AuthInv, AuthTypeOK, Versions, Events
<1>3. AuthTypeOK'
  BY <1>1, <1>2 DEF AuthInv, AuthTypeOK
<1>4. /\ stage'[db + 1] = "first" /\ stage[db + 1] = "none"
      /\ \A u \in Events : u # db + 1 => stage'[u] = stage[u]
  BY <1>1, <1>2 DEF AuthInv, AuthTypeOK, EventInv
<1>5. \A i \in Instances : proc[i][db + 1] = "idle" /\ pass[i][db + 1] = "first"
  BY <1>2, <1>4 DEF AuthInv, EventInv
<1>6. EventInv'
  <2> SUFFICES ASSUME NEW u \in Events
               PROVE  /\ stage'[u] = "none" <=> db' < u
                      /\ \A i \in Instances :
                           /\ stage'[u] = "none" => proc'[i][u] = "idle"
                           /\ proc'[i][u] = "idle" => pass'[i][u] = "first"
                           /\ proc'[i][u] # "idle" /\ claimedBy'[u] = i => pass'[i][u] = stage'[u]
                           /\ pass'[i][u] = "second" =>
                                stage'[u] \in {"second", "done"} /\ early'[u] = {}
    BY DEF EventInv
  <2>1. u \in Nat
    BY <1>2 DEF Events
  <2>2. CASE u = db + 1
    BY <1>1, <1>2, <1>4, <1>5, <2>2
  <2>3. CASE u # db + 1
    <3>1. stage'[u] = stage[u]
      BY <1>4, <2>3
    <3>2. db' < u <=> db < u
      BY <1>1, <1>2, <2>1, <2>3
    <3>. QED BY <1>1, <3>1, <3>2 DEF AuthInv, EventInv
  <2>. QED BY <2>2, <2>3
<1>7. LookupInv' /\ LookupMoves /\ RedisMoves /\ LocalMoves
  BY <1>1, StillCaches DEF AuthInv
<1>8. ASSUME gaps' = {}, NEW u \in Events PROVE PassInv(u)'
  <2>1. PassInv(u) /\ EarlyMoves(u)
    BY <1>1, <1>8, StillEarly DEF AuthInv
  <2>2. stage'[u] \in {"second", "done"} => stage'[u] = stage[u]
    BY <1>4, <1>8
  <2>3. Delivered(u)' => Delivered(u)
    BY <1>1, <2>2 DEF Delivered, SecondPass
  <2>. QED BY <1>1, <1>3, <1>7, <2>1, <2>2, <2>3, PassKept
<1>. QED BY <1>3, <1>6, <1>7, <1>8 DEF AuthInv

LEMMA ClaimAuth ==
  ASSUME AuthInv, NEW i \in Instances, Claim(i)
  PROVE  AuthInv'
<1>1. /\ UNCHANGED <<db, l1, l2, lookup, stage, early, inbox, connected, gaps>>
      /\ faults' \in 0..MaxFaults /\ \A u \in Events : proc[i][u] = "idle"
  BY AuthFault DEF Claim, cacheVars, channelVars, AuthInv
<1>2. PICK due \in SUBSET {u \in Events : Claimable(u)} :
        /\ claimedBy' = [u \in Events |-> IF u \in due THEN i ELSE claimedBy[u]]
        /\ \/ /\ proc' = [proc EXCEPT ![i] =
                   [u \in Events |-> IF u \in due THEN "local" ELSE proc[i][u]]]
              /\ pass' = [pass EXCEPT ![i] =
                   [u \in Events |-> IF u \in due THEN stage[u] ELSE pass[i][u]]]
           \/ UNCHANGED <<proc, pass>>
  BY DEF Claim, procVars
<1>3. \A u \in due : u \in Events /\ stage[u] \in {"first", "second"} /\ early[u] = {}
  BY <1>2 DEF Claimable
<1>4. claimedBy' \in [Events -> Instances \cup {NoOne}]
  BY <1>2 DEF AuthInv, AuthTypeOK
<1>5. proc' \in [Instances -> [Events -> ProcSteps]]
  <2> DEFINE row == [u \in Events |-> IF u \in due THEN "local" ELSE proc[i][u]]
  <2>1. proc \in [Instances -> [Events -> ProcSteps]] /\ "local" \in ProcSteps
    BY DEF AuthInv, AuthTypeOK, ProcSteps
  <2>2. row \in [Events -> ProcSteps]
    BY <2>1
  <2>3. proc' = proc \/ proc' = [proc EXCEPT ![i] = row]
    BY <1>2
  <2> HIDE DEF row
  <2>. QED BY <2>1, <2>2, <2>3
<1>6. pass' \in [Instances -> [Events -> {"first", "second"}]]
  <2> DEFINE row == [u \in Events |-> IF u \in due THEN stage[u] ELSE pass[i][u]]
  <2>1. pass \in [Instances -> [Events -> {"first", "second"}]]
    BY DEF AuthInv, AuthTypeOK
  <2>2. row \in [Events -> {"first", "second"}]
    BY <1>3, <2>1
  <2>3. pass' = pass \/ pass' = [pass EXCEPT ![i] = row]
    BY <1>2
  <2> HIDE DEF row
  <2>. QED BY <2>1, <2>2, <2>3
<1>7. AuthTypeOK'
  BY <1>1, <1>4, <1>5, <1>6 DEF AuthInv, AuthTypeOK
<1>8. \A j \in Instances, u \in Events :
        \/ proc'[j][u] = proc[j][u] /\ pass'[j][u] = pass[j][u] /\ (j = i => proc[j][u] = "idle")
        \/ j = i /\ u \in due /\ proc'[j][u] = "local" /\ pass'[j][u] = stage[u]
  BY <1>1, <1>2 DEF AuthInv, AuthTypeOK
<1>9. EventInv'
  <2>1. ASSUME NEW u \in Events, NEW j \in Instances
        PROVE  /\ stage'[u] = "none" => proc'[j][u] = "idle"
               /\ proc'[j][u] = "idle" => pass'[j][u] = "first"
               /\ proc'[j][u] # "idle" /\ claimedBy'[u] = j => pass'[j][u] = stage'[u]
               /\ pass'[j][u] = "second" => stage'[u] \in {"second", "done"} /\ early'[u] = {}
    <3>1. CASE /\ proc'[j][u] = proc[j][u] /\ pass'[j][u] = pass[j][u]
               /\ j = i => proc[j][u] = "idle"
      <4>1. j # i /\ claimedBy'[u] = j => claimedBy[u] = j
        BY <1>2
      <4>. QED BY <1>1, <3>1, <4>1 DEF AuthInv, EventInv
    <3>2. CASE u \in due /\ proc'[j][u] = "local" /\ pass'[j][u] = stage[u]
      BY <1>1, <1>3, <3>2
    <3>. QED BY <1>8, <3>1, <3>2
  <2>2. \A u \in Events : stage'[u] = "none" <=> db' < u
    BY <1>1 DEF AuthInv, EventInv
  <2>. QED BY <2>1, <2>2 DEF EventInv
<1>10. LookupInv' /\ LookupMoves /\ RedisMoves /\ LocalMoves
  BY <1>1, StillCaches DEF AuthInv
<1>11. ASSUME gaps' = {}, NEW u \in Events PROVE PassInv(u)'
  <2>1. PassInv(u) /\ EarlyMoves(u)
    BY <1>1, <1>11, StillEarly DEF AuthInv
  <2>2. \A j \in Instances : proc'[j][u] \in {"publish", "finish"} =>
          proc'[j][u] = proc[j][u] /\ pass'[j][u] = pass[j][u]
    BY <1>8, <1>11
  <2>3. Delivered(u)' => Delivered(u)
    BY <1>1, <2>2 DEF Delivered, SecondPass
  <2>. QED BY <1>1, <1>7, <1>10, <2>1, <2>2, <2>3, PassKept
<1>. QED BY <1>7, <1>9, <1>10, <1>11 DEF AuthInv

LEMMA InvalidateLocalAuth ==
  ASSUME AuthInv, NEW i \in Instances, NEW u \in Events,
         InvalidateLocal(i, u)
  PROVE  AuthInv'
<1>1. /\ UNCHANGED <<db, l2, lookup, stage, claimedBy, early, inbox, connected, gaps>>
      /\ faults' \in 0..MaxFaults /\ proc[i][u] = "local" /\ ProcGoto(i, u, "redis")
      /\ l1' = [l1 EXCEPT ![i] = Absent]
  BY AuthFault DEF InvalidateLocal, outboxVars, channelVars, AuthInv
<1>2. "redis" \in ProcSteps \ {"idle"}
  BY DEF ProcSteps
<1>3. /\ proc' \in [Instances -> [Events -> ProcSteps]] /\ pass' = pass
      /\ proc'[i][u] = "redis"
      /\ \A j \in Instances, w \in Events : j # i \/ w # u => proc'[j][w] = proc[j][w]
  BY <1>1, <1>2, ProcType DEF AuthInv
<1>4. AuthTypeOK'
  BY <1>1, <1>3 DEF AuthInv, AuthTypeOK
<1>5. EventInv'
  BY <1>1, <1>2, ProcGoesOn
<1>6. LookupInv' /\ LookupMoves /\ RedisMoves
  BY <1>1 DEF AuthInv, LookupInv, LookupMoves, RedisMoves, Carries
<1>7. LocalMoves
  BY <1>1 DEF LocalMoves, AuthInv, AuthTypeOK
<1>8. ASSUME gaps' = {}, NEW w \in Events PROVE PassInv(w)'
  <2>1. PassInv(w) /\ EarlyMoves(w)
    BY <1>1, <1>8, StillEarly DEF AuthInv
  <2>2. \A j \in Instances : proc'[j][w] \in {"publish", "finish"} => proc'[j][w] = proc[j][w]
    BY <1>3
  <2>3. Delivered(w)' => Delivered(w)
    BY <1>1, <1>3, <2>2 DEF Delivered, SecondPass
  <2>. QED BY <1>1, <1>3, <1>4, <1>6, <1>7, <2>1, <2>2, <2>3, PassKept
<1>. QED BY <1>4, <1>5, <1>6, <1>8 DEF AuthInv

\* The deletion of the second pass: what read the database before is over, so that the entry
\* of Redis was the last old snapshot, unless a lookup has just read it.
LEMMA SecondDeletes ==
  ASSUME AuthInv, gaps = {}, NEW i \in Instances, NEW u \in Events,
         pass[i][u] = "second", ~StaleFromRedis, l2' = Absent, lookup' = lookup
  PROVE  Clean(u)'
<1>1. PassInv(u) /\ stage[u] \in {"second", "done"} /\ early[u] = {}
  BY DEF AuthInv, EventInv
<1>2. u \in Nat /\ db \in Nat /\ u <= db
  BY <1>1, BoundsAssumption DEF AuthInv, EventInv, AuthTypeOK, Versions, Events
<1>3. ASSUME NEW r \in Readers, Carries(r) PROVE u <= lookup[r].value
  <2>1. /\ lookup[r].value \in Nat /\ lookup[r].from \in {"redis", "db"}
    BY DEF AuthInv, AuthTypeOK, Versions
  <2>2. CASE lookup[r].from = "redis"
    <3>1. lookup[r].step = "l1"
      BY <1>3, <2>2 DEF AuthInv, LookupInv, Carries
    <3>2. ~(lookup[r].value < db)
      BY <2>2, <3>1 DEF StaleFromRedis
    <3>. QED BY <1>2, <2>1, <3>2
  <2>3. CASE lookup[r].from = "db" /\ stage[u] = "second"
    BY <1>1, <1>2, <1>3, <2>1, <2>3 DEF PassInv
  <2>4. CASE stage[u] = "done"
    BY <1>1, <1>3, <2>4 DEF PassInv, Delivered, Clean
  <2>. QED BY <1>1, <2>1, <2>2, <2>3, <2>4
<1>. QED BY <1>3 DEF Clean, Carries

LEMMA DeleteAuthCacheAuth ==
  ASSUME AuthInv, NEW i \in Instances, NEW u \in Events,
         DeleteAuthCache(i, u)
  PROVE  AuthInv'
<1>1. /\ UNCHANGED <<db, l1, lookup, stage, claimedBy, early, inbox, connected>>
      /\ proc[i][u] = "redis"
  BY DEF DeleteAuthCache, outboxVars, channelVars
<1>2. PICK step \in {"publish", "retry"} :
        /\ ProcGoto(i, u, step)
        /\ \/ l2' = l2 /\ step = "retry" /\ gaps' = gaps
           \/ /\ l2' = Absent
              /\ gaps' = IF SecondPass(i, u) /\ StaleFromRedis
                           THEN gaps \cup {"straddle"} ELSE gaps
        /\ faults' \in 0..MaxFaults
  BY AuthFault DEF DeleteAuthCache, AuthInv, AuthTypeOK
<1>3. step \in ProcSteps \ {"idle"}
  BY DEF ProcSteps
<1>4. /\ proc' \in [Instances -> [Events -> ProcSteps]] /\ pass' = pass
      /\ proc'[i][u] = step
      /\ \A j \in Instances, w \in Events : j # i \/ w # u => proc'[j][w] = proc[j][w]
  BY <1>2, <1>3, ProcType DEF AuthInv
<1>5. gaps' \subseteq Gaps
  BY <1>2 DEF AuthInv, AuthTypeOK, Gaps
<1>6. AuthTypeOK'
  BY <1>1, <1>2, <1>4, <1>5 DEF AuthInv, AuthTypeOK
<1>7. EventInv'
  BY <1>1, <1>2, <1>3, ProcGoesOn
<1>8. LookupInv' /\ LookupMoves
  BY <1>1 DEF AuthInv, LookupInv, LookupMoves, Carries
<1>9. RedisMoves /\ LocalMoves
  BY <1>1, <1>2 DEF RedisMoves, LocalMoves
<1>10. ASSUME gaps' = {}, NEW w \in Events PROVE PassInv(w)'
  <2>1. gaps = {}
    BY <1>2, <1>10
  <2>2. PassInv(w) /\ EarlyMoves(w)
    BY <1>1, <2>1, StillEarly DEF AuthInv
  <2>3. ASSUME NEW j \in Instances, pass'[j][w] = "second", proc'[j][w] \in {"publish", "finish"}
        PROVE  \/ pass[j][w] = "second" /\ proc[j][w] \in {"publish", "finish"}
               \/ Clean(w)'
    <3>1. CASE j # i \/ w # u
      BY <1>4, <2>3, <3>1
    <3>2. CASE j = i /\ w = u
      <4>1. pass[i][u] = "second" /\ step = "publish"
        BY <1>4, <2>3, <3>2
      <4>2. l2' = Absent /\ ~StaleFromRedis
        BY <1>2, <1>10, <4>1 DEF SecondPass
      <4>. QED BY <1>1, <2>1, <3>2, <4>1, <4>2, SecondDeletes
    <3>. QED BY <3>1, <3>2
  <2>4. Delivered(w)' => Delivered(w)
    BY <1>1, <1>4 DEF Delivered, SecondPass
  <2>. QED BY <1>1, <1>6, <1>8, <1>9, <2>2, <2>3, <2>4, PassKept
<1>. QED BY <1>6, <1>7, <1>8, <1>10 DEF AuthInv

LEMMA PublishAuth ==
  ASSUME AuthInv, NEW i \in Instances, NEW u \in Events,
         PublishAuthCacheInvalidation(i, u)
  PROVE  AuthInv'
<1>1. /\ UNCHANGED <<db, l1, l2, lookup, stage, claimedBy, early, connected>>
      /\ proc[i][u] = "publish"
  BY DEF PublishAuthCacheInvalidation, outboxVars, cacheVars
<1>2. PICK step \in {"finish", "retry"} :
        /\ ProcGoto(i, u, step)
        /\ \/ inbox' = inbox /\ step = "retry" /\ gaps' = gaps
           \/ /\ inbox' = [j \in Instances |-> inbox[j] + (IF j \in connected THEN 1 ELSE 0)]
              /\ gaps' = IF SecondPass(i, u) /\ connected # Instances
                           THEN gaps \cup {"missed"} ELSE gaps
        /\ faults' \in 0..MaxFaults
  BY AuthFault DEF PublishAuthCacheInvalidation, AuthInv, AuthTypeOK
<1>3. step \in ProcSteps \ {"idle"}
  BY DEF ProcSteps
<1>4. /\ proc' \in [Instances -> [Events -> ProcSteps]] /\ pass' = pass
      /\ proc'[i][u] = step
      /\ \A j \in Instances, w \in Events : j # i \/ w # u => proc'[j][w] = proc[j][w]
  BY <1>2, <1>3, ProcType DEF AuthInv
<1>5. gaps' \subseteq Gaps
  BY <1>2 DEF AuthInv, AuthTypeOK, Gaps
<1>6. /\ inbox' \in [Instances -> Nat]
      /\ \A j \in Instances : inbox[j] > 0 => inbox'[j] > 0
      /\ step = "finish" => \A j \in connected : inbox'[j] > 0
  <2>1. inbox \in [Instances -> Nat] /\ connected \subseteq Instances
    BY DEF AuthInv, AuthTypeOK
  <2>2. CASE inbox' = inbox /\ step = "retry"
    BY <2>1, <2>2
  <2>3. CASE inbox' = [j \in Instances |-> inbox[j] + (IF j \in connected THEN 1 ELSE 0)]
    <3>1. ASSUME NEW j \in Instances
          PROVE  /\ inbox'[j] \in Nat /\ (inbox[j] > 0 => inbox'[j] > 0)
                 /\ j \in connected => inbox'[j] > 0
      <4>1. inbox[j] \in Nat /\ inbox'[j] = inbox[j] + (IF j \in connected THEN 1 ELSE 0)
        BY <2>1, <2>3
      <4>. QED BY <4>1
    <3>2. inbox' = [j \in Instances |-> inbox'[j]]
      BY <2>3
    <3>. QED BY <2>1, <3>1, <3>2
  <2>. QED BY <1>2, <2>2, <2>3
<1>7. AuthTypeOK'
  BY <1>1, <1>2, <1>4, <1>5, <1>6 DEF AuthInv, AuthTypeOK
<1>8. EventInv'
  BY <1>1, <1>2, <1>3, ProcGoesOn
<1>9. LookupInv' /\ LookupMoves /\ RedisMoves /\ LocalMoves
  BY <1>1, <1>6, StillCaches DEF AuthInv
<1>10. ASSUME gaps' = {}, NEW w \in Events PROVE PassInv(w)'
  <2>1. gaps = {}
    BY <1>2, <1>10
  <2>2. PassInv(w) /\ EarlyMoves(w)
    BY <1>1, <2>1, StillEarly DEF AuthInv
  <2>3. ASSUME NEW j \in Instances, pass'[j][w] = "second", proc'[j][w] \in {"publish", "finish"}
        PROVE  pass[j][w] = "second" /\ proc[j][w] \in {"publish", "finish"}
    BY <1>1, <1>4, <2>3
  <2>4. ASSUME Delivered(w)', ~Delivered(w) PROVE Clean(w)' /\ Notified(w)'
    <3>1. w = u /\ pass[i][u] = "second" /\ step = "finish"
      BY <1>1, <1>4, <2>4 DEF Delivered, SecondPass
    <3>2. connected = Instances
      BY <1>2, <1>10, <3>1 DEF SecondPass
    <3>3. Notified(w)'
      BY <1>6, <3>1, <3>2 DEF Notified
    <3>4. Clean(w)
      BY <1>1, <2>2, <3>1 DEF PassInv
    <3>5. Clean(w)'
      BY <1>1, <3>4 DEF Clean, Carries
    <3>. QED BY <3>3, <3>5
  <2>. QED BY <1>1, <1>7, <1>9, <2>2, <2>3, <2>4, PassKept
<1>. QED BY <1>7, <1>8, <1>9, <1>10 DEF AuthInv

LEMMA RetryClaimedAuth ==
  ASSUME AuthInv, NEW i \in Instances, NEW u \in Events,
         RetryClaimed(i, u)
  PROVE  AuthInv'
<1>1. /\ UNCHANGED <<db, l1, l2, lookup, stage, early, inbox, connected, gaps>>
      /\ faults' \in 0..MaxFaults /\ ProcEnds(i, u)
      /\ claimedBy' = claimedBy \/ Unclaim(u)
  BY AuthFault DEF RetryClaimed, cacheVars, channelVars, AuthInv
<1>2. /\ proc' \in [Instances -> [Events -> ProcSteps]]
      /\ pass' \in [Instances -> [Events -> {"first", "second"}]]
      /\ proc'[i][u] = "idle" /\ pass'[i][u] = "first"
      /\ \A j \in Instances, w \in Events :
           j # i \/ w # u => proc'[j][w] = proc[j][w] /\ pass'[j][w] = pass[j][w]
  BY <1>1, ProcType DEF AuthInv
<1>3. EventInv' /\ claimedBy' \in [Events -> Instances \cup {NoOne}]
  BY <1>1, ProcGivesUp
<1>4. AuthTypeOK'
  BY <1>1, <1>2, <1>3 DEF AuthInv, AuthTypeOK
<1>5. LookupInv' /\ LookupMoves /\ RedisMoves /\ LocalMoves
  BY <1>1, StillCaches DEF AuthInv
<1>6. ASSUME gaps' = {}, NEW w \in Events PROVE PassInv(w)'
  <2>1. PassInv(w) /\ EarlyMoves(w)
    BY <1>1, <1>6, StillEarly DEF AuthInv
  <2>2. \A j \in Instances : pass'[j][w] = "second" =>
          proc'[j][w] = proc[j][w] /\ pass'[j][w] = pass[j][w]
    BY <1>2
  <2>3. Delivered(w)' => Delivered(w)
    BY <1>1, <2>2 DEF Delivered, SecondPass
  <2>. QED BY <1>1, <1>4, <1>5, <2>1, <2>2, <2>3, PassKept
<1>. QED BY <1>3, <1>4, <1>5, <1>6 DEF AuthInv

\* The statement that ends a pass: the event is scheduled for its second pass, whose delay
\* waits for the lookups under way, or it goes.
LEMMA FinishMoves ==
  ASSUME AuthInv, NEW i \in Instances, NEW u \in Events,
         proc[i][u] = "finish", ProcEnds(i, u), claimedBy[u] = i,
         IF pass[i][u] = "first" THEN ScheduleSecondPass(u) ELSE DeleteClaimed(u),
         UNCHANGED <<db, l1, l2, lookup, inbox, connected, gaps>>, faults' \in 0..MaxFaults
  PROVE  AuthInv'
<1>1. /\ proc' \in [Instances -> [Events -> ProcSteps]]
      /\ pass' \in [Instances -> [Events -> {"first", "second"}]]
      /\ proc'[i][u] = "idle" /\ pass'[i][u] = "first"
      /\ \A j \in Instances, w \in Events :
           j # i \/ w # u => proc'[j][w] = proc[j][w] /\ pass'[j][w] = pass[j][w]
  BY ProcType DEF AuthInv
<1>2. claimedBy' = [claimedBy EXCEPT ![u] = NoOne]
  BY DEF ScheduleSecondPass, DeleteClaimed, Unclaim
<1>3. claimedBy' \in [Events -> Instances \cup {NoOne}] /\ claimedBy'[u] = NoOne
      /\ \A w \in Events : w # u => claimedBy'[w] = claimedBy[w]
  BY <1>2 DEF AuthInv, AuthTypeOK
<1>4. LookupsUnderWay \in SUBSET Readers
  BY DEF LookupsUnderWay
<1>5. /\ stage' \in [Events -> {"none", "first", "second", "done"}]
      /\ early' \in [Events -> SUBSET Readers]
      /\ \A w \in Events : w # u => stage'[w] = stage[w] /\ early'[w] = early[w]
  BY <1>4 DEF ScheduleSecondPass, DeleteClaimed, AuthInv, AuthTypeOK
<1>6. \/ /\ pass[i][u] = "first" /\ stage[u] = "first" /\ stage'[u] = "second"
         /\ early'[u] = LookupsUnderWay
      \/ pass[i][u] = "second" /\ stage'[u] = "done" /\ early'[u] = early[u]
  BY DEF ScheduleSecondPass, DeleteClaimed, AuthInv, AuthTypeOK
<1>7. AuthTypeOK'
  BY <1>1, <1>3, <1>5 DEF AuthInv, AuthTypeOK
<1>8. EventInv'
  <2>1. ASSUME NEW w \in Events, NEW j \in Instances
        PROVE  /\ stage'[w] = "none" => proc'[j][w] = "idle"
               /\ proc'[j][w] = "idle" => pass'[j][w] = "first"
               /\ proc'[j][w] # "idle" /\ claimedBy'[w] = j => pass'[j][w] = stage'[w]
               /\ pass'[j][w] = "second" => stage'[w] \in {"second", "done"} /\ early'[w] = {}
    <3>1. CASE w # u
      <4>1. /\ proc'[j][w] = proc[j][w] /\ pass'[j][w] = pass[j][w] /\ stage'[w] = stage[w]
            /\ claimedBy'[w] = claimedBy[w] /\ early'[w] = early[w]
        BY <1>1, <1>3, <1>5, <3>1
      <4>. QED BY <4>1 DEF AuthInv, EventInv
    <3>2. CASE w = u /\ j = i
      BY <1>1, <3>2
    <3>3. CASE w = u /\ j # i
      <4>1. proc'[j][u] = proc[j][u] /\ pass'[j][u] = pass[j][u]
        BY <1>1, <3>3
      <4>2. claimedBy'[u] # j /\ stage'[u] \in {"second", "done"}
        BY <1>3, <1>6, NoOneAssumption
      <4>3. pass[j][u] = "second" => early'[u] = {}
        BY <1>6 DEF AuthInv, EventInv
      <4>4. proc[j][u] = "idle" => pass[j][u] = "first"
        BY DEF AuthInv, EventInv
      <4>. QED BY <3>3, <4>1, <4>2, <4>3, <4>4
    <3>. QED BY <3>1, <3>2, <3>3
  <2>2. ASSUME NEW w \in Events PROVE stage'[w] = "none" <=> db' < w
    <3>1. stage[w] = "none" <=> stage'[w] = "none"
      <4>1. CASE w # u
        BY <1>5, <4>1
      <4>2. CASE w = u
        <5>1. stage[u] # "none"
          BY DEF AuthInv, EventInv
        <5>. QED BY <1>6, <4>2, <5>1
      <4>. QED BY <4>1, <4>2
    <3>. QED BY <3>1 DEF AuthInv, EventInv
  <2>. QED BY <2>1, <2>2 DEF EventInv
<1>9. LookupInv' /\ LookupMoves /\ RedisMoves /\ LocalMoves
  BY StillCaches DEF AuthInv
<1>10. ASSUME gaps' = {}, NEW w \in Events PROVE PassInv(w)'
  <2>1. PassInv(w)
    BY <1>10 DEF AuthInv
  <2>2. \A j \in Instances : pass'[j][w] = "second" =>
          proc'[j][w] = proc[j][w] /\ pass'[j][w] = pass[j][w]
    BY <1>1
  <2>3. CASE w # u \/ pass[i][u] = "second"
    <3>1. stage'[w] = "second" => stage[w] = "second" /\ EarlyMoves(w)
      BY <1>5, <1>6, <2>3 DEF EarlyMoves
    <3>2. Delivered(w)' => Delivered(w)
      BY <1>5, <1>6, <2>2, <2>3 DEF Delivered, SecondPass
    <3>. QED BY <1>7, <1>9, <2>1, <2>2, <3>1, <3>2, PassKept
  <2>4. CASE w = u /\ pass[i][u] = "first"
    <3>1. /\ stage[u] = "first" /\ stage'[u] = "second" /\ early'[u] = LookupsUnderWay
      BY <1>6, <2>4
    <3>2. \A j \in Instances : pass'[j][u] # "second"
      BY <2>2, <2>4, <3>1 DEF AuthInv, EventInv
    <3>3. \A r \in Readers : Carries(r)' => r \in early'[u]
      BY <3>1 DEF LookupsUnderWay, Carries
    <3>4. ~Delivered(u)'
      BY <3>1, <3>2 DEF Delivered, SecondPass
    <3>. QED BY <2>4, <3>2, <3>3, <3>4 DEF PassInv
  <2>. QED BY <2>3, <2>4, <1>6
<1>. QED BY <1>7, <1>8, <1>9, <1>10 DEF AuthInv

LEMMA FinishEventAuth ==
  ASSUME AuthInv, NEW i \in Instances, NEW u \in Events,
         FinishEvent(i, u)
  PROVE  AuthInv'
<1>1. /\ UNCHANGED <<db, l1, l2, lookup, inbox, connected, gaps>>
      /\ faults' \in 0..MaxFaults /\ proc[i][u] = "finish" /\ ProcEnds(i, u)
  BY AuthFault DEF FinishEvent, cacheVars, channelVars, AuthInv
<1>2. CASE /\ claimedBy[u] = i
           /\ IF pass[i][u] = "first" THEN ScheduleSecondPass(u) ELSE DeleteClaimed(u)
  BY <1>1, <1>2, FinishMoves
<1>3. CASE UNCHANGED <<stage, claimedBy, early>>
  <2>1. /\ proc' \in [Instances -> [Events -> ProcSteps]]
        /\ pass' \in [Instances -> [Events -> {"first", "second"}]]
        /\ proc'[i][u] = "idle" /\ pass'[i][u] = "first"
        /\ \A j \in Instances, w \in Events :
             j # i \/ w # u => proc'[j][w] = proc[j][w] /\ pass'[j][w] = pass[j][w]
    BY <1>1, ProcType DEF AuthInv
  <2>2. EventInv' /\ claimedBy' \in [Events -> Instances \cup {NoOne}]
    BY <1>1, <1>3, ProcGivesUp
  <2>3. AuthTypeOK'
    BY <1>1, <1>3, <2>1, <2>2 DEF AuthInv, AuthTypeOK
  <2>4. LookupInv' /\ LookupMoves /\ RedisMoves /\ LocalMoves
    BY <1>1, StillCaches DEF AuthInv
  <2>5. ASSUME gaps' = {}, NEW w \in Events PROVE PassInv(w)'
    <3>1. PassInv(w) /\ EarlyMoves(w)
      BY <1>1, <1>3, <2>5, StillEarly DEF AuthInv
    <3>2. \A j \in Instances : pass'[j][w] = "second" =>
            proc'[j][w] = proc[j][w] /\ pass'[j][w] = pass[j][w]
      BY <2>1
    <3>3. Delivered(w)' => Delivered(w)
      BY <1>3, <3>2 DEF Delivered, SecondPass
    <3>. QED BY <1>3, <2>3, <2>4, <3>1, <3>2, <3>3, PassKept
  <2>. QED BY <2>2, <2>3, <2>4, <2>5 DEF AuthInv
<1>. QED BY <1>2, <1>3 DEF FinishEvent, outboxVars

LEMMA DelayPassesAuth ==
  ASSUME AuthInv, NEW u \in Events, SafetyDelayPasses(u)
  PROVE  AuthInv'
<1>1. /\ UNCHANGED <<db, l1, l2, lookup, stage, claimedBy, proc, pass, inbox, connected>>
      /\ faults' \in 0..MaxFaults /\ early' = [early EXCEPT ![u] = {}]
      /\ gaps' = gaps \cup {"slow"}
  BY AuthFault DEF SafetyDelayPasses, cacheVars, procVars, channelVars, AuthInv
<1>2. /\ early' \in [Events -> SUBSET Readers] /\ gaps' \subseteq Gaps
      /\ gaps' # {} /\ \A w \in Events : early'[w] = early[w] \/ early'[w] = {}
  BY <1>1 DEF AuthInv, AuthTypeOK, Gaps
<1>3. AuthTypeOK'
  BY <1>1, <1>2 DEF AuthInv, AuthTypeOK
<1>4. EventInv'
  BY <1>1, <1>2 DEF AuthInv, EventInv
<1>5. LookupInv'
  BY <1>1, StillCaches DEF AuthInv
<1>. QED BY <1>2, <1>3, <1>4, <1>5 DEF AuthInv

\* A subscription that breaks loses messages, of a published second pass only at the price
\* of a gap.
LEMMA DisconnectAuth ==
  ASSUME AuthInv, NEW i \in Instances, Disconnect(i)
  PROVE  AuthInv'
<1>1. /\ UNCHANGED <<db, l1, l2, lookup, stage, claimedBy, early, proc, pass>>
      /\ faults' \in 0..MaxFaults /\ connected' = connected \ {i}
      /\ inbox' = [inbox EXCEPT ![i] = 0]
      /\ gaps' = IF inbox[i] > 0 /\ \E u \in Events : Delivered(u)
                   THEN gaps \cup {"missed"} ELSE gaps
  BY AuthFault DEF Disconnect, cacheVars, procVars, outboxVars, AuthInv
<1>2. /\ inbox' \in [Instances -> Nat] /\ gaps' \subseteq Gaps
      /\ \A j \in Instances : j # i => inbox'[j] = inbox[j]
  BY <1>1 DEF AuthInv, AuthTypeOK, Gaps
<1>3. AuthTypeOK'
  BY <1>1, <1>2 DEF AuthInv, AuthTypeOK
<1>4. EventInv'
  BY <1>1 DEF AuthInv, EventInv
<1>5. LookupInv' /\ LookupMoves /\ RedisMoves
  BY <1>1, StillCaches DEF AuthInv
<1>6. ASSUME gaps' = {}, NEW u \in Events PROVE PassInv(u)'
  <2>1. gaps = {}
    BY <1>1, <1>6
  <2>2. PassInv(u) /\ EarlyMoves(u)
    BY <1>1, <2>1, StillEarly DEF AuthInv
  <2>3. Delivered(u)' <=> Delivered(u)
    BY <1>1 DEF Delivered, SecondPass
  <2>4. Delivered(u) => LocalMoves
    BY <1>1, <1>2, <1>6 DEF LocalMoves
  <2>. QED BY <1>1, <1>3, <1>5, <2>2, <2>3, <2>4, PassKept
<1>. QED BY <1>3, <1>4, <1>5, <1>6 DEF AuthInv

LEMMA ReconnectAuth ==
  ASSUME AuthInv, NEW i \in Instances, Reconnect(i)
  PROVE  AuthInv'
<1>1. /\ UNCHANGED <<db, l1, l2, lookup, stage, claimedBy, early, proc, pass, inbox, gaps>>
      /\ faults' \in 0..MaxFaults /\ connected' = connected \cup {i}
  BY AuthFault DEF Reconnect, cacheVars, procVars, outboxVars, AuthInv
<1>2. AuthTypeOK'
  BY <1>1 DEF AuthInv, AuthTypeOK
<1>3. LookupInv' /\ LookupMoves /\ RedisMoves /\ LocalMoves
  BY <1>1, StillCaches DEF AuthInv
<1>. QED BY <1>1, <1>2, <1>3, StillEarly, QuietAuth

LEMMA RestartAuth ==
  ASSUME AuthInv, NEW i \in Instances, Restart(i)
  PROVE  AuthInv'
<1>1. /\ UNCHANGED <<db, l2, stage, claimedBy, gaps>> /\ faults' \in 0..MaxFaults
      /\ connected' = connected \cup {i}
  BY AuthFault DEF Restart, AuthInv
<1>2. /\ l1' \in [Instances -> Versions \cup {Absent}] /\ l1'[i] = Absent
      /\ inbox' \in [Instances -> Nat]
      /\ \A j \in Instances : j # i => l1'[j] = l1[j] /\ inbox'[j] = inbox[j]
  BY DEF Restart, AuthInv, AuthTypeOK
<1>3. /\ lookup' \in [Readers -> AuthLookups]
      /\ \A r \in Readers : r[1] = i => lookup'[r].step = "idle"
      /\ \A r \in Readers : r[1] # i => lookup'[r] = lookup[r]
  <2>1. Idle \in AuthLookups /\ Idle.step = "idle"
    BY BoundsAssumption DEF Idle, AuthLookups, Versions
  <2>2. /\ lookup \in [Readers -> AuthLookups]
        /\ lookup' = [r \in Readers |-> IF r[1] = i THEN Idle ELSE lookup[r]]
    BY DEF Restart, AuthInv, AuthTypeOK, AuthLookups
  <2>. QED BY <2>1, <2>2
<1>4. /\ early' \in [Events -> SUBSET Readers]
      /\ \A u \in Events : early'[u] = {r \in early[u] : r[1] # i}
  BY DEF Restart, AuthInv, AuthTypeOK
<1>5. /\ proc' \in [Instances -> [Events -> ProcSteps]]
      /\ \A u \in Events : proc'[i][u] = "idle"
      /\ \A j \in Instances, u \in Events : j # i => proc'[j][u] = proc[j][u]
  <2> DEFINE row == [u \in Events |-> "idle"]
  <2>1. /\ proc \in [Instances -> [Events -> ProcSteps]]
        /\ proc' = [proc EXCEPT ![i] = row]
    BY DEF Restart, AuthInv, AuthTypeOK
  <2>2. row \in [Events -> ProcSteps] /\ \A u \in Events : row[u] = "idle"
    BY DEF ProcSteps
  <2> HIDE DEF row
  <2>. QED BY <2>1, <2>2
<1>6. /\ pass' \in [Instances -> [Events -> {"first", "second"}]]
      /\ \A u \in Events : pass'[i][u] = "first"
      /\ \A j \in Instances, u \in Events : j # i => pass'[j][u] = pass[j][u]
  <2> DEFINE row == [u \in Events |-> "first"]
  <2>1. /\ pass \in [Instances -> [Events -> {"first", "second"}]]
        /\ pass' = [pass EXCEPT ![i] = row]
    BY DEF Restart, AuthInv, AuthTypeOK
  <2>2. /\ row \in [Events -> {"first", "second"}] /\ \A u \in Events : row[u] = "first"
    OBVIOUS
  <2> HIDE DEF row
  <2>. QED BY <2>1, <2>2
<1>7. AuthTypeOK'
  BY <1>1, <1>2, <1>3, <1>4, <1>5, <1>6 DEF AuthInv, AuthTypeOK, AuthLookups
<1>8. EventInv'
  <2>1. ASSUME NEW u \in Events, NEW j \in Instances
        PROVE  /\ stage'[u] = "none" => proc'[j][u] = "idle"
               /\ proc'[j][u] = "idle" => pass'[j][u] = "first"
               /\ proc'[j][u] # "idle" /\ claimedBy'[u] = j => pass'[j][u] = stage'[u]
               /\ pass'[j][u] = "second" => stage'[u] \in {"second", "done"} /\ early'[u] = {}
    <3>1. CASE j = i
      BY <1>5, <1>6, <3>1
    <3>2. CASE j # i
      <4>1. early[u] = {} => early'[u] = {}
        BY <1>4
      <4>2. proc'[j][u] = proc[j][u] /\ pass'[j][u] = pass[j][u]
        BY <1>5, <1>6, <3>2
      <4>. QED BY <1>1, <4>1, <4>2 DEF AuthInv, EventInv
    <3>. QED BY <3>1, <3>2
  <2>2. \A u \in Events : stage'[u] = "none" <=> db' < u
    BY <1>1 DEF AuthInv, EventInv
  <2>. QED BY <2>1, <2>2 DEF EventInv
<1>9. LookupInv' /\ LookupMoves
  BY <1>3 DEF AuthInv, LookupInv, LookupMoves, Carries
<1>10. RedisMoves /\ LocalMoves
  BY <1>1, <1>2 DEF RedisMoves, LocalMoves
<1>11. \A u \in Events : EarlyMoves(u)
  BY <1>3, <1>4 DEF EarlyMoves, Carries, AuthInv, AuthTypeOK
<1>12. ASSUME gaps' = {}, NEW u \in Events PROVE PassInv(u)'
  <2>1. PassInv(u)
    BY <1>1, <1>12 DEF AuthInv
  <2>2. \A j \in Instances : pass'[j][u] = "second" =>
          proc'[j][u] = proc[j][u] /\ pass'[j][u] = pass[j][u]
    BY <1>5, <1>6
  <2>3. Delivered(u)' => Delivered(u)
    BY <1>1, <2>2 DEF Delivered, SecondPass
  <2>. QED BY <1>1, <1>7, <1>9, <1>10, <1>11, <2>1, <2>2, <2>3, PassKept
<1>. QED BY <1>7, <1>8, <1>9, <1>12 DEF AuthInv

\* Every step preserves the invariant.
LEMMA NextAuth ==
  ASSUME AuthInv, [AuthNext]_authVars
  PROVE  AuthInv'
<1>1. CASE UNCHANGED authVars
  <2>1. UNCHANGED <<db, l1, l2, lookup, stage, claimedBy, early, proc, pass, inbox, connected,
                    gaps, faults>>
    BY <1>1 DEF authVars, cacheVars, outboxVars, procVars, channelVars
  <2>2. AuthTypeOK'
    BY <2>1 DEF AuthInv, AuthTypeOK
  <2>3. LookupInv' /\ LookupMoves /\ RedisMoves /\ LocalMoves
    BY <2>1, StillCaches DEF AuthInv
  <2>. QED BY <2>1, <2>2, <2>3, StillEarly, QuietAuth
<1>2. ASSUME NEW r \in Readers, StartLookup(r) \/ LookupStep(r) PROVE AuthInv'
  BY <1>2, StartLookupAuth, GetAuthCacheAuth, GetByKeyAuth, SetL1Auth, SetL2Auth
  DEF LookupStep
<1>3. ASSUME NEW i \in Instances, WorkerStep(i) PROVE AuthInv'
  BY <1>3, ClaimAuth, InvalidateLocalAuth, DeleteAuthCacheAuth, PublishAuth, RetryClaimedAuth,
     FinishEventAuth DEF WorkerStep
<1>4. ASSUME NEW i \in Instances,
             \/ ExpireL1(i) \/ HandleMessage(i) \/ Disconnect(i)
             \/ Reconnect(i) \/ Restart(i)
      PROVE  AuthInv'
  BY <1>4, EmptyAuth, DisconnectAuth, ReconnectAuth, RestartAuth
<1>5. CASE Update \/ ExpireL2
  BY <1>5, UpdateAuth, EmptyAuth
<1>6. ASSUME NEW u \in Events, SafetyDelayPasses(u) PROVE AuthInv'
  BY <1>6, DelayPassesAuth
<1>. QED BY <1>1, <1>2, <1>3, <1>4, <1>5, <1>6 DEF AuthNext

\* The inductive invariant of the authentication caches holds in every state.
THEOREM AuthInvariance == AuthSpec => []AuthInv
<1>1. AuthInit => AuthInv
  BY InitAuth
<1>2. AuthInv /\ [AuthNext]_authVars => AuthInv'
  BY NextAuth
<1>. QED BY <1>1, <1>2, PTL DEF AuthSpec

\* Every variable of the authentication caches keeps its type.
THEOREM AuthTypeCorrect == AuthSpec => []AuthTypeOK
<1>1. AuthInv => AuthTypeOK
  BY DEF AuthInv
<1>. QED BY <1>1, AuthInvariance, PTL

\* Once the second pass of a change is over and its messages have been handled, no cache holds
\* and no lookup will write a snapshot of before the change (processEvent's two passes with
\* authInvalidationSafetyDelay between them), whatever failed, crashed or interleaved, unless a
\* lookup outlasted the delay, one read Redis just before the deletion, or a message was lost.
THEOREM NothingStaleRemains == AuthSpec => []NoStaleAfterLastPass
<1>1. AuthInv => NoStaleAfterLastPass
  <2> SUFFICES ASSUME AuthInv, gaps = {}
               PROVE  /\ ~Outlasts(l2)
                      /\ \A i \in Instances : inbox[i] = 0 => ~Outlasts(l1[i])
                      /\ \A r \in Readers : lookup[r].step \in {"l1", "l2"} =>
                           ~Outlasts(lookup[r].value)
    BY DEF NoStaleAfterLastPass
  <2>1. ASSUME NEW u \in Events, stage[u] = "done" PROVE Clean(u) /\ Notified(u)
    BY <2>1 DEF AuthInv, PassInv, Delivered
  <2>2. Events \subseteq Nat /\ Versions \subseteq Nat
    BY BoundsAssumption DEF Events, Versions
  <2>3. ~Outlasts(l2)
    BY <2>1, <2>2 DEF Outlasts, Clean, AuthInv, AuthTypeOK
  <2>4. ASSUME NEW i \in Instances, inbox[i] = 0 PROVE ~Outlasts(l1[i])
    BY <2>1, <2>4 DEF Outlasts, Notified
  <2>5. ASSUME NEW r \in Readers, lookup[r].step \in {"l1", "l2"}
        PROVE  ~Outlasts(lookup[r].value)
    <3>1. lookup[r].value \in Nat
      BY <2>2 DEF AuthInv, AuthTypeOK
    <3>. QED BY <2>1, <2>2, <2>5, <3>1 DEF Outlasts, Clean, Carries
  <2>. QED BY <2>3, <2>4, <2>5
<1>. QED BY <1>1, AuthInvariance, PTL

=============================================================================
