----------------------- MODULE ConcurrencySlotsProofs -----------------------
(***************************************************************************)
(* Proofs about two specifications that share no state: ConcurrencySlots,  *)
(* for any number of instances, requests and faults and any limits, and    *)
(* then SystemOperationLock.                                               *)
(***************************************************************************)
EXTENDS ConcurrencySlots, SystemOperationLock, FiniteSetTheorems, TLAPS

\* The slots are within the limit, and every request that runs has one unless a gap took
\* it away.
SlotInv ==
  /\ Cardinality(slots) <= MaxConcurrency
  /\ gaps = {} => Running \subseteq slots

\* The requests in the queue that nothing in the counter stands for.
Uncounted == {r \in Queued : ~counted[r]}

\* The counter falls short of the queue by no more than drift, even when it expires
\* while only uncounted requests wait.
QueueInv ==
  /\ Cardinality(Queued) <= wait + drift
  /\ Cardinality(Uncounted) <= drift

\* Before the first fault the slots are those of the requests that run and the counter
\* is the length of the queue.
CleanInv ==
  faults = 0 =>
    /\ \A i \in Instances : node[i] = "up"
    /\ slots \subseteq Running
    /\ Uncounted = {}
    /\ wait = Cardinality(Queued)

\* The inductive invariant.
IInv == TypeOK /\ SlotInv /\ QueueInv /\ CleanInv

-----------------------------------------------------------------------------
\* Sets of requests are finite.
LEMMA FiniteRequests ==
  ASSUME NEW S \in SUBSET Requests
  PROVE  IsFiniteSet(S) /\ Cardinality(S) \in Nat
<1>1. IsFiniteSet(Requests)
  BY LimitsAssumption, FS_Interval DEF Requests
<1>2. IsFiniteSet(S)
  BY <1>1, FS_Subset
<1>. QED BY <1>2, FS_CardinalityType

\* A subset of a set of requests has no more elements.
LEMMA FewerRequests ==
  ASSUME NEW T \in SUBSET Requests, NEW S \in SUBSET T
  PROVE  Cardinality(S) <= Cardinality(T)
<1>1. IsFiniteSet(T)
  BY FiniteRequests
<1>. QED BY <1>1, FS_Subset

\* One request more or less counts as one.
LEMMA OneRequest ==
  ASSUME NEW S \in SUBSET Requests, NEW r \in Requests
  PROVE  /\ r \notin S => Cardinality(S \cup {r}) = Cardinality(S) + 1
         /\ r \in S => Cardinality(S \cup {r}) = Cardinality(S)
         /\ r \in S => Cardinality(S \ {r}) = Cardinality(S) - 1
<1>1. IsFiniteSet(S)
  BY FiniteRequests
<1>. QED BY <1>1, FS_AddElement, FS_RemoveElement

\* The sets that the invariants speak of are sets of requests.
LEMMA SetTypes ==
  ASSUME TypeOK
  PROVE  /\ slots \in SUBSET Requests /\ Running \in SUBSET Requests
         /\ Queued \in SUBSET Requests /\ Uncounted \in SUBSET Requests
         /\ Cardinality(slots) \in Nat /\ Cardinality(Queued) \in Nat
         /\ Cardinality(Uncounted) \in Nat
<1>1. /\ slots \in SUBSET Requests /\ Running \in SUBSET Requests
      /\ Queued \in SUBSET Requests /\ Uncounted \in SUBSET Requests
  BY DEF TypeOK, Running, Queued, Uncounted
<1>. QED BY <1>1, FiniteRequests

\* A request joins the queue.
LEMMA Joins ==
  ASSUME TypeOK, NEW r \in Requests, pc[r] = "queue", Goto(r, "wait"),
         \A q \in Requests : q # r => counted'[q] = counted[q]
  PROVE  /\ Cardinality(Queued)' = Cardinality(Queued) + 1
         /\ Cardinality(Uncounted)' = Cardinality(Uncounted) + (IF counted'[r] THEN 0 ELSE 1)
         /\ counted'[r] => Uncounted' = Uncounted
<1>1. Queued' = Queued \cup {r} /\ r \notin Queued /\ r \notin Uncounted
  BY DEF TypeOK, Goto, Queued, Uncounted
<1>2. Uncounted' = IF counted'[r] THEN Uncounted ELSE Uncounted \cup {r}
  BY <1>1 DEF TypeOK, Goto, Queued, Uncounted
<1>3. Queued \in SUBSET Requests /\ Uncounted \in SUBSET Requests
  BY SetTypes
<1>4. Cardinality(Queued \cup {r}) = Cardinality(Queued) + 1
  BY <1>1, <1>3, OneRequest
<1>5. Cardinality(Uncounted \cup {r}) = Cardinality(Uncounted) + 1
  BY <1>1, <1>3, OneRequest
<1>6. Cardinality(Uncounted) \in Nat
  BY SetTypes
<1>7. Cardinality(Uncounted') = Cardinality(Uncounted) + (IF counted'[r] THEN 0 ELSE 1)
  BY <1>2, <1>5, <1>6
<1>. QED BY <1>1, <1>2, <1>4, <1>7

\* A request leaves the queue, to run or for good.
LEMMA Leaves ==
  ASSUME TypeOK, NEW r \in Requests, pc[r] = "leave", AfterLeave(r)
  PROVE  /\ Cardinality(Queued)' = Cardinality(Queued) - 1
         /\ Cardinality(Uncounted)' <= Cardinality(Uncounted)
         /\ Uncounted' \subseteq Uncounted
         /\ Running' = Running
<1>1. Queued' = Queued \ {r} /\ r \in Queued
  BY DEF TypeOK, AfterLeave, Goto, Queued
<1>2. Uncounted' \subseteq Uncounted
  BY <1>1 DEF TypeOK, AfterLeave, Goto, Queued, Uncounted
<1>3. Running' = Running
  BY DEF TypeOK, AfterLeave, Goto, Running
<1>4. /\ Queued \in SUBSET Requests /\ Uncounted \in SUBSET Requests
      /\ Uncounted' \in SUBSET Requests
  BY <1>2, SetTypes
<1>5. Cardinality(Queued \ {r}) = Cardinality(Queued) - 1
  BY <1>1, <1>4, OneRequest
<1>6. Cardinality(Uncounted') <= Cardinality(Uncounted)
  BY <1>2, <1>4, FewerRequests
<1>. QED BY <1>1, <1>2, <1>3, <1>5, <1>6

\* A slot is taken below the limit, for a request that runs from now on or not.
LEMMA Takes ==
  ASSUME TypeOK, Cardinality(slots) <= MaxConcurrency, NEW r \in Requests,
         slots' = slots \cup {r}, FreeSlot
  PROVE  Cardinality(slots)' <= MaxConcurrency
<1>1. slots \in SUBSET Requests /\ Cardinality(slots) \in Nat
  BY SetTypes
<1>2. Cardinality(slots \cup {r}) \in {Cardinality(slots), Cardinality(slots) + 1}
  BY <1>1, OneRequest
<1>. QED BY <1>1, <1>2, LimitsAssumption DEF FreeSlot

\* Fewer slots are within the limit too.
LEMMA Drops ==
  ASSUME TypeOK, Cardinality(slots) <= MaxConcurrency, slots' \subseteq slots
  PROVE  Cardinality(slots)' <= MaxConcurrency
<1>1. slots \in SUBSET Requests /\ slots' \in SUBSET Requests
  BY SetTypes
<1>2. Cardinality(slots') <= Cardinality(slots)
  BY <1>1, FewerRequests
<1>3. Cardinality(slots) \in Nat /\ Cardinality(slots') \in Nat
  BY <1>1, FiniteRequests
<1>. QED BY <1>2, <1>3, LimitsAssumption

-----------------------------------------------------------------------------
\* Nobody runs or waits at the beginning.
LEMMA InitIInv == Init => IInv
<1> SUFFICES ASSUME Init PROVE IInv
  OBVIOUS
<1>1. TypeOK
  BY LimitsAssumption, InstancesAssumption DEF Init, TypeOK
<1>2. Queued = {} /\ Uncounted = {} /\ Running = {}
  BY DEF Init, Queued, Uncounted, Running
<1>3. Cardinality({}) = 0
  BY FS_EmptySet
<1>. QED BY <1>1, <1>2, <1>3, LimitsAssumption DEF Init, IInv, SlotInv, QueueInv, CleanInv

\* Every step keeps the types.
LEMMA NextType == IInv /\ [Next]_vars => TypeOK'
<1> SUFFICES ASSUME IInv, [Next]_vars PROVE TypeOK'
  OBVIOUS
<1> USE LimitsAssumption DEF IInv, TypeOK
<1>1. ASSUME NEW r \in Requests, NEW i \in Instances, TryAcquire(r, i) PROVE TypeOK'
  BY <1>1 DEF TryAcquire, MayStart, Goto
<1>2. ASSUME NEW r \in Requests, NEW i \in Instances, TryAcquireFails(r, i) PROVE TypeOK'
  BY <1>2 DEF TryAcquireFails, MayStart, Goto, MayHaveTaken, Fault
<1>3. ASSUME NEW r \in Requests, Poll(r) PROVE TypeOK'
  BY <1>3 DEF Poll, Leave, Goto
<1>4. ASSUME NEW r \in Requests, PollFails(r) PROVE TypeOK'
  BY <1>4 DEF PollFails, Leave, Goto, MayHaveTaken, Fault
<1>5. ASSUME NEW r \in Requests, GiveUp(r) PROVE TypeOK'
  BY <1>5 DEF GiveUp, Leave, Goto, slotVars
<1>6. ASSUME NEW r \in Requests, Release(r) PROVE TypeOK'
  BY <1>6 DEF Release, Goto
<1>7. ASSUME NEW r \in Requests, ReleaseFails(r) PROVE TypeOK'
  BY <1>7 DEF ReleaseFails, Goto, Fault
<1>8. ASSUME NEW r \in Requests, SlotExpires(r) PROVE TypeOK'
  BY <1>8 DEF SlotExpires, requestVars, Gaps
<1>9. ASSUME NEW r \in Requests, IncrementWaitCount(r) PROVE TypeOK'
  <2>1. wait' \in 0..QueueLimit
    BY <1>9 DEF IncrementWaitCount
  <2>2. counted' \in [Requests -> BOOLEAN]
    BY <1>9 DEF IncrementWaitCount
  <2>. QED BY <1>9, <2>1, <2>2 DEF IncrementWaitCount, Goto
<1>10. ASSUME NEW r \in Requests, IncrementFails(r) PROVE TypeOK'
  <2>1. wait' \in 0..QueueLimit /\ drift' \in Nat
    BY <1>10 DEF IncrementFails
  <2>2. counted' \in [Requests -> BOOLEAN]
    BY <1>10 DEF IncrementFails
  <2>3. faults' \in 0..MaxFaults
    BY <1>10 DEF IncrementFails, Fault
  <2>. QED BY <1>10, <2>1, <2>2, <2>3 DEF IncrementFails, Goto
<1>11. ASSUME NEW r \in Requests, IncrementTwice(r) PROVE TypeOK'
  <2>1. wait' \in 0..QueueLimit
    BY <1>11 DEF IncrementTwice
  <2>2. counted' \in [Requests -> BOOLEAN]
    BY <1>11 DEF IncrementTwice
  <2>3. faults' \in 0..MaxFaults
    BY <1>11 DEF IncrementTwice, Fault
  <2>4. pc' \in [Requests -> {"new", "queue", "wait", "leave", "running", "done"}]
    BY <1>11 DEF IncrementTwice, Goto
  <2>. QED BY <1>11, <2>1, <2>2, <2>3, <2>4 DEF IncrementTwice
<1>12. ASSUME NEW r \in Requests, DecrementWaitCount(r) PROVE TypeOK'
  BY <1>12 DEF DecrementWaitCount, Lowered, AfterLeave, Goto
<1>13. ASSUME NEW r \in Requests, DecrementFails(r) PROVE TypeOK'
  BY <1>13 DEF DecrementFails, Lowered, AfterLeave, Goto, Fault
<1>14. CASE WaitExpires
  BY <1>14 DEF WaitExpires, requestVars
<1>15. ASSUME NEW i \in Instances, Restart(i) PROVE TypeOK'
  BY <1>15 DEF Restart, slotVars, Fault
<1>16. ASSUME NEW i \in Instances, SweepSlots(i) PROVE TypeOK'
  BY <1>16 DEF SweepSlots, requestVars, Gaps
<1>17. ASSUME NEW i \in Instances, SweepWait(i) PROVE TypeOK'
  <2>1. Cardinality({r \in Queued : counted[r]}) \in Nat
    <3>1. {r \in Queued : counted[r]} \in SUBSET Requests
      BY DEF Queued
    <3>. QED BY <3>1, FiniteRequests
  <2>. QED BY <1>17, <2>1 DEF SweepWait
<1>18. ASSUME NEW i \in Instances, SweepFails(i) PROVE TypeOK'
  BY <1>18 DEF SweepFails, slotVars, requestVars, Fault
<1>19. CASE UNCHANGED vars
  BY <1>19 DEF vars, slotVars, requestVars
<1>. QED BY <1>1, <1>2, <1>3, <1>4, <1>5, <1>6, <1>7, <1>8, <1>9, <1>10, <1>11, <1>12,
   <1>13, <1>14, <1>15, <1>16, <1>17, <1>18, <1>19 DEF Next, RequestStep

\* Every step keeps the slots within the limit, and with the requests that run.
LEMMA NextSlots == IInv /\ [Next]_vars => SlotInv'
<1> SUFFICES ASSUME IInv, [Next]_vars PROVE SlotInv'
  OBVIOUS
<1> USE DEF IInv, SlotInv
<1>1. ASSUME NEW r \in Requests, NEW i \in Instances, TryAcquire(r, i) PROVE SlotInv'
  <2>1. Cardinality(slots)' <= MaxConcurrency
    BY <1>1, Takes DEF TryAcquire, MayHaveTaken
  <2>2. gaps' = {} => Running' \subseteq slots'
    BY <1>1 DEF TryAcquire, MayStart, Goto, TypeOK, Running
  <2>. QED BY <2>1, <2>2
<1>2. ASSUME NEW r \in Requests, NEW i \in Instances, TryAcquireFails(r, i) PROVE SlotInv'
  <2>1. Cardinality(slots)' <= MaxConcurrency
    BY <1>2, Takes DEF TryAcquireFails, MayHaveTaken
  <2>2. gaps' = {} => Running' \subseteq slots'
    BY <1>2 DEF TryAcquireFails, MayStart, Goto, MayHaveTaken, Fault, TypeOK, Running
  <2>. QED BY <2>1, <2>2
<1>3. ASSUME NEW r \in Requests, Poll(r) PROVE SlotInv'
  <2>1. Cardinality(slots)' <= MaxConcurrency
    BY <1>3, Takes DEF Poll, MayHaveTaken
  <2>2. gaps' = {} => Running' \subseteq slots'
    BY <1>3 DEF Poll, Leave, Goto, TypeOK, Running
  <2>. QED BY <2>1, <2>2
<1>4. ASSUME NEW r \in Requests, PollFails(r) PROVE SlotInv'
  <2>1. Cardinality(slots)' <= MaxConcurrency
    BY <1>4, Takes DEF PollFails, MayHaveTaken
  <2>2. gaps' = {} => Running' \subseteq slots'
    BY <1>4 DEF PollFails, Leave, Goto, MayHaveTaken, Fault, TypeOK, Running
  <2>. QED BY <2>1, <2>2
<1>5. ASSUME NEW r \in Requests, GiveUp(r) PROVE SlotInv'
  <2>1. Cardinality(slots)' <= MaxConcurrency
    BY <1>5 DEF GiveUp, slotVars
  <2>2. gaps' = {} => Running' \subseteq slots'
    BY <1>5 DEF GiveUp, Leave, Goto, slotVars, TypeOK, Running
  <2>. QED BY <2>1, <2>2
<1>6. ASSUME NEW r \in Requests, Release(r) PROVE SlotInv'
  <2>1. Cardinality(slots)' <= MaxConcurrency
    BY <1>6, Drops DEF Release
  <2>2. gaps' = {} => Running' \subseteq slots'
    BY <1>6 DEF Release, Goto, TypeOK, Running
  <2>. QED BY <2>1, <2>2
<1>7. ASSUME NEW r \in Requests, ReleaseFails(r) PROVE SlotInv'
  <2>1. Cardinality(slots)' <= MaxConcurrency
    BY <1>7, Drops DEF ReleaseFails
  <2>2. gaps' = {} => Running' \subseteq slots'
    BY <1>7 DEF ReleaseFails, Goto, Fault, TypeOK, Running
  <2>. QED BY <2>1, <2>2
<1>8. ASSUME NEW r \in Requests, SlotExpires(r) PROVE SlotInv'
  <2>1. Cardinality(slots)' <= MaxConcurrency
    BY <1>8, Drops DEF SlotExpires
  <2>2. gaps' = {} => Running' \subseteq slots'
    BY <1>8 DEF SlotExpires, requestVars, TypeOK, Running
  <2>. QED BY <2>1, <2>2
<1>9. ASSUME NEW r \in Requests, IncrementWaitCount(r) PROVE SlotInv'
  <2>1. Cardinality(slots)' <= MaxConcurrency
    BY <1>9 DEF IncrementWaitCount
  <2>2. gaps' = {} => Running' \subseteq slots'
    BY <1>9 DEF IncrementWaitCount, Goto, TypeOK, Running
  <2>. QED BY <2>1, <2>2
<1>10. ASSUME NEW r \in Requests, IncrementFails(r) PROVE SlotInv'
  <2>1. Cardinality(slots)' <= MaxConcurrency
    BY <1>10 DEF IncrementFails
  <2>2. gaps' = {} => Running' \subseteq slots'
    BY <1>10 DEF IncrementFails, Goto, Fault, TypeOK, Running
  <2>. QED BY <2>1, <2>2
<1>11. ASSUME NEW r \in Requests, IncrementTwice(r) PROVE SlotInv'
  <2>1. Cardinality(slots)' <= MaxConcurrency
    BY <1>11 DEF IncrementTwice
  <2>2. gaps' = {} => Running' \subseteq slots'
    BY <1>11 DEF IncrementTwice, Goto, Fault, TypeOK, Running
  <2>. QED BY <2>1, <2>2
<1>12. ASSUME NEW r \in Requests, DecrementWaitCount(r) PROVE SlotInv'
  <2>1. Cardinality(slots)' <= MaxConcurrency
    BY <1>12 DEF DecrementWaitCount
  <2>2. gaps' = {} => Running' \subseteq slots'
    BY <1>12 DEF DecrementWaitCount, Lowered, AfterLeave, Goto, TypeOK, Running
  <2>. QED BY <2>1, <2>2
<1>13. ASSUME NEW r \in Requests, DecrementFails(r) PROVE SlotInv'
  <2>1. Cardinality(slots)' <= MaxConcurrency
    BY <1>13 DEF DecrementFails
  <2>2. gaps' = {} => Running' \subseteq slots'
    BY <1>13 DEF DecrementFails, Lowered, AfterLeave, Goto, Fault, TypeOK, Running
  <2>. QED BY <2>1, <2>2
<1>14. CASE WaitExpires
  <2>1. Cardinality(slots)' <= MaxConcurrency
    BY <1>14 DEF WaitExpires
  <2>2. gaps' = {} => Running' \subseteq slots'
    BY <1>14 DEF WaitExpires, requestVars, TypeOK, Running
  <2>. QED BY <2>1, <2>2
<1>15. ASSUME NEW i \in Instances, Restart(i) PROVE SlotInv'
  <2>1. Cardinality(slots)' <= MaxConcurrency
    BY <1>15 DEF Restart, slotVars
  <2>2. gaps' = {} => Running' \subseteq slots'
    BY <1>15 DEF Restart, slotVars, Fault, TypeOK, Running
  <2>. QED BY <2>1, <2>2
<1>16. ASSUME NEW i \in Instances, SweepSlots(i) PROVE SlotInv'
  <2>1. Cardinality(slots)' <= MaxConcurrency
    BY <1>16, Drops DEF SweepSlots
  <2>2. gaps' = {} => Running' \subseteq slots'
    BY <1>16 DEF SweepSlots, requestVars, TypeOK, Running
  <2>. QED BY <2>1, <2>2
<1>17. ASSUME NEW i \in Instances, SweepWait(i) PROVE SlotInv'
  <2>1. Cardinality(slots)' <= MaxConcurrency
    BY <1>17 DEF SweepWait
  <2>2. gaps' = {} => Running' \subseteq slots'
    BY <1>17 DEF SweepWait, TypeOK, Running
  <2>. QED BY <2>1, <2>2
<1>18. ASSUME NEW i \in Instances, SweepFails(i) PROVE SlotInv'
  <2>1. Cardinality(slots)' <= MaxConcurrency
    BY <1>18 DEF SweepFails, slotVars
  <2>2. gaps' = {} => Running' \subseteq slots'
    BY <1>18 DEF SweepFails, slotVars, requestVars, Fault, TypeOK, Running
  <2>. QED BY <2>1, <2>2
<1>19. CASE UNCHANGED vars
  BY <1>19 DEF vars, slotVars, requestVars, Running
<1>. QED BY <1>1, <1>2, <1>3, <1>4, <1>5, <1>6, <1>7, <1>8, <1>9, <1>10, <1>11, <1>12,
   <1>13, <1>14, <1>15, <1>16, <1>17, <1>18, <1>19 DEF Next, RequestStep

\* Every step keeps the counter and drift together above the queue.
LEMMA NextQueue == IInv /\ [Next]_vars /\ TypeOK' => QueueInv'
<1> SUFFICES ASSUME IInv, [Next]_vars, TypeOK' PROVE QueueInv'
  OBVIOUS
<1> USE DEF IInv, QueueInv
<1> USE SetTypes
<1>1. ASSUME NEW r \in Requests, NEW i \in Instances, TryAcquire(r, i) PROVE QueueInv'
  <2>1. Queued' = Queued /\ Uncounted' = Uncounted /\ wait' = wait /\ drift' = drift
    BY <1>1 DEF TryAcquire, MayStart, Goto, TypeOK, Queued, Uncounted
  <2>. QED BY <2>1
<1>2. ASSUME NEW r \in Requests, NEW i \in Instances, TryAcquireFails(r, i) PROVE QueueInv'
  <2>1. Queued' = Queued /\ Uncounted' = Uncounted /\ wait' = wait /\ drift' = drift
    BY <1>2 DEF TryAcquireFails, MayStart, Goto, MayHaveTaken, Fault, TypeOK, Queued,
       Uncounted
  <2>. QED BY <2>1
<1>3. ASSUME NEW r \in Requests, Poll(r) PROVE QueueInv'
  <2>1. Queued' = Queued /\ Uncounted' = Uncounted /\ wait' = wait /\ drift' = drift
    BY <1>3 DEF Poll, Leave, Goto, TypeOK, Queued, Uncounted
  <2>. QED BY <2>1
<1>4. ASSUME NEW r \in Requests, PollFails(r) PROVE QueueInv'
  <2>1. Queued' = Queued /\ Uncounted' = Uncounted /\ wait' = wait /\ drift' = drift
    BY <1>4 DEF PollFails, Leave, Goto, MayHaveTaken, Fault, TypeOK, Queued, Uncounted
  <2>. QED BY <2>1
<1>5. ASSUME NEW r \in Requests, GiveUp(r) PROVE QueueInv'
  <2>1. Queued' = Queued /\ Uncounted' = Uncounted /\ wait' = wait /\ drift' = drift
    BY <1>5 DEF GiveUp, Leave, Goto, slotVars, TypeOK, Queued, Uncounted
  <2>. QED BY <2>1
<1>6. ASSUME NEW r \in Requests, Release(r) PROVE QueueInv'
  <2>1. Queued' = Queued /\ Uncounted' = Uncounted /\ wait' = wait /\ drift' = drift
    BY <1>6 DEF Release, Goto, TypeOK, Queued, Uncounted
  <2>. QED BY <2>1
<1>7. ASSUME NEW r \in Requests, ReleaseFails(r) PROVE QueueInv'
  <2>1. Queued' = Queued /\ Uncounted' = Uncounted /\ wait' = wait /\ drift' = drift
    BY <1>7 DEF ReleaseFails, Goto, Fault, TypeOK, Queued, Uncounted
  <2>. QED BY <2>1
<1>8. ASSUME NEW r \in Requests, SlotExpires(r) PROVE QueueInv'
  <2>1. Queued' = Queued /\ Uncounted' = Uncounted /\ wait' = wait /\ drift' = drift
    BY <1>8 DEF SlotExpires, requestVars, TypeOK, Queued, Uncounted
  <2>. QED BY <2>1
<1>9. ASSUME NEW r \in Requests, IncrementWaitCount(r) PROVE QueueInv'
  <2>1. CASE Goto(r, "wait")
    <3>1. pc[r] = "queue" /\ \A q \in Requests : q # r => counted'[q] = counted[q]
      BY <1>9 DEF IncrementWaitCount, TypeOK
    <3>2. /\ Cardinality(Queued') = Cardinality(Queued) + 1
          /\ Cardinality(Uncounted') = Cardinality(Uncounted) + (IF counted'[r] THEN 0 ELSE 1)
      BY <2>1, <3>1, Joins
    <3>3. wait' = wait + 1 /\ counted'[r] /\ drift' = drift
      BY <1>9, <2>1 DEF IncrementWaitCount, Goto, TypeOK
    <3>. QED BY <3>2, <3>3 DEF TypeOK
  <2>2. CASE Goto(r, "done") /\ UNCHANGED counted
    <3>1. Queued' = Queued /\ Uncounted' = Uncounted
      BY <1>9, <2>2 DEF IncrementWaitCount, Goto, TypeOK, Queued, Uncounted
    <3>. QED BY <1>9, <2>2, <3>1 DEF IncrementWaitCount, TypeOK
  <2>. QED BY <1>9, <2>1, <2>2 DEF IncrementWaitCount
<1>10. ASSUME NEW r \in Requests, IncrementFails(r) PROVE QueueInv'
  <2>1. CASE Goto(r, "wait")
    <3>1. pc[r] = "queue" /\ \A q \in Requests : q # r => counted'[q] = counted[q]
      BY <1>10 DEF IncrementFails, TypeOK
    <3>2. /\ Cardinality(Queued') = Cardinality(Queued) + 1
          /\ Cardinality(Uncounted') = Cardinality(Uncounted) + (IF counted'[r] THEN 0 ELSE 1)
      BY <2>1, <3>1, Joins
    <3>3. \/ wait' = wait + 1 /\ counted'[r] /\ drift' = drift
          \/ wait' = wait /\ drift' = drift + 1
      BY <1>10, <2>1 DEF IncrementFails, Goto, TypeOK
    <3>. QED BY <3>2, <3>3 DEF TypeOK
  <2>2. CASE Goto(r, "done") /\ UNCHANGED counted
    <3>1. Queued' = Queued /\ Uncounted' = Uncounted
      BY <1>10, <2>2 DEF IncrementFails, Goto, TypeOK, Queued, Uncounted
    <3>. QED BY <1>10, <2>2, <3>1 DEF IncrementFails, TypeOK
  <2>. QED BY <1>10, <2>1, <2>2 DEF IncrementFails
<1>11. ASSUME NEW r \in Requests, IncrementTwice(r) PROVE QueueInv'
  <2>1. CASE Goto(r, "wait")
    <3>1. pc[r] = "queue" /\ \A q \in Requests : q # r => counted'[q] = counted[q]
      BY <1>11 DEF IncrementTwice, TypeOK
    <3>2. /\ Cardinality(Queued') = Cardinality(Queued) + 1
          /\ Cardinality(Uncounted') = Cardinality(Uncounted) + (IF counted'[r] THEN 0 ELSE 1)
      BY <2>1, <3>1, Joins
    <3>3. wait' = wait + 2 /\ counted'[r] /\ drift' = drift
      BY <1>11, <2>1 DEF IncrementTwice, Goto, TypeOK
    <3>. QED BY <3>2, <3>3 DEF TypeOK
  <2>2. CASE Goto(r, "done") /\ UNCHANGED counted
    <3>1. Queued' = Queued /\ Uncounted' = Uncounted
      BY <1>11, <2>2 DEF IncrementTwice, Goto, TypeOK, Queued, Uncounted
    <3>. QED BY <1>11, <2>2, <3>1 DEF IncrementTwice, TypeOK
  <2>. QED BY <1>11, <2>1, <2>2 DEF IncrementTwice
<1>12. ASSUME NEW r \in Requests, DecrementWaitCount(r) PROVE QueueInv'
  <2>1. /\ Cardinality(Queued') = Cardinality(Queued) - 1
        /\ Cardinality(Uncounted') <= Cardinality(Uncounted)
    BY <1>12, Leaves DEF DecrementWaitCount
  <2>2. wait' = Lowered(1) /\ drift' = drift
    BY <1>12 DEF DecrementWaitCount
  <2>3. Cardinality(Uncounted') \in Nat
    <3>1. Uncounted' \in SUBSET Requests
      BY DEF Uncounted, Queued
    <3>. QED BY <3>1, FiniteRequests
  <2>. QED BY <2>1, <2>2, <2>3 DEF Lowered, TypeOK
<1>13. ASSUME NEW r \in Requests, DecrementFails(r) PROVE QueueInv'
  <2>1. /\ Cardinality(Queued') = Cardinality(Queued) - 1
        /\ Cardinality(Uncounted') <= Cardinality(Uncounted)
    BY <1>13, Leaves DEF DecrementFails
  <2>2. (wait' = wait /\ drift' = drift) \/ (wait' = Lowered(2) /\ drift' = drift + 1)
    BY <1>13 DEF DecrementFails
  <2>3. Cardinality(Uncounted') \in Nat
    <3>1. Uncounted' \in SUBSET Requests
      BY DEF Uncounted, Queued
    <3>. QED BY <3>1, FiniteRequests
  <2>. QED BY <2>1, <2>2, <2>3 DEF Lowered, TypeOK
<1>14. CASE WaitExpires
  <2>1. Queued' = Queued /\ Uncounted' = Uncounted /\ Queued = Uncounted
    BY <1>14 DEF WaitExpires, requestVars, Queued, Uncounted
  <2>. QED BY <1>14, <2>1 DEF WaitExpires, TypeOK
<1>15. ASSUME NEW i \in Instances, Restart(i) PROVE QueueInv'
  <2>1. Queued' \subseteq Queued /\ Uncounted' \subseteq Uncounted
    BY <1>15 DEF Restart, TypeOK, Queued, Uncounted
  <2>2. /\ Cardinality(Queued') <= Cardinality(Queued)
        /\ Cardinality(Uncounted') <= Cardinality(Uncounted)
    BY <2>1, FewerRequests
  <2>3. Cardinality(Queued') \in Nat /\ Cardinality(Uncounted') \in Nat
    <3>1. Queued' \in SUBSET Requests /\ Uncounted' \in SUBSET Requests
      BY DEF Uncounted, Queued
    <3>. QED BY <3>1, FiniteRequests
  <2>4. wait' = wait /\ drift' = drift
    BY <1>15 DEF Restart, slotVars
  <2>. QED BY <2>2, <2>3, <2>4 DEF TypeOK
<1>16. ASSUME NEW i \in Instances, SweepSlots(i) PROVE QueueInv'
  <2>1. Queued' = Queued /\ Uncounted' = Uncounted /\ wait' = wait /\ drift' = drift
    BY <1>16 DEF SweepSlots, requestVars, TypeOK, Queued, Uncounted
  <2>. QED BY <2>1
<1>17. ASSUME NEW i \in Instances, SweepWait(i) PROVE QueueInv'
  <2> DEFINE C == {r \in Queued : counted[r]}
  <2>1. Queued' = Queued /\ Uncounted' = Queued
    BY <1>17 DEF SweepWait, TypeOK, Queued, Uncounted
  <2>2. Queued = Uncounted \cup C /\ Uncounted \cap C = {} /\ C \in SUBSET Requests
    BY DEF Queued, Uncounted
  <2>3. IsFiniteSet(Uncounted) /\ IsFiniteSet(C)
    BY <2>2, FiniteRequests
  <2>4. Cardinality(Queued) = Cardinality(Uncounted) + Cardinality(C) - Cardinality({})
    BY <2>2, <2>3, FS_Union
  <2>5. Cardinality(Queued) = Cardinality(Uncounted) + Cardinality(C) /\ Cardinality(C) \in Nat
    BY <2>3, <2>4, FS_EmptySet, FS_CardinalityType
  <2>. QED BY <1>17, <2>1, <2>5 DEF SweepWait, TypeOK
<1>18. ASSUME NEW i \in Instances, SweepFails(i) PROVE QueueInv'
  <2>1. Queued' = Queued /\ Uncounted' = Uncounted /\ wait' = wait /\ drift' = drift
    BY <1>18 DEF SweepFails, slotVars, requestVars, Fault, TypeOK, Queued, Uncounted
  <2>. QED BY <2>1
<1>19. CASE UNCHANGED vars
  BY <1>19 DEF vars, slotVars, requestVars, Queued, Uncounted
<1>. QED BY <1>1, <1>2, <1>3, <1>4, <1>5, <1>6, <1>7, <1>8, <1>9, <1>10, <1>11, <1>12,
   <1>13, <1>14, <1>15, <1>16, <1>17, <1>18, <1>19 DEF Next, RequestStep

\* Every step without a fault keeps slots and counter exact.
LEMMA NextClean == IInv /\ [Next]_vars /\ TypeOK' => CleanInv'
<1> SUFFICES ASSUME IInv, [Next]_vars, TypeOK', faults' = 0 PROVE CleanInv'
  BY DEF CleanInv
<1> USE DEF IInv, CleanInv
<1> USE SetTypes
<1>1. faults = 0
  <2>1. faults' = faults \/ Fault
    BY DEF Next, RequestStep, vars, TryAcquire, TryAcquireFails, Poll, PollFails, GiveUp,
       Release, ReleaseFails, SlotExpires, IncrementWaitCount, IncrementFails, IncrementTwice,
       DecrementWaitCount, DecrementFails, WaitExpires, Restart, SweepSlots, SweepWait, SweepFails
  <2>. QED BY <2>1, LimitsAssumption DEF Fault, TypeOK
<1>2. ASSUME Fault PROVE FALSE
  BY <1>1, <1>2 DEF Fault
<1>3. ASSUME NEW r \in Requests, NEW i \in Instances, TryAcquire(r, i) PROVE CleanInv'
  <2>1. slots' \subseteq Running' /\ node' = node
    BY <1>3, <1>1 DEF TryAcquire, MayStart, Goto, TypeOK, Running
  <2>2. Queued' = Queued /\ Uncounted' = Uncounted /\ wait' = wait
    BY <1>3 DEF TryAcquire, MayStart, Goto, TypeOK, Queued, Uncounted
  <2>. QED BY <1>1, <2>1, <2>2
<1>4. ASSUME NEW r \in Requests, Poll(r) PROVE CleanInv'
  <2>1. slots' \subseteq Running' /\ node' = node
    BY <1>4, <1>1 DEF Poll, Leave, Goto, TypeOK, Running
  <2>2. Queued' = Queued /\ Uncounted' = Uncounted /\ wait' = wait
    BY <1>4 DEF Poll, Leave, Goto, TypeOK, Queued, Uncounted
  <2>. QED BY <1>1, <2>1, <2>2
<1>5. ASSUME NEW r \in Requests, GiveUp(r) PROVE CleanInv'
  <2>1. slots' \subseteq Running' /\ node' = node
    BY <1>5, <1>1 DEF GiveUp, Leave, Goto, slotVars, TypeOK, Running
  <2>2. Queued' = Queued /\ Uncounted' = Uncounted /\ wait' = wait
    BY <1>5 DEF GiveUp, Leave, Goto, slotVars, TypeOK, Queued, Uncounted
  <2>. QED BY <1>1, <2>1, <2>2
<1>6. ASSUME NEW r \in Requests, Release(r) PROVE CleanInv'
  <2>1. slots' \subseteq Running' /\ node' = node
    BY <1>6, <1>1 DEF Release, Goto, TypeOK, Running
  <2>2. Queued' = Queued /\ Uncounted' = Uncounted /\ wait' = wait
    BY <1>6 DEF Release, Goto, TypeOK, Queued, Uncounted
  <2>. QED BY <1>1, <2>1, <2>2
<1>7. ASSUME NEW r \in Requests, SlotExpires(r) PROVE CleanInv'
  <2>1. slots' \subseteq Running' /\ node' = node
    BY <1>7, <1>1 DEF SlotExpires, requestVars, TypeOK, Running
  <2>2. Queued' = Queued /\ Uncounted' = Uncounted /\ wait' = wait
    BY <1>7 DEF SlotExpires, requestVars, TypeOK, Queued, Uncounted
  <2>. QED BY <1>1, <2>1, <2>2
<1>8. ASSUME NEW r \in Requests, IncrementWaitCount(r) PROVE CleanInv'
  <2>1. slots' \subseteq Running' /\ node' = node
    BY <1>8, <1>1 DEF IncrementWaitCount, Goto, TypeOK, Running
  <2>2. CASE wait < QueueLimit
    <3>1. Goto(r, "wait") /\ counted'[r] /\ wait' = wait + 1
      BY <1>8, <2>2 DEF IncrementWaitCount, TypeOK
    <3>. QED BY <1>8, <1>1, <2>1, <3>1, Joins DEF IncrementWaitCount, TypeOK
  <2>3. CASE ~(wait < QueueLimit)
    <3>1. Queued' = Queued /\ Uncounted' = Uncounted /\ wait' = wait
      BY <1>8, <2>3 DEF IncrementWaitCount, Goto, TypeOK, Queued, Uncounted
    <3>. QED BY <1>1, <2>1, <3>1
  <2>. QED BY <2>2, <2>3
<1>9. ASSUME NEW r \in Requests, DecrementWaitCount(r) PROVE CleanInv'
  <2>1. slots' \subseteq Running' /\ node' = node
    BY <1>9, <1>1 DEF DecrementWaitCount, Lowered, AfterLeave, Goto, TypeOK, Running
  <2>2. wait > 0
    <3>1. r \in Queued
      BY <1>9 DEF DecrementWaitCount, Queued
    <3>2. Cardinality(Queued) # 0
      BY <3>1, FiniteRequests, FS_EmptySet
    <3>. QED BY <1>1, <3>2
  <2>. QED BY <1>9, <1>1, <2>1, <2>2, Leaves DEF DecrementWaitCount, Lowered, TypeOK
<1>10. CASE WaitExpires
  <2>1. Queued = {}
    BY <1>10, <1>1 DEF WaitExpires, Uncounted
  <2>. QED BY <1>10, <1>1, <2>1, FS_EmptySet DEF WaitExpires, TypeOK
<1>11. CASE UNCHANGED vars
  BY <1>11, <1>1 DEF vars, slotVars, requestVars, Queued, Uncounted, Running
<1>12. ASSUME NEW i \in Instances, SweepSlots(i) \/ SweepWait(i) PROVE FALSE
  BY <1>12, <1>1 DEF SweepSlots, SweepWait
<1>. QED BY <1>2, <1>3, <1>4, <1>5, <1>6, <1>7, <1>8, <1>9, <1>10, <1>11,
   <1>12 DEF Next, RequestStep, TryAcquireFails, PollFails, ReleaseFails,
   IncrementFails, IncrementTwice, DecrementFails, Restart, SweepFails

\* The invariant is inductive.
LEMMA NextIInv == IInv /\ [Next]_vars => IInv'
BY NextType, NextSlots, NextQueue, NextClean DEF IInv

\* The inductive invariant holds always.
THEOREM Invariance == Spec => []IInv
BY InitIInv, NextIInv, PTL DEF Spec

-----------------------------------------------------------------------------
\* Every variable keeps its type; the counter never exceeds the limit.
THEOREM TypeCorrect == Spec => []TypeOK
<1>1. IInv => TypeOK
  BY DEF IInv
<1>. QED BY <1>1, Invariance, PTL

\* The user's limit holds over all instances until a request outlives its slot or a
\* starting instance sweeps it (acquireScript, CleanupStaleProcessSlots).
THEOREM WithinLimit == Spec => []RunningWithinLimit
<1>1. IInv => RunningWithinLimit
  <2> SUFFICES ASSUME IInv, gaps = {} PROVE Cardinality(Running) <= MaxConcurrency
    BY DEF RunningWithinLimit
  <2>1. Running \subseteq slots /\ IsFiniteSet(slots)
    BY SetTypes, FiniteRequests DEF IInv, SlotInv
  <2>2. Cardinality(Running) <= Cardinality(slots) /\ IsFiniteSet(Running)
    BY <2>1, FS_Subset
  <2>3. Cardinality(Running) \in Nat /\ Cardinality(slots) \in Nat
    BY <2>1, <2>2, FS_CardinalityType
  <2>. QED BY <2>2, <2>3, LimitsAssumption DEF IInv, SlotInv
<1>. QED BY <1>1, Invariance, PTL

\* The queue exceeds its limit by no more than the entries the counter missed
\* (IncrementWaitCount failing open, DecrementWaitCount sent twice, the sweep).
THEOREM QueueBounded == Spec => []QueueWithinLimit
<1>1. IInv => QueueWithinLimit
  BY SetTypes, LimitsAssumption DEF IInv, QueueInv, QueueWithinLimit, TypeOK
<1>. QED BY <1>1, Invariance, PTL

\* Without a fault, requests that have ended leave no slot and no entry behind.
THEOREM CleanEnd == Spec => []NothingLeftBehind
<1>1. IInv => NothingLeftBehind
  <2> SUFFICES ASSUME IInv, faults = 0, \A r \in Requests : pc[r] \in {"new", "done"}
               PROVE  slots = {} /\ wait = 0
    BY DEF NothingLeftBehind
  <2>1. Running = {} /\ Queued = {}
    BY DEF Running, Queued
  <2>. QED BY <2>1, FS_EmptySet DEF IInv, CleanInv
<1>. QED BY <1>1, Invariance, PTL

-----------------------------------------------------------------------------
(***************************************************************************)
(* The system operation lock, for any operations, lease, time to live and  *)
(* number of failures.                                                     *)
(***************************************************************************)
\* Nobody remembers an id that was not given out, or a time that has not come.
LockIdInv ==
  /\ row.id <= lastId
  /\ \A o \in Operations :
       now[o] <= clock /\ recordId[o] <= lastId /\ existing[o].id <= lastId

\* The renewal that is due in this interval, if one is.
Owed(o) == IF due[o] THEN 1 ELSE 0

\* A creator whose renewals did not stay out for a whole lease: the row is its own,
\* and is locked and kept for what the missed renewals left of the lease.
CreatorInv ==
  \A o \in created :
    /\ phase[o] = "held"
    /\ ~Late(o) =>
         /\ recordId[o] = row.id /\ row.id # 0 /\ row.status = "processing"
         /\ row.fingerprint = o /\ loop[o] = "on"
         /\ clock + Lease <= row.lockedUntil + missed[o] + Owed(o)
         /\ clock + Ttl <= row.expiresAt + missed[o] + Owed(o)
         /\ \A p \in Operations : phase[p] = "held" /\ recordId[p] = row.id => p = o

\* The inductive invariant of the lock.
LockInv == LockTypeOK /\ LockIdInv /\ CreatorInv

\* What an UPDATE of the lock's row leaves and what it changes.
LockRows == [id : Nat, fingerprint : Operations \cup {None}, status : RowStatuses,
             lockedUntil : Nat, expiresAt : Nat]

LEMMA LockRowUpdate ==
  ASSUME row \in LockRows, NEW st \in RowStatuses, NEW lock \in Nat, NEW expiry \in Nat
  PROVE  LET new == [row EXCEPT !.status = st, !.lockedUntil = lock, !.expiresAt = expiry]
         IN /\ new \in LockRows /\ new.id = row.id /\ new.fingerprint = row.fingerprint
            /\ new.status = st /\ new.lockedUntil = lock /\ new.expiresAt = expiry
BY DEF LockRows

LEMMA LockRowExtended ==
  ASSUME LockTypeOK, NEW o \in Operations,
         ExtendProcessingLock(recordId[o], o, clock + Lease, clock + Ttl)
  PROVE  /\ row.id = recordId[o] /\ row.fingerprint = o /\ row' \in LockRows
         /\ row'.id = row.id /\ row'.status = row.status /\ row'.fingerprint = row.fingerprint
         /\ row'.lockedUntil = clock + Lease /\ row'.expiresAt = clock + Ttl
         /\ lastId' = lastId
<1> DEFINE lock == clock + Lease
           expiry == clock + Ttl
<1>1. row \in LockRows
  BY DEF LockTypeOK, LockRows
<1>2. lock \in Nat /\ expiry \in Nat
  BY LeaseAssumption, TtlAssumption DEF LockTypeOK
<1>3. row' = [row EXCEPT !.lockedUntil = lock, !.expiresAt = expiry]
  BY DEF ExtendProcessingLock
<1> HIDE DEF lock, expiry
<1>4. /\ row' \in LockRows /\ row'.id = row.id /\ row'.status = row.status
      /\ row'.fingerprint = row.fingerprint /\ row'.lockedUntil = lock /\ row'.expiresAt = expiry
  BY <1>1, <1>2, <1>3 DEF LockRows
<1>. QED BY <1>4 DEF ExtendProcessingLock, Extendable, lock, expiry

\* A creator that is not late has the row locked and unexpired.
LEMMA CreatorLocked ==
  ASSUME LockInv, NEW o \in created, ~Late(o)
  PROVE  /\ row.id = recordId[o] /\ row.id # 0 /\ row.fingerprint = o
         /\ row.status = "processing" /\ loop[o] = "on"
         /\ clock < row.lockedUntil /\ clock < row.expiresAt
<1>1. Lease \in Nat /\ Ttl \in Nat /\ clock \in Nat /\ missed[o] \in Nat
      /\ row.lockedUntil \in Nat /\ row.expiresAt \in Nat /\ Owed(o) \in {0, 1}
  BY LeaseAssumption, TtlAssumption, MaxClockAssumption DEF LockInv, LockTypeOK, Owed
<1>2. missed[o] + 1 < Lease /\ missed[o] + 1 < Ttl
  BY <1>1 DEF Late
<1>. QED BY <1>1, <1>2 DEF LockInv, CreatorInv

\* The initial state satisfies the invariant of the lock.
LEMMA InitLockInv == LockInit => LockInv
<1> SUFFICES ASSUME LockInit PROVE LockInv
  OBVIOUS
<1> USE MaxClockAssumption, MaxFailuresAssumption
<1>1. LockTypeOK
  BY DEF LockTypeOK, LockInit, NoRow, Nothing, Steps, RowStatuses
<1>2. LockIdInv
  BY DEF LockIdInv, LockInit, NoRow, Nothing
<1>3. CreatorInv
  BY DEF CreatorInv, LockInit
<1>. QED BY <1>1, <1>2, <1>3 DEF LockInv

\* The creators an action leaves alone keep their part of the invariant, when the row
\* is left alone too and nobody takes its id.
LEMMA CreatorFrame ==
  ASSUME LockInv, created' \subseteq created, row' = row, clock' = clock,
         \A o \in created' : /\ phase'[o] = phase[o] /\ recordId'[o] = recordId[o]
                             /\ loop'[o] = loop[o] /\ due'[o] = due[o]
                             /\ missed'[o] = missed[o],
         \A p \in Operations : phase'[p] = "held"
           => recordId'[p] = recordId[p] /\ phase[p] = "held"
  PROVE  CreatorInv'
BY DEF LockInv, CreatorInv, Late, Owed

\* Every step preserves the invariant of the lock.
LEMMA NextLockInv == LockInv /\ [LockNext]_lockVars => LockInv'
<1> SUFFICES ASSUME LockInv, [LockNext]_lockVars PROVE LockInv'
  OBVIOUS
<1> USE LeaseAssumption, TtlAssumption, MaxClockAssumption, MaxFailuresAssumption
<1>0. LockTypeOK /\ LockIdInv /\ CreatorInv
  BY DEF LockInv
<1>1. CASE Cleanup
  <2>1. LockTypeOK'
    BY <1>0, <1>1 DEF Cleanup, DeleteExpired, NoRow, LockTypeOK, RowStatuses
  <2>2. LockIdInv'
    BY <1>0, <1>1 DEF Cleanup, DeleteExpired, NoRow, LockTypeOK, LockIdInv
  <2>3. \A o \in created : Late(o)
    <3> SUFFICES ASSUME NEW o \in created, ~Late(o) PROVE FALSE
      OBVIOUS
    <3>1. clock < row.expiresAt
      BY CreatorLocked
    <3>. QED BY <1>0, <1>1, <3>1 DEF Cleanup, DeleteExpired, LockTypeOK
  <2>4. CreatorInv'
    BY <1>0, <1>1, <2>3 DEF Cleanup, CreatorInv, Late
  <2>. QED BY <2>1, <2>2, <2>4 DEF LockInv
<1>2. CASE Tick
  <2>1. LockTypeOK'
    BY <1>0, <1>2 DEF Tick, store, LockTypeOK
  <2>2. LockIdInv'
    BY <1>0, <1>2 DEF Tick, store, LockTypeOK, LockIdInv
  <2>3. CreatorInv'
    <3> SUFFICES ASSUME NEW o \in created, ~Late(o)
                 PROVE  /\ clock' + Lease <= row.lockedUntil + missed[o] + Owed(o)'
                        /\ clock' + Ttl <= row.expiresAt + missed[o] + Owed(o)'
      BY <1>0, <1>2 DEF Tick, store, CreatorInv, Late
    <3>1. o \in Operations /\ loop[o] = "on"
      BY <1>0, CreatorLocked DEF LockTypeOK
    <3>2. Owed(o) = 0 /\ Owed(o)' = 1 /\ clock' = clock + 1
      BY <1>2, <3>1 DEF Tick, Owed
    <3>3. missed[o] \in Nat /\ row.lockedUntil \in Nat /\ row.expiresAt \in Nat /\ clock \in Nat
      BY <1>0, <3>1 DEF LockTypeOK
    <3>. QED BY <1>0, <3>2, <3>3 DEF CreatorInv
  <2>. QED BY <2>1, <2>2, <2>3 DEF LockInv
<1>3. ASSUME NEW o \in Operations, Acquire(o) PROVE LockInv'
  <2>1. LockTypeOK'
    BY <1>0, <1>3 DEF Acquire, store, LockTypeOK, Steps
  <2>2. LockIdInv'
    BY <1>0, <1>3 DEF Acquire, store, LockTypeOK, LockIdInv
  <2>3. o \notin created
    BY <1>0, <1>3 DEF Acquire, CreatorInv
  <2>4. CreatorInv'
    BY <1>0, <1>3, <2>3, CreatorFrame DEF Acquire, store, LockTypeOK
  <2>. QED BY <2>1, <2>2, <2>4 DEF LockInv
<1>4. ASSUME NEW o \in Operations, CreateLock(o) PROVE LockInv'
  <2>1. o \notin created
    BY <1>0, <1>4 DEF CreateLock, CreatorInv
  <2>2. CASE /\ CreateProcessing(o, now[o] + Lease, now[o] + Ttl)
             /\ Hold(o, lastId + 1) /\ created' = created \cup {o}
             /\ missed' = [missed EXCEPT ![o] = clock - now[o]]
    <3> USE <2>2 DEF CreateProcessing, Hold
    <3>1. /\ now[o] \in Nat /\ clock \in Nat /\ clock - now[o] \in Nat /\ lastId \in Nat
          /\ clock' = clock /\ failures' = failures
      BY <1>0, <1>4 DEF CreateLock, LockTypeOK, LockIdInv
    <3>2. LockTypeOK'
      BY <1>0, <3>1 DEF LockTypeOK, Steps, RowStatuses, Nothing
    <3>3. LockIdInv'
      BY <1>0, <3>1 DEF LockTypeOK, LockIdInv, Nothing
    <3>4. \A q \in created : Late(q)
      BY CreatorLocked
    <3>5. ASSUME NEW q \in created PROVE phase'[q] = "held" /\ Late(q)'
      BY <1>0, <2>1, <3>1, <3>4 DEF LockTypeOK, CreatorInv, Late
    <3>6. /\ phase'[o] = "held" /\ recordId'[o] = row'.id /\ row'.id # 0 /\ loop'[o] = "on"
          /\ row'.status = "processing" /\ row'.fingerprint = o
          /\ row'.lockedUntil = now[o] + Lease /\ row'.expiresAt = now[o] + Ttl
          /\ missed'[o] = clock - now[o]
      BY <1>0, <3>1 DEF LockTypeOK
    <3>7. Owed(o)' \in {0, 1}
      BY DEF Owed
    <3>8. \A p \in Operations : recordId'[p] = row'.id => p = o
      BY <1>0, <3>1 DEF LockTypeOK, LockIdInv
    <3>9. /\ clock' + Lease <= row'.lockedUntil + missed'[o] + Owed(o)'
          /\ clock' + Ttl <= row'.expiresAt + missed'[o] + Owed(o)'
      BY <3>1, <3>6, <3>7
    <3>10. CreatorInv'
      BY <3>5, <3>6, <3>8, <3>9 DEF CreatorInv
    <3>. QED BY <3>2, <3>3, <3>10 DEF LockInv
  <2>3. CASE /\ row.id # 0 /\ phase' = [phase EXCEPT ![o] = "get"]
             /\ UNCHANGED <<row, lastId, now, existing, recordId, loop, due, created, missed>>
    <3>1. LockTypeOK'
      BY <1>0, <1>4, <2>3 DEF CreateLock, LockTypeOK, Steps
    <3>2. LockIdInv'
      BY <1>0, <1>4, <2>3 DEF CreateLock, LockIdInv
    <3>3. CreatorInv'
      BY <1>0, <1>4, <2>1, <2>3, CreatorFrame DEF CreateLock, LockTypeOK
    <3>. QED BY <3>1, <3>2, <3>3 DEF LockInv
  <2>. QED BY <1>4, <2>2, <2>3 DEF CreateLock, store
<1>5. ASSUME NEW o \in Operations, GetLock(o) PROVE LockInv'
  <2>1. o \notin created
    BY <1>0, <1>5 DEF GetLock, CreatorInv
  <2>2. LockTypeOK'
    <3>1. row.id \in Nat /\ row.status \in RowStatuses /\ Nothing \in
            [id : Nat, status : RowStatuses]
      BY <1>0 DEF LockTypeOK, Nothing, RowStatuses
    <3>2. existing' \in [Operations -> [id : Nat, status : RowStatuses]]
      <4>1. [id |-> row.id, status |-> row.status] \in [id : Nat, status : RowStatuses]
        BY <3>1
      <4>2. PICK e \in [id : Nat, status : RowStatuses] : existing' = [existing EXCEPT ![o] = e]
        BY <1>5, <3>1, <4>1 DEF GetLock, Refuse
      <4>. QED BY <1>0, <4>2 DEF LockTypeOK
    <3>3. phase' \in [Operations -> Steps] /\ now' \in [Operations -> 0..MaxClock]
      BY <1>0, <1>5 DEF GetLock, Refuse, LockTypeOK, Steps
    <3>4. UNCHANGED <<row, lastId, clock, recordId, loop, due, created, missed, failures>>
      BY <1>5 DEF GetLock, Refuse, store
    <3>. QED BY <1>0, <3>2, <3>3, <3>4 DEF LockTypeOK
  <2>3. LockIdInv'
    BY <1>0, <1>5 DEF GetLock, Refuse, store, LockTypeOK, LockIdInv, Nothing
  <2>4. CreatorInv'
    BY <1>0, <1>5, <2>1, CreatorFrame DEF GetLock, Refuse, store, LockTypeOK
  <2>. QED BY <2>2, <2>3, <2>4 DEF LockInv
<1>6. ASSUME NEW o \in Operations, ReclaimLock(o) PROVE LockInv'
  <2>1. o \notin created
    BY <1>0, <1>6 DEF ReclaimLock, CreatorInv
  <2>2. CASE /\ TryReclaim(existing[o].id, existing[o].status, now[o],
                                now[o] + Lease, now[o] + Ttl)
             /\ Hold(o, existing[o].id) /\ missed' = missed
    <3> USE <2>2 DEF TryReclaim, Reclaimable, Hold
    <3>1. /\ now[o] \in Nat /\ now[o] <= clock /\ clock \in Nat /\ row.lockedUntil \in Nat
          /\ existing[o].id \in Nat
          /\ clock' = clock /\ failures' = failures /\ created' = created /\ lastId' = lastId
      BY <1>0, <1>6 DEF ReclaimLock, LockTypeOK, LockIdInv
    <3>2. LockTypeOK'
      <4>1. row' \in LockRows
        <5>1. /\ row \in LockRows /\ "processing" \in RowStatuses
              /\ now[o] + Lease \in Nat /\ now[o] + Ttl \in Nat
          BY <1>0, <3>1 DEF LockTypeOK, LockRows, RowStatuses
        <5>. QED BY <5>1, LockRowUpdate
      <4>2. /\ phase' \in [Operations -> Steps] /\ now' \in [Operations -> 0..MaxClock]
            /\ existing' \in [Operations -> [id : Nat, status : RowStatuses]]
        BY <1>0 DEF LockTypeOK, Steps, RowStatuses, Nothing
      <4>3. /\ recordId' \in [Operations -> Nat] /\ due' = due
            /\ loop' \in [Operations -> {"off", "on", "stopping"}]
        BY <1>0, <3>1 DEF LockTypeOK
      <4>. QED BY <1>0, <3>1, <4>1, <4>2, <4>3 DEF LockTypeOK, LockRows
    <3>3. LockIdInv'
      BY <1>0, <3>1 DEF LockTypeOK, LockIdInv, Nothing
    <3>4. \A q \in created : Late(q)
      <4> SUFFICES ASSUME NEW q \in created, ~Late(q) PROVE FALSE
        OBVIOUS
      <4>1. clock < row.lockedUntil
        BY CreatorLocked
      <4>. QED BY <3>1, <4>1
    <3>5. CreatorInv'
      BY <1>0, <2>1, <3>1, <3>4 DEF LockTypeOK, CreatorInv, Late
    <3>. QED BY <3>2, <3>3, <3>5 DEF LockInv
  <2>3. CASE Refuse(o) /\ UNCHANGED <<row, lastId, missed>>
    <3>1. LockTypeOK'
      BY <1>0, <1>6, <2>3 DEF ReclaimLock, Refuse, LockTypeOK, Steps,
         Nothing, RowStatuses
    <3>2. LockIdInv'
      BY <1>0, <1>6, <2>3 DEF ReclaimLock, Refuse, LockIdInv, Nothing, LockTypeOK
    <3>3. CreatorInv'
      BY <1>0, <1>6, <2>1, <2>3, CreatorFrame DEF ReclaimLock, Refuse, LockTypeOK
    <3>. QED BY <3>1, <3>2, <3>3 DEF LockInv
  <2>. QED BY <1>6, <2>2, <2>3 DEF ReclaimLock, store
<1>7. ASSUME NEW o \in Operations, NEW succeeded \in BOOLEAN, ReleaseLock(o, succeeded)
      PROVE  LockInv'
  <2> DEFINE ending == IF loop[o] = "on" THEN "stopping" ELSE "off"
  <2>1. /\ Ended(o, ending) /\ phase[o] = "held"
        /\ UNCHANGED <<lastId, clock, recordId, failures>>
    BY <1>7 DEF ReleaseLock, MarkSucceeded, MarkFailedRetryable, Mark
  <2>2. PICK st \in RowStatuses, lock \in Nat, expiry \in Nat :
          row' = IF row.id # recordId[o] THEN row
                 ELSE [row EXCEPT !.status = st, !.lockedUntil = lock, !.expiresAt = expiry]
    <3>1. clock \in Nat /\ clock + Ttl \in Nat /\ 0 \in Nat
      BY <1>0 DEF LockTypeOK
    <3>2. "succeeded" \in RowStatuses /\ "failed_retryable" \in RowStatuses
      BY DEF RowStatuses
    <3>3. CASE succeeded
      BY <1>7, <3>1, <3>2, <3>3 DEF ReleaseLock, MarkSucceeded, Mark
    <3>4. CASE ~succeeded
      BY <1>7, <3>1, <3>2, <3>4 DEF ReleaseLock, MarkFailedRetryable, Mark
    <3>. QED BY <3>3, <3>4
  <2>3. row'.id = row.id /\ row' \in LockRows
    BY <1>0, <2>2, LockRowUpdate DEF LockTypeOK, LockRows
  <2>4. LockTypeOK'
    BY <1>0, <2>1, <2>3 DEF Ended, LockTypeOK, Steps, Nothing, RowStatuses,
       LockRows
  <2>5. LockIdInv'
    BY <1>0, <2>1, <2>3 DEF Ended, LockTypeOK, LockIdInv, Nothing
  <2>6. ASSUME NEW q \in created', ~Late(q) PROVE row' = row
    <3>1. q \in created /\ q # o /\ q \in Operations
      BY <1>0, <2>1, <2>6 DEF Ended, LockTypeOK
    <3>2. row.id # recordId[o]
      BY <1>0, <2>1, <2>6, <3>1 DEF CreatorInv
    <3>. QED BY <2>2, <3>2
  <2>7. ASSUME NEW q \in created', ~Late(q)'
        PROVE  /\ q \in created /\ q # o /\ ~Late(q) /\ phase'[q] = phase[q] /\ loop'[q] = loop[q]
               /\ missed'[q] = missed[q] /\ Owed(q)' = Owed(q)
    BY <1>0, <2>1, <2>7 DEF Ended, LockTypeOK, Late, Owed
  <2>8. CreatorInv'
    BY <1>0, <2>1, <2>6, <2>7 DEF Ended, LockTypeOK, CreatorInv
  <2>. QED BY <2>4, <2>5, <2>8 DEF LockInv
<1>8. ASSUME NEW o \in Operations, RenewLoop(o) PROVE LockInv'
  <2>0. /\ loop[o] = "on" /\ due[o] /\ due' = [due EXCEPT ![o] = FALSE]
        /\ UNCHANGED <<clock, phase, now, existing, recordId, created>>
    BY <1>8 DEF RenewLoop
  <2>1. CASE /\ ExtendProcessingLock(recordId[o], o, clock + Lease, clock + Ttl)
             /\ Renewed(o) \/ Missed(o)
             /\ UNCHANGED loop /\ failures' \in 0..MaxFailures
    <3> USE <2>0, <2>1
    <3>1. /\ row.id = recordId[o] /\ row.fingerprint = o /\ row' \in LockRows
          /\ row'.id = row.id /\ row'.status = row.status /\ row'.fingerprint = row.fingerprint
          /\ row'.lockedUntil = clock + Lease /\ row'.expiresAt = clock + Ttl
          /\ lastId' = lastId
      BY <1>0, LockRowExtended
    <3>2. missed' \in [Operations -> Nat] /\ \A q \in Operations \ {o} : missed'[q] = missed[q]
      BY <1>0 DEF Renewed, Missed, LockTypeOK
    <3>3. LockTypeOK'
      BY <1>0, <3>1, <3>2 DEF LockTypeOK, LockRows
    <3>4. LockIdInv'
      BY <1>0, <3>1 DEF LockIdInv
    <3>5. ASSUME NEW q \in created, q # o PROVE Late(q) /\ Late(q)'
      <4>1. Late(q)
        BY <3>1, <3>5, CreatorLocked
      <4>2. missed'[q] = missed[q]
        BY <1>0, <3>2, <3>5 DEF LockTypeOK
      <4>. QED BY <4>1, <4>2 DEF Late
    <3>6. ~Late(o)' => ~Late(o)
      BY <1>0 DEF Late, Renewed, Missed, LockTypeOK
    <3>7. /\ clock' + Lease <= row'.lockedUntil + missed'[o] + Owed(o)'
          /\ clock' + Ttl <= row'.expiresAt + missed'[o] + Owed(o)'
      <4>1. Owed(o)' \in {0, 1} /\ missed'[o] \in Nat /\ clock \in Nat
        BY <1>0, <3>2 DEF Owed, LockTypeOK
      <4>. QED BY <3>1, <4>1
    <3>8. CreatorInv'
      BY <1>0, <3>1, <3>5, <3>6, <3>7 DEF CreatorInv
    <3>. QED BY <3>3, <3>4, <3>8 DEF LockInv
  <2>2. CASE Failure /\ Missed(o) /\ UNCHANGED <<row, lastId, loop>>
    <3> USE <2>0, <2>2
    <3>1. LockTypeOK'
      BY <1>0 DEF Failure, Missed, LockTypeOK
    <3>2. LockIdInv'
      BY <1>0 DEF LockIdInv
    <3>3. ASSUME NEW q \in created, ~Late(q)'
          PROVE  ~Late(q) /\ missed'[q] + Owed(q)' = missed[q] + Owed(q)
      <4>1. q \in Operations /\ missed[q] \in Nat
        BY <1>0, <3>3 DEF LockTypeOK
      <4>2. CASE q = o
        BY <1>0, <3>3, <4>1, <4>2 DEF Missed, LockTypeOK, Late, Owed
      <4>3. CASE q # o
        BY <1>0, <3>3, <4>1, <4>3 DEF Missed, LockTypeOK, Late, Owed
      <4>. QED BY <4>2, <4>3
    <3>4. ASSUME NEW q \in created, ~Late(q)'
          PROVE  /\ clock' + Lease <= row'.lockedUntil + missed'[q] + Owed(q)'
                 /\ clock' + Ttl <= row'.expiresAt + missed'[q] + Owed(q)'
      <4>1. /\ q \in Operations /\ missed[q] \in Nat /\ missed'[q] \in Nat
            /\ row.lockedUntil \in Nat /\ row.expiresAt \in Nat /\ Owed(q) \in Nat /\ Owed(q)' \in Nat /\ clock \in Nat
        BY <1>0, <3>1, <3>4 DEF LockTypeOK, Owed
      <4>2. /\ clock + Lease <= row.lockedUntil + missed[q] + Owed(q)
            /\ clock + Ttl <= row.expiresAt + missed[q] + Owed(q)
        BY <1>0, <3>3, <3>4 DEF CreatorInv
      <4>. QED BY <3>3, <3>4, <4>1, <4>2
    <3>5. CreatorInv'
      BY <1>0, <3>3, <3>4 DEF CreatorInv
    <3>. QED BY <3>1, <3>2, <3>5 DEF LockInv
  <2>3. CASE /\ ~Extendable(recordId[o], o) /\ loop' = [loop EXCEPT ![o] = "off"]
             /\ UNCHANGED <<row, lastId, missed, failures>>
    <3>1. LockTypeOK'
      BY <1>0, <2>0, <2>3 DEF LockTypeOK
    <3>2. LockIdInv'
      BY <1>0, <2>0, <2>3 DEF LockIdInv
    <3>3. o \in created => Late(o)
      BY <2>3, CreatorLocked DEF Extendable
    <3>4. ASSUME NEW q \in created, ~Late(q)'
          PROVE  ~Late(q) /\ q # o /\ loop'[q] = loop[q] /\ Owed(q)' = Owed(q)
      <4>1. ~Late(q)
        BY <2>3, <3>4 DEF Late
      <4>. QED BY <1>0, <2>0, <2>3, <3>3, <4>1 DEF LockTypeOK, Owed
    <3>5. CreatorInv'
      BY <1>0, <2>0, <2>3, <3>4 DEF CreatorInv
    <3>. QED BY <3>1, <3>2, <3>5 DEF LockInv
  <2>. QED
    BY <1>0, <1>8, <2>1, <2>2, <2>3 DEF RenewLoop, store, Failure, LockTypeOK
<1>9. ASSUME NEW o \in Operations, LastRenewal(o) PROVE LockInv'
  <2>1. o \in created => Late(o)
    BY <1>9, CreatorLocked DEF LastRenewal
  <2>2. ASSUME NEW q \in created, ~Late(q) PROVE row' = row /\ loop'[q] = loop[q]
    <3>1. q # o /\ row.fingerprint # o
      BY <2>1, <2>2, CreatorLocked
    <3>. QED
      BY <1>0, <1>9, <3>1 DEF LastRenewal, ExtendProcessingLock, Extendable,
         store, LockTypeOK
  <2>3. row' \in LockRows /\ row'.id = row.id /\ lastId' = lastId
    BY <1>0, <1>9, LockRowExtended DEF LastRenewal, store, LockTypeOK, LockRows
  <2>4. LockTypeOK'
    BY <1>0, <1>9, <2>3 DEF LastRenewal, LockTypeOK, LockRows
  <2>5. LockIdInv'
    BY <1>0, <1>9, <2>3 DEF LastRenewal, LockIdInv
  <2>6. CreatorInv'
    BY <1>0, <1>9, <2>2 DEF LastRenewal, CreatorInv, Late, Owed
  <2>. QED BY <2>4, <2>5, <2>6 DEF LockInv
<1>10. ASSUME NEW o \in Operations, Crash(o) PROVE LockInv'
  <2>1. PICK state \in {"off", "stopping"} : Ended(o, state)
    BY <1>10 DEF Crash
  <2>2. LockTypeOK'
    BY <1>0, <1>10, <2>1 DEF Crash, Ended, Failure, store, LockTypeOK,
       Steps, Nothing, RowStatuses
  <2>3. LockIdInv'
    BY <1>0, <1>10, <2>1
       DEF Crash, Ended, store, LockTypeOK, LockIdInv, Nothing
  <2>4. CreatorInv'
    BY <1>0, <1>10, <2>1, CreatorFrame DEF Crash, Ended, store, LockTypeOK
  <2>. QED BY <2>2, <2>3, <2>4 DEF LockInv
<1>11. CASE UNCHANGED lockVars
  <2>1. LockTypeOK'
    BY <1>0, <1>11 DEF lockVars, LockTypeOK
  <2>2. LockIdInv'
    BY <1>0, <1>11 DEF lockVars, LockIdInv
  <2>3. CreatorInv'
    BY <1>11, CreatorFrame DEF lockVars
  <2>. QED BY <2>1, <2>2, <2>3 DEF LockInv
<1>. QED
  BY <1>1, <1>2, <1>3, <1>4, <1>5, <1>6, <1>7, <1>8, <1>9, <1>10, <1>11
  DEF LockNext, OperationStep

\* The invariant of the lock holds in every reachable state.
THEOREM LockInvariance == LockSpec => []LockInv
BY InitLockInv, NextLockInv, PTL DEF LockSpec

\* Every variable of the lock keeps its type.
THEOREM LockTypeCorrect == LockSpec => []LockTypeOK
<1>1. LockInv => LockTypeOK
  BY DEF LockInv
<1>. QED BY <1>1, LockInvariance, PTL

\* The operation that inserted the row keeps the lock until it ends, for any number
\* of competing operations, unless its renewals stay out for a whole lease: the row
\* is locked for it, its renewLoop goes on and nobody else holds the row.
THEOREM CreatorKeepsIt == LockSpec => []CreatorKeepsLock
<1>1. LockInv => CreatorKeepsLock
  <2> SUFFICES ASSUME LockInv, NEW o \in created, ~Late(o)
               PROVE  /\ recordId[o] = row.id /\ row.status = "processing"
                      /\ clock < row.lockedUntil /\ loop[o] = "on"
                      /\ \A p \in Operations : phase[p] = "held" /\ recordId[p] = row.id => p = o
    BY DEF CreatorKeepsLock, Holds
  <2>. QED BY CreatorLocked DEF LockInv, CreatorInv
<1>. QED BY <1>1, LockInvariance, PTL

=============================================================================
