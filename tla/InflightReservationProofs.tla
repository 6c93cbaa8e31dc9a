--------------------- MODULE InflightReservationProofs ----------------------
(***************************************************************************)
(* Proofs about InflightReservation for any number of requests and faults, *)
(* any estimates, any balance and any length of the cache-write queue.     *)
(***************************************************************************)
EXTENDS InflightReservation, FiniteSetTheorems, TLAPS

\* The references that a reserved request should have: one of the handler from the
\* reservation to its return, one of the billing task until it is done.
HandlerRef(r) == IF pc[r] \in {"forward", "return"} THEN 1 ELSE 0

TaskRef(r) == IF task[r] = "none" THEN 0 ELSE 1

\* A request without a reservation counts no references; one with a reservation counts
\* exactly its holders, and all do until somebody goes on without.
RefInv ==
  \A r \in Requests :
    /\ task[r] # "none" => pc[r] \in {"return", "done"}
    /\ refs[r] \in {0, HandlerRef(r) + TaskRef(r)}
    /\ ~lapsed => refs[r] = HandlerRef(r) + TaskRef(r)

\* Until the first fault nobody has gone on without a reservation, and a reservation in
\* Redis has a holder.
LeakInv ==
  /\ lapsed => faults > 0
  /\ faults = 0 => \A r \in held : HandlerRef(r) + TaskRef(r) > 0

\* The requests whose charge is in the balance and not yet in the cache.
Unsynced == {r \in Requests : task[r] \in {"deduct", "invalidate"}}

\* What a balance that somebody still goes by may be: the balance of the users row and
\* the charges on their way to the cache.
Bound == balance + Total(cost, Unsynced)

\* Nobody is charged more than it reserved.
CostInv == \A r \in Requests : task[r] # "none" => cost[r] <= amount[r]

\* The balances that are cached, on their way to the cache, or read for a reservation.
ValuesCovered ==
  /\ cached # Absent => cached <= Bound
  /\ \A f \in fills : ~f.stale => f.value <= Bound
  /\ \A r \in Requests : pc[r] = "reserve" /\ r \notin seenStale => seen[r] <= Bound

\* The estimates of two or more outstanding requests.
EstimatesCovered ==
  \/ \A r, s \in Outstanding : r = s
  \/ Total(amount, Outstanding) <= balance

CoverInv == ~lapsed /\ ~raced => ValuesCovered /\ EstimatesCovered

\* The inductive invariant.
IInv == TypeOK /\ RefInv /\ HeldUntilDeducted /\ LeakInv

-----------------------------------------------------------------------------
(* Sums. *)

\* The units of S are pairs of a member and a number up to what f gives it.
LEMMA UnitsMember ==
  ASSUME NEW f, NEW S, NEW u
  PROVE  u \in Units(f, S) <=> \E s \in S : u \in {s} \X (1..f[s])
BY DEF Units

\* Finitely many members have finitely many units.
LEMMA UnitsFinite ==
  ASSUME NEW f, NEW S, IsFiniteSet(S), \A s \in S : f[s] \in Nat
  PROVE  IsFiniteSet(Units(f, S))
<1> DEFINE sets == {{s} \X (1..f[s]) : s \in S}
           g == [s \in S |-> {s} \X (1..f[s])]
<1>1. g \in Surjection(S, sets)
  <2>1. g \in [S -> sets]
    OBVIOUS
  <2>2. \A t \in sets : \E s \in S : g[s] = t
    OBVIOUS
  <2> HIDE DEF sets, g
  <2>. QED BY <2>1, <2>2 DEF Surjection
<1>2. IsFiniteSet(sets)
  BY <1>1, FS_Surjection
<1>3. ASSUME NEW t \in sets PROVE IsFiniteSet(t)
  <2>1. PICK s \in S : t = {s} \X (1..f[s])
    OBVIOUS
  <2>2. IsFiniteSet({s})
    BY FS_Singleton
  <2>3. IsFiniteSet(1..f[s])
    <3>1. 1 \in Int /\ f[s] \in Int
      OBVIOUS
    <3>. QED BY <3>1, FS_Interval
  <2>. QED BY <2>1, <2>2, <2>3, FS_Product
<1> HIDE DEF sets
<1>4. IsFiniteSet(UNION sets)
  BY <1>2, <1>3, FS_UNION
<1>. QED BY <1>4 DEF Units, sets

\* A sum of natural numbers is a natural number.
LEMMA TotalType ==
  ASSUME NEW f, NEW S, IsFiniteSet(S), \A s \in S : f[s] \in Nat
  PROVE  Total(f, S) \in Nat
BY UnitsFinite, FS_CardinalityType DEF Total

\* The sum grows with the set and with the numbers.
LEMMA TotalMono ==
  ASSUME NEW f, NEW g, NEW S, NEW T, IsFiniteSet(T), S \subseteq T,
         \A s \in S : f[s] \in Nat /\ f[s] <= g[s], \A t \in T : g[t] \in Nat
  PROVE  Total(f, S) <= Total(g, T)
<1>1. Units(f, S) \subseteq Units(g, T)
  <2> SUFFICES ASSUME NEW u \in Units(f, S) PROVE u \in Units(g, T)
    OBVIOUS
  <2>1. PICK s \in S : u \in {s} \X (1..f[s])
    BY UnitsMember
  <2>2. 1..f[s] \subseteq 1..g[s]
    OBVIOUS
  <2>3. u \in {s} \X (1..g[s])
    BY <2>1, <2>2
  <2>. QED BY <2>3, UnitsMember
<1>2. IsFiniteSet(Units(g, T))
  BY UnitsFinite
<1>. QED BY <1>1, <1>2, FS_Subset DEF Total

\* The sum depends on the members alone.
LEMMA TotalSame ==
  ASSUME NEW f, NEW g, NEW S, \A s \in S : f[s] = g[s]
  PROVE  Total(f, S) = Total(g, S)
<1>1. \A u : u \in Units(f, S) <=> u \in Units(g, S)
  BY UnitsMember
<1>2. Units(f, S) = Units(g, S)
  BY <1>1
<1>. QED BY <1>2 DEF Total

\* The sum over two disjoint sets.
LEMMA TotalUnion ==
  ASSUME NEW f, NEW S, NEW T, IsFiniteSet(S), IsFiniteSet(T), S \cap T = {},
         \A s \in S \cup T : f[s] \in Nat
  PROVE  Total(f, S \cup T) = Total(f, S) + Total(f, T)
<1>1. Units(f, S \cup T) = Units(f, S) \cup Units(f, T)
  <2>1. \A u : u \in Units(f, S \cup T) <=> u \in Units(f, S) \cup Units(f, T)
    BY UnitsMember
  <2>. QED BY <2>1
<1>2. Units(f, S) \cap Units(f, T) = {}
  <2> SUFFICES ASSUME NEW u \in Units(f, S), u \in Units(f, T) PROVE FALSE
    OBVIOUS
  <2>1. PICK s \in S : u \in {s} \X (1..f[s])
    BY UnitsMember
  <2>2. PICK t \in T : u \in {t} \X (1..f[t])
    BY UnitsMember
  <2>3. u[1] = s /\ u[1] = t
    BY <2>1, <2>2
  <2>. QED BY <2>3
<1>3. IsFiniteSet(Units(f, S)) /\ IsFiniteSet(Units(f, T))
  BY UnitsFinite
<1>4. Cardinality(Units(f, S)) \in Nat /\ Cardinality(Units(f, T)) \in Nat
  BY <1>3, FS_CardinalityType
<1>5. Cardinality(Units(f, S) \cup Units(f, T))
        = Cardinality(Units(f, S)) + Cardinality(Units(f, T)) - Cardinality({})
  BY <1>2, <1>3, FS_Union
<1>6. Cardinality({}) = 0
  BY FS_EmptySet
<1>7. Total(f, S \cup T) = Cardinality(Units(f, S) \cup Units(f, T))
  BY <1>1 DEF Total
<1>8. Total(f, S) = Cardinality(Units(f, S)) /\ Total(f, T) = Cardinality(Units(f, T))
  BY DEF Total
<1>. QED BY <1>4, <1>5, <1>6, <1>7, <1>8

\* The sum over one member.
LEMMA TotalOne ==
  ASSUME NEW f, NEW r, f[r] \in Nat
  PROVE  Total(f, {r}) = f[r]
<1>1. Units(f, {r}) = {r} \X (1..f[r])
  <2>1. \A u : u \in Units(f, {r}) <=> u \in {r} \X (1..f[r])
    BY UnitsMember
  <2>. QED BY <2>1
<1>2. IsFiniteSet({r}) /\ Cardinality({r}) = 1
  BY FS_Singleton
<1> DEFINE ks == 1..f[r]
<1>3. IsFiniteSet(ks) /\ Cardinality(ks) = f[r]
  <2>1. 1 \in Int /\ f[r] \in Int
    OBVIOUS
  <2>2. IsFiniteSet(1..f[r]) /\ Cardinality(1..f[r]) = IF 1 > f[r] THEN 0 ELSE f[r] - 1 + 1
    BY <2>1, FS_Interval
  <2>. QED BY <2>2
<1> HIDE DEF ks
<1>4. Cardinality({r} \X ks) = Cardinality({r}) * Cardinality(ks)
  BY <1>2, <1>3, FS_Product
<1>5. Cardinality({r} \X ks) = f[r]
  BY <1>2, <1>3, <1>4
<1>6. Units(f, {r}) = {r} \X ks
  BY <1>1 DEF ks
<1>. QED BY <1>5, <1>6 DEF Total

\* One member more.
LEMMA TotalAdd ==
  ASSUME NEW f, NEW S, NEW r, IsFiniteSet(S), r \notin S, f[r] \in Nat,
         \A s \in S : f[s] \in Nat
  PROVE  Total(f, S \cup {r}) = Total(f, S) + f[r]
<1>1. IsFiniteSet({r}) /\ S \cap {r} = {}
  BY FS_Singleton
<1>. QED BY <1>1, TotalUnion, TotalOne

-----------------------------------------------------------------------------
\* The balances a request may be told of are numbers.
LEMMA BalanceType ==
  ASSUME TypeOK, NEW r \in Requests, NEW b \in UserBalances(r)
  PROVE  b.value \in Int /\ b.stale \in BOOLEAN /\ b.load \in BOOLEAN
<1>1. \A f \in fills : f.value \in Int /\ f.stale \in BOOLEAN
  BY DEF TypeOK
<1>2. CASE \E c \in {cached} \ {Absent} : b = [value |-> c, stale |-> FALSE, load |-> FALSE]
  BY <1>2 DEF TypeOK
<1>3. CASE b = [value |-> balance, stale |-> FALSE, load |-> TRUE]
  BY <1>3 DEF TypeOK
<1>4. CASE \E f \in JoinableLoads(r) : b = [value |-> f.value, stale |-> f.stale, load |-> FALSE]
  BY <1>1, <1>4 DEF JoinableLoads
<1>. QED BY <1>2, <1>3, <1>4 DEF UserBalances

\* A load puts a task of the right type into the queue.
LEMMA FillType ==
  ASSUME TypeOK, NEW r \in Requests, NEW b \in UserBalances(r),
         NEW step \in {"check", "read"}, QueueSetBalance(r, step, b)
  PROVE  fills' \subseteq [by : Requests, step : {"check", "read"}, value : Int, stale : BOOLEAN]
<1>. DEFINE Fills == [by : Requests, step : {"check", "read"}, value : Int, stale : BOOLEAN]
            new == [by |-> r, step |-> step, value |-> b.value, stale |-> FALSE]
<1>1. new \in Fills
  BY BalanceType
<1>2. fills' = fills \/ fills' = fills \cup {new}
  BY DEF QueueSetBalance
<1>. QED BY <1>1, <1>2 DEF TypeOK

\* One fault more is within the bound.
LEMMA FaultType ==
  ASSUME TypeOK, Fault
  PROVE  faults' \in 0..MaxFaults /\ faults' # 0
BY MaxFaultsAssumption DEF TypeOK, Fault

\* A reference returned: either another one is left and the reservation stays, or this was
\* the last and the reservation goes, or its release fails.
LEMMA DoneEffect ==
  ASSUME IInv, NEW r \in Requests, Done(r), HandlerRef(r) + TaskRef(r) > 0
  PROVE  /\ refs' \in [Requests -> 0..2] /\ faults' \in 0..MaxFaults
         /\ \A s \in Requests \ {r} : refs'[s] = refs[s] /\ (s \in held' <=> s \in held)
         /\ refs'[r] = IF refs[r] = 0 THEN 0 ELSE refs[r] - 1
         /\ held' \subseteq held
         /\ refs[r] # 1 => held' = held
         /\ faults' = faults \/ faults' # 0
         /\ refs[r] = 1 /\ faults' = 0 => r \notin held'
         /\ faults' = 0 => faults = 0
<1>1. /\ refs \in [Requests -> 0..2] /\ faults \in 0..MaxFaults /\ MaxFaults \in Nat
      /\ held \subseteq Requests
  BY MaxFaultsAssumption DEF IInv, TypeOK
<1>2. CASE refs[r] = 0
  BY <1>1, <1>2 DEF Done
<1>3. CASE refs[r] # 0
  <2>1. DecRef(r)
    BY <1>3 DEF Done
  <2>. QED BY <1>1, <1>3, <2>1 DEF DecRef, Fault
<1>. QED BY <1>2, <1>3

-----------------------------------------------------------------------------
\* The initial states.
LEMMA InitIInv == Init => IInv
<1>1. Init => TypeOK
  <2>1. SUFFICES ASSUME Init PROVE TypeOK
    OBVIOUS
  <2>2. balance \in Int /\ cached \in Int \cup {Absent} /\ faults \in 0..MaxFaults
    BY <2>1, OpeningAssumption, MaxFaultsAssumption DEF Init
  <2>3. /\ fills = {} /\ deducts = {} /\ held = {} /\ seenStale = {} /\ renewing = {}
        /\ raced = FALSE /\ lapsed = FALSE
    BY <2>1 DEF Init
  <2>4. /\ pc \in [Requests -> HandlerSteps] /\ task \in [Requests -> TaskSteps]
        /\ seen \in [Requests -> Int] /\ cost \in [Requests -> Nat]
        /\ refs \in [Requests -> 0..2]
    BY <2>1 DEF Init, HandlerSteps, TaskSteps
  <2>5. amount \in [Requests -> Estimates \cup {0}]
    BY <2>1 DEF Init
  <2>. QED BY <2>2, <2>3, <2>4, <2>5 DEF TypeOK
<1>2. Init => RefInv /\ HeldUntilDeducted /\ LeakInv
  BY DEF Init, RefInv, HeldUntilDeducted, LeakInv, Pending, HandlerRef, TaskRef
<1>. QED BY <1>1, <1>2 DEF IInv

\* The eligibility check reads the balance and may load it.
LEMMA CheckBillingEligibilityStep ==
  ASSUME IInv, NEW r \in Requests, CheckBillingEligibility(r)
  PROVE  IInv'
<1>1. TypeOK'
  BY FillType, FaultType DEF IInv, TypeOK, HandlerSteps, CheckBillingEligibility, Goto, ownerVars
<1>2. RefInv' /\ HeldUntilDeducted' /\ LeakInv'
  BY FaultType
     DEF IInv, TypeOK, RefInv, HeldUntilDeducted, LeakInv, Pending, HandlerRef, TaskRef,
         CheckBillingEligibility, Goto, ownerVars
<1>. QED BY <1>1, <1>2 DEF IInv

\* The read before the reservation.
LEMMA ReadBalanceStep ==
  ASSUME IInv, NEW r \in Requests, ReadBalance(r)
  PROVE  IInv'
<1>1. TypeOK'
  <2>1. amount' \in [Requests -> Estimates \cup {0}]
    BY DEF IInv, TypeOK, ReadBalance
  <2>2. pc' \in [Requests -> HandlerSteps] /\ seen' \in [Requests -> Int] /\ seenStale' \subseteq Requests
    BY BalanceType DEF IInv, TypeOK, ReadBalance, Goto, HandlerSteps
  <2>3. fills' \subseteq [by : Requests, step : {"check", "read"}, value : Int, stale : BOOLEAN]
    <3>1. CASE \E b \in UserBalances(r) : QueueSetBalance(r, "read", b)
      BY <3>1, FillType DEF IInv
    <3>2. CASE UNCHANGED fills
      BY <3>2 DEF IInv, TypeOK
    <3>. QED BY <3>1, <3>2 DEF ReadBalance
  <2>4. lapsed' \in BOOLEAN /\ faults' \in 0..MaxFaults
    BY FaultType DEF IInv, TypeOK, ReadBalance, Lapse, NoFault
  <2>. QED BY <2>1, <2>2, <2>3, <2>4 DEF IInv, TypeOK, ReadBalance, ownerVars
<1>2. RefInv' /\ HeldUntilDeducted' /\ LeakInv'
  BY FaultType
     DEF IInv, TypeOK, RefInv, HeldUntilDeducted, LeakInv, Pending, HandlerRef, TaskRef,
         ReadBalance, Goto, NoFault, Lapse, ownerVars
<1>. QED BY <1>1, <1>2 DEF IInv

\* The reservation: the handler holds the first reference.
LEMMA ReserveInflightStep ==
  ASSUME IInv, NEW r \in Requests, ReserveInflight(r)
  PROVE  IInv'
<1>1. TypeOK'
  <2>1. /\ held' \subseteq Requests /\ renewing' \subseteq Requests /\ seenStale' \subseteq Requests
        /\ pc' \in [Requests -> HandlerSteps] /\ refs' \in [Requests -> 0..2]
        /\ seen' \in [Requests -> Int]
    BY DEF IInv, TypeOK, ReserveInflight, Goto, HandlerSteps, ownerVars
  <2>2. lapsed' \in BOOLEAN /\ faults' \in 0..MaxFaults
    BY FaultType DEF IInv, TypeOK, ReserveInflight, Lapse, NoFault
  <2>3. raced' \in BOOLEAN
    BY Zenon DEF IInv, TypeOK, ReserveInflight
  <2>. QED BY <2>1, <2>2, <2>3 DEF IInv, TypeOK, ReserveInflight, cacheVars
<1>2. RefInv' /\ HeldUntilDeducted' /\ LeakInv'
  BY FaultType
     DEF IInv, TypeOK, RefInv, HeldUntilDeducted, LeakInv, Pending, HandlerRef, TaskRef,
         ReserveInflight, Goto, NoFault, Lapse, cacheVars, ownerVars
<1>. QED BY <1>1, <1>2 DEF IInv

\* The task takes its reference while the handler holds one.
LEMMA SubmitUsageRecordTaskStep ==
  ASSUME IInv, NEW r \in Requests, SubmitUsageRecordTask(r)
  PROVE  IInv'
<1>1. TypeOK'
  <2>1. cost' \in [Requests -> Nat]
    <3>0. amount[r] \in Estimates \cup {0}
      BY DEF IInv, TypeOK
    <3>1. amount[r] \in Nat
      <4>1. \A e \in Estimates : e \in Nat
        BY EstimatesAssumption
      <4>. QED BY <3>0, <4>1
    <3>2. PICK actual \in 1..amount[r] : cost' = [cost EXCEPT ![r] = actual]
      BY DEF SubmitUsageRecordTask
    <3>3. actual \in Nat
      BY <3>1, <3>2
    <3>. QED BY <3>2, <3>3 DEF IInv, TypeOK
  <2>2. refs' \in [Requests -> 0..2]
    <3>1. refs[r] \in {0, 1}
      BY DEF IInv, TypeOK, RefInv, HandlerRef, TaskRef, SubmitUsageRecordTask
    <3>. QED BY <3>1 DEF IInv, TypeOK, SubmitUsageRecordTask
  <2>3. pc' \in [Requests -> HandlerSteps] /\ task' \in [Requests -> TaskSteps]
    BY DEF IInv, TypeOK, SubmitUsageRecordTask, Goto, TaskGoto, HandlerSteps, TaskSteps
  <2>. QED BY <2>1, <2>2, <2>3 DEF IInv, TypeOK, SubmitUsageRecordTask, cacheVars
<1>2. RefInv' /\ HeldUntilDeducted' /\ LeakInv'
  BY DEF IInv, TypeOK, RefInv, HeldUntilDeducted, LeakInv, Pending, HandlerRef, TaskRef,
         SubmitUsageRecordTask, Goto, TaskGoto, cacheVars
<1>. QED BY <1>1, <1>2 DEF IInv

\* Nothing is billed.
LEMMA DropUsageRecordTaskStep ==
  ASSUME IInv, NEW r \in Requests, DropUsageRecordTask(r)
  PROVE  IInv'
<1>1. TypeOK'
  BY DEF IInv, TypeOK, HandlerSteps, DropUsageRecordTask, Goto, cacheVars, ownerVars
<1>2. RefInv' /\ HeldUntilDeducted' /\ LeakInv'
  BY DEF IInv, TypeOK, RefInv, HeldUntilDeducted, LeakInv, Pending, HandlerRef, TaskRef,
         DropUsageRecordTask, Goto, cacheVars, ownerVars
<1>. QED BY <1>1, <1>2 DEF IInv

\* The handler returns its reference; the last one releases.
LEMMA HandlerDoneStep ==
  ASSUME IInv, NEW r \in Requests, HandlerDone(r)
  PROVE  IInv'
<1>1. TypeOK'
  <2>1. HandlerRef(r) + TaskRef(r) > 0
    BY DEF HandlerDone, HandlerRef, TaskRef
  <2>. QED BY <2>1, DoneEffect
              DEF IInv, TypeOK, HandlerSteps, TaskSteps, HandlerDone, Goto, cacheVars
<1>2. RefInv' /\ HeldUntilDeducted' /\ LeakInv'
  <2>1. HandlerRef(r) + TaskRef(r) > 0
    BY DEF HandlerDone, HandlerRef, TaskRef
  <2>. QED BY <2>1, DoneEffect DEF IInv, TypeOK, RefInv, HeldUntilDeducted, LeakInv, Pending,
              HandlerRef, TaskRef, HandlerDone, Goto, cacheVars
<1>. QED BY <1>1, <1>2 DEF IInv

\* The charge.
LEMMA ApplyUsageBillingStep ==
  ASSUME IInv, NEW r \in Requests, ApplyUsageBilling(r)
  PROVE  IInv'
<1>1. TypeOK'
  BY FaultType DEF IInv, TypeOK, TaskSteps, ApplyUsageBilling, TaskGoto, cacheVars, ownerVars
<1>2. RefInv' /\ HeldUntilDeducted' /\ LeakInv'
  BY FaultType
     DEF IInv, TypeOK, RefInv, HeldUntilDeducted, LeakInv, Pending, HandlerRef, TaskRef,
         ApplyUsageBilling, TaskGoto, cacheVars, ownerVars
<1>. QED BY <1>1, <1>2 DEF IInv

\* The charge reaches the cache, or its failure is a lapse.
LEMMA SyncBalanceCacheStep ==
  ASSUME IInv, NEW r \in Requests, SyncBalanceCache(r)
  PROVE  IInv'
<1>1. TypeOK'
  <2>1. cached' \in Int \cup {Absent}
    BY DEF IInv, TypeOK, SyncBalanceCache, Synced, DeductUserBalance
  <2>2. fills' \subseteq [by : Requests, step : {"check", "read"}, value : Int, stale : BOOLEAN]
    <3>. DEFINE Fills == [by : Requests, step : {"check", "read"}, value : Int, stale : BOOLEAN]
    <3>1. fills \subseteq Fills
      BY DEF IInv, TypeOK
    <3>2. \A f \in Fills : [f EXCEPT !.stale = TRUE] \in Fills
      OBVIOUS
    <3>3. fills' = fills \/ fills' = {[f EXCEPT !.stale = TRUE] : f \in fills}
      BY DEF SyncBalanceCache, MarkStale
    <3>. HIDE DEF Fills
    <3>4. fills' \subseteq Fills
      BY <3>1, <3>2, <3>3
    <3>. QED BY <3>4 DEF Fills
  <2>3. /\ deducts' \subseteq Requests /\ seenStale' \subseteq Requests
        /\ task' \in [Requests -> TaskSteps]
    BY DEF IInv, TypeOK, SyncBalanceCache, MarkStale, TaskGoto, TaskSteps
  <2>4. lapsed' \in BOOLEAN /\ faults' \in 0..MaxFaults
    BY FaultType DEF IInv, TypeOK, SyncBalanceCache, Lapse, NoFault
  <2>. QED BY <2>1, <2>2, <2>3, <2>4 DEF IInv, TypeOK, SyncBalanceCache, ownerVars
<1>2. RefInv' /\ HeldUntilDeducted' /\ LeakInv'
  BY FaultType
     DEF IInv, TypeOK, RefInv, HeldUntilDeducted, LeakInv, Pending, HandlerRef, TaskRef,
         SyncBalanceCache, Synced, MarkStale, DeductUserBalance, TaskGoto, NoFault, Lapse,
         ownerVars
<1>. QED BY <1>1, <1>2 DEF IInv

\* The task returns its reference; the last one releases.
LEMMA FinishTaskStep ==
  ASSUME IInv, NEW r \in Requests, FinishTask(r)
  PROVE  IInv'
<1>1. TypeOK'
  <2>1. HandlerRef(r) + TaskRef(r) > 0
    BY DEF FinishTask, HandlerRef, TaskRef
  <2>. QED BY <2>1, DoneEffect
              DEF IInv, TypeOK, HandlerSteps, TaskSteps, FinishTask, TaskGoto, cacheVars
<1>2. RefInv' /\ HeldUntilDeducted' /\ LeakInv'
  <2>1. HandlerRef(r) + TaskRef(r) > 0
    BY DEF FinishTask, HandlerRef, TaskRef
  <2>. QED BY <2>1, DoneEffect DEF IInv, TypeOK, RefInv, HeldUntilDeducted, LeakInv, Pending,
              HandlerRef, TaskRef, FinishTask, TaskGoto, cacheVars
<1>. QED BY <1>1, <1>2 DEF IInv

\* A reservation somebody needs expires only with a lapse.
LEMMA ExpireStep ==
  ASSUME IInv, NEW r \in Requests, Expire(r)
  PROVE  IInv'
<1>1. TypeOK'
  BY FaultType DEF IInv, TypeOK, Expire, NoFault, Lapse, cacheVars
<1>2. RefInv' /\ HeldUntilDeducted' /\ LeakInv'
  BY FaultType
     DEF IInv, TypeOK, RefInv, HeldUntilDeducted, LeakInv, Pending, HandlerRef, TaskRef, Expire,
         NoFault, Lapse, cacheVars
<1>. QED BY <1>1, <1>2 DEF IInv

\* The process dies: no references are left, and it is a fault.
LEMMA CrashStep ==
  ASSUME IInv, NEW r \in Requests, Crash(r)
  PROVE  IInv'
<1>1. TypeOK'
  BY FaultType DEF IInv, TypeOK, HandlerSteps, TaskSteps, Crash, Goto, TaskGoto
<1>2. RefInv' /\ HeldUntilDeducted' /\ LeakInv'
  BY FaultType
     DEF IInv, TypeOK, RefInv, HeldUntilDeducted, LeakInv, Pending, HandlerRef, TaskRef, Crash,
         Goto, TaskGoto
<1>. QED BY <1>1, <1>2 DEF IInv

\* The cache-write workers and the expiry of the cached balance touch no reservation.
LEMMA CacheStepStep ==
  ASSUME IInv, CacheStep
  PROVE  IInv'
<1>1. TypeOK'
  <2>1. CASE \E f \in fills : CacheWriteSetBalance(f)
    BY <2>1 DEF IInv, TypeOK, CacheWriteSetBalance, ownerVars
  <2>2. CASE \E r \in deducts : CacheWriteDeductBalance(r)
    BY <2>2 DEF IInv, TypeOK, CacheWriteDeductBalance, DeductUserBalance, ownerVars
  <2>3. CASE Evict
    BY <2>3 DEF IInv, TypeOK, Evict, ownerVars
  <2>. QED BY <2>1, <2>2, <2>3 DEF CacheStep
<1>2. UNCHANGED <<held, pc, task, refs, lapsed, faults>>
  BY DEF CacheStep, CacheWriteSetBalance, CacheWriteDeductBalance, Evict, ownerVars
<1>3. RefInv' /\ HeldUntilDeducted' /\ LeakInv'
  BY <1>2 DEF IInv, RefInv, HeldUntilDeducted, LeakInv, Pending, HandlerRef, TaskRef
<1>. QED BY <1>1, <1>3 DEF IInv

\* Every step keeps the invariant.
LEMMA NextIInv == IInv /\ [Next]_vars => IInv'
<1>1. SUFFICES ASSUME IInv, Next PROVE IInv'
  <2>1. ASSUME IInv, UNCHANGED vars PROVE IInv'
    <3>1. TypeOK'
      BY <2>1 DEF IInv, TypeOK, vars
    <3>2. RefInv' /\ HeldUntilDeducted' /\ LeakInv'
      BY <2>1 DEF IInv, RefInv, HeldUntilDeducted, LeakInv, Pending, HandlerRef, TaskRef, vars
    <3>. QED BY <3>1, <3>2 DEF IInv
  <2>. QED BY <1>1, <2>1
<1>2. ASSUME NEW r \in Requests, HandlerStep(r) PROVE IInv'
  BY <1>1, <1>2, CheckBillingEligibilityStep, ReadBalanceStep, ReserveInflightStep,
     SubmitUsageRecordTaskStep, DropUsageRecordTaskStep, HandlerDoneStep DEF HandlerStep
<1>3. ASSUME NEW r \in Requests, TaskStep(r) PROVE IInv'
  BY <1>1, <1>3, ApplyUsageBillingStep, SyncBalanceCacheStep, FinishTaskStep DEF TaskStep
<1>4. ASSUME NEW r \in Requests, Expire(r) \/ Crash(r) PROVE IInv'
  BY <1>1, <1>4, ExpireStep, CrashStep
<1>. QED BY <1>1, <1>2, <1>3, <1>4, CacheStepStep DEF Next

-----------------------------------------------------------------------------
\* The inductive invariant holds in every reachable state.
THEOREM Invariance == Spec => []IInv
BY InitIInv, NextIInv, PTL DEF Spec

\* Every variable keeps its type; in particular InflightReservation.refs stays within 0..2.
THEOREM TypeCorrect == Spec => []TypeOK
<1>1. IInv => TypeOK
  BY DEF IInv
<1>. QED BY <1>1, Invariance, PTL

\* A request keeps its reservation in Redis from admission until its charge has reached
\* the cached balance, in whichever order the handler and its billing task end, unless it
\* went on without one or a charge missed the cache.
THEOREM HeldToTheCharge == Spec => []HeldUntilDeducted
<1>1. IInv => HeldUntilDeducted
  BY DEF IInv
<1>. QED BY <1>1, Invariance, PTL

\* Every path through handler and task releases the reservation: without a failing call or
\* a crash none is left in Redis once both have ended.
THEOREM NothingLeaks == Spec => []NoLeakedReservation
<1>1. IInv => NoLeakedReservation
  BY DEF IInv, TypeOK, LeakInv, NoLeakedReservation, HandlerRef, TaskRef
<1>. QED BY <1>1, Invariance, PTL

-----------------------------------------------------------------------------
(* Requests do not overdraw the balance together. *)

\* Sets of requests are finite, and what they reserve and cost are natural numbers.
LEMMA Sums ==
  ASSUME IInv, NEW S \in SUBSET Requests
  PROVE  /\ IsFiniteSet(S) /\ \A s \in S : amount[s] \in Nat /\ cost[s] \in Nat
         /\ Total(amount, S) \in Nat /\ Total(cost, S) \in Nat
<1>1. IsFiniteSet(S)
  BY RequestsAssumption, FS_Subset
<1>2. ASSUME NEW s \in S PROVE amount[s] \in Nat /\ cost[s] \in Nat
  <2>1. amount[s] \in Estimates \cup {0} /\ cost[s] \in Nat
    BY DEF IInv, TypeOK
  <2>2. \A e \in Estimates : e \in Nat
    BY EstimatesAssumption
  <2>. QED BY <2>1, <2>2
<1>. QED BY <1>1, <1>2, TotalType

\* The bound is a number, and not below the balance.
LEMMA BoundType ==
  ASSUME IInv
  PROVE  Bound \in Int /\ balance \in Int /\ balance <= Bound
<1>1. Unsynced \in SUBSET Requests
  BY DEF Unsynced
<1>2. Total(cost, Unsynced) \in Nat
  BY <1>1, Sums
<1>. QED BY <1>2 DEF IInv, TypeOK, Bound

\* A step that leaves alone the balance and the charges on their way leaves the bound alone.
LEMMA BoundSame ==
  ASSUME balance' = balance, Unsynced' = Unsynced, \A s \in Unsynced : cost'[s] = cost[s]
  PROVE  Bound' = Bound
<1>1. Total(cost', Unsynced) = Total(cost, Unsynced)
  BY TotalSame
<1>. QED BY <1>1 DEF Bound

\* A step that admits nobody and charges nothing keeps the estimates covered.
LEMMA EstimatesKept ==
  ASSUME IInv, IInv', EstimatesCovered, Outstanding' \subseteq Outstanding, balance' = balance,
         \A s \in Outstanding' : amount'[s] = amount[s]
  PROVE  EstimatesCovered'
<1>1. Outstanding \in SUBSET Requests /\ Outstanding' \in SUBSET Requests
  BY DEF Outstanding
<1>2. CASE Total(amount, Outstanding) <= balance
  <2>1. IsFiniteSet(Outstanding) /\ \A s \in Outstanding : amount[s] \in Nat
    BY <1>1, Sums
  <2>2. Total(amount', Outstanding') <= Total(amount, Outstanding)
    BY <2>1, TotalMono
  <2>3. Total(amount, Outstanding) \in Nat /\ Total(amount, Outstanding)' \in Nat
    BY <1>1, Sums, TotalType
  <2>. QED BY <1>2, <2>2, <2>3 DEF EstimatesCovered, IInv, TypeOK
<1>3. CASE \A r, s \in Outstanding : r = s
  BY <1>3 DEF EstimatesCovered
<1>. QED BY <1>2, <1>3 DEF EstimatesCovered

\* What a request is told of the balance is covered, unless it is stale.
LEMMA BalanceCovered ==
  ASSUME IInv, ValuesCovered, NEW r \in Requests, NEW b \in UserBalances(r)
  PROVE  (~b.stale => b.value <= Bound) /\ (b.load => b.value <= Bound)
<1>1. CASE \E c \in {cached} \ {Absent} : b = [value |-> c, stale |-> FALSE, load |-> FALSE]
  BY <1>1 DEF ValuesCovered
<1>2. CASE b = [value |-> balance, stale |-> FALSE, load |-> TRUE]
  BY <1>2, BoundType
<1>3. CASE \E f \in JoinableLoads(r) : b = [value |-> f.value, stale |-> f.stale, load |-> FALSE]
  BY <1>3 DEF ValuesCovered, JoinableLoads
<1>. QED BY <1>1, <1>2, <1>3 DEF UserBalances

\* And so is what it queues for the cache.
LEMMA FillCovered ==
  ASSUME IInv, ValuesCovered, NEW r \in Requests, NEW b \in UserBalances(r), NEW step,
         QueueSetBalance(r, step, b), NEW f \in fills', ~f.stale
  PROVE  f.value <= Bound
<1>1. CASE f \in fills
  BY <1>1 DEF ValuesCovered
<1>2. CASE f \notin fills
  <2>1. f = [by |-> r, step |-> step, value |-> b.value, stale |-> FALSE] /\ b.load
    BY <1>2 DEF QueueSetBalance
  <2>. QED BY <2>1, BalanceCovered
<1>. QED BY <1>1, <1>2

\* The eligibility check may queue the balance for the cache.
LEMMA CheckCover ==
  ASSUME IInv, IInv', CostInv, CoverInv, NEW r \in Requests, CheckBillingEligibility(r)
  PROVE  CostInv' /\ CoverInv'
<1>1. CostInv'
  BY DEF CostInv, CheckBillingEligibility
<1>2. /\ UNCHANGED <<balance, cached, seen, seenStale, amount, task, cost, raced, lapsed>>
      /\ pc' \in {[pc EXCEPT ![r] = "done"], [pc EXCEPT ![r] = "read"]}
      /\ pc[r] = "check" /\ pc \in [Requests -> HandlerSteps]
  BY DEF CheckBillingEligibility, Goto, IInv, TypeOK
<1>3. Outstanding' = Outstanding /\ Unsynced' = Unsynced
  BY <1>2 DEF Outstanding, Unsynced
<1>4. Bound' = Bound
  BY <1>2, <1>3, BoundSame
<1>5. ASSUME ValuesCovered PROVE ValuesCovered'
  <2>1. ASSUME NEW f \in fills', ~f.stale PROVE f.value <= Bound
    <3>1. CASE \E b \in UserBalances(r) : QueueSetBalance(r, "check", b)
      BY <1>5, <2>1, <3>1, FillCovered
    <3>2. CASE UNCHANGED fills
      BY <1>5, <2>1, <3>2 DEF ValuesCovered
    <3>. QED BY <3>1, <3>2 DEF CheckBillingEligibility
  <2>. QED BY <1>2, <1>4, <1>5, <2>1 DEF ValuesCovered
<1>6. ASSUME EstimatesCovered PROVE EstimatesCovered'
  BY <1>2, <1>3, <1>6, EstimatesKept
<1>. QED BY <1>1, <1>2, <1>5, <1>6 DEF CoverInv

\* The read before the reservation.
LEMMA ReadCover ==
  ASSUME IInv, IInv', CostInv, CoverInv, NEW r \in Requests, ReadBalance(r)
  PROVE  CostInv' /\ CoverInv'
<1>1. /\ UNCHANGED <<balance, cached, task, cost, raced>>
      /\ pc' \in {[pc EXCEPT ![r] = "forward"], [pc EXCEPT ![r] = "reserve"]}
      /\ pc[r] = "read" /\ pc \in [Requests -> HandlerSteps]
  BY DEF ReadBalance, Goto, IInv, TypeOK
<1>2. task[r] = "none"
  BY <1>1 DEF IInv, RefInv
<1>3. \A s \in Requests \ {r} : amount'[s] = amount[s]
  BY DEF ReadBalance, IInv, TypeOK
<1>4. CostInv'
  BY <1>1, <1>2, <1>3 DEF CostInv
<1>5. SUFFICES ASSUME ~lapsed', ~raced' PROVE ValuesCovered' /\ EstimatesCovered'
  BY <1>4 DEF CoverInv
<1>6. PICK b \in UserBalances(r) :
        /\ QueueSetBalance(r, "read", b) /\ NoFault
        /\ seen' = [seen EXCEPT ![r] = b.value]
        /\ seenStale' = IF b.stale THEN seenStale \cup {r} ELSE seenStale
        /\ pc' = [pc EXCEPT ![r] = "reserve"]
  BY <1>5 DEF ReadBalance, Lapse, Goto
<1>7. ValuesCovered /\ EstimatesCovered
  BY <1>1, <1>5, <1>6 DEF CoverInv, NoFault
<1>8. Outstanding' = Outstanding /\ Unsynced' = Unsynced /\ r \notin Outstanding
  BY <1>1, <1>2, <1>6 DEF Outstanding, Unsynced
<1>9. Bound' = Bound
  BY <1>1, <1>8, BoundSame
<1>10. EstimatesCovered'
  <2>1. \A s \in Outstanding' : amount'[s] = amount[s]
    BY <1>3, <1>8 DEF Outstanding
  <2>. QED BY <1>1, <1>7, <1>8, <2>1, EstimatesKept
<1>11. \A f \in fills' : ~f.stale => f.value <= Bound
  BY <1>6, <1>7, FillCovered
<1>12. ASSUME NEW s \in Requests, pc'[s] = "reserve", s \notin seenStale' PROVE seen'[s] <= Bound
  <2>1. CASE s = r
    <3>1. ~b.stale /\ seen'[r] = b.value
      BY <1>6, <1>12, <2>1 DEF IInv, TypeOK
    <3>. QED BY <1>7, <2>1, <3>1, BalanceCovered
  <2>2. CASE s # r
    BY <1>1, <1>6, <1>7, <1>12, <2>2 DEF ValuesCovered, IInv, TypeOK
  <2>. QED BY <2>1, <2>2
<1>13. ValuesCovered'
  BY <1>1, <1>7, <1>9, <1>11, <1>12 DEF ValuesCovered
<1>. QED BY <1>10, <1>13

\* The reservation: the script adds up the reservations of all outstanding requests and of
\* those whose charge is on its way, so what it lets pass is left in the balance.
LEMMA ReserveCover ==
  ASSUME IInv, IInv', CostInv, CoverInv, NEW r \in Requests, ReserveInflight(r)
  PROVE  CostInv' /\ CoverInv'
<1>1. /\ UNCHANGED <<balance, cached, fills, deducts, amount, task, cost>>
      /\ pc' \in {[pc EXCEPT ![r] = "forward"], [pc EXCEPT ![r] = "done"]}
      /\ pc[r] = "reserve" /\ pc \in [Requests -> HandlerSteps]
      /\ seenStale' = seenStale \ {r} /\ seen' = [seen EXCEPT ![r] = 0]
  BY DEF ReserveInflight, Goto, cacheVars, IInv, TypeOK
<1>2. task[r] = "none"
  BY <1>1 DEF IInv, RefInv
<1>3. CostInv'
  BY <1>1 DEF CostInv
<1>4. SUFFICES ASSUME ~lapsed', ~raced' PROVE ValuesCovered' /\ EstimatesCovered'
  BY <1>3 DEF CoverInv
<1>5. ~lapsed /\ ~raced
  <2>1. raced' = raced \/ raced' = (raced \/ r \in seenStale)
    BY DEF ReserveInflight
  <2>2. ~raced
    BY <1>4, <2>1, Zenon
  <2>3. ~lapsed
    BY <1>4 DEF ReserveInflight, NoFault, Lapse
  <2>. QED BY <2>2, <2>3
<1>6. ValuesCovered /\ EstimatesCovered
  BY <1>5 DEF CoverInv
<1>7. Unsynced' = Unsynced
  BY <1>1 DEF Unsynced
<1>8. Bound' = Bound
  BY <1>1, <1>7, BoundSame
<1>9. ValuesCovered'
  BY <1>1, <1>6, <1>8 DEF ValuesCovered, IInv, TypeOK
<1>10. CASE pc' = [pc EXCEPT ![r] = "done"]
  <2>1. Outstanding' \subseteq Outstanding
    BY <1>1, <1>10 DEF Outstanding
  <2>2. EstimatesCovered'
    BY <1>1, <1>6, <2>1, EstimatesKept
  <2>. QED BY <1>9, <2>2
<1>11. CASE Allowed(r) /\ r \notin seenStale /\ pc' = [pc EXCEPT ![r] = "forward"]
  <2>1. Outstanding' = Outstanding \cup {r} /\ r \notin Outstanding
    BY <1>1, <1>2, <1>11 DEF Outstanding
  <2>2. Outstanding \cup Unsynced \subseteq held /\ held \subseteq Requests
    BY <1>5 DEF IInv, TypeOK, HeldUntilDeducted, Pending, Outstanding, Unsynced
  <2>3. CASE held = {}
    BY <2>1, <2>2, <2>3, <1>9 DEF EstimatesCovered
  <2>4. CASE held # {}
    <3>1. /\ IsFiniteSet(held) /\ IsFiniteSet(Outstanding) /\ IsFiniteSet(Unsynced)
          /\ \A s \in Requests : amount[s] \in Nat /\ cost[s] \in Nat
      BY <2>2, Sums
    <3>2. Outstanding \cap Unsynced = {} /\ Unsynced \subseteq Requests
      BY DEF Outstanding, Unsynced, IInv, RefInv
    <3>3. /\ Total(amount, held) \in Nat /\ Total(amount, Outstanding) \in Nat
          /\ Total(amount, Unsynced) \in Nat /\ Total(cost, Unsynced) \in Nat
          /\ amount[r] \in Nat /\ seen[r] \in Int /\ balance \in Int
      <4>1. /\ held \in SUBSET Requests /\ Outstanding \in SUBSET Requests
            /\ Unsynced \in SUBSET Requests
        BY <2>2
      <4>. QED BY <3>1, <4>1, Sums DEF IInv, TypeOK
    <3>4. Total(amount, Outstanding) + Total(amount, Unsynced) <= Total(amount, held)
      <4>1. IsFiniteSet(Outstanding \cup Unsynced)
        BY <2>2, <3>1, FS_Subset
      <4>2. Total(amount, Outstanding \cup Unsynced) <= Total(amount, held)
        BY <2>2, <3>1, <4>1, TotalMono
      <4>3. Total(amount, Outstanding \cup Unsynced)
              = Total(amount, Outstanding) + Total(amount, Unsynced)
        BY <2>2, <3>1, <3>2, TotalUnion
      <4>. QED BY <4>2, <4>3
    <3>5. Total(cost, Unsynced) <= Total(amount, Unsynced)
      <4>1. \A s \in Unsynced : cost[s] \in Nat /\ amount[s] \in Nat /\ cost[s] <= amount[s]
        BY <3>1, <3>2 DEF CostInv, Unsynced
      <4>. QED BY <3>1, <4>1, TotalMono
    <3>6. seen[r] - Total(amount, held) >= amount[r]
      BY <1>11, <2>4 DEF Allowed, InflightSum
    <3>7. seen[r] <= balance + Total(cost, Unsynced)
      BY <1>1, <1>6, <1>11 DEF ValuesCovered, Bound
    <3>8. Total(amount, Outstanding \cup {r}) = Total(amount, Outstanding) + amount[r]
      BY <2>1, <2>2, <3>1, TotalAdd
    <3>9. Total(amount, Outstanding \cup {r}) <= balance
      BY <3>3, <3>4, <3>5, <3>6, <3>7, <3>8
    <3>10. EstimatesCovered'
      BY <1>1, <2>1, <3>9 DEF EstimatesCovered
    <3>. QED BY <1>9, <3>10
  <2>. QED BY <2>3, <2>4
<1>. QED BY <1>4, <1>10, <1>11 DEF ReserveInflight, Goto, Lapse

\* A step that neither touches a balance nor admits or charges anybody.
LEMMA QuietCover ==
  ASSUME IInv, IInv', CostInv, CoverInv,
         UNCHANGED <<balance, cached, fills, amount, seen, raced>>,
         lapsed => lapsed', Outstanding' \subseteq Outstanding,
         ~lapsed' => Unsynced' = Unsynced, \A s \in Unsynced : cost'[s] = cost[s],
         \A s \in Requests : task'[s] # "none" => cost'[s] <= amount[s],
         \A s \in Requests : pc'[s] = "reserve" /\ s \notin seenStale'
           => pc[s] = "reserve" /\ s \notin seenStale
  PROVE  CostInv' /\ CoverInv'
<1>1. CostInv'
  BY DEF CostInv
<1>2. SUFFICES ASSUME ~lapsed', ~raced' PROVE ValuesCovered' /\ EstimatesCovered'
  BY <1>1 DEF CoverInv
<1>3. ValuesCovered /\ EstimatesCovered
  BY <1>2 DEF CoverInv
<1>4. Bound' = Bound
  BY <1>2, BoundSame
<1>5. ValuesCovered'
  BY <1>3, <1>4 DEF ValuesCovered
<1>6. EstimatesCovered'
  BY <1>3, EstimatesKept
<1>. QED BY <1>5, <1>6

\* The task is submitted with a charge of at most the estimate.
LEMMA SubmitCover ==
  ASSUME IInv, IInv', CostInv, CoverInv, NEW r \in Requests, SubmitUsageRecordTask(r)
  PROVE  CostInv' /\ CoverInv'
<1>1. PICK actual \in 1..amount[r] : cost' = [cost EXCEPT ![r] = actual]
  BY DEF SubmitUsageRecordTask
<1>2. /\ UNCHANGED <<balance, cached, fills, amount, seen, raced, lapsed, seenStale>>
      /\ pc' = [pc EXCEPT ![r] = "return"] /\ task' = [task EXCEPT ![r] = "charge"]
      /\ pc[r] = "forward" /\ pc \in [Requests -> HandlerSteps]
      /\ task \in [Requests -> TaskSteps] /\ cost \in [Requests -> Nat]
  BY DEF SubmitUsageRecordTask, Goto, TaskGoto, cacheVars, IInv, TypeOK
<1>3. task[r] = "none"
  BY <1>2 DEF IInv, RefInv
<1>4. amount[r] \in Nat
  <2>1. Requests \in SUBSET Requests
    OBVIOUS
  <2>. QED BY <2>1, Sums
<1>5. Outstanding' \subseteq Outstanding /\ Unsynced' = Unsynced /\ r \notin Unsynced
  BY <1>2, <1>3 DEF Outstanding, Unsynced
<1>6. \A s \in Unsynced : cost'[s] = cost[s]
  BY <1>1, <1>2, <1>5 DEF Unsynced
<1>7. \A s \in Requests : task'[s] # "none" => cost'[s] <= amount[s]
  BY <1>1, <1>2, <1>4 DEF CostInv
<1>8. \A s \in Requests : pc'[s] = "reserve" /\ s \notin seenStale'
        => pc[s] = "reserve" /\ s \notin seenStale
  BY <1>2
<1>. QED BY <1>2, <1>5, <1>6, <1>7, <1>8, QuietCover

\* The other steps of handler, task and reservation that touch no balance.
LEMMA OtherCover ==
  ASSUME IInv, IInv', CostInv, CoverInv, NEW r \in Requests,
         \/ DropUsageRecordTask(r) \/ HandlerDone(r) \/ FinishTask(r)
         \/ Expire(r) \/ Crash(r)
  PROVE  CostInv' /\ CoverInv'
<1>1. pc \in [Requests -> HandlerSteps] /\ task \in [Requests -> TaskSteps]
  BY DEF IInv, TypeOK
<1>2. /\ UNCHANGED <<balance, cached, fills, amount, seen, raced, cost>>
      /\ lapsed => lapsed'
      /\ pc' \in {pc, [pc EXCEPT ![r] = "return"], [pc EXCEPT ![r] = "done"]}
      /\ task' \in {task, [task EXCEPT ![r] = "none"]}
      /\ task' # task /\ ~lapsed' => task[r] \notin {"deduct", "invalidate"}
      /\ \/ seenStale' = seenStale
         \/ seenStale' = seenStale \ {r} /\ pc' = [pc EXCEPT ![r] = "done"]
  <2>1. CASE DropUsageRecordTask(r)
    BY <2>1 DEF DropUsageRecordTask, Goto, cacheVars
  <2>2. CASE HandlerDone(r)
    BY <2>2 DEF HandlerDone, Goto, cacheVars
  <2>3. CASE FinishTask(r)
    BY <2>3 DEF FinishTask, TaskGoto, cacheVars
  <2>4. CASE Expire(r)
    BY <2>4 DEF Expire, NoFault, Lapse, cacheVars
  <2>5. CASE Crash(r)
    <3>1. lapsed' = (lapsed \/ task[r] \in {"deduct", "invalidate"})
      BY <2>5 DEF Crash
    <3>2. (lapsed => lapsed') /\ (~lapsed' => task[r] \notin {"deduct", "invalidate"})
      BY <3>1, Zenon
    <3>3. /\ UNCHANGED <<balance, cached, fills, amount, seen, raced, cost>>
          /\ pc' = [pc EXCEPT ![r] = "done"] /\ task' = [task EXCEPT ![r] = "none"]
          /\ seenStale' = seenStale \ {r}
      BY <2>5 DEF Crash, Goto, TaskGoto
    <3>. QED BY <3>2, <3>3
  <2>. QED BY <2>1, <2>2, <2>3, <2>4, <2>5
<1>3. Outstanding' \subseteq Outstanding
  BY <1>1, <1>2 DEF Outstanding
<1>4. ~lapsed' => Unsynced' = Unsynced
  BY <1>1, <1>2 DEF Unsynced
<1>5. \A s \in Requests : task'[s] # "none" => cost'[s] <= amount[s]
  BY <1>1, <1>2 DEF CostInv
<1>6. \A s \in Requests : pc'[s] = "reserve" /\ s \notin seenStale'
        => pc[s] = "reserve" /\ s \notin seenStale
  BY <1>1, <1>2
<1>. QED BY <1>2, <1>3, <1>4, <1>5, <1>6, QuietCover

\* The charge leaves the balance and joins those on their way to the cache; the estimate
\* it was admitted with is no longer outstanding.
LEMMA ApplyCover ==
  ASSUME IInv, IInv', CostInv, CoverInv, NEW r \in Requests, ApplyUsageBilling(r)
  PROVE  CostInv' /\ CoverInv'
<1>1. /\ UNCHANGED <<cached, fills, amount, seen, raced, lapsed, cost, pc, seenStale>>
      /\ task[r] = "charge" /\ task \in [Requests -> TaskSteps]
  BY DEF ApplyUsageBilling, cacheVars, IInv, TypeOK
<1>2. CASE UNCHANGED balance /\ task' = [task EXCEPT ![r] = "finish"]
  <2>1. Outstanding' \subseteq Outstanding /\ Unsynced' = Unsynced
    BY <1>1, <1>2 DEF Outstanding, Unsynced
  <2>2. \A s \in Requests : task'[s] # "none" => cost'[s] <= amount[s]
    BY <1>1, <1>2 DEF CostInv
  <2>. QED BY <1>1, <1>2, <2>1, <2>2, QuietCover
<1>3. CASE /\ balance' = balance - cost[r]
           /\ task' \in {[task EXCEPT ![r] = "invalidate"], [task EXCEPT ![r] = "deduct"]}
  <2>1. CostInv'
    BY <1>1, <1>3 DEF CostInv
  <2>2. SUFFICES ASSUME ~lapsed, ~raced PROVE ValuesCovered' /\ EstimatesCovered'
    BY <1>1, <2>1 DEF CoverInv
  <2>3. ValuesCovered /\ EstimatesCovered
    BY <2>2 DEF CoverInv
  <2>4. /\ Unsynced' = Unsynced \cup {r} /\ r \notin Unsynced
        /\ r \in Outstanding /\ Outstanding' = Outstanding \ {r}
    <3>1. pc[r] # "forward"
      BY <1>1 DEF IInv, RefInv
    <3>. QED BY <1>1, <1>3, <3>1 DEF Outstanding, Unsynced
  <2>5. /\ Unsynced \in SUBSET Requests /\ Outstanding' \in SUBSET Requests
        /\ Outstanding \in SUBSET Requests
    BY DEF Unsynced, Outstanding
  <2>6. /\ IsFiniteSet(Unsynced) /\ IsFiniteSet(Outstanding')
        /\ \A s \in Requests : amount[s] \in Nat /\ cost[s] \in Nat
        /\ Total(cost, Unsynced) \in Nat /\ Total(amount, Outstanding') \in Nat
        /\ balance \in Int /\ cost[r] \in Nat /\ amount[r] \in Nat
    BY <2>5, Sums DEF IInv, TypeOK
  <2>7. Bound' = Bound
    <3>1. Total(cost, Unsynced \cup {r}) = Total(cost, Unsynced) + cost[r]
      BY <2>4, <2>5, <2>6, TotalAdd
    <3>2. Total(cost, Unsynced)' = Total(cost, Unsynced \cup {r})
      BY <1>1, <2>4
    <3>. QED BY <1>3, <2>6, <3>1, <3>2 DEF Bound
  <2>8. ValuesCovered'
    BY <1>1, <2>3, <2>7 DEF ValuesCovered
  <2>9. CASE \A s, t \in Outstanding : s = t
    BY <2>4, <2>8, <2>9 DEF EstimatesCovered
  <2>10. CASE Total(amount, Outstanding) <= balance
    <3>1. Total(amount, Outstanding' \cup {r}) = Total(amount, Outstanding') + amount[r]
      BY <2>4, <2>5, <2>6, TotalAdd
    <3>2. Total(amount, Outstanding) = Total(amount, Outstanding') + amount[r]
      <4>1. Outstanding' \cup {r} = Outstanding
        BY <2>4
      <4>. QED BY <3>1, <4>1
    <3>3. cost[r] <= amount[r]
      BY <1>1 DEF CostInv
    <3>4. Total(amount, Outstanding') <= balance - cost[r]
      BY <2>6, <2>10, <3>2, <3>3
    <3>5. EstimatesCovered'
      BY <1>1, <1>3, <3>4 DEF EstimatesCovered
    <3>. QED BY <2>8, <3>5
  <2>. QED BY <2>3, <2>9, <2>10 DEF EstimatesCovered
<1>. QED BY <1>2, <1>3 DEF ApplyUsageBilling, TaskGoto

\* The charge reaches the cache: it is taken off the cached balance, and every other
\* balance that was read before is stale from now on.
LEMMA SyncCover ==
  ASSUME IInv, IInv', CostInv, CoverInv, NEW r \in Requests, SyncBalanceCache(r)
  PROVE  CostInv' /\ CoverInv'
<1>1. /\ UNCHANGED <<balance, pc, amount, seen, cost, raced>>
      /\ task[r] \in {"deduct", "invalidate"} /\ task \in [Requests -> TaskSteps]
      /\ task' = [task EXCEPT ![r] = "finish"]
  BY DEF SyncBalanceCache, TaskGoto, IInv, TypeOK
<1>2. CostInv'
  BY <1>1 DEF CostInv
<1>3. SUFFICES ASSUME ~lapsed', ~raced' PROVE ValuesCovered' /\ EstimatesCovered'
  BY <1>2 DEF CoverInv
<1>4. MarkStale /\ Synced(r) /\ ~lapsed
  BY <1>3 DEF SyncBalanceCache, Lapse, NoFault
<1>5. ValuesCovered /\ EstimatesCovered
  BY <1>1, <1>3, <1>4 DEF CoverInv
<1>6. /\ Unsynced = Unsynced' \cup {r} /\ r \notin Unsynced' /\ Unsynced' \in SUBSET Requests
      /\ Outstanding' \subseteq Outstanding
  BY <1>1 DEF Unsynced, Outstanding
<1>7. Bound = Bound' + cost[r] /\ cost[r] \in Nat /\ Bound' \in Int
  <2>1. /\ IsFiniteSet(Unsynced') /\ \A s \in Unsynced' : cost[s] \in Nat
        /\ Total(cost, Unsynced') \in Nat
    BY <1>6, Sums
  <2>2. cost[r] \in Nat /\ balance \in Int
    BY DEF IInv, TypeOK
  <2>3. Total(cost, Unsynced' \cup {r}) = Total(cost, Unsynced') + cost[r]
    BY <1>6, <2>1, <2>2, TotalAdd
  <2>4. Total(cost, Unsynced) = Total(cost, Unsynced') + cost[r]
    BY <1>6, <2>3
  <2>. QED BY <1>1, <2>1, <2>2, <2>4 DEF Bound
<1>8. cached' # Absent => cached' <= Bound'
  BY <1>4, <1>5, <1>7 DEF Synced, DeductUserBalance, ValuesCovered, IInv, TypeOK
<1>9. \A f \in fills' : f.stale
  BY <1>4 DEF MarkStale, IInv, TypeOK
<1>10. \A s \in Requests : pc'[s] = "reserve" => s \in seenStale'
  BY <1>1, <1>4 DEF MarkStale
<1>11. ValuesCovered'
  BY <1>8, <1>9, <1>10 DEF ValuesCovered
<1>12. EstimatesCovered'
  BY <1>1, <1>5, <1>6, EstimatesKept
<1>. QED BY <1>11, <1>12

\* The cache-write workers and the expiry of the cached balance.
LEMMA CacheCover ==
  ASSUME IInv, IInv', CostInv, CoverInv, CacheStep
  PROVE  CostInv' /\ CoverInv'
<1>1. UNCHANGED <<balance, pc, amount, seen, seenStale, task, cost, lapsed>> /\ fills' \subseteq fills
  BY DEF CacheStep, CacheWriteSetBalance, CacheWriteDeductBalance, Evict
<1>2. CostInv'
  BY <1>1 DEF CostInv
<1>3. SUFFICES ASSUME ~lapsed, ~raced' PROVE ValuesCovered' /\ EstimatesCovered'
  BY <1>1, <1>2 DEF CoverInv
<1>4. raced' = raced \/ \E f \in fills : raced' = (raced \/ f.stale)
  BY DEF CacheStep, CacheWriteSetBalance, CacheWriteDeductBalance, Evict
<1>5. ~raced
  BY <1>3, <1>4, Zenon
<1>6. ValuesCovered /\ EstimatesCovered
  BY <1>3, <1>5 DEF CoverInv
<1>7. Outstanding' = Outstanding /\ Unsynced' = Unsynced
  BY <1>1 DEF Outstanding, Unsynced
<1>8. Bound' = Bound /\ Bound \in Int
  BY <1>1, <1>7, BoundSame, BoundType
<1>9. EstimatesCovered'
  BY <1>1, <1>6, <1>7, EstimatesKept
<1>10. cached' # Absent => cached' <= Bound
  <2>1. ASSUME NEW f \in fills, CacheWriteSetBalance(f) PROVE cached' # Absent => cached' <= Bound
    <3>1. CASE UNCHANGED cached
      BY <1>6, <3>1 DEF ValuesCovered
    <3>2. CASE cached' = f.value /\ raced' = (raced \/ f.stale)
      <4>1. ~f.stale
        BY <1>3, <3>2, Zenon
      <4>. QED BY <1>6, <3>2, <4>1 DEF ValuesCovered
    <3>. QED BY <2>1, <3>1, <3>2 DEF CacheWriteSetBalance
  <2>2. ASSUME NEW r \in deducts, CacheWriteDeductBalance(r)
        PROVE  cached' # Absent => cached' <= Bound
    <3>1. cost[r] \in Nat /\ cached \in Int \cup {Absent}
      BY DEF IInv, TypeOK
    <3>. QED BY <1>6, <1>8, <2>2, <3>1
                DEF CacheWriteDeductBalance, DeductUserBalance, ValuesCovered
  <2>3. CASE Evict
    BY <2>3 DEF Evict
  <2>. QED BY <2>1, <2>2, <2>3 DEF CacheStep
<1>11. ValuesCovered'
  BY <1>1, <1>6, <1>8, <1>10 DEF ValuesCovered
<1>. QED BY <1>9, <1>11

\* Every step keeps balances and estimates covered.
LEMMA NextCover == IInv /\ IInv' /\ CostInv /\ CoverInv /\ [Next]_vars => CostInv' /\ CoverInv'
<1> SUFFICES ASSUME IInv, IInv', CostInv, CoverInv, [Next]_vars PROVE CostInv' /\ CoverInv'
  OBVIOUS
<1>1. ASSUME NEW r \in Requests, HandlerStep(r) PROVE CostInv' /\ CoverInv'
  BY <1>1, CheckCover, ReadCover, ReserveCover, SubmitCover, OtherCover DEF HandlerStep
<1>2. ASSUME NEW r \in Requests, TaskStep(r) PROVE CostInv' /\ CoverInv'
  BY <1>2, ApplyCover, SyncCover, OtherCover DEF TaskStep
<1>3. ASSUME NEW r \in Requests, Expire(r) \/ Crash(r) PROVE CostInv' /\ CoverInv'
  BY <1>3, OtherCover
<1>4. CASE UNCHANGED vars
  <2>1. UNCHANGED <<balance, cached, fills, amount, seen, raced, lapsed, pc, task, cost, seenStale>>
    BY <1>4 DEF vars
  <2>2. Outstanding' = Outstanding /\ Unsynced' = Unsynced
    BY <2>1 DEF Outstanding, Unsynced
  <2>3. \A s \in Requests : task'[s] # "none" => cost'[s] <= amount[s]
    BY <2>1 DEF CostInv
  <2>. QED BY <2>1, <2>2, <2>3, QuietCover
<1>. QED BY <1>1, <1>2, <1>3, <1>4, CacheCover DEF Next

\* At the beginning nobody is outstanding and no balance has been read.
LEMMA InitCover == Init => CostInv /\ CoverInv
BY DEF Init, CostInv, CoverInv, ValuesCovered, EstimatesCovered, Outstanding

\* What the reservation is for: through crashes, lost bills, failing releases and evictions,
\* the estimates of two or more outstanding requests are covered by the balance, unless
\* somebody went on without a reservation or a balance read before a charge was used after it.
THEOREM NobodyOverdraws == Spec => []NoJointOverdraft
<1>1. IInv /\ CoverInv => NoJointOverdraft
  <2> SUFFICES ASSUME IInv, CoverInv, ~lapsed, ~raced, \A r, s \in Outstanding : r = s
               PROVE  Cardinality(Outstanding) <= 1
    BY DEF CoverInv, EstimatesCovered, NoJointOverdraft
  <2>1. CASE Outstanding = {}
    BY <2>1, FS_EmptySet
  <2>2. CASE \E r \in Outstanding : Outstanding = {r}
    BY <2>2, FS_Singleton
  <2>. QED BY <2>1, <2>2
<1>2. Spec => [](CostInv /\ CoverInv)
  BY InitCover, NextCover, Invariance, PTL DEF Spec
<1>. QED BY <1>1, <1>2, Invariance, PTL

=============================================================================
