------------------------- MODULE InflightReservation -------------------------
(***************************************************************************)
(* Admission and billing of the requests of one user in balance mode:      *)
(* the balance cache (service/billing_cache_service.go), the in-flight     *)
(* reservations in Redis (service/billing_inflight_reservation.go,         *)
(* repository/billing_inflight_cache.go), the handler that owns a          *)
(* reservation and the asynchronous billing task that takes it over        *)
(* (handler/gateway_inflight_reservation.go, gateway_handler.go,           *)
(* service/gateway_usage_billing.go).                                      *)
(*                                                                         *)
(* Every Redis script, every statement on the users row and every task of  *)
(* the cache-write workers is one step.  There is no clock: a reservation  *)
(* that nobody renews may expire at any moment, one that is renewed only   *)
(* after failing renewals.  A charge is at most the estimate: that the     *)
(* estimate is conservative is what the reservation relies on.             *)
(***************************************************************************)
EXTENDS Integers, FiniteSets

CONSTANTS
  Requests,    \* the requests of the user; each is one uuid
  Estimates,   \* the estimates a request may have
  Opening,     \* the balance at the beginning
  Absent,      \* no cached balance
  QueueSize,   \* cache-write tasks that may be queued or under way
  MaxFaults    \* bound on failing calls, crashes and early expiries

ASSUME RequestsAssumption == IsFiniteSet(Requests)
ASSUME EstimatesAssumption == Estimates \subseteq Nat \ {0}
ASSUME OpeningAssumption == Opening \in Int
ASSUME AbsentAssumption == Absent \notin Int
ASSUME QueueSizeAssumption == QueueSize \in Nat
ASSUME MaxFaultsAssumption == MaxFaults \in Nat

VARIABLES
  balance,    \* users.balance
  cached,     \* billing:balance:<user> in Redis
  fills,      \* cacheWriteSetBalance tasks: [by, step, value, stale]
  deducts,    \* requests whose cacheWriteDeductBalance task is queued
  held,       \* members of billing:inflight:{user}
  pc,         \* the handler of each request
  amount,     \* its estimate
  seen,       \* the balance it read for its reservation
  seenStale,  \* history: requests whose balance was read before a charge reached the cache
  refs,       \* InflightReservation.refs
  renewing,   \* requests whose renewal goroutine runs
  task,       \* its billing task
  cost,       \* ActualCost of the task
  raced,      \* history: such a stale balance was used for a reservation or put in the cache
  lapsed,     \* history: a request went on without its reservation, or a charge missed the cache
  faults

cacheVars == <<cached, fills, deducts>>
ownerVars == <<held, refs, renewing>>
vars == <<balance, cached, fills, deducts, held, pc, amount, seen, seenStale, refs, renewing,
          task, cost, raced, lapsed, faults>>

\* Handler: "check" CheckBillingEligibility, "read" and "reserve" ReserveInflight,
\* "forward" the upstream call, "return" the deferred HandlerDone.
HandlerSteps == {"check", "read", "reserve", "forward", "return", "done"}

\* Task: "charge" applyUsageBilling, "deduct" or "invalidate" the cached balance,
\* "finish" the deferred done().
TaskSteps == {"none", "charge", "deduct", "invalidate", "finish"}

Init ==
  /\ balance = Opening /\ cached = Absent /\ fills = {} /\ deducts = {}
  /\ held = {}
  /\ pc = [r \in Requests |-> "check"]
  /\ amount = [r \in Requests |-> 0]
  /\ seen = [r \in Requests |-> 0]
  /\ seenStale = {}
  /\ refs = [r \in Requests |-> 0]
  /\ renewing = {}
  /\ task = [r \in Requests |-> "none"]
  /\ cost = [r \in Requests |-> 0]
  /\ raced = FALSE /\ lapsed = FALSE /\ faults = 0

-----------------------------------------------------------------------------
Fault == faults < MaxFaults /\ faults' = faults + 1

Lapse == Fault /\ lapsed' = TRUE

NoFault == UNCHANGED <<lapsed, faults>>

Goto(r, step) == pc' = [pc EXCEPT ![r] = step]

TaskGoto(r, step) == task' = [task EXCEPT ![r] = step]

QueueHasRoom == Cardinality(fills) + Cardinality(deducts) < QueueSize

\* The loads of GetUserBalance that another call may still join (singleflight): the
\* one who loads has not gone on.
JoinableLoads(r) ==
  {f \in fills : f.by # r /\ pc[f.by] = (IF f.step = "check" THEN "read" ELSE "reserve")}

\* What GetUserBalance may return: the cached balance; the users row after a miss,
\* perhaps of a moment ago, or an error of Redis; the load of another call.
UserBalances(r) ==
  {[value |-> c, stale |-> FALSE, load |-> FALSE] : c \in {cached} \ {Absent}}
    \cup {[value |-> balance, stale |-> FALSE, load |-> TRUE]}
    \cup {[value |-> f.value, stale |-> f.stale, load |-> FALSE] : f \in JoinableLoads(r)}

\* A load also queues the balance for the cache; a full queue drops the task.
QueueSetBalance(r, step, b) ==
  fills' = IF b.load /\ QueueHasRoom
             THEN fills \cup {[by |-> r, step |-> step, value |-> b.value, stale |-> FALSE]}
             ELSE fills

BelowEligibilityThreshold(value) == value <= 0

CheckBillingEligibility(r) ==
  /\ pc[r] = "check"
  /\ \/ \E b \in UserBalances(r) :
          /\ QueueSetBalance(r, "check", b) /\ UNCHANGED faults
          /\ Goto(r, IF BelowEligibilityThreshold(b.value) THEN "done" ELSE "read")
     \/ Fault /\ Goto(r, "done") /\ UNCHANGED fills
  /\ UNCHANGED <<balance, cached, deducts, ownerVars, amount, seen, seenStale, task, cost, raced,
                 lapsed>>

\* The estimate, and the balance the reservation will be compared with.  When
\* that cannot be read the request goes on without a reservation.
ReadBalance(r) ==
  /\ pc[r] = "read"
  /\ \E estimate \in Estimates : amount' = [amount EXCEPT ![r] = estimate]
  /\ \/ \E b \in UserBalances(r) :
          /\ QueueSetBalance(r, "read", b) /\ NoFault
          /\ seen' = [seen EXCEPT ![r] = b.value]
          /\ seenStale' = IF b.stale THEN seenStale \cup {r} ELSE seenStale
          /\ Goto(r, "reserve")
     \/ Lapse /\ Goto(r, "forward") /\ UNCHANGED <<fills, seen, seenStale>>
  /\ UNCHANGED <<balance, cached, deducts, ownerVars, task, cost, raced>>

\* The sum of what f gives the members of S, counted unit by unit: a cardinality,
\* which proofs can reason about.
Units(f, S) == UNION {{s} \X (1..f[s]) : s \in S}

Total(f, S) == Cardinality(Units(f, S))

InflightSum == Total(amount, held)

\* Mutant: reservations of other requests are not added up.
AllowedAlone(r) == held = {} \/ seen[r] >= amount[r]

\* The test of reserveInflightBalanceScript: the first reservation always passes.
Allowed(r) == held = {} \/ seen[r] - InflightSum >= amount[r]

\* The script registers the reservation; the handle starts with the handler's
\* reference and its renewal goroutine.
ReserveInflight(r) ==
  /\ pc[r] = "reserve"
  /\ \/ /\ Allowed(r) /\ NoFault
        /\ held' = held \cup {r} /\ refs' = [refs EXCEPT ![r] = 1]
        /\ renewing' = renewing \cup {r}
        /\ raced' = (raced \/ r \in seenStale)
        /\ Goto(r, "forward")
     \/ /\ ~Allowed(r) /\ Goto(r, "done")
        /\ UNCHANGED <<ownerVars, raced>> /\ NoFault
     \/ /\ Lapse /\ Goto(r, "forward")   \* an error: fail open; Redis may have registered it
        /\ \/ UNCHANGED held
           \/ Allowed(r) /\ held' = held \cup {r}
        /\ UNCHANGED <<refs, renewing, raced>>
  /\ seenStale' = seenStale \ {r} /\ seen' = [seen EXCEPT ![r] = 0]
  /\ UNCHANGED <<balance, cacheVars, amount, task, cost>>

-----------------------------------------------------------------------------
\* decRef: the last reference releases the reservation; a failing release leaves
\* it to its time to live.
DecRef(r) ==
  /\ refs' = [refs EXCEPT ![r] = @ - 1]
  /\ IF refs[r] # 1 THEN UNCHANGED <<held, faults>>
     ELSE \/ held' = held \ {r} /\ UNCHANGED faults
          \/ Fault /\ UNCHANGED held

\* done() of a task: a no-op without a reservation.
Done(r) == IF refs[r] = 0 THEN UNCHANGED <<held, refs, faults>> ELSE DecRef(r)

\* The upstream call gave usage, and the billing task takes a reference.  The
\* pool may run the task inline: then the handler just waits before it returns.
SubmitUsageRecordTask(r) ==
  /\ pc[r] = "forward"
  /\ \E actual \in 1..amount[r] : cost' = [cost EXCEPT ![r] = actual]
  /\ refs' = IF refs[r] = 0 THEN refs ELSE [refs EXCEPT ![r] = @ + 1]
  /\ TaskGoto(r, "charge") /\ Goto(r, "return")
  /\ UNCHANGED <<balance, cacheVars, held, renewing, amount, seen, seenStale, raced, lapsed, faults>>

\* Mutant: the dropped task keeps its reference.
DropUsageRecordTaskKeepsRef(r) ==
  /\ pc[r] = "forward"
  /\ refs' = IF refs[r] = 0 THEN refs ELSE [refs EXCEPT ![r] = @ + 1]
  /\ Goto(r, "return")
  /\ UNCHANGED <<balance, cacheVars, held, renewing, amount, seen, seenStale, task, cost, raced, lapsed,
                 faults>>

\* The upstream call failed and there is nothing to bill, or the overflow policy
\* drops the task: it takes its reference and abandon() returns it, while the
\* handler holds its own.
DropUsageRecordTask(r) ==
  /\ pc[r] = "forward" /\ Goto(r, "return")
  /\ UNCHANGED <<balance, cacheVars, ownerVars, amount, seen, seenStale, task, cost, raced, lapsed, faults>>

\* Mutant: the handler releases the reservation when it returns.
HandlerDoneReleases(r) ==
  /\ pc[r] = "return" /\ Goto(r, "done")
  /\ renewing' = renewing \ {r}
  /\ refs' = [refs EXCEPT ![r] = 0] /\ held' = held \ {r} /\ UNCHANGED faults
  /\ UNCHANGED <<balance, cacheVars, amount, seen, seenStale, task, cost, raced, lapsed>>

HandlerDone(r) ==
  /\ pc[r] = "return" /\ Goto(r, "done")
  /\ renewing' = renewing \ {r}
  /\ Done(r)
  /\ UNCHANGED <<balance, cacheVars, amount, seen, seenStale, task, cost, raced, lapsed>>

-----------------------------------------------------------------------------
\* repo.Apply: one transaction.  An error bills nothing and ends the task (a commit
\* whose answer is lost is left out).
ApplyUsageBilling(r) ==
  /\ task[r] = "charge"
  /\ \/ /\ balance' = balance - cost[r] /\ UNCHANGED faults
        /\ TaskGoto(r, IF BelowEligibilityThreshold(balance') THEN "invalidate" ELSE "deduct")
     \/ Fault /\ TaskGoto(r, "finish") /\ UNCHANGED balance
  /\ UNCHANGED <<cacheVars, ownerVars, pc, amount, seen, seenStale, cost, raced, lapsed>>

\* The script deducts only from a cached balance.
DeductUserBalance(r) == cached' = IF cached = Absent THEN Absent ELSE cached - cost[r]

\* History: what was read before this charge reached the cache is stale from now on.
MarkStale ==
  /\ seenStale' = seenStale \cup {s \in Requests : pc[s] = "reserve"}
  /\ fills' = {[f EXCEPT !.stale = TRUE] : f \in fills}

\* The cached balance once a charge has been taken off it, or it has been invalidated.
Synced(r) == IF task[r] = "invalidate" THEN cached' = Absent ELSE DeductUserBalance(r)

\* syncBalanceCacheAfterDeduction.  A failing deduction, which Redis may have done
\* all the same, falls back to the queue or, when that is full, to a second attempt;
\* a failing invalidation is given up.
SyncBalanceCache(r) ==
  /\ task[r] \in {"deduct", "invalidate"}
  /\ TaskGoto(r, "finish")
  /\ \/ MarkStale /\ Synced(r) /\ UNCHANGED deducts /\ NoFault
     \/ /\ Lapse /\ UNCHANGED <<fills, seenStale>>
        /\ Synced(r) \/ UNCHANGED cached
        /\ deducts' = IF task[r] = "deduct" /\ QueueHasRoom THEN deducts \cup {r} ELSE deducts
  /\ UNCHANGED <<balance, ownerVars, pc, amount, seen, cost, raced>>

FinishTask(r) ==
  /\ task[r] = "finish" /\ TaskGoto(r, "none")
  /\ Done(r)
  /\ UNCHANGED <<balance, cacheVars, pc, amount, seen, seenStale, renewing, cost, raced, lapsed>>

-----------------------------------------------------------------------------
\* The cache-write workers take tasks in any order; a write may fail or never
\* have been queued.
CacheWriteSetBalance(f) ==
  /\ fills' = fills \ {f}
  /\ \/ cached' = f.value /\ raced' = (raced \/ f.stale)
     \/ UNCHANGED <<cached, raced>>
  /\ UNCHANGED <<balance, deducts, ownerVars, pc, amount, seen, seenStale, task, cost, lapsed, faults>>

CacheWriteDeductBalance(r) ==
  /\ r \in deducts /\ deducts' = deducts \ {r}
  /\ DeductUserBalance(r)
  /\ UNCHANGED <<balance, fills, ownerVars, pc, amount, seen, seenStale, task, cost, raced, lapsed, faults>>

\* The cached balance expires, or another service invalidates it.
Evict ==
  /\ cached # Absent /\ cached' = Absent
  /\ UNCHANGED <<balance, fills, deducts, ownerVars, pc, amount, seen, seenStale, task, cost, raced,
                 lapsed, faults>>

\* The request may still be charged, or its charge has not reached the cache.
Pending(r) == task[r] \in {"charge", "deduct", "invalidate"} \/ pc[r] = "forward"

\* A reservation expires: harmless once it is of no use to anybody, after a fault
\* (failing renewals, a stuck task) otherwise.  A renewal that finds its
\* reservation gone stops.
Expire(r) ==
  /\ r \in held /\ held' = held \ {r}
  /\ renewing' = renewing \ {r}
  /\ IF Pending(r) \/ r \in renewing THEN Lapse ELSE NoFault
  /\ UNCHANGED <<balance, cacheVars, pc, amount, seen, seenStale, refs, task, cost, raced>>

\* The process dies: handler, task and handle are gone, the reservation is not.
\* After the charge and before the cache is told of it, the charge misses the cache.
Crash(r) ==
  /\ pc[r] # "done" \/ task[r] # "none"
  /\ Fault /\ lapsed' = (lapsed \/ task[r] \in {"deduct", "invalidate"})
  /\ Goto(r, "done") /\ TaskGoto(r, "none")
  /\ refs' = [refs EXCEPT ![r] = 0] /\ renewing' = renewing \ {r}
  /\ seenStale' = seenStale \ {r} /\ deducts' = deducts \ {r}
  /\ UNCHANGED <<balance, cached, fills, held, amount, seen, cost, raced>>

HandlerStep(r) ==
  \/ CheckBillingEligibility(r) \/ ReadBalance(r) \/ ReserveInflight(r)
  \/ SubmitUsageRecordTask(r) \/ DropUsageRecordTask(r) \/ HandlerDone(r)

TaskStep(r) == ApplyUsageBilling(r) \/ SyncBalanceCache(r) \/ FinishTask(r)

CacheStep ==
  \/ \E f \in fills : CacheWriteSetBalance(f)
  \/ \E r \in deducts : CacheWriteDeductBalance(r)
  \/ Evict

Next ==
  \/ CacheStep
  \/ \E r \in Requests : HandlerStep(r) \/ TaskStep(r) \/ Expire(r) \/ Crash(r)

Spec == Init /\ [][Next]_vars

-----------------------------------------------------------------------------
(* Properties *)

\* Every variable keeps its type.
TypeOK ==
  /\ balance \in Int /\ cached \in Int \cup {Absent}
  /\ fills \subseteq [by : Requests, step : {"check", "read"}, value : Int, stale : BOOLEAN]
  /\ deducts \subseteq Requests /\ held \subseteq Requests
  /\ pc \in [Requests -> HandlerSteps] /\ task \in [Requests -> TaskSteps]
  /\ amount \in [Requests -> Estimates \cup {0}] /\ seen \in [Requests -> Int]
  /\ cost \in [Requests -> Nat]
  /\ seenStale \subseteq Requests /\ renewing \subseteq Requests
  /\ refs \in [Requests -> 0..2]
  /\ raced \in BOOLEAN /\ lapsed \in BOOLEAN /\ faults \in 0..MaxFaults

\* The admitted requests that have not been charged.
Outstanding == {r \in Requests : pc[r] = "forward" \/ task[r] = "charge"}

\* What the reservation is for: requests do not overdraw the balance together.
\* Through crashes, lost bills, failing releases and evictions, the estimates of
\* two or more outstanding requests are covered by the balance, as long as nobody
\* went on without a reservation and no balance read before a charge was used
\* after it.
NoJointOverdraft ==
  ~lapsed /\ ~raced =>
    \/ Cardinality(Outstanding) <= 1
    \/ Total(amount, Outstanding) <= balance

\* "held until the async billing task has deducted the cached balance": from
\* admission until its charge has reached the cache a request's reservation is in
\* Redis, in whichever order the handler and the task end.
HeldUntilDeducted ==
  ~lapsed => \A r \in Requests : Pending(r) => r \in held

\* Released on every path: a request that has ended with its task has left no
\* reservation behind, unless a call failed or the process died.
NoLeakedReservation ==
  faults = 0 => \A r \in held : pc[r] # "done" \/ task[r] # "none"

=============================================================================
