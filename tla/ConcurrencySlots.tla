-------------------------- MODULE ConcurrencySlots --------------------------
(***************************************************************************)
(* The concurrency slots of one user: requests of several instances take a *)
(* slot or wait for one in a bounded queue (handler/gateway_helper.go,     *)
(* service/concurrency_service.go, repository/concurrency_cache.go), and   *)
(* an instance that starts sweeps what earlier processes left behind.  The *)
(* slots of an account go through the same scripts.                        *)
(*                                                                         *)
(* A slot is named by a fresh id; only the last attempt of a request can   *)
(* leave one, so the request stands for it.  A request runs while its      *)
(* client is there: wrapReleaseOnDone gives the slot back when it leaves.  *)
(* The active index (which users a sweep visits), the slots of API keys    *)
(* and live leases are left out.                                           *)
(***************************************************************************)
EXTENDS Naturals, FiniteSets

CONSTANTS
  Instances,
  MaxRequests,      \* bound on the requests
  MaxConcurrency,   \* the user's limit
  QueueLimit,       \* CalculateMaxWait(maxConcurrency) - maxConcurrency
  MaxFaults         \* bound on restarts and on calls that fail or are sent twice

ASSUME InstancesAssumption == Instances # {}
ASSUME LimitsAssumption ==
  MaxRequests \in Nat /\ MaxConcurrency \in Nat \ {0} /\ QueueLimit \in Nat \ {0} /\ MaxFaults \in Nat

VARIABLES
  slots,    \* concurrency:user: requests that have a slot
  wait,     \* concurrency:wait: the length of the queue as Redis counts it
  home,     \* the instance that serves the request, once it has started
  pc,       \* where the request is
  got,      \* it leaves the queue with a slot
  counted,  \* it is in the queue, and its entry keeps the counter alive
  node,     \* an instance serves, or sweeps while it starts
  drift,    \* history: how far wait may fall short of the queue
  gaps,     \* history: why more requests may run than have slots
  faults

slotVars == <<slots, wait>>
requestVars == <<pc, got, counted>>
vars == <<slotVars, home, requestVars, node, drift, gaps, faults>>

Requests == 1..MaxRequests

Gaps == {"outlived", "swept"}

Running == {r \in Requests : pc[r] = "running" \/ (pc[r] = "leave" /\ got[r])}
Queued == {r \in Requests : pc[r] \in {"wait", "leave"}}
Fault == faults < MaxFaults /\ faults' = faults + 1

Goto(r, step) == pc' = [pc EXCEPT ![r] = step]

\* Requests come in order; which is which does not matter.
MayStart(r, i) ==
  /\ pc[r] = "new" /\ (r > 1 => pc[r - 1] # "new")
  /\ node[i] = "up"
  /\ home' = [home EXCEPT ![r] = i]

Init ==
  /\ slots = {} /\ wait = 0
  /\ home = [r \in Requests |-> CHOOSE i \in Instances : TRUE]
  /\ pc = [r \in Requests |-> "new"]
  /\ got = [r \in Requests |-> FALSE]
  /\ counted = [r \in Requests |-> FALSE]
  /\ node = [i \in Instances |-> "up"]
  /\ drift = 0 /\ gaps = {} /\ faults = 0

-----------------------------------------------------------------------------
(* Slots: acquireUserSlotWithWaitTimeout and its waiting loop                *)

\* Mutant: one request too many.
FreeSlotOneMore == Cardinality(slots) <= MaxConcurrency

\* acquireScript
FreeSlot == Cardinality(slots) < MaxConcurrency

TryAcquire(r, i) ==
  /\ MayStart(r, i)
  /\ IF FreeSlot
     THEN slots' = slots \cup {r} /\ Goto(r, "running")
     ELSE UNCHANGED slots /\ Goto(r, "queue")
  /\ UNCHANGED <<wait, got, counted, node, drift, gaps, faults>>

\* The slot may be taken although the answer does not come; nobody releases it.
MayHaveTaken(r) == slots' \in {slots} \cup (IF FreeSlot THEN {slots \cup {r}} ELSE {})

TryAcquireFails(r, i) ==
  /\ MayStart(r, i) /\ Fault
  /\ MayHaveTaken(r)
  /\ Goto(r, "done")
  /\ UNCHANGED <<wait, got, counted, node, drift, gaps>>

Leave(r, withSlot) ==
  /\ Goto(r, "leave")
  /\ got' = [got EXCEPT ![r] = withSlot]

\* The waiting loop tries again from time to time.
Poll(r) ==
  /\ pc[r] = "wait" /\ FreeSlot
  /\ slots' = slots \cup {r}
  /\ Leave(r, TRUE)
  /\ UNCHANGED <<wait, home, counted, node, drift, gaps, faults>>

PollFails(r) ==
  /\ pc[r] = "wait" /\ Fault
  /\ MayHaveTaken(r)
  /\ Leave(r, FALSE)
  /\ UNCHANGED <<wait, home, counted, node, drift, gaps>>

\* Mutant: a request that gives up does not pass the decrement.
GiveUpSilently(r) ==
  /\ pc[r] = "wait"
  /\ Goto(r, "done")
  /\ UNCHANGED <<slotVars, home, got, counted, node, drift, gaps, faults>>

\* The timeout passes, the client leaves or a ping cannot be written.
GiveUp(r) ==
  /\ pc[r] = "wait"
  /\ Leave(r, FALSE)
  /\ UNCHANGED <<slotVars, home, counted, node, drift, gaps, faults>>

Release(r) ==
  /\ pc[r] = "running"
  /\ slots' = slots \ {r}
  /\ Goto(r, "done")
  /\ UNCHANGED <<wait, home, got, counted, node, drift, gaps, faults>>

\* The error is only logged.
ReleaseFails(r) ==
  /\ pc[r] = "running" /\ Fault
  /\ slots' \in {slots, slots \ {r}}
  /\ Goto(r, "done")
  /\ UNCHANGED <<wait, home, got, counted, node, drift, gaps>>

\* A slot is dropped after its time to live: one that was left behind, or one of a
\* request that takes longer than that.
SlotExpires(r) ==
  /\ r \in slots /\ pc[r] \in {"running", "done"}
  /\ slots' = slots \ {r}
  /\ gaps' = IF r \in Running THEN gaps \cup {"outlived"} ELSE gaps
  /\ UNCHANGED <<wait, home, requestVars, node, drift, faults>>

-----------------------------------------------------------------------------
(* The queue: IncrementWaitCount and DecrementWaitCount                      *)

\* Mutant: the counter is set, not raised.
IncrementSetsOne(r) ==
  /\ pc[r] = "queue"
  /\ IF wait < QueueLimit
     THEN /\ wait' = 1
          /\ Goto(r, "wait")
          /\ counted' = [counted EXCEPT ![r] = TRUE]
     ELSE Goto(r, "done") /\ UNCHANGED <<wait, counted>>
  /\ UNCHANGED <<slots, home, got, node, drift, gaps, faults>>

IncrementWaitCount(r) ==
  /\ pc[r] = "queue"
  /\ IF wait < QueueLimit
     THEN /\ wait' = wait + 1
          /\ Goto(r, "wait")
          /\ counted' = [counted EXCEPT ![r] = TRUE]
     ELSE Goto(r, "done") /\ UNCHANGED <<wait, counted>>
  /\ UNCHANGED <<slots, home, got, node, drift, gaps, faults>>

\* On an error the request waits all the same, counted or not.
IncrementFails(r) ==
  /\ pc[r] = "queue" /\ Fault
  /\ Goto(r, "wait")
  /\ \/ /\ wait < QueueLimit
        /\ wait' = wait + 1
        /\ counted' = [counted EXCEPT ![r] = TRUE]
        /\ UNCHANGED drift
     \/ /\ drift' = drift + 1
        /\ UNCHANGED <<wait, counted>>
  /\ UNCHANGED <<slots, home, got, node, gaps>>

\* The client sends the script again because the first answer was lost: the request is
\* counted twice, or counted and then turned away.
IncrementTwice(r) ==
  /\ pc[r] = "queue" /\ wait < QueueLimit /\ Fault
  /\ IF wait + 1 < QueueLimit
     THEN /\ wait' = wait + 2
          /\ Goto(r, "wait")
          /\ counted' = [counted EXCEPT ![r] = TRUE]
     ELSE wait' = wait + 1 /\ Goto(r, "done") /\ UNCHANGED counted
  /\ UNCHANGED <<slots, home, got, node, drift, gaps>>

Lowered(n) == IF wait > n THEN wait - n ELSE 0

AfterLeave(r) ==
  /\ Goto(r, IF got[r] THEN "running" ELSE "done")
  /\ got' = [got EXCEPT ![r] = FALSE]
  /\ counted' = [counted EXCEPT ![r] = FALSE]

\* The deferred call; the counter does not go below zero.
DecrementWaitCount(r) ==
  /\ pc[r] = "leave"
  /\ wait' = Lowered(1)
  /\ AfterLeave(r)
  /\ UNCHANGED <<slots, home, node, drift, gaps, faults>>

\* It is lost, which is only logged, or sent twice.
DecrementFails(r) ==
  /\ pc[r] = "leave" /\ Fault
  /\ AfterLeave(r)
  /\ \/ UNCHANGED <<wait, drift>>
     \/ wait' = Lowered(2) /\ drift' = drift + 1
  /\ UNCHANGED <<slots, home, node, gaps>>

\* Mutant: the counter has no time to live.
WaitNeverExpires ==
  /\ FALSE
  /\ UNCHANGED vars

\* The counter outlives every request that was counted in it by more than the longest
\* wait, since each increment renews its time to live; for how long nobody has been
\* counted is not recorded, so it may pass as soon as nobody counted waits.
WaitExpires ==
  /\ wait > 0
  /\ \A r \in Queued : ~counted[r]
  /\ wait' = 0
  /\ UNCHANGED <<slots, home, requestVars, node, drift, gaps, faults>>

-----------------------------------------------------------------------------
(* Restarts: CleanupStaleProcessSlots                                        *)

\* The process of an instance dies with its requests, and another one starts.
Restart(i) ==
  /\ node[i] = "up" /\ Fault
  /\ node' = [node EXCEPT ![i] = "sweepSlots"]
  /\ pc' = [r \in Requests |-> IF home[r] = i /\ pc[r] # "new" THEN "done" ELSE pc[r]]
  /\ got' = [r \in Requests |-> got[r] /\ home[r] # i]
  /\ counted' = [r \in Requests |-> counted[r] /\ home[r] # i]
  /\ UNCHANGED <<slotVars, home, drift, gaps>>

\* Every slot whose id has another process's prefix: all of them, since the new
\* process has not served a request yet.
SweepSlots(i) ==
  /\ node[i] = "sweepSlots"
  /\ slots' = {}
  /\ gaps' = IF slots \cap Running # {} THEN gaps \cup {"swept"} ELSE gaps
  /\ node' = [node EXCEPT ![i] = "sweepWait"]
  /\ UNCHANGED <<wait, home, requestVars, drift, faults>>

\* The counter goes too, whoever is counted in it.
SweepWait(i) ==
  /\ node[i] = "sweepWait"
  /\ wait' = 0
  /\ drift' = drift + Cardinality({r \in Queued : counted[r]})
  /\ counted' = [r \in Requests |-> FALSE]
  /\ node' = [node EXCEPT ![i] = "up"]
  /\ UNCHANGED <<slots, home, pc, got, gaps, faults>>

\* The sweep fails, which is only logged.
SweepFails(i) ==
  /\ node[i] # "up" /\ Fault
  /\ node' = [node EXCEPT ![i] = "up"]
  /\ UNCHANGED <<slotVars, home, requestVars, drift, gaps>>

-----------------------------------------------------------------------------
RequestStep(r) ==
  \/ IncrementWaitCount(r) \/ GiveUp(r) \/ DecrementWaitCount(r) \/ Release(r)

Next ==
  \/ \E r \in Requests :
       \/ \E i \in Instances : TryAcquire(r, i) \/ TryAcquireFails(r, i)
       \/ Poll(r) \/ SlotExpires(r) \/ RequestStep(r) \/ PollFails(r) \/ ReleaseFails(r)
       \/ IncrementFails(r) \/ IncrementTwice(r) \/ DecrementFails(r)
  \/ WaitExpires
  \/ \E i \in Instances : Restart(i) \/ SweepSlots(i) \/ SweepWait(i) \/ SweepFails(i)

Spec == Init /\ [][Next]_vars

\* A request that was begun ends, and times to live pass.
Fairness ==
  /\ \A r \in Requests : WF_vars(RequestStep(r)) /\ WF_vars(SlotExpires(r))
  /\ WF_vars(WaitExpires)
  /\ \A i \in Instances : WF_vars(SweepSlots(i) \/ SweepWait(i))

FairSpec == Spec /\ Fairness

-----------------------------------------------------------------------------
\* Every variable keeps its type.
TypeOK ==
  /\ slots \subseteq Requests /\ wait \in 0..QueueLimit
  /\ home \in [Requests -> Instances]
  /\ pc \in [Requests -> {"new", "queue", "wait", "leave", "running", "done"}]
  /\ got \in [Requests -> BOOLEAN] /\ counted \in [Requests -> BOOLEAN]
  /\ node \in [Instances -> {"up", "sweepSlots", "sweepWait"}]
  /\ drift \in Nat /\ gaps \subseteq Gaps /\ faults \in 0..MaxFaults

\* No more requests of a user run at once than its limit, over all instances, unless a
\* request outlives its slot or an instance sweeps the slots of another one as it
\* starts: lost answers, repeated calls and failed releases only ever cost capacity.
RunningWithinLimit == gaps = {} => Cardinality(Running) <= MaxConcurrency

\* The queue exceeds its limit by no more than the entries that the counter missed: one
\* for each call that failed open or was repeated, and those a starting instance
\* forgets.  (A decrement for an entry that was never counted takes another's.)
QueueWithinLimit == Cardinality(Queued) <= QueueLimit + drift

\* When all requests have ended and every call went through, nothing is left for the
\* times to live to clear: every way out of the queue and of a request gives back what
\* it took.
NothingLeftBehind ==
  (faults = 0 /\ \A r \in Requests : pc[r] \in {"new", "done"}) => slots = {} /\ wait = 0

\* What failures leave behind goes away by itself once the user's traffic ends (the
\* requests here are finitely many): the user then has all slots and the whole queue
\* again.  Not before: each increment renews the time to live of the wait counter
\* (incrementWaitScript), so that under steady traffic a leaked count stays.
CapacityReturns == <>[](slots = {} /\ wait = 0)

=============================================================================
