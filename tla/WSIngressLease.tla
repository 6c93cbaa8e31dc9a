--------------------------- MODULE WSIngressLease ---------------------------
(***************************************************************************)
(* The leases that bound the WebSocket connections of one API key          *)
(* (OpenAIWSIngressLease in service/concurrency_service.go, its scripts in *)
(* repository/concurrency_cache.go).  A connection takes a lease before it *)
(* is accepted and refreshes it periodically; Redis drops a lease that was *)
(* not refreshed for TTL.  Time is discrete.  Every call is answered or    *)
(* given up within OpTimeout; a command that was given up may still reach  *)
(* Redis, at any later time.                                               *)
(***************************************************************************)
EXTENDS Naturals, FiniteSets

CONSTANTS
  Leases,           \* lease ids; each belongs to one connection
  MaxConnections,   \* MaxIngressConnectionsPerAPIKey, when it is a limit
  TTL,              \* openAIWSIngressLeaseTTL
  Interval,         \* openAIWSIngressLeaseRefreshInterval
  OpTimeout         \* longest call: openAIWSIngressLeaseOperationTO and the timeouts of the Redis client

ASSUME LimitAssumption == MaxConnections \in Nat \ {0}
ASSUME TimesAssumption ==
  /\ TTL \in Nat /\ Interval \in Nat /\ OpTimeout \in Nat \ {0}
  /\ OpTimeout < Interval /\ Interval + 2 * OpTimeout < TTL
  /\ \E n \in 1..TTL : TTL = n * Interval

VARIABLES
  age,      \* time since Redis last scored the member; TTL once it is gone
  pc,       \* where the connection is
  ans,      \* what Redis answered to the call under way
  op,       \* how long that call has taken
  timer,    \* time since the ticker last fired
  since,    \* time since lastConfirmedAt
  closing,  \* the handler is at its end while a refresh is under way
  late,     \* the script of a call that was given up and may still run
  errs,     \* history: the calls of this connection that failed
  lost,     \* history: the refresh loop declared the lease lost
  over      \* history: how long the connection was open without a lease

localVars == <<pc, ans, op, timer, since, closing>>
vars == <<age, localVars, late, errs, lost, over>>

Calling(l) == pc[l] \in {"acquire", "refresh"}
Open(l) == pc[l] \in {"open", "refresh"}

\* A member of age TTL is reaped by every script before it looks at the set.  (Redis
\* keeps whole seconds: a member may go up to one second before.)
Held(l) == age[l] < TTL

Init ==
  /\ age = [l \in Leases |-> TTL]
  /\ pc = [l \in Leases |-> "new"]
  /\ ans = [l \in Leases |-> "none"]
  /\ op = [l \in Leases |-> 0]
  /\ timer = [l \in Leases |-> 0]
  /\ since = [l \in Leases |-> 0]
  /\ closing = [l \in Leases |-> FALSE]
  /\ late = [l \in Leases |-> "none"]
  /\ errs = [l \in Leases |-> {}]
  /\ lost = [l \in Leases |-> FALSE]
  /\ over = [l \in Leases |-> 0]

-----------------------------------------------------------------------------
(* The scripts                                                               *)

\* Mutant: one connection too many.
AcquireOneMore(l) ==
  Held(l) \/ Cardinality({m \in Leases : Held(m)}) <= MaxConnections

\* acquireOpenAIWSIngressLeaseScript grants a lease that is there already again.
AcquireGrants(l) ==
  Held(l) \/ Cardinality({m \in Leases : Held(m)}) < MaxConnections

\* Mutant: a refresh puts a missing member back.
RefreshRecreates(l) == TRUE

\* refreshOpenAIWSIngressLeaseScript does not put a missing member back.
RefreshGrants(l) == Held(l)

Grants(l, script) == IF script = "acquire" THEN AcquireGrants(l) ELSE RefreshGrants(l)

\* Mutant: a refresh confirms the member without scoring it again.
RunWithoutScore(l, script) ==
  age' = IF script = "acquire" /\ Grants(l, script) THEN [age EXCEPT ![l] = 0] ELSE age

RunScript(l, script) == age' = IF Grants(l, script) THEN [age EXCEPT ![l] = 0] ELSE age

-----------------------------------------------------------------------------
(* Calls                                                                     *)

Call(l, script) ==
  /\ pc' = [pc EXCEPT ![l] = script]
  /\ ans' = [ans EXCEPT ![l] = "none"]
  /\ op' = [op EXCEPT ![l] = 0]

Acquire(l) ==
  /\ pc[l] = "new"
  /\ Call(l, "acquire")
  /\ UNCHANGED <<age, timer, since, closing, late, errs, lost, over>>

\* Redis runs the script; the client may send it again when the answer does not come.
Execute(l) ==
  /\ Calling(l)
  /\ RunScript(l, pc[l])
  /\ ans' = [ans EXCEPT ![l] = IF Grants(l, pc[l]) THEN "yes" ELSE "no"]
  /\ UNCHANGED <<pc, op, timer, since, closing, late, errs, lost, over>>

\* A command given up reaches Redis after all.
LateExecute(l) ==
  /\ late[l] # "none"
  /\ RunScript(l, late[l])
  /\ late' = [late EXCEPT ![l] = "none"]
  /\ UNCHANGED <<localVars, errs, lost, over>>

\* The connection is accepted and refreshLoop starts, or the caller is rejected.
Acquired(l) ==
  /\ pc[l] = "acquire" /\ ans[l] # "none"
  /\ pc' = [pc EXCEPT ![l] = IF ans[l] = "yes" THEN "open" ELSE "done"]
  /\ timer' = [timer EXCEPT ![l] = 0]
  /\ since' = [since EXCEPT ![l] = 0]
  /\ UNCHANGED <<age, ans, op, closing, late, errs, lost, over>>

\* The answer was lost or did not come in time: nothing will release what the script
\* may have taken.
AcquireFails(l) ==
  /\ pc[l] = "acquire"
  /\ pc' = [pc EXCEPT ![l] = "done"]
  /\ late' = [late EXCEPT ![l] = "acquire"]
  /\ errs' = [errs EXCEPT ![l] = @ \cup {"acquire"}]
  /\ UNCHANGED <<age, ans, op, timer, since, closing, lost, over>>

-----------------------------------------------------------------------------
(* refreshLoop and refresh                                                   *)

StartRefresh(l) ==
  /\ pc[l] = "open" /\ timer[l] = Interval
  /\ Call(l, "refresh")
  /\ timer' = [timer EXCEPT ![l] = 0]
  /\ UNCHANGED <<age, since, closing, late, errs, lost, over>>

\* After a refresh the loop goes on, unless the lease is lost or Release waits for it.
LoopGoesOn(l, isLost) ==
  /\ pc' = [pc EXCEPT ![l] = IF isLost \/ closing[l] THEN "release" ELSE "open"]
  /\ closing' = [closing EXCEPT ![l] = FALSE]
  /\ lost' = [lost EXCEPT ![l] = isLost]

Refreshed(l) ==
  /\ pc[l] = "refresh" /\ ans[l] # "none"
  /\ LoopGoesOn(l, ans[l] = "no")
  /\ since' = IF ans[l] = "yes" THEN [since EXCEPT ![l] = 0] ELSE since
  /\ UNCHANGED <<age, ans, op, timer, late, errs, over>>

\* Mutant: a failed refresh counts as a confirmation.
RefreshFailsConfirms(l) ==
  /\ pc[l] = "refresh"
  /\ LoopGoesOn(l, since[l] >= TTL)
  /\ since' = [since EXCEPT ![l] = 0]
  /\ late' = [late EXCEPT ![l] = "refresh"]
  /\ errs' = [errs EXCEPT ![l] = @ \cup {"refresh"}]
  /\ UNCHANGED <<age, ans, op, timer, over>>

\* An error is tolerated until the lease is unconfirmed for TTL.
RefreshFails(l) ==
  /\ pc[l] = "refresh"
  /\ LoopGoesOn(l, since[l] >= TTL)
  /\ late' = [late EXCEPT ![l] = "refresh"]
  /\ errs' = [errs EXCEPT ![l] = @ \cup {"refresh"}]
  /\ UNCHANGED <<age, ans, op, timer, since, over>>

-----------------------------------------------------------------------------
(* The end of a connection                                                   *)

\* The handler returns; Release stops the loop and waits for a refresh under way.
Close(l) ==
  /\ Open(l) /\ ~closing[l]
  /\ IF pc[l] = "open"
     THEN pc' = [pc EXCEPT ![l] = "release"] /\ UNCHANGED closing
     ELSE closing' = [closing EXCEPT ![l] = TRUE] /\ UNCHANGED pc
  /\ UNCHANGED <<age, ans, op, timer, since, late, errs, lost, over>>

Release(l) ==
  /\ pc[l] = "release"
  /\ pc' = [pc EXCEPT ![l] = "done"]
  /\ age' = [age EXCEPT ![l] = TTL]
  /\ UNCHANGED <<ans, op, timer, since, closing, late, errs, lost, over>>

\* The error is only logged; the member may be gone or not.
ReleaseFails(l) ==
  /\ pc[l] = "release"
  /\ pc' = [pc EXCEPT ![l] = "done"]
  /\ age' \in {age, [age EXCEPT ![l] = TTL]}
  /\ errs' = [errs EXCEPT ![l] = @ \cup {"release"}]
  /\ UNCHANGED <<ans, op, timer, since, closing, late, lost, over>>

\* The process dies and its connections with it.
Crash(l) ==
  /\ pc[l] \notin {"new", "done"}
  /\ pc' = [pc EXCEPT ![l] = "done"]
  /\ late' = IF Calling(l) THEN [late EXCEPT ![l] = pc[l]] ELSE late
  /\ errs' = [errs EXCEPT ![l] = @ \cup {"crash"}]
  /\ UNCHANGED <<age, ans, op, timer, since, closing, lost, over>>

\* Time passes unless a call is at its limit or a ticker is due.
Tick ==
  /\ \A l \in Leases : (Calling(l) => op[l] < OpTimeout) /\ (pc[l] = "open" => timer[l] < Interval)
  /\ age' = [l \in Leases |-> IF Held(l) THEN age[l] + 1 ELSE TTL]
  /\ op' = [l \in Leases |-> IF Calling(l) THEN op[l] + 1 ELSE 0]
  /\ timer' = [l \in Leases |-> IF Open(l) THEN timer[l] + 1 ELSE 0]
  /\ since' = [l \in Leases |-> IF Open(l) THEN since[l] + 1 ELSE 0]
  /\ over' = [l \in Leases |-> IF Open(l) /\ ~Held(l) THEN over[l] + 1 ELSE 0]
  /\ UNCHANGED <<pc, ans, closing, late, errs, lost>>

LeaseStep(l) ==
  \/ Acquire(l) \/ Execute(l) \/ LateExecute(l) \/ Acquired(l) \/ AcquireFails(l)
  \/ StartRefresh(l) \/ Refreshed(l) \/ RefreshFails(l)
  \/ Close(l) \/ Release(l) \/ ReleaseFails(l) \/ Crash(l)

Next == Tick \/ \E l \in Leases : LeaseStep(l)

Spec == Init /\ [][Next]_vars

-----------------------------------------------------------------------------
\* Every variable keeps its type.
TypeOK ==
  /\ age \in [Leases -> 0..TTL]
  /\ pc \in [Leases -> {"new", "acquire", "open", "refresh", "release", "done"}]
  /\ ans \in [Leases -> {"none", "yes", "no"}]
  /\ op \in [Leases -> 0..OpTimeout]
  /\ timer \in [Leases -> 0..Interval]
  /\ since \in [Leases -> 0..(TTL + Interval + OpTimeout)]
  /\ closing \in [Leases -> BOOLEAN]
  /\ late \in [Leases -> {"none", "acquire", "refresh"}]
  /\ errs \in [Leases -> SUBSET {"acquire", "refresh", "release", "crash"}]
  /\ lost \in [Leases -> BOOLEAN]
  /\ over \in [Leases -> Nat]

\* A connection whose lease Redis has dropped is cancelled within one refresh interval
\* and one call, whatever Redis answers: for no longer than that can the key have more
\* connections than its limit (the loss rule of refresh).
OverrunIsBounded == \A l \in Leases : over[l] <= Interval + OpTimeout

\* Connections that still hold their lease never exceed the limit, whatever is sent
\* twice or arrives late (acquireOpenAIWSIngressLeaseScript).
LimitHolds == Cardinality({l \in Leases : Open(l) /\ Held(l)}) <= MaxConnections

\* A connection whose refreshes all succeeded is never cancelled: the refreshes come
\* often enough for the lease to outlast the slowest call.
LostOnlyAfterFailure == \A l \in Leases : lost[l] => "refresh" \in errs[l]

\* Capacity is occupied only by a connection that is there, unless its acquisition or
\* its release failed or its process died: a rejected caller occupies nothing, and what
\* Release gave back stays free although a refresh may arrive after it.
OccupiedMeansThere ==
  \A l \in Leases :
    (Held(l) /\ pc[l] \in {"new", "done"}) => errs[l] \cap {"acquire", "release", "crash"} # {}

=============================================================================
