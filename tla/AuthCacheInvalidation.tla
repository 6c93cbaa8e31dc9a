------------------------ MODULE AuthCacheInvalidation ------------------------
(***************************************************************************)
(* The cached authentication snapshot of one API key and what removes it   *)
(* after a change of the key: the process-local cache of every instance    *)
(* and the one in Redis (service/api_key_auth_cache_impl.go), the outbox   *)
(* that database triggers fill (migrations/184_..., repository/            *)
(* auth_cache_invalidation_outbox_repo.go), the worker of every instance   *)
(* (service/auth_cache_invalidation_outbox.go) and the Pub/Sub channel     *)
(* (repository/api_key_cache.go).                                          *)
(*                                                                         *)
(* A snapshot is the number of changes it has seen.  There is no clock:    *)
(* the thirty seconds before the second pass are the lookups that were     *)
(* under way when it was scheduled having ended; a lookup that takes       *)
(* longer is a fault.  Entries for keys that do not exist, and the limit   *)
(* of concurrent lookups, are left out.                                    *)
(***************************************************************************)
EXTENDS Naturals, FiniteSets

CONSTANTS
  Instances,    \* the running servers, each with one outbox worker
  Lookups,      \* the lookups an instance may have under way
  NoOne,        \* an event nobody has claimed
  Absent,       \* no cached entry
  MaxUpdates,   \* bound on the changes of the key
  MaxFaults     \* bound on failing calls, crashes, broken subscriptions and delays

ASSUME NoOneAssumption == NoOne \notin Instances
ASSUME AbsentAssumption == Absent \notin Nat
ASSUME BoundsAssumption == MaxUpdates \in Nat \ {0} /\ MaxFaults \in Nat

VARIABLES
  db,          \* the key in the database
  l1,          \* authCacheL1 of each instance
  l2,          \* the entry in Redis
  lookup,      \* the step of each lookup: [step, value, from]
  stage,       \* delivery_stage of each event, or "none" or "done"
  claimedBy,   \* claimed_by of each event
  early,       \* lookups that were under way when its second pass was scheduled
  proc,        \* the step of each processEvent
  pass,        \* the stage each processEvent read
  inbox,       \* messages of the channel an instance has not handled
  connected,   \* instances whose subscription works
  gaps,        \* history: why a stale entry may outlast the second pass
  faults

cacheVars == <<l1, l2>>
outboxVars == <<stage, claimedBy, early>>
procVars == <<proc, pass>>
channelVars == <<inbox, connected>>
authVars == <<db, cacheVars, lookup, outboxVars, procVars, channelVars, gaps, faults>>

Events == 1..MaxUpdates
Readers == Instances \X Lookups
Idle == [step |-> "idle", value |-> 0, from |-> "db"]
Versions == 0..MaxUpdates

\* slow: a lookup took longer than authInvalidationSafetyDelay.  straddle: a lookup
\* held an entry of Redis while the second pass deleted it.  missed: the message of
\* the second pass did not reach an instance.
Gaps == {"slow", "straddle", "missed"}

ProcSteps == {"idle", "local", "redis", "publish", "finish", "retry"}

AuthInit ==
  /\ db = 0
  /\ l1 = [i \in Instances |-> Absent] /\ l2 = Absent
  /\ lookup = [r \in Readers |-> Idle]
  /\ stage = [u \in Events |-> "none"]
  /\ claimedBy = [u \in Events |-> NoOne]
  /\ early = [u \in Events |-> {}]
  /\ proc = [i \in Instances |-> [u \in Events |-> "idle"]]
  /\ pass = [i \in Instances |-> [u \in Events |-> "first"]]
  /\ inbox = [i \in Instances |-> 0]
  /\ connected = Instances
  /\ gaps = {} /\ faults = 0

-----------------------------------------------------------------------------
Fault == faults < MaxFaults /\ faults' = faults + 1

NoFault == UNCHANGED <<faults, gaps>>

Recovered == Fault /\ UNCHANGED gaps

(* Lookups: GetByKey, getAuthCacheEntry and loadAuthCacheEntry *)

LookupGoto(r, step) == lookup' = [lookup EXCEPT ![r].step = step]

\* A lookup that ends is not waited for any more.
LookupEnds(r) ==
  /\ lookup' = [lookup EXCEPT ![r] = Idle]
  /\ early' = [u \in Events |-> early[u] \ {r}]

\* A hit in the local cache ends the lookup at once, and changes nothing.
StartLookup(r) ==
  /\ lookup[r].step = "idle" /\ l1[r[1]] = Absent
  /\ LookupGoto(r, "redis") /\ NoFault
  /\ UNCHANGED <<db, cacheVars, outboxVars, procVars, channelVars>>

GetAuthCache(r) ==
  /\ lookup[r].step = "redis"
  /\ \/ /\ l2 # Absent /\ NoFault
        /\ lookup' = [lookup EXCEPT ![r] = [step |-> "l1", value |-> l2, from |-> "redis"]]
     \/ l2 = Absent /\ LookupGoto(r, "db") /\ NoFault
     \/ l2 # Absent /\ LookupGoto(r, "db") /\ Recovered
  /\ UNCHANGED <<db, cacheVars, outboxVars, procVars, channelVars>>

GetByKeyForAuth(r) ==
  /\ lookup[r].step = "db"
  /\ \/ /\ lookup' = [lookup EXCEPT ![r] = [step |-> "l1", value |-> db, from |-> "db"]]
        /\ UNCHANGED early /\ NoFault
     \/ LookupEnds(r) /\ Recovered
  /\ UNCHANGED <<db, cacheVars, stage, claimedBy, procVars, channelVars>>

SetAuthCacheL1(r) ==
  /\ lookup[r].step = "l1" /\ NoFault
  /\ l1' = [l1 EXCEPT ![r[1]] = lookup[r].value]
  /\ IF lookup[r].from = "redis" THEN LookupEnds(r)
     ELSE LookupGoto(r, "l2") /\ UNCHANGED early
  /\ UNCHANGED <<db, l2, stage, claimedBy, procVars, channelVars>>

SetAuthCacheL2(r) ==
  /\ lookup[r].step = "l2" /\ LookupEnds(r)
  /\ \/ l2' = lookup[r].value /\ NoFault
     \/ UNCHANGED l2 /\ Recovered
  /\ UNCHANGED <<db, l1, stage, claimedBy, procVars, channelVars>>

\* An entry reaches its time to live or is pushed out, or deleteAuthCache, which the
\* instance that makes a change calls at once and which ignores every error, removes
\* it: locally, in Redis, or through a message.
ExpireL1(i) ==
  /\ l1[i] # Absent /\ l1' = [l1 EXCEPT ![i] = Absent] /\ NoFault
  /\ UNCHANGED <<db, l2, lookup, outboxVars, procVars, channelVars>>

ExpireL2 ==
  /\ l2 # Absent /\ l2' = Absent /\ NoFault
  /\ UNCHANGED <<db, l1, lookup, outboxVars, procVars, channelVars>>

LookupStep(r) ==
  GetAuthCache(r) \/ GetByKeyForAuth(r) \/ SetAuthCacheL1(r) \/ SetAuthCacheL2(r)

-----------------------------------------------------------------------------
(* A change of the key *)

\* The transaction and its trigger.
Update ==
  /\ db < MaxUpdates /\ db' = db + 1
  /\ stage' = [stage EXCEPT ![db + 1] = "first"] /\ NoFault
  /\ UNCHANGED <<cacheVars, lookup, claimedBy, early, procVars, channelVars>>

-----------------------------------------------------------------------------
(* The outbox worker *)

ProcGoto(i, u, step) == proc' = [proc EXCEPT ![i][u] = step] /\ UNCHANGED pass

ProcEnds(i, u) ==
  /\ proc' = [proc EXCEPT ![i][u] = "idle"]
  /\ pass' = [pass EXCEPT ![i][u] = "first"]

\* Mutant: a claim is for good.
ClaimableOnce(u) ==
  stage[u] \in {"first", "second"} /\ early[u] = {} /\ claimedBy[u] = NoOne

\* An event is due when it is new or its safety delay has passed, and claimed by nobody
\* or for longer than authInvalidationLease, which any claim may come to be.
Claimable(u) == stage[u] \in {"first", "second"} /\ early[u] = {}

\* The claimant is still at work: to lose the claim now is a fault.
InUse(u) == claimedBy[u] # NoOne /\ proc[claimedBy[u]][u] # "idle"

\* One statement takes the due events (which of those that may be due is up to the
\* clock and to rows other workers have locked), and processBatch waits for all of
\* them.  When the answer is lost nobody works on the events until the lease is over.
Claim(i) ==
  /\ \A u \in Events : proc[i][u] = "idle"
  /\ \E due \in SUBSET {u \in Events : Claimable(u)} :
       /\ due # {}
       /\ claimedBy' = [u \in Events |-> IF u \in due THEN i ELSE claimedBy[u]]
       /\ \/ /\ proc' = [proc EXCEPT ![i] =
                  [u \in Events |-> IF u \in due THEN "local" ELSE proc[i][u]]]
             /\ pass' = [pass EXCEPT ![i] =
                  [u \in Events |-> IF u \in due THEN stage[u] ELSE pass[i][u]]]
             /\ IF \E u \in due : InUse(u) THEN Recovered ELSE NoFault
          \/ UNCHANGED procVars /\ Recovered
  /\ UNCHANGED <<db, cacheVars, lookup, stage, early, channelVars>>

InvalidateLocal(i, u) ==
  /\ proc[i][u] = "local" /\ ProcGoto(i, u, "redis")
  /\ l1' = [l1 EXCEPT ![i] = Absent] /\ NoFault
  /\ UNCHANGED <<db, l2, lookup, outboxVars, channelVars>>

\* A lookup holds an entry of Redis that is out of date.
StaleFromRedis ==
  \E r \in Readers : lookup[r].step = "l1" /\ lookup[r].from = "redis" /\ lookup[r].value < db

SecondPass(i, u) == pass[i][u] = "second"

DeleteAuthCache(i, u) ==
  /\ proc[i][u] = "redis"
  /\ \/ /\ l2' = Absent /\ ProcGoto(i, u, "publish") /\ UNCHANGED faults
        /\ gaps' = IF SecondPass(i, u) /\ StaleFromRedis THEN gaps \cup {"straddle"} ELSE gaps
     \/ UNCHANGED l2 /\ ProcGoto(i, u, "retry") /\ Recovered
  /\ UNCHANGED <<db, l1, lookup, outboxVars, channelVars>>

\* Only the instances whose subscription works get the message.
PublishAuthCacheInvalidation(i, u) ==
  /\ proc[i][u] = "publish"
  /\ \/ /\ inbox' = [j \in Instances |-> inbox[j] + (IF j \in connected THEN 1 ELSE 0)]
        /\ ProcGoto(i, u, "finish") /\ UNCHANGED faults
        /\ gaps' = IF SecondPass(i, u) /\ connected # Instances THEN gaps \cup {"missed"} ELSE gaps
     \/ UNCHANGED inbox /\ ProcGoto(i, u, "retry") /\ Recovered
  /\ UNCHANGED <<db, cacheVars, lookup, outboxVars, connected>>

Unclaim(u) == claimedBy' = [claimedBy EXCEPT ![u] = NoOne]

\* RetryClaimed, which only the claimant may do.
RetryClaimed(i, u) ==
  /\ proc[i][u] = "retry" /\ ProcEnds(i, u)
  /\ \/ claimedBy[u] = i /\ Unclaim(u) /\ NoFault
     \/ claimedBy[u] # i /\ UNCHANGED claimedBy /\ NoFault
     \/ UNCHANGED claimedBy /\ Recovered
  /\ UNCHANGED <<db, cacheVars, lookup, stage, early, channelVars>>

LookupsUnderWay == {r \in Readers : lookup[r].step # "idle"}

\* Mutant: the event is deleted after the first pass.
NoSecondPass(u) ==
  /\ stage' = [stage EXCEPT ![u] = "done"] /\ Unclaim(u) /\ UNCHANGED early

ScheduleSecondPass(u) ==
  /\ stage[u] = "first" /\ stage' = [stage EXCEPT ![u] = "second"] /\ Unclaim(u)
  /\ early' = [early EXCEPT ![u] = LookupsUnderWay]

DeleteClaimed(u) ==
  /\ stage' = [stage EXCEPT ![u] = "done"] /\ Unclaim(u) /\ UNCHANGED early

\* The end of processEvent: both statements are guarded by claimed_by.  After an error
\* the row is as it was, or the answer is lost.
FinishEvent(i, u) ==
  /\ proc[i][u] = "finish" /\ ProcEnds(i, u)
  /\ LET finish == IF pass[i][u] = "first" THEN ScheduleSecondPass(u) ELSE DeleteClaimed(u)
     IN  \/ claimedBy[u] = i /\ finish /\ NoFault
         \/ claimedBy[u] # i /\ UNCHANGED outboxVars /\ NoFault
         \/ UNCHANGED outboxVars /\ Recovered
         \/ claimedBy[u] = i /\ finish /\ Recovered
  /\ UNCHANGED <<db, cacheVars, lookup, channelVars>>

\* The safety delay passes while a lookup is still under way.
SafetyDelayPasses(u) ==
  /\ early[u] # {} /\ early' = [early EXCEPT ![u] = {}]
  /\ Fault /\ gaps' = gaps \cup {"slow"}
  /\ UNCHANGED <<db, cacheVars, lookup, stage, claimedBy, procVars, channelVars>>

WorkerStep(i) ==
  \/ Claim(i)
  \/ \E u \in Events :
       \/ InvalidateLocal(i, u) \/ DeleteAuthCache(i, u) \/ PublishAuthCacheInvalidation(i, u)
       \/ RetryClaimed(i, u) \/ FinishEvent(i, u)

-----------------------------------------------------------------------------
(* The subscription of an instance, and its process *)

HandleMessage(i) ==
  /\ inbox[i] > 0 /\ inbox' = [inbox EXCEPT ![i] = @ - 1]
  /\ l1' = [l1 EXCEPT ![i] = Absent] /\ NoFault
  /\ UNCHANGED <<db, l2, lookup, outboxVars, procVars, connected>>

\* An event whose second pass has been published, perhaps not finished.
Delivered(u) == stage[u] = "done" \/ \E i \in Instances : SecondPass(i, u) /\ proc[i][u] = "finish"

\* What was not handled is gone.
Disconnect(i) ==
  /\ i \in connected /\ connected' = connected \ {i}
  /\ inbox' = [inbox EXCEPT ![i] = 0]
  /\ Fault
  /\ gaps' = IF inbox[i] > 0 /\ \E u \in Events : Delivered(u) THEN gaps \cup {"missed"} ELSE gaps
  /\ UNCHANGED <<db, cacheVars, lookup, outboxVars, procVars>>

Reconnect(i) ==
  /\ i \notin connected /\ connected' = connected \cup {i} /\ NoFault
  /\ UNCHANGED <<db, cacheVars, lookup, outboxVars, procVars, inbox>>

\* The process dies and starts again with an empty cache and a new subscription.
Restart(i) ==
  /\ Recovered
  /\ l1' = [l1 EXCEPT ![i] = Absent]
  /\ lookup' = [r \in Readers |-> IF r[1] = i THEN Idle ELSE lookup[r]]
  /\ early' = [u \in Events |-> {r \in early[u] : r[1] # i}]
  /\ proc' = [proc EXCEPT ![i] = [u \in Events |-> "idle"]]
  /\ pass' = [pass EXCEPT ![i] = [u \in Events |-> "first"]]
  /\ inbox' = [inbox EXCEPT ![i] = 0] /\ connected' = connected \cup {i}
  /\ UNCHANGED <<db, l2, stage, claimedBy>>

AuthNext ==
  \/ \E r \in Readers : StartLookup(r) \/ LookupStep(r)
  \/ \E i \in Instances :
       \/ ExpireL1(i) \/ WorkerStep(i) \/ HandleMessage(i)
       \/ Disconnect(i) \/ Reconnect(i) \/ Restart(i)
  \/ Update \/ ExpireL2
  \/ \E u \in Events : SafetyDelayPasses(u)

AuthSpec == AuthInit /\ [][AuthNext]_authVars

\* The steps of A that are not faults.
Working(A) == A /\ UNCHANGED faults

\* Lookups, workers and subscriptions go on; nobody need look the key up, nothing need
\* fail, and no entry need expire.
Fairness ==
  /\ \A r \in Readers : WF_authVars(Working(LookupStep(r)))
  /\ \A i \in Instances :
       /\ WF_authVars(Working(WorkerStep(i))) /\ WF_authVars(Working(HandleMessage(i)))
       /\ WF_authVars(Working(Reconnect(i)))

FairSpec == AuthSpec /\ Fairness

-----------------------------------------------------------------------------
(* Properties *)

\* Every variable keeps its type.
AuthTypeOK ==
  /\ db \in Versions
  /\ l1 \in [Instances -> Versions \cup {Absent}] /\ l2 \in Versions \cup {Absent}
  /\ lookup \in [Readers -> [step : {"idle", "redis", "db", "l1", "l2"}, value : Versions,
                             from : {"redis", "db"}]]
  /\ stage \in [Events -> {"none", "first", "second", "done"}]
  /\ claimedBy \in [Events -> Instances \cup {NoOne}]
  /\ early \in [Events -> SUBSET Readers]
  /\ proc \in [Instances -> [Events -> ProcSteps]]
  /\ pass \in [Instances -> [Events -> {"first", "second"}]]
  /\ inbox \in [Instances -> Nat] /\ connected \subseteq Instances
  /\ gaps \subseteq Gaps /\ faults \in 0..MaxFaults

\* The value is a snapshot that misses a change whose event is done.
Outlasts(value) == value # Absent /\ \E u \in Events : stage[u] = "done" /\ value < u

\* What the two passes are for: once the event of a change is done and its messages
\* have been handled, no cache holds, and no lookup will put there, a snapshot of
\* before the change, whatever failed, crashed or interleaved, except for the three
\* gaps.  Redis needs no exception for messages.
NoStaleAfterLastPass ==
  gaps = {} =>
    /\ ~Outlasts(l2)
    /\ \A i \in Instances : inbox[i] = 0 => ~Outlasts(l1[i])
    /\ \A r \in Readers : lookup[r].step \in {"l1", "l2"} => ~Outlasts(lookup[r].value)

\* Every change comes to be seen by all: in the end no cache holds an older snapshot,
\* without any entry having to expire.
ChangeReachesEveryone ==
  <>[](gaps = {} => /\ l2 \in {Absent, db}
                    /\ \A i \in Instances : l1[i] \in {Absent, db})

=============================================================================
