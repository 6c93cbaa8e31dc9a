------------------------- MODULE PaymentFulfillment -------------------------
(***************************************************************************)
(* The life of one payment order from creation to completion               *)
(* (payment_order.go, payment_order_lifecycle.go, payment_fulfillment.go). *)
(*                                                                         *)
(* Workers are the goroutines that act on the order: provider webhooks,    *)
(* user and admin requests, the expiry and reconcile tickers.  They share  *)
(* nothing but database rows, so every database statement or transaction   *)
(* and every provider call is one step.                                    *)
(*                                                                         *)
(* Time enters the code only through updated_at <= now - 5 minutes (lease, *)
(* payment grace) and expires_at <= now, so the clock is abstracted to two *)
(* booleans, old and due.  updated_at is also the version of a fulfilment  *)
(* lease; every update of the row writes a new one.  Instead of the value, *)
(* the model keeps the set of workers whose lease.version still equals it. *)
(***************************************************************************)
EXTENDS Naturals, FiniteSets

CONSTANTS
  Workers,      \* goroutines that may act on the order at the same time
  MaxFaults     \* bound on crashes, stalls and failing database or provider calls

ASSUME MaxFaultsAssumption == MaxFaults \in Nat

VARIABLES
  orderType,    \* order_type
  status,       \* status
  paidAt,       \* paid_at is set
  tradeNo,      \* payment_trade_no already holds the provider's trade number
  old,          \* updated_at is five minutes old or more
  due,          \* expires_at has passed
  holders,      \* workers whose lease.version equals updated_at
  code,         \* the order's redeem code
  granted,      \* times the order's balance or subscription days were granted
  rebates,      \* times the inviter's rebate was accrued for the order
  audit,        \* actions present in payment_audit_logs for the order
  upstream,     \* the order as the payment provider sees it
  answered,     \* the 2xx answer to a webhook of the payment: "no" for none yet,
                \* "handled", or "unheard" when the delivery was not acted upon
  groupActive,  \* a subscription order's group is active
  creator,      \* the CreateOrder call
  pc,           \* what each worker does next
  job,          \* why a worker queries the provider, or that it serves a webhook
  copy,         \* tradeNo as it was when the worker read the order
  owner,        \* history: the last worker that won the fulfilment lease, if any
  faults        \* crashes, stalls and failures so far

row      == <<orderType, status, paidAt, tradeNo, old, due, holders>>
grants   == <<code, granted, rebates>>
worker   == <<pc, job, copy>>
world    == <<upstream, answered, groupActive>>
vars     == <<orderType, status, paidAt, tradeNo, old, due, holders, code,
              granted, rebates, audit, upstream, answered, groupActive, creator,
              pc, job, copy, owner, faults>>

OrderTypes == {"balance", "subscription"}

Statuses == {"PENDING", "PAID", "RECHARGING", "COMPLETED", "EXPIRED",
             "CANCELLED", "FAILED"}

AuditActions == {"SUBSCRIPTION_ASSIGNED", "FULFILLMENT_SUCCESS",
                 "AFFILIATE_REBATE", "PAYMENT_MISMATCH", "PAYMENT_AFTER_EXPIRY"}

Jobs == {"none", "webhook", "cancel", "expire", "reconcile"}

QuerySteps   == {"query", "cancelUpstream", "close"}
ConfirmSteps == {"persist", "toPaid", "already", "exec", "acquire", "reload"}
LeasedSteps  == {"do", "create", "redeem", "assign", "rebate", "complete", "fail"}
Steps        == {"idle"} \cup QuerySteps \cup ConfirmSteps \cup LeasedSteps

Init ==
  /\ orderType \in OrderTypes
  /\ status = "PENDING" /\ paidAt = FALSE /\ tradeNo = FALSE
  /\ old = FALSE /\ due = FALSE /\ holders = {}
  /\ code = "absent" /\ granted = 0 /\ rebates = 0 /\ audit = {}
  /\ upstream = "none" /\ answered = "no" /\ groupActive = TRUE /\ creator = "invoke"
  /\ pc = [w \in Workers |-> "idle"]
  /\ job = [w \in Workers |-> "none"]
  /\ copy = [w \in Workers |-> FALSE]
  /\ owner = {} /\ faults = 0

-----------------------------------------------------------------------------
(* Helpers *)

\* Every UPDATE of the row sets updated_at to the current time: the row is
\* young again and no lease version taken before matches it.
Touch == old' = FALSE /\ holders' = {}

Goto(w, step) == pc' = [pc EXCEPT ![w] = step]

\* The call returns: the goroutine is gone and its locals with it.
Return(w) ==
  /\ pc' = [pc EXCEPT ![w] = "idle"]
  /\ job' = [job EXCEPT ![w] = "none"]
  /\ copy' = [copy EXCEPT ![w] = FALSE]

\* The webhook's call returned nil: the handler answers 2xx, after which the
\* provider need not deliver again.  An error is answered 500.
Answer(w, how) ==
  answered' = IF job[w] = "webhook" /\ answered = "no" THEN how ELSE answered

Fault == faults < MaxFaults /\ faults' = faults + 1

-----------------------------------------------------------------------------
(* The payment provider, the customer and the administrator (external). *)

\* The customer pays; possible only after CreateOrder handed out the pay URL,
\* and as long as the provider has not closed its order.
CustomerPays ==
  /\ upstream = "open" /\ creator = "done"
  /\ upstream' = "paid"
  /\ UNCHANGED <<row, grants, audit, answered, groupActive, creator, worker, owner,
                 faults>>

\* The group of a subscription order is taken out of service, or put back.
SetGroupStatus ==
  /\ orderType = "subscription"
  /\ groupActive' = ~groupActive
  /\ UNCHANGED <<row, grants, audit, upstream, answered, creator, worker, owner, faults>>

-----------------------------------------------------------------------------
(* CreateOrder after createOrderInTx has committed the PENDING row *)

\* prov.CreatePayment: the provider opens its order, or the call fails.
CreatePayment ==
  /\ creator = "invoke"
  /\ \/ upstream' = "open" /\ creator' = "save"
     \/ upstream' \in {"none", "open"} /\ creator' = "fail"
  /\ UNCHANGED <<row, grants, audit, answered, groupActive, worker, owner, faults>>

\* UpdateOneID(order.ID) with the trade number, the pay URL and the QR code;
\* an unconditional write, and an error of it fails the order.
SavePaymentDetails ==
  /\ creator = "save"
  /\ \/ creator' = "done" /\ Touch
     \/ creator' = "fail" /\ UNCHANGED <<old, holders>>
  /\ UNCHANGED <<orderType, status, paidAt, tradeNo, due, grants, audit,
                 world, worker, owner, faults>>

\* SetStatus(OrderStatusFailed) whatever the status is by now.
CreateOrderFailed ==
  /\ creator = "fail"
  /\ creator' = "gone" /\ status' = "FAILED" /\ Touch
  /\ UNCHANGED <<orderType, paidAt, tradeNo, due, grants, audit, world,
                 worker, owner, faults>>

-----------------------------------------------------------------------------
(* Provider notifications *)

Notifications == {"genuine", "mismatched"}

\* Mutant: the checks let everything through.
ConfirmPaymentUnchecked(n) == n \in Notifications

\* The provider, metadata and amount checks of confirmPayment.
ConfirmPayment(n) == n = "genuine"

\* A webhook delivery.  A genuine one follows a payment and may be repeated,
\* delayed or reordered; one whose provider, metadata or amount does not match
\* the order may come at any time and is refused.
HandlePaymentNotification(w, n) ==
  /\ pc[w] = "idle"
  /\ n = "genuine" => upstream = "paid"
  /\ IF ConfirmPayment(n)
       THEN /\ Goto(w, "toPaid") /\ job' = [job EXCEPT ![w] = "webhook"]
            /\ UNCHANGED audit
       ELSE audit' = audit \cup {"PAYMENT_MISMATCH"} /\ UNCHANGED <<pc, job>>
  /\ UNCHANGED <<row, grants, world, creator, copy, owner, faults>>

\* A genuine delivery that comes to nothing and is answered 2xx all the same:
\* the provider instance is not found (only wxpay is then answered 400), or
\* confirmPayment cannot read the order and returns nil.
NotificationUnheard ==
  /\ upstream = "paid" /\ Fault
  /\ answered' = IF answered = "no" THEN "unheard" ELSE answered
  /\ UNCHANGED <<row, grants, audit, upstream, groupActive, creator, worker, owner>>

\* The WHERE clause of the update to PAID.
Payable == \/ status \in {"PENDING", "CANCELLED"}
           \/ status = "EXPIRED" /\ ~old

\* Mutant: the provider's status constant is stored instead of the order's.
ToPaidProviderStatus(w) ==
  /\ pc[w] = "toPaid" /\ Payable
  /\ status' = "paid" /\ paidAt' = TRUE /\ tradeNo' = TRUE /\ Touch
  /\ Goto(w, "exec")
  /\ UNCHANGED <<orderType, due, grants, audit, world, creator, job, copy,
                 owner, faults>>

ToPaid(w) ==
  /\ pc[w] = "toPaid"
  /\ IF Payable
       THEN /\ status' = "PAID" /\ paidAt' = TRUE /\ tradeNo' = TRUE /\ Touch
            /\ Goto(w, "exec")
       ELSE Goto(w, "already") /\ UNCHANGED <<status, paidAt, tradeNo, old, holders>>
  /\ UNCHANGED <<orderType, due, grants, audit, world, creator, job, copy,
                 owner, faults>>

\* The order is read again.  That read, and the audit row of a late payment, may
\* fail: both errors are dropped and the answer is 2xx.
AlreadyProcessed(w) ==
  /\ pc[w] = "already"
  /\ \/ /\ status \in {"FAILED", "PAID", "RECHARGING"}
        /\ Goto(w, "exec") /\ UNCHANGED <<job, copy, audit, answered, faults>>
     \/ /\ status \notin {"FAILED", "PAID", "RECHARGING"}
        /\ Return(w) /\ Answer(w, "handled") /\ UNCHANGED faults
        /\ audit' = IF status = "EXPIRED"
                      THEN audit \cup {"PAYMENT_AFTER_EXPIRY"} ELSE audit
     \/ Fault /\ Return(w) /\ Answer(w, "unheard") /\ UNCHANGED audit
  /\ UNCHANGED <<row, grants, upstream, groupActive, creator, owner>>

-----------------------------------------------------------------------------
(* Asking the provider: cancel, expiry, verify and reconcile *)

StartQuery(w, j) ==
  /\ pc[w] = "idle"
  /\ Goto(w, "query")
  /\ job' = [job EXCEPT ![w] = j]
  /\ copy' = [copy EXCEPT ![w] = tradeNo]
  /\ UNCHANGED <<row, grants, audit, world, creator, owner, faults>>

CancelOrder(w) == status = "PENDING" /\ StartQuery(w, "cancel")

ExpireTimedOutOrders(w) == status = "PENDING" /\ due /\ StartQuery(w, "expire")

\* VerifyOrderByOutTradeNo and the resume-token lookup take pending and expired
\* orders, the reconcile ticker pending ones.
ReconcilePaid(w) == status \in {"PENDING", "EXPIRED"} /\ StartQuery(w, "reconcile")

\* checkPaidWithOptions up to its first write.  A failing query is taken for an
\* unpaid order.  Whether the provider's trade number is new to the order
\* depends on the provider and on the copy read before the query.  Locals that
\* nothing reads any more are cleared.
QueryOrder(w) ==
  /\ pc[w] = "query"
  /\ copy' = [copy EXCEPT ![w] = FALSE]
  /\ \/ /\ upstream = "paid" /\ job' = [job EXCEPT ![w] = "none"]
        /\ Goto(w, "toPaid") \/ (~copy[w] /\ Goto(w, "persist"))
     \/ /\ upstream # "paid" /\ job[w] # "reconcile"
        /\ Goto(w, "cancelUpstream") /\ UNCHANGED job
     \/ job[w] # "reconcile" /\ Goto(w, "close") /\ UNCHANGED job
     \/ /\ job[w] = "reconcile" /\ job' = [job EXCEPT ![w] = "none"]
        /\ Goto(w, "idle")
  /\ UNCHANGED <<row, grants, audit, world, creator, owner, faults>>

\* CancelPayment is best effort; the provider refuses it for a paid order.
CancelPayment(w) ==
  /\ pc[w] = "cancelUpstream"
  /\ Goto(w, "close")
  /\ upstream' \in IF upstream = "open" THEN {"open", "closed"} ELSE {upstream}
  /\ UNCHANGED <<row, grants, audit, answered, groupActive, creator, job,
                 copy, owner, faults>>

\* The update of payment_trade_no has no status guard.
PersistTradeNo(w) ==
  /\ pc[w] = "persist"
  /\ tradeNo' = TRUE /\ Touch
  /\ Goto(w, "toPaid")
  /\ UNCHANGED <<orderType, status, paidAt, due, grants, audit, world,
                 creator, job, copy, owner, faults>>

\* Mutant: the update lost its status = PENDING condition.
CancelCoreUnguarded(w) ==
  /\ pc[w] = "close"
  /\ status' = IF job[w] = "expire" THEN "EXPIRED" ELSE "CANCELLED"
  /\ Touch /\ Return(w)
  /\ UNCHANGED <<orderType, paidAt, tradeNo, due, grants, audit, world,
                 creator, owner, faults>>

\* cancelCore's conditional update of a PENDING row.
CancelCore(w) ==
  /\ pc[w] = "close"
  /\ IF status = "PENDING"
       THEN /\ status' = IF job[w] = "expire" THEN "EXPIRED" ELSE "CANCELLED"
            /\ Touch
       ELSE UNCHANGED <<status, old, holders>>
  /\ Return(w)
  /\ UNCHANGED <<orderType, paidAt, tradeNo, due, grants, audit, world,
                 creator, owner, faults>>

-----------------------------------------------------------------------------
(* Fulfilment *)

Fulfillable == status \in {"PAID", "FAILED", "RECHARGING"}

\* An administrator retries a paid order.
RetryFulfillment(w) ==
  /\ pc[w] = "idle" /\ paidAt /\ Fulfillable
  /\ Goto(w, "exec")
  /\ UNCHANGED <<row, grants, audit, world, creator, job, copy, owner, faults>>

\* ExecuteBalanceFulfillment / ExecuteSubscriptionFulfillment up to the lease.
\* A completed order is nothing to do, any other status an error.
ExecuteFulfillment(w) ==
  /\ pc[w] = "exec"
  /\ \/ Fulfillable /\ Goto(w, "acquire") /\ UNCHANGED <<job, copy, answered>>
     \/ status = "COMPLETED" /\ Return(w) /\ Answer(w, "handled")
     \/ ~Fulfillable /\ status # "COMPLETED" /\ Return(w) /\ UNCHANGED answered
  /\ UNCHANGED <<row, grants, audit, upstream, groupActive, creator, owner, faults>>

\* The WHERE clause of the lease update.
LeaseFree == \/ status \in {"PAID", "FAILED"}
             \/ status = "RECHARGING" /\ old

\* Mutant: an order that is being processed counts as handled.
AcquireFulfillmentLeaseBusy(w) ==
  /\ pc[w] = "acquire"
  /\ \/ /\ LeaseFree
        /\ status' = "RECHARGING" /\ Touch /\ owner' = {w}
        /\ Goto(w, "reload") /\ UNCHANGED <<job, copy, answered>>
     \/ /\ ~LeaseFree /\ Return(w) /\ UNCHANGED <<status, old, holders, owner>>
        /\ Answer(w, "handled")
  /\ UNCHANGED <<orderType, paidAt, tradeNo, due, grants, audit, upstream,
                 groupActive, creator, faults>>

\* Without the lease a completed order is nothing to do, any other a conflict.
AcquireFulfillmentLease(w) ==
  /\ pc[w] = "acquire"
  /\ \/ /\ LeaseFree
        /\ status' = "RECHARGING" /\ Touch /\ owner' = {w}
        /\ Goto(w, "reload") /\ UNCHANGED <<job, copy, answered>>
     \/ /\ ~LeaseFree /\ Return(w) /\ UNCHANGED <<status, old, holders, owner>>
        /\ IF status = "COMPLETED" THEN Answer(w, "handled") ELSE UNCHANGED answered
  /\ UNCHANGED <<orderType, paidAt, tradeNo, due, grants, audit, upstream,
                 groupActive, creator, faults>>

\* The row is read again to learn the stored updated_at.
ReloadLease(w) ==
  /\ pc[w] = "reload"
  /\ IF status = "RECHARGING"
       THEN /\ holders' = holders \cup {w}
            /\ Goto(w, "do") /\ UNCHANGED <<job, copy>>
       ELSE Return(w) /\ UNCHANGED holders
  /\ UNCHANGED <<orderType, status, paidAt, tradeNo, old, due, grants, audit,
                 world, creator, owner, faults>>

\* Mutant: an existing code is taken for a redeemed one.
ResolveRedeemActionExists(w) ==
  /\ pc[w] = "do"
  /\ Goto(w, IF orderType = "subscription" THEN "assign"
             ELSE IF code = "absent" THEN "create" ELSE "rebate")
  /\ UNCHANGED <<row, grants, audit, world, creator, job, copy, owner, faults>>

\* doBalance's lookup of the redeem code (resolveRedeemAction), doSub's lookup
\* of the group, without which the order fails again on every attempt.
ResolveRedeemAction(w) ==
  /\ pc[w] = "do"
  /\ Goto(w, IF orderType = "subscription" THEN IF groupActive THEN "assign" ELSE "fail"
             ELSE CASE code = "absent" -> "create"
                    [] code = "unused" -> "redeem"
                    [] code = "used"   -> "rebate")
  /\ UNCHANGED <<row, grants, audit, world, creator, job, copy, owner, faults>>

\* The code column is unique: of two creators the second fails.
CreateCode(w) ==
  /\ pc[w] = "create"
  /\ IF code = "absent" THEN code' = "unused" /\ Goto(w, "redeem")
                        ELSE Goto(w, "fail") /\ UNCHANGED code
  /\ UNCHANGED <<row, granted, rebates, audit, world, creator, job, copy,
                 owner, faults>>

\* Mutant: Use without its WHERE status = 'unused'.
RedeemTwice(w) ==
  /\ pc[w] = "redeem"
  /\ code' = "used" /\ granted' = granted + 1
  /\ Goto(w, "rebate")
  /\ UNCHANGED <<row, rebates, audit, world, creator, job, copy, owner, faults>>

\* The redeem transaction: Use (WHERE status = 'unused') and UpdateBalance.
\* The row is read once more after the commit, and that read may fail.
RedeemForPaymentFulfillment(w) ==
  /\ pc[w] = "redeem"
  /\ IF code = "unused"
       THEN /\ code' = "used" /\ granted' = granted + 1
            /\ \/ Goto(w, "rebate") /\ UNCHANGED faults
               \/ Goto(w, "fail") /\ Fault
       ELSE Goto(w, "fail") /\ UNCHANGED <<code, granted, faults>>
  /\ UNCHANGED <<row, rebates, audit, world, creator, job, copy, owner>>

\* ensurePaymentSubscriptionAssigned: the days and their audit row are written
\* in one transaction, and (order_id, action) is unique.  The caches are
\* invalidated after the commit, and that may fail.
EnsureSubscriptionAssigned(w) ==
  /\ pc[w] = "assign"
  /\ IF "SUBSCRIPTION_ASSIGNED" \in audit
       THEN UNCHANGED <<granted, audit>>
       ELSE granted' = granted + 1 /\ audit' = audit \cup {"SUBSCRIPTION_ASSIGNED"}
  /\ \/ Goto(w, "rebate") /\ UNCHANGED faults
     \/ Goto(w, "fail") /\ Fault
  /\ UNCHANGED <<row, code, rebates, world, creator, job, copy, owner>>

\* Mutant: the rebate is accrued before and without claiming the audit row.
ApplyAffiliateRebateUnclaimed(w) ==
  /\ pc[w] = "rebate"
  /\ rebates' = rebates + 1
  /\ Goto(w, "complete")
  /\ UNCHANGED <<row, code, granted, audit, world, creator, job, copy, owner,
                 faults>>

\* applyAffiliateRebateForOrder: claiming the audit row and accruing the rebate
\* are one transaction.
ApplyAffiliateRebate(w) ==
  /\ pc[w] = "rebate"
  /\ IF "AFFILIATE_REBATE" \in audit
       THEN UNCHANGED <<rebates, audit>>
       ELSE rebates' = rebates + 1 /\ audit' = audit \cup {"AFFILIATE_REBATE"}
  /\ Goto(w, "complete")
  /\ UNCHANGED <<row, code, granted, world, creator, job, copy, owner, faults>>

\* A database, cache or lock error in a step that runs under the lease:
\* doBalance or doSub returns it, and markFailed follows.
FulfillmentError(w) ==
  /\ pc[w] \in LeasedSteps \ {"fail"} /\ Fault
  /\ Goto(w, "fail")
  /\ UNCHANGED <<row, grants, audit, world, creator, job, copy, owner>>

\* Mutant: the two updates are guarded by the order's id alone.
OwnsLeaseUnfenced(w) == w \in Workers

\* The WHERE clause of the two updates that end a fulfilment.
OwnsLease(w) == status = "RECHARGING" /\ w \in holders

MarkCompleted(w) ==
  /\ pc[w] = "complete"
  /\ \/ /\ OwnsLease(w)
        /\ status' = "COMPLETED" /\ Touch
        /\ audit' = audit \cup {"FULFILLMENT_SUCCESS"}
        /\ Return(w) /\ Answer(w, "handled")
     \/ /\ ~OwnsLease(w) /\ status = "COMPLETED"
        /\ Return(w) /\ Answer(w, "handled") /\ UNCHANGED <<status, old, holders, audit>>
     \/ /\ ~OwnsLease(w) /\ status # "COMPLETED"
        /\ Goto(w, "fail")
        /\ UNCHANGED <<status, old, holders, audit, job, copy, answered>>
  /\ UNCHANGED <<orderType, paidAt, tradeNo, due, grants, upstream, groupActive,
                 creator, owner, faults>>

MarkFailed(w) ==
  /\ pc[w] = "fail"
  /\ IF OwnsLease(w) THEN status' = "FAILED" /\ Touch
                     ELSE UNCHANGED <<status, old, holders>>
  /\ Return(w)
  /\ UNCHANGED <<orderType, paidAt, tradeNo, due, grants, audit, world,
                 creator, owner, faults>>

-----------------------------------------------------------------------------
(* Time and failures *)

\* The last winner of the lease is still at work on the order.
OwnerAtWork == \E w \in owner : pc[w] \in {"reload"} \cup LeasedSteps

\* Five minutes pass without an update of the row; only an expired or a
\* recharging order is ever compared with that age.  A lease is meant to outlive
\* the work under it: that an owner stalls for so long counts as a fault.
Age ==
  /\ ~old /\ status \in {"EXPIRED", "RECHARGING"}
  /\ old' = TRUE
  /\ IF status = "RECHARGING" /\ OwnerAtWork THEN Fault ELSE UNCHANGED faults
  /\ UNCHANGED <<orderType, status, paidAt, tradeNo, due, holders, grants,
                 audit, world, creator, worker, owner>>

Expire ==
  /\ ~due /\ due' = TRUE
  /\ UNCHANGED <<orderType, status, paidAt, tradeNo, old, holders, grants,
                 audit, world, creator, worker, owner, faults>>

\* A goroutine disappears (process crash, cancelled request), or one of its
\* calls outside the lease returns an error and it gives up: both leave the
\* database as it is, and a webhook without its 2xx answer.
Crash(w) ==
  /\ pc[w] # "idle" /\ Fault
  /\ Return(w)
  /\ holders' = holders \ {w}
  /\ UNCHANGED <<orderType, status, paidAt, tradeNo, old, due, grants, audit,
                 world, creator, owner>>

-----------------------------------------------------------------------------
WorkerStep(w) ==
  \/ ToPaid(w) \/ AlreadyProcessed(w)
  \/ QueryOrder(w) \/ CancelPayment(w) \/ PersistTradeNo(w) \/ CancelCore(w)
  \/ ExecuteFulfillment(w) \/ AcquireFulfillmentLease(w) \/ ReloadLease(w)
  \/ ResolveRedeemAction(w) \/ CreateCode(w) \/ RedeemForPaymentFulfillment(w)
  \/ EnsureSubscriptionAssigned(w) \/ ApplyAffiliateRebate(w)
  \/ MarkCompleted(w) \/ MarkFailed(w)

Request(w) ==
  \/ \E n \in Notifications : HandlePaymentNotification(w, n)
  \/ CancelOrder(w) \/ ExpireTimedOutOrders(w) \/ ReconcilePaid(w)
  \/ RetryFulfillment(w)

CreatorStep == CreatePayment \/ SavePaymentDetails \/ CreateOrderFailed

Next ==
  \/ CustomerPays \/ SetGroupStatus \/ NotificationUnheard
  \/ CreatorStep \/ Age \/ Expire
  \/ \E w \in Workers : Request(w) \/ WorkerStep(w) \/ FulfillmentError(w) \/ Crash(w)

Spec == Init /\ [][Next]_vars

\* The provider delivers the webhook of a payment again as long as no delivery
\* was answered 2xx; past that it may or may not.
Redeliver(w) == answered = "no" /\ HandlePaymentNotification(w, "genuine")

\* Started goroutines run and time passes; the server has a goroutine for each
\* delivery, so one that is ready again and again is served.
Fairness ==
  /\ \A w \in Workers : WF_vars(WorkerStep(w))
  /\ WF_vars(Age)
  /\ SF_vars(\E w \in Workers : Redeliver(w))

FairSpec == Spec /\ Fairness

-----------------------------------------------------------------------------
(* Properties *)

RowTypeOK ==
  /\ orderType \in OrderTypes /\ status \in Statuses
  /\ paidAt \in BOOLEAN /\ tradeNo \in BOOLEAN /\ old \in BOOLEAN /\ due \in BOOLEAN
  /\ holders \subseteq Workers

GrantTypeOK ==
  /\ code \in {"absent", "unused", "used"}
  /\ granted \in Nat /\ rebates \in Nat
  /\ audit \subseteq AuditActions

ActorTypeOK ==
  /\ upstream \in {"none", "open", "paid", "closed"}
  /\ answered \in {"no", "handled", "unheard"} /\ groupActive \in BOOLEAN
  /\ creator \in {"invoke", "save", "fail", "done", "gone"}
  /\ pc \in [Workers -> Steps] /\ job \in [Workers -> Jobs]
  /\ copy \in [Workers -> BOOLEAN]
  /\ owner \subseteq Workers /\ faults \in 0..MaxFaults

\* Every variable keeps its type.
TypeOK == RowTypeOK /\ GrantTypeOK /\ ActorTypeOK

\* Whatever webhooks, retries, crashes and lost leases do, the customer's
\* balance (or subscription days) and the inviter's rebate are granted at most
\* once for the order (doBalance, ensurePaymentSubscriptionAssigned,
\* applyAffiliateRebateForOrder).
GrantedAtMostOnce == granted <= 1 /\ rebates <= 1

\* Nothing is granted before the provider has the money and the row says so
\* (confirmPayment, toPaid).
GrantedOnlyIfPaid == granted + rebates > 0 => upstream = "paid" /\ paidAt

\* A COMPLETED order was granted and its rebate accrued: markCompleted is never
\* reached past a skipped or lost grant.
CompletedIsGranted == status = "COMPLETED" => granted = 1 /\ rebates = 1

PaidStep == paidAt => paidAt' /\ status' \notin {"PENDING", "CANCELLED", "EXPIRED"}

\* A paid order never goes back to a state of an unpaid one, although cancel and
\* expiry act on an answer of the provider that may be old (cancelCore).
PaidNeverReopened == [][PaidStep]_vars

FinalStep == status = "COMPLETED" => status' = "COMPLETED"

\* COMPLETED is final for everything in this module, CreateOrder's unconditional
\* FAILED included (payment_order.go:114).
CompletedIsFinal == [][FinalStep]_vars

\* Money the provider received ends as a completed order or as the audit row
\* that reports it came after the grace period, although the provider may stop
\* delivering at the first 2xx: no delivery is answered 2xx for an order another
\* goroutine merely holds, and none is left RECHARGING by a crash or a lost
\* lease.  Two gaps are excepted: a delivery answered 2xx although an error kept
\* it from being acted upon, and a subscription group that is out of service (once
\* it stays active, the order completes).
PaymentIsSettled ==
  upstream = "paid" ~> \/ status = "COMPLETED" \/ "PAYMENT_AFTER_EXPIRY" \in audit
                       \/ answered = "unheard" \/ ~groupActive

Contract == INSTANCE PaymentContract WITH
  received <- upstream = "paid", grants <- granted,
  rebates <- rebates, settled <- status = "COMPLETED"

\* The order keeps the payment contract: grant, rebate and completion happen
\* once, in this order, after the payment, and are never undone.
ImplementsContract == Contract!Spec

=============================================================================
