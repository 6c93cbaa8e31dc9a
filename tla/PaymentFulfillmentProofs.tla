---------------------- MODULE PaymentFulfillmentProofs ----------------------
(***************************************************************************)
(* Proofs about PaymentFulfillment for any set of workers and any number   *)
(* of faults.                                                              *)
(***************************************************************************)
EXTENDS PaymentFulfillment, TLAPS

\* Money first: a worker past the confirmation, and a row past PENDING, imply
\* a payment, and a payment implies that CreateOrder has returned its pay URL
\* and will not write the row any more.
MoneyInv ==
  /\ paidAt => upstream = "paid"
  /\ upstream = "paid" => creator = "done"
  /\ status \in {"PAID", "RECHARGING", "COMPLETED"} => paidAt
  /\ status \in {"PENDING", "CANCELLED", "EXPIRED"} => ~paidAt
  /\ status = "FAILED" => paidAt \/ creator = "gone"
  /\ \A w \in Workers :
       /\ pc[w] \in ConfirmSteps \cup LeasedSteps => upstream = "paid"
       /\ pc[w] \in {"reload"} \cup LeasedSteps => paidAt

\* The marks that make a grant idempotent agree with what was granted: the used
\* redeem code, the assignment audit row, the rebate audit row.
MarkInv ==
  /\ granted = IF code = "used" \/ "SUBSCRIPTION_ASSIGNED" \in audit THEN 1 ELSE 0
  /\ rebates = IF "AFFILIATE_REBATE" \in audit THEN 1 ELSE 0
  /\ orderType = "subscription" => code = "absent"
  /\ orderType = "balance" => "SUBSCRIPTION_ASSIGNED" \notin audit
  /\ \A w \in Workers :
       /\ pc[w] \in {"create", "redeem"} => orderType = "balance"
       /\ pc[w] = "assign" => orderType = "subscription"

\* Progress of the workers and of the row: nothing is skipped.
OrderInv ==
  /\ granted + rebates > 0 => paidAt
  /\ status = "COMPLETED" => granted = 1 /\ rebates = 1
  /\ \A w \in Workers :
       /\ pc[w] \in {"rebate", "complete"} => granted = 1
       /\ pc[w] = "complete" => rebates = 1

\* The inductive invariant.
IInv == TypeOK /\ MoneyInv /\ MarkInv /\ OrderInv


-----------------------------------------------------------------------------
\* Creation leaves the invariant: a PENDING row, no money, nothing granted.
LEMMA InitIInv == Init => IInv
<1> SUFFICES ASSUME Init PROVE IInv
  OBVIOUS
<1>1. RowTypeOK
  BY DEF Init, RowTypeOK, OrderTypes, Statuses
<1>2. GrantTypeOK
  BY DEF Init, GrantTypeOK
<1>3. ActorTypeOK
  BY MaxFaultsAssumption DEF Init, ActorTypeOK, Steps, Jobs
<1>4. MoneyInv
  BY DEF Init, MoneyInv, ConfirmSteps, LeasedSteps
<1>5. MarkInv /\ OrderInv
  BY DEF Init, MarkInv, OrderInv
<1>. QED BY <1>1, <1>2, <1>3, <1>4, <1>5 DEF IInv, TypeOK

\* Every step of every goroutine keeps the invariant.
LEMMA NextIInv == IInv /\ [Next]_vars => IInv'
<1> SUFFICES ASSUME IInv, [Next]_vars PROVE IInv'
  OBVIOUS
<1> USE MaxFaultsAssumption DEF IInv, TypeOK, row, grants, worker, world
<1>1. CASE CustomerPays
  <2>1. RowTypeOK'
    BY <1>1 DEF RowTypeOK, CustomerPays, OrderTypes, Statuses
  <2>2. GrantTypeOK'
    BY <1>1 DEF GrantTypeOK, CustomerPays, AuditActions
  <2>3. ActorTypeOK'
    BY <1>1 DEF ActorTypeOK, CustomerPays, Jobs, Steps, QuerySteps,
       ConfirmSteps, LeasedSteps
  <2>4. MoneyInv'
    BY <1>1 DEF MoneyInv, CustomerPays, ConfirmSteps, LeasedSteps, ActorTypeOK
  <2>5. MarkInv'
    BY <1>1 DEF MarkInv, CustomerPays, GrantTypeOK, RowTypeOK, OrderTypes,
       ActorTypeOK
  <2>6. OrderInv'
    BY <1>1 DEF OrderInv, CustomerPays, GrantTypeOK, ActorTypeOK, MarkInv,
       MoneyInv, LeasedSteps
  <2>. QED BY <2>1, <2>2, <2>3, <2>4, <2>5, <2>6
<1>2. CASE CreatePayment
  <2>1. RowTypeOK'
    BY <1>2 DEF RowTypeOK, CreatePayment, OrderTypes, Statuses
  <2>2. GrantTypeOK'
    BY <1>2 DEF GrantTypeOK, CreatePayment, AuditActions
  <2>3. ActorTypeOK'
    BY <1>2 DEF ActorTypeOK, CreatePayment, Jobs, Steps, QuerySteps,
       ConfirmSteps, LeasedSteps
  <2>4. MoneyInv'
    BY <1>2 DEF MoneyInv, CreatePayment, ConfirmSteps, LeasedSteps,
       ActorTypeOK
  <2>5. MarkInv'
    BY <1>2 DEF MarkInv, CreatePayment, GrantTypeOK, RowTypeOK, OrderTypes,
       ActorTypeOK
  <2>6. OrderInv'
    BY <1>2 DEF OrderInv, CreatePayment, GrantTypeOK, ActorTypeOK, MarkInv,
       MoneyInv, LeasedSteps
  <2>. QED BY <2>1, <2>2, <2>3, <2>4, <2>5, <2>6
<1>3. CASE SavePaymentDetails
  <2>1. RowTypeOK'
    BY <1>3 DEF RowTypeOK, SavePaymentDetails, Touch, OrderTypes, Statuses
  <2>2. GrantTypeOK'
    BY <1>3 DEF GrantTypeOK, SavePaymentDetails, Touch, AuditActions
  <2>3. ActorTypeOK'
    BY <1>3 DEF ActorTypeOK, SavePaymentDetails, Touch, Jobs, Steps,
       QuerySteps, ConfirmSteps, LeasedSteps
  <2>4. MoneyInv'
    BY <1>3 DEF MoneyInv, SavePaymentDetails, Touch, ConfirmSteps,
       LeasedSteps, ActorTypeOK
  <2>5. MarkInv'
    BY <1>3 DEF MarkInv, SavePaymentDetails, Touch, GrantTypeOK, RowTypeOK,
       OrderTypes, ActorTypeOK
  <2>6. OrderInv'
    BY <1>3 DEF OrderInv, SavePaymentDetails, Touch, GrantTypeOK, ActorTypeOK,
       MarkInv, MoneyInv, LeasedSteps
  <2>. QED BY <2>1, <2>2, <2>3, <2>4, <2>5, <2>6
<1>4. CASE CreateOrderFailed
  <2>1. RowTypeOK'
    BY <1>4 DEF RowTypeOK, CreateOrderFailed, Touch, OrderTypes, Statuses
  <2>2. GrantTypeOK'
    BY <1>4 DEF GrantTypeOK, CreateOrderFailed, Touch, AuditActions
  <2>3. ActorTypeOK'
    BY <1>4 DEF ActorTypeOK, CreateOrderFailed, Touch, Jobs, Steps,
       QuerySteps, ConfirmSteps, LeasedSteps
  <2>4. MoneyInv'
    BY <1>4 DEF MoneyInv, CreateOrderFailed, Touch, ConfirmSteps, LeasedSteps,
       ActorTypeOK
  <2>5. MarkInv'
    BY <1>4 DEF MarkInv, CreateOrderFailed, Touch, GrantTypeOK, RowTypeOK,
       OrderTypes, ActorTypeOK
  <2>6. OrderInv'
    BY <1>4 DEF OrderInv, CreateOrderFailed, Touch, GrantTypeOK, ActorTypeOK,
       MarkInv, MoneyInv, LeasedSteps
  <2>. QED BY <2>1, <2>2, <2>3, <2>4, <2>5, <2>6
<1>5. CASE Age
  <2>1. RowTypeOK'
    BY <1>5 DEF RowTypeOK, Age, Fault, OrderTypes, Statuses
  <2>2. GrantTypeOK'
    BY <1>5 DEF GrantTypeOK, Age, Fault, AuditActions
  <2>3. ActorTypeOK'
    BY <1>5 DEF ActorTypeOK, Age, Fault, Jobs, Steps, QuerySteps,
       ConfirmSteps, LeasedSteps
  <2>4. MoneyInv'
    BY <1>5 DEF MoneyInv, Age, Fault, ConfirmSteps, LeasedSteps, ActorTypeOK
  <2>5. MarkInv'
    BY <1>5 DEF MarkInv, Age, Fault, GrantTypeOK, RowTypeOK, OrderTypes,
       ActorTypeOK
  <2>6. OrderInv'
    BY <1>5 DEF OrderInv, Age, Fault, GrantTypeOK, ActorTypeOK, MarkInv,
       MoneyInv, LeasedSteps
  <2>. QED BY <2>1, <2>2, <2>3, <2>4, <2>5, <2>6
<1>6. CASE Expire
  <2>1. RowTypeOK'
    BY <1>6 DEF RowTypeOK, Expire, OrderTypes, Statuses
  <2>2. GrantTypeOK'
    BY <1>6 DEF GrantTypeOK, Expire, AuditActions
  <2>3. ActorTypeOK'
    BY <1>6 DEF ActorTypeOK, Expire, Jobs, Steps, QuerySteps, ConfirmSteps,
       LeasedSteps
  <2>4. MoneyInv'
    BY <1>6 DEF MoneyInv, Expire, ConfirmSteps, LeasedSteps, ActorTypeOK
  <2>5. MarkInv'
    BY <1>6 DEF MarkInv, Expire, GrantTypeOK, RowTypeOK, OrderTypes,
       ActorTypeOK
  <2>6. OrderInv'
    BY <1>6 DEF OrderInv, Expire, GrantTypeOK, ActorTypeOK, MarkInv, MoneyInv,
       LeasedSteps
  <2>. QED BY <2>1, <2>2, <2>3, <2>4, <2>5, <2>6
<1>7. ASSUME NEW w \in Workers, NEW n \in Notifications,
            HandlePaymentNotification(w, n)
     PROVE IInv'
  <2>1. RowTypeOK'
    BY <1>7 DEF RowTypeOK, HandlePaymentNotification, Goto, ConfirmPayment,
       Notifications, OrderTypes, Statuses
  <2>2. GrantTypeOK'
    BY <1>7 DEF GrantTypeOK, HandlePaymentNotification, Goto, ConfirmPayment,
       Notifications, AuditActions
  <2>3. ActorTypeOK'
    BY <1>7 DEF ActorTypeOK, HandlePaymentNotification, Goto, ConfirmPayment,
       Notifications, Jobs, Steps, QuerySteps, ConfirmSteps, LeasedSteps
  <2>4. MoneyInv'
    BY <1>7 DEF MoneyInv, HandlePaymentNotification, Goto, ConfirmPayment,
       Notifications, ConfirmSteps, LeasedSteps, ActorTypeOK
  <2>5. MarkInv'
    BY <1>7 DEF MarkInv, HandlePaymentNotification, Goto, ConfirmPayment,
       Notifications, GrantTypeOK, RowTypeOK, OrderTypes, ActorTypeOK
  <2>6. OrderInv'
    BY <1>7 DEF OrderInv, HandlePaymentNotification, Goto, ConfirmPayment,
       Notifications, GrantTypeOK, ActorTypeOK, MarkInv, MoneyInv, LeasedSteps
  <2>. QED BY <2>1, <2>2, <2>3, <2>4, <2>5, <2>6
<1>8. ASSUME NEW w \in Workers, ToPaid(w) PROVE IInv'
  <2>1. RowTypeOK'
    BY <1>8 DEF RowTypeOK, ToPaid, Goto, Touch, Payable, OrderTypes, Statuses
  <2>2. GrantTypeOK'
    BY <1>8 DEF GrantTypeOK, ToPaid, Goto, Touch, Payable, AuditActions
  <2>3. ActorTypeOK'
    BY <1>8 DEF ActorTypeOK, ToPaid, Goto, Touch, Payable, Jobs, Steps,
       QuerySteps, ConfirmSteps, LeasedSteps
  <2>4. MoneyInv'
    BY <1>8 DEF MoneyInv, ToPaid, Goto, Touch, Payable, ConfirmSteps,
       LeasedSteps, ActorTypeOK
  <2>5. MarkInv'
    BY <1>8 DEF MarkInv, ToPaid, Goto, Touch, Payable, GrantTypeOK, RowTypeOK,
       OrderTypes, ActorTypeOK
  <2>6. OrderInv'
    BY <1>8 DEF OrderInv, ToPaid, Goto, Touch, Payable, GrantTypeOK,
       ActorTypeOK, MarkInv, MoneyInv, LeasedSteps
  <2>. QED BY <2>1, <2>2, <2>3, <2>4, <2>5, <2>6
<1>9. ASSUME NEW w \in Workers, AlreadyProcessed(w) PROVE IInv'
  <2>1. RowTypeOK'
    BY <1>9 DEF RowTypeOK, AlreadyProcessed, Answer, Fault, Goto, Return, OrderTypes,
       Statuses
  <2>2. GrantTypeOK'
    BY <1>9 DEF GrantTypeOK, AlreadyProcessed, Answer, Fault, Goto, Return, AuditActions
  <2>3. ActorTypeOK'
    <3>1. pc' \in [Workers -> Steps] /\ job' \in [Workers -> Jobs] /\ copy' \in [Workers -> BOOLEAN]
      BY <1>9 DEF ActorTypeOK, AlreadyProcessed, Goto, Return, Jobs, Steps,
         ConfirmSteps
    <3>2. answered' \in {"no", "handled", "unheard"} /\ faults' \in 0..MaxFaults
      BY <1>9 DEF ActorTypeOK, AlreadyProcessed, Answer, Fault
    <3>. QED BY <1>9, <3>1, <3>2 DEF ActorTypeOK, AlreadyProcessed
  <2>4. MoneyInv'
    BY <1>9 DEF MoneyInv, AlreadyProcessed, Answer, Fault, Goto, Return, ConfirmSteps,
       LeasedSteps, ActorTypeOK
  <2>5. MarkInv'
    BY <1>9 DEF MarkInv, AlreadyProcessed, Answer, Fault, Goto, Return, GrantTypeOK,
       RowTypeOK, OrderTypes, ActorTypeOK
  <2>6. OrderInv'
    BY <1>9 DEF OrderInv, AlreadyProcessed, Answer, Fault, Goto, Return, GrantTypeOK,
       ActorTypeOK, MarkInv, MoneyInv, LeasedSteps
  <2>. QED BY <2>1, <2>2, <2>3, <2>4, <2>5, <2>6
<1>10. ASSUME NEW w \in Workers, QueryOrder(w) PROVE IInv'
  <2>1. RowTypeOK'
    BY <1>10 DEF RowTypeOK, QueryOrder, Goto, Return, OrderTypes, Statuses
  <2>2. GrantTypeOK'
    BY <1>10 DEF GrantTypeOK, QueryOrder, Goto, Return, AuditActions
  <2>3. ActorTypeOK'
    BY <1>10 DEF ActorTypeOK, QueryOrder, Goto, Return, Jobs, Steps,
       QuerySteps, ConfirmSteps, LeasedSteps
  <2>4. MoneyInv'
    BY <1>10 DEF MoneyInv, QueryOrder, Goto, Return, ConfirmSteps,
       LeasedSteps, ActorTypeOK
  <2>5. MarkInv'
    BY <1>10 DEF MarkInv, QueryOrder, Goto, Return, GrantTypeOK, RowTypeOK,
       OrderTypes, ActorTypeOK
  <2>6. OrderInv'
    BY <1>10 DEF OrderInv, QueryOrder, Goto, Return, GrantTypeOK, ActorTypeOK,
       MarkInv, MoneyInv, LeasedSteps
  <2>. QED BY <2>1, <2>2, <2>3, <2>4, <2>5, <2>6
<1>11. ASSUME NEW w \in Workers, CancelPayment(w) PROVE IInv'
  <2>1. RowTypeOK'
    BY <1>11 DEF RowTypeOK, CancelPayment, Goto, OrderTypes, Statuses
  <2>2. GrantTypeOK'
    BY <1>11 DEF GrantTypeOK, CancelPayment, Goto, AuditActions
  <2>3. ActorTypeOK'
    BY <1>11 DEF ActorTypeOK, CancelPayment, Goto, Jobs, Steps, QuerySteps,
       ConfirmSteps, LeasedSteps
  <2>4. MoneyInv'
    BY <1>11 DEF MoneyInv, CancelPayment, Goto, ConfirmSteps, LeasedSteps,
       ActorTypeOK
  <2>5. MarkInv'
    BY <1>11 DEF MarkInv, CancelPayment, Goto, GrantTypeOK, RowTypeOK,
       OrderTypes, ActorTypeOK
  <2>6. OrderInv'
    BY <1>11 DEF OrderInv, CancelPayment, Goto, GrantTypeOK, ActorTypeOK,
       MarkInv, MoneyInv, LeasedSteps
  <2>. QED BY <2>1, <2>2, <2>3, <2>4, <2>5, <2>6
<1>12. ASSUME NEW w \in Workers, PersistTradeNo(w) PROVE IInv'
  <2>1. RowTypeOK'
    BY <1>12 DEF RowTypeOK, PersistTradeNo, Goto, Touch, OrderTypes, Statuses
  <2>2. GrantTypeOK'
    BY <1>12 DEF GrantTypeOK, PersistTradeNo, Goto, Touch, AuditActions
  <2>3. ActorTypeOK'
    BY <1>12 DEF ActorTypeOK, PersistTradeNo, Goto, Touch, Jobs, Steps,
       QuerySteps, ConfirmSteps, LeasedSteps
  <2>4. MoneyInv'
    BY <1>12 DEF MoneyInv, PersistTradeNo, Goto, Touch, ConfirmSteps,
       LeasedSteps, ActorTypeOK
  <2>5. MarkInv'
    BY <1>12 DEF MarkInv, PersistTradeNo, Goto, Touch, GrantTypeOK, RowTypeOK,
       OrderTypes, ActorTypeOK
  <2>6. OrderInv'
    BY <1>12 DEF OrderInv, PersistTradeNo, Goto, Touch, GrantTypeOK,
       ActorTypeOK, MarkInv, MoneyInv, LeasedSteps
  <2>. QED BY <2>1, <2>2, <2>3, <2>4, <2>5, <2>6
<1>13. ASSUME NEW w \in Workers, CancelCore(w) PROVE IInv'
  <2>1. RowTypeOK'
    BY <1>13 DEF RowTypeOK, CancelCore, Return, Touch, OrderTypes, Statuses
  <2>2. GrantTypeOK'
    BY <1>13 DEF GrantTypeOK, CancelCore, Return, Touch, AuditActions
  <2>3. ActorTypeOK'
    BY <1>13 DEF ActorTypeOK, CancelCore, Return, Touch, Jobs, Steps,
       QuerySteps, ConfirmSteps, LeasedSteps
  <2>4. MoneyInv'
    BY <1>13 DEF MoneyInv, CancelCore, Return, Touch, ConfirmSteps,
       LeasedSteps, ActorTypeOK
  <2>5. MarkInv'
    BY <1>13 DEF MarkInv, CancelCore, Return, Touch, GrantTypeOK, RowTypeOK,
       OrderTypes, ActorTypeOK
  <2>6. OrderInv'
    BY <1>13 DEF OrderInv, CancelCore, Return, Touch, GrantTypeOK,
       ActorTypeOK, MarkInv, MoneyInv, LeasedSteps
  <2>. QED BY <2>1, <2>2, <2>3, <2>4, <2>5, <2>6
<1>14. ASSUME NEW w \in Workers, ExecuteFulfillment(w) PROVE IInv'
  <2>1. RowTypeOK'
    BY <1>14 DEF RowTypeOK, ExecuteFulfillment, Answer, Goto, Return, Fulfillable,
       OrderTypes, Statuses
  <2>2. GrantTypeOK'
    BY <1>14 DEF GrantTypeOK, ExecuteFulfillment, Answer, Goto, Return, Fulfillable,
       AuditActions
  <2>3. ActorTypeOK'
    BY <1>14 DEF ActorTypeOK, ExecuteFulfillment, Answer, Goto, Return, Fulfillable,
       Jobs, Steps, QuerySteps, ConfirmSteps, LeasedSteps
  <2>4. MoneyInv'
    BY <1>14 DEF MoneyInv, ExecuteFulfillment, Answer, Goto, Return, Fulfillable,
       ConfirmSteps, LeasedSteps, ActorTypeOK
  <2>5. MarkInv'
    BY <1>14 DEF MarkInv, ExecuteFulfillment, Answer, Goto, Return, Fulfillable,
       GrantTypeOK, RowTypeOK, OrderTypes, ActorTypeOK
  <2>6. OrderInv'
    BY <1>14 DEF OrderInv, ExecuteFulfillment, Answer, Goto, Return, Fulfillable,
       GrantTypeOK, ActorTypeOK, MarkInv, MoneyInv, LeasedSteps
  <2>. QED BY <2>1, <2>2, <2>3, <2>4, <2>5, <2>6
<1>15. ASSUME NEW w \in Workers, AcquireFulfillmentLease(w) PROVE IInv'
  <2>1. RowTypeOK'
    BY <1>15 DEF RowTypeOK, AcquireFulfillmentLease, Answer, Goto, Return, Touch,
       LeaseFree, OrderTypes, Statuses
  <2>2. GrantTypeOK'
    BY <1>15 DEF GrantTypeOK, AcquireFulfillmentLease, Answer, Goto, Return, Touch,
       LeaseFree, AuditActions
  <2>3. ActorTypeOK'
    BY <1>15 DEF ActorTypeOK, AcquireFulfillmentLease, Answer, Goto, Return, Touch,
       LeaseFree, Jobs, Steps, QuerySteps, ConfirmSteps, LeasedSteps
  <2>4. MoneyInv'
    BY <1>15 DEF MoneyInv, AcquireFulfillmentLease, Answer, Goto, Return, Touch,
       LeaseFree, ConfirmSteps, LeasedSteps, ActorTypeOK
  <2>5. MarkInv'
    BY <1>15 DEF MarkInv, AcquireFulfillmentLease, Answer, Goto, Return, Touch,
       LeaseFree, GrantTypeOK, RowTypeOK, OrderTypes, ActorTypeOK
  <2>6. OrderInv'
    BY <1>15 DEF OrderInv, AcquireFulfillmentLease, Answer, Goto, Return, Touch,
       LeaseFree, GrantTypeOK, ActorTypeOK, MarkInv, MoneyInv, LeasedSteps
  <2>. QED BY <2>1, <2>2, <2>3, <2>4, <2>5, <2>6
<1>16. ASSUME NEW w \in Workers, ReloadLease(w) PROVE IInv'
  <2>1. RowTypeOK'
    BY <1>16 DEF RowTypeOK, ReloadLease, Goto, Return, OrderTypes, Statuses
  <2>2. GrantTypeOK'
    BY <1>16 DEF GrantTypeOK, ReloadLease, Goto, Return, AuditActions
  <2>3. ActorTypeOK'
    BY <1>16 DEF ActorTypeOK, ReloadLease, Goto, Return, Jobs, Steps,
       QuerySteps, ConfirmSteps, LeasedSteps
  <2>4. MoneyInv'
    BY <1>16 DEF MoneyInv, ReloadLease, Goto, Return, ConfirmSteps,
       LeasedSteps, ActorTypeOK
  <2>5. MarkInv'
    BY <1>16 DEF MarkInv, ReloadLease, Goto, Return, GrantTypeOK, RowTypeOK,
       OrderTypes, ActorTypeOK
  <2>6. OrderInv'
    BY <1>16 DEF OrderInv, ReloadLease, Goto, Return, GrantTypeOK,
       ActorTypeOK, MarkInv, MoneyInv, LeasedSteps
  <2>. QED BY <2>1, <2>2, <2>3, <2>4, <2>5, <2>6
<1>17. ASSUME NEW w \in Workers, ResolveRedeemAction(w) PROVE IInv'
  <2>1. RowTypeOK'
    BY <1>17 DEF RowTypeOK, ResolveRedeemAction, Goto, OrderTypes, Statuses
  <2>2. GrantTypeOK'
    BY <1>17 DEF GrantTypeOK, ResolveRedeemAction, Goto, AuditActions
  <2>3. ActorTypeOK'
    BY <1>17 DEF ActorTypeOK, ResolveRedeemAction, Goto, Jobs, Steps,
       QuerySteps, ConfirmSteps, LeasedSteps, RowTypeOK, GrantTypeOK,
       OrderTypes
  <2>4. MoneyInv'
    BY <1>17 DEF MoneyInv, ResolveRedeemAction, Goto, ConfirmSteps,
       LeasedSteps, ActorTypeOK
  <2>5. MarkInv'
    <3>1. CASE orderType = "subscription"
      BY <1>17, <3>1 DEF MarkInv, ResolveRedeemAction, Goto, ActorTypeOK
    <3>2. CASE orderType = "balance"
      BY <1>17, <3>2 DEF MarkInv, ResolveRedeemAction, Goto, GrantTypeOK, ActorTypeOK
    <3>. QED BY <3>1, <3>2 DEF RowTypeOK, OrderTypes
  <2>6. OrderInv'
    BY <1>17 DEF OrderInv, ResolveRedeemAction, Goto, GrantTypeOK,
       ActorTypeOK, MarkInv, MoneyInv, LeasedSteps
  <2>. QED BY <2>1, <2>2, <2>3, <2>4, <2>5, <2>6
<1>18. ASSUME NEW w \in Workers, CreateCode(w) PROVE IInv'
  <2>1. RowTypeOK'
    BY <1>18 DEF RowTypeOK, CreateCode, Goto, OrderTypes, Statuses
  <2>2. GrantTypeOK'
    BY <1>18 DEF GrantTypeOK, CreateCode, Goto, AuditActions
  <2>3. ActorTypeOK'
    BY <1>18 DEF ActorTypeOK, CreateCode, Goto, Jobs, Steps, QuerySteps,
       ConfirmSteps, LeasedSteps
  <2>4. MoneyInv'
    BY <1>18 DEF MoneyInv, CreateCode, Goto, ConfirmSteps, LeasedSteps,
       ActorTypeOK
  <2>5. MarkInv'
    BY <1>18 DEF MarkInv, CreateCode, Goto, GrantTypeOK, RowTypeOK,
       OrderTypes, ActorTypeOK
  <2>6. OrderInv'
    BY <1>18 DEF OrderInv, CreateCode, Goto, GrantTypeOK, ActorTypeOK,
       MarkInv, MoneyInv, LeasedSteps
  <2>. QED BY <2>1, <2>2, <2>3, <2>4, <2>5, <2>6
<1>19. ASSUME NEW w \in Workers, RedeemForPaymentFulfillment(w) PROVE IInv'
  <2>1. RowTypeOK'
    BY <1>19 DEF RowTypeOK, RedeemForPaymentFulfillment, Goto, Fault,
       OrderTypes, Statuses
  <2>2. GrantTypeOK'
    BY <1>19 DEF GrantTypeOK, RedeemForPaymentFulfillment, Goto, Fault,
       AuditActions
  <2>3. ActorTypeOK'
    BY <1>19 DEF ActorTypeOK, RedeemForPaymentFulfillment, Goto, Fault, Jobs,
       Steps, QuerySteps, ConfirmSteps, LeasedSteps
  <2>4. MoneyInv'
    BY <1>19 DEF MoneyInv, RedeemForPaymentFulfillment, Goto, Fault,
       ConfirmSteps, LeasedSteps, ActorTypeOK
  <2>5. MarkInv'
    BY <1>19 DEF MarkInv, RedeemForPaymentFulfillment, Goto, Fault,
       GrantTypeOK, RowTypeOK, OrderTypes, ActorTypeOK
  <2>6. OrderInv'
    BY <1>19 DEF OrderInv, RedeemForPaymentFulfillment, Goto, Fault,
       GrantTypeOK, ActorTypeOK, MarkInv, MoneyInv, LeasedSteps
  <2>. QED BY <2>1, <2>2, <2>3, <2>4, <2>5, <2>6
<1>20. ASSUME NEW w \in Workers, EnsureSubscriptionAssigned(w) PROVE IInv'
  <2>1. RowTypeOK'
    BY <1>20 DEF RowTypeOK, EnsureSubscriptionAssigned, Goto, Fault,
       OrderTypes, Statuses
  <2>2. GrantTypeOK'
    <3>1. audit' \subseteq AuditActions
      BY <1>20 DEF GrantTypeOK, EnsureSubscriptionAssigned, AuditActions
    <3>2. granted' \in Nat
      BY <1>20 DEF GrantTypeOK, EnsureSubscriptionAssigned
    <3>. QED BY <1>20, <3>1, <3>2 DEF GrantTypeOK, EnsureSubscriptionAssigned
  <2>3. ActorTypeOK'
    BY <1>20 DEF ActorTypeOK, EnsureSubscriptionAssigned, Goto, Fault, Jobs,
       Steps, QuerySteps, ConfirmSteps, LeasedSteps
  <2>4. MoneyInv'
    BY <1>20 DEF MoneyInv, EnsureSubscriptionAssigned, Goto, Fault,
       ConfirmSteps, LeasedSteps, ActorTypeOK
  <2>5. MarkInv'
    BY <1>20 DEF MarkInv, EnsureSubscriptionAssigned, Goto, Fault,
       GrantTypeOK, RowTypeOK, OrderTypes, ActorTypeOK
  <2>6. OrderInv'
    BY <1>20 DEF OrderInv, EnsureSubscriptionAssigned, Goto, Fault,
       GrantTypeOK, ActorTypeOK, MarkInv, MoneyInv, LeasedSteps
  <2>. QED BY <2>1, <2>2, <2>3, <2>4, <2>5, <2>6
<1>21. ASSUME NEW w \in Workers, ApplyAffiliateRebate(w) PROVE IInv'
  <2>1. RowTypeOK'
    BY <1>21 DEF RowTypeOK, ApplyAffiliateRebate, Goto, OrderTypes, Statuses
  <2>2. GrantTypeOK'
    <3>1. audit' \subseteq AuditActions
      BY <1>21 DEF GrantTypeOK, ApplyAffiliateRebate, AuditActions
    <3>2. rebates' \in Nat
      BY <1>21 DEF GrantTypeOK, ApplyAffiliateRebate
    <3>. QED BY <1>21, <3>1, <3>2 DEF GrantTypeOK, ApplyAffiliateRebate
  <2>3. ActorTypeOK'
    BY <1>21 DEF ActorTypeOK, ApplyAffiliateRebate, Goto, Jobs, Steps,
       QuerySteps, ConfirmSteps, LeasedSteps
  <2>4. MoneyInv'
    BY <1>21 DEF MoneyInv, ApplyAffiliateRebate, Goto, ConfirmSteps,
       LeasedSteps, ActorTypeOK
  <2>5. MarkInv'
    BY <1>21 DEF MarkInv, ApplyAffiliateRebate, Goto, GrantTypeOK, RowTypeOK,
       OrderTypes, ActorTypeOK
  <2>6. OrderInv'
    BY <1>21 DEF OrderInv, ApplyAffiliateRebate, Goto, GrantTypeOK,
       ActorTypeOK, MarkInv, MoneyInv, LeasedSteps
  <2>. QED BY <2>1, <2>2, <2>3, <2>4, <2>5, <2>6
<1>22. ASSUME NEW w \in Workers, MarkCompleted(w) PROVE IInv'
  <2>1. RowTypeOK'
    BY <1>22 DEF RowTypeOK, MarkCompleted, Answer, Goto, Return, Touch, OwnsLease,
       OrderTypes, Statuses
  <2>2. GrantTypeOK'
    BY <1>22 DEF GrantTypeOK, MarkCompleted, Answer, Goto, Return, Touch, OwnsLease,
       AuditActions
  <2>3. ActorTypeOK'
    BY <1>22 DEF ActorTypeOK, MarkCompleted, Answer, Goto, Return, Touch, OwnsLease,
       Jobs, Steps, QuerySteps, ConfirmSteps, LeasedSteps
  <2>4. MoneyInv'
    BY <1>22 DEF MoneyInv, MarkCompleted, Answer, Goto, Return, Touch, OwnsLease,
       ConfirmSteps, LeasedSteps, ActorTypeOK
  <2>5. MarkInv'
    BY <1>22 DEF MarkInv, MarkCompleted, Answer, Goto, Return, Touch, OwnsLease,
       GrantTypeOK, RowTypeOK, OrderTypes, ActorTypeOK
  <2>6. OrderInv'
    BY <1>22 DEF OrderInv, MarkCompleted, Answer, Goto, Return, Touch, OwnsLease,
       GrantTypeOK, ActorTypeOK, MarkInv, MoneyInv, LeasedSteps
  <2>. QED BY <2>1, <2>2, <2>3, <2>4, <2>5, <2>6
<1>23. ASSUME NEW w \in Workers, MarkFailed(w) PROVE IInv'
  <2>1. RowTypeOK'
    BY <1>23 DEF RowTypeOK, MarkFailed, Return, Touch, OwnsLease, OrderTypes,
       Statuses
  <2>2. GrantTypeOK'
    BY <1>23 DEF GrantTypeOK, MarkFailed, Return, Touch, OwnsLease,
       AuditActions
  <2>3. ActorTypeOK'
    BY <1>23 DEF ActorTypeOK, MarkFailed, Return, Touch, OwnsLease, Jobs,
       Steps, QuerySteps, ConfirmSteps, LeasedSteps
  <2>4. MoneyInv'
    BY <1>23 DEF MoneyInv, MarkFailed, Return, Touch, OwnsLease, ConfirmSteps,
       LeasedSteps, ActorTypeOK
  <2>5. MarkInv'
    BY <1>23 DEF MarkInv, MarkFailed, Return, Touch, OwnsLease, GrantTypeOK,
       RowTypeOK, OrderTypes, ActorTypeOK
  <2>6. OrderInv'
    BY <1>23 DEF OrderInv, MarkFailed, Return, Touch, OwnsLease, GrantTypeOK,
       ActorTypeOK, MarkInv, MoneyInv, LeasedSteps
  <2>. QED BY <2>1, <2>2, <2>3, <2>4, <2>5, <2>6
<1>24. ASSUME NEW w \in Workers, CancelOrder(w) PROVE IInv'
  <2>1. RowTypeOK'
    BY <1>24 DEF RowTypeOK, CancelOrder, StartQuery, Goto, OrderTypes,
       Statuses
  <2>2. GrantTypeOK'
    BY <1>24 DEF GrantTypeOK, CancelOrder, StartQuery, Goto, AuditActions
  <2>3. ActorTypeOK'
    BY <1>24 DEF ActorTypeOK, CancelOrder, StartQuery, Goto, Jobs, Steps,
       QuerySteps, ConfirmSteps, LeasedSteps, RowTypeOK
  <2>4. MoneyInv'
    BY <1>24 DEF MoneyInv, CancelOrder, StartQuery, Goto, ConfirmSteps,
       LeasedSteps, ActorTypeOK
  <2>5. MarkInv'
    BY <1>24 DEF MarkInv, CancelOrder, StartQuery, Goto, GrantTypeOK,
       RowTypeOK, OrderTypes, ActorTypeOK
  <2>6. OrderInv'
    BY <1>24 DEF OrderInv, CancelOrder, StartQuery, Goto, GrantTypeOK,
       ActorTypeOK, MarkInv, MoneyInv, LeasedSteps
  <2>. QED BY <2>1, <2>2, <2>3, <2>4, <2>5, <2>6
<1>25. ASSUME NEW w \in Workers, ExpireTimedOutOrders(w) PROVE IInv'
  <2>1. RowTypeOK'
    BY <1>25 DEF RowTypeOK, ExpireTimedOutOrders, StartQuery, Goto,
       OrderTypes, Statuses
  <2>2. GrantTypeOK'
    BY <1>25 DEF GrantTypeOK, ExpireTimedOutOrders, StartQuery, Goto,
       AuditActions
  <2>3. ActorTypeOK'
    BY <1>25 DEF ActorTypeOK, ExpireTimedOutOrders, StartQuery, Goto, Jobs,
       Steps, QuerySteps, ConfirmSteps, LeasedSteps, RowTypeOK
  <2>4. MoneyInv'
    BY <1>25 DEF MoneyInv, ExpireTimedOutOrders, StartQuery, Goto,
       ConfirmSteps, LeasedSteps, ActorTypeOK
  <2>5. MarkInv'
    BY <1>25 DEF MarkInv, ExpireTimedOutOrders, StartQuery, Goto, GrantTypeOK,
       RowTypeOK, OrderTypes, ActorTypeOK
  <2>6. OrderInv'
    BY <1>25 DEF OrderInv, ExpireTimedOutOrders, StartQuery, Goto,
       GrantTypeOK, ActorTypeOK, MarkInv, MoneyInv, LeasedSteps
  <2>. QED BY <2>1, <2>2, <2>3, <2>4, <2>5, <2>6
<1>26. ASSUME NEW w \in Workers, ReconcilePaid(w) PROVE IInv'
  <2>1. RowTypeOK'
    BY <1>26 DEF RowTypeOK, ReconcilePaid, StartQuery, Goto, OrderTypes,
       Statuses
  <2>2. GrantTypeOK'
    BY <1>26 DEF GrantTypeOK, ReconcilePaid, StartQuery, Goto, AuditActions
  <2>3. ActorTypeOK'
    BY <1>26 DEF ActorTypeOK, ReconcilePaid, StartQuery, Goto, Jobs, Steps,
       QuerySteps, ConfirmSteps, LeasedSteps, RowTypeOK
  <2>4. MoneyInv'
    BY <1>26 DEF MoneyInv, ReconcilePaid, StartQuery, Goto, ConfirmSteps,
       LeasedSteps, ActorTypeOK
  <2>5. MarkInv'
    BY <1>26 DEF MarkInv, ReconcilePaid, StartQuery, Goto, GrantTypeOK,
       RowTypeOK, OrderTypes, ActorTypeOK
  <2>6. OrderInv'
    BY <1>26 DEF OrderInv, ReconcilePaid, StartQuery, Goto, GrantTypeOK,
       ActorTypeOK, MarkInv, MoneyInv, LeasedSteps
  <2>. QED BY <2>1, <2>2, <2>3, <2>4, <2>5, <2>6
<1>27. ASSUME NEW w \in Workers, RetryFulfillment(w) PROVE IInv'
  <2>1. RowTypeOK'
    BY <1>27 DEF RowTypeOK, RetryFulfillment, Goto, Fulfillable, OrderTypes,
       Statuses
  <2>2. GrantTypeOK'
    BY <1>27 DEF GrantTypeOK, RetryFulfillment, Goto, Fulfillable,
       AuditActions
  <2>3. ActorTypeOK'
    BY <1>27 DEF ActorTypeOK, RetryFulfillment, Goto, Fulfillable, Jobs,
       Steps, QuerySteps, ConfirmSteps, LeasedSteps
  <2>4. MoneyInv'
    BY <1>27 DEF MoneyInv, RetryFulfillment, Goto, Fulfillable, ConfirmSteps,
       LeasedSteps, ActorTypeOK
  <2>5. MarkInv'
    BY <1>27 DEF MarkInv, RetryFulfillment, Goto, Fulfillable, GrantTypeOK,
       RowTypeOK, OrderTypes, ActorTypeOK
  <2>6. OrderInv'
    BY <1>27 DEF OrderInv, RetryFulfillment, Goto, Fulfillable, GrantTypeOK,
       ActorTypeOK, MarkInv, MoneyInv, LeasedSteps
  <2>. QED BY <2>1, <2>2, <2>3, <2>4, <2>5, <2>6
<1>28. ASSUME NEW w \in Workers, FulfillmentError(w) PROVE IInv'
  <2>1. RowTypeOK'
    BY <1>28 DEF RowTypeOK, FulfillmentError, Goto, Fault, OrderTypes,
       Statuses
  <2>2. GrantTypeOK'
    BY <1>28 DEF GrantTypeOK, FulfillmentError, Goto, Fault, AuditActions
  <2>3. ActorTypeOK'
    BY <1>28 DEF ActorTypeOK, FulfillmentError, Goto, Fault, Jobs, Steps,
       QuerySteps, ConfirmSteps, LeasedSteps
  <2>4. MoneyInv'
    BY <1>28 DEF MoneyInv, FulfillmentError, Goto, Fault, ConfirmSteps,
       LeasedSteps, ActorTypeOK
  <2>5. MarkInv'
    BY <1>28 DEF MarkInv, FulfillmentError, Goto, Fault, GrantTypeOK,
       RowTypeOK, OrderTypes, ActorTypeOK
  <2>6. OrderInv'
    BY <1>28 DEF OrderInv, FulfillmentError, Goto, Fault, GrantTypeOK,
       ActorTypeOK, MarkInv, MoneyInv, LeasedSteps
  <2>. QED BY <2>1, <2>2, <2>3, <2>4, <2>5, <2>6
<1>29. ASSUME NEW w \in Workers, Crash(w) PROVE IInv'
  <2>1. RowTypeOK'
    BY <1>29 DEF RowTypeOK, Crash, Return, Fault, OrderTypes, Statuses
  <2>2. GrantTypeOK'
    BY <1>29 DEF GrantTypeOK, Crash, Return, Fault, AuditActions
  <2>3. ActorTypeOK'
    BY <1>29 DEF ActorTypeOK, Crash, Return, Fault, Jobs, Steps, QuerySteps,
       ConfirmSteps, LeasedSteps
  <2>4. MoneyInv'
    BY <1>29 DEF MoneyInv, Crash, Return, Fault, ConfirmSteps, LeasedSteps,
       ActorTypeOK
  <2>5. MarkInv'
    BY <1>29 DEF MarkInv, Crash, Return, Fault, GrantTypeOK, RowTypeOK,
       OrderTypes, ActorTypeOK
  <2>6. OrderInv'
    BY <1>29 DEF OrderInv, Crash, Return, Fault, GrantTypeOK, ActorTypeOK,
       MarkInv, MoneyInv, LeasedSteps
  <2>. QED BY <2>1, <2>2, <2>3, <2>4, <2>5, <2>6
<1>30. CASE SetGroupStatus
  <2>1. RowTypeOK'
    BY <1>30 DEF RowTypeOK, SetGroupStatus, OrderTypes, Statuses
  <2>2. GrantTypeOK'
    BY <1>30 DEF GrantTypeOK, SetGroupStatus, AuditActions
  <2>3. ActorTypeOK'
    BY <1>30 DEF ActorTypeOK, SetGroupStatus, Jobs, Steps, QuerySteps, ConfirmSteps,
       LeasedSteps
  <2>4. MoneyInv'
    BY <1>30 DEF MoneyInv, SetGroupStatus, ConfirmSteps, LeasedSteps, ActorTypeOK
  <2>5. MarkInv'
    BY <1>30 DEF MarkInv, SetGroupStatus, GrantTypeOK, RowTypeOK, OrderTypes,
       ActorTypeOK
  <2>6. OrderInv'
    BY <1>30 DEF OrderInv, SetGroupStatus, GrantTypeOK, ActorTypeOK, MarkInv, MoneyInv,
       LeasedSteps
  <2>. QED BY <2>1, <2>2, <2>3, <2>4, <2>5, <2>6
<1>31. CASE NotificationUnheard
  <2>1. RowTypeOK'
    BY <1>31 DEF RowTypeOK, NotificationUnheard, Fault, OrderTypes, Statuses
  <2>2. GrantTypeOK'
    BY <1>31 DEF GrantTypeOK, NotificationUnheard, Fault, AuditActions
  <2>3. ActorTypeOK'
    BY <1>31 DEF ActorTypeOK, NotificationUnheard, Fault, Jobs, Steps, QuerySteps, ConfirmSteps,
       LeasedSteps
  <2>4. MoneyInv'
    BY <1>31 DEF MoneyInv, NotificationUnheard, Fault, ConfirmSteps, LeasedSteps, ActorTypeOK
  <2>5. MarkInv'
    BY <1>31 DEF MarkInv, NotificationUnheard, Fault, GrantTypeOK, RowTypeOK, OrderTypes,
       ActorTypeOK
  <2>6. OrderInv'
    BY <1>31
       DEF OrderInv, NotificationUnheard, Fault, GrantTypeOK, ActorTypeOK, MarkInv, MoneyInv,
       LeasedSteps
  <2>. QED BY <2>1, <2>2, <2>3, <2>4, <2>5, <2>6
<1>32. CASE UNCHANGED vars
  <2>1. RowTypeOK'
    BY <1>32 DEF RowTypeOK, vars, OrderTypes, Statuses
  <2>2. GrantTypeOK'
    BY <1>32 DEF GrantTypeOK, vars, AuditActions
  <2>3. ActorTypeOK'
    BY <1>32 DEF ActorTypeOK, vars, Jobs, Steps, QuerySteps, ConfirmSteps,
       LeasedSteps
  <2>4. MoneyInv'
    BY <1>32 DEF MoneyInv, vars, ConfirmSteps, LeasedSteps, ActorTypeOK
  <2>5. MarkInv'
    BY <1>32 DEF MarkInv, vars, GrantTypeOK, RowTypeOK, OrderTypes,
       ActorTypeOK
  <2>6. OrderInv'
    BY <1>32 DEF OrderInv, vars, GrantTypeOK, ActorTypeOK, MarkInv, MoneyInv,
       LeasedSteps
  <2>. QED BY <2>1, <2>2, <2>3, <2>4, <2>5, <2>6
<1>. QED
  BY <1>1, <1>2, <1>3, <1>4, <1>5, <1>6, <1>7, <1>8, <1>9, <1>10,
     <1>11, <1>12, <1>13, <1>14, <1>15, <1>16, <1>17, <1>18, <1>19, <1>20,
     <1>21, <1>22, <1>23, <1>24, <1>25, <1>26, <1>27, <1>28, <1>29, <1>30,
     <1>31, <1>32
  DEF Next, CreatorStep, Request, WorkerStep

\* The inductive invariant holds in every reachable state.
THEOREM Invariance == Spec => []IInv
BY InitIInv, NextIInv, PTL DEF Spec

\* Every variable keeps its type, for any number of workers and faults.
THEOREM TypeCorrect == Spec => []TypeOK
<1>1. IInv => TypeOK
  BY DEF IInv
<1>. QED BY <1>1, Invariance, PTL

\* However many webhooks, retries and crashes there are, the purchase and the
\* rebate of an order are granted at most once.
THEOREM AtMostOnce == Spec => []GrantedAtMostOnce
<1>1. IInv => GrantedAtMostOnce
  BY DEF IInv, MarkInv, GrantedAtMostOnce
<1>. QED BY <1>1, Invariance, PTL

\* Nothing is granted for an order the provider was not paid for.
THEOREM OnlyIfPaid == Spec => []GrantedOnlyIfPaid
<1>1. IInv => GrantedOnlyIfPaid
  BY DEF IInv, MoneyInv, OrderInv, GrantedOnlyIfPaid
<1>. QED BY <1>1, Invariance, PTL

\* An order is COMPLETED only after its purchase and its rebate were granted.
THEOREM CompletedGranted == Spec => []CompletedIsGranted
<1>1. IInv => CompletedIsGranted
  BY DEF IInv, OrderInv, CompletedIsGranted
<1>. QED BY <1>1, Invariance, PTL

-----------------------------------------------------------------------------
\* Every step is a step of the contract or leaves its state alone.
LEMMA StepContract ==
  IInv /\ [Next]_vars => [Contract!Next]_(Contract!vars)
<1> SUFFICES ASSUME IInv, [Next]_vars PROVE [Contract!Next]_(Contract!vars)
  OBVIOUS
<1> USE DEF IInv, TypeOK, row, grants, worker, world, Contract!Next, Contract!vars,
           Contract!Receive, Contract!Grant,
        Contract!Rebate, Contract!Settle
<1>1. CASE CustomerPays
  BY <1>1 DEF CustomerPays, MoneyInv, MarkInv, OrderInv, RowTypeOK,
     GrantTypeOK, ActorTypeOK, ConfirmSteps, LeasedSteps
<1>2. CASE CreatePayment
  BY <1>2 DEF CreatePayment, MoneyInv, MarkInv, OrderInv, RowTypeOK,
     GrantTypeOK, ActorTypeOK, ConfirmSteps, LeasedSteps
<1>3. CASE SavePaymentDetails
  BY <1>3 DEF SavePaymentDetails, Touch, MoneyInv, MarkInv, OrderInv,
     RowTypeOK, GrantTypeOK, ActorTypeOK, ConfirmSteps, LeasedSteps
<1>4. CASE CreateOrderFailed
  BY <1>4 DEF CreateOrderFailed, Touch, MoneyInv, MarkInv, OrderInv,
     RowTypeOK, GrantTypeOK, ActorTypeOK, ConfirmSteps, LeasedSteps
<1>5. CASE Age
  BY <1>5 DEF Age, Fault, MoneyInv, MarkInv, OrderInv, RowTypeOK, GrantTypeOK,
     ActorTypeOK, ConfirmSteps, LeasedSteps
<1>6. CASE Expire
  BY <1>6 DEF Expire, MoneyInv, MarkInv, OrderInv, RowTypeOK, GrantTypeOK,
     ActorTypeOK, ConfirmSteps, LeasedSteps
<1>7. ASSUME NEW w \in Workers, NEW n \in Notifications,
            HandlePaymentNotification(w, n)
     PROVE [Contract!Next]_(Contract!vars)
  BY <1>7 DEF HandlePaymentNotification, Goto, ConfirmPayment, Notifications,
     MoneyInv, MarkInv, OrderInv, RowTypeOK, GrantTypeOK, ActorTypeOK,
     ConfirmSteps, LeasedSteps
<1>8. ASSUME NEW w \in Workers, ToPaid(w)
     PROVE [Contract!Next]_(Contract!vars)
  BY <1>8 DEF ToPaid, Goto, Touch, Payable, MoneyInv, MarkInv, OrderInv,
     RowTypeOK, GrantTypeOK, ActorTypeOK, ConfirmSteps, LeasedSteps
<1>9. ASSUME NEW w \in Workers, AlreadyProcessed(w)
     PROVE [Contract!Next]_(Contract!vars)
  BY <1>9 DEF AlreadyProcessed, Answer, Fault, Goto, Return, MoneyInv, MarkInv, OrderInv,
     RowTypeOK, GrantTypeOK, ActorTypeOK, ConfirmSteps, LeasedSteps
<1>10. ASSUME NEW w \in Workers, QueryOrder(w)
     PROVE [Contract!Next]_(Contract!vars)
  BY <1>10 DEF QueryOrder, Goto, Return, MoneyInv, MarkInv, OrderInv,
     RowTypeOK, GrantTypeOK, ActorTypeOK, ConfirmSteps, LeasedSteps
<1>11. ASSUME NEW w \in Workers, CancelPayment(w)
     PROVE [Contract!Next]_(Contract!vars)
  BY <1>11 DEF CancelPayment, Goto, MoneyInv, MarkInv, OrderInv, RowTypeOK,
     GrantTypeOK, ActorTypeOK, ConfirmSteps, LeasedSteps
<1>12. ASSUME NEW w \in Workers, PersistTradeNo(w)
     PROVE [Contract!Next]_(Contract!vars)
  BY <1>12 DEF PersistTradeNo, Goto, Touch, MoneyInv, MarkInv, OrderInv,
     RowTypeOK, GrantTypeOK, ActorTypeOK, ConfirmSteps, LeasedSteps
<1>13. ASSUME NEW w \in Workers, CancelCore(w)
     PROVE [Contract!Next]_(Contract!vars)
  BY <1>13 DEF CancelCore, Return, Touch, MoneyInv, MarkInv, OrderInv,
     RowTypeOK, GrantTypeOK, ActorTypeOK, ConfirmSteps, LeasedSteps
<1>14. ASSUME NEW w \in Workers, ExecuteFulfillment(w)
     PROVE [Contract!Next]_(Contract!vars)
  BY <1>14 DEF ExecuteFulfillment, Answer, Goto, Return, Fulfillable, MoneyInv,
     MarkInv, OrderInv, RowTypeOK, GrantTypeOK, ActorTypeOK, ConfirmSteps,
     LeasedSteps
<1>15. ASSUME NEW w \in Workers, AcquireFulfillmentLease(w)
     PROVE [Contract!Next]_(Contract!vars)
  BY <1>15 DEF AcquireFulfillmentLease, Answer, Goto, Return, Touch, LeaseFree,
     MoneyInv, MarkInv, OrderInv, RowTypeOK, GrantTypeOK, ActorTypeOK,
     ConfirmSteps, LeasedSteps
<1>16. ASSUME NEW w \in Workers, ReloadLease(w)
     PROVE [Contract!Next]_(Contract!vars)
  BY <1>16 DEF ReloadLease, Goto, Return, MoneyInv, MarkInv, OrderInv,
     RowTypeOK, GrantTypeOK, ActorTypeOK, ConfirmSteps, LeasedSteps
<1>17. ASSUME NEW w \in Workers, ResolveRedeemAction(w)
     PROVE [Contract!Next]_(Contract!vars)
  BY <1>17 DEF ResolveRedeemAction, Goto, MoneyInv, MarkInv, OrderInv,
     RowTypeOK, GrantTypeOK, ActorTypeOK, ConfirmSteps, LeasedSteps
<1>18. ASSUME NEW w \in Workers, CreateCode(w)
     PROVE [Contract!Next]_(Contract!vars)
  BY <1>18 DEF CreateCode, Goto, MoneyInv, MarkInv, OrderInv, RowTypeOK,
     GrantTypeOK, ActorTypeOK, ConfirmSteps, LeasedSteps
<1>19. ASSUME NEW w \in Workers, RedeemForPaymentFulfillment(w)
     PROVE [Contract!Next]_(Contract!vars)
  BY <1>19 DEF RedeemForPaymentFulfillment, Goto, Fault, MoneyInv, MarkInv,
     OrderInv, RowTypeOK, GrantTypeOK, ActorTypeOK, ConfirmSteps, LeasedSteps
<1>20. ASSUME NEW w \in Workers, EnsureSubscriptionAssigned(w)
     PROVE [Contract!Next]_(Contract!vars)
  BY <1>20 DEF EnsureSubscriptionAssigned, Goto, Fault, MoneyInv, MarkInv,
     OrderInv, RowTypeOK, GrantTypeOK, ActorTypeOK, ConfirmSteps, LeasedSteps
<1>21. ASSUME NEW w \in Workers, ApplyAffiliateRebate(w)
     PROVE [Contract!Next]_(Contract!vars)
  BY <1>21 DEF ApplyAffiliateRebate, Goto, MoneyInv, MarkInv, OrderInv,
     RowTypeOK, GrantTypeOK, ActorTypeOK, ConfirmSteps, LeasedSteps
<1>22. ASSUME NEW w \in Workers, MarkCompleted(w)
     PROVE [Contract!Next]_(Contract!vars)
  BY <1>22 DEF MarkCompleted, Answer, Goto, Return, Touch, OwnsLease, MoneyInv,
     MarkInv, OrderInv, RowTypeOK, GrantTypeOK, ActorTypeOK, ConfirmSteps,
     LeasedSteps
<1>23. ASSUME NEW w \in Workers, MarkFailed(w)
     PROVE [Contract!Next]_(Contract!vars)
  BY <1>23 DEF MarkFailed, Return, Touch, OwnsLease, MoneyInv, MarkInv,
     OrderInv, RowTypeOK, GrantTypeOK, ActorTypeOK, ConfirmSteps, LeasedSteps
<1>24. ASSUME NEW w \in Workers, CancelOrder(w)
     PROVE [Contract!Next]_(Contract!vars)
  BY <1>24 DEF CancelOrder, StartQuery, Goto, MoneyInv, MarkInv, OrderInv,
     RowTypeOK, GrantTypeOK, ActorTypeOK, ConfirmSteps, LeasedSteps
<1>25. ASSUME NEW w \in Workers, ExpireTimedOutOrders(w)
     PROVE [Contract!Next]_(Contract!vars)
  BY <1>25 DEF ExpireTimedOutOrders, StartQuery, Goto, MoneyInv, MarkInv,
     OrderInv, RowTypeOK, GrantTypeOK, ActorTypeOK, ConfirmSteps, LeasedSteps
<1>26. ASSUME NEW w \in Workers, ReconcilePaid(w)
     PROVE [Contract!Next]_(Contract!vars)
  BY <1>26 DEF ReconcilePaid, StartQuery, Goto, MoneyInv, MarkInv, OrderInv,
     RowTypeOK, GrantTypeOK, ActorTypeOK, ConfirmSteps, LeasedSteps
<1>27. ASSUME NEW w \in Workers, RetryFulfillment(w)
     PROVE [Contract!Next]_(Contract!vars)
  BY <1>27 DEF RetryFulfillment, Goto, Fulfillable, MoneyInv, MarkInv,
     OrderInv, RowTypeOK, GrantTypeOK, ActorTypeOK, ConfirmSteps, LeasedSteps
<1>28. ASSUME NEW w \in Workers, FulfillmentError(w)
     PROVE [Contract!Next]_(Contract!vars)
  BY <1>28 DEF FulfillmentError, Goto, Fault, MoneyInv, MarkInv, OrderInv,
     RowTypeOK, GrantTypeOK, ActorTypeOK, ConfirmSteps, LeasedSteps
<1>29. ASSUME NEW w \in Workers, Crash(w)
     PROVE [Contract!Next]_(Contract!vars)
  BY <1>29 DEF Crash, Return, Fault, MoneyInv, MarkInv, OrderInv, RowTypeOK,
     GrantTypeOK, ActorTypeOK, ConfirmSteps, LeasedSteps
<1>30. CASE SetGroupStatus
  BY <1>30 DEF SetGroupStatus, MoneyInv, MarkInv, OrderInv, RowTypeOK, GrantTypeOK,
     ActorTypeOK, ConfirmSteps, LeasedSteps
<1>31. CASE NotificationUnheard
  BY <1>31 DEF NotificationUnheard, Fault, MoneyInv, MarkInv, OrderInv, RowTypeOK, GrantTypeOK,
     ActorTypeOK, ConfirmSteps, LeasedSteps
<1>32. CASE UNCHANGED vars
  BY <1>32 DEF vars, MoneyInv, MarkInv, OrderInv, RowTypeOK, GrantTypeOK,
     ActorTypeOK, ConfirmSteps, LeasedSteps
<1>. QED
  BY <1>1, <1>2, <1>3, <1>4, <1>5, <1>6, <1>7, <1>8, <1>9, <1>10,
     <1>11, <1>12, <1>13, <1>14, <1>15, <1>16, <1>17, <1>18, <1>19, <1>20,
     <1>21, <1>22, <1>23, <1>24, <1>25, <1>26, <1>27, <1>28, <1>29, <1>30,
     <1>31, <1>32
  DEF Next, CreatorStep, Request, WorkerStep

\* Every step respects what was paid and what was completed.
LEMMA StepFinal ==
  IInv /\ [Next]_vars => PaidStep /\ FinalStep
<1> SUFFICES ASSUME IInv, [Next]_vars PROVE PaidStep /\ FinalStep
  OBVIOUS
<1> USE DEF IInv, TypeOK, row, grants, worker, world, PaidStep, FinalStep
<1>1. CASE CustomerPays
  BY <1>1 DEF CustomerPays, MoneyInv, MarkInv, OrderInv, RowTypeOK,
     GrantTypeOK, ActorTypeOK, ConfirmSteps, LeasedSteps
<1>2. CASE CreatePayment
  BY <1>2 DEF CreatePayment, MoneyInv, MarkInv, OrderInv, RowTypeOK,
     GrantTypeOK, ActorTypeOK, ConfirmSteps, LeasedSteps
<1>3. CASE SavePaymentDetails
  BY <1>3 DEF SavePaymentDetails, Touch, MoneyInv, MarkInv, OrderInv,
     RowTypeOK, GrantTypeOK, ActorTypeOK, ConfirmSteps, LeasedSteps
<1>4. CASE CreateOrderFailed
  BY <1>4 DEF CreateOrderFailed, Touch, MoneyInv, MarkInv, OrderInv,
     RowTypeOK, GrantTypeOK, ActorTypeOK, ConfirmSteps, LeasedSteps
<1>5. CASE Age
  BY <1>5 DEF Age, Fault, MoneyInv, MarkInv, OrderInv, RowTypeOK, GrantTypeOK,
     ActorTypeOK, ConfirmSteps, LeasedSteps
<1>6. CASE Expire
  BY <1>6 DEF Expire, MoneyInv, MarkInv, OrderInv, RowTypeOK, GrantTypeOK,
     ActorTypeOK, ConfirmSteps, LeasedSteps
<1>7. ASSUME NEW w \in Workers, NEW n \in Notifications,
            HandlePaymentNotification(w, n)
     PROVE PaidStep /\ FinalStep
  BY <1>7 DEF HandlePaymentNotification, Goto, ConfirmPayment, Notifications,
     MoneyInv, MarkInv, OrderInv, RowTypeOK, GrantTypeOK, ActorTypeOK,
     ConfirmSteps, LeasedSteps
<1>8. ASSUME NEW w \in Workers, ToPaid(w)
     PROVE PaidStep /\ FinalStep
  BY <1>8 DEF ToPaid, Goto, Touch, Payable, MoneyInv, MarkInv, OrderInv,
     RowTypeOK, GrantTypeOK, ActorTypeOK, ConfirmSteps, LeasedSteps
<1>9. ASSUME NEW w \in Workers, AlreadyProcessed(w)
     PROVE PaidStep /\ FinalStep
  BY <1>9 DEF AlreadyProcessed, Answer, Fault, Goto, Return, MoneyInv, MarkInv, OrderInv,
     RowTypeOK, GrantTypeOK, ActorTypeOK, ConfirmSteps, LeasedSteps
<1>10. ASSUME NEW w \in Workers, QueryOrder(w)
     PROVE PaidStep /\ FinalStep
  BY <1>10 DEF QueryOrder, Goto, Return, MoneyInv, MarkInv, OrderInv,
     RowTypeOK, GrantTypeOK, ActorTypeOK, ConfirmSteps, LeasedSteps
<1>11. ASSUME NEW w \in Workers, CancelPayment(w)
     PROVE PaidStep /\ FinalStep
  BY <1>11 DEF CancelPayment, Goto, MoneyInv, MarkInv, OrderInv, RowTypeOK,
     GrantTypeOK, ActorTypeOK, ConfirmSteps, LeasedSteps
<1>12. ASSUME NEW w \in Workers, PersistTradeNo(w)
     PROVE PaidStep /\ FinalStep
  BY <1>12 DEF PersistTradeNo, Goto, Touch, MoneyInv, MarkInv, OrderInv,
     RowTypeOK, GrantTypeOK, ActorTypeOK, ConfirmSteps, LeasedSteps
<1>13. ASSUME NEW w \in Workers, CancelCore(w)
     PROVE PaidStep /\ FinalStep
  BY <1>13 DEF CancelCore, Return, Touch, MoneyInv, MarkInv, OrderInv,
     RowTypeOK, GrantTypeOK, ActorTypeOK, ConfirmSteps, LeasedSteps
<1>14. ASSUME NEW w \in Workers, ExecuteFulfillment(w)
     PROVE PaidStep /\ FinalStep
  BY <1>14 DEF ExecuteFulfillment, Answer, Goto, Return, Fulfillable, MoneyInv,
     MarkInv, OrderInv, RowTypeOK, GrantTypeOK, ActorTypeOK, ConfirmSteps,
     LeasedSteps
<1>15. ASSUME NEW w \in Workers, AcquireFulfillmentLease(w)
     PROVE PaidStep /\ FinalStep
  BY <1>15 DEF AcquireFulfillmentLease, Answer, Goto, Return, Touch, LeaseFree,
     MoneyInv, MarkInv, OrderInv, RowTypeOK, GrantTypeOK, ActorTypeOK,
     ConfirmSteps, LeasedSteps
<1>16. ASSUME NEW w \in Workers, ReloadLease(w)
     PROVE PaidStep /\ FinalStep
  BY <1>16 DEF ReloadLease, Goto, Return, MoneyInv, MarkInv, OrderInv,
     RowTypeOK, GrantTypeOK, ActorTypeOK, ConfirmSteps, LeasedSteps
<1>17. ASSUME NEW w \in Workers, ResolveRedeemAction(w)
     PROVE PaidStep /\ FinalStep
  BY <1>17 DEF ResolveRedeemAction, Goto, MoneyInv, MarkInv, OrderInv,
     RowTypeOK, GrantTypeOK, ActorTypeOK, ConfirmSteps, LeasedSteps
<1>18. ASSUME NEW w \in Workers, CreateCode(w)
     PROVE PaidStep /\ FinalStep
  BY <1>18 DEF CreateCode, Goto, MoneyInv, MarkInv, OrderInv, RowTypeOK,
     GrantTypeOK, ActorTypeOK, ConfirmSteps, LeasedSteps
<1>19. ASSUME NEW w \in Workers, RedeemForPaymentFulfillment(w)
     PROVE PaidStep /\ FinalStep
  BY <1>19 DEF RedeemForPaymentFulfillment, Goto, Fault, MoneyInv, MarkInv,
     OrderInv, RowTypeOK, GrantTypeOK, ActorTypeOK, ConfirmSteps, LeasedSteps
<1>20. ASSUME NEW w \in Workers, EnsureSubscriptionAssigned(w)
     PROVE PaidStep /\ FinalStep
  BY <1>20 DEF EnsureSubscriptionAssigned, Goto, Fault, MoneyInv, MarkInv,
     OrderInv, RowTypeOK, GrantTypeOK, ActorTypeOK, ConfirmSteps, LeasedSteps
<1>21. ASSUME NEW w \in Workers, ApplyAffiliateRebate(w)
     PROVE PaidStep /\ FinalStep
  BY <1>21 DEF ApplyAffiliateRebate, Goto, MoneyInv, MarkInv, OrderInv,
     RowTypeOK, GrantTypeOK, ActorTypeOK, ConfirmSteps, LeasedSteps
<1>22. ASSUME NEW w \in Workers, MarkCompleted(w)
     PROVE PaidStep /\ FinalStep
  BY <1>22 DEF MarkCompleted, Answer, Goto, Return, Touch, OwnsLease, MoneyInv,
     MarkInv, OrderInv, RowTypeOK, GrantTypeOK, ActorTypeOK, ConfirmSteps,
     LeasedSteps
<1>23. ASSUME NEW w \in Workers, MarkFailed(w)
     PROVE PaidStep /\ FinalStep
  BY <1>23 DEF MarkFailed, Return, Touch, OwnsLease, MoneyInv, MarkInv,
     OrderInv, RowTypeOK, GrantTypeOK, ActorTypeOK, ConfirmSteps, LeasedSteps
<1>24. ASSUME NEW w \in Workers, CancelOrder(w)
     PROVE PaidStep /\ FinalStep
  BY <1>24 DEF CancelOrder, StartQuery, Goto, MoneyInv, MarkInv, OrderInv,
     RowTypeOK, GrantTypeOK, ActorTypeOK, ConfirmSteps, LeasedSteps
<1>25. ASSUME NEW w \in Workers, ExpireTimedOutOrders(w)
     PROVE PaidStep /\ FinalStep
  BY <1>25 DEF ExpireTimedOutOrders, StartQuery, Goto, MoneyInv, MarkInv,
     OrderInv, RowTypeOK, GrantTypeOK, ActorTypeOK, ConfirmSteps, LeasedSteps
<1>26. ASSUME NEW w \in Workers, ReconcilePaid(w)
     PROVE PaidStep /\ FinalStep
  BY <1>26 DEF ReconcilePaid, StartQuery, Goto, MoneyInv, MarkInv, OrderInv,
     RowTypeOK, GrantTypeOK, ActorTypeOK, ConfirmSteps, LeasedSteps
<1>27. ASSUME NEW w \in Workers, RetryFulfillment(w)
     PROVE PaidStep /\ FinalStep
  BY <1>27 DEF RetryFulfillment, Goto, Fulfillable, MoneyInv, MarkInv,
     OrderInv, RowTypeOK, GrantTypeOK, ActorTypeOK, ConfirmSteps, LeasedSteps
<1>28. ASSUME NEW w \in Workers, FulfillmentError(w)
     PROVE PaidStep /\ FinalStep
  BY <1>28 DEF FulfillmentError, Goto, Fault, MoneyInv, MarkInv, OrderInv,
     RowTypeOK, GrantTypeOK, ActorTypeOK, ConfirmSteps, LeasedSteps
<1>29. ASSUME NEW w \in Workers, Crash(w)
     PROVE PaidStep /\ FinalStep
  BY <1>29 DEF Crash, Return, Fault, MoneyInv, MarkInv, OrderInv, RowTypeOK,
     GrantTypeOK, ActorTypeOK, ConfirmSteps, LeasedSteps
<1>30. CASE SetGroupStatus
  BY <1>30 DEF SetGroupStatus, MoneyInv, MarkInv, OrderInv, RowTypeOK, GrantTypeOK,
     ActorTypeOK, ConfirmSteps, LeasedSteps
<1>31. CASE NotificationUnheard
  BY <1>31 DEF NotificationUnheard, Fault, MoneyInv, MarkInv, OrderInv, RowTypeOK, GrantTypeOK,
     ActorTypeOK, ConfirmSteps, LeasedSteps
<1>32. CASE UNCHANGED vars
  BY <1>32 DEF vars, MoneyInv, MarkInv, OrderInv, RowTypeOK, GrantTypeOK,
     ActorTypeOK, ConfirmSteps, LeasedSteps
<1>. QED
  BY <1>1, <1>2, <1>3, <1>4, <1>5, <1>6, <1>7, <1>8, <1>9, <1>10,
     <1>11, <1>12, <1>13, <1>14, <1>15, <1>16, <1>17, <1>18, <1>19, <1>20,
     <1>21, <1>22, <1>23, <1>24, <1>25, <1>26, <1>27, <1>28, <1>29, <1>30,
     <1>31, <1>32
  DEF Next, CreatorStep, Request, WorkerStep

\* A paid order is never cancelled, expired or made payable again.
THEOREM NeverReopened == Spec => PaidNeverReopened
<1>1. IInv /\ [Next]_vars => [PaidStep]_vars
  BY StepFinal
<1>. QED BY <1>1, Invariance, PTL DEF Spec, PaidNeverReopened

\* A completed order stays completed.
THEOREM CompletedFinal == Spec => CompletedIsFinal
<1>1. IInv /\ [Next]_vars => [FinalStep]_vars
  BY StepFinal
<1>. QED BY <1>1, Invariance, PTL DEF Spec, CompletedIsFinal

\* PaymentFulfillment implements PaymentContract under the mapping of Contract.
THEOREM Refinement == Spec => ImplementsContract
<1>1. Init => Contract!Init
  BY DEF Init, Contract!Init
<1>. QED BY <1>1, StepContract, Invariance, PTL DEF Spec, ImplementsContract, Contract!Spec

=============================================================================
