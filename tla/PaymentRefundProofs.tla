------------------------ MODULE PaymentRefundProofs -------------------------
(***************************************************************************)
(* Proofs about PaymentRefund for any set of concurrent requests, any      *)
(* order amount and any number of faults.                                  *)
(***************************************************************************)
EXTENDS PaymentRefund, FiniteSetTheorems, TLAPS

\* Whoever is about to mark the order refunded has seen the provider's yes, and
\* the provider never takes a done refund back.
ReturnInv ==
  /\ status \in Final => Returned
  /\ \A w \in Workers : pc[w] \in {"ok", "finalizeOk"} => Returned

\* Where the deduction is, as long as no rollback failed and no status was
\* overruled: with the order only while a refund of it runs or once it is done.
TakenInv ==
  ~overruled /\ ~unlogged /\ "REFUND_ROLLBACK_FAILED" \notin audit =>
    /\ taken \in 0..Amount
    /\ status \in Refundable => taken = 0
    /\ \A w \in Workers :
         /\ pc[w] \in {"deduct", "pending", "restore"} => taken = 0
         /\ pc[w] \in {"gateway", "rollback", "rollbackPending"} => taken = plan[w].toDeduct
         /\ pc[w] # "failed"

\* The inductive invariant.
IInv == TypeOK /\ ReturnInv /\ RefundIsExclusive /\ TakenInv

-----------------------------------------------------------------------------
\* What DeductAvailableBalance may take: never more than asked, never more than
\* there is, never a negative amount.
LEMMA AvailableBounds ==
  ASSUME MoneyTypeOK, NEW amount \in 0..Amount
  PROVE  /\ Available(amount) \in 0..Amount
         /\ Available(amount) <= amount
         /\ Available(amount) > 0 => Available(amount) <= balance
BY AmountAssumption DEF Available, Least, Greatest, MoneyTypeOK

\* The plans and the control points of the requests keep their types under every
\* update the code makes.
LEMMA PlanUpdates ==
  ASSUME ActorTypeOK, NEW w \in Workers
  PROVE  /\ plan[w] \in Plans /\ pc[w] \in Steps
         /\ plan[w].amount \in 0..Amount /\ plan[w].toDeduct \in 0..Amount
         /\ \A d \in 0..Amount :
              /\ [plan EXCEPT ![w].toDeduct = d] \in [Workers -> Plans]
              /\ [plan EXCEPT ![w].toDeduct = d, ![w].rolledBack = TRUE] \in [Workers -> Plans]
         /\ [plan EXCEPT ![w].rolledBack = FALSE] \in [Workers -> Plans]
         /\ [plan EXCEPT ![w] = NoPlan] \in [Workers -> Plans]
<1>1. plan[w] \in Plans /\ pc[w] \in Steps
  BY DEF ActorTypeOK
<1>2. plan[w].amount \in 0..Amount /\ plan[w].toDeduct \in 0..Amount
  BY <1>1 DEF Plans
<1>3. ASSUME NEW d \in 0..Amount
      PROVE  /\ [plan EXCEPT ![w].toDeduct = d] \in [Workers -> Plans]
             /\ [plan EXCEPT ![w].toDeduct = d, ![w].rolledBack = TRUE] \in [Workers -> Plans]
  BY <1>1 DEF ActorTypeOK, Plans
<1>4. [plan EXCEPT ![w].rolledBack = FALSE] \in [Workers -> Plans]
  BY <1>1 DEF ActorTypeOK, Plans
<1>5. NoPlan \in Plans
  BY AmountAssumption DEF NoPlan, Plans, Refundable
<1>6. [plan EXCEPT ![w] = NoPlan] \in [Workers -> Plans]
  BY <1>5 DEF ActorTypeOK
<1>. QED BY <1>1, <1>2, <1>3, <1>4, <1>6

\* A completed order nobody refunds yet satisfies the invariant.
LEMMA InitIInv == Init => IInv
<1> SUFFICES ASSUME Init PROVE IInv
  OBVIOUS
<1> USE AmountAssumption, MaxFaultsAssumption, MaxDeficitAssumption, MaxBalanceAssumption
<1>1. OrderTypeOK
  BY DEF Init, OrderTypeOK, Statuses
<1>2. MoneyTypeOK
  <2>1. balance \in Int /\ taken \in Int /\ faults \in 0..MaxFaults
    BY DEF Init
  <2>. QED BY <2>1 DEF Init, MoneyTypeOK
<1>3. ActorTypeOK
  BY DEF Init, ActorTypeOK, Steps, Plans, NoPlan, Refundable
<1>4. ReturnInv /\ RefundIsExclusive /\ TakenInv
  BY DEF Init, ReturnInv, RefundIsExclusive, TakenInv, Final, Executing
<1>. QED BY <1>1, <1>2, <1>3, <1>4 DEF IInv, TypeOK

\* Every step of every request keeps the invariant.
LEMMA NextIInv == IInv /\ [Next]_vars => IInv'
<1> SUFFICES ASSUME IInv, [Next]_vars PROVE IInv'
  OBVIOUS
<1> USE AmountAssumption, MaxFaultsAssumption DEF IInv, TypeOK, order, logs, money, flags
<1>1. CASE GatewaySettles
  <2>1. OrderTypeOK'
    BY <1>1 DEF OrderTypeOK, GatewaySettles, Statuses, ActorTypeOK, Plans
  <2>2. MoneyTypeOK'
    BY <1>1 DEF MoneyTypeOK, GatewaySettles, ActorTypeOK, Plans
  <2>3. ActorTypeOK'
    BY <1>1 DEF ActorTypeOK, GatewaySettles, OrderTypeOK, MoneyTypeOK, Steps,
       Executing, Plans, NoPlan, Refundable
  <2>4. ReturnInv'
    BY <1>1 DEF ReturnInv, GatewaySettles, Returned, Final, OrderTypeOK,
       ActorTypeOK, Refundable
  <2>5. RefundIsExclusive'
    BY <1>1 DEF RefundIsExclusive, GatewaySettles, Executing, Final,
       Refundable, MoneyTypeOK, ActorTypeOK
  <2>6. TakenInv'
    BY <1>1 DEF TakenInv, GatewaySettles, Refundable, RefundIsExclusive,
       Executing, OrderTypeOK, MoneyTypeOK, ActorTypeOK, Plans
  <2>. QED BY <2>1, <2>2, <2>3, <2>4, <2>5, <2>6
<1>2. CASE SpendBalance
  <2>1. OrderTypeOK'
    BY <1>2 DEF OrderTypeOK, SpendBalance, Statuses, ActorTypeOK, Plans
  <2>2. MoneyTypeOK'
    BY <1>2 DEF MoneyTypeOK, SpendBalance, ActorTypeOK, Plans
  <2>3. ActorTypeOK'
    BY <1>2 DEF ActorTypeOK, SpendBalance, OrderTypeOK, MoneyTypeOK, Steps,
       Executing, Plans, NoPlan, Refundable
  <2>4. ReturnInv'
    BY <1>2 DEF ReturnInv, SpendBalance, Returned, Final, OrderTypeOK,
       ActorTypeOK, Refundable
  <2>5. RefundIsExclusive'
    BY <1>2 DEF RefundIsExclusive, SpendBalance, Executing, Final, Refundable,
       MoneyTypeOK, ActorTypeOK
  <2>6. TakenInv'
    BY <1>2 DEF TakenInv, SpendBalance, Refundable, RefundIsExclusive,
       Executing, OrderTypeOK, MoneyTypeOK, ActorTypeOK, Plans
  <2>. QED BY <2>1, <2>2, <2>3, <2>4, <2>5, <2>6
<1>3. ASSUME NEW w \in Workers, NEW amount \in 1..Amount, NEW force \in BOOLEAN,
            NEW deduct \in BOOLEAN, PrepareRefund(w, amount, force, deduct)
     PROVE IInv'
  <2>1. OrderTypeOK'
    BY <1>3 DEF OrderTypeOK, PrepareRefund, Goto, Statuses, ActorTypeOK, Plans
  <2>2. MoneyTypeOK'
    BY <1>3 DEF MoneyTypeOK, PrepareRefund, Goto, ActorTypeOK, Plans
  <2>3. ActorTypeOK'
    <3>1. Available(amount) \in 0..Amount
      BY AvailableBounds
    <3>2. plan' \in [Workers -> Plans]
      BY <1>3, <3>1 DEF PrepareRefund, ActorTypeOK, Plans
    <3>3. pc' \in [Workers -> Steps]
      BY <1>3 DEF PrepareRefund, Goto, ActorTypeOK, Steps
    <3>. QED BY <3>2, <3>3 DEF ActorTypeOK
  <2>4. ReturnInv'
    BY <1>3 DEF ReturnInv, PrepareRefund, Goto, Returned, Final, OrderTypeOK,
       ActorTypeOK, Refundable
  <2>5. RefundIsExclusive'
    BY <1>3 DEF RefundIsExclusive, PrepareRefund, Goto, Executing, Final,
       Refundable, MoneyTypeOK, ActorTypeOK
  <2>6. TakenInv'
    BY <1>3 DEF TakenInv, PrepareRefund, Goto, Refundable, RefundIsExclusive,
       Executing, OrderTypeOK, MoneyTypeOK, ActorTypeOK, Plans
  <2>. QED BY <2>1, <2>2, <2>3, <2>4, <2>5, <2>6
<1>4. ASSUME NEW w \in Workers, RequestRefund(w) PROVE IInv'
  <2>1. OrderTypeOK'
    BY <1>4 DEF OrderTypeOK, RequestRefund, Goto, Statuses, ActorTypeOK, Plans
  <2>2. MoneyTypeOK'
    BY <1>4 DEF MoneyTypeOK, RequestRefund, Goto, ActorTypeOK, Plans
  <2>3. ActorTypeOK'
    BY <1>4 DEF ActorTypeOK, RequestRefund, Goto, OrderTypeOK, MoneyTypeOK,
       Steps, Executing, Plans, NoPlan, Refundable
  <2>4. ReturnInv'
    BY <1>4 DEF ReturnInv, RequestRefund, Goto, Returned, Final, OrderTypeOK,
       ActorTypeOK, Refundable
  <2>5. RefundIsExclusive'
    BY <1>4 DEF RefundIsExclusive, RequestRefund, Goto, Executing, Final,
       Refundable, MoneyTypeOK, ActorTypeOK
  <2>6. TakenInv'
    BY <1>4 DEF TakenInv, RequestRefund, Goto, Refundable, RefundIsExclusive,
       Executing, OrderTypeOK, MoneyTypeOK, ActorTypeOK, Plans
  <2>. QED BY <2>1, <2>2, <2>3, <2>4, <2>5, <2>6
<1>5. ASSUME NEW w \in Workers, SubmitRefundRequest(w) PROVE IInv'
  <2>1. OrderTypeOK'
    BY <1>5 DEF OrderTypeOK, SubmitRefundRequest, Goto, Return, Statuses,
       ActorTypeOK, Plans
  <2>2. MoneyTypeOK'
    BY <1>5 DEF MoneyTypeOK, SubmitRefundRequest, Goto, Return, ActorTypeOK,
       Plans
  <2>3. ActorTypeOK'
    BY <1>5 DEF ActorTypeOK, SubmitRefundRequest, Goto, Return, OrderTypeOK,
       MoneyTypeOK, Steps, Executing, Plans, NoPlan, Refundable
  <2>4. ReturnInv'
    BY <1>5 DEF ReturnInv, SubmitRefundRequest, Goto, Return, Returned, Final,
       OrderTypeOK, ActorTypeOK, Refundable
  <2>5. RefundIsExclusive'
    BY <1>5 DEF RefundIsExclusive, SubmitRefundRequest, Goto, Return,
       Executing, Final, Refundable, MoneyTypeOK, ActorTypeOK
  <2>6. TakenInv'
    BY <1>5 DEF TakenInv, SubmitRefundRequest, Goto, Return, Refundable,
       RefundIsExclusive, Executing, OrderTypeOK, MoneyTypeOK, ActorTypeOK,
       Plans
  <2>. QED BY <2>1, <2>2, <2>3, <2>4, <2>5, <2>6
<1>6. ASSUME NEW w \in Workers, LockOrder(w) PROVE IInv'
  <2>1. OrderTypeOK'
    BY <1>6 DEF OrderTypeOK, LockOrder, Goto, Return, Statuses, ActorTypeOK,
       Plans
  <2>2. MoneyTypeOK'
    BY <1>6 DEF MoneyTypeOK, LockOrder, Goto, Return, ActorTypeOK, Plans
  <2>3. ActorTypeOK'
    <3>1. plan' \in [Workers -> Plans]
      BY <1>6, PlanUpdates DEF LockOrder, Return, ActorTypeOK
    <3>2. pc' \in [Workers -> Steps]
      BY <1>6 DEF LockOrder, Goto, Return, ActorTypeOK, Steps, Executing
    <3>. QED BY <3>1, <3>2 DEF ActorTypeOK
  <2>4. ReturnInv'
    BY <1>6 DEF ReturnInv, LockOrder, Goto, Return, Returned, Final,
       OrderTypeOK, ActorTypeOK, Refundable
  <2>5. RefundIsExclusive'
    BY <1>6 DEF RefundIsExclusive, LockOrder, Goto, Return, Executing, Final,
       Refundable, MoneyTypeOK, ActorTypeOK
  <2>6. TakenInv'
    BY <1>6 DEF TakenInv, LockOrder, Goto, Return, Refundable,
       RefundIsExclusive, Executing, OrderTypeOK, MoneyTypeOK, ActorTypeOK,
       Plans
  <2>. QED BY <2>1, <2>2, <2>3, <2>4, <2>5, <2>6
<1>7. ASSUME NEW w \in Workers, DeductBalance(w) PROVE IInv'
  <2>1. OrderTypeOK'
    BY <1>7 DEF OrderTypeOK, DeductBalance, Goto, Fault, Statuses,
       ActorTypeOK, Plans
  <2>2. MoneyTypeOK'
    <3>1. Available(plan[w].toDeduct) \in 0..Amount
      BY AvailableBounds, PlanUpdates
    <3>2. balance' \in Int /\ taken' \in Int /\ faults' \in 0..MaxFaults
      BY <1>7, <3>1 DEF DeductBalance, Fault, MoneyTypeOK
    <3>. QED BY <1>7, <3>2 DEF DeductBalance, MoneyTypeOK
  <2>3. ActorTypeOK'
    <3>1. Available(plan[w].toDeduct) \in 0..Amount
      BY AvailableBounds, PlanUpdates
    <3>a. \A d \in 0..Amount : [plan EXCEPT ![w].toDeduct = d] \in [Workers -> Plans]
      BY PlanUpdates
    <3>b. [plan EXCEPT ![w].toDeduct = Available(plan[w].toDeduct)] \in [Workers -> Plans]
      BY <3>1, <3>a, Zenon
    <3>c. [plan EXCEPT ![w].toDeduct = 0] \in [Workers -> Plans]
      <4>1. 0 \in 0..Amount
        OBVIOUS
      <4>. QED BY <4>1, <3>a, Zenon
    <3>2. plan' \in [Workers -> Plans]
      BY <1>7, <3>b, <3>c DEF DeductBalance, ActorTypeOK
    <3>3. pc' \in [Workers -> Steps]
      BY <1>7 DEF DeductBalance, Goto, ActorTypeOK, Steps, Executing
    <3>. QED BY <3>2, <3>3 DEF ActorTypeOK
  <2>4. ReturnInv'
    BY <1>7 DEF ReturnInv, DeductBalance, Goto, Fault, Returned, Final,
       OrderTypeOK, ActorTypeOK, Refundable
  <2>5. RefundIsExclusive'
    BY <1>7 DEF RefundIsExclusive, DeductBalance, Goto, Fault, Executing,
       Final, Refundable, MoneyTypeOK, ActorTypeOK
  <2>6. TakenInv'
    <3> SUFFICES ASSUME (~overruled /\ ~unlogged /\ "REFUND_ROLLBACK_FAILED" \notin audit)'
                 PROVE  /\ (taken \in 0..Amount)'
                        /\ (status \in Refundable => taken = 0)'
                        /\ \A v \in Workers :
                             /\ pc'[v] \in {"deduct", "pending", "restore"} => taken' = 0
                             /\ pc'[v] \in {"gateway", "rollback", "rollbackPending"}
                                  => taken' = plan'[v].toDeduct
                             /\ pc'[v] # "failed"
      BY DEF TakenInv
    <3>1. ~overruled /\ ~unlogged /\ "REFUND_ROLLBACK_FAILED" \notin audit
      BY <1>7 DEF DeductBalance
    <3>2. taken = 0 /\ status = "REFUNDING"
          /\ \A v \in Workers : pc[v] \in Executing => v = w
      BY <1>7, <3>1 DEF DeductBalance, TakenInv, RefundIsExclusive, Executing
    <3>3. plan[w].toDeduct \in 0..Amount /\ Available(plan[w].toDeduct) \in 0..Amount
      BY AvailableBounds, PlanUpdates
    <3>4. taken' \in 0..Amount /\ status' = "REFUNDING"
      BY <1>7, <3>2, <3>3 DEF DeductBalance
    <3>5. pc' = [pc EXCEPT ![w] = pc'[w]] /\ pc'[w] \in {"gateway", "restore"}
      BY <1>7 DEF DeductBalance, Goto, ActorTypeOK
    <3>6. pc'[w] = "gateway" => taken' = plan'[w].toDeduct
      BY <1>7, <3>1, <3>2, <3>3 DEF DeductBalance, Goto, ActorTypeOK, Plans
    <3>7. pc'[w] = "restore" => taken' = 0
      BY <1>7, <3>2 DEF DeductBalance, Goto, ActorTypeOK
    <3>8. \A v \in Workers \ {w} : pc'[v] = pc[v] /\ pc'[v] \notin Executing
      BY <3>2, <3>5 DEF ActorTypeOK
    <3>. QED BY <3>4, <3>5, <3>6, <3>7, <3>8 DEF Refundable, Executing
  <2>. QED BY <2>1, <2>2, <2>3, <2>4, <2>5, <2>6
<1>8. ASSUME NEW w \in Workers, GwRefund(w) PROVE IInv'
  <2>1. OrderTypeOK'
    BY <1>8 DEF OrderTypeOK, GwRefund, Goto, Statuses, ActorTypeOK, Plans
  <2>2. MoneyTypeOK'
    BY <1>8 DEF MoneyTypeOK, GwRefund, Goto, ActorTypeOK, Plans
  <2>3. ActorTypeOK'
    BY <1>8 DEF ActorTypeOK, GwRefund, Goto, OrderTypeOK, MoneyTypeOK, Steps,
       Executing, Plans, NoPlan, Refundable
  <2>4. ReturnInv'
    BY <1>8 DEF ReturnInv, GwRefund, Goto, Returned, Final, OrderTypeOK,
       ActorTypeOK, Refundable
  <2>5. RefundIsExclusive'
    BY <1>8 DEF RefundIsExclusive, GwRefund, Goto, Executing, Final,
       Refundable, MoneyTypeOK, ActorTypeOK
  <2>6. TakenInv'
    BY <1>8 DEF TakenInv, GwRefund, Goto, Refundable, RefundIsExclusive,
       Executing, OrderTypeOK, MoneyTypeOK, ActorTypeOK, Plans
  <2>. QED BY <2>1, <2>2, <2>3, <2>4, <2>5, <2>6
<1>9. ASSUME NEW w \in Workers, MarkRefundOk(w) PROVE IInv'
  <2>1. OrderTypeOK'
    <3>1. refundAmount' \in 0..Amount
      BY <1>9, PlanUpdates DEF MarkRefundOk, OrderTypeOK
    <3>2. status' \in Statuses
      BY <1>9 DEF MarkRefundOk, RefundedStatus, OrderTypeOK, Statuses
    <3>. QED BY <1>9, <3>1, <3>2 DEF MarkRefundOk, OrderTypeOK
  <2>2. MoneyTypeOK'
    BY <1>9 DEF MoneyTypeOK, MarkRefundOk, Goto, Return, Fault,
       RefundedStatus, ActorTypeOK, Plans
  <2>3. ActorTypeOK'
    BY <1>9 DEF ActorTypeOK, MarkRefundOk, Goto, Return, Fault,
       RefundedStatus, OrderTypeOK, MoneyTypeOK, Steps, Executing, Plans,
       NoPlan, Refundable
  <2>4. ReturnInv'
    BY <1>9 DEF ReturnInv, MarkRefundOk, Goto, Return, Fault, RefundedStatus,
       Returned, Final, OrderTypeOK, ActorTypeOK, Refundable
  <2>5. RefundIsExclusive'
    BY <1>9 DEF RefundIsExclusive, MarkRefundOk, Goto, Return, Fault,
       RefundedStatus, Executing, Final, Refundable, MoneyTypeOK, ActorTypeOK
  <2>6. TakenInv'
    BY <1>9 DEF TakenInv, MarkRefundOk, Goto, Return, Fault, RefundedStatus,
       Refundable, RefundIsExclusive, Executing, OrderTypeOK, MoneyTypeOK,
       ActorTypeOK, Plans
  <2>. QED BY <2>1, <2>2, <2>3, <2>4, <2>5, <2>6
<1>10. ASSUME NEW w \in Workers, RollbackRefund(w) PROVE IInv'
  <2>1. OrderTypeOK'
    BY <1>10 DEF OrderTypeOK, RollbackRefund, Goto, Fault, Statuses,
       ActorTypeOK, Plans
  <2>2. MoneyTypeOK'
    <3>a. plan[w].toDeduct \in 0..Amount
      BY PlanUpdates
    <3>1. balance' \in Int /\ taken' \in Int
      BY <1>10, <3>a DEF RollbackRefund, MoneyTypeOK
    <3>2. faults' \in 0..MaxFaults
      BY <1>10 DEF RollbackRefund, Fault, MoneyTypeOK
    <3>. QED BY <1>10, <3>1, <3>2 DEF RollbackRefund, MoneyTypeOK
  <2>3. ActorTypeOK'
    <3>a. /\ [plan EXCEPT ![w].toDeduct = 0, ![w].rolledBack = TRUE] \in [Workers -> Plans]
          /\ [plan EXCEPT ![w].rolledBack = FALSE] \in [Workers -> Plans]
      BY PlanUpdates
    <3>1. plan' \in [Workers -> Plans]
      BY <1>10, <3>a DEF RollbackRefund
    <3>2. pc' \in [Workers -> Steps]
      BY <1>10 DEF RollbackRefund, Goto, ActorTypeOK, Steps, Executing
    <3>. QED BY <3>1, <3>2 DEF ActorTypeOK
  <2>4. ReturnInv'
    BY <1>10 DEF ReturnInv, RollbackRefund, Goto, Fault, Returned, Final,
       OrderTypeOK, ActorTypeOK, Refundable
  <2>5. RefundIsExclusive'
    BY <1>10 DEF RefundIsExclusive, RollbackRefund, Goto, Fault, Executing,
       Final, Refundable, MoneyTypeOK, ActorTypeOK
  <2>6. TakenInv'
    BY <1>10 DEF TakenInv, RollbackRefund, Goto, Fault, Refundable,
       RefundIsExclusive, Executing, OrderTypeOK, MoneyTypeOK, ActorTypeOK,
       Plans
  <2>. QED BY <2>1, <2>2, <2>3, <2>4, <2>5, <2>6
<1>11. ASSUME NEW w \in Workers, RestoreStatus(w) PROVE IInv'
  <2>1. OrderTypeOK'
    BY <1>11 DEF OrderTypeOK, RestoreStatus, Goto, Return, Fault, Statuses,
       ActorTypeOK, Plans
  <2>2. MoneyTypeOK'
    <3>1. balance' \in Int /\ taken' \in Int
      BY <1>11 DEF RestoreStatus, MoneyTypeOK
    <3>2. faults' \in 0..MaxFaults
      BY <1>11 DEF RestoreStatus, Fault, MoneyTypeOK
    <3>. QED BY <1>11, <3>1, <3>2 DEF RestoreStatus, MoneyTypeOK
  <2>3. ActorTypeOK'
    BY <1>11 DEF ActorTypeOK, RestoreStatus, Goto, Return, Fault, OrderTypeOK,
       MoneyTypeOK, Steps, Executing, Plans, NoPlan, Refundable
  <2>4. ReturnInv'
    BY <1>11 DEF ReturnInv, RestoreStatus, Goto, Return, Fault, Returned,
       Final, OrderTypeOK, ActorTypeOK, Refundable
  <2>5. RefundIsExclusive'
    BY <1>11 DEF RefundIsExclusive, RestoreStatus, Goto, Return, Fault,
       Executing, Final, Refundable, MoneyTypeOK, ActorTypeOK
  <2>6. TakenInv'
    BY <1>11 DEF TakenInv, RestoreStatus, Goto, Return, Fault, Refundable,
       RefundIsExclusive, Executing, OrderTypeOK, MoneyTypeOK, ActorTypeOK,
       Plans
  <2>. QED BY <2>1, <2>2, <2>3, <2>4, <2>5, <2>6
<1>12. ASSUME NEW w \in Workers, MarkRefundFailed(w) PROVE IInv'
  <2>1. OrderTypeOK'
    BY <1>12 DEF OrderTypeOK, MarkRefundFailed, Goto, Return, Fault, Statuses,
       ActorTypeOK, Plans
  <2>2. MoneyTypeOK'
    <3>1. balance' \in Int /\ taken' \in Int
      BY <1>12 DEF MarkRefundFailed, MoneyTypeOK
    <3>2. faults' \in 0..MaxFaults
      BY <1>12 DEF MarkRefundFailed, Fault, MoneyTypeOK
    <3>. QED BY <1>12, <3>1, <3>2 DEF MarkRefundFailed, MoneyTypeOK
  <2>3. ActorTypeOK'
    BY <1>12 DEF ActorTypeOK, MarkRefundFailed, Goto, Return, Fault,
       OrderTypeOK, MoneyTypeOK, Steps, Executing, Plans, NoPlan, Refundable
  <2>4. ReturnInv'
    BY <1>12 DEF ReturnInv, MarkRefundFailed, Goto, Return, Fault, Returned,
       Final, OrderTypeOK, ActorTypeOK, Refundable
  <2>5. RefundIsExclusive'
    BY <1>12 DEF RefundIsExclusive, MarkRefundFailed, Goto, Return, Fault,
       Executing, Final, Refundable, MoneyTypeOK, ActorTypeOK
  <2>6. TakenInv'
    BY <1>12 DEF TakenInv, MarkRefundFailed, Goto, Return, Fault, Refundable,
       RefundIsExclusive, Executing, OrderTypeOK, MoneyTypeOK, ActorTypeOK,
       Plans
  <2>. QED BY <2>1, <2>2, <2>3, <2>4, <2>5, <2>6
<1>13. ASSUME NEW w \in Workers, MarkRefundPending(w) PROVE IInv'
  <2>1. OrderTypeOK'
    BY <1>13 DEF OrderTypeOK, MarkRefundPending, Goto, Return, Fault,
       Statuses, ActorTypeOK, Plans
  <2>2. MoneyTypeOK'
    <3>1. balance' \in Int /\ taken' \in Int
      BY <1>13 DEF MarkRefundPending, MoneyTypeOK
    <3>2. faults' \in 0..MaxFaults
      BY <1>13 DEF MarkRefundPending, Fault, MoneyTypeOK
    <3>. QED BY <1>13, <3>1, <3>2 DEF MarkRefundPending, MoneyTypeOK
  <2>3. ActorTypeOK'
    BY <1>13 DEF ActorTypeOK, MarkRefundPending, Goto, Return, Fault,
       OrderTypeOK, MoneyTypeOK, Steps, Executing, Plans, NoPlan, Refundable
  <2>4. ReturnInv'
    BY <1>13 DEF ReturnInv, MarkRefundPending, Goto, Return, Fault, Returned,
       Final, OrderTypeOK, ActorTypeOK, Refundable
  <2>5. RefundIsExclusive'
    BY <1>13 DEF RefundIsExclusive, MarkRefundPending, Goto, Return, Fault,
       Executing, Final, Refundable, MoneyTypeOK, ActorTypeOK
  <2>6. TakenInv'
    BY <1>13 DEF TakenInv, MarkRefundPending, Goto, Return, Fault, Refundable,
       RefundIsExclusive, Executing, OrderTypeOK, MoneyTypeOK, ActorTypeOK,
       Plans
  <2>. QED BY <2>1, <2>2, <2>3, <2>4, <2>5, <2>6
<1>14. ASSUME NEW w \in Workers, QueryAndFinalizeRefund(w) PROVE IInv'
  <2>1. OrderTypeOK'
    BY <1>14 DEF OrderTypeOK, QueryAndFinalizeRefund, Goto, Fault, Statuses,
       ActorTypeOK, Plans
  <2>2. MoneyTypeOK'
    <3>1. balance' \in Int /\ taken' \in Int
      BY <1>14 DEF QueryAndFinalizeRefund, MoneyTypeOK
    <3>2. faults' \in 0..MaxFaults
      BY <1>14 DEF QueryAndFinalizeRefund, Fault, MoneyTypeOK
    <3>. QED BY <1>14, <3>1, <3>2 DEF QueryAndFinalizeRefund, MoneyTypeOK
  <2>3. ActorTypeOK'
    BY <1>14 DEF ActorTypeOK, QueryAndFinalizeRefund, Goto, Fault,
       OrderTypeOK, MoneyTypeOK, Steps, Executing, Plans, NoPlan, Refundable
  <2>4. ReturnInv'
    BY <1>14 DEF ReturnInv, QueryAndFinalizeRefund, Goto, Fault, Returned,
       Final, OrderTypeOK, ActorTypeOK, Refundable
  <2>5. RefundIsExclusive'
    BY <1>14 DEF RefundIsExclusive, QueryAndFinalizeRefund, Goto, Fault,
       Executing, Final, Refundable, MoneyTypeOK, ActorTypeOK
  <2>6. TakenInv'
    BY <1>14 DEF TakenInv, QueryAndFinalizeRefund, Goto, Fault, Refundable,
       RefundIsExclusive, Executing, OrderTypeOK, MoneyTypeOK, ActorTypeOK,
       Plans
  <2>. QED BY <2>1, <2>2, <2>3, <2>4, <2>5, <2>6
<1>15. ASSUME NEW w \in Workers, QueryRefund(w) PROVE IInv'
  <2>1. OrderTypeOK'
    BY <1>15 DEF OrderTypeOK, QueryRefund, Goto, Return, Statuses,
       ActorTypeOK, Plans
  <2>2. MoneyTypeOK'
    BY <1>15 DEF MoneyTypeOK, QueryRefund, Goto, Return, ActorTypeOK, Plans
  <2>3. ActorTypeOK'
    <3>1. plan' \in [Workers -> Plans]
      BY <1>15, PlanUpdates DEF QueryRefund, Return, ActorTypeOK
    <3>2. pc' \in [Workers -> Steps]
      BY <1>15 DEF QueryRefund, Goto, Return, ActorTypeOK, Steps, Executing
    <3>. QED BY <3>1, <3>2 DEF ActorTypeOK
  <2>4. ReturnInv'
    BY <1>15 DEF ReturnInv, QueryRefund, Goto, Return, Returned, Final,
       OrderTypeOK, ActorTypeOK, Refundable
  <2>5. RefundIsExclusive'
    BY <1>15 DEF RefundIsExclusive, QueryRefund, Goto, Return, Executing,
       Final, Refundable, MoneyTypeOK, ActorTypeOK
  <2>6. TakenInv'
    BY <1>15 DEF TakenInv, QueryRefund, Goto, Return, Refundable,
       RefundIsExclusive, Executing, OrderTypeOK, MoneyTypeOK, ActorTypeOK,
       Plans
  <2>. QED BY <2>1, <2>2, <2>3, <2>4, <2>5, <2>6
<1>16. ASSUME NEW w \in Workers, FinalizePendingRefundSuccess(w) PROVE IInv'
  <2>1. OrderTypeOK'
    <3>1. refundAmount' \in 0..Amount
      BY <1>16, PlanUpdates DEF FinalizePendingRefundSuccess, OrderTypeOK
    <3>2. status' \in Statuses
      BY <1>16 DEF FinalizePendingRefundSuccess, RefundedStatus, OrderTypeOK, Statuses
    <3>. QED BY <1>16, <3>1, <3>2 DEF FinalizePendingRefundSuccess, OrderTypeOK
  <2>2. MoneyTypeOK'
    <3>1. Available(plan[w].toDeduct) \in 0..Amount
      BY AvailableBounds, PlanUpdates
    <3>2. balance' \in Int /\ taken' \in Int /\ faults' \in 0..MaxFaults
      BY <1>16, <3>1 DEF FinalizePendingRefundSuccess, MoneyTypeOK
    <3>. QED BY <1>16, <3>2 DEF FinalizePendingRefundSuccess, MoneyTypeOK
  <2>3. ActorTypeOK'
    BY <1>16 DEF ActorTypeOK, FinalizePendingRefundSuccess, Goto, Return,
       RefundedStatus, OrderTypeOK, MoneyTypeOK, Steps, Executing, Plans,
       NoPlan, Refundable
  <2>4. ReturnInv'
    BY <1>16 DEF ReturnInv, FinalizePendingRefundSuccess, Goto, Return,
       RefundedStatus, Returned, Final, OrderTypeOK, ActorTypeOK, Refundable
  <2>5. RefundIsExclusive'
    BY <1>16 DEF RefundIsExclusive, FinalizePendingRefundSuccess, Goto,
       Return, RefundedStatus, Executing, Final, Refundable, MoneyTypeOK,
       ActorTypeOK
  <2>6. TakenInv'
    <3>1. CASE status = "REFUND_PENDING" /\ "REFUND_SUCCESS" \notin audit
      <4>1. Available(plan[w].toDeduct) \in 0..Amount
        BY AvailableBounds, PlanUpdates
      <4>2. overruled' = overruled /\ unlogged' = unlogged /\ status' \notin Refundable
            /\ ("REFUND_ROLLBACK_FAILED" \in audit' <=> "REFUND_ROLLBACK_FAILED" \in audit)
        BY <1>16, <3>1 DEF FinalizePendingRefundSuccess, RefundedStatus, Refundable
      <4>3. ~overruled => \A v \in Workers : pc[v] \notin Executing
        BY <3>1 DEF RefundIsExclusive
      <4>4. ~overruled => \A v \in Workers : pc'[v] \notin Executing
        BY <1>16, <4>3 DEF FinalizePendingRefundSuccess, Return, Goto, ActorTypeOK, Executing
      <4>5. ~overruled /\ ~unlogged /\ "REFUND_ROLLBACK_FAILED" \notin audit => taken' \in 0..Amount
        BY <1>16, <3>1, <4>1 DEF FinalizePendingRefundSuccess, TakenInv, Refundable
      <4>. QED BY <4>2, <4>4, <4>5 DEF TakenInv, Executing
    <3>2. CASE ~(status = "REFUND_PENDING" /\ "REFUND_SUCCESS" \notin audit)
      BY <1>16, <3>2 DEF FinalizePendingRefundSuccess, Return, Goto, TakenInv, ActorTypeOK
    <3>. QED BY <3>1, <3>2
  <2>. QED BY <2>1, <2>2, <2>3, <2>4, <2>5, <2>6
<1>17. ASSUME NEW w \in Workers, FinalizeRefundFailed(w) PROVE IInv'
  <2>1. OrderTypeOK'
    BY <1>17 DEF OrderTypeOK, FinalizeRefundFailed, Goto, Return, Statuses,
       ActorTypeOK, Plans
  <2>2. MoneyTypeOK'
    BY <1>17 DEF MoneyTypeOK, FinalizeRefundFailed, Goto, Return, ActorTypeOK,
       Plans
  <2>3. ActorTypeOK'
    BY <1>17 DEF ActorTypeOK, FinalizeRefundFailed, Goto, Return, OrderTypeOK,
       MoneyTypeOK, Steps, Executing, Plans, NoPlan, Refundable
  <2>4. ReturnInv'
    BY <1>17 DEF ReturnInv, FinalizeRefundFailed, Goto, Return, Returned,
       Final, OrderTypeOK, ActorTypeOK, Refundable
  <2>5. RefundIsExclusive'
    BY <1>17 DEF RefundIsExclusive, FinalizeRefundFailed, Goto, Return,
       Executing, Final, Refundable, MoneyTypeOK, ActorTypeOK
  <2>6. TakenInv'
    BY <1>17 DEF TakenInv, FinalizeRefundFailed, Goto, Return, Refundable,
       RefundIsExclusive, Executing, OrderTypeOK, MoneyTypeOK, ActorTypeOK,
       Plans
  <2>. QED BY <2>1, <2>2, <2>3, <2>4, <2>5, <2>6
<1>18. ASSUME NEW w \in Workers, Crash(w) PROVE IInv'
  <2>1. OrderTypeOK'
    BY <1>18 DEF OrderTypeOK, Crash, Goto, Return, Fault, Statuses,
       ActorTypeOK, Plans
  <2>2. MoneyTypeOK'
    BY <1>18 DEF MoneyTypeOK, Crash, Goto, Return, Fault, ActorTypeOK, Plans
  <2>3. ActorTypeOK'
    BY <1>18 DEF ActorTypeOK, Crash, Goto, Return, Fault, OrderTypeOK,
       MoneyTypeOK, Steps, Executing, Plans, NoPlan, Refundable
  <2>4. ReturnInv'
    BY <1>18 DEF ReturnInv, Crash, Goto, Return, Fault, Returned, Final,
       OrderTypeOK, ActorTypeOK, Refundable
  <2>5. RefundIsExclusive'
    BY <1>18 DEF RefundIsExclusive, Crash, Goto, Return, Fault, Executing,
       Final, Refundable, MoneyTypeOK, ActorTypeOK
  <2>6. TakenInv'
    BY <1>18 DEF TakenInv, Crash, Goto, Return, Fault, Refundable,
       RefundIsExclusive, Executing, OrderTypeOK, MoneyTypeOK, ActorTypeOK,
       Plans
  <2>. QED BY <2>1, <2>2, <2>3, <2>4, <2>5, <2>6
<1>19. CASE UNCHANGED vars
  <2>1. OrderTypeOK'
    BY <1>19 DEF OrderTypeOK, vars, Statuses, ActorTypeOK, Plans
  <2>2. MoneyTypeOK'
    BY <1>19 DEF MoneyTypeOK, vars, ActorTypeOK, Plans
  <2>3. ActorTypeOK'
    BY <1>19 DEF ActorTypeOK, vars, OrderTypeOK, MoneyTypeOK, Steps,
       Executing, Plans, NoPlan, Refundable
  <2>4. ReturnInv'
    BY <1>19 DEF ReturnInv, vars, Returned, Final, OrderTypeOK, ActorTypeOK,
       Refundable
  <2>5. RefundIsExclusive'
    BY <1>19 DEF RefundIsExclusive, vars, Executing, Final, Refundable,
       MoneyTypeOK, ActorTypeOK
  <2>6. TakenInv'
    BY <1>19 DEF TakenInv, vars, Refundable, RefundIsExclusive, Executing,
       OrderTypeOK, MoneyTypeOK, ActorTypeOK, Plans
  <2>. QED BY <2>1, <2>2, <2>3, <2>4, <2>5, <2>6
<1>. QED
  BY <1>1, <1>2, <1>3, <1>4, <1>5, <1>6, <1>7, <1>8, <1>9, <1>10, <1>11,
     <1>12, <1>13, <1>14, <1>15, <1>16, <1>17, <1>18, <1>19 DEF Next, Request,
     WorkerStep

\* The inductive invariant holds in every reachable state.
THEOREM Invariance == Spec => []IInv
BY InitIInv, NextIInv, PTL DEF Spec

\* Every variable keeps its type.
THEOREM TypeCorrect == Spec => []TypeOK
<1>1. IInv => TypeOK
  BY DEF IInv
<1>. QED BY <1>1, Invariance, PTL

\* An order is marked refunded (markRefundOk, finalizePendingRefundSuccess) only
\* once the provider has returned the money.
THEOREM RefundedReturned == Spec => []RefundedMeansReturned
<1>1. IInv => RefundedMeansReturned
  BY DEF IInv, ReturnInv, RefundedMeansReturned
<1>. QED BY <1>1, Invariance, PTL

\* The lock of ExecuteRefund excludes every other refund, unless
\* finalizeRefundFailed overruled a status.
THEOREM Exclusive == Spec => []RefundIsExclusive
<1>1. IInv => RefundIsExclusive
  BY DEF IInv
<1>. QED BY <1>1, Invariance, PTL

\* All refunds of the order together take at most its amount from the balance,
\* as long as no rollback failed, no audit row was lost and no status was
\* overruled.
THEOREM TakenBounded == Spec => []TakenAtMostAmount
<1>1. IInv => TakenAtMostAmount
  BY AmountAssumption DEF IInv, TakenInv, TakenAtMostAmount
<1>. QED BY <1>1, Invariance, PTL

\* Under the invariant no step takes a refunded order out of its final status.
LEMMA FinalStepKept == IInv /\ [Next]_vars => FinalStep
<1> SUFFICES ASSUME IInv, [Next]_vars, status \in Final, ~overruled'
             PROVE  status' = status
  BY DEF FinalStep
<1>1. CASE UNCHANGED vars
  BY <1>1 DEF vars
<1>2. CASE GatewaySettles \/ SpendBalance
  BY <1>2 DEF GatewaySettles, SpendBalance, order, flags
<1>3. ASSUME NEW w \in Workers, Request(w) \/ Crash(w)
      PROVE  status' = status
  BY <1>3 DEF Request, RequestRefund, QueryAndFinalizeRefund, PrepareRefund, Crash, order
<1>4. ASSUME NEW w \in Workers, WorkerStep(w)
      PROVE  status' = status
  <2>1. ~overruled
    BY <1>4 DEF WorkerStep, SubmitRefundRequest, LockOrder, DeductBalance, GwRefund,
       MarkRefundOk, RollbackRefund, RestoreStatus, MarkRefundFailed,
       MarkRefundPending, QueryRefund, FinalizePendingRefundSuccess,
       FinalizeRefundFailed, flags
  <2>2. pc[w] \notin Executing
    BY <2>1 DEF IInv, RefundIsExclusive, Final
  <2>3. \/ SubmitRefundRequest(w) \/ LockOrder(w) \/ QueryRefund(w)
        \/ FinalizePendingRefundSuccess(w) \/ FinalizeRefundFailed(w)
    BY <1>4, <2>2 DEF WorkerStep, DeductBalance, GwRefund, MarkRefundOk,
       RollbackRefund, RestoreStatus, MarkRefundFailed, MarkRefundPending, Executing
  <2>. QED
    BY <2>3 DEF SubmitRefundRequest, LockOrder, QueryRefund, FinalizeRefundFailed,
       FinalizePendingRefundSuccess, Final, Refundable, order
<1>. QED BY <1>1, <1>2, <1>3, <1>4 DEF Next

\* A refunded order stays refunded, unless finalizeRefundFailed overruled it.
THEOREM RefundedStays == Spec => RefundedIsFinal
BY Invariance, FinalStepKept, PTL DEF Spec, RefundedIsFinal

\* A step that takes balance for a refund leaves no deficit.
LEMMA StepNeverOverdraws ==
  IInv /\ [Next]_vars => (taken' > taken => balance' >= 0)
<1> SUFFICES ASSUME IInv, [Next]_vars, taken' > taken PROVE balance' >= 0
  OBVIOUS
<1>1. balance \in Int /\ taken \in Int /\ taken' \in Int
  BY NextIInv DEF IInv, TypeOK, MoneyTypeOK
<1>2. PICK w \in Workers : DeductBalance(w) \/ FinalizePendingRefundSuccess(w)
  <2>1. taken' # taken /\ ~(taken' <= taken)
    BY <1>1
  <2>2. \A w \in Workers : ~RollbackRefund(w)
    <3> SUFFICES ASSUME NEW w \in Workers, RollbackRefund(w) PROVE FALSE
      OBVIOUS
    <3>1. plan[w].toDeduct \in 0..Amount
      BY PlanUpdates DEF IInv, TypeOK
    <3>. QED BY <1>1, <3>1, AmountAssumption DEF RollbackRefund, money
  <2>. QED
    BY <2>1, <2>2 DEF Next, Request, WorkerStep, vars, money, GatewaySettles,
       SpendBalance, RequestRefund, QueryAndFinalizeRefund, PrepareRefund,
       SubmitRefundRequest, LockOrder, GwRefund, MarkRefundOk, RestoreStatus,
       MarkRefundFailed, MarkRefundPending, QueryRefund, FinalizeRefundFailed, Crash
<1>3. LET d == Available(plan[w].toDeduct)
      IN d \in 0..Amount /\ (d > 0 => d <= balance)
  BY AvailableBounds, PlanUpdates DEF IInv, TypeOK
<1>4. LET d == Available(plan[w].toDeduct)
      IN balance' = balance - d /\ taken' = taken + d
  BY <1>1, <1>2 DEF DeductBalance, FinalizePendingRefundSuccess, money
<1>. QED BY <1>1, <1>3, <1>4, AmountAssumption

\* DeductAvailableBalance never creates or deepens a deficit, however the balance
\* was spent since the plan was made.
THEOREM NeverOverdraws == Spec => RefundNeverOverdraws
BY Invariance, StepNeverOverdraws, PTL DEF Spec, RefundNeverOverdraws

-----------------------------------------------------------------------------
\* The steps at which a request has made its deduction and not yet undone it.
Holding == {"gateway", "rollback", "rollbackPending"}

\* What requests have deducted and may still undo, one element for each unit: as many
\* requests execute at once as statuses were overruled.
Deducted == {u \in Workers \X (1..Amount) : pc[u[1]] \in Holding /\ u[2] <= plan[u[1]].toDeduct}

\* Why a deduction may stay.
Accounted == Returned \/ "REFUND_ROLLBACK_FAILED" \in audit \/ died \/ unlogged

\* Before any of these, what was taken is exactly what the executing requests can undo.
HoldingInv == ~Accounted => IsFiniteSet(Deducted) /\ taken = Cardinality(Deducted)

\* What the provider has returned stays returned, and no record is removed.
LEMMA AccountedStays ==
  ASSUME [Next]_vars, Accounted
  PROVE  Accounted'
<1> USE DEF Next, Request, WorkerStep, vars, order, logs, flags, GatewaySettles, SpendBalance,
            RequestRefund, QueryAndFinalizeRefund, PrepareRefund, SubmitRefundRequest,
            LockOrder, DeductBalance, GwRefund, MarkRefundOk, RollbackRefund, RestoreStatus,
            MarkRefundFailed, MarkRefundPending, QueryRefund, FinalizePendingRefundSuccess,
            FinalizeRefundFailed, Crash
<1>1. Returned => Returned'
  BY DEF Returned
<1>2. audit \subseteq audit'
  OBVIOUS
<1>3. died => died'
  OBVIOUS
<1>4. unlogged => unlogged'
  OBVIOUS
<1>. QED BY <1>1, <1>2, <1>3, <1>4 DEF Accounted

\* A deduction of d makes d elements.
LEMMA UnitsOf ==
  ASSUME NEW w, NEW d \in Nat
  PROVE  IsFiniteSet({w} \X (1..d)) /\ Cardinality({w} \X (1..d)) = d
<1> DEFINE ks == 1..d
<1>1. IsFiniteSet({w}) /\ Cardinality({w}) = 1
  BY FS_Singleton
<1>2. IsFiniteSet(ks) /\ Cardinality(ks) = d
  <2>1. 1 \in Int /\ d \in Int
    OBVIOUS
  <2>2. IsFiniteSet(1..d) /\ Cardinality(1..d) = IF 1 > d THEN 0 ELSE d - 1 + 1
    BY <2>1, FS_Interval
  <2>. QED BY <2>2
<1> HIDE DEF ks
<1>3. IsFiniteSet({w} \X ks) /\ Cardinality({w} \X ks) = Cardinality({w}) * Cardinality(ks)
  BY <1>1, <1>2, FS_Product
<1>4. IsFiniteSet({w} \X ks) /\ Cardinality({w} \X ks) = d
  BY <1>1, <1>2, <1>3
<1>. QED BY <1>4 DEF ks

LEMMA UnitsAdded ==
  ASSUME NEW S, NEW w, NEW d \in Nat, IsFiniteSet(S), S \cap ({w} \X (1..d)) = {}
  PROVE  /\ IsFiniteSet(S \cup ({w} \X (1..d)))
         /\ Cardinality(S \cup ({w} \X (1..d))) = Cardinality(S) + d
<1> DEFINE T == {w} \X (1..d)
<1>1. IsFiniteSet(T) /\ Cardinality(T) = d
  BY UnitsOf
<1>2. S \cap T = {}
  OBVIOUS
<1> HIDE DEF T
<1>3. /\ IsFiniteSet(S \cup T)
      /\ Cardinality(S \cup T) = Cardinality(S) + Cardinality(T) - Cardinality({})
  <2>1. /\ IsFiniteSet(S \cup T)
        /\ Cardinality(S \cup T) = Cardinality(S) + Cardinality(T) - Cardinality(S \cap T)
    BY <1>1, FS_Union
  <2>. QED BY <1>2, <2>1
<1>4. Cardinality({}) = 0 /\ Cardinality(S) \in Nat
  BY FS_EmptySet, FS_CardinalityType
<1>5. IsFiniteSet(S \cup T) /\ Cardinality(S \cup T) = Cardinality(S) + d
  BY <1>1, <1>3, <1>4
<1>. QED BY <1>5 DEF T

\* A step of one request changes nothing of the others'.
LEMMA OneRequestMoves ==
  ASSUME TypeOK, NEW w \in Workers, Request(w) \/ WorkerStep(w) \/ Crash(w)
  PROVE  \A v \in Workers \ {w} : pc'[v] = pc[v] /\ plan'[v] = plan[v]
BY DEF TypeOK, ActorTypeOK, Request, WorkerStep, Goto, Return, RequestRefund,
       QueryAndFinalizeRefund, PrepareRefund, SubmitRefundRequest, LockOrder, DeductBalance,
       GwRefund, MarkRefundOk, RollbackRefund, RestoreStatus, MarkRefundFailed,
       MarkRefundPending, QueryRefund, FinalizePendingRefundSuccess, FinalizeRefundFailed, Crash

\* A deduction adds to what can be undone, and a rollback undoes it.
LEMMA DeductKeepsHolding ==
  ASSUME TypeOK, HoldingInv, ~Accounted, NEW w \in Workers, DeductBalance(w)
  PROVE  HoldingInv'
<1>1. \A v \in Workers \ {w} : pc'[v] = pc[v] /\ plan'[v] = plan[v]
  BY OneRequestMoves DEF WorkerStep
<1>2. pc[w] = "deduct" /\ plan[w] \in Plans /\ plan[w].toDeduct \in 0..Amount
  BY DEF DeductBalance, TypeOK, ActorTypeOK, Plans
<1>3. CASE pc'[w] = "restore" /\ taken' = taken
  <2>1. Deducted' = Deducted
    BY <1>1, <1>2, <1>3 DEF Deducted, Holding
  <2>. QED BY <1>3, <2>1 DEF HoldingInv
<1>4. ASSUME NEW d \in 0..Amount, pc'[w] = "gateway", plan'[w].toDeduct = d, taken' = taken + d
      PROVE  HoldingInv'
  <2>1. d \in Nat
    BY AmountAssumption
  <2>2. Deducted' = Deducted \cup ({w} \X (1..d)) /\ Deducted \cap ({w} \X (1..d)) = {}
    BY <1>1, <1>2, <1>4, AmountAssumption DEF Deducted, Holding
  <2>3. IsFiniteSet(Deducted) /\ taken = Cardinality(Deducted)
    BY DEF HoldingInv
  <2>4. /\ IsFiniteSet(Deducted \cup ({w} \X (1..d)))
        /\ Cardinality(Deducted \cup ({w} \X (1..d))) = Cardinality(Deducted) + d
    BY <2>1, <2>2, <2>3, UnitsAdded
  <2>5. IsFiniteSet(Deducted') /\ taken' = Cardinality(Deducted')
    BY <1>4, <2>2, <2>3, <2>4
  <2>. QED BY <2>5 DEF HoldingInv
<1>5. CASE /\ plan' = [plan EXCEPT ![w].toDeduct = Available(plan[w].toDeduct)]
           /\ taken' = taken + Available(plan[w].toDeduct) /\ Goto(w, "gateway")
  <2> DEFINE d == Available(plan[w].toDeduct)
  <2>1. d \in 0..Amount
    BY <1>2, AvailableBounds DEF TypeOK
  <2>2. pc'[w] = "gateway" /\ plan'[w].toDeduct = d /\ taken' = taken + d
    BY <1>2, <1>5 DEF Goto, TypeOK, ActorTypeOK, Plans
  <2> HIDE DEF d
  <2>. QED BY <1>4, <2>1, <2>2
<1>6. CASE plan' = [plan EXCEPT ![w].toDeduct = 0] /\ Goto(w, "gateway") /\ taken' = taken
  <2>1. pc'[w] = "gateway" /\ plan'[w].toDeduct = 0 /\ taken' = taken + 0 /\ 0 \in 0..Amount
    BY <1>2, <1>6, AmountAssumption DEF Goto, TypeOK, ActorTypeOK, MoneyTypeOK, Plans
  <2>. QED BY <1>4, <2>1
<1>7. CASE Goto(w, "restore") /\ UNCHANGED money
  BY <1>3, <1>7 DEF Goto, money, TypeOK, ActorTypeOK
<1>. QED BY <1>5, <1>6, <1>7 DEF DeductBalance, money

LEMMA RollbackKeepsHolding ==
  ASSUME TypeOK, HoldingInv, ~Accounted, ~Accounted', NEW w \in Workers, RollbackRefund(w)
  PROVE  HoldingInv'
<1> DEFINE d == plan[w].toDeduct
<1>1. \A v \in Workers \ {w} : pc'[v] = pc[v] /\ plan'[v] = plan[v]
  BY OneRequestMoves DEF WorkerStep
<1>2. pc[w] \in Holding /\ d \in 0..Amount /\ d \in Nat /\ taken \in Int
  BY AmountAssumption DEF RollbackRefund, Holding, TypeOK, ActorTypeOK, MoneyTypeOK, Plans
<1>3. taken' = taken - d /\ pc'[w] \notin Holding
  BY DEF RollbackRefund, Goto, Accounted, Holding, TypeOK, ActorTypeOK
<1> HIDE DEF d
<1>4. /\ Deducted = Deducted' \cup ({w} \X (1..d)) /\ Deducted' \cap ({w} \X (1..d)) = {}
      /\ Deducted' \in SUBSET Deducted
  BY <1>1, <1>2, <1>3, AmountAssumption DEF Deducted, d
<1>5. IsFiniteSet(Deducted) /\ taken = Cardinality(Deducted)
  BY DEF HoldingInv
<1>6. IsFiniteSet(Deducted')
  BY <1>4, <1>5, FS_Subset
<1>7. Cardinality(Deducted) = Cardinality(Deducted') + d /\ Cardinality(Deducted') \in Nat
  BY <1>2, <1>4, <1>6, UnitsAdded, FS_CardinalityType
<1>. QED BY <1>2, <1>3, <1>5, <1>6, <1>7 DEF HoldingInv

\* Every other step takes nothing and lets nothing go: who holds a deduction goes on to hold
\* it, or dies, or has the provider's yes.
LEMMA NextHoldingInv == IInv /\ HoldingInv /\ [Next]_vars => HoldingInv'
<1> SUFFICES ASSUME IInv, HoldingInv, [Next]_vars, ~Accounted' PROVE HoldingInv'
  BY DEF HoldingInv
<1>1. ~Accounted /\ TypeOK
  BY AccountedStays DEF IInv
<1>2. CASE UNCHANGED vars \/ GatewaySettles \/ SpendBalance
  <2>1. UNCHANGED <<taken, pc, plan>>
    BY <1>2 DEF vars, GatewaySettles, SpendBalance, money
  <2>2. Deducted' = Deducted
    BY <2>1 DEF Deducted
  <2>. QED BY <1>1, <2>1, <2>2 DEF HoldingInv
<1>3. ASSUME NEW w \in Workers, Request(w) \/ WorkerStep(w) \/ Crash(w),
             ~DeductBalance(w), ~RollbackRefund(w)
      PROVE  HoldingInv'
  <2>1. \A v \in Workers \ {w} : pc'[v] = pc[v] /\ plan'[v] = plan[v]
    BY <1>1, <1>3, OneRequestMoves
  <2>2. ~FinalizePendingRefundSuccess(w) /\ ~MarkRefundOk(w)
    BY <1>1 DEF FinalizePendingRefundSuccess, MarkRefundOk, IInv, ReturnInv, Accounted
  <2>3. taken' = taken
    BY <1>3, <2>2
       DEF Request, WorkerStep, money, RequestRefund, QueryAndFinalizeRefund, PrepareRefund,
         SubmitRefundRequest, LockOrder, GwRefund, RestoreStatus, MarkRefundFailed,
         MarkRefundPending, QueryRefund, FinalizeRefundFailed, Crash
  <2>4. \/ pc[w] \notin Holding /\ pc'[w] \notin Holding
        \/ pc[w] \in Holding /\ pc'[w] \in Holding /\ plan'[w] = plan[w]
    <3>1. CASE GwRefund(w)
      BY <1>1, <3>1 DEF GwRefund, Goto, Holding, Accounted, Returned, TypeOK, ActorTypeOK, order
    <3>2. CASE Crash(w)
      BY <1>1, <3>2 DEF Crash, Return, Goto, Holding, Executing, Accounted, TypeOK, ActorTypeOK
    <3>3. CASE ~GwRefund(w) /\ ~Crash(w)
      BY <1>1, <1>3, <2>2, <3>3
         DEF Request, WorkerStep, Goto, Return, Holding, TypeOK, ActorTypeOK, RequestRefund,
           QueryAndFinalizeRefund, PrepareRefund, SubmitRefundRequest, LockOrder,
           RestoreStatus, MarkRefundFailed, MarkRefundPending, QueryRefund,
           FinalizeRefundFailed
    <3>. QED BY <3>1, <3>2, <3>3
  <2>5. Deducted' = Deducted
    BY <2>1, <2>4 DEF Deducted
  <2>. QED BY <1>1, <2>3, <2>5 DEF HoldingInv
<1>. QED BY <1>1, <1>2, <1>3, DeductKeepsHolding, RollbackKeepsHolding DEF Next

\* At rest the user has lost balance to a refund only if the provider returned the money, a
\* failed rollback (RollbackRefund) is on record, or a request died or could not write that
\* record, even when finalizeRefundFailed has overruled a status and several requests
\* executed at once.
THEOREM TakenAccounted == Spec => []TakenIsAccountedFor
<1>1. Init => HoldingInv
  <2> SUFFICES ASSUME Init PROVE HoldingInv
    OBVIOUS
  <2>1. Deducted = {}
    BY DEF Init, Deducted, Holding
  <2>. QED BY <2>1, FS_EmptySet DEF HoldingInv, Init
<1>2. HoldingInv => TakenIsAccountedFor
  <2> SUFFICES ASSUME HoldingInv, taken > 0, \A w \in Workers : pc[w] \notin Executing, ~Accounted
               PROVE  FALSE
    BY DEF TakenIsAccountedFor, Accounted
  <2>1. Deducted = {}
    BY DEF Deducted, Holding, Executing
  <2>. QED BY <2>1, FS_EmptySet DEF HoldingInv
<1>. QED BY <1>1, <1>2, Invariance, NextHoldingInv, PTL DEF Spec

=============================================================================
