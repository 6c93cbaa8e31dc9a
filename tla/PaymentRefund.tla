---------------------------- MODULE PaymentRefund ----------------------------
(***************************************************************************)
(* Refunds of one completed balance order (payment_refund.go).             *)
(*                                                                         *)
(* Workers are requests of the user and of administrators.  A refund first *)
(* locks the order (status REFUNDING), takes the amount from the user's    *)
(* balance, then asks the payment provider, and undoes the deduction when  *)
(* the provider refuses or answers "pending".  Each database statement,    *)
(* each transaction and each provider call is one step.                    *)
(*                                                                         *)
(* payment_audit_logs has a unique index on (order_id, action): of several *)
(* REFUND_PENDING rows only the first is kept, and a second REFUND_SUCCESS *)
(* row aborts the transaction that inserts it.                             *)
(***************************************************************************)
EXTENDS Integers, FiniteSets

CONSTANTS
  Workers,      \* requests that may run at the same time
  Amount,       \* the order's amount
  MaxBalance,   \* the largest balance the user may start with
  MaxDeficit,   \* how far below zero usage may drive the balance in the model
  MaxFaults     \* bound on crashes and on failing database calls

ASSUME AmountAssumption == Amount \in Nat \ {0}
ASSUME MaxBalanceAssumption == MaxBalance \in Nat
ASSUME MaxDeficitAssumption == MaxDeficit \in Nat
ASSUME MaxFaultsAssumption == MaxFaults \in Nat

VARIABLES
  status,        \* payment_orders.status
  refundAmount,  \* payment_orders.refund_amount
  hasTradeNo,    \* payment_orders.payment_trade_no is not empty
  audit,         \* audit actions later code looks at
  pendingDetail, \* deductionRollbackOK of the REFUND_PENDING audit row, if any
  balance,       \* users.balance
  taken,         \* history: what refunds of the order took from the balance, net
  gateway,       \* the refund as the provider sees it
  pc,            \* what each request does next
  plan,          \* the RefundPlan of each request
  overruled,     \* history: finalizeRefundFailed hit an order that was not pending
  died,          \* history: a request died while it executed a refund
  unlogged,      \* history: an audit row that later code looks at was not written
  faults         \* crashes and failures so far

order == <<status, refundAmount, hasTradeNo>>
logs  == <<audit, pendingDetail>>
money == <<balance, taken>>
flags == <<overruled, died, unlogged>>
vars  == <<status, refundAmount, hasTradeNo, audit, pendingDetail, balance,
           taken, gateway, pc, plan, overruled, died, unlogged, faults>>

Statuses == {"COMPLETED", "REFUND_REQUESTED", "REFUNDING", "REFUND_PENDING",
             "REFUND_FAILED", "PARTIALLY_REFUNDED", "REFUNDED"}

Final == {"PARTIALLY_REFUNDED", "REFUNDED"}

\* The statuses PrepareRefund and the lock of ExecuteRefund accept.
Refundable == {"COMPLETED", "REFUND_REQUESTED", "REFUND_PENDING", "REFUND_FAILED"}

\* Between the lock and the write that ends the refund.
Executing == {"deduct", "gateway", "ok", "rollback", "rollbackPending",
              "pending", "restore", "failed"}

Steps == {"idle", "request", "lock", "queryRefund", "finalizeOk",
          "finalizeFailed"} \cup Executing

Plans == [from : Refundable, amount : 0..Amount, toDeduct : 0..Amount,
          rolledBack : BOOLEAN]

NoPlan == [from |-> "COMPLETED", amount |-> 0, toDeduct |-> 0, rolledBack |-> TRUE]

Least(a, b)    == IF a <= b THEN a ELSE b
Greatest(a, b) == IF a >= b THEN a ELSE b

Init ==
  /\ status = "COMPLETED" /\ refundAmount = 0 /\ hasTradeNo \in BOOLEAN
  /\ audit = {} /\ pendingDetail = "none"
  /\ balance \in -MaxDeficit..MaxBalance /\ taken = 0
  /\ gateway = "none"
  /\ pc = [w \in Workers |-> "idle"]
  /\ plan = [w \in Workers |-> NoPlan]
  /\ overruled = FALSE /\ died = FALSE /\ unlogged = FALSE
  /\ faults = 0

-----------------------------------------------------------------------------
Goto(w, step) == pc' = [pc EXCEPT ![w] = step]

Return(w) == Goto(w, "idle") /\ plan' = [plan EXCEPT ![w] = NoPlan]

Fault == faults < MaxFaults /\ faults' = faults + 1

\* Mutant: a plain deduction.
AvailableUnclamped(amount) == amount

\* DeductAvailableBalance: LEAST(amount, GREATEST(balance, 0)).
Available(amount) == Least(amount, Greatest(balance, 0))

\* The status a refund of this amount ends in.
RefundedStatus(amount) == IF amount < Amount THEN "PARTIALLY_REFUNDED" ELSE "REFUNDED"

-----------------------------------------------------------------------------
(* The user asks for a refund. *)

RequestRefund(w) ==
  /\ pc[w] = "idle" /\ status = "COMPLETED" /\ balance >= Amount
  /\ Goto(w, "request")
  /\ UNCHANGED <<order, logs, money, gateway, plan, flags, faults>>

\* Mutant: the update without its status condition.
SubmitRefundRequestUnguarded(w) ==
  /\ pc[w] = "request"
  /\ status' = "REFUND_REQUESTED" /\ refundAmount' = Amount
  /\ Return(w)
  /\ UNCHANGED <<hasTradeNo, logs, money, gateway, flags, faults>>

SubmitRefundRequest(w) ==
  /\ pc[w] = "request"
  /\ IF status = "COMPLETED"
       THEN status' = "REFUND_REQUESTED" /\ refundAmount' = Amount
       ELSE UNCHANGED <<status, refundAmount>>
  /\ Return(w)
  /\ UNCHANGED <<hasTradeNo, logs, money, gateway, flags, faults>>

-----------------------------------------------------------------------------
(* An administrator refunds: PrepareRefund and ExecuteRefund. *)

\* prepDeduct refuses a balance below the amount unless forced.
PrepareRefund(w, amount, force, deduct) ==
  /\ pc[w] = "idle" /\ status \in Refundable
  /\ deduct /\ balance < amount => force
  /\ Goto(w, "lock")
  /\ plan' = [plan EXCEPT ![w] =
       [from |-> status, amount |-> amount, rolledBack |-> TRUE,
        toDeduct |-> IF deduct THEN Available(amount) ELSE 0]]
  /\ UNCHANGED <<order, logs, money, gateway, flags, faults>>

\* Mutant: a lock that also takes an order whose refund is running.
LockOrderUnguarded(w) ==
  /\ pc[w] = "lock" /\ status' = "REFUNDING" /\ Goto(w, "deduct")
  /\ UNCHANGED <<refundAmount, hasTradeNo, logs, money, gateway, plan, flags, faults>>

LockOrder(w) ==
  /\ pc[w] = "lock"
  /\ IF status \in Refundable
       THEN status' = "REFUNDING" /\ Goto(w, "deduct") /\ UNCHANGED plan
       ELSE Return(w) /\ UNCHANGED status
  /\ UNCHANGED <<refundAmount, hasTradeNo, logs, money, gateway, flags, faults>>

\* The deduction is skipped when an earlier one could not be rolled back (a
\* failing lookup of that row counts as none); an error of it restores the status.  A
\* statement that fails has had no effect, here and in the other steps.
DeductBalance(w) ==
  /\ pc[w] = "deduct"
  /\ \/ /\ plan[w].toDeduct > 0
        /\ IF "REFUND_ROLLBACK_FAILED" \in audit THEN Fault ELSE UNCHANGED faults
        /\ LET d == Available(plan[w].toDeduct)
           IN /\ balance' = balance - d /\ taken' = taken + d
              /\ plan' = [plan EXCEPT ![w].toDeduct = d]
        /\ Goto(w, "gateway")
     \/ /\ plan[w].toDeduct > 0 /\ "REFUND_ROLLBACK_FAILED" \notin audit
        /\ Fault /\ Goto(w, "restore") /\ UNCHANGED <<money, plan>>
     \/ /\ plan[w].toDeduct = 0 \/ "REFUND_ROLLBACK_FAILED" \in audit
        /\ plan' = [plan EXCEPT ![w].toDeduct = 0]
        /\ Goto(w, "gateway") /\ UNCHANGED <<money, faults>>
  /\ UNCHANGED <<order, logs, gateway, flags>>

\* Mutant: a pending refund is taken for a finished one.
GwRefundPendingIsOk(w) ==
  /\ pc[w] = "gateway" /\ Goto(w, "ok")
  /\ gateway' \in IF hasTradeNo THEN {"done", "pending"} ELSE {gateway}
  /\ UNCHANGED <<order, logs, money, plan, flags, faults>>

\* gwRefund.  Without a trade number the provider is not asked at all.  An
\* error may be a refusal or a lost answer, so the provider may have acted; a
\* refund done before is answered again or refused.
GwRefund(w) ==
  /\ pc[w] = "gateway"
  /\ \/ ~hasTradeNo /\ Goto(w, "ok") /\ UNCHANGED gateway
     \/ hasTradeNo /\ gateway' = "done" /\ Goto(w, "ok")
     \/ hasTradeNo /\ gateway # "done" /\ gateway' = "pending" /\ Goto(w, "rollbackPending")
     \/ hasTradeNo /\ gateway' \in {gateway, "done"} /\ Goto(w, "rollback")
     \/ hasTradeNo /\ gateway # "done" /\ gateway' = "pending" /\ Goto(w, "rollback")
  /\ UNCHANGED <<order, logs, money, plan, flags, faults>>

\* markRefundOk: an unconditional update; its audit row may exist already.
MarkRefundOk(w) ==
  /\ pc[w] = "ok"
  /\ \/ /\ status' = RefundedStatus(plan[w].amount)
        /\ refundAmount' = plan[w].amount
        /\ audit' = audit \cup {"REFUND_SUCCESS"} /\ UNCHANGED faults
     \/ Fault /\ UNCHANGED <<status, refundAmount, audit>>
  /\ Return(w)
  /\ UNCHANGED <<hasTradeNo, pendingDetail, money, gateway, flags>>

\* Mutant: a refused refund keeps the deduction.
RollbackRefundOnlyPending(w) ==
  /\ pc[w] \in {"rollback", "rollbackPending"}
  /\ IF pc[w] = "rollback" THEN UNCHANGED money
     ELSE balance' = balance + plan[w].toDeduct /\ taken' = taken - plan[w].toDeduct
  /\ Goto(w, IF pc[w] = "rollback" THEN "restore" ELSE "pending")
  /\ UNCHANGED <<order, logs, plan, gateway, flags, faults>>

\* Mutant: a pending refund keeps the deduction and reports it rolled back.
RollbackRefundOnlyFailed(w) ==
  /\ pc[w] \in {"rollback", "rollbackPending"}
  /\ IF pc[w] = "rollbackPending" THEN UNCHANGED money
     ELSE balance' = balance + plan[w].toDeduct /\ taken' = taken - plan[w].toDeduct
  /\ Goto(w, IF pc[w] = "rollback" THEN "restore" ELSE "pending")
  /\ UNCHANGED <<order, logs, plan, gateway, flags, faults>>

\* RollbackRefund, called by handleGwFail and by markRefundPending.  When the
\* database fails, the row that says so may be lost as well.
RollbackRefund(w) ==
  /\ pc[w] \in {"rollback", "rollbackPending"}
  /\ \/ /\ balance' = balance + plan[w].toDeduct /\ taken' = taken - plan[w].toDeduct
        /\ plan' = [plan EXCEPT ![w].toDeduct = 0, ![w].rolledBack = TRUE]
        /\ Goto(w, IF pc[w] = "rollback" THEN "restore" ELSE "pending")
        /\ UNCHANGED <<audit, unlogged, faults>>
     \/ /\ plan[w].toDeduct > 0 /\ Fault
        /\ \/ audit' = audit \cup {"REFUND_ROLLBACK_FAILED"} /\ UNCHANGED unlogged
           \/ unlogged' = TRUE /\ UNCHANGED audit
        /\ plan' = [plan EXCEPT ![w].rolledBack = FALSE]
        /\ Goto(w, IF pc[w] = "rollback" THEN "failed" ELSE "pending")
        /\ UNCHANGED money
  /\ UNCHANGED <<order, pendingDetail, gateway, overruled, died>>

\* The error of this update is ignored.
RestoreStatus(w) ==
  /\ pc[w] = "restore"
  /\ \/ /\ status' = IF plan[w].from = "REFUND_REQUESTED" THEN "REFUND_REQUESTED" ELSE "COMPLETED"
        /\ UNCHANGED faults
     \/ Fault /\ UNCHANGED status
  /\ Return(w)
  /\ UNCHANGED <<refundAmount, hasTradeNo, logs, money, gateway, flags>>

\* The end of handleGwFail after a failed rollback; its error is ignored too.
MarkRefundFailed(w) ==
  /\ pc[w] = "failed"
  /\ \/ status' = "REFUND_FAILED" /\ UNCHANGED faults
     \/ Fault /\ UNCHANGED status
  /\ Return(w)
  /\ UNCHANGED <<refundAmount, hasTradeNo, logs, money, gateway, flags>>

\* Mutant: the status of an unpaid order instead of a pending refund's.
MarkRefundPendingWrongStatus(w) ==
  /\ pc[w] = "pending" /\ status' = "PENDING" /\ Return(w)
  /\ UNCHANGED <<refundAmount, hasTradeNo, logs, money, gateway, flags, faults>>

\* The update may fail, which leaves the order REFUNDING, and so may the insert
\* of the audit row.
MarkRefundPending(w) ==
  /\ pc[w] = "pending"
  /\ \/ /\ status' = "REFUND_PENDING" /\ refundAmount' = plan[w].amount
        /\ \/ /\ pendingDetail' = IF pendingDetail # "none" THEN pendingDetail
                                  ELSE IF plan[w].rolledBack THEN "rolledBack" ELSE "kept"
              /\ UNCHANGED <<unlogged, faults>>
           \/ Fault /\ unlogged' = TRUE /\ UNCHANGED pendingDetail
     \/ Fault /\ UNCHANGED <<status, refundAmount, pendingDetail, unlogged>>
  /\ Return(w)
  /\ UNCHANGED <<hasTradeNo, audit, money, gateway, overruled, died>>

-----------------------------------------------------------------------------
(* An administrator finalizes a pending refund: QueryAndFinalizeRefund. *)

\* The order and the audit detail are read before the provider is asked; the
\* plan deducts the whole amount unless the detail says it is still deducted; a
\* failing lookup of the detail counts as rolled back.
QueryAndFinalizeRefund(w) ==
  /\ pc[w] = "idle" /\ status = "REFUND_PENDING"
  /\ Goto(w, "queryRefund")
  /\ \E toDeduct \in {0, refundAmount} :
       /\ plan' = [plan EXCEPT ![w] =
            [from |-> "REFUND_PENDING", amount |-> refundAmount, rolledBack |-> TRUE,
             toDeduct |-> toDeduct]]
       /\ \/ toDeduct = (IF pendingDetail = "kept" THEN 0 ELSE refundAmount) /\ UNCHANGED faults
          \/ toDeduct = refundAmount /\ Fault
  /\ UNCHANGED <<order, logs, money, gateway, flags>>

\* Done or still pending; a failing query returns.  A refused refund, and likewise an
\* answer that is invalid or has a status nobody knows, is taken for a failed one.
QueryRefund(w) ==
  /\ pc[w] = "queryRefund"
  /\ \/ gateway = "done" /\ Goto(w, "finalizeOk") /\ UNCHANGED plan
     \/ Goto(w, "finalizeFailed") /\ UNCHANGED plan
     \/ Return(w)
  /\ UNCHANGED <<order, logs, money, gateway, flags, faults>>

\* One transaction: claim the pending order, deduct, mark it refunded.
FinalizePendingRefundSuccess(w) ==
  /\ pc[w] = "finalizeOk"
  /\ IF status = "REFUND_PENDING" /\ "REFUND_SUCCESS" \notin audit
       THEN /\ LET d == Available(plan[w].toDeduct)
               IN balance' = balance - d /\ taken' = taken + d
            /\ status' = RefundedStatus(plan[w].amount)
            /\ refundAmount' = plan[w].amount
            /\ audit' = audit \cup {"REFUND_SUCCESS"}
       ELSE UNCHANGED <<money, status, refundAmount, audit>>
  /\ Return(w)
  /\ UNCHANGED <<hasTradeNo, pendingDetail, gateway, flags, faults>>

\* finalizeRefundFailed writes the status whatever it is by now.
FinalizeRefundFailed(w) ==
  /\ pc[w] = "finalizeFailed"
  /\ status' = "REFUND_FAILED"
  /\ overruled' = (overruled \/ status \notin {"REFUND_PENDING", "REFUND_FAILED"})
  /\ Return(w)
  /\ UNCHANGED <<refundAmount, hasTradeNo, logs, money, gateway, died, unlogged, faults>>

-----------------------------------------------------------------------------
(* The provider, other charges to the balance, and crashes. *)

GatewaySettles ==
  /\ gateway = "pending" /\ gateway' \in {"done", "failed"}
  /\ UNCHANGED <<order, logs, money, pc, plan, flags, faults>>

\* Usage billing may drive the balance below zero.
SpendBalance ==
  /\ balance > -MaxDeficit /\ balance' = balance - 1
  /\ UNCHANGED <<order, logs, taken, gateway, pc, plan, flags, faults>>

\* The process dies or, outside the execution of a refund, a call returns an error.
Crash(w) ==
  /\ pc[w] # "idle" /\ Fault
  /\ Return(w)
  /\ died' = (died \/ pc[w] \in Executing)
  /\ UNCHANGED <<order, logs, money, gateway, overruled, unlogged>>

-----------------------------------------------------------------------------
WorkerStep(w) ==
  \/ SubmitRefundRequest(w) \/ LockOrder(w) \/ DeductBalance(w) \/ GwRefund(w)
  \/ MarkRefundOk(w) \/ RollbackRefund(w) \/ RestoreStatus(w)
  \/ MarkRefundFailed(w) \/ MarkRefundPending(w) \/ QueryRefund(w)
  \/ FinalizePendingRefundSuccess(w) \/ FinalizeRefundFailed(w)

Request(w) ==
  \/ RequestRefund(w) \/ QueryAndFinalizeRefund(w)
  \/ \E amount \in 1..Amount, force \in BOOLEAN, deduct \in BOOLEAN :
       PrepareRefund(w, amount, force, deduct)

Next ==
  \/ GatewaySettles \/ SpendBalance
  \/ \E w \in Workers : Request(w) \/ WorkerStep(w) \/ Crash(w)

Spec == Init /\ [][Next]_vars

-----------------------------------------------------------------------------
(* Properties *)

OrderTypeOK ==
  /\ status \in Statuses /\ refundAmount \in 0..Amount /\ hasTradeNo \in BOOLEAN
  /\ audit \subseteq {"REFUND_ROLLBACK_FAILED", "REFUND_SUCCESS"}
  /\ pendingDetail \in {"none", "rolledBack", "kept"}
  /\ gateway \in {"none", "pending", "done", "failed"}

MoneyTypeOK ==
  /\ balance \in Int /\ taken \in Int
  /\ overruled \in BOOLEAN /\ died \in BOOLEAN
  /\ unlogged \in BOOLEAN
  /\ faults \in 0..MaxFaults

ActorTypeOK == pc \in [Workers -> Steps] /\ plan \in [Workers -> Plans]

\* Every variable keeps its type.
TypeOK == OrderTypeOK /\ MoneyTypeOK /\ ActorTypeOK

\* The provider has returned the money, or was not to be asked.
Returned == gateway = "done" \/ ~hasTradeNo

\* An order is refunded only once the provider has returned the money.
RefundedMeansReturned == status \in Final => Returned

\* The lock of ExecuteRefund: one refund at a time, under REFUNDING, unless
\* finalizeRefundFailed has overwritten the status of an order that was not
\* pending any more.
RefundIsExclusive ==
  ~overruled => \A w \in Workers : pc[w] \in Executing =>
    /\ status = "REFUNDING"
    /\ \A v \in Workers : pc[v] \in Executing => v = w

FinalStep == status \in Final /\ ~overruled' => status' = status

\* A refunded order stays refunded, with the same exception.
RefundedIsFinal == [][FinalStep]_vars

\* At rest, the user has lost balance to a refund only if the provider returned
\* the money, or the failed rollback is on record, or a request died half way or could not
\* write that record.
TakenIsAccountedFor ==
  taken > 0 /\ (\A w \in Workers : pc[w] \notin Executing)
    => Returned \/ "REFUND_ROLLBACK_FAILED" \in audit \/ died \/ unlogged

\* Without a failed rollback and without an overruled status, all refunds of the
\* order together never take more than its amount from the balance.
TakenAtMostAmount ==
  ~overruled /\ ~unlogged /\ "REFUND_ROLLBACK_FAILED" \notin audit => taken <= Amount

\* A refund never creates or deepens a deficit, although the balance may have
\* been spent since the plan was made.
RefundNeverOverdraws == [][taken' > taken => balance' >= 0]_vars

=============================================================================
