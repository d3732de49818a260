----------------------------- MODULE RunProofs -----------------------------
(***************************************************************************)
(* The safety of the Run reducer for every set of operations and children, *)
(* every assignment of effect classes and completion policies, every set   *)
(* of budgets and every bound.                                             *)
(***************************************************************************)
EXTENDS Run, TLAPS

\* A saved prior status belongs to a recovery, or to a Cancel during one, and a
\* decision to pause is either in force or saved.
ControlInv ==
  /\ prior # "None" => status \in {"RecoveryRequired", "Cancelled", "Tombstoned"}
  /\ will = "pause" => status # "Active" /\ (status = "RecoveryRequired" => prior # "None")

\* What OperationValid needs to be inductive: only a claim that nobody answered
\* and no recovery fenced can still be answered, and receipts go with settlement.
OperationInv(o) ==
  LET op == ops[o] IN
  /\ OperationValid(o)
  /\ op.epoch <= epoch
  /\ op.attempt # 0 /\ ~op.settled =>
       op.state = "Dispatching" \/ (op.state = "Uncertain" /\ op.epoch < epoch)
  /\ op.state = "Dispatching" => op.receipt = None
  /\ op.state \notin {"Acknowledged", "Reconciled"} => op.receipt \in {None, Unusable}

\* The attempts of one operation: numbered upwards, one claim for each, and all
\* but the newest disclaimed where a replay would matter.
AttemptInv(o) ==
  LET op == ops[o] IN
  /\ op.next_attempt >= 1
  /\ op.attempt # 0 => op.attempt = op.next_attempt - 1
  /\ op.state = "Absent" => op.next_attempt = 1
  /\ \A e \in dispatched : e.op = o => e.attempt >= 1 /\ e.attempt < op.next_attempt
  /\ ClassOf[o] \in {"Reconcilable", "NonRepeatable"} /\ op.state = "Prepared"
       => op.next_attempt = 1
  /\ ClassOf[o] = "NonRepeatable" => op.state # "FailedRetryable" /\ op.next_attempt <= 2
  /\ ClassOf[o] = "Reconcilable" =>
       \A e \in dispatched :
         e.op = o /\ (e.attempt < op.next_attempt - 1 \/ op.state = "FailedRetryable")
           => Disclaimed(e)

ClaimsUnique ==
  \A e, f \in dispatched : e.op = f.op /\ e.attempt = f.attempt => e = f

CompletionInv ==
  "Complete" \in {status, prior} =>
    /\ last = "accepted" /\ iteration = 0
    /\ \A o \in Ops : ops[o].state \in SettledOps
    /\ \A k \in Kids : PolicyOf[k] = "MustSucceed" => kids[k].state \in {"Absent", "Completed"}

Inv ==
  /\ TypeOK
  /\ ResidencyValid
  /\ ControlInv
  /\ \A o \in Ops : OperationInv(o)
  /\ \A o \in Ops : AttemptInv(o)
  /\ ClaimsUnique
  /\ CompletionInv
  /\ BudgetRespected

USE ConstantsAssumption DEF None, Unusable, Vec

\* The record that create_run writes satisfies the invariant.
LEMMA Initially == Init => Inv
<1> SUFFICES ASSUME Init PROVE Inv
  OBVIOUS
<1>1. TypeOK
  <2>1. NoOperation \in Operation /\ NoChild \in Child
    BY DEF NoOperation, NoChild, Operation, Child, OpState
  <2>2. ops \in [Ops -> Operation] /\ kids \in [Kids -> Child]
    BY <2>1 DEF Init
  <2>3. usage \in Vec /\ child_reserved \in Vec /\ budget \in Budgets
    BY DEF Init, UnitsVec
  <2>4. status \in Status /\ stage \in Stage
        /\ prior \in {"None"} \cup (Status \ {"Active", "RecoveryRequired"})
    BY DEF Init, Status, Stage
  <2>5. epoch \in 1 .. MaxEpoch /\ lease \in 0 .. MaxEpoch
        /\ iteration \in Nat /\ next_iteration \in Nat \ {0}
    BY DEF Init
  <2>6. wake \subseteq {"reason", "deadline"} /\ dispatched \subseteq Effect
        /\ answered \subseteq Effect \X {"Applied", "FailedRetryable", "Unknown"}
    BY DEF Init
  <2>7. will \in {"run", "pause", "cancel"}
        /\ last \in {"none", "accepted", "refused", "abandoned"}
    BY DEF Init
  <2> QED  BY <2>2, <2>3, <2>4, <2>5, <2>6, <2>7 DEF TypeOK
<1>2. ResidencyValid /\ ControlInv /\ ClaimsUnique /\ CompletionInv
  BY DEF Init, ResidencyValid, ControlInv, ClaimsUnique, CompletionInv
<1>3. \A o \in Ops : OperationInv(o) /\ AttemptInv(o)
  BY DEF Init, OperationInv, OperationValid, AttemptInv, NoOperation
<1>4. BudgetRespected
  BY DEF Init, BudgetRespected, UnitsVec, plus, within
<1> QED  BY <1>1, <1>2, <1>3, <1>4 DEF Inv

\* Every action keeps what the Host decided, in force or saved.
LEMMA ControlStep ==
  ASSUME TypeOK, ControlInv, [Next]_vars
  PROVE  ControlInv'
<1>1. CASE Activate
  BY <1>1 DEF ControlInv, Activate, request_wake, claim_activation, release_activation, lifecycle, history
<1>2. CASE Recover
  BY <1>2 DEF ControlInv, TypeOK, Recover, begin_recovery, finish_recovery, SavePrior, history, Waits, Terminal, Status
<1>3. CASE Reconcile
  BY <1>3 DEF ControlInv, Reconcile, reconcile_applied, reconcile_not_applied, reconcile_unknown, lifecycle, history
<1>4. CASE begin_iteration \/ FinishIteration
  BY <1>4 DEF ControlInv, begin_iteration, FinishIteration, finish_iteration, history
<1>5. CASE (\E o \in Ops : prepare_operation(o)) \/ ClaimEffect
  BY <1>5 DEF ControlInv, prepare_operation, ClaimEffect, claim_effect, lifecycle, history
<1>6. CASE Acknowledge
  <2>1. will' = will /\ (UNCHANGED lifecycle \/ enter_recovery)
    BY <1>6 DEF Acknowledge, acknowledge_applied, acknowledge_unusable, acknowledge_failed,
       acknowledge_unknown
  <2>2. CASE UNCHANGED lifecycle
    BY <2>1, <2>2 DEF ControlInv, lifecycle
  <2>3. CASE enter_recovery
    BY <2>1, <2>3 DEF ControlInv, TypeOK, enter_recovery, SavePrior, Status, Waits, Terminal
  <2> QED  BY <2>1, <2>2, <2>3
<1>7. CASE (\E k \in Kids, n \in Units : admit_child(k, n)) \/ ChildCallback
  BY <1>7 DEF ControlInv, admit_child, ChildCallback, child_started, child_settled, lifecycle, history
<1>8. CASE Control
  <2>1. CASE Pause \/ \E w \in Waits : PauseFor(w)
    BY <2>1 DEF ControlInv, Pause, PauseFor, Waits
  <2>2. CASE Cancel \/ TryComplete
    BY <2>2 DEF ControlInv, Cancel, TryComplete, validate_completion
  <2>3. CASE Tombstone
    BY <2>3 DEF ControlInv, Tombstone, history
  <2>4. CASE \E b \in Budgets : Resume(b)
    BY <2>4 DEF ControlInv, Resume, Waits
  <2> QED  BY <1>8, <2>1, <2>2, <2>3, <2>4 DEF Control
<1>9. CASE UNCHANGED vars
  BY <1>9 DEF ControlInv, vars, lifecycle, history
<1> QED  BY <1>1, <1>2, <1>3, <1>4, <1>5, <1>6, <1>7, <1>8, <1>9 DEF Next

\* The residency that validate accepts is what every handler leaves behind.
LEMMA ResidencyStep ==
  ASSUME TypeOK, ResidencyValid, [Next]_vars
  PROVE  ResidencyValid'
<1>1. CASE Activate
  BY <1>1 DEF ResidencyValid, TypeOK, Activate, request_wake, claim_activation,
     release_activation, lifecycle
<1>2. CASE Recover
  BY <1>2 DEF ResidencyValid, Recover, begin_recovery, finish_recovery, residency
<1>3. CASE Reconcile
  BY <1>3 DEF ResidencyValid, Reconcile, reconcile_applied, reconcile_not_applied,
     reconcile_unknown, lifecycle, residency
<1>4. CASE begin_iteration \/ FinishIteration
  BY <1>4 DEF ResidencyValid, begin_iteration, FinishIteration, finish_iteration, residency
<1>5. CASE (\E o \in Ops : prepare_operation(o)) \/ ClaimEffect
  BY <1>5 DEF ResidencyValid, prepare_operation, ClaimEffect, claim_effect, lifecycle, residency
<1>6. CASE Acknowledge
  <2>1. UNCHANGED <<lifecycle, residency>> \/ enter_recovery
    BY <1>6 DEF Acknowledge, acknowledge_applied, acknowledge_unusable, acknowledge_failed,
       acknowledge_unknown
  <2> QED  BY <2>1 DEF ResidencyValid, enter_recovery, fence_activation, lifecycle, residency
<1>7. CASE (\E k \in Kids, n \in Units : admit_child(k, n)) \/ ChildCallback
  BY <1>7 DEF ResidencyValid, admit_child, ChildCallback, child_started, child_settled,
     lifecycle, residency
<1>8. CASE Control
  BY <1>8 DEF ResidencyValid, Control, Pause, PauseFor, Resume, Cancel, TryComplete, Tombstone,
     fence_activation, Waits, Terminal, residency
<1>9. CASE UNCHANGED vars
  BY <1>9 DEF ResidencyValid, vars, lifecycle, residency
<1> QED  BY <1>1, <1>2, <1>3, <1>4, <1>5, <1>6, <1>7, <1>8, <1>9 DEF Next

\* Every handler that spends, reserves or changes the budget checks the sum.
LEMMA BudgetStep ==
  ASSUME TypeOK, BudgetRespected, [Next]_vars
  PROVE  BudgetRespected'
<1> USE DEF BudgetRespected, TypeOK, within, plus
<1>1. CASE Activate \/ begin_iteration \/ Reconcile
  BY <1>1 DEF Activate, request_wake, claim_activation, release_activation, begin_iteration,
     Reconcile, reconcile_applied, reconcile_not_applied, reconcile_unknown, money
<1>2. CASE begin_recovery
  BY <1>2 DEF begin_recovery, money
<1>3. ASSUME NEW r \in BOOLEAN, finish_recovery(r) PROVE BudgetRespected'
  <2> DEFINE cost == ReceiptSum(AppliedOps)
  <2>1. child_reserved' = child_reserved /\ budget' = budget
    BY <1>3 DEF finish_recovery
  <2>2. usage' = usage \/ (Fits(cost) /\ usage' = plus(usage, cost))
    BY <1>3 DEF finish_recovery, AbandonIteration
  <2> HIDE DEF cost
  <2> QED  BY <2>1, <2>2 DEF Fits
<1>4. CASE FinishIteration
  BY <1>4 DEF FinishIteration, finish_iteration, Fits
<1>5. CASE (\E o \in Ops : prepare_operation(o)) \/ ClaimEffect \/ Acknowledge
  BY <1>5 DEF prepare_operation, ClaimEffect, claim_effect, Acknowledge, acknowledge_applied,
     acknowledge_unusable, acknowledge_failed, acknowledge_unknown, money
<1>6. CASE \E k \in Kids, n \in Units : admit_child(k, n)
  BY <1>6 DEF admit_child, Fits, UnitsVec
<1>7. CASE ChildCallback
  BY <1>7 DEF ChildCallback, child_started, child_settled, money
<1>8. CASE Control
  BY <1>8 DEF Control, Pause, PauseFor, Resume, Cancel, TryComplete, Tombstone, money
<1>9. CASE UNCHANGED vars
  BY <1>9 DEF vars, money
<1> QED  BY <1>1, <1>2, <1>3, <1>4, <1>5, <1>6, <1>7, <1>8, <1>9 DEF Next, Recover

\* The epoch never goes back, and the budget is only ever raised.
LEMMA MonotoneStep ==
  ASSUME TypeOK, [Next]_vars
  PROVE  epoch' \in Nat /\ epoch' >= epoch /\ budget' \in Vec /\ within(budget, budget')
<1> USE DEF residency, money
<1> DEFINE Kept == epoch' = epoch /\ budget' = budget
           Fenced == fence_activation /\ budget' = budget
<1>0. budget \in Vec /\ within(budget, budget) /\ epoch \in Nat
  BY DEF TypeOK, within
<1>1. CASE Activate
  BY <1>0, <1>1 DEF Activate, request_wake, claim_activation, release_activation
<1>2. CASE begin_recovery
  BY <1>0, <1>2 DEF begin_recovery
<1>3. CASE \E r \in BOOLEAN : finish_recovery(r)
  BY <1>0, <1>3 DEF finish_recovery
<1>4. CASE Reconcile \/ begin_iteration \/ FinishIteration
  <2>1. Kept
    BY <1>4 DEF begin_iteration, FinishIteration, finish_iteration, Reconcile,
       reconcile_applied, reconcile_not_applied, reconcile_unknown
  <2> QED  BY <1>0, <2>1
<1>5. CASE (\E o \in Ops : prepare_operation(o)) \/ ClaimEffect
  <2>1. Kept
    BY <1>5 DEF prepare_operation, ClaimEffect, claim_effect
  <2> QED  BY <1>0, <2>1
<1>6. Fenced => epoch' \in Nat /\ epoch' >= epoch /\ budget' \in Vec /\ within(budget, budget')
  BY <1>0 DEF fence_activation
<1>7. CASE Acknowledge
  <2>1. Kept \/ Fenced
    BY <1>7 DEF Acknowledge, acknowledge_applied, acknowledge_unusable, acknowledge_failed,
       acknowledge_unknown, enter_recovery
  <2> QED  BY <1>0, <1>6, <2>1
<1>8. CASE (\E k \in Kids, n \in Units : admit_child(k, n)) \/ ChildCallback
  <2>1. Kept
    BY <1>8 DEF admit_child, ChildCallback, child_started, child_settled
  <2> QED  BY <1>0, <2>1
<1>9. CASE Pause \/ Cancel \/ TryComplete \/ Tombstone \/ \E w \in Waits : PauseFor(w)
  <2>1. Kept \/ Fenced
    BY <1>9 DEF Pause, PauseFor, Cancel, TryComplete, Tombstone
  <2> QED  BY <1>0, <1>6, <2>1
<1>10. CASE \E b \in Budgets : Resume(b)
  BY <1>0, <1>10 DEF Resume
<1>11. CASE UNCHANGED vars
  BY <1>0, <1>11 DEF vars
<1> QED
  BY <1>1, <1>2, <1>3, <1>4, <1>5, <1>7, <1>8, <1>9, <1>10, <1>11 DEF Next, Recover, Control

\* An operation that a step does not touch stays valid while its iteration is
\* still the active one, or when nothing of it is open.
LEMMA OperationFrame ==
  ASSUME TypeOK, [Next]_vars, NEW o \in Ops, OperationInv(o), ops'[o] = ops[o],
         iteration' = iteration \/ ops[o].state \in SettledOps
  PROVE  OperationInv(o)'
<1>1. epoch' \in Nat /\ epoch' >= epoch /\ budget' \in Vec /\ within(budget, budget')
  BY MonotoneStep
<1>2. ops[o] \in Operation /\ budget \in Vec /\ epoch \in Nat
  BY DEF TypeOK
<1>3. OperationValid(o)
  BY DEF OperationInv
<1>4. ops[o].receipt \in Nat /\ allows_settlement(o, ops[o].receipt)
        => allows_settlement(o, ops[o].receipt)'
  BY <1>1, <1>2 DEF allows_settlement, within, OpVec, Operation
<1>5. OperationValid(o)'
  BY <1>2, <1>3, <1>4 DEF OperationValid, SettledOps
<1> QED  BY <1>1, <1>2, <1>5 DEF OperationInv, Operation

\* A claim that is still current belongs to an operation that waits for it.
LEMMA CurrentIsDispatching ==
  ASSUME TypeOK, NEW e \in dispatched, OperationInv(e.op), AttemptInv(e.op), CallbackIsCurrent(e)
  PROVE  /\ e.op \in Ops /\ ops[e.op].state = "Dispatching" /\ ops[e.op].receipt = None
         /\ ops[e.op].reservation \in Units
         /\ iteration # 0 /\ ops[e.op].iteration = iteration
         /\ ops[e.op].attempt # 0 /\ ops[e.op].attempt = ops[e.op].next_attempt - 1
<1>1. e \in Effect /\ e.op \in Ops /\ e.attempt \in Nat /\ e.epoch \in Nat
  BY DEF TypeOK, Effect
<1>2. ops[e.op] \in Operation
  BY <1>1 DEF TypeOK
<1>3. e.attempt >= 1
  BY <1>1 DEF AttemptInv
<1>4. ops[e.op].attempt # 0 /\ ~ops[e.op].settled /\ ops[e.op].epoch = epoch
  BY <1>1, <1>3 DEF CallbackIsCurrent
<1>5. ops[e.op].state = "Dispatching"
  BY <1>2, <1>4 DEF OperationInv, Operation, TypeOK
<1> QED  BY <1>1, <1>2, <1>4, <1>5 DEF OperationInv, OperationValid, AttemptInv, Operation

\* No handler builds an operation that validate would refuse.
LEMMA OperationStep ==
  ASSUME TypeOK, \A o \in Ops : OperationInv(o), \A o \in Ops : AttemptInv(o), [Next]_vars,
         NEW o \in Ops
  PROVE  OperationInv(o)'
<1> DEFINE Same == ops'[o] = ops[o]
<1>0. OperationInv(o) /\ ops[o] \in Operation /\ epoch \in Nat
  BY DEF TypeOK
<1>1. CASE UNCHANGED <<ops, iteration>>
  BY <1>0, <1>1, OperationFrame
<1>2. CASE begin_recovery
  <2>1. CASE ops[o].state = "Dispatching"
    <3>1. ops'[o] = [ops[o] EXCEPT !.state = "Uncertain"] /\ iteration' = iteration
          /\ epoch' = epoch + 1
      BY <1>2, <2>1 DEF begin_recovery, work
    <3> QED  BY <1>0, <2>1, <3>1 DEF OperationInv, OperationValid, Operation
  <2>2. CASE ops[o].state # "Dispatching"
    <3>1. Same /\ iteration' = iteration
      BY <1>2, <2>2 DEF begin_recovery, work
    <3> QED  BY <1>0, <3>1, OperationFrame
  <2> QED  BY <2>1, <2>2
<1>3. ASSUME NEW r \in BOOLEAN, finish_recovery(r) PROVE OperationInv(o)'
  <2>1. CASE iteration = 0
    BY <1>0, <1>1, <1>3, <2>1 DEF finish_recovery, AbandonIteration
  <2>2. CASE iteration # 0
    <3>1. iteration' = 0 /\ epoch' = epoch
      BY <1>3, <2>2 DEF finish_recovery, AbandonIteration, residency
    <3>2. ops[o].state \notin {"Dispatching", "Uncertain"}
      BY <1>3 DEF finish_recovery
    <3>3. CASE ops[o].state \in {"Prepared", "FailedRetryable"}
      <4>1. ops'[o] = [ops[o] EXCEPT !.state = "Abandoned", !.attempt = 0,
                                    !.epoch = 0, !.settled = FALSE]
        BY <1>0, <1>3, <2>2, <3>3 DEF finish_recovery, AbandonIteration, OperationInv, OperationValid
      <4> QED  BY <1>0, <3>1, <3>3, <4>1 DEF OperationInv, OperationValid, Operation
    <3>4. CASE ops[o].state \notin {"Prepared", "FailedRetryable"}
      <4>1. Same
        BY <1>3, <2>2, <3>4 DEF finish_recovery, AbandonIteration
      <4>2. ops[o].state \in SettledOps
        BY <1>0, <3>2, <3>4 DEF Operation, OpState, SettledOps
      <4> QED  BY <1>0, <4>1, <4>2, OperationFrame
    <3> QED  BY <3>3, <3>4
  <2> QED  BY <2>1, <2>2
<1>4. ASSUME NEW x \in Ops, NEW n \in Units, reconcile_applied(x, n) PROVE OperationInv(o)'
  <2>1. iteration' = iteration /\ epoch' = epoch /\ budget' = budget
    BY <1>4 DEF reconcile_applied, work, residency, money
  <2>2. CASE x = o
    <3>1. ops'[o] = [ops[o] EXCEPT !.attempt = 0, !.epoch = 0, !.receipt = n,
                                   !.settled = TRUE, !.state = "Reconciled"]
          /\ allows_settlement(o, n) /\ ops[o].state = "Uncertain"
      BY <1>4, <2>2 DEF reconcile_applied, Reconcilable, TypeOK
    <3>2. ops'[o].receipt = n /\ ops'[o].state = "Reconciled" /\ ops'[o].attempt = 0
          /\ ops'[o].epoch = 0 /\ ops'[o].reservation = ops[o].reservation
      BY <1>0, <3>1 DEF Operation
    <3>3. allows_settlement(o, ops[o].receipt)'
      BY <2>1, <3>1, <3>2 DEF allows_settlement, OpVec
    <3> QED  BY <1>0, <2>1, <3>1, <3>2, <3>3 DEF OperationInv, OperationValid
  <2>3. CASE x # o
    BY <1>0, <1>4, <2>1, <2>3, OperationFrame DEF reconcile_applied, TypeOK
  <2> QED  BY <2>2, <2>3
<1>5. ASSUME NEW x \in Ops, reconcile_not_applied(x) \/ reconcile_unknown(x)
      PROVE  OperationInv(o)'
  <2>1. iteration' = iteration /\ epoch' = epoch
    BY <1>5 DEF reconcile_not_applied, reconcile_unknown, work, residency
  <2>2. CASE x = o
    <3>1. ops[o].state = "Uncertain"
          /\ \/ ops[o].receipt = None
                /\ ops'[o] = [ops[o] EXCEPT !.attempt = 0, !.epoch = 0, !.state = "Abandoned"]
             \/ ops'[o] = [ops[o] EXCEPT !.attempt = 0, !.epoch = 0]
      BY <1>5, <2>2 DEF reconcile_not_applied, reconcile_unknown, Reconcilable, TypeOK
    <3>2. /\ ops'[o].attempt = 0 /\ ops'[o].epoch = 0 /\ ops'[o].receipt = ops[o].receipt
          /\ ops'[o].iteration = ops[o].iteration /\ ops'[o].reservation = ops[o].reservation
          /\ ops'[o].state = "Uncertain" \/ (ops'[o].state = "Abandoned" /\ ops[o].receipt = None)
      BY <1>0, <3>1 DEF Operation
    <3>3. OpVec(o, ops[o].reservation)' = OpVec(o, ops[o].reservation) /\ UnitsVec(0)' = UnitsVec(0)
      BY <3>2 DEF OpVec, UnitsVec
    <3> QED  BY <1>0, <2>1, <3>1, <3>2, <3>3 DEF OperationInv, OperationValid
  <2>3. CASE x # o
    BY <1>0, <1>5, <2>1, <2>3, OperationFrame DEF reconcile_not_applied, reconcile_unknown, TypeOK
  <2> QED  BY <2>2, <2>3
<1>6. CASE begin_iteration \/ FinishIteration
  <2>1. Same
    BY <1>6 DEF begin_iteration, FinishIteration, finish_iteration
  <2>2. ops[o].state \in SettledOps
    BY <1>0, <1>6 DEF begin_iteration, FinishIteration, finish_iteration, IterationOps,
       OperationInv, OperationValid, Operation, OpState, SettledOps
  <2> QED  BY <1>0, <2>1, <2>2, OperationFrame
<1>7. ASSUME NEW x \in Ops, prepare_operation(x) PROVE OperationInv(o)'
  <2>1. iteration' = iteration /\ epoch' = epoch /\ iteration # 0
    BY <1>7 DEF prepare_operation, work, residency
  <2>2. CASE x = o
    <3>1. ops'[o] = [NoOperation EXCEPT !.state = "Prepared", !.iteration = iteration]
      BY <1>7, <2>2 DEF prepare_operation, TypeOK
    <3> QED  BY <1>0, <2>1, <3>1 DEF OperationInv, OperationValid, NoOperation
  <2>3. CASE x # o
    BY <1>0, <1>7, <2>1, <2>3, OperationFrame DEF prepare_operation, TypeOK
  <2> QED  BY <2>2, <2>3
<1>8. ASSUME NEW x \in Ops, NEW n \in Units, claim_effect(x, n) PROVE OperationInv(o)'
  <2>1. iteration' = iteration /\ epoch' = epoch /\ iteration # 0
    BY <1>8 DEF claim_effect, work, residency
  <2>2. CASE x = o
    <3>1. ops'[o] = [ops[o] EXCEPT !.next_attempt = @ + 1, !.attempt = ops[o].next_attempt,
                       !.epoch = epoch, !.settled = FALSE, !.reservation = n,
                       !.state = "Dispatching"]
          /\ OpVec(o, n) # UnitsVec(0) /\ ops[o].state \in {"Prepared", "FailedRetryable"}
          /\ ops[o].iteration = iteration
      BY <1>8, <2>2 DEF claim_effect, TypeOK
    <3>2. OpVec(o, n)' = OpVec(o, n) /\ UnitsVec(0)' = UnitsVec(0)
      BY DEF OpVec, UnitsVec
    <3>3. ops[o].receipt = None
      BY <1>0, <3>1 DEF OperationInv, OperationValid
    <3> HIDE DEF Same
    <3> QED  BY <1>0, <2>1, <3>1, <3>2, <3>3 DEF OperationInv, OperationValid, Operation
  <2>3. CASE x # o
    BY <1>0, <1>8, <2>1, <2>3, OperationFrame DEF claim_effect, TypeOK
  <2> QED  BY <2>2, <2>3
<1>9. ASSUME NEW e \in dispatched, CallbackIsCurrent(e),
             \/ \E n \in Units : acknowledge_applied(e, n)
             \/ acknowledge_unusable(e)
             \/ acknowledge_failed(e)
             \/ acknowledge_unknown(e)
      PROVE  OperationInv(o)'
  <2>0. epoch' \in Nat /\ epoch' >= epoch
    BY MonotoneStep
  <2>1. iteration' = iteration /\ budget' = budget
    BY <1>9 DEF acknowledge_applied, acknowledge_unusable, acknowledge_failed,
       acknowledge_unknown, work, money
  <2>2. CASE e.op = o
    <3>1. /\ ops[o].state = "Dispatching" /\ ops[o].receipt = None
          /\ ops[o].reservation \in Units
          /\ iteration # 0 /\ ops[o].iteration = iteration /\ ops[o].attempt # 0
      BY <1>9, <2>2, CurrentIsDispatching
    <3>2. \/ \E n \in Units : /\ allows_settlement(o, n)
                              /\ ops'[o] = [ops[o] EXCEPT !.receipt = n, !.settled = TRUE,
                                                          !.state = "Acknowledged"]
          \/ ops'[o] = [ops[o] EXCEPT !.receipt = Unusable, !.settled = TRUE,
                                      !.state = "Uncertain"]
          \/ \E t \in {"Uncertain", "FailedRetryable", "Prepared"} :
               ops'[o] = [ops[o] EXCEPT !.settled = TRUE, !.state = t]
      BY <1>9, <2>2 DEF acknowledge_applied, acknowledge_unusable, acknowledge_failed,
         acknowledge_unknown, TypeOK
    <3>3. ASSUME NEW n \in Units, allows_settlement(o, n),
                 ops'[o] = [ops[o] EXCEPT !.receipt = n, !.settled = TRUE,
                                          !.state = "Acknowledged"]
          PROVE  OperationInv(o)'
      <4>1. ops'[o].receipt = n /\ ops'[o].state = "Acknowledged" /\ ops'[o].settled
            /\ ops'[o].reservation = ops[o].reservation /\ ops'[o].epoch = ops[o].epoch
            /\ ops'[o].attempt = ops[o].attempt
        BY <1>0, <3>3 DEF Operation
      <4>2. allows_settlement(o, ops[o].receipt)'
        BY <2>1, <3>3, <4>1 DEF allows_settlement, OpVec
      <4>3. OpVec(o, ops[o].reservation)' = OpVec(o, ops[o].reservation) /\ UnitsVec(0)' = UnitsVec(0)
        BY <4>1 DEF OpVec, UnitsVec
      <4> QED  BY <1>0, <2>0, <3>1, <4>1, <4>2, <4>3 DEF OperationInv, OperationValid, Operation
    <3>4. ASSUME NEW t \in {"Uncertain", "FailedRetryable", "Prepared"}, NEW c \in {None, Unusable},
                 ops'[o] = [ops[o] EXCEPT !.receipt = c, !.settled = TRUE, !.state = t],
                 t # "Uncertain" => c = None
          PROVE  OperationInv(o)'
      <4>1. ops'[o].receipt = c /\ ops'[o].state = t /\ ops'[o].settled
            /\ ops'[o].reservation = ops[o].reservation /\ ops'[o].epoch = ops[o].epoch
            /\ ops'[o].attempt = ops[o].attempt /\ ops'[o].iteration = ops[o].iteration
        BY <1>0, <3>4 DEF Operation
      <4>3. OpVec(o, ops[o].reservation)' = OpVec(o, ops[o].reservation) /\ UnitsVec(0)' = UnitsVec(0)
        BY <4>1 DEF OpVec, UnitsVec
      <4> QED  BY <1>0, <2>0, <2>1, <3>1, <3>4, <4>1, <4>3 DEF OperationInv, OperationValid, Operation
    <3>5. \A t : [ops[o] EXCEPT !.settled = TRUE, !.state = t]
                 = [ops[o] EXCEPT !.receipt = None, !.settled = TRUE, !.state = t]
      BY <1>0, <3>1 DEF Operation
    <3> QED  BY <3>2, <3>3, <3>4, <3>5
  <2>3. CASE e.op # o
    <3>1. Same
      BY <1>9, <2>3 DEF acknowledge_applied, acknowledge_unusable, acknowledge_failed,
         acknowledge_unknown, TypeOK
    <3> QED  BY <1>0, <2>1, <3>1, OperationFrame
  <2> QED  BY <2>2, <2>3
<1>10. CASE Acknowledge
  BY <1>9, <1>10 DEF Acknowledge, acknowledge_applied, acknowledge_unusable, acknowledge_failed,
     acknowledge_unknown
<1>11. CASE Activate \/ Control \/ ChildCallback \/ \E k \in Kids, n \in Units : admit_child(k, n)
  <2>1. UNCHANGED <<ops, iteration>>
    BY <1>11 DEF Activate, request_wake, claim_activation, release_activation, Control, Pause,
       PauseFor, Resume, Cancel, TryComplete, Tombstone, ChildCallback, child_started,
       child_settled, admit_child, work
  <2> QED  BY <1>1, <2>1
<1>12. CASE UNCHANGED vars
  BY <1>1, <1>12 DEF vars, work
<1> QED
  BY <1>2, <1>3, <1>4, <1>5, <1>6, <1>7, <1>8, <1>10, <1>11, <1>12
  DEF Next, Recover, Reconcile, ClaimEffect

\* A step that claims nothing and reopens nothing keeps the attempts in order.
LEMMA AttemptFrame ==
  ASSUME NEW o \in Ops, AttemptInv(o),
         dispatched' = dispatched, answered \subseteq answered',
         ops'[o].next_attempt = ops[o].next_attempt,
         ops'[o].attempt \in {0, ops[o].attempt},
         \/ ops'[o].state = ops[o].state
         \/ ops'[o].state \in {"Uncertain", "Acknowledged", "Reconciled", "Abandoned"}
  PROVE  AttemptInv(o)'
  BY DEF AttemptInv, Disclaimed

\* Every action keeps the attempts of an operation in order.
LEMMA AttemptStep ==
  ASSUME TypeOK, \A o \in Ops : OperationInv(o), \A o \in Ops : AttemptInv(o), ClaimsUnique,
         [Next]_vars, NEW o \in Ops
  PROVE  AttemptInv(o)'
<1>0. AttemptInv(o) /\ ops[o] \in Operation
  BY DEF TypeOK
<1>1. CASE UNCHANGED <<ops, dispatched, answered>>
  BY <1>0, <1>1, AttemptFrame
<1>2. CASE begin_recovery
  BY <1>0, <1>2, AttemptFrame DEF begin_recovery, history, Operation
<1>3. ASSUME NEW r \in BOOLEAN, finish_recovery(r) PROVE AttemptInv(o)'
  <2>1. CASE iteration = 0
    BY <1>1, <1>3, <2>1 DEF finish_recovery, AbandonIteration, history
  <2>2. CASE iteration # 0
    <3>1. ops'[o] = ops[o] \/ ops'[o] = [ops[o] EXCEPT !.state = "Abandoned", !.attempt = 0,
                                           !.epoch = 0, !.settled = FALSE]
      BY <1>3, <2>2 DEF finish_recovery, AbandonIteration
    <3>2. dispatched' = dispatched /\ answered' = answered
      BY <1>3 DEF finish_recovery, history
    <3> QED  BY <1>0, <3>1, <3>2, AttemptFrame DEF Operation
  <2> QED  BY <2>1, <2>2
<1>4. CASE Reconcile
  <2>1. \/ ops'[o] = ops[o]
        \/ \E n \in Units : ops'[o] = [ops[o] EXCEPT !.attempt = 0, !.epoch = 0, !.receipt = n,
                                         !.settled = TRUE, !.state = "Reconciled"]
        \/ ops'[o] = [ops[o] EXCEPT !.attempt = 0, !.epoch = 0, !.state = "Abandoned"]
        \/ ops'[o] = [ops[o] EXCEPT !.attempt = 0, !.epoch = 0]
    <3>1. PICK x \in Ops : \/ \E n \in Units : reconcile_applied(x, n)
                           \/ reconcile_not_applied(x)
                           \/ reconcile_unknown(x)
      BY <1>4 DEF Reconcile
    <3>2. CASE x # o
      BY <3>1, <3>2 DEF reconcile_applied, reconcile_not_applied, reconcile_unknown, TypeOK
    <3>3. CASE x = o
      BY <3>1, <3>3 DEF reconcile_applied, reconcile_not_applied, reconcile_unknown, TypeOK
    <3> QED  BY <3>2, <3>3
  <2>2. dispatched' = dispatched /\ answered' = answered
    BY <1>4 DEF Reconcile, reconcile_applied, reconcile_not_applied, reconcile_unknown, history
  <2> QED  BY <1>0, <2>1, <2>2, AttemptFrame DEF Operation
<1>5. ASSUME NEW x \in Ops, prepare_operation(x) PROVE AttemptInv(o)'
  <2>1. dispatched' = dispatched /\ answered' = answered
    BY <1>5 DEF prepare_operation, history
  <2>2. CASE x = o
    <3>1. ops'[o] = [NoOperation EXCEPT !.state = "Prepared", !.iteration = iteration]
          /\ ops[o].state = "Absent"
      BY <1>5, <2>2 DEF prepare_operation, TypeOK
    <3>2. ops'[o].next_attempt = 1 /\ ops'[o].attempt = 0 /\ ops'[o].state = "Prepared"
      BY <3>1 DEF NoOperation
    <3> QED  BY <1>0, <2>1, <3>1, <3>2 DEF AttemptInv, Disclaimed, Operation
  <2>3. CASE x # o
    BY <1>0, <1>5, <2>1, <2>3, AttemptFrame DEF prepare_operation, TypeOK
  <2> QED  BY <2>2, <2>3
<1>6. ASSUME NEW x \in Ops, NEW n \in Units, claim_effect(x, n) PROVE AttemptInv(o)'
  <2> DEFINE c == [op |-> x, attempt |-> ops[x].next_attempt, epoch |-> epoch]
  <2>1. dispatched' \in {dispatched, dispatched \cup {c}} /\ answered' = answered
    BY <1>6 DEF claim_effect, history
  <2>2. CASE x = o
    <3>1. /\ ops'[o] = [ops[o] EXCEPT !.next_attempt = @ + 1, !.attempt = ops[o].next_attempt,
                          !.epoch = epoch, !.settled = FALSE, !.reservation = n,
                          !.state = "Dispatching"]
          /\ ops[o].state \in {"Prepared", "FailedRetryable"} /\ MayAttempt(o)
      BY <1>6, <2>2 DEF claim_effect, TypeOK
    <3>2. /\ ops'[o].next_attempt = ops[o].next_attempt + 1
          /\ ops'[o].attempt = ops[o].next_attempt
          /\ ops'[o].state = "Dispatching" /\ ops[o].next_attempt \in Nat
      BY <1>0, <3>1 DEF Operation
    <3>3. c.op = o /\ c.attempt = ops[o].next_attempt
      BY <2>2
    <3>4. \A e \in dispatched : e.op = o => e.attempt \in Nat /\ e.attempt >= 1
                                            /\ e.attempt < ops[o].next_attempt
      BY <1>0 DEF AttemptInv, TypeOK, Effect
    <3>5. ClassOf[o] = "Reconcilable" => \A e \in dispatched : e.op = o => Disclaimed(e)
      BY <1>0, <3>1, <3>4 DEF AttemptInv
    <3>6. ClassOf[o] = "NonRepeatable" => ops[o].next_attempt = 1
      BY <3>1 DEF MayAttempt
    <3> HIDE DEF c
    <3>7. \A e : Disclaimed(e)' <=> Disclaimed(e)
      BY <2>1 DEF Disclaimed
    <3> QED  BY <1>0, <2>1, <3>2, <3>3, <3>4, <3>5, <3>6, <3>7 DEF AttemptInv
  <2>3. CASE x # o
    <3>1. ops'[o] = ops[o] /\ c.op # o
      BY <1>6, <2>3 DEF claim_effect, TypeOK
    <3> HIDE DEF c
    <3> QED  BY <1>0, <2>1, <3>1 DEF AttemptInv, Disclaimed
  <2> QED  BY <2>2, <2>3
<1>7. ASSUME NEW e \in dispatched, CallbackIsCurrent(e),
             \/ \E n \in Units : acknowledge_applied(e, n)
             \/ acknowledge_unusable(e)
             \/ acknowledge_failed(e)
             \/ acknowledge_unknown(e)
      PROVE  AttemptInv(o)'
  <2>1. dispatched' = dispatched /\ answered \subseteq answered'
    BY <1>7 DEF acknowledge_applied, acknowledge_unusable, acknowledge_failed,
       acknowledge_unknown, Answer
  <2>2. CASE e.op # o
    <3>1. ops'[o] = ops[o]
      BY <1>7, <2>2 DEF acknowledge_applied, acknowledge_unusable, acknowledge_failed,
         acknowledge_unknown, TypeOK
    <3> QED  BY <1>0, <2>1, <3>1, AttemptFrame
  <2>3. CASE e.op = o
    <3>1. /\ ops[o].state = "Dispatching" /\ ops[o].attempt = ops[o].next_attempt - 1
          /\ ops[o].attempt # 0 /\ e.attempt = ops[o].attempt
      BY <1>7, <2>3, CurrentIsDispatching DEF CallbackIsCurrent
    <3>2. CASE (\E n \in Units : acknowledge_applied(e, n)) \/ acknowledge_unusable(e)
      <4>1. ops'[o].next_attempt = ops[o].next_attempt /\ ops'[o].attempt = ops[o].attempt
            /\ ops'[o].state \in {"Acknowledged", "Uncertain"}
        <5>1. \/ \E n \in Units : ops'[o] = [ops[o] EXCEPT !.receipt = n, !.settled = TRUE,
                                                            !.state = "Acknowledged"]
              \/ ops'[o] = [ops[o] EXCEPT !.receipt = Unusable, !.settled = TRUE,
                                          !.state = "Uncertain"]
          BY <2>3, <3>2 DEF acknowledge_applied, acknowledge_unusable, TypeOK
        <5> QED  BY <1>0, <5>1 DEF Operation
      <4> QED  BY <1>0, <2>1, <4>1, AttemptFrame
    <3>3. CASE acknowledge_failed(e)
      <4>1. /\ ops'[o].next_attempt = ops[o].next_attempt /\ ops'[o].attempt = ops[o].attempt
            /\ ops'[o].state = IF ClassOf[o] = "NonRepeatable" THEN "Uncertain"
                               ELSE "FailedRetryable"
        <5>1. ops'[o] = [ops[o] EXCEPT !.settled = TRUE,
                           !.state = IF ClassOf[o] = "NonRepeatable" THEN "Uncertain"
                                     ELSE "FailedRetryable"]
          BY <2>3, <3>3 DEF acknowledge_failed, TypeOK
        <5> QED  BY <1>0, <5>1 DEF Operation
      <4>2. Disclaimed(e)' /\ \A f : Disclaimed(f) => Disclaimed(f)'
        BY <2>1, <3>3 DEF acknowledge_failed, Answer, Disclaimed
      <4>3. \A f \in dispatched : f.op = o => f.attempt \in Nat
        BY DEF TypeOK, Effect
      <4>4. \A f \in dispatched : f.op = o /\ ~(f.attempt < ops[o].next_attempt - 1) => f = e
        BY <1>0, <2>3, <3>1, <4>3 DEF AttemptInv, ClaimsUnique, Operation
      <4> QED  BY <1>0, <2>1, <4>1, <4>2, <4>4 DEF AttemptInv
    <3>4. CASE acknowledge_unknown(e)
      <4>1. /\ ops'[o].next_attempt = ops[o].next_attempt /\ ops'[o].attempt = ops[o].attempt
            /\ ops'[o].state = IF MayReplay(o) THEN "Prepared" ELSE "Uncertain"
        <5>1. ops'[o] = [ops[o] EXCEPT !.settled = TRUE,
                           !.state = IF MayReplay(o) THEN "Prepared" ELSE "Uncertain"]
          BY <2>3, <3>4 DEF acknowledge_unknown, TypeOK
        <5> QED  BY <1>0, <5>1 DEF Operation
      <4>2. \A f : Disclaimed(f) => Disclaimed(f)'
        BY <2>1 DEF Disclaimed
      <4> QED  BY <1>0, <2>1, <4>1, <4>2 DEF AttemptInv, MayReplay
    <3> QED  BY <1>7, <3>2, <3>3, <3>4
  <2> QED  BY <2>2, <2>3
<1>8. CASE Acknowledge
  BY <1>7, <1>8 DEF Acknowledge, acknowledge_applied, acknowledge_unusable, acknowledge_failed,
     acknowledge_unknown
<1>9. CASE \/ Activate \/ Control \/ ChildCallback \/ begin_iteration \/ FinishIteration
           \/ \E k \in Kids, n \in Units : admit_child(k, n)
  <2>1. UNCHANGED <<ops, dispatched, answered>>
    BY <1>9 DEF Activate, request_wake, claim_activation, release_activation, Control, Pause,
       PauseFor, Resume, Cancel, TryComplete, Tombstone, ChildCallback, child_started,
       child_settled, admit_child, begin_iteration, FinishIteration, finish_iteration, history
  <2> QED  BY <1>1, <2>1
<1>10. CASE UNCHANGED vars
  BY <1>1, <1>10 DEF vars, history
<1> QED
  BY <1>2, <1>3, <1>4, <1>5, <1>6, <1>8, <1>9, <1>10 DEF Next, Recover, ClaimEffect

\* Two claims of one attempt are one claim.
LEMMA ClaimsStep ==
  ASSUME TypeOK, \A o \in Ops : AttemptInv(o), ClaimsUnique, [Next]_vars
  PROVE  ClaimsUnique'
<1>1. CASE dispatched' = dispatched
  BY <1>1 DEF ClaimsUnique
<1>2. ASSUME NEW x \in Ops, NEW n \in Units, claim_effect(x, n) PROVE ClaimsUnique'
  <2> DEFINE c == [op |-> x, attempt |-> ops[x].next_attempt, epoch |-> epoch]
  <2>1. dispatched' \in {dispatched, dispatched \cup {c}}
    BY <1>2 DEF claim_effect
  <2>2. c.op = x /\ c.attempt = ops[x].next_attempt
    OBVIOUS
  <2> HIDE DEF c
  <2>3. \A e \in dispatched : e.op = x => e.attempt < ops[x].next_attempt
    BY DEF AttemptInv
  <2>4. ops[x].next_attempt \in Nat
    BY DEF TypeOK, Operation
  <2>5. \A e \in dispatched : e.op = x => e.attempt # c.attempt
    BY <2>2, <2>3, <2>4 DEF TypeOK, Effect
  <2> QED  BY <2>1, <2>2, <2>5 DEF ClaimsUnique
<1>3. CASE \/ Activate \/ Recover \/ Reconcile \/ begin_iteration \/ FinishIteration
           \/ \E o \in Ops : prepare_operation(o)
  BY <1>1, <1>3 DEF Activate, request_wake, claim_activation, release_activation, Recover,
     begin_recovery, finish_recovery, Reconcile, reconcile_applied, reconcile_not_applied,
     reconcile_unknown, begin_iteration, FinishIteration, finish_iteration, prepare_operation
<1>4. CASE \/ Acknowledge \/ ChildCallback \/ Control
           \/ \E k \in Kids, n \in Units : admit_child(k, n)
  BY <1>1, <1>4 DEF Acknowledge, acknowledge_applied, acknowledge_unusable, acknowledge_failed,
     acknowledge_unknown, ChildCallback, child_started, child_settled, admit_child, Control,
     Pause, PauseFor, Resume, Cancel, TryComplete, Tombstone
<1>5. CASE UNCHANGED vars
  BY <1>1, <1>5 DEF vars
<1> QED  BY <1>2, <1>3, <1>4, <1>5 DEF Next, ClaimEffect

\* Nothing reopens a Run that completed.
LEMMA CompletionStep ==
  ASSUME TypeOK, ControlInv, \A o \in Ops : OperationInv(o), \A o \in Ops : AttemptInv(o),
         CompletionInv, [Next]_vars
  PROVE  CompletionInv'
<1> DEFINE Done == "Complete" \in {status, prior}
<1>0. Done => status # "Active"
  BY DEF ControlInv
<1>1. CASE UNCHANGED <<lifecycle, last, iteration, ops, kids>>
  BY <1>1 DEF CompletionInv, lifecycle
<1>2. CASE begin_recovery
  <2>1. Done' => Done
    BY <1>2 DEF begin_recovery, SavePrior
  <2>2. last' = last /\ iteration' = iteration /\ kids' = kids
    BY <1>2 DEF begin_recovery, work
  <2>3. \A o \in Ops : ops[o].state \in SettledOps => ops'[o] = ops[o]
    BY <1>2 DEF begin_recovery, SettledOps
  <2> QED  BY <2>1, <2>2, <2>3 DEF CompletionInv
<1>3. ASSUME NEW r \in BOOLEAN, finish_recovery(r) PROVE CompletionInv'
  <2>1. Done' => prior = "Complete"
    BY <1>3 DEF finish_recovery
  <2>2. CASE Done'
    <3>1. iteration = 0
      BY <2>1, <2>2 DEF CompletionInv
    <3>2. UNCHANGED <<iteration, last, ops, kids>>
      BY <1>3, <3>1 DEF finish_recovery, AbandonIteration
    <3> QED  BY <2>1, <2>2, <3>2 DEF CompletionInv
  <2> QED  BY <2>2 DEF CompletionInv
<1>4. CASE Reconcile
  <2>1. UNCHANGED <<lifecycle, last, iteration, kids>>
    BY <1>4 DEF Reconcile, reconcile_applied, reconcile_not_applied, reconcile_unknown, work
  <2>2. \E o \in Ops : ops[o].state \notin SettledOps
    BY <1>4 DEF Reconcile, reconcile_applied, reconcile_not_applied, reconcile_unknown,
       Reconcilable, SettledOps
  <2> QED  BY <2>1, <2>2 DEF CompletionInv, lifecycle
<1>5. CASE \/ begin_iteration \/ FinishIteration \/ ClaimEffect
           \/ (\E o \in Ops : prepare_operation(o))
           \/ \E k \in Kids, n \in Units : admit_child(k, n)
  <2>1. status = "Active" /\ status' = status /\ prior' = prior
    BY <1>5 DEF begin_iteration, FinishIteration, finish_iteration, ClaimEffect, claim_effect,
       prepare_operation, admit_child, lifecycle
  <2> QED  BY <1>0, <2>1 DEF CompletionInv
<1>6. CASE Acknowledge
  <2>1. PICK e \in dispatched : CallbackIsCurrent(e)
    BY <1>6 DEF Acknowledge, acknowledge_applied, acknowledge_unusable, acknowledge_failed,
       acknowledge_unknown
  <2>2. e.op \in Ops
    BY DEF TypeOK, Effect
  <2>3. ops[e.op].state = "Dispatching"
    BY <2>1, <2>2, CurrentIsDispatching
  <2>4. ~Done
    BY <2>2, <2>3 DEF CompletionInv, SettledOps
  <2>5. UNCHANGED lifecycle \/ enter_recovery
    BY <1>6 DEF Acknowledge, acknowledge_applied, acknowledge_unusable, acknowledge_failed,
       acknowledge_unknown
  <2>6. ~Done'
    BY <2>4, <2>5 DEF lifecycle, enter_recovery, SavePrior
  <2> QED  BY <2>6 DEF CompletionInv
<1>7. CASE ChildCallback
  <2>1. UNCHANGED <<lifecycle, last, iteration, ops>>
    BY <1>7 DEF ChildCallback, child_started, child_settled, work
  <2>2. \A k \in Kids : kids[k].state \in {"Absent", "Completed"} => kids'[k] = kids[k]
    BY <1>7 DEF ChildCallback, child_started, child_settled, live_children, ChildTerminal, TypeOK
  <2> QED  BY <2>1, <2>2 DEF CompletionInv, lifecycle
<1>8. CASE TryComplete
  <2>1. /\ last' = "accepted" /\ iteration' = 0 /\ kids' = kids /\ ops' = ops
        /\ ~has_unsettled_operations /\ \A k \in Kids : ChildAllowsCompletion(k)
    BY <1>8 DEF TryComplete, validate_completion, work
  <2> QED
    BY <2>1 DEF CompletionInv, has_unsettled_operations, ChildAllowsCompletion
<1>9. CASE Pause \/ Cancel \/ Tombstone \/ (\E w \in Waits : PauseFor(w)) \/ \E b \in Budgets : Resume(b)
  <2>1. (Done' => Done) /\ UNCHANGED <<last, iteration, ops, kids>>
    BY <1>9 DEF Pause, Cancel, Tombstone, PauseFor, Resume, Waits, work
  <2> QED  BY <2>1 DEF CompletionInv
<1>10. CASE Activate
  BY <1>1, <1>10 DEF Activate, request_wake, claim_activation, release_activation, work
<1>11. CASE UNCHANGED vars
  BY <1>1, <1>11 DEF vars, work
<1> QED
  BY <1>2, <1>3, <1>4, <1>5, <1>6, <1>7, <1>8, <1>9, <1>10, <1>11 DEF Next, Recover, Control

\* The types, in the parts that different handlers write.
LifecycleType ==
  /\ status \in Status /\ stage \in Stage
  /\ prior \in {"None"} \cup (Status \ {"Active", "RecoveryRequired"})
ResidencyType ==
  /\ epoch \in 1 .. MaxEpoch /\ lease \in 0 .. MaxEpoch
  /\ wake \subseteq {"reason", "deadline"}
WorkType ==
  /\ iteration \in Nat /\ next_iteration \in Nat \ {0}
  /\ last \in {"none", "accepted", "refused", "abandoned"}
MoneyType == usage \in Vec /\ child_reserved \in Vec /\ budget \in Budgets
HistoryType ==
  /\ dispatched \subseteq Effect
  /\ answered \subseteq Effect \X {"Applied", "FailedRetryable", "Unknown"}
  /\ will \in {"run", "pause", "cancel"}

\* The type invariant, taken apart so that each action disturbs few parts.
LEMMA TypeParts ==
  TypeOK <=> /\ LifecycleType /\ ResidencyType /\ WorkType /\ MoneyType /\ HistoryType
             /\ ops \in [Ops -> Operation] /\ kids \in [Kids -> Child]
  BY DEF TypeOK, LifecycleType, ResidencyType, WorkType, MoneyType, HistoryType

\* Every action keeps the type of the lifecycle.
LEMMA LifecycleTypeStep ==
  ASSUME TypeOK, [Next]_vars
  PROVE  LifecycleType'
<1> USE DEF LifecycleType, Status, Stage, Waits, Terminal
<1>0. LifecycleType
  BY TypeParts
<1>1. CASE UNCHANGED lifecycle
  BY <1>0, <1>1 DEF lifecycle
<1>2. CASE begin_recovery
  BY <1>0, <1>2 DEF begin_recovery, SavePrior
<1>3. CASE \E r \in BOOLEAN : finish_recovery(r)
  BY <1>0, <1>3 DEF finish_recovery
<1>4. CASE begin_iteration \/ FinishIteration
  BY <1>0, <1>4 DEF begin_iteration, FinishIteration, finish_iteration
<1>5. CASE Acknowledge
  <2>1. UNCHANGED lifecycle \/ enter_recovery
    BY <1>5 DEF Acknowledge, acknowledge_applied, acknowledge_unusable, acknowledge_failed,
       acknowledge_unknown
  <2> QED  BY <1>0, <1>1, <2>1 DEF enter_recovery, SavePrior
<1>6. CASE Control
  BY <1>0, <1>6 DEF Control, Pause, PauseFor, Resume, Cancel, TryComplete, Tombstone
<1>7. CASE \/ Activate \/ Reconcile \/ ClaimEffect \/ ChildCallback
           \/ (\E o \in Ops : prepare_operation(o))
           \/ \E k \in Kids, n \in Units : admit_child(k, n)
  BY <1>1, <1>7 DEF Activate, request_wake, claim_activation, release_activation, Reconcile,
     reconcile_applied, reconcile_not_applied, reconcile_unknown, ClaimEffect, claim_effect,
     ChildCallback, child_started, child_settled, prepare_operation, admit_child
<1>8. CASE UNCHANGED vars
  BY <1>1, <1>8 DEF vars
<1> QED  BY <1>2, <1>3, <1>4, <1>5, <1>6, <1>7, <1>8 DEF Next, Recover

\* Every action keeps the type of the residency.
LEMMA ResidencyTypeStep ==
  ASSUME TypeOK, [Next]_vars
  PROVE  ResidencyType'
<1> USE DEF ResidencyType
<1>0. ResidencyType
  BY TypeParts
<1>1. CASE UNCHANGED residency
  BY <1>0, <1>1 DEF residency
<1>2. CASE fence_activation
  BY <1>0, <1>2 DEF fence_activation
<1>3. CASE begin_recovery
  BY <1>0, <1>3 DEF begin_recovery
<1>4. CASE Activate
  <2>1. CASE \E d \in BOOLEAN : request_wake(d)
    BY <1>0, <2>1 DEF request_wake
  <2>2. CASE claim_activation
    BY <1>0, <2>2 DEF claim_activation
  <2>3. CASE release_activation
    BY <1>0, <2>3 DEF release_activation
  <2> QED  BY <1>4, <2>1, <2>2, <2>3 DEF Activate
<1>5. CASE Acknowledge
  BY <1>1, <1>2, <1>5 DEF Acknowledge, acknowledge_applied, acknowledge_unusable,
     acknowledge_failed, acknowledge_unknown, enter_recovery
<1>6. CASE Control
  BY <1>1, <1>2, <1>6 DEF Control, Pause, PauseFor, Resume, Cancel, TryComplete, Tombstone
<1>7. CASE \/ Reconcile \/ ClaimEffect \/ ChildCallback \/ begin_iteration \/ FinishIteration
           \/ (\E r \in BOOLEAN : finish_recovery(r))
           \/ (\E o \in Ops : prepare_operation(o))
           \/ \E k \in Kids, n \in Units : admit_child(k, n)
  BY <1>1, <1>7 DEF finish_recovery, begin_iteration, FinishIteration, finish_iteration,
     Reconcile, reconcile_applied, reconcile_not_applied, reconcile_unknown, ClaimEffect,
     claim_effect, ChildCallback, child_started, child_settled, prepare_operation, admit_child
<1>8. CASE UNCHANGED vars
  BY <1>1, <1>8 DEF vars
<1> QED  BY <1>3, <1>4, <1>5, <1>6, <1>7, <1>8 DEF Next, Recover

\* Every action keeps the type of the iteration counters.
LEMMA WorkTypeStep ==
  ASSUME TypeOK, [Next]_vars
  PROVE  WorkType'
<1> USE DEF WorkType
<1>0. WorkType
  BY TypeParts
<1>1. CASE UNCHANGED work
  BY <1>0, <1>1 DEF work
<1>2. CASE begin_recovery
  BY <1>1, <1>2 DEF begin_recovery
<1>3. CASE \E r \in BOOLEAN : finish_recovery(r)
  <2>1. /\ iteration' \in {iteration, 0} /\ next_iteration' = next_iteration
        /\ last' \in {last, "abandoned"}
    BY <1>3 DEF finish_recovery, AbandonIteration
  <2> QED  BY <1>0, <2>1
<1>4. CASE begin_iteration
  <2>1. iteration' = next_iteration /\ next_iteration' = next_iteration + 1 /\ last' = last
    BY <1>4 DEF begin_iteration
  <2> QED  BY <1>0, <2>1
<1>5. CASE FinishIteration
  BY <1>0, <1>5 DEF FinishIteration, finish_iteration
<1>6. CASE Activate \/ Control \/ Acknowledge
  BY <1>1, <1>6 DEF Activate, request_wake, claim_activation, release_activation, Control,
     Pause, PauseFor, Resume, Cancel, TryComplete, Tombstone, Acknowledge, acknowledge_applied,
     acknowledge_unusable, acknowledge_failed, acknowledge_unknown
<1>7. CASE \/ Reconcile \/ ClaimEffect \/ ChildCallback
           \/ (\E o \in Ops : prepare_operation(o))
           \/ \E k \in Kids, n \in Units : admit_child(k, n)
  BY <1>1, <1>7 DEF Reconcile, reconcile_applied, reconcile_not_applied, reconcile_unknown,
     ClaimEffect, claim_effect, ChildCallback, child_started, child_settled, prepare_operation,
     admit_child
<1>8. CASE UNCHANGED vars
  BY <1>1, <1>8 DEF vars
<1> QED  BY <1>2, <1>3, <1>4, <1>5, <1>6, <1>7, <1>8 DEF Next, Recover

\* Every action keeps usage and reservations unsigned and the budget a budget.
LEMMA MoneyTypeStep ==
  ASSUME TypeOK, [Next]_vars
  PROVE  MoneyType'
<1> USE DEF MoneyType
<1>0. MoneyType
  BY TypeParts
<1>1. CASE UNCHANGED money
  BY <1>0, <1>1 DEF money
<1>2. ASSUME NEW r \in BOOLEAN, finish_recovery(r) PROVE MoneyType'
  <2> DEFINE cost == ReceiptSum(AppliedOps)
  <2>1. /\ child_reserved' = child_reserved /\ budget' = budget
        /\ usage' = usage \/ (cost \in Vec /\ usage' = plus(usage, cost))
    BY <1>2 DEF finish_recovery, AbandonIteration, Fits
  <2> HIDE DEF cost
  <2> QED  BY <1>0, <2>1 DEF plus
<1>3. CASE FinishIteration
  BY <1>0, <1>3 DEF FinishIteration, finish_iteration, Fits, plus
<1>4. CASE \E k \in Kids, n \in Units : admit_child(k, n)
  BY <1>0, <1>4 DEF admit_child, UnitsVec, plus
<1>5. CASE ChildCallback
  <2>1. CASE \E k \in Kids : child_started(k)
    BY <1>1, <2>1 DEF child_started
  <2>2. ASSUME NEW k \in Kids, NEW t \in {"Completed", "Failed"}, NEW n \in Units,
               child_settled(k, t, n)
        PROVE  MoneyType'
    <3>1. /\ within(UnitsVec(kids[k].reservation), child_reserved)
          /\ child_reserved' = minus(child_reserved, UnitsVec(kids[k].reservation))
          /\ usage' = plus(usage, UnitsVec(n)) /\ budget' = budget
      BY <2>2 DEF child_settled, SettledReserve
    <3>2. kids[k].reservation \in Nat
      <4>1. kids[k] \in Child
        BY DEF TypeOK
      <4> QED  BY <4>1 DEF Child
    <3> QED  BY <1>0, <3>1, <3>2 DEF within, minus, plus, UnitsVec
  <2> QED  BY <1>5, <2>1, <2>2 DEF ChildCallback
<1>6. CASE Control
  BY <1>0, <1>6 DEF Control, Pause, PauseFor, Resume, Cancel, TryComplete, Tombstone, money
<1>7. CASE Activate \/ begin_recovery \/ Reconcile \/ begin_iteration
  BY <1>1, <1>7 DEF Activate, request_wake, claim_activation, release_activation,
     begin_recovery, Reconcile, reconcile_applied, reconcile_not_applied, reconcile_unknown,
     begin_iteration
<1>8. CASE ClaimEffect \/ Acknowledge \/ \E o \in Ops : prepare_operation(o)
  BY <1>1, <1>8 DEF ClaimEffect, claim_effect, Acknowledge, acknowledge_applied,
     acknowledge_unusable, acknowledge_failed, acknowledge_unknown, prepare_operation
<1>9. CASE UNCHANGED vars
  BY <1>1, <1>9 DEF vars
<1> QED  BY <1>2, <1>3, <1>4, <1>5, <1>6, <1>7, <1>8, <1>9 DEF Next, Recover

\* Every action keeps the type of the history.
LEMMA HistoryTypeStep ==
  ASSUME TypeOK, [Next]_vars
  PROVE  HistoryType'
<1> USE DEF HistoryType
<1>0. HistoryType
  BY TypeParts
<1>1. CASE UNCHANGED <<dispatched, history>>
  BY <1>0, <1>1 DEF history
<1>2. CASE Activate
  BY <1>0, <1>2 DEF Activate, request_wake, claim_activation, release_activation, history
<1>3. CASE ClaimEffect
  <2>1. \A o \in Ops : [op |-> o, attempt |-> ops[o].next_attempt, epoch |-> epoch] \in Effect
    BY DEF TypeOK, Operation, Effect
  <2> QED  BY <1>0, <1>3, <2>1 DEF ClaimEffect, claim_effect, history
<1>4. CASE Acknowledge
  <2>1. PICK e \in dispatched, t \in {"Applied", "FailedRetryable", "Unknown"} :
          answered' = answered \cup {<<e, t>>} /\ UNCHANGED <<dispatched, will>>
    BY <1>4 DEF Acknowledge, acknowledge_applied, acknowledge_unusable, acknowledge_failed,
       acknowledge_unknown, Answer
  <2> QED  BY <1>0, <2>1
<1>5. CASE Control
  BY <1>0, <1>5 DEF Control, Pause, PauseFor, Resume, Cancel, TryComplete, Tombstone, history
<1>6. CASE Recover \/ Reconcile \/ begin_iteration \/ FinishIteration
  BY <1>1, <1>6 DEF Recover, begin_recovery, finish_recovery, Reconcile, reconcile_applied,
     reconcile_not_applied, reconcile_unknown, begin_iteration, FinishIteration, finish_iteration
<1>7. CASE \/ ChildCallback \/ (\E o \in Ops : prepare_operation(o))
           \/ \E k \in Kids, n \in Units : admit_child(k, n)
  BY <1>1, <1>7 DEF ChildCallback, child_started, child_settled, prepare_operation, admit_child
<1>8. CASE UNCHANGED vars
  BY <1>1, <1>8 DEF vars
<1> QED  BY <1>2, <1>3, <1>4, <1>5, <1>6, <1>7, <1>8 DEF Next

\* Every action keeps the type of the children.
LEMMA KidsTypeStep ==
  ASSUME TypeOK, [Next]_vars
  PROVE  kids' \in [Kids -> Child]
<1>0. kids \in [Kids -> Child]
  BY DEF TypeOK
<1>1. CASE \E k \in Kids, n \in Units : admit_child(k, n)
  <2>1. \A n \in Units : [NoChild EXCEPT !.state = "Admitted", !.reservation = n] \in Child
    BY DEF NoChild, Child
  <2> QED  BY <1>0, <1>1, <2>1 DEF admit_child
<1>2. CASE ChildCallback
  <2>1. \A k \in Kids : [kids[k] EXCEPT !.state = "Started"] \in Child
    BY <1>0 DEF Child
  <2>2. \A k \in Kids, t \in {"Completed", "Failed"}, n \in Units :
          [kids[k] EXCEPT !.state = t, !.settlement = n] \in Child
    BY <1>0 DEF Child
  <2>3. \A c \in Child, k \in Kids : [kids EXCEPT ![k] = c] \in [Kids -> Child]
    BY <1>0
  <2>4. CASE \E k \in Kids : child_started(k)
    BY <2>1, <2>3, <2>4 DEF child_started
  <2>5. CASE \E k \in Kids, t \in {"Completed", "Failed"}, n \in Units : child_settled(k, t, n)
    <3>1. PICK k \in Kids, t \in {"Completed", "Failed"}, n \in Units :
            kids' = [kids EXCEPT ![k] = [kids[k] EXCEPT !.state = t, !.settlement = n]]
      BY <2>5 DEF child_settled
    <3> QED  BY <2>2, <2>3, <3>1
  <2> QED  BY <1>2, <2>4, <2>5 DEF ChildCallback
<1>3. CASE Activate \/ Recover \/ Reconcile \/ begin_iteration \/ FinishIteration
  BY <1>0, <1>3 DEF Activate, request_wake, claim_activation, release_activation, Recover,
     begin_recovery, finish_recovery, Reconcile, reconcile_applied, reconcile_not_applied,
     reconcile_unknown, begin_iteration, FinishIteration, finish_iteration
<1>4. CASE \/ ClaimEffect \/ Acknowledge \/ Control \/ \E o \in Ops : prepare_operation(o)
  BY <1>0, <1>4 DEF ClaimEffect, claim_effect, Acknowledge, acknowledge_applied,
     acknowledge_unusable, acknowledge_failed, acknowledge_unknown, prepare_operation, Control,
     Pause, PauseFor, Resume, Cancel, TryComplete, Tombstone
<1>5. CASE UNCHANGED vars
  BY <1>0, <1>5 DEF vars
<1> QED  BY <1>1, <1>2, <1>3, <1>4, <1>5 DEF Next

\* The updates that the handlers make of one operation.
LEMMA ClaimedType ==
  ASSUME NEW op \in Operation, NEW x \in Nat, NEW n \in Units
  PROVE  [op EXCEPT !.next_attempt = @ + 1, !.attempt = op.next_attempt, !.epoch = x,
                    !.settled = FALSE, !.reservation = n, !.state = "Dispatching"] \in Operation
<1>1. op.next_attempt \in Nat
  BY DEF Operation
<1>2. op.next_attempt + 1 \in Nat
  BY <1>1
<1>3. \A a, m \in Nat :
        [op EXCEPT !.next_attempt = m, !.attempt = a, !.epoch = x, !.settled = FALSE,
                   !.reservation = n, !.state = "Dispatching"] \in Operation
  BY DEF Operation, OpState
<1> QED  BY <1>1, <1>2, <1>3

\* An acknowledged operation is an operation.
LEMMA AnsweredType ==
  ASSUME NEW op \in Operation, NEW c \in Units \cup {Unusable}, NEW t \in OpState
  PROVE  [op EXCEPT !.receipt = c, !.settled = TRUE, !.state = t] \in Operation
  BY DEF Operation

\* An operation that is sent back for a retry is an operation.
LEMMA RetriedType ==
  ASSUME NEW op \in Operation, NEW t \in OpState
  PROVE  [op EXCEPT !.settled = TRUE, !.state = t] \in Operation
  BY DEF Operation

\* A reconciled operation is an operation.
LEMMA ReconciledType ==
  ASSUME NEW op \in Operation, NEW n \in Units
  PROVE  [op EXCEPT !.attempt = 0, !.epoch = 0, !.receipt = n, !.settled = TRUE,
                    !.state = "Reconciled"] \in Operation
  BY DEF Operation, OpState

\* An abandoned operation is an operation.
LEMMA AbandonedType ==
  ASSUME NEW op \in Operation
  PROVE  [op EXCEPT !.state = "Abandoned", !.attempt = 0, !.epoch = 0, !.settled = FALSE]
           \in Operation
  BY DEF Operation, OpState

\* An operation whose attempt the Host has withdrawn is an operation.
LEMMA WithdrawnType ==
  ASSUME NEW op \in Operation
  PROVE  [op EXCEPT !.attempt = 0, !.epoch = 0] \in Operation
  BY DEF Operation

\* And so is one that the Host knows was not applied.
LEMMA NotAppliedType ==
  ASSUME NEW op \in Operation
  PROVE  [op EXCEPT !.attempt = 0, !.epoch = 0, !.state = "Abandoned"] \in Operation
  BY DEF Operation, OpState

\* Every action keeps the type of the outbox.
LEMMA OpsTypeStep ==
  ASSUME TypeOK, [Next]_vars
  PROVE  ops' \in [Ops -> Operation]
<1> USE DEF OpState
<1>0. ops \in [Ops -> Operation] /\ epoch \in Nat /\ iteration \in Nat
  BY DEF TypeOK
<1>1. \A o \in Ops, op \in Operation : [ops EXCEPT ![o] = op] \in [Ops -> Operation]
  BY <1>0
<1>2. CASE begin_recovery
  <2>1. \A o \in Ops : [ops[o] EXCEPT !.state = "Uncertain"] \in Operation
    BY <1>0 DEF Operation
  <2> QED  BY <1>0, <1>2, <2>1 DEF begin_recovery
<1>3. ASSUME NEW r \in BOOLEAN, finish_recovery(r) PROVE ops' \in [Ops -> Operation]
  <2>1. CASE iteration = 0
    BY <1>0, <1>3, <2>1 DEF finish_recovery, AbandonIteration
  <2>2. CASE iteration # 0
    <3>1. \A o \in Ops : [ops[o] EXCEPT !.state = "Abandoned", !.attempt = 0, !.epoch = 0,
                                        !.settled = FALSE] \in Operation
      BY <1>0, AbandonedType
    <3> QED  BY <1>0, <1>3, <2>2, <3>1 DEF finish_recovery, AbandonIteration
  <2> QED  BY <2>1, <2>2
<1>4. ASSUME NEW o \in Ops, NEW n \in Units, reconcile_applied(o, n)
      PROVE  ops' \in [Ops -> Operation]
  BY <1>0, <1>1, <1>4, ReconciledType DEF reconcile_applied
<1>5. ASSUME NEW o \in Ops, reconcile_not_applied(o) \/ reconcile_unknown(o)
      PROVE  ops' \in [Ops -> Operation]
  <2>1. /\ [ops[o] EXCEPT !.attempt = 0, !.epoch = 0] \in Operation
        /\ [ops[o] EXCEPT !.attempt = 0, !.epoch = 0, !.state = "Abandoned"] \in Operation
    BY <1>0, WithdrawnType, NotAppliedType
  <2> QED  BY <1>1, <1>5, <2>1 DEF reconcile_not_applied, reconcile_unknown
<1>6. ASSUME NEW o \in Ops, prepare_operation(o) PROVE ops' \in [Ops -> Operation]
  <2>1. [NoOperation EXCEPT !.state = "Prepared", !.iteration = iteration] \in Operation
    BY <1>0 DEF Operation, NoOperation
  <2> QED  BY <1>1, <1>6, <2>1 DEF prepare_operation
<1>7. ASSUME NEW o \in Ops, NEW n \in Units, claim_effect(o, n)
      PROVE  ops' \in [Ops -> Operation]
  BY <1>0, <1>1, <1>7, ClaimedType DEF claim_effect
<1>8. ASSUME NEW e \in dispatched, NEW n \in Units, acknowledge_applied(e, n)
      PROVE  ops' \in [Ops -> Operation]
  BY <1>0, <1>1, <1>8, AnsweredType DEF acknowledge_applied, TypeOK, Effect
<1>9. ASSUME NEW e \in dispatched,
             acknowledge_unusable(e) \/ acknowledge_failed(e) \/ acknowledge_unknown(e)
      PROVE  ops' \in [Ops -> Operation]
  <2>1. e.op \in Ops
    BY DEF TypeOK, Effect
  <2>2. /\ [ops[e.op] EXCEPT !.receipt = Unusable, !.settled = TRUE, !.state = "Uncertain"]
             \in Operation
        /\ \A t \in OpState : [ops[e.op] EXCEPT !.settled = TRUE, !.state = t] \in Operation
    BY <1>0, <2>1, AnsweredType, RetriedType
  <2> QED  BY <1>1, <1>9, <2>1, <2>2 DEF acknowledge_unusable, acknowledge_failed, acknowledge_unknown
<1>10. CASE \/ Activate \/ begin_iteration \/ FinishIteration \/ ChildCallback \/ Control
            \/ \E k \in Kids, n \in Units : admit_child(k, n)
  BY <1>0, <1>10 DEF Activate, request_wake, claim_activation, release_activation,
     begin_iteration, FinishIteration, finish_iteration, ChildCallback, child_started,
     child_settled, admit_child, Control, Pause, PauseFor, Resume, Cancel, TryComplete, Tombstone
<1>11. CASE UNCHANGED vars
  BY <1>0, <1>11 DEF vars
<1> QED
  BY <1>2, <1>3, <1>4, <1>5, <1>6, <1>7, <1>8, <1>9, <1>10, <1>11
  DEF Next, Recover, Reconcile, ClaimEffect, Acknowledge

\* Every action keeps the type invariant.
LEMMA TypeStep ==
  ASSUME TypeOK, [Next]_vars
  PROVE  TypeOK'
<1>1. /\ LifecycleType' /\ ResidencyType' /\ WorkType' /\ MoneyType' /\ HistoryType'
      /\ ops' \in [Ops -> Operation] /\ kids' \in [Kids -> Child]
  BY LifecycleTypeStep, ResidencyTypeStep, WorkTypeStep, MoneyTypeStep, HistoryTypeStep,
     OpsTypeStep, KidsTypeStep
<1> QED
  BY <1>1 DEF TypeOK, LifecycleType, ResidencyType, WorkType, MoneyType, HistoryType

-----------------------------------------------------------------------------
(* Theorems *)

\* The strengthened invariant of every Run that create_run makes.
THEOREM RunInvariance == Spec => []Inv
<1>1. Inv /\ [Next]_vars => Inv'
  <2> SUFFICES ASSUME Inv, [Next]_vars PROVE Inv'
    OBVIOUS
  <2> USE DEF Inv
  <2>1. TypeOK' /\ ResidencyValid' /\ ControlInv' /\ BudgetRespected'
    BY TypeStep, ResidencyStep, ControlStep, BudgetStep
  <2>2. \A o \in Ops : OperationInv(o)'
    BY OperationStep
  <2>3. \A o \in Ops : AttemptInv(o)'
    BY AttemptStep
  <2>4. ClaimsUnique' /\ CompletionInv'
    BY ClaimsStep, CompletionStep
  <2> QED  BY <2>1, <2>2, <2>3, <2>4
<1> QED  BY <1>1, Initially, PTL DEF Spec

\* create_run and every handler after it keep the record well formed.
THEOREM RunTypes == Spec => []TypeOK
<1>1. Inv => TypeOK
  BY DEF Inv
<1> QED  BY <1>1, RunInvariance, PTL

\* commit never finds a successor record invalid: RunEnvelope::validate accepts
\* whatever the handlers build from what they built before.
THEOREM RecordsStayValid == Spec => []ValidateNeverRefuses
<1>1. Inv => ValidateNeverRefuses
  BY DEF Inv, ValidateNeverRefuses, OperationInv
<1> QED  BY <1>1, RunInvariance, PTL

\* claim_effect, acknowledge_effect and recovery together never let an effect
\* that must not be replayed reach an executor again on a guess.
THEOREM NoBlindRepeat == Spec => []NeverBlindlyRepeated
<1>1. Inv => NeverBlindlyRepeated
  <2> SUFFICES ASSUME Inv, NEW e \in dispatched, NEW f \in dispatched, e.op = f.op, e # f,
                      ClassOf[e.op] \in {"Reconcilable", "NonRepeatable"}
               PROVE  ClassOf[e.op] = "Reconcilable" /\ (Disclaimed(e) \/ Disclaimed(f))
    BY DEF NeverBlindlyRepeated
  <2>1. e.op \in Ops /\ e.attempt \in Nat /\ f.attempt \in Nat /\ ops[e.op].next_attempt \in Nat
    BY DEF Inv, TypeOK, Effect, Operation
  <2>2. AttemptInv(e.op)
    BY <2>1 DEF Inv
  <2>3. e.attempt # f.attempt
    BY DEF Inv, ClaimsUnique
  <2>4. /\ e.attempt >= 1 /\ e.attempt < ops[e.op].next_attempt
        /\ f.attempt >= 1 /\ f.attempt < ops[e.op].next_attempt
    BY <2>2 DEF AttemptInv
  <2>5. ClassOf[e.op] # "NonRepeatable"
    BY <2>1, <2>2, <2>3, <2>4 DEF AttemptInv
  <2>6. e.attempt < ops[e.op].next_attempt - 1 \/ f.attempt < ops[e.op].next_attempt - 1
    BY <2>1, <2>3, <2>4
  <2> QED  BY <2>2, <2>5, <2>6 DEF AttemptInv
<1> QED  BY <1>1, RunInvariance, PTL

\* What a Run has spent and promised to children never exceeds its budget.
THEOREM BudgetIsRespected == Spec => []BudgetRespected
<1>1. Inv => BudgetRespected
  BY DEF Inv
<1> QED  BY <1>1, RunInvariance, PTL

\* TryComplete is the only way to Complete, and recovery restores it only for a
\* Run that earned it.
THEOREM CompletionIsEarned == Spec => []CompleteOnlyIfAccepted
<1>1. Inv => CompleteOnlyIfAccepted
  BY DEF Inv, CompletionInv, CompleteOnlyIfAccepted, has_unsettled_operations
<1> QED  BY <1>1, RunInvariance, PTL

\* Recovery never turns a paused Run into an active one.
THEOREM PauseIsKept == Spec => []PauseSurvivesRecovery
<1>1. Inv => PauseSurvivesRecovery
  BY DEF Inv, ControlInv, PauseSurvivesRecovery
<1> QED  BY <1>1, RunInvariance, PTL

\* An operation that was acknowledged or reconciled is never touched again.
LEMMA FinalStep ==
  ASSUME Inv, [Next]_vars, NEW o \in Ops, ops[o].state \in {"Acknowledged", "Reconciled"}
  PROVE  ops'[o] = ops[o]
<1>0. ops \in [Ops -> Operation]
  BY DEF Inv, TypeOK
<1>1. CASE Recover
  BY <1>0, <1>1 DEF Recover, begin_recovery, finish_recovery, AbandonIteration
<1>2. CASE Reconcile
  BY <1>0, <1>2 DEF Reconcile, reconcile_applied, reconcile_not_applied, reconcile_unknown,
     Reconcilable
<1>3. CASE ClaimEffect \/ \E x \in Ops : prepare_operation(x)
  BY <1>0, <1>3 DEF ClaimEffect, claim_effect, prepare_operation
<1>4. CASE Acknowledge
  <2>1. PICK e \in dispatched : /\ CallbackIsCurrent(e)
                                /\ \E op : ops' = [ops EXCEPT ![e.op] = op]
    BY <1>4 DEF Acknowledge, acknowledge_applied, acknowledge_unusable, acknowledge_failed,
       acknowledge_unknown
  <2>2. e.op \in Ops
    BY DEF Inv, TypeOK, Effect
  <2>3. ops[e.op].state = "Dispatching"
    BY <2>1, <2>2, CurrentIsDispatching DEF Inv
  <2> QED  BY <1>0, <2>1, <2>2, <2>3
<1>5. CASE \/ Activate \/ begin_iteration \/ FinishIteration \/ ChildCallback \/ Control
           \/ \E k \in Kids, n \in Units : admit_child(k, n)
  BY <1>5 DEF Activate, request_wake, claim_activation, release_activation, begin_iteration,
     FinishIteration, finish_iteration, ChildCallback, child_started, child_settled,
     admit_child, Control, Pause, PauseFor, Resume, Cancel, TryComplete, Tombstone
<1>6. CASE UNCHANGED vars
  BY <1>6 DEF vars
<1> QED  BY <1>1, <1>2, <1>3, <1>4, <1>5, <1>6 DEF Next

\* No late, repeated or contradicting callback and no recovery revises an outcome.
THEOREM OutcomesAreFinal == Spec => SettledIsFinal
<1> DEFINE Final == \A o \in Ops : ops[o].state \in {"Acknowledged", "Reconciled"}
                                   => ops'[o] = ops[o]
<1>1. Inv /\ [Next]_vars => [Final]_vars
  BY FinalStep
<1> QED  BY <1>1, RunInvariance, PTL DEF Spec, SettledIsFinal

-----------------------------------------------------------------------------
(* The charge that recovery refuses *)

\* While a Run is fenced for good, no step touches what the refusal rests on.
LEMMA FencedFrame ==
  ASSUME Inv, FencedForGood, [Next]_vars
  PROVE  /\ UNCHANGED <<ops, kids, iteration, usage, child_reserved, budget>>
         /\ status' \in {"RecoveryRequired", "Cancelled"}
<1> USE DEF lifecycle, work, money
<1>0. status \in {"RecoveryRequired", "Cancelled"} /\ iteration # 0
  BY DEF FencedForGood
<1>1. CASE Activate
  BY <1>0, <1>1 DEF Activate, request_wake, claim_activation, release_activation
<1>2. CASE begin_recovery
  <2>1. ops' = ops
    <3>1. \A o \in Ops : ops'[o] = ops[o]
      BY <1>2 DEF begin_recovery, FencedForGood
    <3> QED  BY <1>2, <3>1 DEF begin_recovery, Inv, TypeOK
  <2> QED  BY <1>2, <2>1 DEF begin_recovery
<1>3. ~ \E r \in BOOLEAN : finish_recovery(r)
  BY <1>0 DEF finish_recovery, AbandonIteration, FencedForGood
<1>4. ~Reconcile
  BY DEF Reconcile, reconcile_applied, reconcile_not_applied, reconcile_unknown,
         Reconcilable, FencedForGood
<1>5. ~ \/ begin_iteration \/ FinishIteration \/ ClaimEffect
        \/ (\E o \in Ops : prepare_operation(o))
        \/ (\E k \in Kids, n \in Units : admit_child(k, n))
  BY <1>0 DEF begin_iteration, FinishIteration, finish_iteration, ClaimEffect, claim_effect,
              prepare_operation, admit_child
<1>6. ~Acknowledge
  <2> SUFFICES ASSUME NEW e \in dispatched, CallbackIsCurrent(e) PROVE FALSE
    BY DEF Acknowledge, acknowledge_applied, acknowledge_unusable, acknowledge_failed,
           acknowledge_unknown
  <2>1. e.op \in Ops
    BY DEF Inv, TypeOK, Effect
  <2>2. ops[e.op].state = "Dispatching"
    BY <2>1, CurrentIsDispatching DEF Inv
  <2> QED  BY <2>1, <2>2 DEF FencedForGood
<1>7. ~ChildCallback
  BY DEF ChildCallback, child_started, child_settled, live_children, ChildTerminal, FencedForGood
<1>8. CASE Control
  BY <1>0, <1>8 DEF Control, Pause, PauseFor, Resume, Cancel, TryComplete, validate_completion,
                    Tombstone, has_unsettled_work, Waits, Terminal
<1>9. CASE UNCHANGED vars
  BY <1>0, <1>9 DEF vars
<1> QED
  BY <1>1, <1>2, <1>3, <1>4, <1>5, <1>6, <1>7, <1>8, <1>9 DEF Next, Recover

\* The charge of an abandoned iteration that finish_recovery refuses once it refuses
\* for ever: no callback, Host command or further recovery makes the Run active,
\* ends its iteration or lets it be tombstoned.
THEOREM RefusalIsFinal == Spec => [][FencedForGood => FencedForGood']_vars
<1>1. Inv /\ [Next]_vars => [FencedForGood => FencedForGood']_vars
  <2> SUFFICES ASSUME Inv, [Next]_vars, FencedForGood PROVE FencedForGood'
    OBVIOUS
  <2>1. /\ UNCHANGED <<ops, kids, iteration, usage, child_reserved, budget>>
        /\ status' \in {"RecoveryRequired", "Cancelled"}
    BY FencedFrame
  <2> QED
    BY <2>1 DEF FencedForGood, live_children, AppliedOps, ReceiptSum, Fits
<1> QED  BY <1>1, RunInvariance, PTL DEF Spec

-----------------------------------------------------------------------------
(***************************************************************************)
(* Run implements RunLifecycle: every command and callback is one move of  *)
(* the lifecycle that RunController commits.                               *)
(***************************************************************************)

\* What is tombstoned is settled, and is never what recovery restores.
TombstoneInv ==
  /\ status = "Tombstoned" => ~has_unsettled_work
  /\ prior # "Tombstoned"

\* The phases of the statuses.
LEMMA Phases ==
  ASSUME NEW s \in Status
  PROVE  /\ s = "Active" <=> PhaseOf(s) = "Active"
         /\ s \in Waits <=> PhaseOf(s) = "Waiting"
         /\ s = "RecoveryRequired" <=> PhaseOf(s) = "Recovering"
         /\ s \in {"Complete", "Cancelled"} <=> PhaseOf(s) = "Terminal"
         /\ s = "Tombstoned" <=> PhaseOf(s) = "Tombstoned"
  BY DEF Status, Waits, Terminal, PhaseOf

\* A step that keeps the status of a Run and opens nothing, or is the work of an
\* active one, is a move.
LEMMA WorkingMoves ==
  ASSUME TypeOK, TypeOK', status' = status, status # "Tombstoned",
         has_unsettled_work' => has_unsettled_work \/ status = "Active"
  PROVE  Lifecycle!LNext
<1>1. PhaseOf(status) \in {"Active", "Waiting", "Recovering", "Terminal"}
      /\ PhaseOf(status)' = PhaseOf(status)
      /\ (status = "Active" => PhaseOf(status) = "Active")
  BY Phases DEF TypeOK, Status, Waits, Terminal
<1> QED
  BY <1>1 DEF Lifecycle!LNext, Lifecycle!Moves, Lifecycle!Commanded, Lifecycle!Working,
              Lifecycle!Live

\* A step that touches neither the iteration, nor the outbox, nor the children.
LEMMA WorkFrame ==
  ASSUME UNCHANGED <<iteration, ops, kids>>
  PROVE  has_unsettled_work' = has_unsettled_work
  BY DEF has_unsettled_work, has_unsettled_operations, live_children

\* Recovery is entered with the work as it was.
LEMMA BeginRecoveryMoves ==
  ASSUME Inv, Inv', begin_recovery
  PROVE  Lifecycle!LNext
<1>1. has_unsettled_work' = has_unsettled_work
  <2>1. \A o \in Ops : ops'[o].state \in SettledOps <=> ops[o].state \in SettledOps
    BY DEF begin_recovery, Inv, TypeOK, Operation, SettledOps
  <2>2. has_unsettled_operations' = has_unsettled_operations
    BY <2>1 DEF has_unsettled_operations, SettledOps
  <2> QED  BY <2>2 DEF begin_recovery, work, has_unsettled_work, live_children
<1>2. PhaseOf(status)' = "Recovering"
  BY DEF begin_recovery, PhaseOf, Waits
<1>3. \/ PhaseOf(status) \in {"Active", "Waiting", "Recovering"}
      \/ PhaseOf(status) = "Terminal" /\ has_unsettled_work
  BY Phases DEF begin_recovery, Inv, TypeOK, Status, Waits, Terminal
<1> QED
  BY <1>1, <1>2, <1>3 DEF Lifecycle!LNext, Lifecycle!Moves, Lifecycle!Reopens, Lifecycle!Live

\* Recovery is left with nothing open: what it does not settle it abandons.
LEMMA FinishRecoveryMoves ==
  ASSUME Inv, TombstoneInv, NEW r \in BOOLEAN, finish_recovery(r)
  PROVE  Lifecycle!LNext /\ status' # "Tombstoned" /\ prior' # "Tombstoned"
<1>1. iteration' = 0 /\ kids' = kids /\ live_children = {}
  BY DEF finish_recovery, AbandonIteration
<1>2. \A o \in Ops : ops'[o].state \in SettledOps
  <2> SUFFICES ASSUME NEW o \in Ops PROVE ops'[o].state \in SettledOps
    OBVIOUS
  <2>0. ops[o] \in Operation /\ OperationValid(o)
    BY DEF Inv, TypeOK, OperationInv
  <2>1. ops[o].state \notin {"Dispatching", "Uncertain"}
    BY DEF finish_recovery
  <2>2. CASE ops[o].state \in SettledOps
    BY <2>2, <2>0 DEF finish_recovery, AbandonIteration, SettledOps, Operation
  <2>3. CASE ops[o].state \notin SettledOps
    <3>1. ops[o].state \in {"Prepared", "FailedRetryable"}
      BY <2>0, <2>1, <2>3 DEF Operation, OpState, SettledOps
    <3>2. iteration # 0 /\ ops[o].iteration = iteration
      BY <3>1, <2>0 DEF OperationValid
    <3>3. ops'[o] = [ops[o] EXCEPT !.state = "Abandoned", !.attempt = 0,
                                   !.epoch = 0, !.settled = FALSE]
      BY <3>1, <3>2 DEF finish_recovery, AbandonIteration
    <3> QED  BY <3>3, <2>0 DEF SettledOps, Operation
  <2> QED  BY <2>2, <2>3
<1>3. ~has_unsettled_work'
  BY <1>1, <1>2 DEF has_unsettled_work, has_unsettled_operations, live_children
<1>4. status' \in Status \ {"RecoveryRequired", "Tombstoned"} /\ prior' = "None"
  BY DEF finish_recovery, Inv, TypeOK, TombstoneInv, Status, Waits, Terminal
<1>5. PhaseOf(status)' \in {"Active", "Waiting", "Terminal"}
  BY <1>4, Phases DEF Status, Waits, Terminal
<1>6. PhaseOf(status) = "Recovering"
  BY Phases DEF finish_recovery, PhaseOf, Waits
<1> QED
  BY <1>3, <1>4, <1>5, <1>6 DEF Lifecycle!LNext, Lifecycle!Moves, Lifecycle!Commanded,
                                Lifecycle!Recovered

\* An acknowledgement settles an effect that was open, or fences the Run with
\* that effect still open.
LEMMA AcknowledgeMoves ==
  ASSUME Inv, Inv', TombstoneInv, Acknowledge
  PROVE  Lifecycle!LNext /\ status' # "Tombstoned" /\ prior' # "Tombstoned"
<1>1. PICK e \in dispatched :
        \/ \E n \in Units : acknowledge_applied(e, n)
        \/ acknowledge_unusable(e) \/ acknowledge_failed(e) \/ acknowledge_unknown(e)
  BY DEF Acknowledge
<1>2. CallbackIsCurrent(e) /\ e.op \in Ops
  BY <1>1 DEF acknowledge_applied, acknowledge_unusable, acknowledge_failed, acknowledge_unknown,
              Inv, TypeOK, Effect
<1>3. ops[e.op].state = "Dispatching" /\ iteration # 0
  BY <1>2, CurrentIsDispatching DEF Inv
<1>4. has_unsettled_work /\ has_unsettled_work'
  BY <1>1, <1>3 DEF has_unsettled_work, acknowledge_applied, acknowledge_unusable,
                    acknowledge_failed, acknowledge_unknown, work
<1>5. status # "Tombstoned"
  BY <1>4 DEF TombstoneInv
<1>6. CASE UNCHANGED lifecycle
  <2>1. status' = status /\ prior' = prior
    BY <1>6 DEF lifecycle
  <2> QED  BY <2>1, <1>4, <1>5, WorkingMoves DEF Inv, TombstoneInv
<1>7. CASE enter_recovery
  <2>1. PhaseOf(status)' = "Recovering" /\ prior' # "Tombstoned" /\ status' # "Tombstoned"
    BY <1>5, <1>7 DEF enter_recovery, SavePrior, PhaseOf, Waits, TombstoneInv
  <2>2. PhaseOf(status) \in {"Active", "Waiting", "Recovering", "Terminal"}
    BY <1>5, Phases DEF Inv, TypeOK, Status, Waits, Terminal
  <2> QED
    BY <1>4, <2>1, <2>2 DEF Lifecycle!LNext, Lifecycle!Moves, Lifecycle!CalledBack,
                            Lifecycle!Fences, Lifecycle!Live
<1> QED
  BY <1>1, <1>6, <1>7 DEF acknowledge_applied, acknowledge_unusable, acknowledge_failed,
                          acknowledge_unknown

\* Host control changes the phase and leaves the work alone.
LEMMA ControlMoves ==
  ASSUME Inv, Inv', Control
  PROVE  /\ Lifecycle!LNext
         /\ has_unsettled_work' = has_unsettled_work /\ prior' = prior
         /\ status' = "Tombstoned" => ~has_unsettled_work
<1>1. UNCHANGED <<iteration, ops, kids, prior>>
  BY DEF Control, Pause, Cancel, TryComplete, Tombstone, PauseFor, Resume, work
<1>2. has_unsettled_work' = has_unsettled_work
  BY <1>1, WorkFrame
<1>3. status' = "Tombstoned" => ~has_unsettled_work
  BY DEF Control, Pause, Cancel, TryComplete, Tombstone, PauseFor, Resume, Waits
<1>4. \/ status = "Active" /\ status' \in Waits \cup {"Cancelled", "Complete"}
      \/ status \in Waits /\ status' \in {"Active", "Cancelled"}
      \/ status = "RecoveryRequired" /\ status' = "Cancelled"
      \/ status \in {"Complete", "Cancelled"} /\ ~has_unsettled_work /\ status' = "Tombstoned"
  BY DEF Control, Pause, Cancel, TryComplete, Tombstone, PauseFor, Resume, Waits, Terminal,
         validate_completion, Inv, TypeOK, Status
<1>5. Lifecycle!Controlled(PhaseOf(status), has_unsettled_work,
                           PhaseOf(status)', has_unsettled_work')
  <2>1. status \in Status /\ status' \in Status
    BY DEF Inv, TypeOK
  <2> QED  BY <1>2, <1>4, <2>1, Phases DEF Lifecycle!Controlled
<1> QED
  BY <1>1, <1>2, <1>3, <1>5 DEF Lifecycle!LNext, Lifecycle!Moves, Lifecycle!Commanded

\* Every command and callback is a move of the lifecycle.
LEMMA NextMoves ==
  ASSUME Inv, Inv', TombstoneInv, Next
  PROVE  Lifecycle!LNext /\ TombstoneInv'
<1>0. TypeOK /\ TypeOK' /\ ResidencyValid
  BY DEF Inv
<1>1. CASE begin_recovery
  <2>1. status' = "RecoveryRequired" /\ prior' # "Tombstoned"
    BY <1>1 DEF begin_recovery, SavePrior, TombstoneInv
  <2> QED  BY <1>1, <2>1, BeginRecoveryMoves DEF TombstoneInv
<1>2. CASE \E r \in BOOLEAN : finish_recovery(r)
  BY <1>2, FinishRecoveryMoves DEF TombstoneInv
<1>3. CASE Acknowledge
  BY <1>3, AcknowledgeMoves DEF TombstoneInv
<1>4. CASE Control
  BY <1>4, ControlMoves DEF TombstoneInv
<1>5. ASSUME status' = status, prior' = prior, status # "Tombstoned",
             has_unsettled_work' => has_unsettled_work \/ status = "Active"
      PROVE  Lifecycle!LNext /\ TombstoneInv'
  BY <1>0, <1>5, WorkingMoves DEF TombstoneInv
<1>6. CASE Activate
  <2>1. UNCHANGED <<iteration, ops, kids, status, prior>> /\ status # "Tombstoned"
    BY <1>0, <1>6 DEF Activate, request_wake, claim_activation, release_activation, work,
                      lifecycle, ResidencyValid
  <2> QED  BY <2>1, <1>5, WorkFrame
<1>7. CASE \/ begin_iteration \/ FinishIteration \/ ClaimEffect
           \/ (\E o \in Ops : prepare_operation(o))
           \/ (\E k \in Kids, n \in Units : admit_child(k, n))
  <2>1. status = "Active" /\ status' = status /\ prior' = prior
    BY <1>7 DEF begin_iteration, FinishIteration, finish_iteration, ClaimEffect, claim_effect,
                prepare_operation, admit_child, lifecycle
  <2> QED  BY <2>1, <1>5
<1>8. CASE Reconcile
  <2>1. PICK o \in Ops : ops[o].state = "Uncertain"
    BY <1>8 DEF Reconcile, reconcile_applied, reconcile_not_applied, reconcile_unknown,
                Reconcilable
  <2>2. has_unsettled_work
    BY <2>1 DEF has_unsettled_work, has_unsettled_operations, SettledOps
  <2>3. status' = status /\ prior' = prior /\ status # "Tombstoned"
    BY <1>8 DEF Reconcile, reconcile_applied, reconcile_not_applied, reconcile_unknown,
                Reconcilable, lifecycle
  <2> QED  BY <2>2, <2>3, <1>5
<1>9. CASE ChildCallback
  <2>1. live_children # {}
    BY <1>9 DEF ChildCallback, child_started, child_settled, live_children, ChildTerminal
  <2>2. has_unsettled_work
    BY <2>1 DEF has_unsettled_work
  <2>3. status' = status /\ prior' = prior /\ status # "Tombstoned"
    BY <1>9, <2>2 DEF ChildCallback, child_started, child_settled, lifecycle, TombstoneInv
  <2> QED  BY <2>2, <2>3, <1>5
<1> QED  BY <1>1, <1>2, <1>3, <1>4, <1>6, <1>7, <1>8, <1>9 DEF Next, Recover

\* The Run reducer implements the lifecycle: no command or callback, in any
\* order, reopens a tombstoned Run, lets a Run that ended take on work, or
\* leaves recovery with work unsettled.
THEOREM LifecycleRefined == Spec => RefinesLifecycle
<1>1. Init => Lifecycle!LInit /\ TombstoneInv
  <2> SUFFICES ASSUME Init PROVE Lifecycle!LInit /\ TombstoneInv
    OBVIOUS
  <2>1. ~has_unsettled_work
    BY DEF Init, has_unsettled_work, has_unsettled_operations, live_children, NoOperation,
           NoChild, SettledOps, ChildTerminal
  <2>2. PhaseOf(status) = "Active"
    BY DEF Init, PhaseOf, Waits
  <2> QED  BY <2>1, <2>2 DEF Init, TombstoneInv, Lifecycle!LInit
<1>2. Inv /\ Inv' /\ TombstoneInv /\ [Next]_vars
        => [Lifecycle!LNext]_(Lifecycle!lvars) /\ TombstoneInv'
  <2> SUFFICES ASSUME Inv, Inv', TombstoneInv, [Next]_vars
               PROVE  [Lifecycle!LNext]_(Lifecycle!lvars) /\ TombstoneInv'
    OBVIOUS
  <2>1. CASE Next
    BY <2>1, NextMoves
  <2>2. CASE UNCHANGED vars
    <3>1. UNCHANGED <<iteration, ops, kids, status, prior>>
      BY <2>2 DEF vars, work, lifecycle
    <3>2. has_unsettled_work' = has_unsettled_work
      BY <3>1, WorkFrame
    <3> QED  BY <3>1, <3>2 DEF TombstoneInv, Lifecycle!lvars, PhaseOf
  <2> QED  BY <2>1, <2>2
<1> QED
  BY <1>1, <1>2, RunInvariance, PTL DEF Spec, RefinesLifecycle, Lifecycle!LSpec
=============================================================================
