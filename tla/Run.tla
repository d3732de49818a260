-------------------------------- MODULE Run --------------------------------
(***************************************************************************)
(* The Run reducer (crates/codegen/xai-agent-lifecycle run/controller.rs   *)
(* over the record of run/model.rs): one durable Run, its residency, its   *)
(* iterations, its outbox of effects, its children and its budget.  Each   *)
(* action is one command or callback and its committed result; who may     *)
(* commit is the business of RunController.  Effects are executed outside: *)
(* every claim that was returned may be answered early, late or never.     *)
(*                                                                         *)
(* A resource vector keeps two of its dimensions, iterations and "units"   *)
(* (any other additive dimension).  Lease expiry and deadlines depend on   *)
(* instants that callers supply, so both outcomes are always possible.     *)
(***************************************************************************)
EXTENDS Integers, FiniteSets, Functions

CONSTANTS Ops,          \* operation identities
          ClassOf,      \* the effect class of each operation
          Turns,        \* the operations that are Session Turns
          Kids,         \* child identities
          PolicyOf,     \* the completion policy of each child
          Units,        \* amounts a reservation or a usage may name
          Budgets,      \* the budgets a Host may set
          MaxEpoch,     \* bound: controller epochs
          MaxIteration, \* bound: iterations begun
          MaxAttempt    \* bound: attempts of one operation

None == -1       \* an absent Option
Unusable == -2   \* a receipt whose usage cannot be settled

Vec == [iterations : Nat, units : Nat]

ASSUME ConstantsAssumption ==
  /\ IsFiniteSet(Ops) /\ IsFiniteSet(Kids)
  /\ ClassOf \in [Ops -> {"Replayable", "Idempotent", "Reconcilable", "NonRepeatable"}]
  /\ Turns \subseteq Ops
  /\ PolicyOf \in [Kids -> {"MustSucceed", "MayFail", "Detached"}]
  /\ Units \subseteq Nat
  /\ Budgets \subseteq Vec
  /\ MaxEpoch \in Nat \ {0} /\ MaxIteration \in Nat /\ MaxAttempt \in Nat

VARIABLES
  status, stage, prior,    \* prior is recovery_prior_status, or "None"
  epoch,                   \* controller_epoch
  lease,                   \* epoch of the activation lease, 0 without one
  wake,                    \* which of "reason" and "deadline" the intent holds
  iteration,               \* the active iteration, 0 at a boundary
  next_iteration,          \* next_iteration_id
  last,                    \* how the newest finished iteration ended
  ops,                     \* the outbox
  kids,                    \* the children
  usage, child_reserved, budget,
  dispatched,              \* claims returned to an executor
  answered,                \* history: the outcome each claim was settled with
  will                     \* history: what the Host last decided for the Run

lifecycle == <<status, stage, prior>>
residency == <<epoch, lease, wake>>
work      == <<iteration, next_iteration, last>>
money     == <<usage, child_reserved, budget>>
history   == <<answered, will>>
vars == <<lifecycle, residency, work, ops, kids, money, dispatched, history>>

-----------------------------------------------------------------------------
(* Statuses, operations, children *)

Waits    == {"UserPaused", "Waiting"}   \* Waiting: back-off, no progress, ...
Terminal == {"Complete", "Cancelled", "Tombstoned"}
Status   == {"Active", "RecoveryRequired"} \cup Waits \cup Terminal
Stage    == {"Idle", "Executing", "Verifying", "Refining", "Recovering"}

OpState == {"Absent", "Prepared", "Dispatching", "Acknowledged", "Reconciled",
            "Abandoned", "FailedRetryable", "Uncertain"}

Operation ==
  [state        : OpState,
   iteration    : Nat,
   next_attempt : Nat,
   attempt      : Nat,                  \* active_attempt, 0 when None
   epoch        : Nat,                  \* the epoch of that attempt
   reservation  : Units \cup {None},
   receipt      : Units \cup {None, Unusable},
   settled      : BOOLEAN]              \* terminal_result_digest is present

Child == [state       : {"Absent", "Admitted", "Started", "Completed", "Failed"},
          reservation : Nat,
          settlement  : Nat]

NoOperation == [state |-> "Absent", iteration |-> 0, next_attempt |-> 1,
                attempt |-> 0, epoch |-> 0, reservation |-> None,
                receipt |-> None, settled |-> FALSE]
NoChild == [state |-> "Absent", reservation |-> 0, settlement |-> 0]

Effect == [op : Ops, attempt : Nat, epoch : Nat]

SettledOps   == {"Absent", "Acknowledged", "Reconciled", "Abandoned"}
ChildTerminal == {"Absent", "Completed", "Failed"}

has_unsettled_operations == \E o \in Ops : ops[o].state \notin SettledOps
live_children == {k \in Kids : kids[k].state \notin ChildTerminal}
has_unsettled_work ==
  iteration # 0 \/ has_unsettled_operations \/ live_children # {}

-----------------------------------------------------------------------------
(* Resources *)

within(a, b) == a.iterations <= b.iterations /\ a.units <= b.units
minus(a, b) == [iterations |-> a.iterations - b.iterations, units |-> a.units - b.units]
plus(a, b) == [iterations |-> a.iterations + b.iterations, units |-> a.units + b.units]
UnitsVec(n) == [iterations |-> 0, units |-> n]

\* A Session Turn reserves, and is charged, one iteration.
OpVec(o, n) == [iterations |-> IF o \in Turns THEN 1 ELSE 0, units |-> n]

\* The sum of the usage receipts of a set of settled operations.
ReceiptSum(S) ==
  [iterations |-> Cardinality(S \cap Turns),
   units      |-> SumFunctionOnSet([o \in Ops |-> ops[o].receipt], S)]

\* What the claimed operations of the active iteration may still cost.
active_operation_reservations(skip) ==
  LET S == {o \in Ops \ {skip} :
              /\ ops[o].state \in {"Dispatching", "Acknowledged", "Reconciled", "Uncertain"}
              /\ ops[o].iteration = iteration}
  IN  [iterations |-> Cardinality(S \cap Turns),
       units      |-> SumFunctionOnSet([o \in Ops |-> ops[o].reservation], S)]

\* A measured usage that the claim's reservation and the budget cover.
allows_settlement(o, n) == n <= ops[o].reservation /\ within(OpVec(o, n), budget)

\* Fault: an admission forgets what was promised to children.
FitsIgnoresChildren(v) == v \in Vec /\ within(plus(usage, v), budget)

\* with_reservations against the budget; amounts are unsigned.
Fits(v) == v \in Vec /\ within(plus(plus(usage, child_reserved), v), budget)

-----------------------------------------------------------------------------
(* Residency *)

\* Fault: the wake intent outlives the activation.
FenceKeepsWake ==
  /\ epoch' = IF lease # 0 THEN epoch + 1 ELSE epoch
  /\ epoch' <= MaxEpoch
  /\ lease' = 0
  /\ wake' = wake

\* fence_activation: the epoch moves only when a lease is dropped.
fence_activation ==
  /\ epoch' = IF lease # 0 THEN epoch + 1 ELSE epoch
  /\ epoch' <= MaxEpoch
  /\ lease' = 0
  /\ wake' = {}

request_wake(deadline) ==
  /\ status = "Active"
  /\ wake' = wake \cup {"reason"} \cup (IF deadline THEN {"deadline"} ELSE {})
  /\ UNCHANGED <<lifecycle, epoch, lease, work, ops, kids, money, dispatched,
                 answered, will>>

\* A lease that is over at the caller's instant is taken over.  A deadline
\* alone suffices when it is due; it is dropped in either case.
claim_activation ==
  /\ status = "Active"
  /\ wake # {} \/ lease # 0
  /\ epoch < MaxEpoch
  /\ epoch' = epoch + 1
  /\ lease' = epoch + 1
  /\ wake' = {}
  /\ UNCHANGED <<lifecycle, work, ops, kids, money, dispatched, answered, will>>

\* renew_activation moves the expiry only and is a stuttering step here.
release_activation ==
  /\ lease # 0
  /\ lease' = 0
  /\ UNCHANGED <<lifecycle, epoch, wake, work, ops, kids, money, dispatched, history>>

-----------------------------------------------------------------------------
(* Recovery *)

\* Fault: recovery forgets the status it interrupts.
SavePriorNever == prior' = prior

\* Fault: recovery saves Active as well.
SavePriorActive == prior' = IF prior # "None" THEN prior ELSE status

\* The status that recovery will restore is kept the first time only.
SavePrior ==
  prior' = IF status \in {"Active", "RecoveryRequired"} \/ prior # "None"
           THEN prior ELSE status

begin_recovery ==
  /\ status # "Tombstoned"
  /\ status \in Terminal => has_unsettled_work
  /\ epoch < MaxEpoch
  /\ SavePrior
  /\ epoch' = epoch + 1
  /\ lease' = 0
  /\ wake' = {}
  /\ status' = "RecoveryRequired"
  /\ stage' = "Recovering"
  /\ ops' = [o \in Ops |-> IF ops[o].state = "Dispatching"
                           THEN [ops[o] EXCEPT !.state = "Uncertain"] ELSE ops[o]]
  /\ UNCHANGED <<work, kids, money, dispatched, history>>

\* Fault: the stage is left as it was.
EnterRecoveryKeepsStage ==
  /\ SavePrior
  /\ status' = "RecoveryRequired"
  /\ stage' = stage
  /\ fence_activation

\* enter_recovery, the fence an acknowledgement raises.
enter_recovery ==
  /\ SavePrior
  /\ status' = "RecoveryRequired"
  /\ stage' = "Recovering"
  /\ fence_activation

\* The three decisions of reconcile_effect about an uncertain operation.
Reconcilable(o) == status = "RecoveryRequired" /\ ops[o].state = "Uncertain"

reconcile_applied(o, used) ==
  /\ Reconcilable(o)
  /\ allows_settlement(o, used)
  /\ ops' = [ops EXCEPT ![o] = [ops[o] EXCEPT
               !.attempt = 0, !.epoch = 0, !.receipt = used,
               !.settled = TRUE, !.state = "Reconciled"]]
  /\ UNCHANGED <<lifecycle, residency, work, kids, money, dispatched, history>>

\* Evidence that the effect was applied cannot be overruled.
reconcile_not_applied(o) ==
  /\ Reconcilable(o)
  /\ ops[o].receipt = None
  /\ ops' = [ops EXCEPT ![o] = [ops[o] EXCEPT
               !.attempt = 0, !.epoch = 0, !.state = "Abandoned"]]
  /\ UNCHANGED <<lifecycle, residency, work, kids, money, dispatched, history>>

reconcile_unknown(o) ==
  /\ Reconcilable(o)
  /\ ops' = [ops EXCEPT ![o] = [ops[o] EXCEPT !.attempt = 0, !.epoch = 0]]
  /\ UNCHANGED <<lifecycle, residency, work, kids, money, dispatched, history>>

\* Fault: what the Host reconciled is taken for undone.
AppliedOpsAcknowledged ==
  {o \in Ops : ops[o].iteration = iteration /\ ops[o].state = "Acknowledged"}

\* The operations of the active iteration whose effect is known to have happened.
AppliedOps ==
  {o \in Ops : ops[o].iteration = iteration
               /\ ops[o].state \in {"Acknowledged", "Reconciled"}}

\* An active iteration is abandoned: what was applied in it is charged, as one
\* iteration (with its agent calls, which are not modelled), and what was not
\* dispatched is given up.
AbandonIteration ==
  IF iteration = 0 THEN UNCHANGED <<iteration, last, ops, usage>>
  ELSE LET cost == ReceiptSum(AppliedOps) IN
       /\ \A o \in AppliedOps : allows_settlement(o, ops[o].receipt)
       /\ AppliedOps # {} => cost.iterations = 1 /\ Fits(cost)
       /\ usage' = IF AppliedOps = {} THEN usage ELSE plus(usage, cost)
       /\ ops' = [o \in Ops |->
            IF ops[o].iteration = iteration
               /\ ops[o].state \in {"Prepared", "FailedRetryable"}
            THEN [ops[o] EXCEPT !.state = "Abandoned", !.attempt = 0,
                                !.epoch = 0, !.settled = FALSE]
            ELSE ops[o]]
       /\ \A o \in Ops : ops'[o].state \in SettledOps
       /\ iteration' = 0
       /\ last' = "abandoned"

finish_recovery(resume) ==
  /\ status = "RecoveryRequired" /\ stage = "Recovering"
  /\ \A o \in Ops : ops[o].state \notin {"Dispatching", "Uncertain"}
  /\ live_children = {}
  /\ AbandonIteration
  /\ status' = IF prior # "None" THEN prior
               ELSE IF resume THEN "Active" ELSE "UserPaused"
  /\ prior' = "None"
  /\ stage' = "Idle"
  /\ UNCHANGED <<residency, next_iteration, kids, child_reserved, budget,
                 dispatched, history>>

-----------------------------------------------------------------------------
(* Iterations *)

begin_iteration ==
  /\ status = "Active" /\ iteration = 0
  /\ Fits([iterations |-> 1, units |-> 0])
  /\ next_iteration <= MaxIteration
  /\ iteration' = next_iteration
  /\ next_iteration' = next_iteration + 1
  /\ stage' = "Executing"
  /\ UNCHANGED <<status, prior, residency, last, ops, kids, money, dispatched, history>>

IterationOps == {o \in Ops : ops[o].state # "Absent" /\ ops[o].iteration = iteration}

\* The usage of a result: with Session Turns it must be the sum of their
\* receipts, without one it is what the driver reports.
ResultUsage(u) ==
  IterationOps \cap Turns # {} =>
     u = ReceiptSum(IterationOps \cap Turns)

\* The driver presents the current epoch, which repeating begin_iteration
\* returns; a result of an earlier epoch is refused.
finish_iteration(units, accepted) ==
  /\ status = "Active" /\ iteration # 0
  /\ \A o \in IterationOps : ops[o].state \in {"Acknowledged", "Reconciled"}
  /\ ResultUsage([iterations |-> 1, units |-> units])
  /\ Fits([iterations |-> 1, units |-> units])
  /\ usage' = plus(usage, [iterations |-> 1, units |-> units])
  /\ iteration' = 0
  /\ last' = IF accepted THEN "accepted" ELSE "refused"
  /\ \/ accepted /\ stage' = "Verifying"
     \/ ~accepted /\ stage' \in {"Verifying", "Refining"}   \* Achieved, but a gate failed
  /\ UNCHANGED <<status, prior, residency, next_iteration, ops, kids,
                 child_reserved, budget, dispatched, history>>

-----------------------------------------------------------------------------
(* Effects *)

prepare_operation(o) ==
  /\ status = "Active" /\ iteration # 0
  /\ ops[o].state = "Absent"
  /\ ops' = [ops EXCEPT ![o] = [NoOperation EXCEPT !.state = "Prepared",
                                                   !.iteration = iteration]]
  /\ UNCHANGED <<lifecycle, residency, work, kids, money, dispatched, history>>

\* A non-repeatable effect has one attempt.
MayAttempt(o) == ClassOf[o] = "NonRepeatable" => ops[o].next_attempt = 1

\* claim_effect, by the lease holder if there is one.  The claim reaches its
\* executor, or is lost with the process that committed it.  The repetition of a
\* committed claim is answered with the same effect and is no step.
claim_effect(o, units) ==
  LET e == [op |-> o, attempt |-> ops[o].next_attempt, epoch |-> epoch] IN
  /\ status = "Active"
  /\ iteration # 0 /\ ops[o].iteration = iteration
  /\ ops[o].state \in {"Prepared", "FailedRetryable"}
  /\ MayAttempt(o)
  /\ OpVec(o, units) # UnitsVec(0)
  /\ Fits(plus(active_operation_reservations(o), OpVec(o, units)))
  /\ ops[o].next_attempt <= MaxAttempt
  /\ ops' = [ops EXCEPT ![o] = [ops[o] EXCEPT
               !.next_attempt = @ + 1, !.attempt = e.attempt, !.epoch = epoch,
               !.settled = FALSE, !.reservation = units, !.state = "Dispatching"]]
  /\ dispatched' \in {dispatched, dispatched \cup {e}}
  /\ UNCHANGED <<lifecycle, residency, work, kids, money, history>>

\* Fault: the recorded result of the attempt is not looked at.
CallbackIgnoresResult(e) ==
  /\ epoch = e.epoch
  /\ ops[e.op].attempt = e.attempt
  /\ ops[e.op].epoch = e.epoch

\* The callback presents the attempt the operation is waiting for.
CallbackIsCurrent(e) ==
  /\ epoch = e.epoch
  /\ ops[e.op].attempt = e.attempt
  /\ ops[e.op].epoch = e.epoch
  /\ ~ops[e.op].settled

Answer(e, outcome) == answered' = answered \cup {<<e, outcome>>}

\* Applied, with a usage that the reservation and the budget cover.
acknowledge_applied(e, used) ==
  /\ CallbackIsCurrent(e)
  /\ allows_settlement(e.op, used)
  /\ ops' = [ops EXCEPT ![e.op] = [ops[e.op] EXCEPT
               !.receipt = used, !.settled = TRUE, !.state = "Acknowledged"]]
  /\ Answer(e, "Applied")
  /\ UNCHANGED <<lifecycle, residency, work, kids, money, dispatched, will>>

\* Applied without a usage that can be settled.
acknowledge_unusable(e) ==
  /\ CallbackIsCurrent(e)
  /\ ops' = [ops EXCEPT ![e.op] = [ops[e.op] EXCEPT
               !.receipt = Unusable, !.settled = TRUE, !.state = "Uncertain"]]
  /\ enter_recovery
  /\ Answer(e, "Applied")
  /\ UNCHANGED <<work, kids, money, dispatched, will>>

\* The executor vouches that nothing happened.
acknowledge_failed(e) ==
  /\ CallbackIsCurrent(e)
  /\ IF ClassOf[e.op] = "NonRepeatable"
     THEN /\ ops' = [ops EXCEPT ![e.op] = [ops[e.op] EXCEPT
                        !.settled = TRUE, !.state = "Uncertain"]]
          /\ enter_recovery
     ELSE /\ ops' = [ops EXCEPT ![e.op] = [ops[e.op] EXCEPT
                        !.settled = TRUE, !.state = "FailedRetryable"]]
          /\ UNCHANGED <<lifecycle, residency>>
  /\ Answer(e, "FailedRetryable")
  /\ UNCHANGED <<work, kids, money, dispatched, will>>

\* Fault: an effect that can be looked up is taken for one that can be redone.
MayReplayReconcilable(o) == ClassOf[o] # "NonRepeatable"

\* Doing the effect twice is harmless.
MayReplay(o) == ClassOf[o] \in {"Replayable", "Idempotent"}

acknowledge_unknown(e) ==
  /\ CallbackIsCurrent(e)
  /\ IF MayReplay(e.op)
     THEN /\ ops' = [ops EXCEPT ![e.op] = [ops[e.op] EXCEPT
                        !.settled = TRUE, !.state = "Prepared"]]
          /\ UNCHANGED <<lifecycle, residency>>
     ELSE /\ ops' = [ops EXCEPT ![e.op] = [ops[e.op] EXCEPT
                        !.settled = TRUE, !.state = "Uncertain"]]
          /\ enter_recovery
  /\ Answer(e, "Unknown")
  /\ UNCHANGED <<work, kids, money, dispatched, will>>

-----------------------------------------------------------------------------
(* Children *)

\* The admission looks at settled usage and at the other children only.
admit_child(k, units) ==
  /\ status = "Active" /\ iteration # 0
  /\ kids[k].state = "Absent"
  /\ Fits(UnitsVec(units))
  /\ kids' = [kids EXCEPT ![k] = [NoChild EXCEPT !.state = "Admitted",
                                                !.reservation = units]]
  /\ child_reserved' = plus(child_reserved, UnitsVec(units))
  /\ UNCHANGED <<lifecycle, residency, work, ops, usage, budget, dispatched, history>>

\* A child's callback presents the current epoch; a stale one is refused.
child_started(k) ==
  /\ kids[k].state = "Admitted"
  /\ kids' = [kids EXCEPT ![k] = [kids[k] EXCEPT !.state = "Started"]]
  /\ UNCHANGED <<lifecycle, residency, work, ops, money, dispatched, history>>

\* Fault: the reservation of a settled child is never given back.
SettledReserveKept(k) == child_reserved

\* The reservation is given back and the settlement charged in its place.
SettledReserve(k) == minus(child_reserved, UnitsVec(kids[k].reservation))

child_settled(k, outcome, used) ==
  LET remaining == SettledReserve(k)
      total     == plus(usage, UnitsVec(used)) IN
  /\ k \in live_children
  /\ used <= kids[k].reservation
  /\ within(UnitsVec(kids[k].reservation), child_reserved)
  /\ within(plus(total, remaining), budget)
  /\ kids' = [kids EXCEPT ![k] = [kids[k] EXCEPT !.state = outcome, !.settlement = used]]
  /\ child_reserved' = remaining
  /\ usage' = total
  /\ UNCHANGED <<lifecycle, residency, work, ops, budget, dispatched, history>>

-----------------------------------------------------------------------------
(* Host control: apply_control *)

Pause ==
  /\ status = "Active"
  /\ status' = "UserPaused"
  /\ fence_activation
  /\ will' = "pause"
  /\ UNCHANGED <<stage, prior, work, ops, kids, money, dispatched, answered>>

PauseFor(wait) ==
  /\ status = "Active" /\ iteration = 0
  /\ status' = wait
  /\ fence_activation
  /\ will' = "pause"
  /\ UNCHANGED <<stage, prior, work, ops, kids, money, dispatched, answered>>

\* With a budget that covers the old one, or with the old one.
Resume(b) ==
  /\ status \in Waits
  /\ within(budget, b)
  /\ within(plus(usage, child_reserved), b)
  /\ budget' = b
  /\ status' = "Active"
  /\ will' = "run"
  /\ UNCHANGED <<stage, prior, residency, work, ops, kids, usage, child_reserved,
                 dispatched, answered>>

\* Work that is not settled stays, and so does the saved prior status.
Cancel ==
  /\ status \notin Terminal
  /\ status' = "Cancelled" /\ stage' = "Idle"
  /\ fence_activation
  /\ will' = "cancel"
  /\ UNCHANGED <<prior, work, ops, kids, money, dispatched, answered>>

ChildAllowsCompletion(k) ==
  /\ PolicyOf[k] = "MustSucceed" => kids[k].state \in {"Absent", "Completed"}
  /\ PolicyOf[k] = "MayFail" => kids[k].state \in ChildTerminal

\* Fault: completion does not look at the verdict.
CompletionIgnoresVerdict ==
  /\ status = "Active" /\ iteration = 0
  /\ last # "none"
  /\ ~has_unsettled_operations
  /\ \A k \in Kids : ChildAllowsCompletion(k)
  /\ within(usage, budget)

validate_completion ==
  /\ status = "Active" /\ iteration = 0
  /\ last = "accepted"
  /\ ~has_unsettled_operations
  /\ \A k \in Kids : ChildAllowsCompletion(k)
  /\ within(usage, budget)

TryComplete ==
  /\ validate_completion
  /\ status' = "Complete" /\ stage' = "Idle"
  /\ fence_activation
  /\ UNCHANGED <<prior, work, ops, kids, money, dispatched, answered, will>>

\* Fault: a Run is deleted while work of it is unsettled.
TombstoneUnsettled ==
  /\ status \in Terminal \ {"Tombstoned"}
  /\ status' = "Tombstoned" /\ stage' = "Idle"
  /\ UNCHANGED <<prior, residency, work, ops, kids, money, dispatched, history>>

Tombstone ==
  /\ status \in Terminal \ {"Tombstoned"}
  /\ ~has_unsettled_work
  /\ status' = "Tombstoned" /\ stage' = "Idle"
  /\ UNCHANGED <<prior, residency, work, ops, kids, money, dispatched, history>>

-----------------------------------------------------------------------------
(* The specification *)

\* create_run
Init ==
  /\ status = "Active" /\ stage = "Idle" /\ prior = "None"
  /\ epoch = 1 /\ lease = 0 /\ wake = {}
  /\ iteration = 0 /\ next_iteration = 1 /\ last = "none"
  /\ ops = [o \in Ops |-> NoOperation]
  /\ kids = [k \in Kids |-> NoChild]
  /\ usage = UnitsVec(0) /\ child_reserved = UnitsVec(0) /\ budget \in Budgets
  /\ dispatched = {} /\ answered = {} /\ will = "run"

Activate == (\E d \in BOOLEAN : request_wake(d)) \/ claim_activation \/ release_activation
Reconcile ==
  \E o \in Ops : \/ \E n \in Units : reconcile_applied(o, n)
                 \/ reconcile_not_applied(o)
                 \/ reconcile_unknown(o)
Recover == begin_recovery \/ (\E r \in BOOLEAN : finish_recovery(r))
FinishIteration == \E n \in Units, a \in BOOLEAN : finish_iteration(n, a)
ClaimEffect == \E o \in Ops, n \in Units : claim_effect(o, n)
Acknowledge ==
  \E e \in dispatched :
    \/ \E n \in Units : acknowledge_applied(e, n)
    \/ acknowledge_unusable(e)
    \/ acknowledge_failed(e)
    \/ acknowledge_unknown(e)
ChildCallback ==
  \E k \in Kids : \/ child_started(k)
                  \/ \E s \in {"Completed", "Failed"}, n \in Units : child_settled(k, s, n)
Control == \/ Pause \/ Cancel \/ TryComplete \/ Tombstone
           \/ \E w \in Waits : PauseFor(w)
           \/ \E b \in Budgets : Resume(b)

Next == \/ Activate \/ Recover \/ Reconcile
        \/ begin_iteration \/ FinishIteration
        \/ (\E o \in Ops : prepare_operation(o)) \/ ClaimEffect \/ Acknowledge
        \/ (\E k \in Kids, n \in Units : admit_child(k, n)) \/ ChildCallback
        \/ Control

Spec == Init /\ [][Next]_vars

\* A Host that recovers a Run settles every uncertain effect and every child,
\* and finishes the recovery once it may.
HostSettles ==
  /\ \A o \in Ops : WF_vars((\E n \in Units : reconcile_applied(o, n))
                            \/ reconcile_not_applied(o))
  /\ \A k \in Kids : WF_vars(\E s \in {"Completed", "Failed"}, n \in Units :
                               child_settled(k, s, n))
  /\ WF_vars(\E r \in BOOLEAN : finish_recovery(r))

FairSpec == Spec /\ HostSettles

-----------------------------------------------------------------------------
(* Properties *)

\* The record and the history are well formed.
TypeOK ==
  /\ status \in Status /\ stage \in Stage
  /\ prior \in {"None"} \cup (Status \ {"Active", "RecoveryRequired"})
  /\ epoch \in 1 .. MaxEpoch /\ lease \in 0 .. MaxEpoch
  /\ wake \subseteq {"reason", "deadline"}
  /\ iteration \in Nat /\ next_iteration \in Nat \ {0}
  /\ last \in {"none", "accepted", "refused", "abandoned"}
  /\ ops \in [Ops -> Operation] /\ kids \in [Kids -> Child]
  /\ usage \in Vec /\ child_reserved \in Vec /\ budget \in Budgets
  /\ dispatched \subseteq Effect
  /\ answered \subseteq Effect \X {"Applied", "FailedRetryable", "Unknown"}
  /\ will \in {"run", "pause", "cancel"}

\* RunEnvelope::validate on the residency of the record.
ResidencyValid ==
  /\ lease # 0 => status = "Active" /\ lease = epoch
  /\ status # "Active" => wake = {}

\* RunEnvelope::validate on one operation of the record.
OperationValid(o) ==
  LET op == ops[o] IN
  /\ op.state \in {"Dispatching", "Acknowledged", "Reconciled", "Uncertain"}
       => op.reservation # None
  /\ op.reservation # None => OpVec(o, op.reservation) # UnitsVec(0)
  /\ op.state = "Abandoned" => op.receipt = None
  /\ op.state # "Uncertain" => op.receipt # Unusable
  /\ op.state \in {"Acknowledged", "Reconciled"}
       => op.receipt \in Units /\ allows_settlement(o, op.receipt)
  /\ op.state = "Acknowledged" => op.attempt # 0 /\ op.settled
  /\ op.state \in {"Prepared", "Dispatching", "FailedRetryable", "Uncertain"}
       => iteration # 0 /\ op.iteration = iteration

\* commit validates the successor and refuses it, after the fact it records
\* has happened, when it is not valid.  No handler ever builds such a record.
ValidateNeverRefuses == ResidencyValid /\ \A o \in Ops : OperationValid(o)

\* The executor answered, before o was claimed again, that attempt a of it did
\* nothing.
Disclaimed(e) == <<e, "FailedRetryable">> \in answered

\* claim_effect: of an effect that may not be replayed, an attempt reaches an
\* executor only when every attempt that reached one before was answered
\* "nothing happened"; a non-repeatable one reaches an executor once.
NeverBlindlyRepeated ==
  \A e, f \in dispatched :
    /\ e.op = f.op /\ e # f
    /\ ClassOf[e.op] \in {"Reconcilable", "NonRepeatable"}
    => ClassOf[e.op] = "Reconcilable" /\ (Disclaimed(e) \/ Disclaimed(f))

\* What was spent and what is promised to children stays in the budget.
BudgetRespected == within(plus(usage, child_reserved), budget)

\* child_reserved is what the children that still run were promised, so that
\* settling one never underflows it.
ReservedIsLive ==
  child_reserved = UnitsVec(SumFunctionOnSet([k \in Kids |-> kids[k].reservation], live_children))

\* The usage of every Session Turn that settled in an iteration that is over,
\* finished or abandoned, and of every child that settled, was charged.
TurnUsageRecorded ==
  LET settled == {o \in Turns : ops[o].state \in {"Acknowledged", "Reconciled"}
                               /\ ops[o].iteration # iteration}
  IN  usage.units >= ReceiptSum(settled).units
                     + SumFunctionOnSet([k \in Kids |-> kids[k].settlement], Kids)

\* A Run that completed, also one whose detached children put it back into
\* recovery, ended in an accepted iteration and nothing of it is open.
CompleteOnlyIfAccepted ==
  "Complete" \in {status, prior} =>
    /\ last = "accepted" /\ iteration = 0
    /\ ~has_unsettled_operations
    /\ \A k \in Kids : PolicyOf[k] = "MustSucceed" => kids[k].state \in {"Absent", "Completed"}

\* A pause, or a wait, holds until a Resume: recovery restores it.
PauseSurvivesRecovery == will = "pause" => status # "Active"

\* An outcome that was acknowledged or reconciled is never revised.
SettledIsFinal ==
  [][\A o \in Ops : ops[o].state \in {"Acknowledged", "Reconciled"}
                     => ops'[o] = ops[o]]_vars

\* Everything is settled, and finish_recovery still refuses: what was applied in
\* the iteration it would abandon is not one iteration, or the budget, which only
\* Resume extends, does not cover it.  Cancel leads to another recovery of the same.
FencedForGood ==
  /\ status \in {"RecoveryRequired", "Cancelled"}
  /\ \A o \in Ops : ops[o].state \notin {"Dispatching", "Uncertain"}
  /\ live_children = {}
  /\ iteration # 0 /\ AppliedOps # {}
  /\ ReceiptSum(AppliedOps).iterations = 1 => ~Fits(ReceiptSum(AppliedOps))

\* Recovery whose claims were all handed over to the Host, and which the Host
\* supplies with all its evidence, ends, or it is fenced for ever, and the one
\* cause of that is a charge for the abandoned iteration that finish_recovery
\* refuses: no other evidence, child, stage or status keeps a Run in recovery.
RecoveryEnds ==
  (status = "RecoveryRequired" /\ \A o \in Ops : ops[o].state # "Dispatching")
    ~> (status # "RecoveryRequired" \/ []FencedForGood)

PhaseOf(s) == CASE s = "Active" -> "Active"
                [] s \in Waits -> "Waiting"
                [] s = "RecoveryRequired" -> "Recovering"
                [] s = "Tombstoned" -> "Tombstoned"
                [] OTHER -> "Terminal"

Lifecycle == INSTANCE RunLifecycle WITH phase <- PhaseOf(status), open <- has_unsettled_work

\* The reducer implements the lifecycle that RunController commits: after its end
\* a Run takes on no work, what is tombstoned was settled, and only recovery that
\* settled everything leaves the recovery phase upwards.
RefinesLifecycle == Lifecycle!LSpec

\* A cancelled Run stays cancelled, also through recovery.
CancelSurvivesRecovery ==
  will = "cancel" => status \in {"Cancelled", "RecoveryRequired", "Tombstoned"}
=============================================================================
