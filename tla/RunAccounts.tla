---------------------------- MODULE RunAccounts ----------------------------
(***************************************************************************)
(* The accounts of a Run add up: what is reserved is what the children     *)
(* that still run were promised, and what was used by every Turn and every *)
(* child that settled was charged.  Both are sums over sets of any size.   *)
(***************************************************************************)
EXTENDS RunProofs, FiniteSetTheorems

-----------------------------------------------------------------------------
(* Sums *)

\* Induction over the subsets of a finite set.  T is the set of those for which the
\* claim holds: a minimal counterexample of a set needs no predicate as a parameter.
LEMMA SubsetInduction ==
  ASSUME NEW S, IsFiniteSet(S), NEW T,
         \A A \in SUBSET S : (\A x \in A : A \ {x} \in T) => A \in T
  PROVE  S \in T
  <1> SUFFICES ASSUME S \notin T PROVE FALSE
    OBVIOUS
  <1> DEFINE U == {A \in SUBSET S : A \notin T}
  <1>1. IsWellFoundedOn(StrictSubsetOrdering(S), SUBSET S)
    <2>1. FiniteSubsetsOf(S) = SUBSET S
      BY FS_FiniteSubsetsOfFinite
    <2>2. IsWellFoundedOn(StrictSubsetOrdering(S), FiniteSubsetsOf(S))
      BY FS_StrictSubsetOrderingWellFounded
    <2> QED  BY <2>1, <2>2
  <1>2. PICK A \in U : \A B \in U : <<B, A>> \notin StrictSubsetOrdering(S)
    <2>1. U \subseteq SUBSET S /\ U # {}
      OBVIOUS
    <2> HIDE DEF U
    <2> QED  BY <1>1, <2>1, WFMin
  <1>3. ASSUME NEW x \in A PROVE A \ {x} \in T
    <2>1. <<A \ {x}, A>> \in StrictSubsetOrdering(S)
      BY <1>2 DEF StrictSubsetOrdering
    <2> QED  BY <1>2, <2>1
  <1> QED  BY <1>2, <1>3

\* As many pairs as the sum of f over S.
Pairs(f, S) == {p \in S \X Nat : 1 <= p[2] /\ p[2] <= f[p[1]]}

LEMMA PairsOfOne ==
  ASSUME NEW f, NEW x, f[x] \in Nat
  PROVE  IsFiniteSet(Pairs(f, {x})) /\ Cardinality(Pairs(f, {x})) = f[x]
  <1>1. Pairs(f, {x}) = {x} \X (1 .. f[x])
    <2>1. ASSUME NEW p \in Pairs(f, {x}) PROVE p \in {x} \X (1 .. f[x])
      BY DEF Pairs
    <2>2. ASSUME NEW p \in {x} \X (1 .. f[x]) PROVE p \in Pairs(f, {x})
      BY DEF Pairs
    <2> QED  BY <2>1, <2>2
  <1>2. IsFiniteSet({x}) /\ Cardinality({x}) = 1
    BY FS_Singleton
  <1>3. IsFiniteSet(1 .. f[x]) /\ Cardinality(1 .. f[x]) = f[x]
    BY FS_Interval
  <1>4. IsFiniteSet({x} \X (1 .. f[x])) /\ Cardinality({x} \X (1 .. f[x])) = 1 * f[x]
    BY <1>2, <1>3, FS_Product
  <1>5. 1 * f[x] = f[x]
    OBVIOUS
  <1> QED  BY <1>1, <1>4, <1>5

\* The pairs of disjoint sets are disjoint.
LEMMA PairsOfUnion ==
  ASSUME NEW f, NEW A, NEW B, A \cap B = {},
         IsFiniteSet(Pairs(f, A)), IsFiniteSet(Pairs(f, B))
  PROVE  /\ IsFiniteSet(Pairs(f, A \cup B))
         /\ Cardinality(Pairs(f, A \cup B)) = Cardinality(Pairs(f, A)) + Cardinality(Pairs(f, B))
  <1>1. Pairs(f, A \cup B) = Pairs(f, A) \cup Pairs(f, B)
    BY DEF Pairs
  <1>2. Pairs(f, A) \cap Pairs(f, B) = {}
    BY DEF Pairs
  <1>3. /\ IsFiniteSet(Pairs(f, A) \cup Pairs(f, B))
        /\ Cardinality(Pairs(f, A) \cup Pairs(f, B)) =
             Cardinality(Pairs(f, A)) + Cardinality(Pairs(f, B)) - Cardinality(Pairs(f, A) \cap Pairs(f, B))
    BY FS_Union
  <1>4. Cardinality(Pairs(f, A)) \in Nat /\ Cardinality(Pairs(f, B)) \in Nat
    BY FS_CardinalityType
  <1>5. Cardinality(Pairs(f, A) \cap Pairs(f, B)) = 0
    BY <1>2, FS_EmptySet
  <1>6. Cardinality(Pairs(f, A)) + Cardinality(Pairs(f, B)) - 0
          = Cardinality(Pairs(f, A)) + Cardinality(Pairs(f, B))
    BY <1>4
  <1> QED  BY <1>1, <1>3, <1>5, <1>6

LEMMA PairsFinite ==
  ASSUME NEW S, IsFiniteSet(S), NEW f, \A x \in S : f[x] \in Nat
  PROVE  IsFiniteSet(Pairs(f, S)) /\ Cardinality(Pairs(f, S)) \in Nat
  <1> DEFINE T == {A \in SUBSET S : IsFiniteSet(Pairs(f, A))}
  <1>1. ASSUME NEW A \in SUBSET S, \A x \in A : A \ {x} \in T
        PROVE  A \in T
    <2>1. CASE A = {}
      <3>1. Pairs(f, {}) = {}
        BY DEF Pairs
      <3> QED  BY <2>1, <3>1, FS_EmptySet
    <2>2. ASSUME NEW x \in A PROVE A \in T
      <3>1. IsFiniteSet(Pairs(f, A \ {x})) /\ IsFiniteSet(Pairs(f, {x}))
        BY <1>1, PairsOfOne
      <3>2. (A \ {x}) \cap {x} = {} /\ (A \ {x}) \cup {x} = A
        OBVIOUS
      <3>3. IsFiniteSet(Pairs(f, (A \ {x}) \cup {x}))
        BY <3>1, <3>2, PairsOfUnion
      <3> QED  BY <3>2, <3>3
    <2> QED  BY <2>1, <2>2
  <1>2. S \in T
    <2> HIDE DEF T
    <2> QED  BY <1>1, SubsetInduction
  <1> QED  BY <1>2, FS_CardinalityType

\* The fold that SumFunctionOnSet takes from the community modules counts them.
LEMMA SumIsCount ==
  ASSUME NEW S, IsFiniteSet(S), NEW f, \A x \in S : f[x] \in Nat
  PROVE  SumFunctionOnSet(f, S) = Cardinality(Pairs(f, S))
  <1> DEFINE pick(s) == CHOOSE x \in s : TRUE
             Folds(g) == g = [s \in SUBSET S |-> IF s = {} THEN 0 ELSE f[pick(s)] + g[s \ {pick(s)}]]
             count == [s \in SUBSET S |-> Cardinality(Pairs(f, s))]
  <1>1. ASSUME NEW s \in SUBSET S, s # {}
        PROVE  /\ pick(s) \in s
               /\ Cardinality(Pairs(f, s)) = f[pick(s)] + Cardinality(Pairs(f, s \ {pick(s)}))
    <2>1. pick(s) \in s
      BY <1>1
    <2> DEFINE x == pick(s)
    <2> HIDE DEF pick
    <2>2. IsFiniteSet(s \ {x})
      BY FS_Subset
    <2>3. IsFiniteSet(Pairs(f, s \ {x})) /\ Cardinality(Pairs(f, s \ {x})) \in Nat
      BY <2>2, PairsFinite
    <2>4. f[x] \in Nat /\ IsFiniteSet(Pairs(f, {x})) /\ Cardinality(Pairs(f, {x})) = f[x]
      BY <2>1, PairsOfOne
    <2>5. (s \ {x}) \cup {x} = s /\ (s \ {x}) \cap {x} = {}
      BY <2>1
    <2>6. Cardinality(Pairs(f, (s \ {x}) \cup {x}))
            = Cardinality(Pairs(f, s \ {x})) + Cardinality(Pairs(f, {x}))
      BY <2>3, <2>4, <2>5, PairsOfUnion
    <2>7. Cardinality(Pairs(f, s)) = Cardinality(Pairs(f, s \ {x})) + f[x]
      BY <2>4, <2>5, <2>6
    <2>8. Cardinality(Pairs(f, s)) = f[x] + Cardinality(Pairs(f, s \ {x}))
      BY <2>3, <2>4, <2>7
    <2> QED  BY <2>1, <2>8
  <1>2. Cardinality(Pairs(f, {})) = 0
    <2>1. Pairs(f, {}) = {}
      BY DEF Pairs
    <2> QED  BY <2>1, FS_EmptySet
  <1>3. Folds(count)
    <2> HIDE DEF pick
    <2>1. ASSUME NEW s \in SUBSET S
          PROVE  count[s] = IF s = {} THEN 0 ELSE f[pick(s)] + count[s \ {pick(s)}]
      BY <1>1, <1>2
    <2> QED  BY <2>1
  <1>4. ASSUME NEW g, Folds(g) PROVE g[S] = count[S]
    <2> HIDE DEF pick, count
    <2> DEFINE T == {A \in SUBSET S : g[A] = count[A]}
    <2>1. ASSUME NEW A \in SUBSET S, \A x \in A : A \ {x} \in T
          PROVE  A \in T
      <3>1. A # {} => pick(A) \in A
        BY <1>1
      <3> QED  BY <1>3, <1>4, <2>1, <3>1
    <2>2. S \in T
      <3> HIDE DEF T
      <3> QED  BY <2>1, SubsetInduction
    <2> QED  BY <2>2
  <1>5. SumFunctionOnSet(f, S) = (CHOOSE g : Folds(g))[S]
    BY DEF SumFunctionOnSet, FoldFunctionOnSet, MapThenFoldSet
  <1>6. Folds(CHOOSE g : Folds(g))
    <2> HIDE DEF Folds
    <2> QED  BY <1>3
  <1> HIDE DEF Folds
  <1>7. (CHOOSE g : Folds(g))[S] = count[S]
    BY <1>4, <1>6
  <1> QED  BY <1>5, <1>7

LEMMA SumOfOne ==
  ASSUME NEW f, NEW x, f[x] \in Nat
  PROVE  SumFunctionOnSet(f, {x}) = f[x]
  <1>1. IsFiniteSet({x})
    BY FS_Singleton
  <1> QED  BY <1>1, SumIsCount, PairsOfOne

LEMMA SumOfNone ==
  ASSUME NEW f
  PROVE  SumFunctionOnSet(f, {}) = 0
  <1>1. Pairs(f, {}) = {}
    BY DEF Pairs
  <1>2. SumFunctionOnSet(f, {}) = Cardinality(Pairs(f, {}))
    BY SumIsCount, FS_EmptySet
  <1> QED  BY <1>1, <1>2, FS_EmptySet

LEMMA SumIsNat ==
  ASSUME NEW S, IsFiniteSet(S), NEW f, \A x \in S : f[x] \in Nat
  PROVE  SumFunctionOnSet(f, S) \in Nat
  BY SumIsCount, PairsFinite

LEMMA SumOfUnion ==
  ASSUME NEW A, IsFiniteSet(A), NEW B, IsFiniteSet(B), A \cap B = {},
         NEW f, \A x \in A \cup B : f[x] \in Nat
  PROVE  SumFunctionOnSet(f, A \cup B) = SumFunctionOnSet(f, A) + SumFunctionOnSet(f, B)
  <1>1. IsFiniteSet(A \cup B)
    BY FS_Union
  <1>2. IsFiniteSet(Pairs(f, A)) /\ IsFiniteSet(Pairs(f, B))
    BY PairsFinite
  <1>3. Cardinality(Pairs(f, A \cup B)) = Cardinality(Pairs(f, A)) + Cardinality(Pairs(f, B))
    BY <1>2, PairsOfUnion
  <1>4. /\ SumFunctionOnSet(f, A \cup B) = Cardinality(Pairs(f, A \cup B))
        /\ SumFunctionOnSet(f, A) = Cardinality(Pairs(f, A))
        /\ SumFunctionOnSet(f, B) = Cardinality(Pairs(f, B))
    BY <1>1, SumIsCount
  <1> QED  BY <1>3, <1>4

LEMMA SumsAgree ==
  ASSUME NEW S, IsFiniteSet(S), NEW f, NEW g, \A x \in S : f[x] \in Nat /\ g[x] = f[x]
  PROVE  SumFunctionOnSet(f, S) = SumFunctionOnSet(g, S)
  <1>1. Pairs(f, S) = Pairs(g, S)
    BY DEF Pairs
  <1> QED  BY <1>1, SumIsCount

-----------------------------------------------------------------------------
(* The inductive invariant *)

USE ConstantsAssumption DEF None, Unusable, Vec

Receipts == [o \in Ops |-> ops[o].receipt]
Reservations == [k \in Kids |-> kids[k].reservation]
Settlements == [k \in Kids |-> kids[k].settlement]

\* An operation that was prepared belongs to an iteration that was begun.
IterationsInv ==
  /\ iteration < next_iteration
  /\ \A o \in Ops : ops[o].state # "Absent" => ops[o].iteration \in 1 .. next_iteration - 1

\* A child has used nothing until it settles.
SettlementsInv ==
  \A k \in Kids : kids[k].state \notin {"Completed", "Failed"} => kids[k].settlement = 0

AccountInv == IterationsInv /\ SettlementsInv /\ ReservedIsLive /\ TurnUsageRecorded

\* The Turns that settled in iterations that are over.
SettledTurns ==
  {o \in Turns : ops[o].state \in {"Acknowledged", "Reconciled"} /\ ops[o].iteration # iteration}

Charged == SumFunctionOnSet(Receipts, SettledTurns) + SumFunctionOnSet(Settlements, Kids)

LEMMA UsageIsCharged == TurnUsageRecorded <=> usage.units >= Charged
  BY DEF TurnUsageRecorded, Charged, SettledTurns, Receipts, Settlements, ReceiptSum

\* The sets that are summed over are finite and the amounts are naturals.
AmountsFinite ==
  /\ IsFiniteSet(Turns) /\ IsFiniteSet(live_children) /\ IsFiniteSet(Kids)
  /\ \A k \in Kids : Reservations[k] \in Nat /\ Settlements[k] \in Nat
  /\ \A o \in Ops : ops[o].state \in {"Acknowledged", "Reconciled"} => Receipts[o] \in Nat

LEMMA Amounts == Inv => AmountsFinite
  <1> SUFFICES ASSUME Inv PROVE AmountsFinite
    OBVIOUS
  <1>1. IsFiniteSet(Turns) /\ IsFiniteSet(live_children) /\ IsFiniteSet(Kids)
    <2>1. Turns \in SUBSET Ops /\ live_children \in SUBSET Kids
      BY DEF live_children
    <2> QED  BY <2>1, FS_Subset
  <1>2. \A k \in Kids : Reservations[k] \in Nat /\ Settlements[k] \in Nat
    BY DEF Inv, TypeOK, Child, Reservations, Settlements
  <1>3. ASSUME NEW o \in Ops, ops[o].state \in {"Acknowledged", "Reconciled"}
        PROVE  Receipts[o] \in Nat
    <2>1. OperationValid(o)
      BY DEF Inv, OperationInv
    <2>2. ops[o].receipt \in Units
      BY <1>3, <2>1 DEF OperationValid
    <2> QED  BY <2>2 DEF Receipts
  <1> QED  BY <1>1, <1>2, <1>3 DEF AmountsFinite

LEMMA AmountsNext == Inv' => AmountsFinite'
  BY Amounts, PTL

-----------------------------------------------------------------------------
(* Iterations and children *)

\* Only prepare_operation gives an operation an iteration.
LEMMA OperationKeepsIteration ==
  ASSUME Inv, [Next]_vars, NEW o \in Ops, ops'[o].state # "Absent"
  PROVE  \/ prepare_operation(o) /\ ops'[o].iteration = iteration
         \/ ops[o].state # "Absent" /\ ops'[o].iteration = ops[o].iteration
  <1> DEFINE Kept == ops[o].state # "Absent" /\ ops'[o].iteration = ops[o].iteration
  <1>0. ops \in [Ops -> Operation] /\ ops[o] \in Operation
    BY DEF Inv, TypeOK
  <1>1. CASE ops'[o] = ops[o]
    BY <1>1
  <1>2. CASE begin_recovery
    BY <1>0, <1>2 DEF begin_recovery, Operation
  <1>3. ASSUME NEW r \in BOOLEAN, finish_recovery(r) PROVE Kept
    <2>1. \/ ops'[o] = ops[o]
          \/ /\ ops'[o] = [ops[o] EXCEPT !.state = "Abandoned", !.attempt = 0,
                                         !.epoch = 0, !.settled = FALSE]
             /\ ops[o].state \in {"Prepared", "FailedRetryable"}
      BY <1>3 DEF finish_recovery, AbandonIteration
    <2> QED  BY <1>0, <1>1, <2>1 DEF Operation
  <1>4. ASSUME NEW x \in Ops,
               \/ \E n \in Units : reconcile_applied(x, n)
               \/ reconcile_not_applied(x) \/ reconcile_unknown(x)
        PROVE  Kept
    <2>1. CASE x = o
      <3>1. /\ ops[o].state = "Uncertain"
            /\ \/ \E n \in Units : ops'[o] = [ops[o] EXCEPT !.attempt = 0, !.epoch = 0,
                                     !.receipt = n, !.settled = TRUE, !.state = "Reconciled"]
               \/ ops'[o] = [ops[o] EXCEPT !.attempt = 0, !.epoch = 0, !.state = "Abandoned"]
               \/ ops'[o] = [ops[o] EXCEPT !.attempt = 0, !.epoch = 0]
        BY <1>0, <1>4, <2>1 DEF reconcile_applied, reconcile_not_applied, reconcile_unknown,
           Reconcilable
      <3> QED  BY <1>0, <3>1 DEF Operation
    <2>2. CASE x # o
      BY <1>0, <1>4, <1>1, <2>2 DEF reconcile_applied, reconcile_not_applied, reconcile_unknown
    <2> QED  BY <2>1, <2>2
  <1>5. ASSUME NEW x \in Ops, prepare_operation(x)
        PROVE  (prepare_operation(o) /\ ops'[o].iteration = iteration) \/ Kept
    BY <1>0, <1>1, <1>5 DEF prepare_operation, NoOperation
  <1>6. ASSUME NEW x \in Ops, NEW n \in Units, claim_effect(x, n) PROVE Kept
    BY <1>0, <1>1, <1>6 DEF claim_effect, Operation
  <1>7. ASSUME NEW e \in dispatched,
               \/ \E n \in Units : acknowledge_applied(e, n)
               \/ acknowledge_unusable(e) \/ acknowledge_failed(e) \/ acknowledge_unknown(e)
        PROVE  Kept
    <2>1. CallbackIsCurrent(e) /\ e.op \in Ops
      BY <1>7 DEF acknowledge_applied, acknowledge_unusable, acknowledge_failed,
         acknowledge_unknown, Inv, TypeOK, Effect
    <2>2. ops[e.op].state = "Dispatching"
      BY <2>1, CurrentIsDispatching DEF Inv
    <2>3. CASE e.op = o
      <3>1. \/ \E n \in Units : ops'[o] = [ops[o] EXCEPT !.receipt = n, !.settled = TRUE,
                                                         !.state = "Acknowledged"]
            \/ ops'[o] = [ops[o] EXCEPT !.receipt = Unusable, !.settled = TRUE, !.state = "Uncertain"]
            \/ \E s \in {"Uncertain", "FailedRetryable", "Prepared"} :
                 ops'[o] = [ops[o] EXCEPT !.settled = TRUE, !.state = s]
        BY <1>0, <1>7, <2>3 DEF acknowledge_applied, acknowledge_unusable, acknowledge_failed,
           acknowledge_unknown
      <3> QED  BY <1>0, <2>2, <2>3, <3>1 DEF Operation
    <2>4. CASE e.op # o
      BY <1>0, <1>1, <1>7, <2>4 DEF acknowledge_applied, acknowledge_unusable,
         acknowledge_failed, acknowledge_unknown
    <2> QED  BY <2>3, <2>4
  <1>8. CASE \/ Activate \/ ChildCallback \/ Control \/ begin_iteration \/ FinishIteration
             \/ UNCHANGED vars \/ \E k \in Kids, n \in Units : admit_child(k, n)
    BY <1>1, <1>8 DEF Activate, request_wake, claim_activation, release_activation, ChildCallback,
       child_started, child_settled, admit_child, Control, Pause, PauseFor, Resume, Cancel,
       TryComplete, Tombstone, begin_iteration, FinishIteration, finish_iteration, vars
  <1>9. CASE Reconcile \/ Acknowledge
    <2>1. CASE Reconcile
      BY <2>1, <1>4 DEF Reconcile
    <2>2. CASE Acknowledge
      BY <2>2, <1>7 DEF Acknowledge
    <2> QED  BY <1>9, <2>1, <2>2
  <1> QED
    BY <1>2, <1>3, <1>5, <1>6, <1>8, <1>9 DEF Next, Recover, ClaimEffect

\* Iterations are numbered upwards, and one is active from its beginning to its end.
LEMMA IterationMoves ==
  ASSUME [Next]_vars
  PROVE  \/ UNCHANGED <<iteration, next_iteration>>
         \/ UNCHANGED next_iteration /\ iteration' = 0
         \/ begin_iteration
  <1>1. CASE Recover
    BY <1>1 DEF Recover, begin_recovery, finish_recovery, AbandonIteration, work
  <1>2. CASE FinishIteration
    BY <1>2 DEF FinishIteration, finish_iteration
  <1>3. CASE Activate \/ Reconcile \/ ClaimEffect \/ \E o \in Ops : prepare_operation(o)
    BY <1>3 DEF Activate, request_wake, claim_activation, release_activation, Reconcile,
       reconcile_applied, reconcile_not_applied, reconcile_unknown, ClaimEffect, claim_effect,
       prepare_operation, work
  <1>4. CASE Acknowledge
    BY <1>4 DEF Acknowledge, acknowledge_applied, acknowledge_unusable, acknowledge_failed,
       acknowledge_unknown, work
  <1>5. CASE \/ ChildCallback \/ Control \/ UNCHANGED vars
             \/ \E k \in Kids, n \in Units : admit_child(k, n)
    BY <1>5 DEF ChildCallback, child_started, child_settled, admit_child, Control, Pause, PauseFor,
       Resume, Cancel, TryComplete, Tombstone, work, vars
  <1> QED  BY <1>1, <1>2, <1>3, <1>4, <1>5 DEF Next

LEMMA IterationsStep ==
  ASSUME Inv, IterationsInv, [Next]_vars
  PROVE  IterationsInv'
  <1>0. iteration \in Nat /\ next_iteration \in Nat \ {0}
    BY DEF Inv, TypeOK
  <1>1. /\ iteration' < next_iteration' /\ next_iteration' \in Nat /\ next_iteration' >= next_iteration
    BY <1>0, IterationMoves DEF IterationsInv, begin_iteration
  <1>2. ASSUME NEW o \in Ops, ops'[o].state # "Absent"
        PROVE  ops'[o].iteration \in 1 .. next_iteration' - 1
    <2>1. ops'[o].iteration \in 1 .. next_iteration - 1
      <3>1. CASE prepare_operation(o) /\ ops'[o].iteration = iteration
        BY <1>0, <3>1 DEF prepare_operation, IterationsInv
      <3>2. CASE ops[o].state # "Absent" /\ ops'[o].iteration = ops[o].iteration
        BY <3>2 DEF IterationsInv
      <3> QED  BY <1>2, <3>1, <3>2, OperationKeepsIteration
    <2> QED  BY <1>0, <1>1, <2>1
  <1> QED  BY <1>1, <1>2 DEF IterationsInv

\* Only children move the reservations and the settlements.
LEMMA ChildStep ==
  ASSUME [Next]_vars
  PROVE  \/ UNCHANGED <<kids, child_reserved>>
         \/ \E k \in Kids, n \in Units : admit_child(k, n)
         \/ \E k \in Kids : child_started(k)
         \/ \E k \in Kids, s \in {"Completed", "Failed"}, n \in Units : child_settled(k, s, n)
  <1>1. CASE Activate \/ Recover \/ Reconcile
    BY <1>1 DEF Activate, request_wake, claim_activation, release_activation, Recover,
       begin_recovery, finish_recovery, Reconcile, reconcile_applied, reconcile_not_applied,
       reconcile_unknown, money
  <1>2. CASE begin_iteration \/ FinishIteration \/ ClaimEffect \/ \E o \in Ops : prepare_operation(o)
    BY <1>2 DEF begin_iteration, FinishIteration, finish_iteration, ClaimEffect, claim_effect,
       prepare_operation, money
  <1>3. CASE Acknowledge
    BY <1>3 DEF Acknowledge, acknowledge_applied, acknowledge_unusable, acknowledge_failed,
       acknowledge_unknown, money
  <1>4. CASE ChildCallback
    BY <1>4 DEF ChildCallback
  <1>5. CASE Control \/ UNCHANGED vars
    BY <1>5 DEF Control, Pause, PauseFor, Resume, Cancel, TryComplete, Tombstone, money, vars
  <1> QED  BY <1>1, <1>2, <1>3, <1>4, <1>5 DEF Next

LEMMA SettlementsStep ==
  ASSUME Inv, SettlementsInv, [Next]_vars
  PROVE  SettlementsInv'
  <1>0. kids \in [Kids -> Child]
    BY DEF Inv, TypeOK
  <1>1. CASE UNCHANGED <<kids, child_reserved>>
    BY <1>1 DEF SettlementsInv
  <1>2. CASE \E k \in Kids, n \in Units : admit_child(k, n)
    BY <1>0, <1>2 DEF admit_child, NoChild, Child, SettlementsInv
  <1>3. CASE \E k \in Kids : child_started(k)
    BY <1>0, <1>3 DEF child_started, Child, SettlementsInv
  <1>4. CASE \E k \in Kids, s \in {"Completed", "Failed"}, n \in Units : child_settled(k, s, n)
    BY <1>0, <1>4 DEF child_settled, Child, SettlementsInv
  <1> QED  BY <1>1, <1>2, <1>3, <1>4, ChildStep

\* The promise of a child is in the sum exactly while the child runs.
LEMMA ReservedStep ==
  ASSUME Inv, Inv', ReservedIsLive, [Next]_vars
  PROVE  ReservedIsLive'
  <1> DEFINE Sum == SumFunctionOnSet(Reservations, live_children)
  <1>0. kids \in [Kids -> Child] /\ kids' \in [Kids -> Child]
    BY DEF Inv, TypeOK
  <1>a. /\ IsFiniteSet(live_children) /\ IsFiniteSet(live_children)'
        /\ \A k \in Kids : Reservations[k] \in Nat
        /\ \A k \in Kids : Reservations'[k] \in Nat
    BY Amounts, AmountsNext DEF AmountsFinite
  <1>r. \A k \in Kids : Reservations[k] = kids[k].reservation /\ Reservations'[k] = kids'[k].reservation
    BY DEF Reservations
  <1>s. child_reserved = UnitsVec(Sum) /\ Sum \in Nat
    <2>1. Sum \in Nat
      BY <1>a, SumIsNat DEF live_children
    <2> QED  BY <2>1 DEF ReservedIsLive, Reservations
  <1>g. SUFFICES child_reserved' = UnitsVec(SumFunctionOnSet(Reservations', live_children'))
    BY DEF ReservedIsLive, Reservations
  <1>1. CASE UNCHANGED <<kids, child_reserved>>
    <2>1. Reservations' = Reservations /\ live_children' = live_children
      BY <1>1 DEF Reservations, live_children
    <2> QED  BY <1>1, <1>s, <2>1
  <1>2. ASSUME NEW k \in Kids, NEW n \in Units, admit_child(k, n)
        PROVE  child_reserved' = UnitsVec(SumFunctionOnSet(Reservations', live_children'))
    <2>1. /\ kids[k].state = "Absent" /\ child_reserved' = plus(child_reserved, UnitsVec(n))
          /\ kids' = [kids EXCEPT ![k] = [NoChild EXCEPT !.state = "Admitted", !.reservation = n]]
      BY <1>2 DEF admit_child
    <2>2. kids'[k].state = "Admitted" /\ kids'[k].reservation = n
          /\ \A x \in Kids : x # k => kids'[x] = kids[x]
      BY <1>0, <2>1 DEF NoChild
    <2>3. k \notin live_children /\ live_children' = live_children \cup {k}
      BY <2>1, <2>2 DEF live_children, ChildTerminal
    <2>4. \A x \in live_children : Reservations'[x] = Reservations[x]
      BY <1>r, <2>2, <2>3 DEF live_children
    <2>5. SumFunctionOnSet(Reservations, live_children) = SumFunctionOnSet(Reservations', live_children)
      BY <1>a, <2>4, SumsAgree DEF live_children
    <2>6. SumFunctionOnSet(Reservations', {k}) = n
      <3>1. Reservations'[k] = n /\ Reservations'[k] \in Nat
        BY <1>a, <1>r, <2>2
      <3> QED  BY <3>1, SumOfOne
    <2>7. IsFiniteSet({k}) /\ live_children \cap {k} = {} /\ \A x \in live_children \cup {k} : x \in Kids
      BY <2>3, FS_Singleton DEF live_children
    <2>8. SumFunctionOnSet(Reservations', live_children \cup {k})
            = SumFunctionOnSet(Reservations', live_children) + SumFunctionOnSet(Reservations', {k})
      BY <1>a, <2>7, SumOfUnion
    <2>9. SumFunctionOnSet(Reservations', live_children') = Sum + n
      BY <2>3, <2>5, <2>6, <2>8
    <2> HIDE DEF Sum
    <2> QED  BY <1>s, <2>1, <2>9 DEF plus, UnitsVec
  <1>3. ASSUME NEW k \in Kids, child_started(k)
        PROVE  child_reserved' = UnitsVec(SumFunctionOnSet(Reservations', live_children'))
    <2>1. /\ \A x \in Kids : kids'[x].reservation = kids[x].reservation
          /\ kids[k].state = "Admitted" /\ kids'[k].state = "Started"
          /\ \A x \in Kids : x # k => kids'[x] = kids[x]
          /\ child_reserved' = child_reserved
      BY <1>0, <1>3 DEF child_started, money, Child
    <2>2. live_children' = live_children
      BY <2>1 DEF live_children, ChildTerminal
    <2>3. Reservations' = Reservations
      BY <2>1 DEF Reservations
    <2> QED  BY <1>s, <2>1, <2>2, <2>3
  <1>4. ASSUME NEW k \in Kids, NEW s \in {"Completed", "Failed"}, NEW n \in Units, child_settled(k, s, n)
        PROVE  child_reserved' = UnitsVec(SumFunctionOnSet(Reservations', live_children'))
    <2>1. /\ k \in live_children
          /\ child_reserved' = minus(child_reserved, UnitsVec(kids[k].reservation))
          /\ kids' = [kids EXCEPT ![k] = [kids[k] EXCEPT !.state = s, !.settlement = n]]
      BY <1>4 DEF child_settled, SettledReserve
    <2>2. /\ kids'[k].state = s /\ kids'[k].reservation = kids[k].reservation
          /\ \A x \in Kids : x # k => kids'[x] = kids[x]
      BY <1>0, <2>1 DEF Child
    <2>3. live_children' = live_children \ {k}
      BY <2>2 DEF live_children, ChildTerminal
    <2>4. Reservations' = Reservations
      BY <2>2 DEF Reservations
    <2>5. /\ IsFiniteSet({k}) /\ IsFiniteSet(live_children \ {k})
          /\ (live_children \ {k}) \cap {k} = {} /\ (live_children \ {k}) \cup {k} = live_children
          /\ \A x \in (live_children \ {k}) \cup {k} : x \in Kids
      BY <1>a, <2>1, FS_Singleton, FS_Subset DEF live_children
    <2>6. SumFunctionOnSet(Reservations, (live_children \ {k}) \cup {k})
            = SumFunctionOnSet(Reservations, live_children \ {k}) + SumFunctionOnSet(Reservations, {k})
      BY <1>a, <2>5, SumOfUnion
    <2>7. SumFunctionOnSet(Reservations, {k}) = kids[k].reservation
      BY <1>a, <1>r, SumOfOne
    <2>8. SumFunctionOnSet(Reservations, live_children \ {k}) \in Nat
      BY <1>a, <2>5, SumIsNat
    <2>9. Sum = SumFunctionOnSet(Reservations', live_children') + kids[k].reservation
      BY <2>3, <2>4, <2>5, <2>6, <2>7
    <2>10. kids[k].reservation \in Nat /\ SumFunctionOnSet(Reservations', live_children') \in Nat
      BY <1>0, <2>3, <2>4, <2>8 DEF Child
    <2> HIDE DEF Sum
    <2> QED  BY <1>s, <2>1, <2>9, <2>10 DEF minus, UnitsVec
  <1> QED  BY <1>1, <1>2, <1>3, <1>4, ChildStep

-----------------------------------------------------------------------------
(* What is charged *)

LEMMA SettledTurnsFinite ==
  ASSUME Inv
  PROVE  /\ IsFiniteSet(SettledTurns) /\ \A o \in SettledTurns : Receipts[o] \in Nat
         /\ SumFunctionOnSet(Receipts, SettledTurns) \in Nat
         /\ SumFunctionOnSet(Settlements, Kids) \in Nat
  <1>1. AmountsFinite
    BY Amounts
  <1>2. IsFiniteSet(SettledTurns) /\ \A o \in SettledTurns : Receipts[o] \in Nat
    <2>1. SettledTurns \in SUBSET Turns
      BY DEF SettledTurns
    <2> QED  BY <1>1, <2>1, FS_Subset DEF AmountsFinite, SettledTurns
  <1>3. SumFunctionOnSet(Receipts, SettledTurns) \in Nat
    BY <1>2, SumIsNat
  <1>4. SumFunctionOnSet(Settlements, Kids) \in Nat
    BY <1>1, SumIsNat DEF AmountsFinite
  <1> QED  BY <1>2, <1>3, <1>4

\* The Turns of N leave the active iteration: their receipts become due, those of
\* the others stay as they were.
LEMMA ReceiptsDue ==
  ASSUME Inv, [Next]_vars, NEW N \in SUBSET Turns, SettledTurns \cap N = {},
         SettledTurns' = SettledTurns \cup N,
         \A o \in N : ops[o].state \in {"Acknowledged", "Reconciled"}
  PROVE  /\ SumFunctionOnSet(Receipts, N) \in Nat
         /\ SumFunctionOnSet(Receipts', SettledTurns')
              = SumFunctionOnSet(Receipts, SettledTurns) + SumFunctionOnSet(Receipts, N)
  <1>1. IsFiniteSet(N) /\ IsFiniteSet(SettledTurns) /\ IsFiniteSet(SettledTurns \cup N)
    BY Amounts, SettledTurnsFinite, FS_Subset, FS_Union DEF AmountsFinite
  <1>2. \A o \in SettledTurns \cup N : o \in Ops /\ ops[o].state \in {"Acknowledged", "Reconciled"}
    BY DEF SettledTurns
  <1>3. \A o \in SettledTurns \cup N : Receipts[o] \in Nat
    BY <1>2, Amounts DEF AmountsFinite
  <1>4. \A o \in SettledTurns \cup N : Receipts'[o] = Receipts[o]
    BY <1>2, FinalStep DEF Receipts
  <1>5. SumFunctionOnSet(Receipts, SettledTurns \cup N) = SumFunctionOnSet(Receipts', SettledTurns \cup N)
    BY <1>1, <1>3, <1>4, SumsAgree
  <1>6. SumFunctionOnSet(Receipts, SettledTurns \cup N)
          = SumFunctionOnSet(Receipts, SettledTurns) + SumFunctionOnSet(Receipts, N)
    BY <1>1, <1>3, SumOfUnion
  <1>7. SumFunctionOnSet(Receipts, N) \in Nat
    BY <1>1, <1>3, SumIsNat
  <1> QED  BY <1>5, <1>6, <1>7

\* While an iteration is active, what settles belongs to it.
LEMMA SettlesInIteration ==
  ASSUME Inv, [Next]_vars, NEW o \in Ops, iteration' = iteration,
         ops'[o].state \in {"Acknowledged", "Reconciled"},
         ops[o].state \notin {"Acknowledged", "Reconciled"}
  PROVE  ops'[o].iteration = iteration
  <1>0. ops \in [Ops -> Operation] /\ ops[o] \in Operation /\ OperationValid(o)
    BY DEF Inv, TypeOK, OperationInv
  <1>1. CASE ops'[o] = ops[o]
    BY <1>1
  <1>2. ops[o].state \in {"Uncertain", "Dispatching", "Prepared", "FailedRetryable"}
          => ops[o].iteration = iteration
    BY <1>0 DEF OperationValid
  <1>3. ops'[o].state # "Absent"
    OBVIOUS
  <1>4. CASE prepare_operation(o) /\ ops'[o].iteration = iteration
    BY <1>4
  <1>5. CASE ops[o].state # "Absent" /\ ops'[o].iteration = ops[o].iteration
    <2>1. ops[o].state # "Abandoned"
      <3> SUFFICES ASSUME ops[o].state = "Abandoned" PROVE ops'[o] = ops[o]
        OBVIOUS
      <3>1. CASE Recover
        BY <1>0, <3>1 DEF Recover, begin_recovery, finish_recovery, AbandonIteration
      <3>2. CASE Reconcile
        BY <1>0, <3>2 DEF Reconcile, reconcile_applied, reconcile_not_applied, reconcile_unknown,
           Reconcilable
      <3>3. CASE ClaimEffect \/ \E x \in Ops : prepare_operation(x)
        BY <1>0, <3>3 DEF ClaimEffect, claim_effect, prepare_operation
      <3>4. CASE Acknowledge
        <4>1. PICK e \in dispatched : /\ CallbackIsCurrent(e)
                                      /\ \E op : ops' = [ops EXCEPT ![e.op] = op]
          BY <3>4 DEF Acknowledge, acknowledge_applied, acknowledge_unusable, acknowledge_failed,
             acknowledge_unknown
        <4>2. e.op \in Ops
          BY DEF Inv, TypeOK, Effect
        <4>3. ops[e.op].state = "Dispatching"
          BY <4>1, <4>2, CurrentIsDispatching DEF Inv
        <4> QED  BY <1>0, <4>1, <4>2, <4>3
      <3>5. CASE \/ Activate \/ begin_iteration \/ FinishIteration \/ ChildCallback \/ Control
                 \/ UNCHANGED vars \/ \E k \in Kids, n \in Units : admit_child(k, n)
        BY <3>5 DEF Activate, request_wake, claim_activation, release_activation, begin_iteration,
           FinishIteration, finish_iteration, ChildCallback, child_started, child_settled,
           admit_child, Control, Pause, PauseFor, Resume, Cancel, TryComplete, Tombstone, vars
      <3> QED  BY <3>1, <3>2, <3>3, <3>4, <3>5 DEF Next
    <2>2. ops[o].state \in {"Uncertain", "Dispatching", "Prepared", "FailedRetryable"}
      BY <1>0, <1>5, <2>1 DEF Operation, OpState
    <2> QED  BY <1>2, <1>5, <2>2
  <1> QED  BY <1>3, <1>4, <1>5, OperationKeepsIteration

\* While no iteration ends, the Turns that are due stay the same.
LEMMA DueStays ==
  ASSUME Inv, IterationsInv, [Next]_vars, iteration' = iteration \/ begin_iteration
  PROVE  SettledTurns' = SettledTurns
  <1>0. iteration \in Nat /\ next_iteration \in Nat /\ \A o \in Ops : ops[o].iteration \in Nat
    BY DEF Inv, TypeOK, Operation
  <1>1. CASE begin_iteration
    <2>1. iteration = 0 /\ iteration' = next_iteration /\ ops' = ops
      BY <1>1 DEF begin_iteration
    <2>2. ASSUME NEW o \in Turns, ops[o].state \in {"Acknowledged", "Reconciled"}
          PROVE  ops[o].iteration # 0 /\ ops[o].iteration # next_iteration
      BY <1>0, <2>2 DEF IterationsInv
    <2> QED  BY <2>1, <2>2 DEF SettledTurns
  <1>2. CASE iteration' = iteration
    <2>1. ASSUME NEW o \in Turns, o \in SettledTurns PROVE o \in SettledTurns'
      BY <1>2, <2>1, FinalStep DEF SettledTurns
    <2>2. ASSUME NEW o \in Turns, o \in SettledTurns' PROVE o \in SettledTurns
      <3>1. ops'[o].state \in {"Acknowledged", "Reconciled"} /\ ops'[o].iteration # iteration
        BY <1>2, <2>2 DEF SettledTurns
      <3>2. ops[o].state \in {"Acknowledged", "Reconciled"}
        BY <1>2, <3>1, SettlesInIteration
      <3>3. ops'[o] = ops[o]
        BY <3>2, FinalStep
      <3> QED  BY <3>1, <3>2, <3>3 DEF SettledTurns
    <2> QED  BY <2>1, <2>2 DEF SettledTurns
  <1> QED  BY <1>1, <1>2

\* When an iteration ends, its settled Turns become due.
LEMMA DueAtEnd ==
  ASSUME Inv, IterationsInv, [Next]_vars, iteration # 0, iteration' = 0,
         \A o \in Ops : ops'[o].state \in {"Acknowledged", "Reconciled"}
                          => ops[o].state \in {"Acknowledged", "Reconciled"}
  PROVE  /\ SettledTurns' = SettledTurns \cup (AppliedOps \cap Turns)
         /\ SettledTurns \cap (AppliedOps \cap Turns) = {}
         /\ \A o \in AppliedOps : ops[o].state \in {"Acknowledged", "Reconciled"}
  <1>1. ASSUME NEW o \in Turns
        PROVE  o \in SettledTurns' <=> ops[o].state \in {"Acknowledged", "Reconciled"}
    <2>1. CASE ops[o].state \in {"Acknowledged", "Reconciled"}
      <3>1. ops'[o] = ops[o]
        BY <2>1, FinalStep
      <3>2. ops[o].iteration # 0
        BY <2>1 DEF IterationsInv, Inv, TypeOK
      <3> QED  BY <2>1, <3>1, <3>2 DEF SettledTurns
    <2>2. CASE ops[o].state \notin {"Acknowledged", "Reconciled"}
      BY <2>2 DEF SettledTurns
    <2> QED  BY <2>1, <2>2
  <1>2. ASSUME NEW o \in Turns
        PROVE  o \in SettledTurns \cup (AppliedOps \cap Turns)
                 <=> ops[o].state \in {"Acknowledged", "Reconciled"}
    BY DEF SettledTurns, AppliedOps
  <1>3. SettledTurns' \subseteq Turns /\ SettledTurns \subseteq Turns
    BY DEF SettledTurns
  <1>4. SettledTurns' = SettledTurns \cup (AppliedOps \cap Turns)
    BY <1>1, <1>2, <1>3
  <1> QED  BY <1>4 DEF SettledTurns, AppliedOps

\* Every step charges what becomes due in it.
LEMMA UsageStep ==
  ASSUME Inv, Inv', AccountInv, [Next]_vars
  PROVE  TurnUsageRecorded'
  <1> DEFINE Due == SumFunctionOnSet(Receipts, SettledTurns)
             Spent == SumFunctionOnSet(Settlements, Kids)
  <1>0. /\ usage \in Vec /\ usage' \in Vec /\ Due \in Nat /\ Spent \in Nat
        /\ usage.units >= Due + Spent
    <2>1. usage.units >= Charged
      BY UsageIsCharged DEF AccountInv
    <2> QED  BY <2>1, SettledTurnsFinite DEF Inv, TypeOK, Charged
  <1>u. usage.units \in Nat /\ usage'.units \in Nat
    BY <1>0
  <1>g. SUFFICES usage'.units >= SumFunctionOnSet(Receipts', SettledTurns')
                                 + SumFunctionOnSet(Settlements', Kids)
    BY DEF TurnUsageRecorded, SettledTurns, Receipts, Settlements, ReceiptSum
  <1>z. SumFunctionOnSet(Receipts, {}) = 0
    BY SumOfNone
  <1>k. UNCHANGED kids => SumFunctionOnSet(Settlements', Kids) = Spent
    <2> SUFFICES ASSUME UNCHANGED kids PROVE SumFunctionOnSet(Settlements', Kids) = Spent
      OBVIOUS
    <2>1. Settlements' = Settlements
      BY DEF Settlements
    <2> QED  BY <2>1
  <1>d. ASSUME iteration' = iteration \/ begin_iteration
        PROVE  SumFunctionOnSet(Receipts', SettledTurns') = Due
    <2>1. SettledTurns' = SettledTurns \cup {}
      BY <1>d, DueStays DEF AccountInv
    <2>2. /\ SumFunctionOnSet(Receipts', SettledTurns') = Due + SumFunctionOnSet(Receipts, {})
      BY <2>1, ReceiptsDue
    <2> HIDE DEF Due
    <2> QED  BY <1>0, <1>z, <2>2
  <1> HIDE DEF Due, Spent
  <1>1. CASE UNCHANGED <<kids, usage>> /\ (iteration' = iteration \/ begin_iteration)
    BY <1>0, <1>1, <1>k, <1>d
  <1>2. ASSUME NEW r \in BOOLEAN, finish_recovery(r), iteration # 0
        PROVE  usage'.units >= SumFunctionOnSet(Receipts', SettledTurns')
                               + SumFunctionOnSet(Settlements', Kids)
    <2> DEFINE N == AppliedOps \cap Turns
               M == AppliedOps \ Turns
    <2>1. /\ iteration' = 0 /\ UNCHANGED kids
          /\ usage' = IF AppliedOps = {} THEN usage ELSE plus(usage, ReceiptSum(AppliedOps))
          /\ \A o \in Ops : ops'[o] = ops[o] \/ ops'[o] = [ops[o] EXCEPT !.state = "Abandoned",
                               !.attempt = 0, !.epoch = 0, !.settled = FALSE]
      BY <1>2 DEF finish_recovery, AbandonIteration
    <2>2. \A o \in Ops : ops'[o].state \in {"Acknowledged", "Reconciled"}
                           => ops[o].state \in {"Acknowledged", "Reconciled"}
      <3> SUFFICES ASSUME NEW o \in Ops, ops'[o].state \in {"Acknowledged", "Reconciled"}
                   PROVE  ops[o].state \in {"Acknowledged", "Reconciled"}
        OBVIOUS
      <3>1. ops[o] \in Operation
        BY DEF Inv, TypeOK
      <3>2. [ops[o] EXCEPT !.state = "Abandoned", !.attempt = 0, !.epoch = 0,
                           !.settled = FALSE].state = "Abandoned"
        BY <3>1 DEF Operation
      <3> QED  BY <2>1, <3>2
    <2>3. /\ SettledTurns' = SettledTurns \cup N /\ SettledTurns \cap N = {}
          /\ \A o \in AppliedOps : ops[o].state \in {"Acknowledged", "Reconciled"}
      BY <1>2, <2>1, <2>2, DueAtEnd DEF AccountInv
    <2>4. /\ SumFunctionOnSet(Receipts, N) \in Nat
          /\ SumFunctionOnSet(Receipts', SettledTurns') = Due + SumFunctionOnSet(Receipts, N)
      <3>1. N \in SUBSET Turns /\ \A o \in N : ops[o].state \in {"Acknowledged", "Reconciled"}
        BY <2>3
      <3> HIDE DEF N
      <3> QED  BY <2>3, <3>1, ReceiptsDue DEF Due
    <2>5. /\ SumFunctionOnSet(Receipts, AppliedOps) = SumFunctionOnSet(Receipts, N) + SumFunctionOnSet(Receipts, M)
          /\ SumFunctionOnSet(Receipts, M) \in Nat
      <3>1. /\ IsFiniteSet(N) /\ IsFiniteSet(M) /\ N \cap M = {} /\ N \cup M = AppliedOps
            /\ \A o \in N \cup M : Receipts[o] \in Nat
        <4>1. N \in SUBSET Ops /\ M \in SUBSET Ops /\ N \cap M = {} /\ N \cup M = AppliedOps
          BY DEF AppliedOps
        <4>2. IsFiniteSet(N) /\ IsFiniteSet(M)
          BY <4>1, FS_Subset
        <4>3. \A o \in AppliedOps : Receipts[o] \in Nat
          BY <2>3, Amounts DEF AmountsFinite, AppliedOps
        <4> QED  BY <4>1, <4>2, <4>3
      <3> HIDE DEF N, M
      <3>2. SumFunctionOnSet(Receipts, N \cup M) = SumFunctionOnSet(Receipts, N) + SumFunctionOnSet(Receipts, M)
        BY <3>1, SumOfUnion
      <3>3. SumFunctionOnSet(Receipts, M) \in Nat
        BY <3>1, SumIsNat
      <3> QED  BY <3>1, <3>2, <3>3
    <2>6. CASE AppliedOps = {}
      <3>1. N = {} /\ usage' = usage
        BY <2>1, <2>6
      <3>2. SumFunctionOnSet(Settlements', Kids) = Spent
        BY <1>k, <2>1
      <3> HIDE DEF N, M
      <3>3. SumFunctionOnSet(Receipts', SettledTurns') = Due + 0
        BY <1>z, <2>4, <3>1
      <3> QED  BY <1>0, <3>1, <3>2, <3>3
    <2>7. CASE AppliedOps # {}
      <3>1. usage'.units = usage.units + SumFunctionOnSet(Receipts, AppliedOps)
        BY <2>1, <2>7 DEF plus, ReceiptSum, Receipts
      <3>2. SumFunctionOnSet(Settlements', Kids) = Spent
        BY <1>k, <2>1
      <3> HIDE DEF N, M
      <3> QED  BY <1>0, <1>u, <2>4, <2>5, <3>1, <3>2
    <2> QED  BY <2>6, <2>7
  <1>3. ASSUME NEW n \in Units, NEW a \in BOOLEAN, finish_iteration(n, a)
        PROVE  usage'.units >= SumFunctionOnSet(Receipts', SettledTurns')
                               + SumFunctionOnSet(Settlements', Kids)
    <2> DEFINE N == IterationOps \cap Turns
    <2>1. /\ iteration # 0 /\ iteration' = 0 /\ UNCHANGED <<kids, ops>>
          /\ usage' = plus(usage, [iterations |-> 1, units |-> n])
          /\ \A o \in IterationOps : ops[o].state \in {"Acknowledged", "Reconciled"}
          /\ N # {} => [iterations |-> 1, units |-> n] = ReceiptSum(N)
      BY <1>3 DEF finish_iteration, ResultUsage
    <2>2. N = AppliedOps \cap Turns
      BY <2>1 DEF IterationOps, AppliedOps
    <2>3. SettledTurns' = SettledTurns \cup N /\ SettledTurns \cap N = {}
      BY <2>1, <2>2, DueAtEnd DEF AccountInv
    <2>4. /\ SumFunctionOnSet(Receipts, N) \in Nat
          /\ SumFunctionOnSet(Receipts', SettledTurns') = Due + SumFunctionOnSet(Receipts, N)
      <3>1. N \in SUBSET Turns /\ \A o \in N : ops[o].state \in {"Acknowledged", "Reconciled"}
        BY <2>1
      <3> HIDE DEF N
      <3> QED  BY <2>3, <3>1, ReceiptsDue DEF Due
    <2>5. n \in Nat /\ n >= SumFunctionOnSet(Receipts, N)
      <3>1. CASE N = {}
        <4> HIDE DEF N
        <4> QED  BY <1>z, <3>1
      <3>2. CASE N # {}
        <4> DEFINE total == SumFunctionOnSet(Receipts, N)
        <4>1. ReceiptSum(N).units = total
          BY DEF ReceiptSum, Receipts
        <4>2. n = total
          BY <2>1, <3>2, <4>1 DEF ReceiptSum
        <4> QED  BY <4>2
      <3> QED  BY <3>1, <3>2
    <2>6. usage'.units = usage.units + n
      BY <2>1 DEF plus
    <2> HIDE DEF N
    <2> QED  BY <1>0, <1>u, <1>k, <2>1, <2>4, <2>5, <2>6
  <1>4. ASSUME NEW k \in Kids, NEW s \in {"Completed", "Failed"}, NEW n \in Units, child_settled(k, s, n)
        PROVE  usage'.units >= SumFunctionOnSet(Receipts', SettledTurns')
                               + SumFunctionOnSet(Settlements', Kids)
    <2>1. /\ k \in live_children /\ iteration' = iteration
          /\ kids' = [kids EXCEPT ![k] = [kids[k] EXCEPT !.state = s, !.settlement = n]]
          /\ usage' = plus(usage, UnitsVec(n))
      BY <1>4 DEF child_settled, work
    <2>2. /\ \A x \in Kids : x # k => Settlements'[x] = Settlements[x]
          /\ Settlements[k] = 0 /\ Settlements'[k] = n
      BY <2>1 DEF Inv, TypeOK, Child, Settlements, AccountInv, SettlementsInv, live_children,
         ChildTerminal
    <2>3. /\ IsFiniteSet(Kids \ {k}) /\ IsFiniteSet({k}) /\ (Kids \ {k}) \cap {k} = {}
          /\ (Kids \ {k}) \cup {k} = Kids
      BY FS_Singleton, FS_Subset
    <2>4. \A x \in Kids : Settlements[x] \in Nat /\ Settlements'[x] \in Nat
      BY Amounts, AmountsNext DEF AmountsFinite
    <2>5. /\ SumFunctionOnSet(Settlements, (Kids \ {k}) \cup {k})
               = SumFunctionOnSet(Settlements, Kids \ {k}) + SumFunctionOnSet(Settlements, {k})
          /\ SumFunctionOnSet(Settlements', (Kids \ {k}) \cup {k})
               = SumFunctionOnSet(Settlements', Kids \ {k}) + SumFunctionOnSet(Settlements', {k})
      BY <2>3, <2>4, SumOfUnion
    <2>6. SumFunctionOnSet(Settlements, Kids \ {k}) = SumFunctionOnSet(Settlements', Kids \ {k})
      BY <2>2, <2>3, <2>4, SumsAgree
    <2>7. SumFunctionOnSet(Settlements, {k}) = 0 /\ SumFunctionOnSet(Settlements', {k}) = n
      BY <2>2, <2>4, SumOfOne
    <2>8. SumFunctionOnSet(Settlements, Kids \ {k}) \in Nat
      BY <2>3, <2>4, SumIsNat
    <2>9. SumFunctionOnSet(Settlements', Kids) = Spent + n
      <3>1. Spent = SumFunctionOnSet(Settlements, Kids \ {k}) + 0
        BY <2>3, <2>5, <2>7 DEF Spent
      <3>2. SumFunctionOnSet(Settlements', Kids) = SumFunctionOnSet(Settlements, Kids \ {k}) + n
        BY <2>3, <2>5, <2>6, <2>7
      <3> QED  BY <2>8, <3>1, <3>2
    <2>10. usage'.units = usage.units + n /\ n \in Nat
      BY <2>1 DEF plus, UnitsVec
    <2> QED  BY <1>0, <1>u, <1>d, <2>1, <2>9, <2>10
  <1>5. CASE Activate \/ Reconcile \/ ClaimEffect \/ begin_recovery \/ begin_iteration
             \/ \E o \in Ops : prepare_operation(o)
    BY <1>1, <1>5 DEF Activate, request_wake, claim_activation, release_activation, Reconcile,
       reconcile_applied, reconcile_not_applied, reconcile_unknown, ClaimEffect, claim_effect,
       begin_recovery, begin_iteration, prepare_operation, work, money
  <1>6. CASE Acknowledge
    BY <1>1, <1>6 DEF Acknowledge, acknowledge_applied, acknowledge_unusable, acknowledge_failed,
       acknowledge_unknown, work, money
  <1>7. CASE Control \/ UNCHANGED vars
    BY <1>1, <1>7 DEF Control, Pause, PauseFor, Resume, Cancel, TryComplete, Tombstone, work,
       money, vars
  <1>8. ASSUME NEW k \in Kids, NEW n \in Units, admit_child(k, n)
        PROVE  usage'.units >= SumFunctionOnSet(Receipts', SettledTurns')
                               + SumFunctionOnSet(Settlements', Kids)
    <2>1. usage' = usage /\ iteration' = iteration
      BY <1>8 DEF admit_child, work
    <2>2. /\ kids[k].state = "Absent"
          /\ kids' = [kids EXCEPT ![k] = [NoChild EXCEPT !.state = "Admitted", !.reservation = n]]
      BY <1>8 DEF admit_child
    <2>3. kids[k].settlement = 0
      BY <2>2 DEF AccountInv, SettlementsInv
    <2>4. \A x \in Kids : kids'[x].settlement = kids[x].settlement
      BY <2>2, <2>3 DEF NoChild, Inv, TypeOK
    <2>5. Settlements' = Settlements
      BY <2>4 DEF Settlements
    <2> QED  BY <1>0, <1>d, <2>1, <2>5 DEF Spent
  <1>9. ASSUME NEW r \in BOOLEAN, finish_recovery(r), iteration = 0
        PROVE  usage'.units >= SumFunctionOnSet(Receipts', SettledTurns')
                               + SumFunctionOnSet(Settlements', Kids)
    BY <1>1, <1>9 DEF finish_recovery, AbandonIteration
  <1>10. CASE ChildCallback
    <2>1. CASE \E k \in Kids : child_started(k)
      <3>1. PICK k \in Kids : child_started(k)
        BY <2>1
      <3>2. usage' = usage /\ iteration' = iteration
        BY <3>1 DEF child_started, work, money
      <3>3. Settlements' = Settlements
        BY <3>1 DEF child_started, Inv, TypeOK, Child, Settlements
      <3> QED  BY <1>0, <1>d, <3>2, <3>3 DEF Spent
    <2> QED  BY <1>4, <1>10, <2>1 DEF ChildCallback
  <1> QED
    BY <1>2, <1>3, <1>4, <1>5, <1>6, <1>7, <1>8, <1>9, <1>10 DEF Next, Recover, FinishIteration

-----------------------------------------------------------------------------
(* Theorems *)

LEMMA AccountsInitially == Init => AccountInv
  <1> SUFFICES ASSUME Init PROVE AccountInv
    OBVIOUS
  <1>1. IterationsInv /\ SettlementsInv
    BY DEF Init, IterationsInv, SettlementsInv, NoOperation, NoChild
  <1>2. live_children = {} /\ SettledTurns = {}
    BY DEF Init, live_children, ChildTerminal, NoChild, SettledTurns, NoOperation
  <1>3. ReservedIsLive
    <2>1. SumFunctionOnSet(Reservations, {}) = 0
      BY SumOfNone
    <2> QED  BY <1>2, <2>1 DEF ReservedIsLive, Init, Reservations
  <1>4. SumFunctionOnSet(Settlements, Kids) = 0
    <2>1. \A k \in Kids : Settlements[k] = 0
      BY DEF Init, Settlements, NoChild
    <2>2. Pairs(Settlements, Kids) = {}
      BY <2>1 DEF Pairs
    <2> QED  BY <2>1, <2>2, SumIsCount, FS_EmptySet
  <1>5. Charged = 0
    <2>1. SumFunctionOnSet(Receipts, {}) = 0
      BY SumOfNone
    <2> QED  BY <1>2, <1>4, <2>1 DEF Charged
  <1>6. TurnUsageRecorded
    BY <1>5, UsageIsCharged DEF Init, UnitsVec
  <1> QED  BY <1>1, <1>3, <1>6 DEF AccountInv

\* The accounts of every Run are kept by every command and callback.
THEOREM AccountsHold == Spec => []AccountInv
  <1>1. Inv /\ Inv' /\ AccountInv /\ [Next]_vars => AccountInv'
    BY IterationsStep, SettlementsStep, ReservedStep, UsageStep DEF AccountInv
  <1> QED  BY <1>1, AccountsInitially, RunInvariance, PTL DEF Spec

\* admit_child and child_settled keep child_reserved the sum of what the children
\* that still run were promised, whatever recovers or ends in between.
THEOREM ReservationsAddUp == Spec => []ReservedIsLive
  <1>1. AccountInv => ReservedIsLive
    BY DEF AccountInv
  <1> QED  BY <1>1, AccountsHold, PTL

\* finish_iteration, finish_recovery and child_settled charge the usage of every
\* Turn and of every child that settled.
THEOREM UsageIsRecorded == Spec => []TurnUsageRecorded
  <1>1. AccountInv => TurnUsageRecorded
    BY DEF AccountInv
  <1> QED  BY <1>1, AccountsHold, PTL

\* What child_settled checks beside the child's own reservation: the reservation is
\* part of child_reserved, and the settlement fits the budget in its place.
SettlementFits ==
  \A k \in live_children : \A used \in 0 .. kids[k].reservation :
    /\ within(UnitsVec(kids[k].reservation), child_reserved)
    /\ within(plus(plus(usage, UnitsVec(used)), SettledReserve(k)), budget)

\* child_settled refuses no child that stayed within its reservation, neither with
\* an underflow nor for the budget: a child can always be settled.
THEOREM SettlementsAreAccepted == Spec => []SettlementFits
  <1>1. Inv /\ AccountInv => SettlementFits
    <2> SUFFICES ASSUME Inv, AccountInv, NEW k \in live_children,
                        NEW used \in 0 .. kids[k].reservation
                 PROVE  /\ within(UnitsVec(kids[k].reservation), child_reserved)
                        /\ within(plus(plus(usage, UnitsVec(used)), SettledReserve(k)), budget)
      BY DEF SettlementFits
    <2>1. AmountsFinite /\ k \in Kids /\ \A x \in live_children : x \in Kids
      BY Amounts DEF live_children
    <2>2. /\ IsFiniteSet({k}) /\ IsFiniteSet(live_children \ {k})
          /\ (live_children \ {k}) \cap {k} = {} /\ (live_children \ {k}) \cup {k} = live_children
          /\ \A x \in (live_children \ {k}) \cup {k} : Reservations[x] \in Nat
      BY <2>1, FS_Singleton, FS_Subset DEF AmountsFinite
    <2>3. SumFunctionOnSet(Reservations, (live_children \ {k}) \cup {k})
            = SumFunctionOnSet(Reservations, live_children \ {k}) + SumFunctionOnSet(Reservations, {k})
      BY <2>2, SumOfUnion
    <2>4. SumFunctionOnSet(Reservations, {k}) = kids[k].reservation /\ kids[k].reservation \in Nat
      <3>1. Reservations[k] = kids[k].reservation /\ Reservations[k] \in Nat
        BY <2>1 DEF AmountsFinite, Reservations
      <3> QED  BY <3>1, SumOfOne
    <2>5. SumFunctionOnSet(Reservations, live_children \ {k}) \in Nat
      BY <2>2, SumIsNat
    <2>6. PICK rest \in Nat : child_reserved = UnitsVec(rest + kids[k].reservation)
      BY <2>2, <2>3, <2>4, <2>5 DEF AccountInv, ReservedIsLive, Reservations
    <2>7. usage \in Vec /\ budget \in Vec /\ within(plus(usage, child_reserved), budget)
      BY DEF Inv, TypeOK, BudgetRespected
    <2> QED  BY <2>4, <2>6, <2>7 DEF within, plus, minus, UnitsVec, SettledReserve
  <1> QED  BY <1>1, RunInvariance, AccountsHold, PTL
=============================================================================
