------------------------ MODULE SessionLogRefinement ------------------------
(***************************************************************************)
(* The Session log implements the audited log, and so inherits what that   *)
(* promises to the observer; no update is lost, and none is published out  *)
(* of order.                                                               *)
(***************************************************************************)
EXTENDS SessionLogProofs

-----------------------------------------------------------------------------
(* What a step does to the manifest *)

\* Updates, and marks, are published; an identity may be drawn in vain.
StorePublishes ==
  /\ \E updates \in Seq(1 .. MaxUpdates) : Publishes(updates)
  /\ minted' \in {minted, minted + 1} /\ outcomes' = outcomes

StoreRaises ==
  /\ Live /\ slot.fence = NoFence
  /\ slot' \in Slot /\ slot'.at = "Live" /\ slot'.fence.at = "IntentPending"
  /\ slot'.fence.intent.id = minted + 1
  /\ \E updates \in Seq(1 .. MaxUpdates) : ExtendsBy(slot.log, slot'.log, updates)
  /\ minted' = minted + 1 /\ outcomes' = outcomes

StoreWithdraws ==
  /\ slot.fence.at = "IntentPending" /\ Refences(NoFence)
  /\ UNCHANGED <<minted, outcomes>>

StoreRefuses ==
  /\ slot.fence.at = "IntentPending"
  /\ \E reason \in Reasons : Refences(NotAppliedPending(slot.fence.intent, reason))
  /\ UNCHANGED <<minted, outcomes>>

StoreApplies ==
  /\ Live /\ slot.fence.at = "IntentPending" /\ slot.fence.intent.sequence = Len(slot.log)
  /\ slot' = PublishedSlot
  /\ UNCHANGED <<minted, outcomes>>

StoreTells ==
  /\ Live /\ slot.fence.at \in {"NotAppliedPending", "EvidencePending"}
  /\ outcomes' = outcomes \cup {Outcome(slot)}
  /\ UNCHANGED <<slot, minted>>

StoreLifts ==
  /\ slot.fence.at \in {"NotAppliedPending", "EvidencePending"} /\ Outcome(slot) \in outcomes
  /\ Refences(NoFence)
  /\ UNCHANGED <<minted, outcomes>>

StoreCreates ==
  /\ slot = Vacant /\ slot' = Successor(Vacant, <<>>, NoFence)
  /\ UNCHANGED <<minted, outcomes>>

StoreDeletes ==
  /\ Live /\ slot' = [slot EXCEPT !.at = "Tombstoned"]
  /\ UNCHANGED <<minted, outcomes>>

\* The steps that publish no update
QuietStep ==
  \/ UNCHANGED <<slot, minted, outcomes>>
  \/ StoreWithdraws \/ StoreRefuses \/ StoreApplies
  \/ StoreTells \/ StoreLifts \/ StoreCreates \/ StoreDeletes

StoreStep == QuietStep \/ StorePublishes \/ StoreRaises

\* What is staged and known of the updates
UpdateState == <<staged, refused, appended, acked, lost, repeats>>

\* The actions that publish updates
Writes ==
  \E result \in Results :
    \/ \E n \in 1 .. MaxUpdates, durable \in BOOLEAN : append_update(n, durable, result)
    \/ flush(result) \/ publish_mark(result)
    \/ \E input \in Inputs : begin_compaction(input, result)

LEMMA CommitStore ==
  ASSUME ConstantsAssumption, TypeOK,
         NEW updates \in Seq(1 .. MaxUpdates), NEW marks \in {<<>>, <<Mark>>},
         NEW result \in Results, commit(updates, marks, result), UNCHANGED <<minted, outcomes>>
  PROVE  StoreStep
<1>1. (result = "Failed" /\ slot' = slot) \/ (result # "Failed" /\ Publishes(updates))
  BY CommitStep
<1> QED BY <1>1 DEF StoreStep, QuietStep, StorePublishes

LEMMA BeginStore ==
  ASSUME ConstantsAssumption, Ind, NEW input \in Inputs, NEW result \in Results, begin_compaction(input, result)
  PROVE  StoreStep
<1> USE BeginCases DEF Ind
<1>1. outcomes' = outcomes /\ staged \in Seq(1 .. MaxUpdates) /\ <<>> \in {<<>>, <<Mark>>}
  BY DEF TypeOK
<1>2. CASE BeginFlushFails
  <2>1. PICK r \in Results \ {"Ok"} : commit(staged, <<>>, r) /\ minted' = minted
    BY <1>2 DEF BeginFlushFails
  <2> QED BY <1>1, <2>1, CommitStore
<1>3. CASE BeginRaises(input, result)
  <2>1. /\ FlushedSlot \in Slot /\ FlushedSlot.at = "Live" /\ FlushedSlot.fence = NoFence
        /\ ExtendsBy(slot.log, FlushedSlot.log, staged)
        /\ NewIntent(input) \in Intent /\ NewIntent(input).id = minted + 1
        /\ FencedSlot(input) \in Slot /\ FencedSlot(input).at = "Live"
        /\ FencedSlot(input).fence = IntentPending(NewIntent(input))
        /\ FencedSlot(input).log = FlushedSlot.log
    BY <1>3, RaiseFacts DEF BeginRaises
  <2>2. Live /\ slot.fence = NoFence /\ minted' = minted + 1
    BY <1>3 DEF BeginRaises
  <2>3. CASE slot' = FlushedSlot
    BY <1>1, <2>1, <2>2, <2>3 DEF StoreStep, StorePublishes, Publishes
  <2>4. CASE slot' = FencedSlot(input)
    <3>1. slot'.fence.at = "IntentPending" /\ slot'.fence.intent = NewIntent(input)
      BY <2>1, <2>4, FenceTypes
    <3> QED BY <1>1, <2>1, <2>2, <2>4, <3>1 DEF StoreStep, StoreRaises
  <2> QED BY <1>3, <2>3, <2>4 DEF BeginRaises
<1>4. CASE BeginTakesOver(input)
  BY <1>1, <1>4 DEF BeginTakesOver, StoreStep, QuietStep
<1> QED BY <1>2, <1>3, <1>4

\* What a call to compaction_not_applied does to the manifest
LEMMA NotAppliedStore ==
  ASSUME TypeOK, op = NoOp, NEW id, NEW reason \in Reasons, NEW by \in {"driver", "recovery"},
         NEW result \in Results, NotAppliedBegins(id, reason, by, result), UNCHANGED <<minted, outcomes>>
  PROVE  QuietStep
<1>1. \/ slot' = slot
      \/ slot.fence.at = "IntentPending" /\ Refences(NotAppliedPending(slot.fence.intent, reason))
  BY NotAppliedFacts
<1> QED BY <1>1 DEF QuietStep, StoreRefuses

LEMMA PublishStore ==
  ASSUME TypeOK, NEW result \in Results, publish_compaction(result)
  PROVE  QuietStep
<1>1. UNCHANGED <<minted, outcomes>>
  BY DEF publish_compaction, history
<1>2. \/ slot' = slot
      \/ /\ Live /\ slot.fence.at = "IntentPending" /\ slot' = PublishedSlot
         /\ slot.fence.intent.sequence = Len(slot.log)
  BY DEF publish_compaction, is_exact_pending_base, Cas, PublishedSlot
<1> QED BY <1>1, <1>2 DEF QuietStep, StoreApplies

LEMMA ObserverStore ==
  ASSUME ConstantsAssumption, Ind, NEW result \in Results,
         Hear \/ IntentRejected(result) \/ OutcomeAcknowledged(result)
  PROVE  QuietStep
<1> USE DEF Ind
<1>1. op # NoOp
  BY DEF Hear, IntentRejected, OutcomeAcknowledged
<1>2. /\ op.document = slot /\ Live /\ op.at \in {"intent", "notApplied", "applied"}
      /\ op.at = "intent" => slot.fence.at = "IntentPending"
      /\ op.at # "intent" => slot.fence.at \in {"NotAppliedPending", "EvidencePending"}
  BY <1>1, OpFacts DEF OpOK
<1> DEFINE lifted == Successor(slot, slot.log, NoFence)
<1>3. slot' = lifted => Refences(NoFence)
  BY <1>1, <1>2, LiftFacts DEF Refences
<1> HIDE DEF lifted
<1>4. CASE Hear
  BY <1>2, <1>4 DEF Hear, QuietStep, StoreTells
<1>5. CASE IntentRejected(result)
  <2>1. (slot' = slot \/ slot' = lifted) /\ op.at = "intent" /\ UNCHANGED <<minted, outcomes>>
    BY <1>5 DEF IntentRejected, Cas, lifted, history
  <2> QED BY <1>2, <1>3, <2>1 DEF QuietStep, StoreWithdraws
<1>6. CASE OutcomeAcknowledged(result)
  <2>1. (slot' = slot \/ slot' = lifted) /\ op.at # "intent" /\ op.heard /\ UNCHANGED <<minted, outcomes>>
    BY <1>2, <1>6 DEF OutcomeAcknowledged, Cas, lifted, history
  <2>2. Outcome(slot) \in outcomes
    BY <1>1, <1>2, <2>1 DEF HeardOK
  <2> QED BY <1>2, <1>3, <2>1, <2>2 DEF QuietStep, StoreLifts
<1> QED BY <1>4, <1>5, <1>6

LEMMA RecoverStore ==
  ASSUME ConstantsAssumption, Ind, NEW why \in {"startup", "prompt", "compact"}, NEW result \in Results,
         recover_native_compaction(why, result)
  PROVE  QuietStep
<1>1. op = NoOp /\ UNCHANGED <<minted, outcomes>> /\ TypeOK /\ slot.fence \in Fence
  BY SlotFacts DEF recover_native_compaction, history, Ind, TypeOK
<1>2. \/ slot' = slot
      \/ NotAppliedBegins(slot.fence.intent.id, RecoverReason(slot.fence), "recovery", result)
  BY DEF recover_native_compaction
<1> QED BY <1>1, <1>2, NotAppliedStore, RecoverReasonFacts DEF QuietStep

LEMMA SessionStore ==
  ASSUME NEW result \in Results, create(result) \/ tombstone(result)
  PROVE  QuietStep
BY DEF create, tombstone, Cas, history, QuietStep, StoreCreates, StoreDeletes

\* Every other action leaves the updates alone, unless it ends the process.
LEMMA QuietNext ==
  ASSUME ConstantsAssumption, Ind, [Next]_vars
  PROVE  Writes \/ Crash \/ (QuietStep /\ UNCHANGED UpdateState)
<1> USE DEF Ind
<1> DEFINE Quiet == QuietStep /\ UNCHANGED UpdateState
<1>1. CASE UNCHANGED vars
  BY <1>1 DEF vars, memory, history, QuietStep, UpdateState
<1>2. ASSUME NEW result \in Results, NEW reason \in Reasons \ {Interrupted}, compaction_not_applied(reason, result)
      PROVE  Quiet
  <2>1. op = NoOp /\ NotAppliedBegins(driver.id, reason, "driver", result) /\ UNCHANGED <<minted, outcomes>>
    BY <1>2 DEF compaction_not_applied, Serving, history
  <2>2. UNCHANGED UpdateState
    BY <1>2 DEF compaction_not_applied, history, UpdateState
  <2> QED BY <2>1, <2>2, NotAppliedStore
<1>3. ASSUME NEW result \in Results, publish_compaction(result)
      PROVE  Quiet
  <2>1. UNCHANGED UpdateState
    BY <1>3 DEF publish_compaction, history, UpdateState
  <2> QED BY <1>3, <2>1, PublishStore
<1>4. ASSUME NEW result \in Results, Hear \/ IntentRejected(result) \/ OutcomeAcknowledged(result)
      PROVE  Quiet
  <2>1. UNCHANGED UpdateState
    BY <1>4 DEF Hear, IntentRejected, OutcomeAcknowledged, history, UpdateState
  <2> QED BY <1>4, <2>1, ObserverStore
<1>5. CASE Hear
  BY <1>4, <1>5 DEF Results
<1>6. ASSUME NEW result \in Results, NEW why \in {"startup", "prompt", "compact"},
             recover_native_compaction(why, result)
      PROVE  Quiet
  <2>1. UNCHANGED UpdateState
    BY <1>6 DEF recover_native_compaction, history, UpdateState
  <2> QED BY <1>6, <2>1, RecoverStore
<1>7. ASSUME NEW result \in Results, create(result) \/ tombstone(result)
       PROVE  Quiet
  <2>1. UNCHANGED UpdateState
    BY <1>7 DEF create, tombstone, memory, history, UpdateState
  <2> QED BY <1>7, <2>1, SessionStore
<1>8. CASE \/ open \/ install_published_compaction \/ compaction_applied \/ ObserverFails \/ IntentAcknowledged
           \/ run_compact_only \/ DriverEnds \/ TurnAborted \/ RecoveryInstalls \/ RecoveryAcknowledges
  BY <1>8 DEF open, install_published_compaction, compaction_applied, ObserverFails, IntentAcknowledged,
              run_compact_only, DriverEnds, TurnAborted, RecoveryInstalls, RecoveryAcknowledges,
              history, QuietStep, UpdateState
<1> QED BY <1>1, <1>2, <1>3, <1>4, <1>5, <1>6, <1>7, <1>8 DEF Next, Writes

LEMMA WritesStore ==
  ASSUME ConstantsAssumption, Ind, Writes
  PROVE  StoreStep
<1> USE DEF Ind
<1>1. staged \in Seq(1 .. MaxUpdates) /\ <<>> \in {<<>>, <<Mark>>} /\ <<Mark>> \in {<<>>, <<Mark>>}
  BY DEF TypeOK
<1>2. ASSUME NEW result \in Results, NEW n \in 1 .. MaxUpdates, NEW durable \in BOOLEAN,
             append_update(n, durable, result)
      PROVE  StoreStep
  <2>1. UNCHANGED <<minted, outcomes>> /\ Append(staged, n) \in Seq(1 .. MaxUpdates)
    BY <1>1, <1>2 DEF append_update
  <2>2. slot' = slot \/ commit(Append(staged, n), <<>>, result)
    BY <1>2 DEF append_update
  <2> QED BY <1>1, <2>1, <2>2, CommitStore DEF StoreStep, QuietStep
<1>3. ASSUME NEW result \in Results, flush(result) \/ publish_mark(result)
      PROVE  StoreStep
  <2>1. PICK marks \in {<<>>, <<Mark>>} : commit(staged, marks, result)
    BY <1>3 DEF flush, publish_mark
  <2>2. UNCHANGED <<minted, outcomes>>
    BY <1>3 DEF flush, publish_mark
  <2> QED BY <1>1, <2>1, <2>2, CommitStore
<1>4. ASSUME NEW result \in Results, NEW input \in Inputs, begin_compaction(input, result)
      PROVE  StoreStep
  BY <1>4, BeginStore
<1> QED BY <1>2, <1>3, <1>4 DEF Writes

\* Every step is one of the steps of the store.
LEMMA EveryStoreStep ==
  ASSUME ConstantsAssumption, Ind, [Next]_vars
  PROVE  StoreStep
<1>1. CASE Crash
  BY <1>1 DEF Crash, StoreStep, QuietStep
<1> QED BY <1>1, QuietNext, WritesStore DEF StoreStep

-----------------------------------------------------------------------------
(* Refinement *)

\* A flush extends the log in the sense of the audited log.
LEMMA ExtendsByExtends ==
  ASSUME NEW new, NEW updates \in Seq(1 .. MaxUpdates), slot \in Slot, MaxUpdates \in Nat,
         ExtendsBy(slot.log, new, updates)
  PROVE  Audited!Extends(new)
<1>1. \A i \in DOMAIN new : i \in DOMAIN slot.log \/ new[i].kind # "compaction"
  <2> SUFFICES ASSUME NEW i \in DOMAIN new, i \notin DOMAIN slot.log PROVE new[i].kind # "compaction"
    OBVIOUS
  <2>1. CASE new[i] = Mark
    BY <2>1, RecordTypes
  <2>2. ASSUME NEW j \in DOMAIN updates, i = Len(slot.log) + j
        PROVE  new[i].kind # "compaction"
    <3>1. new[i] = Update(updates[j])
      BY <2>2 DEF ExtendsBy
    <3> QED BY <3>1, RecordTypes
  <2> QED BY <2>1, <2>2 DEF ExtendsBy
<1> QED BY <1>1 DEF ExtendsBy, Audited!Extends, Audited!Record, Record

\* The abstract fences
LEMMA AbstractFences ==
  ASSUME ConstantsAssumption
  PROVE  /\ AbstractFence(NoFence) = Audited!Open
         /\ \A f \in Fence :
              /\ AbstractFence(f).at = f.at
              /\ f.at # "None" => AbstractFence(f).id = f.intent.id
              /\ f.at = "IntentPending" => AbstractFence(f) = Audited!Raised(f.intent.id)
              /\ f.at = "EvidencePending" => AbstractFence(f) = Audited!Applied(f.intent.id)
              /\ f.at = "NotAppliedPending" => AbstractFence(f) = Audited!Refused(f.intent.id, f.reason)
<1>1. AbstractFence(NoFence) = Audited!Open
  BY FenceTypes DEF AbstractFence, Audited!Open
<1>2. ASSUME NEW f \in Fence
      PROVE  /\ AbstractFence(f).at = f.at
             /\ f.at # "None" => AbstractFence(f).id = f.intent.id
             /\ f.at = "IntentPending" => AbstractFence(f) = Audited!Raised(f.intent.id)
             /\ f.at = "EvidencePending" => AbstractFence(f) = Audited!Applied(f.intent.id)
             /\ f.at = "NotAppliedPending" => AbstractFence(f) = Audited!Refused(f.intent.id, f.reason)
  <2>1. f = NoFence <=> f.at = "None"
    BY FenceFacts
  <2> QED BY <2>1 DEF AbstractFence, Audited!Raised, Audited!Applied, Audited!Refused
<1> QED BY <1>1, <1>2

\* The verdict of the abstract fence is the outcome the observer is told.
LEMMA AbstractVerdict ==
  ASSUME ConstantsAssumption, slot \in Slot, slot.fence.at \in {"NotAppliedPending", "EvidencePending"}
  PROVE  Audited!Verdict = Outcome(slot) /\ Audited!Settled
<1>1. slot.fence \in Fence
  BY SlotFacts
<1>2. CASE slot.fence.at = "EvidencePending"
  BY <1>1, <1>2, AbstractFences DEF Audited!Verdict, Audited!Settled, Audited!Applied, Outcome
<1>3. CASE slot.fence.at = "NotAppliedPending"
  BY <1>1, <1>3, AbstractFences DEF Audited!Verdict, Audited!Settled, Audited!Refused, Outcome
<1> QED BY <1>2, <1>3

LEMMA StepImplements ==
  ASSUME ConstantsAssumption, TypeOK, StoreStep
  PROVE  [Audited!Next]_(Audited!vars)
<1>1. slot \in Slot /\ slot.fence \in Fence /\ MaxUpdates \in Nat
  BY SlotFacts DEF TypeOK, ConstantsAssumption
<1>2. CASE UNCHANGED <<slot, minted, outcomes>>
  BY <1>2 DEF Audited!vars, AbstractFence
<1>3. CASE StorePublishes
  <2>1. PICK updates \in Seq(1 .. MaxUpdates) : Publishes(updates)
    BY <1>3 DEF StorePublishes
  <2>2. Audited!Extends(slot'.log)
    BY <1>1, <2>1, ExtendsByExtends DEF Publishes
  <2>3. AbstractFence(slot.fence) = Audited!Open /\ AbstractFence(slot'.fence) = Audited!Open
    BY <2>1, AbstractFences DEF Publishes
  <2>4. slot.at = "Live" /\ slot'.at = "Live" /\ outcomes' = outcomes /\ minted' \in {minted, minted + 1}
    BY <1>3, <2>1 DEF StorePublishes, Publishes, Live
  <2>5. Audited!Publish
    BY <2>2, <2>3, <2>4 DEF Audited!Publish, AbstractFence
  <2> QED BY <2>5 DEF Audited!Next
<1>4. CASE StoreRaises
  <2>1. PICK updates \in Seq(1 .. MaxUpdates) : ExtendsBy(slot.log, slot'.log, updates)
    BY <1>4 DEF StoreRaises
  <2>2. Audited!Extends(slot'.log)
    BY <1>1, <2>1, ExtendsByExtends
  <2>3. AbstractFence(slot.fence) = Audited!Open /\ AbstractFence(slot'.fence) = Audited!Raised(minted')
    <3>1. slot'.fence \in Fence
      BY <1>4, SlotFacts DEF StoreRaises
    <3> QED BY <1>4, <3>1, AbstractFences DEF StoreRaises
  <2>4. slot.at = "Live" /\ slot'.at = "Live" /\ outcomes' = outcomes /\ minted' = minted + 1
    BY <1>4 DEF StoreRaises, Live
  <2>5. Audited!Raise
    BY <2>2, <2>3, <2>4 DEF Audited!Raise, AbstractFence, Audited!Raised
  <2> QED BY <2>5 DEF Audited!Next
<1>5. CASE StoreWithdraws
  <2>1. AbstractFence(slot.fence).at = "IntentPending" /\ AbstractFence(slot'.fence) = Audited!Open
    BY <1>1, <1>5, AbstractFences DEF StoreWithdraws, Refences
  <2>2. slot.at = "Live" /\ slot'.at = "Live" /\ slot'.log = slot.log /\ UNCHANGED <<minted, outcomes>>
    BY <1>5 DEF StoreWithdraws, Refences, Live
  <2>3. Audited!Withdraw
    BY <2>1, <2>2 DEF Audited!Withdraw, AbstractFence
  <2> QED BY <2>3 DEF Audited!Next
<1>6. CASE StoreRefuses
  <2>1. PICK reason \in Reasons : Refences(NotAppliedPending(slot.fence.intent, reason))
    BY <1>6 DEF StoreRefuses
  <2>2. slot.fence.at = "IntentPending" /\ slot.fence.intent \in Intent
    BY <1>1, <1>6, FenceFacts DEF StoreRefuses
  <2>3. /\ slot'.fence \in Fence /\ slot'.fence.at = "NotAppliedPending"
        /\ slot'.fence.intent = slot.fence.intent /\ slot'.fence.reason = reason
    BY <2>1, <2>2, FenceTypes DEF Refences
  <2>4. /\ AbstractFence(slot.fence).at = "IntentPending" /\ AbstractFence(slot.fence).id = slot.fence.intent.id
        /\ AbstractFence(slot'.fence) = Audited!Refused(slot.fence.intent.id, reason)
    BY <1>1, <2>2, <2>3, AbstractFences
  <2>5. slot.at = "Live" /\ slot'.at = "Live" /\ slot'.log = slot.log /\ UNCHANGED <<minted, outcomes>>
    BY <1>6, <2>1 DEF StoreRefuses, Refences, Live
  <2>6. Audited!Refuse
    BY <2>4, <2>5 DEF Audited!Refuse, AbstractFence
  <2> QED BY <2>6 DEF Audited!Next
<1>7. CASE StoreApplies
  <2>1. Live /\ slot.fence.at = "IntentPending" /\ slot.fence.intent.sequence = Len(slot.log) /\ slot' = PublishedSlot
    BY <1>7 DEF StoreApplies
  <2>2. /\ slot'.at = "Live" /\ slot'.log = Append(slot.log, Publication(slot.fence.intent))
        /\ slot'.fence = EvidencePending(slot.fence.intent) /\ slot.fence.intent \in Intent
    BY <2>1, PublishFacts
  <2>3. /\ slot'.fence \in Fence /\ slot'.fence.at = "EvidencePending" /\ slot'.fence.intent = slot.fence.intent
    BY <2>2, FenceTypes
  <2>4. /\ AbstractFence(slot.fence).at = "IntentPending" /\ AbstractFence(slot.fence).id = slot.fence.intent.id
        /\ AbstractFence(slot'.fence) = Audited!Applied(slot.fence.intent.id)
    BY <1>1, <2>1, <2>3, AbstractFences
  <2>5. slot'.log = Append(slot.log, [kind |-> "compaction", of |-> slot.fence.intent.id, base |-> Len(slot.log)])
    BY <2>1, <2>2 DEF Publication
  <2>6. slot.at = "Live" /\ slot'.at = "Live" /\ UNCHANGED <<minted, outcomes>>
    BY <1>7, <2>1, <2>2 DEF StoreApplies, Live
  <2>7. Audited!Apply
    BY <2>4, <2>5, <2>6 DEF Audited!Apply, AbstractFence
  <2> QED BY <2>7 DEF Audited!Next
<1>8. CASE StoreTells
  <2>1. Audited!Verdict = Outcome(slot) /\ Audited!Settled
    BY <1>1, <1>8, AbstractVerdict DEF StoreTells
  <2>2. slot.at = "Live" /\ outcomes' = outcomes \cup {Outcome(slot)} /\ UNCHANGED <<slot, minted>>
    BY <1>8 DEF StoreTells, Live
  <2>3. Audited!Tell
    BY <2>1, <2>2 DEF Audited!Tell, AbstractFence
  <2> QED BY <2>3 DEF Audited!Next
<1>9. CASE StoreLifts
  <2>1. Audited!Verdict = Outcome(slot) /\ Audited!Settled
    BY <1>1, <1>9, AbstractVerdict DEF StoreLifts
  <2>2. AbstractFence(slot'.fence) = Audited!Open /\ Outcome(slot) \in outcomes
    BY <1>9, AbstractFences DEF StoreLifts, Refences
  <2>3. slot.at = "Live" /\ slot'.at = "Live" /\ slot'.log = slot.log /\ UNCHANGED <<minted, outcomes>>
    BY <1>9 DEF StoreLifts, Refences, Live
  <2>4. Audited!Lift
    BY <2>1, <2>2, <2>3 DEF Audited!Lift, AbstractFence
  <2> QED BY <2>4 DEF Audited!Next
<1>10. CASE StoreCreates
  <2>1. /\ slot.at = "Vacant" /\ slot.log = <<>> /\ slot.fence = NoFence
        /\ slot'.at = "Live" /\ slot'.log = <<>> /\ slot'.fence = NoFence /\ UNCHANGED <<minted, outcomes>>
    BY <1>10, CreateFacts DEF StoreCreates, Vacant
  <2>2. Audited!Create
    BY <2>1 DEF Audited!Create, AbstractFence
  <2> QED BY <2>2 DEF Audited!Next
<1>11. CASE StoreDeletes
  <2>1. /\ slot.at = "Live" /\ slot'.at = "Tombstoned" /\ slot'.log = slot.log /\ slot'.fence = slot.fence
        /\ UNCHANGED <<minted, outcomes>>
    BY <1>1, <1>11 DEF StoreDeletes, Live, Slot
  <2>2. Audited!Delete
    BY <2>1 DEF Audited!Delete, AbstractFence
  <2> QED BY <2>2 DEF Audited!Next
<1> QED BY <1>2, <1>3, <1>4, <1>5, <1>6, <1>7, <1>8, <1>9, <1>10, <1>11 DEF StoreStep, QuietStep

\* The protocol of the bridge and the Session actor, with every call that may
\* be lost and every crash, implements the audited log.
THEOREM Refinement == Spec => RefinesAuditedLog
<1>1. Init => Audited!Init
  <2>1. ConstantsAssumption
    BY ConstantsAssumption
  <2> QED BY <2>1, AbstractFences DEF Init, Vacant, Audited!Init
<1>2. Ind /\ [Next]_vars => [Audited!Next]_(Audited!vars)
  <2>1. ConstantsAssumption
    BY ConstantsAssumption
  <2> QED BY <2>1, EveryStoreStep, StepImplements DEF Ind
<1> QED BY <1>1, <1>2, Inductive, PTL DEF Spec, RefinesAuditedLog, Audited!Spec

-----------------------------------------------------------------------------
(* What the Session log inherits *)

AP == INSTANCE AuditedLogProofs WITH
  AppliedReason <- Interrupted, at <- slot.at, log <- slot.log,
  fence <- AbstractFence(slot.fence), last <- minted, told <- outcomes

LEMMA AuditedOutcomes == Audited!Spec => [](VerdictIsTrue /\ CheckpointCoversItsBase)
<1>1. Interrupted \in Reasons
  BY ConstantsAssumption DEF ConstantsAssumption
<1>2. AP!Spec => []AP!ToldIsTrue
  BY <1>1, AP!OutcomesAreTrue
<1>3. AP!Spec => []AP!CheckpointsCoverTheirBase
  BY <1>1, AP!CheckpointsCover
<1>4. AP!ToldIsTrue => VerdictIsTrue
  BY DEF AP!ToldIsTrue, AP!Compactions, VerdictIsTrue, Compactions
<1>5. AP!CheckpointsCoverTheirBase => CheckpointCoversItsBase
  BY DEF AP!CheckpointsCoverTheirBase, CheckpointCoversItsBase
<1>6. Audited!Init => AP!Init
  BY DEF Audited!Init, AP!Init, Audited!Open, AP!Open
<1>7. [Audited!Next]_(Audited!vars) => [AP!Next]_(AP!vars)
  BY DEF Audited!Next, Audited!vars, AP!Next, AP!vars,
         Audited!Create, Audited!Publish, Audited!Raise, Audited!Withdraw, Audited!Refuse, Audited!Apply,
         Audited!Tell, Audited!Lift, Audited!Delete, Audited!Open, Audited!Raised, Audited!Refused,
         Audited!Applied, Audited!Verdict, Audited!Settled, Audited!Extends, Audited!Record,
         AP!Create, AP!Publish, AP!Raise, AP!Withdraw, AP!Refuse, AP!Apply,
         AP!Tell, AP!Lift, AP!Delete, AP!Open, AP!Raised, AP!Refused,
         AP!Applied, AP!Verdict, AP!Settled, AP!Extends, AP!Record
<1> QED BY <1>2, <1>3, <1>4, <1>5, <1>6, <1>7, PTL DEF Audited!Spec, AP!Spec

\* What the observer was told is true and stays true: the verdict of a
\* compaction is in the log, and is the same however often it is repeated.
THEOREM OutcomesAreTrue == Spec => []VerdictIsTrue
BY Refinement, AuditedOutcomes, PTL DEF RefinesAuditedLog

\* A checkpoint summarises exactly the records before it.
THEOREM CheckpointsCover == Spec => []CheckpointCoversItsBase
BY Refinement, AuditedOutcomes, PTL DEF RefinesAuditedLog

-----------------------------------------------------------------------------
(* The log only grows *)

\* What every step of the store does to the log
LEMMA LogGrows ==
  ASSUME ConstantsAssumption, TypeOK, StoreStep
  PROVE  /\ slot'.log \in Seq(Record) /\ Len(slot'.log) >= Len(slot.log)
         /\ \A i \in DOMAIN slot.log : i \in DOMAIN slot'.log /\ slot'.log[i] = slot.log[i]
         /\ slot.at = "Tombstoned" => slot' = slot
<1>1. slot \in Slot /\ slot.log \in Seq(Record)
  BY SlotFacts DEF TypeOK
<1>2. CASE slot' = slot
  BY <1>1, <1>2
<1>3. ASSUME slot.at # "Tombstoned", slot'.log = slot.log
      PROVE  /\ slot'.log \in Seq(Record) /\ Len(slot'.log) >= Len(slot.log)
             /\ \A i \in DOMAIN slot.log : i \in DOMAIN slot'.log /\ slot'.log[i] = slot.log[i]
             /\ slot.at = "Tombstoned" => slot' = slot
  BY <1>1, <1>3
<1>4. CASE StorePublishes \/ StoreRaises
  BY <1>4 DEF StorePublishes, StoreRaises, Publishes, ExtendsBy, Live
<1>5. CASE StoreWithdraws \/ StoreRefuses \/ StoreLifts
  BY <1>3, <1>5 DEF StoreWithdraws, StoreRefuses, StoreLifts, Refences, Live
<1>6. CASE StoreApplies
  <2> DEFINE record == Publication(slot.fence.intent)
  <2>1. slot.at = "Live" /\ slot'.log = Append(slot.log, record) /\ slot'.log \in Seq(Record)
    BY <1>6, PublishFacts, SlotFacts DEF StoreApplies, Live
  <2> HIDE DEF record
  <2> QED BY <1>1, <2>1
<1>7. CASE StoreCreates
  <2>1. slot.at = "Vacant" /\ slot.log = <<>> /\ slot'.log = <<>>
    BY <1>7, CreateFacts DEF StoreCreates, Vacant
  <2> QED BY <1>3, <2>1
<1>8. CASE StoreDeletes
  <2>1. slot.at = "Live" /\ slot'.log = slot.log
    BY <1>1, <1>8 DEF StoreDeletes, Live, Slot
  <2> QED BY <1>3, <2>1
<1> QED BY <1>2, <1>4, <1>5, <1>6, <1>7, <1>8 DEF StoreStep, QuietStep, StoreTells

\* No step rewrites or shortens the log, and none revives a deleted Session.
THEOREM SlotGrows == Spec => SlotOnlyGrows
<1>1. ConstantsAssumption
  BY ConstantsAssumption
<1>2. Ind /\ [Next]_vars
        => [/\ Len(slot'.log) >= Len(slot.log)
            /\ \A i \in DOMAIN slot.log : slot'.log[i] = slot.log[i]
            /\ slot.at = "Tombstoned" => slot' = slot]_vars
  BY <1>1, EveryStoreStep, LogGrows DEF Ind
<1> QED BY <1>2, Inductive, PTL DEF Spec, SlotOnlyGrows

-----------------------------------------------------------------------------
(* The updates *)

\* The updates below n are in the log, staged or lost; the acknowledged ones
\* are in the log.
Accounted(log, updates, n, gone, known) ==
  1 .. n \subseteq Updates(log) \cup SetOf(updates) \cup gone /\ known \subseteq Updates(log)

\* No update is in use that was not appended.
Within(log, updates, n) == Updates(log) \subseteq 1 .. n /\ SetOf(updates) \subseteq 1 .. n

Ordered(log, updates) ==
  LET published == {i \in DOMAIN log : log[i].kind = "update"} IN
  /\ \A i, j \in published : i < j => log[i].of < log[j].of
  /\ \A i \in published, j \in DOMAIN updates : log[i].of < updates[j]
  /\ \A i, j \in DOMAIN updates : i < j => updates[i] < updates[j]

LogInd ==
  /\ Accounted(slot.log, staged, appended, lost, acked)
  /\ Within(slot.log, staged, appended) /\ refused \subseteq 1 .. appended
  /\ repeats = 0 => Ordered(slot.log, staged)

\* A log that grows by records that are not updates has the same updates.
LEMMA GrowsQuietly ==
  ASSUME NEW old \in Seq(Record), NEW new \in Seq(Record), NEW updates,
         \A i \in DOMAIN old : i \in DOMAIN new /\ new[i] = old[i],
         \A i \in DOMAIN new : i \in DOMAIN old \/ new[i].kind # "update"
  PROVE  Updates(new) = Updates(old) /\ (Ordered(old, updates) => Ordered(new, updates))
<1>1. {i \in DOMAIN new : new[i].kind = "update"} = {i \in DOMAIN old : old[i].kind = "update"}
  OBVIOUS
<1>2. \A i \in {i \in DOMAIN old : old[i].kind = "update"} : new[i] = old[i]
  OBVIOUS
<1> QED BY <1>1, <1>2 DEF Updates, Ordered

\* Where the updates of a flush are
LEMMA FlushedUpdates ==
  ASSUME MaxUpdates \in Nat, NEW old \in Seq(Record), NEW new, NEW updates \in Seq(1 .. MaxUpdates),
         ExtendsBy(old, new, updates)
  PROVE  /\ Updates(new) = Updates(old) \cup SetOf(updates)
         /\ Ordered(old, updates) => Ordered(new, <<>>)
<1> DEFINE fresh(i) == \E j \in DOMAIN updates : i = Len(old) + j /\ new[i].of = updates[j] /\ new[i].kind = "update"
<1>1. \A j \in DOMAIN updates : /\ Len(old) + j \in DOMAIN new /\ new[Len(old) + j].kind = "update"
                                /\ new[Len(old) + j].of = updates[j]
  <2>1. \A j \in DOMAIN updates : updates[j] \in Nat
    OBVIOUS
  <2> QED BY <2>1, RecordTypes DEF ExtendsBy
<1>2. \A i \in DOMAIN old : i \in DOMAIN new /\ new[i] = old[i]
  BY DEF ExtendsBy
<1>3. \A i \in DOMAIN new : new[i].kind = "update" => i \in DOMAIN old \/ fresh(i)
  <2> SUFFICES ASSUME NEW i \in DOMAIN new, new[i].kind = "update", i \notin DOMAIN old PROVE fresh(i)
    OBVIOUS
  <2>1. new[i] # Mark
    BY RecordTypes
  <2>2. PICK j \in DOMAIN updates : i = Len(old) + j
    BY <2>1 DEF ExtendsBy
  <2> QED BY <1>1, <2>2
<1>4. Updates(new) = Updates(old) \cup SetOf(updates)
  <2>1. ASSUME NEW x \in Updates(new) PROVE x \in Updates(old) \cup SetOf(updates)
    <3>1. PICK i \in DOMAIN new : new[i].kind = "update" /\ x = new[i].of
      BY DEF Updates
    <3>2. CASE i \in DOMAIN old
      BY <1>2, <3>1, <3>2 DEF Updates
    <3>3. CASE fresh(i)
      BY <3>1, <3>3 DEF SetOf
    <3> QED BY <1>3, <3>1, <3>2, <3>3
  <2>2. ASSUME NEW x \in Updates(old) PROVE x \in Updates(new)
    BY <1>2 DEF Updates
  <2>3. ASSUME NEW x \in SetOf(updates) PROVE x \in Updates(new)
    <3>1. PICK j \in DOMAIN updates : x = updates[j]
      BY DEF SetOf
    <3>2. Len(old) + j \in DOMAIN new /\ new[Len(old) + j].kind = "update" /\ new[Len(old) + j].of = x
      BY <1>1, <3>1
    <3> QED BY <3>2 DEF Updates
  <2> QED BY <2>1, <2>2, <2>3
<1>5. ASSUME Ordered(old, updates) PROVE Ordered(new, <<>>)
  <2> DEFINE before == {i \in DOMAIN old : old[i].kind = "update"}
  <2>0. /\ \A i, j \in before : i < j => old[i].of < old[j].of
        /\ \A i \in before, j \in DOMAIN updates : old[i].of < updates[j]
        /\ \A i, j \in DOMAIN updates : i < j => updates[i] < updates[j]
    BY <1>5 DEF Ordered
  <2>1. ASSUME NEW i \in DOMAIN new, NEW j \in DOMAIN new,
               new[i].kind = "update", new[j].kind = "update", i < j
        PROVE  new[i].of < new[j].of
    <3>0. DOMAIN old = 1 .. Len(old) /\ Len(old) \in Nat /\ DOMAIN updates \subseteq Nat \ {0}
      OBVIOUS
    <3>1. CASE i \in DOMAIN old /\ j \in DOMAIN old
      BY <1>2, <2>0, <2>1, <3>1
    <3>2. CASE i \in DOMAIN old /\ fresh(j)
      BY <1>2, <2>0, <2>1, <3>2
    <3>3. CASE fresh(i) /\ j \in DOMAIN old
      <4>1. PICK k \in DOMAIN updates : i = Len(old) + k
        BY <3>3
      <4> QED BY <2>1, <3>0, <3>3, <4>1
    <3>4. CASE fresh(i) /\ fresh(j)
      <4>1. PICK k \in DOMAIN updates : i = Len(old) + k /\ new[i].of = updates[k]
        BY <3>4
      <4>2. PICK l \in DOMAIN updates : j = Len(old) + l /\ new[j].of = updates[l]
        BY <3>4
      <4>3. k < l
        BY <2>1, <3>0, <4>1, <4>2
      <4> QED BY <2>0, <4>1, <4>2, <4>3
    <3> QED BY <1>3, <2>1, <3>1, <3>2, <3>3, <3>4
  <2>2. DOMAIN <<>> = {}
    OBVIOUS
  <2> QED BY <2>1, <2>2 DEF Ordered
<1> QED BY <1>4, <1>5

\* What appending an update adds
LEMMA AppendedUpdate ==
  ASSUME NEW log \in Seq(Record), NEW updates \in Seq(1 .. MaxUpdates), MaxUpdates \in Nat,
         NEW n \in 1 .. MaxUpdates, NEW m \in Nat
  PROVE  /\ SetOf(Append(updates, n)) = SetOf(updates) \cup {n}
         /\ Ordered(log, updates) /\ Within(log, updates, m) /\ n = m + 1 => Ordered(log, Append(updates, n))
<1> DEFINE new == Append(updates, n)
<1>1. /\ DOMAIN new = 1 .. Len(updates) + 1 /\ DOMAIN updates = 1 .. Len(updates) /\ Len(updates) \in Nat
      /\ \A i \in DOMAIN updates : new[i] = updates[i]
      /\ new[Len(updates) + 1] = n
  OBVIOUS
<1> HIDE DEF new
<1>2. \A i \in DOMAIN new : i \in DOMAIN updates \/ i = Len(updates) + 1
  BY <1>1
<1>3. SetOf(new) = SetOf(updates) \cup {n}
  BY <1>1, <1>2 DEF SetOf
<1>4. ASSUME Ordered(log, updates), Within(log, updates, m), n = m + 1
      PROVE  Ordered(log, new)
  <2>1. \A i \in DOMAIN log : log[i].kind = "update" => log[i].of \in 1 .. m
    BY <1>4 DEF Within, Updates
  <2>2. \A i \in DOMAIN updates : updates[i] \in 1 .. m
    BY <1>4 DEF Within, SetOf
  <2>3. ASSUME NEW i \in DOMAIN log, log[i].kind = "update", NEW j \in DOMAIN new
        PROVE  log[i].of < new[j]
    <3>1. CASE j \in DOMAIN updates
      BY <1>1, <1>4, <2>3, <3>1 DEF Ordered
    <3>2. CASE j = Len(updates) + 1
      BY <1>1, <1>4, <2>1, <2>3, <3>2
    <3> QED BY <1>2, <3>1, <3>2
  <2>4. ASSUME NEW i \in DOMAIN new, NEW j \in DOMAIN new, i < j
        PROVE  new[i] < new[j]
    <3>1. i \in DOMAIN updates
      BY <1>1, <2>4
    <3>2. CASE j \in DOMAIN updates
      BY <1>1, <1>4, <2>4, <3>1, <3>2 DEF Ordered
    <3>3. CASE j = Len(updates) + 1
      BY <1>1, <1>4, <2>2, <3>1, <3>3
    <3> QED BY <1>2, <3>2, <3>3
  <2> QED BY <1>4, <2>3, <2>4 DEF Ordered
<1> QED BY <1>3, <1>4 DEF new

\* The log and the staged updates after a commit
LEMMA CommitLog ==
  ASSUME ConstantsAssumption, Ind, NEW updates \in Seq(1 .. MaxUpdates), NEW marks \in {<<>>, <<Mark>>},
         NEW result \in Results, commit(updates, marks, result),
         Accounted(slot.log, updates, appended', lost, acked), Within(slot.log, updates, appended'),
         lost' = lost, refused' \subseteq 1 .. appended',
         repeats' = 0 => Ordered(slot.log, updates) /\ (result = "Unresolved" => updates = <<>>)
  PROVE  LogInd'
<1>1. slot.log \in Seq(Record) /\ MaxUpdates \in Nat /\ TypeOK
  BY SlotFacts DEF Ind, TypeOK, ConstantsAssumption
<1>2. SetOf(<<>>) = {}
  BY DEF SetOf
<1>3. result \in {"Ok", "Unresolved", "Failed"}
  BY DEF Results
<1>4. CASE result = "Failed"
  <2>1. slot' = slot /\ staged' = updates /\ acked' = acked
    BY <1>1, <1>4, CommitStep DEF commit
  <2> QED BY <2>1 DEF LogInd
<1>5. CASE result # "Failed"
  <2>1. ExtendsBy(slot.log, slot'.log, updates)
    BY <1>1, <1>5, CommitStep DEF Publishes
  <2>2. /\ Updates(slot'.log) = Updates(slot.log) \cup SetOf(updates)
        /\ Ordered(slot.log, updates) => Ordered(slot'.log, <<>>)
    BY <1>1, <2>1, FlushedUpdates
  <2>3. CASE result = "Ok"
    <3>1. staged' = <<>> /\ acked' = acked \cup SetOf(updates)
      BY <2>3 DEF commit
    <3> QED BY <1>2, <2>2, <3>1 DEF LogInd, Accounted, Within
  <2>4. CASE result = "Unresolved"
    <3>1. staged' = updates /\ acked' = acked
      BY <2>4 DEF commit
    <3>2. repeats' = 0 => Ordered(slot'.log, staged')
      BY <2>2, <2>4, <3>1
    <3> QED BY <2>2, <3>1, <3>2 DEF LogInd, Accounted, Within
  <2> QED BY <1>3, <1>5, <2>3, <2>4
<1> QED BY <1>4, <1>5

LEMMA RepeatsFacts ==
  ASSUME TypeOK, MaxRepeats \in Nat, NEW again, Repeats(again), repeats' = 0
  PROVE  repeats = 0 /\ ~again
BY DEF Repeats, TypeOK

LEMMA AppendLog ==
  ASSUME ConstantsAssumption, Ind, LogInd, NEW n \in 1 .. MaxUpdates, NEW durable \in BOOLEAN, NEW result \in Results,
         append_update(n, durable, result)
  PROVE  LogInd'
<1> DEFINE updates == Append(staged, n)
<1>1. /\ TypeOK /\ staged \in Seq(1 .. MaxUpdates) /\ slot.log \in Seq(Record) /\ MaxUpdates \in Nat /\ MaxRepeats \in Nat
      /\ appended \in Nat /\ lost' = lost
  BY SlotFacts DEF Ind, TypeOK, ConstantsAssumption, append_update
<1>2. updates \in Seq(1 .. MaxUpdates) /\ <<>> \in {<<>>, <<Mark>>}
  BY <1>1
<1>3. \/ n = appended + 1 /\ appended' = n
      \/ n \in refused /\ appended' = appended
  BY DEF append_update
<1>4. 1 .. appended' = (1 .. appended) \cup {n}
  BY <1>1, <1>3 DEF LogInd
<1>5. SetOf(updates) = SetOf(staged) \cup {n}
  BY <1>1, AppendedUpdate
<1>6. Accounted(slot.log, updates, appended', lost, acked) /\ Within(slot.log, updates, appended')
  BY <1>4, <1>5 DEF LogInd, Accounted, Within
<1>7. refused' \subseteq 1 .. appended'
  BY <1>4 DEF append_update, LogInd
<1>8. repeats' = 0 => repeats = 0 /\ ~(n \in refused \/ (durable /\ result = "Unresolved"))
  BY <1>1, RepeatsFacts DEF append_update
<1>9. repeats' = 0 => Ordered(slot.log, updates)
  BY <1>1, <1>3, <1>8, AppendedUpdate DEF LogInd
<1> HIDE DEF updates
<1>10. CASE durable /\ commit(updates, <<>>, result)
  BY <1>1, <1>2, <1>6, <1>7, <1>8, <1>9, <1>10, CommitLog
<1>11. CASE ~durable /\ staged' = updates /\ UNCHANGED <<slot, acked>>
  BY <1>1, <1>6, <1>7, <1>9, <1>11 DEF LogInd
<1> QED BY <1>10, <1>11 DEF append_update, updates

\* A commit of what is staged
LEMMA StagedLog ==
  ASSUME ConstantsAssumption, Ind, LogInd, NEW result \in Results, NEW marks \in {<<>>, <<Mark>>},
         commit(staged, marks, result), Repeats(result = "Unresolved" /\ staged # <<>>),
         UNCHANGED <<refused, appended, lost>>
  PROVE  LogInd'
<1>1. TypeOK /\ staged \in Seq(1 .. MaxUpdates) /\ MaxRepeats \in Nat
  BY DEF Ind, TypeOK, ConstantsAssumption
<1>2. repeats' = 0 => repeats = 0 /\ ~(result = "Unresolved" /\ staged # <<>>)
  BY <1>1, RepeatsFacts
<1> QED BY <1>1, <1>2, CommitLog DEF LogInd

LEMMA BeginLog ==
  ASSUME ConstantsAssumption, Ind, LogInd, NEW input \in Inputs, NEW result \in Results,
         begin_compaction(input, result)
  PROVE  LogInd'
<1> USE BeginCases
<1>1. /\ TypeOK /\ staged \in Seq(1 .. MaxUpdates) /\ slot.log \in Seq(Record) /\ MaxUpdates \in Nat
      /\ <<>> \in {<<>>, <<Mark>>} /\ UNCHANGED <<refused, appended, lost>>
  BY SlotFacts DEF Ind, TypeOK, ConstantsAssumption
<1>2. CASE BeginFlushFails
  <2>1. PICK r \in Results \ {"Ok"} : staged # <<>> /\ commit(staged, <<>>, r) /\ Repeats(r = "Unresolved")
    BY <1>2 DEF BeginFlushFails
  <2>2. Repeats(r = "Unresolved" /\ staged # <<>>)
    BY <2>1 DEF Repeats
  <2> QED BY <1>1, <2>1, <2>2, StagedLog
<1>3. CASE BeginRaises(input, result)
  <2>1. ExtendsBy(slot.log, FlushedSlot.log, staged) /\ FencedSlot(input).log = FlushedSlot.log
    BY <1>1, <1>3, RaiseFacts DEF BeginRaises
  <2>2. /\ slot'.log = FlushedSlot.log /\ staged' = <<>> /\ acked' = acked \cup SetOf(staged) /\ repeats' = repeats
    BY <1>3, <2>1 DEF BeginRaises
  <2>3. /\ Updates(slot'.log) = Updates(slot.log) \cup SetOf(staged)
        /\ Ordered(slot.log, staged) => Ordered(slot'.log, <<>>)
    BY <1>1, <2>1, <2>2, FlushedUpdates
  <2>4. SetOf(<<>>) = {}
    BY DEF SetOf
  <2> QED BY <1>1, <2>2, <2>3, <2>4 DEF LogInd, Accounted, Within
<1>4. CASE BeginTakesOver(input)
  BY <1>1, <1>4 DEF BeginTakesOver, LogInd
<1> QED BY <1>2, <1>3, <1>4

LEMMA CrashLog ==
  ASSUME Ind, LogInd, Crash
  PROVE  LogInd'
<1>1. /\ slot' = slot /\ staged' = <<>> /\ lost' = lost \cup SetOf(staged) /\ refused' = {}
      /\ UNCHANGED <<appended, acked, repeats>>
  BY DEF Crash
<1>2. SetOf(<<>>) = {} /\ DOMAIN <<>> = {}
  BY DEF SetOf
<1> QED BY <1>1, <1>2 DEF LogInd, Accounted, Within, Ordered

LEMMA QuietLog ==
  ASSUME ConstantsAssumption, Ind, LogInd, QuietStep, UNCHANGED UpdateState
  PROVE  LogInd'
<1>1. TypeOK /\ slot \in Slot /\ slot.log \in Seq(Record)
  BY SlotFacts DEF Ind, TypeOK
<1>2. /\ slot'.log \in Seq(Record)
      /\ \A i \in DOMAIN slot.log : i \in DOMAIN slot'.log /\ slot'.log[i] = slot.log[i]
  BY <1>1, LogGrows DEF StoreStep
<1>3. \A i \in DOMAIN slot'.log : i \in DOMAIN slot.log \/ slot'.log[i].kind # "update"
  <2>1. CASE StoreApplies
    <3> DEFINE record == Publication(slot.fence.intent)
    <3>1. slot'.log = Append(slot.log, record)
      BY <1>1, <2>1, PublishFacts DEF StoreApplies
    <3>2. record.kind # "update"
      BY DEF Publication
    <3> HIDE DEF record
    <3>3. \A i \in DOMAIN slot'.log : i \in DOMAIN slot.log \/ slot'.log[i] = record
      BY <1>1, <3>1
    <3> QED BY <3>2, <3>3
  <2>2. CASE slot'.log = slot.log
    BY <2>2
  <2>3. StoreCreates => slot'.log = slot.log
    BY CreateFacts DEF StoreCreates, Vacant
  <2>4. StoreDeletes => slot'.log = slot.log
    BY <1>1 DEF StoreDeletes, Slot
  <2> QED BY <2>1, <2>2, <2>3, <2>4 DEF QuietStep, StoreWithdraws, StoreRefuses, StoreTells, StoreLifts, Refences
<1>4. Updates(slot'.log) = Updates(slot.log) /\ (Ordered(slot.log, staged) => Ordered(slot'.log, staged))
  BY <1>1, <1>2, <1>3, GrowsQuietly
<1> QED BY <1>4 DEF UpdateState, LogInd, Accounted, Within

LEMMA UpdatesInductive == Spec => []LogInd
<1>1. ConstantsAssumption
  BY ConstantsAssumption
<1>2. Init => LogInd
  <2> SUFFICES ASSUME Init PROVE LogInd
    OBVIOUS
  <2>1. slot.log = <<>> /\ staged = <<>> /\ DOMAIN <<>> = {} /\ 1 .. 0 = {}
    BY DEF Init, Vacant
  <2>2. Updates(slot.log) = {} /\ SetOf(staged) = {}
    BY <2>1 DEF Updates, SetOf
  <2> QED BY <2>1, <2>2 DEF Init, LogInd, Accounted, Within, Ordered
<1>3. Ind /\ LogInd /\ [Next]_vars => LogInd'
  <2> SUFFICES ASSUME Ind, LogInd, [Next]_vars PROVE LogInd'
    OBVIOUS
  <2>1. CASE Writes
    <3>1. ASSUME NEW result \in Results, NEW n \in 1 .. MaxUpdates, NEW durable \in BOOLEAN,
                 append_update(n, durable, result)
          PROVE  LogInd'
      BY <1>1, <3>1, AppendLog
    <3>2. ASSUME NEW result \in Results, flush(result) \/ publish_mark(result)
          PROVE  LogInd'
      <4>1. PICK marks \in {<<>>, <<Mark>>} : commit(staged, marks, result)
        BY <3>2 DEF flush, publish_mark
      <4>2. Repeats(result = "Unresolved" /\ staged # <<>>) /\ UNCHANGED <<refused, appended, lost>>
        BY <3>2 DEF flush, publish_mark
      <4> QED BY <1>1, <4>1, <4>2, StagedLog
    <3>3. ASSUME NEW result \in Results, NEW input \in Inputs, begin_compaction(input, result)
          PROVE  LogInd'
      BY <1>1, <3>3, BeginLog
    <3> QED BY <2>1, <3>1, <3>2, <3>3 DEF Writes
  <2>2. CASE Crash
    BY <2>2, CrashLog
  <2>3. CASE QuietStep /\ UNCHANGED UpdateState
    BY <1>1, <2>3, QuietLog
  <2> QED BY <1>1, <2>1, <2>2, <2>3, QuietNext
<1> QED BY <1>2, <1>3, Inductive, PTL DEF Spec

\* Across failed flushes, lost answers and compactions an appended update is
\* in the log or staged, unless the process died with it; an acknowledged one
\* is in the log.
THEOREM NoUpdateLost == Spec => []NothingLost
<1>1. LogInd => NothingLost
  BY DEF LogInd, Accounted, NothingLost
<1> QED BY <1>1, UpdatesInductive, PTL

\* Updates are published once and in the order of their appends, as long as
\* no publication went unnoticed and nothing was appended again.
THEOREM UpdatesInOrder == Spec => []InOrderOnce
<1>1. LogInd => InOrderOnce
  BY DEF LogInd, Ordered, InOrderOnce
<1> QED BY <1>1, UpdatesInductive, PTL

=============================================================================
