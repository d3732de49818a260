-------------------------- MODULE SessionLogProofs --------------------------
(***************************************************************************)
(* The Session log, for every number of updates, records, compactions,     *)
(* faults and retries.                                                     *)
(***************************************************************************)
EXTENDS SessionLog, SequenceTheorems, TLAPS

-----------------------------------------------------------------------------
(* The inductive invariant *)

\* A call that awaits the observer is about the fence of the manifest, which
\* nobody moves meanwhile.
OpOK ==
  op # NoOp =>
    /\ life # "Closed" /\ Live /\ op.document = slot
    /\ op.at = "intent" => slot.fence.at = "IntentPending" /\ op.by = "driver"
    /\ op.at = "notApplied" => slot.fence.at = "NotAppliedPending"
    /\ op.at = "applied" => slot.fence.at = "EvidencePending"

\* Only a running actor compacts; a recovery belongs to the startup of the
\* actor or to a running one, and waits for the call it made.
LifeOK ==
  /\ life # "Running" => driver.at = "Idle"
  /\ recovery.at # "Idle" => life = IF recovery.why = "startup" THEN "Starting" ELSE "Running"
  /\ op # NoOp /\ op.by = "recovery" => recovery.at = "Waiting"

\* What the observer is known to have heard is in its record.
HeardOK ==
  op # NoOp /\ op.heard =>
    IF op.at = "intent" THEN op.document.fence.intent.id \in intents
    ELSE Outcome(op.document) \in outcomes

\* A driver that waits for an answer waits for the one about its compaction.
WaitingOK ==
  op # NoOp /\ op.by = "driver" /\ driver.at = "Waiting" => driver.id = op.document.fence.intent.id

EvidenceOf(id) == slot.fence.at = "EvidencePending" /\ slot.fence.intent.id = id

\* A driver past its publication: the fence is still that of its checkpoint,
\* or a recovery lifted it.
PublishedOK ==
  /\ driver.at \in {"Published", "Installed"} => slot.fence = NoFence \/ EvidenceOf(driver.id)
  /\ driver.at = "Installed" => installed = driver.id

\* A recovery that installs a checkpoint: only the out-of-turn driver can
\* be ahead of it, with the same checkpoint.
RecoveringOK ==
  recovery.at \in {"Install", "Installed"} =>
    /\ \/ EvidenceOf(recovery.id)
       \/ slot.fence = NoFence /\ recovery.why = "compact" /\ driver.at = "Idle"
    /\ recovery.why # "compact" => driver.at \in {"Idle", "Ready"} /\ op = NoOp
    /\ recovery.why = "compact" => driver.at = "Idle" \/ driver.owner = "manual"
    /\ op # NoOp => op.by = "driver" /\ driver.at = "Waiting"
    /\ recovery.at = "Installed" => installed = recovery.id

Ind ==
  /\ TypeOK /\ OpOK /\ LifeOK /\ HeardOK /\ WaitingOK /\ PublishedOK /\ RecoveringOK
  /\ ModelOnlyAfterIntent /\ AppliedIsInstalled
-----------------------------------------------------------------------------
(* The manifest *)

\* The shape of a fence follows from its state.
LEMMA FenceFacts ==
  ASSUME NEW f \in Fence
  PROVE  /\ f.at \in {"None", "IntentPending", "NotAppliedPending", "EvidencePending"}
         /\ f.at = "None" <=> f = NoFence
         /\ f.at # "None" => f.intent \in Intent
         /\ f.at = "NotAppliedPending" => f.reason \in Reasons
         /\ f.at = "IntentPending" => f = IntentPending(f.intent)
BY DEF Fence, NoFence, IntentPending

LEMMA FenceTypes ==
  /\ NoFence \in Fence /\ NoFence.at = "None"
  /\ \A i \in Intent : /\ IntentPending(i) \in Fence /\ EvidencePending(i) \in Fence
                      /\ IntentPending(i).at = "IntentPending" /\ IntentPending(i).intent = i
                      /\ EvidencePending(i).at = "EvidencePending" /\ EvidencePending(i).intent = i
  /\ \A i \in Intent, r \in Reasons :
       /\ NotAppliedPending(i, r) \in Fence /\ NotAppliedPending(i, r).at = "NotAppliedPending"
       /\ NotAppliedPending(i, r).intent = i /\ NotAppliedPending(i, r).reason = r
BY DEF Fence, NoFence, IntentPending, EvidencePending, NotAppliedPending

LEMMA IntentFacts ==
  ASSUME NEW i \in Intent
  PROVE  i.id \in 1 .. MaxCompactions /\ i.input \in Inputs /\ i.revision \in Nat /\ i.sequence \in Nat
BY DEF Intent

LEMMA SlotFacts ==
  ASSUME NEW d \in Slot
  PROVE  /\ d.at \in {"Vacant", "Live", "Tombstoned"} /\ d.revision \in Nat
         /\ d.log \in Seq(Record) /\ d.fence \in Fence
BY DEF Slot

LEMMA SuccessorFacts ==
  ASSUME NEW d \in Slot, NEW log \in Seq(Record), NEW fence \in Fence
  PROVE  /\ Successor(d, log, fence) \in Slot
         /\ Successor(d, log, fence).at = "Live"
         /\ Successor(d, log, fence).log = log
         /\ Successor(d, log, fence).fence = fence
         /\ Successor(d, log, fence).revision = d.revision + 1
BY DEF Successor, Slot

-----------------------------------------------------------------------------
(* Extensions of the log *)

\* new is old followed by the updates and by marks.
ExtendsBy(old, new, updates) ==
  /\ new \in Seq(Record) /\ Len(new) >= Len(old)
  /\ \A i \in DOMAIN old : i \in DOMAIN new /\ new[i] = old[i]
  /\ \A j \in DOMAIN updates : Len(old) + j \in DOMAIN new /\ new[Len(old) + j] = Update(updates[j])
  /\ \A i \in DOMAIN new : \/ i \in DOMAIN old
                          \/ new[i] = Mark
                          \/ \E j \in DOMAIN updates : i = Len(old) + j

LEMMA RecordTypes ==
  /\ Mark \in Record /\ Mark.kind = "mark"
  /\ \A n \in Nat : Update(n) \in Record /\ Update(n).kind = "update" /\ Update(n).of = n
BY DEF Mark, Update, Record

\* Where the elements of a concatenation come from
LEMMA ConcatFacts ==
  ASSUME NEW S, NEW a \in Seq(S), NEW b \in Seq(S)
  PROVE  /\ a \o b \in Seq(S) /\ Len(a \o b) >= Len(a)
         /\ \A i \in DOMAIN a : i \in DOMAIN (a \o b) /\ (a \o b)[i] = a[i]
         /\ \A j \in DOMAIN b : Len(a) + j \in DOMAIN (a \o b) /\ (a \o b)[Len(a) + j] = b[j]
         /\ \A i \in DOMAIN (a \o b) : i \in DOMAIN a \/ \E j \in DOMAIN b : i = Len(a) + j
<1> DEFINE c == a \o b
<1>1. /\ c \in Seq(S) /\ Len(c) = Len(a) + Len(b)
      /\ \A i \in 1 .. Len(a) + Len(b) : c[i] = IF i <= Len(a) THEN a[i] ELSE b[i - Len(a)]
  BY ConcatProperties
<1> HIDE DEF c
<1>2. /\ Len(a) \in Nat /\ Len(b) \in Nat /\ DOMAIN a = 1 .. Len(a) /\ DOMAIN b = 1 .. Len(b)
      /\ DOMAIN c = 1 .. Len(a) + Len(b)
  BY <1>1
<1>3. Len(c) >= Len(a)
  BY <1>1, <1>2
<1>4. \A i \in DOMAIN a : i \in DOMAIN c /\ c[i] = a[i]
  BY <1>1, <1>2
<1>5. ASSUME NEW j \in DOMAIN b
      PROVE  Len(a) + j \in DOMAIN c /\ c[Len(a) + j] = b[j]
  <2>1. Len(a) + j \in 1 .. Len(a) + Len(b) /\ ~(Len(a) + j <= Len(a)) /\ (Len(a) + j) - Len(a) = j
    BY <1>2
  <2> QED BY <1>1, <1>2, <2>1
<1>6. ASSUME NEW i \in DOMAIN c
      PROVE  i \in DOMAIN a \/ \E j \in DOMAIN b : i = Len(a) + j
  <2>1. CASE i <= Len(a)
    BY <2>1, <1>2
  <2>2. CASE i > Len(a)
    <3>1. i - Len(a) \in DOMAIN b /\ i = Len(a) + (i - Len(a))
      BY <2>2, <1>2
    <3> QED BY <3>1
  <2> QED BY <2>1, <2>2, <1>2
<1> QED BY <1>1, <1>3, <1>4, <1>5, <1>6 DEF c

LEMMA FlushExtends ==
  ASSUME slot \in Slot, NEW updates \in Seq(1 .. MaxUpdates), MaxUpdates \in Nat,
         NEW marks \in {<<>>, <<Mark>>}
  PROVE  ExtendsBy(slot.log, Flushed(updates) \o marks, updates)
<1> DEFINE old == slot.log
           tail == [i \in DOMAIN updates |-> Update(updates[i])]
           flushed == old \o tail
           new == flushed \o marks
<1>1. old \in Seq(Record)
  BY SlotFacts
<1>2. DOMAIN updates = 1 .. Len(updates) /\ Len(updates) \in Nat
  OBVIOUS
<1>3. \A i \in DOMAIN updates : Update(updates[i]) \in Record
  <2>1. \A i \in DOMAIN updates : updates[i] \in Nat
    OBVIOUS
  <2> QED BY <2>1, RecordTypes
<1>4. tail \in Seq(Record)
  BY <1>2, <1>3
<1>5. DOMAIN tail = DOMAIN updates /\ \A j \in DOMAIN updates : tail[j] = Update(updates[j])
  OBVIOUS
<1> HIDE DEF tail, old
<1>6. /\ flushed \in Seq(Record) /\ Len(flushed) >= Len(old)
      /\ \A i \in DOMAIN old : i \in DOMAIN flushed /\ flushed[i] = old[i]
      /\ \A j \in DOMAIN tail : Len(old) + j \in DOMAIN flushed /\ flushed[Len(old) + j] = tail[j]
      /\ \A i \in DOMAIN flushed : i \in DOMAIN old \/ \E j \in DOMAIN tail : i = Len(old) + j
  BY <1>1, <1>4, ConcatFacts
<1> HIDE DEF flushed
<1>7. marks \in Seq(Record) /\ \A i \in DOMAIN marks : marks[i] = Mark
  <2>1. CASE marks = <<>>
    BY <2>1
  <2>2. CASE marks = <<Mark>>
    <3>1. <<Mark>> \in Seq(Record) /\ DOMAIN <<Mark>> = {1} /\ <<Mark>>[1] = Mark
      BY RecordTypes
    <3> QED BY <2>2, <3>1
  <2> QED BY <2>1, <2>2
<1>8. /\ new \in Seq(Record) /\ Len(new) >= Len(flushed)
      /\ \A i \in DOMAIN flushed : i \in DOMAIN new /\ new[i] = flushed[i]
      /\ \A j \in DOMAIN marks : Len(flushed) + j \in DOMAIN new /\ new[Len(flushed) + j] = marks[j]
      /\ \A i \in DOMAIN new : i \in DOMAIN flushed \/ \E j \in DOMAIN marks : i = Len(flushed) + j
  BY <1>6, <1>7, ConcatFacts
<1> HIDE DEF new
<1>9. Len(new) >= Len(old)
  <2>1. Len(new) \in Nat /\ Len(flushed) \in Nat /\ Len(old) \in Nat
    BY <1>1, <1>6, <1>8
  <2> QED BY <2>1, <1>6, <1>8
<1>10. \A i \in DOMAIN old : i \in DOMAIN new /\ new[i] = old[i]
  BY <1>6, <1>8
<1>11. \A j \in DOMAIN updates : Len(old) + j \in DOMAIN new /\ new[Len(old) + j] = Update(updates[j])
  BY <1>5, <1>6, <1>8
<1>12. \A i \in DOMAIN new : i \in DOMAIN old \/ new[i] = Mark \/ \E j \in DOMAIN updates : i = Len(old) + j
  BY <1>5, <1>6, <1>7, <1>8
<1>13. Flushed(updates) \o marks = new
  BY DEF Flushed, new, flushed, tail, old
<1> QED BY <1>8, <1>9, <1>10, <1>11, <1>12, <1>13 DEF ExtendsBy, old

\* A flush without a mark
LEMMA FlushedExtends ==
  ASSUME slot \in Slot, NEW updates \in Seq(1 .. MaxUpdates), MaxUpdates \in Nat
  PROVE  ExtendsBy(slot.log, Flushed(updates), updates)
<1>1. Flushed(updates) \o <<>> = Flushed(updates)
  <2>1. \A i \in DOMAIN updates : Update(updates[i]) \in Record
    BY RecordTypes
  <2>2. [i \in DOMAIN updates |-> Update(updates[i])] \in Seq(Record) /\ slot.log \in Seq(Record)
    BY <2>1, SlotFacts
  <2>3. Flushed(updates) \in Seq(Record)
    BY <2>2 DEF Flushed
  <2> QED BY <2>3
<1>2. ExtendsBy(slot.log, Flushed(updates) \o <<>>, updates)
  BY FlushExtends
<1> QED BY <1>1, <1>2

-----------------------------------------------------------------------------
(* Calls and clients *)

OpSet == [at : {"intent", "notApplied", "applied"}, document : Slot,
          by : {"driver", "recovery"}, heard : BOOLEAN]

LEMMA OpFacts ==
  ASSUME TypeOK, op # NoOp
  PROVE  /\ op.at \in {"intent", "notApplied", "applied"} /\ op.document \in Slot
         /\ op.by \in {"driver", "recovery"} /\ op.heard \in BOOLEAN /\ op \in OpSet
BY DEF TypeOK, OpSet

LEMMA AwaitFacts ==
  ASSUME NEW what \in {"intent", "notApplied", "applied"}, NEW d \in Slot, NEW by \in {"driver", "recovery"}
  PROVE  /\ Await(what, d, by) \in OpSet /\ Await(what, d, by) # NoOp
         /\ Await(what, d, by).at = what /\ Await(what, d, by).document = d
         /\ Await(what, d, by).by = by /\ ~Await(what, d, by).heard
<1>1. Await(what, d, by).at # NoOp.at
  BY DEF Await, NoOp
<1> QED BY <1>1 DEF Await, OpSet

DriverSet == [at : {"Idle", "Ready", "Waiting", "Sampling", "Published", "Installed"},
              owner : {"turn", "manual"}, id : 0 .. MaxCompactions]

RecoverySet == [at : {"Idle", "Waiting", "Install", "Installed"},
                why : {"startup", "prompt", "compact"}, id : 0 .. MaxCompactions]

LEMMA IdleFacts ==
  ASSUME ConstantsAssumption
  PROVE  /\ NoDriver \in DriverSet /\ NoDriver.at = "Idle"
         /\ NoRecovery \in RecoverySet /\ NoRecovery.at = "Idle"
BY DEF ConstantsAssumption, NoDriver, NoRecovery, DriverSet, RecoverySet

\* The store's part of the steps
Publishes(updates) ==
  /\ Live /\ slot.fence = NoFence
  /\ slot' \in Slot /\ slot'.at = "Live" /\ slot'.fence = NoFence
  /\ ExtendsBy(slot.log, slot'.log, updates)

Refences(fence) ==
  /\ Live
  /\ slot' \in Slot /\ slot'.at = "Live" /\ slot'.fence = fence /\ slot'.log = slot.log

LEMMA CommitStep ==
  ASSUME ConstantsAssumption, TypeOK,
         NEW updates \in Seq(1 .. MaxUpdates), NEW marks \in {<<>>, <<Mark>>},
         NEW result \in Results, commit(updates, marks, result)
  PROVE  /\ Live
         /\ \/ result = "Failed" /\ slot' = slot
            \/ result # "Failed" /\ Publishes(updates)
         /\ slot' \in Slot /\ slot'.at = "Live" /\ slot'.fence = slot.fence
         /\ staged' \in Seq(1 .. MaxUpdates)
         /\ acked' \subseteq 1 .. MaxUpdates
<1> DEFINE log == Flushed(updates) \o marks
<1>1. Live /\ slot \in Slot /\ acked \subseteq 1 .. MaxUpdates /\ MaxUpdates \in Nat
  BY DEF commit, TypeOK, ConstantsAssumption
<1>2. ExtendsBy(slot.log, log, updates) /\ log \in Seq(Record)
  BY <1>1, FlushExtends DEF ExtendsBy
<1>3. /\ result = "Failed" => slot' = slot
      /\ result # "Failed" => slot.fence = NoFence /\ slot' = Successor(slot, log, slot.fence)
  BY DEF commit, Cas
<1> HIDE DEF log
<1>4. result # "Failed" => Publishes(updates)
  <2> SUFFICES ASSUME result # "Failed" PROVE Publishes(updates)
    OBVIOUS
  <2>1. slot.fence = NoFence /\ slot' = Successor(slot, log, NoFence) /\ NoFence \in Fence
    BY <1>3, FenceTypes
  <2>2. slot' \in Slot /\ slot'.at = "Live" /\ slot'.fence = NoFence /\ slot'.log = log
    BY <1>1, <1>2, <2>1, SuccessorFacts
  <2> QED BY <1>1, <1>2, <2>1, <2>2 DEF Publishes
<1>5. SetOf(updates) \subseteq 1 .. MaxUpdates
  BY DEF SetOf
<1>6. staged' \in Seq(1 .. MaxUpdates) /\ acked' \subseteq 1 .. MaxUpdates
  <2>1. staged' \in {<<>>, updates} /\ acked' \in {acked, acked \cup SetOf(updates)}
    BY DEF commit
  <2>2. <<>> \in Seq(1 .. MaxUpdates)
    OBVIOUS
  <2> QED BY <1>1, <1>5, <2>1, <2>2
<1> QED BY <1>1, <1>3, <1>4, <1>6 DEF Publishes, Live

-----------------------------------------------------------------------------
(* The steps of the log: no client moves, nothing is fenced or lifted. *)

\* Nothing but the log, the updates and their history changes.
LEMMA LogStep ==
  ASSUME Ind, TypeOK', slot'.fence = slot.fence, Serving,
         UNCHANGED <<life, installed, op, driver, recovery, intents, outcomes>>
  PROVE  Ind'
<1>1. op = NoOp /\ op' = NoOp
  BY DEF Serving
<1> QED BY <1>1 DEF Ind, OpOK, LifeOK, HeardOK, WaitingOK, PublishedOK, RecoveringOK, EvidenceOf,
                    ModelOnlyAfterIntent, AppliedIsInstalled

LEMMA AppendStep ==
  ASSUME ConstantsAssumption, Ind, NEW n \in 1 .. MaxUpdates, NEW durable \in BOOLEAN, NEW result \in Results,
         append_update(n, durable, result)
  PROVE  Ind'
<1> DEFINE updates == Append(staged, n)
<1>1. TypeOK /\ updates \in Seq(1 .. MaxUpdates) /\ <<>> \in {<<>>, <<Mark>>}
  BY DEF Ind, TypeOK
<1>2. CASE durable /\ commit(updates, <<>>, result)
  <2>1. slot' \in Slot /\ slot'.fence = slot.fence /\ staged' \in Seq(1 .. MaxUpdates) /\ acked' \subseteq 1 .. MaxUpdates
    BY <1>1, <1>2, CommitStep
  <2>2. TypeOK'
    BY <1>1, <2>1 DEF append_update, Repeats, TypeOK, ConstantsAssumption
  <2> QED BY <2>1, <2>2, LogStep DEF append_update
<1>3. CASE ~durable /\ staged' = updates /\ UNCHANGED <<slot, acked>>
  <2>1. TypeOK'
    BY <1>1, <1>3 DEF append_update, Repeats, TypeOK, ConstantsAssumption
  <2> QED BY <1>3, <2>1, LogStep DEF append_update
<1> QED BY <1>2, <1>3 DEF append_update

LEMMA FlushStep ==
  ASSUME ConstantsAssumption, Ind, NEW result \in Results, flush(result) \/ publish_mark(result)
  PROVE  Ind'
<1>1. PICK marks \in {<<>>, <<Mark>>} : commit(staged, marks, result)
  BY DEF flush, publish_mark
<1>2. TypeOK /\ staged \in Seq(1 .. MaxUpdates)
  BY DEF Ind, TypeOK
<1>3. slot' \in Slot /\ slot'.fence = slot.fence /\ staged' \in Seq(1 .. MaxUpdates) /\ acked' \subseteq 1 .. MaxUpdates
  BY <1>1, <1>2, CommitStep
<1>4. /\ Serving /\ repeats' \in {repeats, repeats + 1} /\ repeats' <= MaxRepeats
      /\ UNCHANGED <<life, refused, installed, op, driver, recovery, appended, minted, faults, intents, outcomes, lost>>
  BY DEF flush, publish_mark, Repeats
<1>5. TypeOK'
  BY <1>2, <1>3, <1>4 DEF TypeOK, ConstantsAssumption
<1> QED BY <1>3, <1>4, <1>5, LogStep

-----------------------------------------------------------------------------
(* The steps of the driver *)

\* Nothing but the driver, or what it installed, changes.
LEMMA DriverTypes ==
  ASSUME TypeOK, driver' \in DriverSet, installed' \in 0 .. MaxCompactions,
         UNCHANGED <<slot, life, staged, refused, op, recovery, history>>
  PROVE  TypeOK'
BY DEF TypeOK, DriverSet, history

LEMMA DriverFields ==
  ASSUME TypeOK
  PROVE  /\ driver \in DriverSet /\ driver.id \in 0 .. MaxCompactions
         /\ \A a \in {"Idle", "Ready", "Waiting", "Sampling", "Published", "Installed"}, i \in 0 .. MaxCompactions :
              LET d == [driver EXCEPT !.at = a, !.id = i]
              IN  d \in DriverSet /\ d.at = a /\ d.id = i /\ d.owner = driver.owner
BY DEF TypeOK, DriverSet

LEMMA CompactOnlyStep ==
  ASSUME ConstantsAssumption, Ind, run_compact_only
  PROVE  Ind'
<1>1. driver' \in DriverSet /\ driver'.at = "Ready" /\ driver.at = "Idle" /\ recovery.why # "compact"
      /\ life = "Running"
  BY DEF run_compact_only, is_applying, ConstantsAssumption, DriverSet
<1>2. UNCHANGED <<slot, life, staged, refused, installed, op, recovery, history>>
  BY DEF run_compact_only
<1>3. TypeOK'
  BY <1>1, <1>2, DriverTypes DEF Ind, TypeOK
<1> QED BY <1>1, <1>2, <1>3 DEF Ind, OpOK, LifeOK, Live, HeardOK, WaitingOK, PublishedOK, RecoveringOK, EvidenceOf,
                               ModelOnlyAfterIntent, AppliedIsInstalled, Outcome, history

LEMMA DriverStopsStep ==
  ASSUME ConstantsAssumption, Ind, DriverEnds \/ TurnAborted
  PROVE  Ind'
<1>1. driver' = NoDriver /\ driver' \in DriverSet /\ driver'.at = "Idle"
  BY IdleFacts DEF DriverEnds, TurnAborted, DriverFails
<1>2. UNCHANGED <<slot, life, staged, refused, installed, op, recovery, appended, minted, intents, outcomes, acked, lost, repeats>>
  BY DEF DriverEnds, TurnAborted, history
<1>3. faults' \in 0 .. MaxFaults
  BY DEF DriverEnds, TurnAborted, history, Ind, TypeOK, ConstantsAssumption
<1>4. TypeOK'
  BY <1>1, <1>2, <1>3 DEF Ind, TypeOK, DriverSet
<1>5. recovery.at \in {"Install", "Installed"} => op = NoOp
  BY DEF DriverEnds, TurnAborted, Ind, RecoveringOK
<1> QED BY <1>1, <1>2, <1>4, <1>5 DEF Ind, OpOK, LifeOK, Live, HeardOK, WaitingOK, PublishedOK, RecoveringOK, EvidenceOf,
                               ModelOnlyAfterIntent, AppliedIsInstalled, Outcome

LEMMA InstallStep ==
  ASSUME ConstantsAssumption, Ind, install_published_compaction
  PROVE  Ind'
<1>1. /\ driver' \in DriverSet /\ driver'.at = "Installed" /\ driver.at = "Published" /\ driver'.id = driver.id
      /\ driver'.owner = driver.owner /\ installed' = driver.id /\ driver.id \in 0 .. MaxCompactions
  BY DriverFields DEF install_published_compaction, DriverAt, Ind
<1>2. UNCHANGED <<slot, life, staged, refused, op, recovery, history>>
  BY DEF install_published_compaction
<1>3. TypeOK'
  BY <1>1, <1>2, DriverTypes DEF Ind
<1>4. NoFence.at = "None"
  BY DEF NoFence
<1>5. AppliedIsInstalled'
  BY <1>1, <1>2, <1>4 DEF Ind, OpOK, PublishedOK, EvidenceOf, AppliedIsInstalled
<1>6. RecoveringOK'
  BY <1>1, <1>2, <1>4 DEF Ind, PublishedOK, RecoveringOK, EvidenceOf
<1> QED BY <1>1, <1>2, <1>3, <1>5, <1>6 DEF Ind, OpOK, LifeOK, Live, HeardOK, WaitingOK, PublishedOK, EvidenceOf,
                               ModelOnlyAfterIntent, Outcome, history

-----------------------------------------------------------------------------
(* begin_compaction *)

FlushedSlot == IF staged = <<>> THEN slot ELSE Successor(slot, Flushed(staged), NoFence)

NewIntent(input) ==
  [id |-> minted + 1, input |-> input, revision |-> FlushedSlot.revision, sequence |-> Len(FlushedSlot.log)]

FencedSlot(input) == Successor(FlushedSlot, FlushedSlot.log, IntentPending(NewIntent(input)))

\* The manifest with the staged updates, and with the fence on top of it
LEMMA RaiseFacts ==
  ASSUME ConstantsAssumption, TypeOK, Live, slot.fence = NoFence, minted < MaxCompactions, NEW input \in Inputs
  PROVE  /\ FlushedSlot \in Slot /\ FlushedSlot.at = "Live" /\ FlushedSlot.fence = NoFence
         /\ ExtendsBy(slot.log, FlushedSlot.log, staged)
         /\ NewIntent(input) \in Intent /\ NewIntent(input).id = minted + 1
         /\ FencedSlot(input) \in Slot /\ FencedSlot(input).at = "Live"
         /\ FencedSlot(input).fence = IntentPending(NewIntent(input))
         /\ FencedSlot(input).log = FlushedSlot.log
<1>1. slot \in Slot /\ staged \in Seq(1 .. MaxUpdates) /\ MaxUpdates \in Nat
  BY DEF TypeOK, ConstantsAssumption
<1>2. /\ FlushedSlot \in Slot /\ FlushedSlot.at = "Live" /\ FlushedSlot.fence = NoFence
      /\ ExtendsBy(slot.log, FlushedSlot.log, staged)
  <2>1. CASE staged = <<>>
    <3>1. slot.log \in Seq(Record) /\ DOMAIN staged = {}
      BY <1>1, <2>1, SlotFacts
    <3>2. ExtendsBy(slot.log, slot.log, staged)
      BY <3>1 DEF ExtendsBy
    <3> QED BY <1>1, <2>1, <3>2 DEF FlushedSlot, Live
  <2>2. CASE staged # <<>>
    <3>1. ExtendsBy(slot.log, Flushed(staged), staged) /\ Flushed(staged) \in Seq(Record)
      BY <1>1, FlushedExtends DEF ExtendsBy
    <3>2. FlushedSlot = Successor(slot, Flushed(staged), NoFence)
      BY <2>2 DEF FlushedSlot
    <3> QED BY <1>1, <3>1, <3>2, SuccessorFacts, FenceTypes
  <2> QED BY <2>1, <2>2
<1>3. FlushedSlot.revision \in Nat /\ FlushedSlot.log \in Seq(Record) /\ Len(FlushedSlot.log) \in Nat
  BY <1>2, SlotFacts
<1>4. NewIntent(input) \in Intent /\ NewIntent(input).id = minted + 1
  BY <1>3 DEF NewIntent, Intent, TypeOK, ConstantsAssumption
<1>5. IntentPending(NewIntent(input)) \in Fence
  BY <1>4, FenceTypes
<1>6. /\ FencedSlot(input) \in Slot /\ FencedSlot(input).at = "Live"
      /\ FencedSlot(input).fence = IntentPending(NewIntent(input))
      /\ FencedSlot(input).log = FlushedSlot.log
  BY <1>2, <1>3, <1>5, SuccessorFacts DEF FencedSlot
<1> QED BY <1>2, <1>4, <1>6

\* The three outcomes of begin_compaction
BeginFlushFails ==
  \E r \in Results \ {"Ok"} :
    /\ staged # <<>> /\ commit(staged, <<>>, r) /\ Repeats(r = "Unresolved")
    /\ DriverFails /\ UNCHANGED <<op, minted>>

BeginRaises(input, result) ==
  /\ Live /\ slot.fence = NoFence /\ minted < MaxCompactions
  /\ slot' = (IF result = "Failed" THEN FlushedSlot ELSE FencedSlot(input))
  /\ IF result = "Ok" THEN AwaitIntent(FencedSlot(input), NewIntent(input)) ELSE DriverFails /\ op' = op
  /\ minted' = minted + 1
  /\ staged' = <<>> /\ acked' = acked \cup SetOf(staged) /\ repeats' = repeats

BeginTakesOver(input) ==
  /\ Live /\ slot.fence # NoFence /\ staged = <<>>
  /\ IF slot.fence.at = "IntentPending" /\ slot.fence.intent.input = input
     THEN AwaitIntent(slot, slot.fence.intent)
     ELSE DriverFails /\ op' = op
  /\ UNCHANGED <<slot, minted, staged, acked, repeats>>

LEMMA BeginCases ==
  ASSUME NEW input \in Inputs, NEW result \in Results, begin_compaction(input, result)
  PROVE  /\ Serving /\ driver.at = "Ready"
         /\ BeginFlushFails \/ BeginRaises(input, result) \/ BeginTakesOver(input)
         /\ UNCHANGED <<life, refused, installed, recovery, appended, faults, intents, outcomes, lost>>
BY DEF begin_compaction, BeginFlushFails, BeginRaises, BeginTakesOver, FlushedSlot, NewIntent, FencedSlot

LEMMA AwaitIntentFacts ==
  ASSUME TypeOK, NEW d \in Slot, NEW i \in Intent, AwaitIntent(d, i)
  PROVE  /\ driver' \in DriverSet /\ driver'.at = "Waiting" /\ driver'.id = i.id /\ driver'.owner = driver.owner
         /\ op' \in {NoOp} \cup OpSet /\ op' # NoOp /\ op'.at = "intent" /\ op'.document = d
         /\ op'.by = "driver" /\ ~op'.heard
<1>1. i.id \in 0 .. MaxCompactions
  BY IntentFacts
<1>2. driver' = [driver EXCEPT !.at = "Waiting", !.id = i.id] /\ op' = Await("intent", d, "driver")
  BY DEF AwaitIntent
<1>3. driver' \in DriverSet /\ driver'.at = "Waiting" /\ driver'.id = i.id /\ driver'.owner = driver.owner
  BY <1>1, <1>2, DriverFields
<1>4. /\ op' \in {NoOp} \cup OpSet /\ op' # NoOp /\ op'.at = "intent" /\ op'.document = d
      /\ op'.by = "driver" /\ ~op'.heard
  BY <1>2, AwaitFacts
<1> QED BY <1>3, <1>4

LEMMA BeginStep ==
  ASSUME ConstantsAssumption, Ind, NEW input \in Inputs, NEW result \in Results, begin_compaction(input, result)
  PROVE  Ind'
<1> USE BeginCases DEF Ind
<1>1. op = NoOp /\ life = "Running" /\ life' = "Running" /\ slot \in Slot
  BY DEF Serving, TypeOK
<1>2. CASE BeginFlushFails
  <2>1. PICK r \in Results \ {"Ok"} : commit(staged, <<>>, r) /\ Repeats(r = "Unresolved")
    BY <1>2 DEF BeginFlushFails
  <2>2. /\ slot' \in Slot /\ slot'.fence = slot.fence
        /\ staged' \in Seq(1 .. MaxUpdates) /\ acked' \subseteq 1 .. MaxUpdates
    <3>1. staged \in Seq(1 .. MaxUpdates) /\ <<>> \in {<<>>, <<Mark>>}
      BY DEF TypeOK
    <3> QED BY <2>1, <3>1, CommitStep
  <2>3. driver' = NoDriver /\ driver' \in DriverSet /\ driver'.at = "Idle" /\ op' = NoOp /\ minted' = minted
    BY <1>1, <1>2, IdleFacts DEF BeginFlushFails, DriverFails
  <2>4. repeats' \in 0 .. MaxRepeats
    BY <2>1 DEF Repeats, TypeOK, ConstantsAssumption
  <2>5. TypeOK'
    BY <2>2, <2>3, <2>4 DEF TypeOK, DriverSet
  <2>6. RecoveringOK'
    BY <2>2, <2>3 DEF RecoveringOK, EvidenceOf
  <2> QED BY <2>2, <2>3, <2>5, <2>6 DEF OpOK, LifeOK, HeardOK, WaitingOK, PublishedOK, ModelOnlyAfterIntent, AppliedIsInstalled
<1>3. CASE BeginRaises(input, result)
  <2>1. /\ FlushedSlot \in Slot /\ FlushedSlot.at = "Live" /\ FlushedSlot.fence = NoFence
        /\ NewIntent(input) \in Intent
        /\ FencedSlot(input) \in Slot /\ FencedSlot(input).at = "Live"
        /\ FencedSlot(input).fence = IntentPending(NewIntent(input))
        /\ FencedSlot(input).log = FlushedSlot.log
    BY <1>3, RaiseFacts DEF BeginRaises
  <2>2. recovery.at \notin {"Install", "Installed"}
    BY <1>3, FenceTypes DEF RecoveringOK, EvidenceOf, BeginRaises
  <2>3. minted' \in 0 .. MaxCompactions /\ staged' = <<>> /\ staged' \in Seq(1 .. MaxUpdates)
        /\ acked' \subseteq 1 .. MaxUpdates /\ repeats' = repeats /\ slot' \in Slot
    <3>1. SetOf(staged) \subseteq 1 .. MaxUpdates /\ <<>> \in Seq(1 .. MaxUpdates)
      BY DEF SetOf, TypeOK
    <3>2. minted + 1 \in 0 .. MaxCompactions
      BY <1>3 DEF BeginRaises, TypeOK, ConstantsAssumption
    <3> QED BY <1>3, <2>1, <3>1, <3>2 DEF BeginRaises, TypeOK
  <2>4. CASE result = "Ok"
    <3>1. slot' = FencedSlot(input) /\ AwaitIntent(slot', NewIntent(input))
      BY <1>3, <2>4 DEF BeginRaises
    <3>2. /\ driver' \in DriverSet /\ driver'.at = "Waiting" /\ driver'.id = NewIntent(input).id
          /\ op' \in {NoOp} \cup OpSet /\ op' # NoOp /\ op'.at = "intent" /\ op'.document = slot'
          /\ op'.by = "driver" /\ ~op'.heard
      BY <2>1, <3>1, AwaitIntentFacts
    <3>3. slot'.at = "Live" /\ slot'.fence.at = "IntentPending" /\ slot'.fence.intent = NewIntent(input)
      BY <2>1, <3>1, FenceTypes
    <3>4. TypeOK'
      BY <2>3, <3>2 DEF TypeOK, DriverSet, OpSet
    <3> QED BY <1>1, <2>2, <3>2, <3>3, <3>4 DEF OpOK, LifeOK, Live, HeardOK, WaitingOK, PublishedOK, RecoveringOK, ModelOnlyAfterIntent, AppliedIsInstalled
  <2>5. CASE result # "Ok"
    <3>1. driver' = NoDriver /\ driver' \in DriverSet /\ driver'.at = "Idle" /\ op' = NoOp
      BY <1>1, <1>3, <2>5, IdleFacts DEF BeginRaises, DriverFails
    <3>2. TypeOK'
      BY <2>3, <3>1 DEF TypeOK, DriverSet
    <3> QED BY <2>2, <3>1, <3>2 DEF OpOK, LifeOK, HeardOK, WaitingOK, PublishedOK, RecoveringOK, ModelOnlyAfterIntent, AppliedIsInstalled
  <2> QED BY <2>4, <2>5
<1>4. CASE BeginTakesOver(input)
  <2>1. slot.fence \in Fence /\ Live /\ slot.fence # NoFence
    BY <1>1, <1>4, SlotFacts DEF BeginTakesOver
  <2>2. slot.fence.intent \in Intent
    BY <2>1, FenceFacts
  <2>3. UNCHANGED <<slot, minted, staged, acked, repeats>>
    BY <1>4 DEF BeginTakesOver
  <2>4. CASE slot.fence.at = "IntentPending" /\ slot.fence.intent.input = input
    <3>1. AwaitIntent(slot, slot.fence.intent)
      BY <1>4, <2>4 DEF BeginTakesOver
    <3>2. /\ driver' \in DriverSet /\ driver'.at = "Waiting" /\ driver'.id = slot.fence.intent.id
          /\ op' \in {NoOp} \cup OpSet /\ op' # NoOp /\ op'.at = "intent" /\ op'.document = slot
          /\ op'.by = "driver" /\ ~op'.heard
      BY <1>1, <2>2, <3>1, AwaitIntentFacts
    <3>3. recovery.at \notin {"Install", "Installed"}
      BY <2>1, <2>4 DEF RecoveringOK, EvidenceOf
    <3>4. TypeOK'
      BY <2>3, <3>2 DEF TypeOK, DriverSet, OpSet
    <3> QED BY <1>1, <2>1, <2>3, <2>4, <3>2, <3>3, <3>4 DEF OpOK, LifeOK, Live, HeardOK, WaitingOK, PublishedOK, RecoveringOK, ModelOnlyAfterIntent, AppliedIsInstalled
  <2>5. CASE ~(slot.fence.at = "IntentPending" /\ slot.fence.intent.input = input)
    <3>1. driver' = NoDriver /\ driver' \in DriverSet /\ driver'.at = "Idle" /\ op' = NoOp
      BY <1>1, <1>4, <2>5, IdleFacts DEF BeginTakesOver, DriverFails
    <3>2. TypeOK'
      BY <2>3, <3>1 DEF TypeOK, DriverSet
    <3>3. RecoveringOK'
      BY <2>3, <3>1 DEF RecoveringOK, EvidenceOf
    <3> QED BY <3>1, <3>2, <3>3 DEF OpOK, LifeOK, HeardOK, WaitingOK, PublishedOK, ModelOnlyAfterIntent, AppliedIsInstalled
  <2> QED BY <2>4, <2>5
<1> QED BY <1>2, <1>3, <1>4

-----------------------------------------------------------------------------
(* The end of a compaction *)

\* What compaction_not_applied does before it asks the observer
LEMMA NotAppliedFacts ==
  ASSUME TypeOK, op = NoOp, NEW id, NEW reason \in Reasons, NEW by \in {"driver", "recovery"},
         NEW result \in Results, NotAppliedBegins(id, reason, by, result)
  PROVE  /\ slot' \in Slot
         /\ \/ slot' = slot
            \/ slot.fence.at = "IntentPending" /\ Refences(NotAppliedPending(slot.fence.intent, reason))
         /\ \/ op' = NoOp
            \/ /\ op' # NoOp /\ op' \in OpSet /\ op'.at = "notApplied" /\ op'.document = slot'
               /\ op'.by = by /\ ~op'.heard
               /\ slot'.at = "Live" /\ slot'.fence.at = "NotAppliedPending"
               /\ slot'.fence.intent.id = id
<1> DEFINE fence == slot.fence
           pending == Successor(slot, slot.log, NotAppliedPending(fence.intent, reason))
<1>1. slot \in Slot /\ slot.log \in Seq(Record) /\ fence \in Fence
  BY SlotFacts DEF TypeOK
<1>2. CASE Live /\ fence.at = "IntentPending" /\ fence.intent.id = id
  <2>1. fence.intent \in Intent
    BY <1>1, <1>2, FenceFacts
  <2>2. /\ NotAppliedPending(fence.intent, reason) \in Fence
        /\ NotAppliedPending(fence.intent, reason).at = "NotAppliedPending"
        /\ NotAppliedPending(fence.intent, reason).intent = fence.intent
    BY <2>1, FenceTypes
  <2>3. /\ pending \in Slot /\ pending.at = "Live" /\ pending.log = slot.log
        /\ pending.fence = NotAppliedPending(fence.intent, reason)
    BY <1>1, <2>2, SuccessorFacts
  <2>4. /\ slot' \in {slot, pending}
        /\ result = "Ok" => slot' = pending
        /\ op' = IF result = "Ok" THEN Await("notApplied", pending, by) ELSE op
    <3>1. Cas(slot, pending, result) /\ op' = IF result = "Ok" THEN Await("notApplied", pending, by) ELSE op
      BY <1>2 DEF NotAppliedBegins
    <3> HIDE DEF pending
    <3> QED BY <3>1 DEF Cas
  <2> HIDE DEF pending
  <2>5. slot' = pending => Refences(NotAppliedPending(slot.fence.intent, reason))
    BY <1>2, <2>3 DEF Refences
  <2>6. CASE result = "Ok"
    <3>1. op' = Await("notApplied", pending, by) /\ slot' = pending
      BY <2>4, <2>6
    <3>2. /\ op' # NoOp /\ op' \in OpSet /\ op'.at = "notApplied" /\ op'.document = slot'
          /\ op'.by = by /\ ~op'.heard
      <4>1. "notApplied" \in {"intent", "notApplied", "applied"} /\ pending \in Slot
        BY <2>3
      <4>2. LET await == Await("notApplied", pending, by)
            IN  /\ await # NoOp /\ await \in OpSet /\ await.at = "notApplied" /\ await.document = pending
                /\ await.by = by /\ ~await.heard
        BY <4>1, AwaitFacts
      <4> QED BY <3>1, <4>2
    <3> QED BY <1>2, <2>2, <2>3, <2>5, <3>1, <3>2
  <2>7. CASE result # "Ok"
    BY <1>1, <1>2, <2>3, <2>4, <2>5, <2>7
  <2> QED BY <2>6, <2>7
<1>3. CASE /\ ~(Live /\ fence.at = "IntentPending" /\ fence.intent.id = id)
           /\ Live /\ fence.at = "NotAppliedPending" /\ fence.intent.id = id /\ fence.reason = reason
  <2>1. op' = Await("notApplied", slot, by) /\ slot' = slot
    BY <1>3 DEF NotAppliedBegins
  <2>2. /\ op' # NoOp /\ op' \in OpSet /\ op'.at = "notApplied" /\ op'.document = slot
        /\ op'.by = by /\ ~op'.heard
    <3>1. LET await == Await("notApplied", slot, by)
          IN  /\ await # NoOp /\ await \in OpSet /\ await.at = "notApplied" /\ await.document = slot
              /\ await.by = by /\ ~await.heard
      BY <1>1, AwaitFacts
    <3> QED BY <2>1, <3>1
  <2> QED BY <1>1, <1>3, <2>1, <2>2 DEF Live
<1>4. CASE /\ ~(Live /\ fence.at = "IntentPending" /\ fence.intent.id = id)
           /\ ~(Live /\ fence.at = "NotAppliedPending" /\ fence.intent.id = id /\ fence.reason = reason)
  BY <1>1, <1>4 DEF NotAppliedBegins
<1> QED BY <1>2, <1>3, <1>4

LEMMA AppliedFacts ==
  ASSUME TypeOK, op = NoOp, NEW id, NEW by \in {"driver", "recovery"}, AppliedBegins(id, by)
  PROVE  \/ op' = NoOp
         \/ /\ op' # NoOp /\ op' \in OpSet /\ op'.at = "applied" /\ op'.document = slot
            /\ op'.by = by /\ ~op'.heard
            /\ Live /\ slot.fence.at = "EvidencePending" /\ slot.fence.intent.id = id
<1>1. slot \in Slot
  BY DEF TypeOK
<1>2. CASE Live /\ slot.fence.at = "EvidencePending" /\ slot.fence.intent.id = id
  <2>1. op' = Await("applied", slot, by)
    BY <1>2 DEF AppliedBegins
  <2> QED BY <1>1, <1>2, <2>1, AwaitFacts
<1>3. CASE ~(Live /\ slot.fence.at = "EvidencePending" /\ slot.fence.intent.id = id)
  BY <1>3 DEF AppliedBegins
<1> QED BY <1>2, <1>3

\* The driver waits for the call it made, or gives up.
LEMMA DriverAnswer ==
  ASSUME ConstantsAssumption, TypeOK, op = NoOp,
         IF op' # op THEN DriverAt("Waiting", driver.id) ELSE DriverFails
  PROVE  /\ driver' \in DriverSet
         /\ op' # NoOp => driver'.at = "Waiting" /\ driver'.id = driver.id /\ driver'.owner = driver.owner
         /\ op' = NoOp => driver'.at = "Idle"
<1>1. CASE op' # NoOp
  <2>1. driver' = [driver EXCEPT !.at = "Waiting", !.id = driver.id] /\ driver.id \in 0 .. MaxCompactions
    BY <1>1, DriverFields DEF DriverAt
  <2> QED BY <1>1, <2>1, DriverFields
<1>2. CASE op' = NoOp
  BY <1>2, IdleFacts DEF DriverFails
<1> QED BY <1>1, <1>2

LEMMA NotAppliedStep ==
  ASSUME ConstantsAssumption, Ind, NEW reason \in Reasons, NEW result \in Results,
         compaction_not_applied(reason, result)
  PROVE  Ind'
<1> USE DEF Ind
<1>1. /\ op = NoOp /\ life = "Running" /\ driver.at = "Sampling"
      /\ UNCHANGED <<life, staged, refused, installed, recovery, history>>
  BY DEF compaction_not_applied, Serving
<1>2. NotAppliedBegins(driver.id, reason, "driver", result)
  BY DEF compaction_not_applied
<1>3. /\ slot' \in Slot
      /\ \/ slot' = slot
         \/ slot.fence.at = "IntentPending" /\ Refences(NotAppliedPending(slot.fence.intent, reason))
      /\ \/ op' = NoOp
         \/ /\ op' # NoOp /\ op' \in OpSet /\ op'.at = "notApplied" /\ op'.document = slot'
            /\ op'.by = "driver" /\ ~op'.heard
            /\ slot'.at = "Live" /\ slot'.fence.at = "NotAppliedPending"
            /\ slot'.fence.intent.id = driver.id
  BY <1>1, <1>2, NotAppliedFacts
<1>4. /\ driver' \in DriverSet
      /\ op' # NoOp => driver'.at = "Waiting" /\ driver'.id = driver.id /\ driver'.owner = driver.owner
      /\ op' = NoOp => driver'.at = "Idle"
  <2>1. IF op' # op THEN DriverAt("Waiting", driver.id) ELSE DriverFails
    BY DEF compaction_not_applied
  <2> QED BY <1>1, <2>1, DriverAnswer
<1>5. TypeOK'
  BY <1>1, <1>3, <1>4, DriverFields DEF TypeOK, DriverSet, OpSet, history
<1>6. RecoveringOK'
  <2>1. CASE slot' = slot
    BY <1>1, <1>3, <1>4, <2>1 DEF RecoveringOK, EvidenceOf
  <2>2. CASE slot.fence.at = "IntentPending"
    BY <1>1, <2>2, FenceTypes DEF RecoveringOK, EvidenceOf
  <2> QED BY <1>3, <2>1, <2>2
<1> QED BY <1>1, <1>3, <1>4, <1>5, <1>6 DEF OpOK, LifeOK, Live, HeardOK, WaitingOK, PublishedOK, ModelOnlyAfterIntent, AppliedIsInstalled

\* The manifest with the checkpoint
PublishedSlot ==
  Successor(slot, Append(slot.log, Publication(slot.fence.intent)), EvidencePending(slot.fence.intent))

LEMMA PublishFacts ==
  ASSUME TypeOK, Live, slot.fence.at = "IntentPending"
  PROVE  /\ PublishedSlot \in Slot /\ PublishedSlot.at = "Live"
         /\ PublishedSlot.log = Append(slot.log, Publication(slot.fence.intent))
         /\ PublishedSlot.fence = EvidencePending(slot.fence.intent)
         /\ PublishedSlot.fence.at = "EvidencePending"
         /\ PublishedSlot.fence.intent = slot.fence.intent /\ slot.fence.intent \in Intent
<1> DEFINE intent == slot.fence.intent
<1>1. slot \in Slot /\ slot.log \in Seq(Record) /\ slot.fence \in Fence
  BY SlotFacts DEF TypeOK
<1>2. intent \in Intent
  BY <1>1, FenceFacts
<1>3. Publication(intent) \in Record
  BY <1>2, IntentFacts DEF Publication, Record
<1>4. Append(slot.log, Publication(intent)) \in Seq(Record)
  BY <1>1, <1>3
<1>5. /\ EvidencePending(intent) \in Fence /\ EvidencePending(intent).at = "EvidencePending"
      /\ EvidencePending(intent).intent = intent
  BY <1>2, FenceTypes
<1> DEFINE log == Append(slot.log, Publication(intent))
           evidence == EvidencePending(intent)
<1>6. PublishedSlot = Successor(slot, log, evidence) /\ log \in Seq(Record) /\ evidence \in Fence
  BY <1>4, <1>5 DEF PublishedSlot
<1> HIDE DEF intent, log, evidence
<1>7. /\ PublishedSlot \in Slot /\ PublishedSlot.at = "Live" /\ PublishedSlot.fence = evidence
      /\ PublishedSlot.log = log
  BY <1>1, <1>6, SuccessorFacts
<1> QED BY <1>2, <1>5, <1>7 DEF intent, log, evidence

LEMMA PublishStep ==
  ASSUME ConstantsAssumption, Ind, NEW result \in Results, publish_compaction(result)
  PROVE  Ind'
<1> USE DEF Ind
<1> DEFINE intent == slot.fence.intent
<1>1. /\ op = NoOp /\ op' = NoOp /\ life = "Running" /\ driver.at = "Sampling"
      /\ UNCHANGED <<life, staged, refused, installed, op, recovery, history>>
  BY DEF publish_compaction, Serving
<1>2. \/ slot' = slot /\ driver' = NoDriver
      \/ /\ Live /\ slot.fence.at = "IntentPending" /\ intent.id = driver.id
         /\ slot' = PublishedSlot
         /\ driver' = NoDriver \/ driver' = [driver EXCEPT !.at = "Published", !.id = driver.id]
  BY DEF publish_compaction, Cas, DriverAt, DriverFails, PublishedSlot
<1>3. NoDriver \in DriverSet /\ NoDriver.at = "Idle"
  BY IdleFacts
<1>4. CASE slot' = slot /\ driver' = NoDriver
  <2>1. TypeOK'
    BY <1>1, <1>3, <1>4, DriverTypes DEF TypeOK
  <2> QED BY <1>1, <1>3, <1>4, <2>1 DEF OpOK, LifeOK, HeardOK, WaitingOK, PublishedOK, RecoveringOK, EvidenceOf, ModelOnlyAfterIntent, AppliedIsInstalled
<1>5. CASE /\ Live /\ slot.fence.at = "IntentPending" /\ intent.id = driver.id
           /\ slot' = PublishedSlot
           /\ driver' = NoDriver \/ driver' = [driver EXCEPT !.at = "Published", !.id = driver.id]
  <2>1. slot' \in Slot /\ slot'.fence.at = "EvidencePending" /\ slot'.fence.intent = intent
    BY <1>5, PublishFacts
  <2>2. driver' \in DriverSet /\ driver'.at \in {"Idle", "Published"} /\ (driver'.at # "Idle" => driver'.id = driver.id)
    <3>1. driver.id \in 0 .. MaxCompactions
      BY DriverFields
    <3>2. LET published == [driver EXCEPT !.at = "Published", !.id = driver.id]
          IN  published \in DriverSet /\ published.at = "Published" /\ published.id = driver.id
      BY <3>1, DriverFields
    <3> QED BY <1>3, <1>5, <3>2
  <2>3. recovery.at \notin {"Install", "Installed"}
    BY <1>1, <1>5 DEF RecoveringOK, EvidenceOf
  <2>4. TypeOK'
    BY <1>1, <2>1, <2>2 DEF TypeOK, DriverSet, history
  <2> QED BY <1>1, <1>5, <2>1, <2>2, <2>3, <2>4 DEF OpOK, LifeOK, HeardOK, WaitingOK, PublishedOK, RecoveringOK, EvidenceOf, ModelOnlyAfterIntent, AppliedIsInstalled
<1> QED BY <1>2, <1>4, <1>5

LEMMA AppliedStep ==
  ASSUME ConstantsAssumption, Ind, compaction_applied
  PROVE  Ind'
<1> USE DEF Ind
<1>1. /\ op = NoOp /\ life = "Running" /\ driver.at = "Installed"
      /\ UNCHANGED <<slot, life, staged, refused, installed, recovery, history>>
  BY DEF compaction_applied, Serving
<1>2. \/ op' = NoOp
      \/ /\ op' # NoOp /\ op' \in OpSet /\ op'.at = "applied" /\ op'.document = slot
         /\ op'.by = "driver" /\ ~op'.heard
         /\ Live /\ slot.fence.at = "EvidencePending" /\ slot.fence.intent.id = driver.id
  BY <1>1, AppliedFacts DEF compaction_applied
<1>3. /\ driver' \in DriverSet
      /\ op' # NoOp => driver'.at = "Waiting" /\ driver'.id = driver.id /\ driver'.owner = driver.owner
      /\ op' = NoOp => driver'.at = "Idle"
  <2>1. IF op' # op THEN DriverAt("Waiting", driver.id) ELSE DriverFails
    BY DEF compaction_applied
  <2> QED BY <1>1, <2>1, DriverAnswer
<1>4. TypeOK'
  BY <1>1, <1>2, <1>3, DriverFields DEF TypeOK, DriverSet, OpSet, history
<1>5. installed = driver.id
  BY <1>1 DEF PublishedOK
<1>6. RecoveringOK'
  BY <1>1, <1>2, <1>3 DEF RecoveringOK, EvidenceOf
<1> QED BY <1>1, <1>2, <1>3, <1>4, <1>5, <1>6 DEF OpOK, LifeOK, Live, HeardOK, WaitingOK, PublishedOK, ModelOnlyAfterIntent, AppliedIsInstalled

-----------------------------------------------------------------------------
(* The observer *)

LEMMA FailsFacts ==
  ASSUME ConstantsAssumption, TypeOK, NEW by, Fails(by)
  PROVE  /\ driver' \in DriverSet /\ recovery' \in RecoverySet
         /\ life' \in {"Closed", "Starting", "Running"}
         /\ by = "driver" => /\ recovery' = recovery /\ life' = life
                             /\ driver.at = "Waiting" => driver' = NoDriver /\ driver'.at = "Idle"
                             /\ driver.at # "Waiting" => driver' = driver
         /\ by # "driver" => /\ recovery' = NoRecovery /\ recovery'.at = "Idle" /\ driver' = driver
                             /\ life' = IF recovery.why = "startup" THEN "Closed" ELSE life
<1>1. driver \in DriverSet /\ recovery \in RecoverySet /\ life \in {"Closed", "Starting", "Running"}
  BY DEF TypeOK, DriverSet, RecoverySet
<1> QED BY <1>1, IdleFacts DEF Fails, DriverFails, RecoveryFails

\* The fence of a call that awaits the observer
LEMMA OpFence ==
  ASSUME Ind, op # NoOp
  PROVE  /\ op.document = slot /\ slot \in Slot /\ slot.fence \in Fence /\ Live
         /\ slot.fence # NoFence /\ slot.fence.intent \in Intent
         /\ slot.fence.intent.id \in 1 .. MaxCompactions
         /\ op.at = "notApplied" => slot.fence.reason \in Reasons
<1>1. slot \in Slot /\ slot.fence \in Fence
  BY SlotFacts DEF Ind, TypeOK
<1>2. op.at \in {"intent", "notApplied", "applied"}
  BY OpFacts DEF Ind
<1>3. slot.fence # NoFence /\ slot.fence.intent \in Intent
  BY <1>1, <1>2, FenceFacts, FenceTypes DEF Ind, OpOK
<1> QED BY <1>1, <1>2, <1>3, IntentFacts, FenceFacts DEF Ind, OpOK

LEMMA OutcomeFacts ==
  ASSUME ConstantsAssumption, Ind, op # NoOp, op.at # "intent"
  PROVE  Outcome(slot) \in [id : 1 .. MaxCompactions, verdict : {"Applied", "NotApplied"}, reason : Reasons]
<1>1. op.at \in {"notApplied", "applied"}
  BY OpFacts DEF Ind
<1>2. CASE op.at = "applied"
  BY <1>2, OpFence DEF Ind, OpOK, Outcome, ConstantsAssumption
<1>3. CASE op.at = "notApplied"
  BY <1>3, OpFence DEF Ind, OpOK, Outcome
<1> QED BY <1>1, <1>2, <1>3

LEMMA HearStep ==
  ASSUME ConstantsAssumption, Ind, Hear
  PROVE  Ind'
<1> USE DEF Ind
<1>1. /\ op # NoOp /\ op \in OpSet /\ op.document = slot
      /\ UNCHANGED <<slot, life, staged, refused, installed, driver, recovery, appended, minted, faults, acked, lost, repeats>>
  BY OpFacts, OpFence DEF Hear
<1>2. /\ op' \in OpSet /\ op'.at = op.at /\ op'.document = op.document /\ op'.by = op.by
  BY <1>1 DEF Hear, OpSet
<1>3. op' # NoOp
  BY <1>1, <1>2 DEF OpSet, NoOp
<1>4. CASE op.at = "intent"
  <2>1. intents' = intents \cup {slot.fence.intent.id} /\ outcomes' = outcomes
    BY <1>1, <1>4 DEF Hear
  <2>2. TypeOK'
    <3>1. intents' \subseteq 1 .. MaxCompactions
      BY <1>1, <2>1, OpFence DEF TypeOK
    <3> QED  BY <1>1, <1>2, <2>1, <3>1, Zenon DEF TypeOK, OpSet
  <2>3. HeardOK'
    BY <1>1, <1>2, <1>4, <2>1 DEF HeardOK
  <2> QED BY <1>1, <1>2, <1>3, <2>1, <2>2, <2>3 DEF OpOK, LifeOK, Live, WaitingOK, PublishedOK, RecoveringOK, EvidenceOf, ModelOnlyAfterIntent, AppliedIsInstalled
<1>5. CASE op.at # "intent"
  <2>1. outcomes' = outcomes \cup {Outcome(slot)} /\ intents' = intents
    BY <1>1, <1>5 DEF Hear
  <2>2. TypeOK'
    <3>1. outcomes' \subseteq [id : 1 .. MaxCompactions, verdict : {"Applied", "NotApplied"},
                               reason : Reasons]
      BY <1>1, <1>5, <2>1, OutcomeFacts DEF TypeOK
    <3> QED  BY <1>1, <1>2, <2>1, <3>1, Zenon DEF TypeOK, OpSet
  <2>3. Outcome(op.document)' = Outcome(slot)
    BY <1>1, <1>2 DEF Outcome
  <2>4. HeardOK'
    BY <1>1, <1>2, <1>5, <2>1, <2>3 DEF HeardOK
  <2> QED BY <1>1, <1>2, <1>3, <2>1, <2>2, <2>4 DEF OpOK, LifeOK, Live, WaitingOK, PublishedOK, RecoveringOK, EvidenceOf, ModelOnlyAfterIntent, AppliedIsInstalled
<1> QED BY <1>4, <1>5

LEMMA ObserverFailsStep ==
  ASSUME ConstantsAssumption, Ind, ObserverFails
  PROVE  Ind'
<1> USE DEF Ind
<1>1. op # NoOp /\ op' = NoOp /\ Fails(op.by) /\ UNCHANGED <<slot, staged, refused, installed, history>>
  BY DEF ObserverFails
<1>2. op.by \in {"driver", "recovery"}
  BY <1>1, OpFacts
<1>3. TypeOK'
  BY <1>1, FailsFacts DEF TypeOK, DriverSet, RecoverySet, history
<1>4. CASE op.by = "driver"
  <2>1. /\ recovery' = recovery /\ life' = life
        /\ driver.at = "Waiting" => driver'.at = "Idle"
        /\ driver.at # "Waiting" => driver' = driver
    BY <1>1, <1>4, FailsFacts
  <2> QED BY <1>1, <1>3, <2>1 DEF OpOK, LifeOK, HeardOK, WaitingOK, PublishedOK, RecoveringOK, EvidenceOf, ModelOnlyAfterIntent, AppliedIsInstalled, history
<1>5. CASE op.by = "recovery"
  <2>1. /\ recovery'.at = "Idle" /\ driver' = driver
        /\ life' = IF recovery.why = "startup" THEN "Closed" ELSE life
    BY <1>1, <1>5, FailsFacts
  <2>2. life' # "Running" => driver'.at = "Idle"
    BY <1>1, <1>5, <2>1 DEF LifeOK
  <2> QED BY <1>1, <1>3, <2>1, <2>2 DEF OpOK, LifeOK, HeardOK, WaitingOK, PublishedOK, RecoveringOK, EvidenceOf, ModelOnlyAfterIntent, AppliedIsInstalled, history
<1> QED BY <1>2, <1>4, <1>5

LEMMA IntentAcknowledgedStep ==
  ASSUME ConstantsAssumption, Ind, IntentAcknowledged
  PROVE  Ind'
<1> USE DEF Ind
<1>1. /\ op # NoOp /\ op.at = "intent" /\ op.heard /\ op' = NoOp
      /\ UNCHANGED <<slot, life, staged, refused, installed, recovery, history>>
  BY DEF IntentAcknowledged
<1>2. /\ driver' \in DriverSet
      /\ driver.at = "Waiting" => driver'.at = "Sampling" /\ driver'.id = driver.id
      /\ driver.at # "Waiting" => driver' = driver
  <2>1. driver \in DriverSet /\ driver.id \in 0 .. MaxCompactions
    BY DriverFields
  <2>2. LET d == [driver EXCEPT !.at = "Sampling", !.id = driver.id]
        IN  d \in DriverSet /\ d.at = "Sampling" /\ d.id = driver.id
    BY <2>1, DriverFields
  <2> QED BY <2>1, <2>2 DEF IntentAcknowledged, DriverAt
<1>3. TypeOK'
  BY <1>1, <1>2 DEF TypeOK, DriverSet, history
<1>4. recovery.at \notin {"Install", "Installed"}
  BY <1>1, OpFence DEF OpOK, RecoveringOK, EvidenceOf
<1>5. driver.at = "Waiting" => driver.id \in intents
  BY <1>1 DEF OpOK, HeardOK, WaitingOK
<1>6. life = "Running" \/ driver.at = "Idle"
  BY DEF LifeOK
<1> QED BY <1>1, <1>2, <1>3, <1>4, <1>5, <1>6 DEF OpOK, LifeOK, HeardOK, WaitingOK, PublishedOK, RecoveringOK, EvidenceOf, ModelOnlyAfterIntent, AppliedIsInstalled, history

\* The manifest without its fence
LEMMA LiftFacts ==
  ASSUME Ind, op # NoOp
  PROVE  LET lifted == Successor(slot, slot.log, NoFence)
         IN  lifted \in Slot /\ lifted.at = "Live" /\ lifted.fence = NoFence /\ lifted.log = slot.log
<1>1. slot \in Slot /\ slot.log \in Seq(Record) /\ NoFence \in Fence
  BY OpFence, SlotFacts, FenceTypes
<1> QED BY <1>1, SuccessorFacts

LEMMA IntentRejectedStep ==
  ASSUME ConstantsAssumption, Ind, NEW result \in Results, IntentRejected(result)
  PROVE  Ind'
<1> USE DEF Ind
<1>1. /\ op # NoOp /\ op.at = "intent" /\ op' = NoOp /\ Fails("driver")
      /\ UNCHANGED <<staged, refused, installed, history>>
  BY DEF IntentRejected
<1>2. slot' = slot \/ slot' = Successor(slot, slot.log, NoFence)
  BY DEF IntentRejected, Cas
<1>3. slot' \in Slot /\ (slot' = slot \/ slot'.fence = NoFence)
  BY <1>1, <1>2, LiftFacts, OpFence
<1>4. /\ recovery' = recovery /\ life' = life /\ driver' \in DriverSet
      /\ driver.at = "Waiting" => driver'.at = "Idle"
      /\ driver.at # "Waiting" => driver' = driver
  BY <1>1, FailsFacts
<1>5. TypeOK'
  BY <1>1, <1>3, <1>4 DEF TypeOK, DriverSet, history
<1>6. recovery.at \notin {"Install", "Installed"}
  BY <1>1, OpFence DEF OpOK, RecoveringOK, EvidenceOf
<1> QED BY <1>1, <1>3, <1>4, <1>5, <1>6 DEF OpOK, LifeOK, HeardOK, WaitingOK, PublishedOK, RecoveringOK, EvidenceOf, ModelOnlyAfterIntent, AppliedIsInstalled, history

\* The three ways in which an acknowledged outcome ends its call
LEMMA OutcomeAcknowledgedStep ==
  ASSUME ConstantsAssumption, Ind, NEW result \in Results, OutcomeAcknowledged(result)
  PROVE  Ind'
<1> USE DEF Ind
<1>1. /\ op # NoOp /\ op.at \in {"notApplied", "applied"} /\ op' = NoOp /\ op.by \in {"driver", "recovery"}
      /\ UNCHANGED <<staged, refused, installed, history>>
  BY OpFacts DEF OutcomeAcknowledged
<1>2. slot' = slot \/ slot' = Successor(slot, slot.log, NoFence)
  BY <1>1, OpFence DEF OutcomeAcknowledged, Cas
<1>3. slot' \in Slot /\ (slot' = slot \/ slot'.fence = NoFence)
  BY <1>1, <1>2, LiftFacts, OpFence
<1>4. CASE op.by = "recovery"
  <2>1. /\ recovery' = NoRecovery /\ recovery'.at = "Idle" /\ recovery' \in RecoverySet
        /\ life' \in {"Closed", "Starting", "Running"} /\ driver' \in DriverSet
        /\ driver' = driver \/ (driver'.at = "Ready" /\ life' = "Running")
        /\ life' = "Running" \/ life' = life \/ (life' = "Closed" /\ recovery.why = "startup")
    <3>1. CASE result # "Ok" /\ Fails(op.by)
      <4>1. /\ recovery' = NoRecovery /\ recovery'.at = "Idle" /\ driver' = driver
            /\ life' = (IF recovery.why = "startup" THEN "Closed" ELSE life)
            /\ driver' \in DriverSet /\ recovery' \in RecoverySet /\ life' \in {"Closed", "Starting", "Running"}
        BY <1>4, <3>1, FailsFacts
      <4> QED BY <4>1
    <3>2. CASE result = "Ok" /\ RecoverySucceeds(recovery.why)
      <4>1. [at |-> "Ready", owner |-> "manual", id |-> 0] \in DriverSet
        BY DEF DriverSet, ConstantsAssumption
      <4> QED BY <3>2, <4>1, IdleFacts, DriverFields DEF RecoverySucceeds
    <3> QED BY <1>4, <3>1, <3>2 DEF OutcomeAcknowledged
  <2>2. TypeOK'
    BY <1>1, <1>3, <2>1 DEF TypeOK, DriverSet, RecoverySet, history
  <2>3. life' # "Running" => driver'.at = "Idle"
    BY <1>1, <1>4, <2>1 DEF LifeOK
  <2> QED BY <1>1, <1>3, <2>1, <2>2, <2>3 DEF OpOK, LifeOK, HeardOK, WaitingOK, PublishedOK, RecoveringOK, EvidenceOf, ModelOnlyAfterIntent, AppliedIsInstalled, history
<1>5. CASE op.by = "driver"
  <2>1. /\ recovery' = recovery /\ life' = life /\ driver' \in DriverSet
        /\ driver.at # "Waiting" => driver' = driver
        /\ driver.at = "Waiting" => driver'.at \in {"Idle", "Ready"}
        /\ driver.at = "Waiting" /\ op.at = "applied" => driver'.at = "Idle"
    <3>1. CASE result # "Ok" /\ Fails(op.by)
      BY <1>5, <3>1, FailsFacts
    <3>2. CASE /\ result = "Ok"
               /\ driver' = IF driver.at # "Waiting" THEN driver
                            ELSE IF op.at = "applied" THEN NoDriver
                            ELSE [driver EXCEPT !.at = "Ready", !.id = 0]
               /\ UNCHANGED <<life, recovery>>
      <4>1. 0 \in 0 .. MaxCompactions
        BY DEF ConstantsAssumption
      <4>3. driver \in DriverSet
        BY DriverFields
      <4>2. LET d == [driver EXCEPT !.at = "Ready", !.id = 0] IN d \in DriverSet /\ d.at = "Ready"
        BY <4>1, DriverFields
      <4> QED BY <3>2, <4>3, <4>2, IdleFacts
    <3> QED BY <1>5, <3>1, <3>2 DEF OutcomeAcknowledged
  <2>2. TypeOK'
    BY <1>1, <1>3, <2>1 DEF TypeOK, DriverSet, history
  <2>3. recovery.at \in {"Install", "Installed"}
          => driver.at = "Waiting" /\ recovery.why = "compact" /\ op.at = "applied" /\ driver'.at = "Idle"
    BY <1>1, <2>1, OpFence DEF OpOK, RecoveringOK, EvidenceOf
  <2>4. RecoveringOK'
    BY <1>1, <1>3, <2>1, <2>3 DEF RecoveringOK, EvidenceOf
  <2> QED BY <1>1, <1>3, <2>1, <2>2, <2>4 DEF OpOK, LifeOK, HeardOK, WaitingOK, PublishedOK, EvidenceOf, ModelOnlyAfterIntent, AppliedIsInstalled, history
<1> QED BY <1>1, <1>4, <1>5

-----------------------------------------------------------------------------
(* Recovery *)

LEMMA RecoverReasonFacts ==
  ASSUME ConstantsAssumption, NEW f \in Fence
  PROVE  RecoverReason(f) \in Reasons
BY FenceFacts DEF RecoverReason, ConstantsAssumption

LEMMA RecoverStep ==
  ASSUME ConstantsAssumption, Ind, NEW why \in {"startup", "prompt", "compact"}, NEW result \in Results,
         recover_native_compaction(why, result)
  PROVE  Ind'
<1> USE DEF Ind
<1>1. /\ op = NoOp /\ recovery = NoRecovery /\ MayRecover(why) /\ Live
      /\ UNCHANGED <<staged, refused, installed, history>>
  BY DEF recover_native_compaction
<1>2. slot \in Slot /\ slot.fence \in Fence /\ recovery.at = "Idle"
  BY <1>1, SlotFacts, IdleFacts DEF TypeOK
<1>3. life = IF why = "startup" THEN "Starting" ELSE "Running"
  BY <1>1 DEF MayRecover
<1>4. CASE slot.fence = NoFence /\ RecoverySucceeds(why) /\ UNCHANGED <<slot, op>>
  <2>1. [at |-> "Ready", owner |-> "manual", id |-> 0] \in DriverSet
    BY DEF DriverSet, ConstantsAssumption
  <2>2. /\ recovery' \in RecoverySet /\ recovery'.at = "Idle" /\ life' = "Running" /\ driver' \in DriverSet
        /\ driver' = driver \/ driver'.at = "Ready"
    BY <1>4, <2>1, IdleFacts, DriverFields DEF RecoverySucceeds
  <2>3. TypeOK'
    BY <1>1, <1>4, <2>2 DEF TypeOK, DriverSet, RecoverySet, history
  <2> QED BY <1>1, <1>4, <2>2, <2>3 DEF OpOK, LifeOK, HeardOK, WaitingOK, PublishedOK, RecoveringOK, EvidenceOf, ModelOnlyAfterIntent, AppliedIsInstalled, history
<1>5. CASE /\ slot.fence.at \in {"IntentPending", "NotAppliedPending"}
           /\ NotAppliedBegins(slot.fence.intent.id, RecoverReason(slot.fence), "recovery", result)
           /\ IF op' # op
              THEN recovery' = [at |-> "Waiting", why |-> why, id |-> slot.fence.intent.id] /\ life' = life
              ELSE recovery' = NoRecovery /\ life' = IF why = "startup" THEN "Closed" ELSE life
           /\ UNCHANGED driver
  <2>1. /\ slot' \in Slot
        /\ \/ slot' = slot
           \/ slot.fence.at = "IntentPending" /\ Refences(NotAppliedPending(slot.fence.intent, RecoverReason(slot.fence)))
        /\ \/ op' = NoOp
           \/ /\ op' # NoOp /\ op' \in OpSet /\ op'.at = "notApplied" /\ op'.document = slot'
              /\ op'.by = "recovery" /\ ~op'.heard
              /\ slot'.at = "Live" /\ slot'.fence.at = "NotAppliedPending"
    BY <1>1, <1>2, <1>5, NotAppliedFacts, RecoverReasonFacts
  <2>2. slot.fence.intent.id \in 0 .. MaxCompactions
    BY <1>2, <1>5, FenceFacts, IntentFacts
  <2>3. /\ recovery' \in RecoverySet /\ recovery'.at \in {"Idle", "Waiting"}
        /\ op' # NoOp => recovery'.at = "Waiting" /\ recovery'.why = why /\ life' = life
        /\ op' = NoOp => recovery'.at = "Idle" /\ life' = IF why = "startup" THEN "Closed" ELSE life
    <3>1. CASE op' # NoOp
      BY <1>1, <1>5, <2>2, <3>1 DEF RecoverySet
    <3>2. CASE op' = NoOp
      BY <1>1, <1>5, <3>2, IdleFacts
    <3> QED BY <3>1, <3>2
  <2>4. TypeOK'
    BY <1>1, <1>3, <1>5, <2>1, <2>3 DEF TypeOK, RecoverySet, OpSet, history
  <2>5. driver.at \notin {"Published", "Installed"}
    BY <1>5, FenceTypes DEF PublishedOK, EvidenceOf
  <2>6. LifeOK'
    BY <1>3, <1>5, <2>3 DEF LifeOK
  <2> QED BY <1>1, <1>3, <1>5, <2>1, <2>3, <2>4, <2>5, <2>6 DEF OpOK, Live, HeardOK, WaitingOK, PublishedOK, RecoveringOK, ModelOnlyAfterIntent, AppliedIsInstalled, history
<1>6. CASE /\ slot.fence.at = "EvidencePending"
           /\ recovery' = [at |-> "Install", why |-> why, id |-> slot.fence.intent.id]
           /\ UNCHANGED <<slot, life, op, driver>>
  <2>1. slot.fence.intent.id \in 0 .. MaxCompactions
    BY <1>2, <1>6, FenceFacts, IntentFacts
  <2>2. /\ recovery' \in RecoverySet /\ recovery'.at = "Install" /\ recovery'.why = why
        /\ recovery'.id = slot.fence.intent.id
    BY <1>6, <2>1 DEF RecoverySet
  <2>3. TypeOK'
    BY <1>1, <1>6, <2>2 DEF TypeOK, RecoverySet, history
  <2>4. /\ why # "compact" => driver.at = "Idle"
        /\ why = "compact" => driver.at = "Idle" \/ driver.owner = "manual"
    BY <1>1, <1>3 DEF MayRecover, is_applying, LifeOK
  <2>5. RecoveringOK'
    BY <1>1, <1>6, <2>2, <2>4 DEF RecoveringOK, EvidenceOf
  <2> QED BY <1>1, <1>3, <1>6, <2>2, <2>3, <2>5 DEF OpOK, LifeOK, Live, HeardOK, WaitingOK, PublishedOK, EvidenceOf, ModelOnlyAfterIntent, AppliedIsInstalled, history
<1> QED BY <1>4, <1>5, <1>6 DEF recover_native_compaction

LEMMA RecoveryInstallsStep ==
  ASSUME ConstantsAssumption, Ind, RecoveryInstalls
  PROVE  Ind'
<1> USE DEF Ind
<1>1. /\ recovery.at = "Install" /\ installed' = recovery.id
      /\ UNCHANGED <<slot, life, staged, refused, op, driver, history>>
  BY DEF RecoveryInstalls
<1>2. /\ recovery' \in RecoverySet /\ recovery'.at = "Installed" /\ recovery'.why = recovery.why
      /\ recovery'.id = recovery.id /\ recovery.id \in 0 .. MaxCompactions
  BY DEF RecoveryInstalls, TypeOK, RecoverySet
<1>3. TypeOK'
  BY <1>1, <1>2 DEF TypeOK, RecoverySet, history
<1>4. NoFence.at = "None"
  BY FenceTypes
<1>5. PublishedOK' /\ RecoveringOK'
  BY <1>1, <1>2, <1>4 DEF PublishedOK, RecoveringOK, EvidenceOf
<1>6. AppliedIsInstalled'
  BY <1>1, <1>4 DEF OpOK, RecoveringOK, EvidenceOf, AppliedIsInstalled
<1> QED BY <1>1, <1>2, <1>3, <1>5, <1>6 DEF OpOK, LifeOK, Live, HeardOK, WaitingOK, ModelOnlyAfterIntent, Outcome, history

LEMMA RecoveryAcknowledgesStep ==
  ASSUME ConstantsAssumption, Ind, RecoveryAcknowledges
  PROVE  Ind'
<1> USE DEF Ind
<1>1. /\ op = NoOp /\ recovery.at = "Installed" /\ AppliedBegins(recovery.id, "recovery")
      /\ UNCHANGED <<slot, staged, refused, installed, history>>
  BY DEF RecoveryAcknowledges
<1>2. \/ op' = NoOp
      \/ /\ op' # NoOp /\ op' \in OpSet /\ op'.at = "applied" /\ op'.document = slot
         /\ op'.by = "recovery" /\ ~op'.heard
         /\ Live /\ slot.fence.at = "EvidencePending" /\ slot.fence.intent.id = recovery.id
  BY <1>1, AppliedFacts
<1>3. CASE op' # NoOp
  <2>1. /\ recovery' \in RecoverySet /\ recovery'.at = "Waiting" /\ recovery'.why = recovery.why
        /\ UNCHANGED <<life, driver>>
    BY <1>1, <1>3 DEF RecoveryAcknowledges, TypeOK, RecoverySet
  <2>2. TypeOK'
    BY <1>1, <1>2, <1>3, <2>1 DEF TypeOK, RecoverySet, OpSet, history
  <2>3. installed = recovery.id
    BY <1>1 DEF RecoveringOK
  <2>4. life # "Closed"
    BY <1>1 DEF LifeOK
  <2> QED BY <1>1, <1>2, <1>3, <2>1, <2>2, <2>3, <2>4 DEF OpOK, LifeOK, Live, HeardOK, WaitingOK, PublishedOK, RecoveringOK, EvidenceOf, ModelOnlyAfterIntent, AppliedIsInstalled, history
<1>4. CASE op' = NoOp
  <2>1. RecoveryFails
    BY <1>1, <1>4 DEF RecoveryAcknowledges
  <2>2. /\ recovery' \in RecoverySet /\ recovery'.at = "Idle" /\ driver' = driver
        /\ life' = IF recovery.why = "startup" THEN "Closed" ELSE life
    BY <2>1, IdleFacts DEF RecoveryFails
  <2>3. TypeOK'
    BY <1>1, <1>4, <2>2 DEF TypeOK, RecoverySet, history
  <2> QED BY <1>1, <1>4, <2>2, <2>3 DEF OpOK, LifeOK, HeardOK, WaitingOK, PublishedOK, RecoveringOK, EvidenceOf, ModelOnlyAfterIntent, AppliedIsInstalled, history
<1> QED BY <1>3, <1>4

-----------------------------------------------------------------------------
(* The Session *)

\* A closed actor has no call, no compaction and no recovery.
LEMMA ClosedFacts ==
  ASSUME Ind, life = "Closed"
  PROVE  op = NoOp /\ driver.at = "Idle" /\ recovery.at = "Idle"
BY DEF Ind, OpOK, LifeOK

LEMMA CreateFacts ==
  LET empty == Successor(Vacant, <<>>, NoFence)
  IN  empty \in Slot /\ empty.at = "Live" /\ empty.log = <<>> /\ empty.fence = NoFence
<1>1. Vacant \in Slot
  BY FenceTypes DEF Vacant, Slot
<1> DEFINE log == <<>>
<1>2. log \in Seq(Record) /\ NoFence \in Fence
  BY FenceTypes
<1>3. LET empty == Successor(Vacant, log, NoFence)
      IN  empty \in Slot /\ empty.at = "Live" /\ empty.log = log /\ empty.fence = NoFence
  <2> HIDE DEF log
  <2> QED BY <1>1, <1>2, SuccessorFacts
<1> QED BY <1>3

\* Creation, opening and deletion touch a closed actor only.
LEMMA SessionStep ==
  ASSUME ConstantsAssumption, Ind, NEW result \in Results, create(result) \/ open \/ tombstone(result)
  PROVE  Ind'
<1>1. /\ life = "Closed" /\ life' \in {"Closed", "Starting"}
      /\ UNCHANGED <<staged, refused, installed, op, driver, recovery, history>>
  BY DEF create, open, tombstone, memory
<1>2. op = NoOp /\ driver.at = "Idle" /\ recovery.at = "Idle"
  BY <1>1, ClosedFacts
<1>3. slot' \in Slot
  <2>1. slot \in Slot
    BY DEF Ind, TypeOK
  <2>2. [slot EXCEPT !.at = "Tombstoned"] \in Slot
    BY <2>1 DEF Slot
  <2>3. slot' \in {slot, Successor(Vacant, <<>>, NoFence), [slot EXCEPT !.at = "Tombstoned"]}
    BY DEF create, open, tombstone, Cas
  <2> QED BY <2>1, <2>2, <2>3, CreateFacts
<1>4. TypeOK'
  BY <1>1, <1>3 DEF Ind, TypeOK, history
<1> QED BY <1>1, <1>2, <1>4 DEF Ind, OpOK, LifeOK, HeardOK, WaitingOK, PublishedOK, RecoveringOK,
                               ModelOnlyAfterIntent, AppliedIsInstalled

LEMMA CrashStep ==
  ASSUME ConstantsAssumption, Ind, Crash
  PROVE  Ind'
<1>1. /\ op' = NoOp /\ life' = "Closed" /\ staged' = <<>> /\ installed' = 0 /\ refused' = {}
      /\ driver' = NoDriver /\ recovery' = NoRecovery /\ faults' = faults + 1 /\ faults < MaxFaults
      /\ lost' = lost \cup SetOf(staged)
      /\ UNCHANGED <<slot, appended, minted, intents, outcomes, acked, repeats>>
  BY DEF Crash
<1>2. /\ driver' \in DriverSet /\ driver'.at = "Idle" /\ recovery' \in RecoverySet /\ recovery'.at = "Idle"
  BY <1>1, IdleFacts
<1>3. /\ faults' \in 0 .. MaxFaults /\ installed' \in 0 .. MaxCompactions /\ refused' \subseteq 1 .. MaxUpdates
  BY <1>1 DEF Ind, TypeOK, ConstantsAssumption
<1>4. staged' \in Seq(1 .. MaxUpdates) /\ lost' \subseteq 1 .. MaxUpdates
  <2>1. SetOf(staged) \subseteq 1 .. MaxUpdates /\ <<>> \in Seq(1 .. MaxUpdates)
    BY DEF SetOf, Ind, TypeOK
  <2> QED BY <1>1, <2>1 DEF Ind, TypeOK
<1>5. TypeOK'
  BY <1>1, <1>2, <1>3, <1>4 DEF Ind, TypeOK, DriverSet, RecoverySet
<1> QED BY <1>1, <1>2, <1>5 DEF Ind, OpOK, LifeOK, HeardOK, WaitingOK, PublishedOK, RecoveringOK,
                               ModelOnlyAfterIntent, AppliedIsInstalled

LEMMA StutterStep ==
  ASSUME Ind, UNCHANGED vars
  PROVE  Ind'
BY DEF vars, memory, history, Ind, TypeOK, OpOK, LifeOK, Live, HeardOK, WaitingOK, PublishedOK, RecoveringOK, EvidenceOf,
       ModelOnlyAfterIntent, AppliedIsInstalled, Outcome

LEMMA InitInd ==
  ASSUME ConstantsAssumption, Init
  PROVE  Ind
<1>1. Vacant \in Slot
  BY FenceTypes DEF Vacant, Slot
<1>2. /\ driver \in DriverSet /\ driver.at = "Idle" /\ recovery \in RecoverySet /\ recovery.at = "Idle"
  BY IdleFacts DEF Init
<1>3. staged \in Seq(1 .. MaxUpdates)
  BY DEF Init
<1>4. TypeOK
  BY <1>1, <1>2, <1>3 DEF Init, TypeOK, DriverSet, RecoverySet, ConstantsAssumption
<1> QED BY <1>2, <1>4 DEF Init, Ind, OpOK, LifeOK, HeardOK, WaitingOK, PublishedOK, RecoveringOK,
                         ModelOnlyAfterIntent, AppliedIsInstalled

\* Every action preserves the inductive invariant.
LEMMA IndStep ==
  ASSUME ConstantsAssumption, Ind, [Next]_vars
  PROVE  Ind'
<1>1. CASE UNCHANGED vars
  BY <1>1, StutterStep
<1>2. ASSUME NEW result \in Results, NEW n \in 1 .. MaxUpdates, NEW durable \in BOOLEAN,
             append_update(n, durable, result)
      PROVE  Ind'
  BY <1>2, AppendStep
<1>3. ASSUME NEW result \in Results, flush(result) \/ publish_mark(result)
      PROVE  Ind'
  BY <1>3, FlushStep
<1>4. ASSUME NEW result \in Results, NEW input \in Inputs, begin_compaction(input, result)
      PROVE  Ind'
  BY <1>4, BeginStep
<1>5. ASSUME NEW result \in Results, NEW reason \in Reasons \ {Interrupted}, compaction_not_applied(reason, result)
      PROVE  Ind'
  BY <1>5, NotAppliedStep
<1>6. ASSUME NEW result \in Results, publish_compaction(result)
      PROVE  Ind'
  BY <1>6, PublishStep
<1>7. ASSUME NEW result \in Results, IntentRejected(result)
      PROVE  Ind'
  BY <1>7, IntentRejectedStep
<1>8. ASSUME NEW result \in Results, OutcomeAcknowledged(result)
      PROVE  Ind'
  BY <1>8, OutcomeAcknowledgedStep
<1>9. ASSUME NEW result \in Results, NEW why \in {"startup", "prompt", "compact"},
             recover_native_compaction(why, result)
      PROVE  Ind'
  BY <1>9, RecoverStep
<1>10. ASSUME NEW result \in Results, create(result) \/ open \/ tombstone(result)
       PROVE  Ind'
  BY <1>10, SessionStep
<1>11. CASE open
  BY <1>10, <1>11 DEF Results
<1>12. CASE install_published_compaction
  BY <1>12, InstallStep
<1>13. CASE compaction_applied
  BY <1>13, AppliedStep
<1>14. CASE Hear
  BY <1>14, HearStep
<1>15. CASE ObserverFails
  BY <1>15, ObserverFailsStep
<1>16. CASE IntentAcknowledged
  BY <1>16, IntentAcknowledgedStep
<1>17. CASE run_compact_only
  BY <1>17, CompactOnlyStep
<1>18. CASE DriverEnds \/ TurnAborted
  BY <1>18, DriverStopsStep
<1>19. CASE RecoveryInstalls
  BY <1>19, RecoveryInstallsStep
<1>20. CASE RecoveryAcknowledges
  BY <1>20, RecoveryAcknowledgesStep
<1>21. CASE Crash
  BY <1>21, CrashStep
<1> QED BY <1>1, <1>2, <1>3, <1>4, <1>5, <1>6, <1>7, <1>8, <1>9, <1>10, <1>11, <1>12, <1>13, <1>14, <1>15,
           <1>16, <1>17, <1>18, <1>19, <1>20, <1>21 DEF Next

LEMMA Inductive == Spec => []Ind
<1>1. ConstantsAssumption
  BY ConstantsAssumption
<1>2. Init => Ind
  BY <1>1, InitInd
<1>3. Ind /\ [Next]_vars => Ind'
  BY <1>1, IndStep
<1> QED BY <1>2, <1>3, PTL DEF Spec

-----------------------------------------------------------------------------
(* Safety *)

\* Every reachable state has the types of TypeOK.
THEOREM SessionTypes == Spec => []TypeOK
<1>1. Ind => TypeOK
  BY DEF Ind
<1> QED BY <1>1, Inductive, PTL

\* The model summarises the log only for a compaction whose intent the
\* observer has heard, whatever was lost or retried before.
THEOREM ModelAfterIntent == Spec => []ModelOnlyAfterIntent
<1>1. Ind => ModelOnlyAfterIntent
  BY DEF Ind
<1> QED BY <1>1, Inductive, PTL

\* A compaction is acknowledged as applied only by a process whose
\* conversation starts from its checkpoint.
THEOREM InstalledBeforeAcknowledged == Spec => []AppliedIsInstalled
<1>1. Ind => AppliedIsInstalled
  BY DEF Ind
<1> QED BY <1>1, Inductive, PTL

=============================================================================
