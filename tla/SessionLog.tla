----------------------------- MODULE SessionLog -----------------------------
(***************************************************************************)
(* The durable transcript of one Session and its compaction protocol       *)
(* (crates/sophon-sdk session_state/ and private/session_authority.rs,     *)
(* driven by the Session actor of crates/codegen/xai-grok-shell).          *)
(*                                                                         *)
(* The log is a chain of immutable objects named by a manifest that is     *)
(* replaced by compare-and-swap.  Updates are staged in memory and         *)
(* published by a flush.  A compaction raises a durable fence, asks an     *)
(* observer, lets a model summarise the log, publishes a checkpoint or     *)
(* gives up, and tells the observer which; the fence stays until it was    *)
(* told.  Every store call may be lost, the observer may fail or hear a    *)
(* call whose answer is lost, and the process may crash at any point.      *)
(*                                                                         *)
(* The persistence actor runs one call at a time, so a call is one step,   *)
(* except where it awaits the observer.  Objects are put before the        *)
(* manifest that names them and cannot be seen without it: a put that      *)
(* fails is a compare-and-swap that fails.  The lease excludes a second    *)
(* Runtime, so there is one process at a time.                             *)
(***************************************************************************)
EXTENDS Integers, Sequences

CONSTANTS Inputs,          \* frozen compaction requests
          Reasons,         \* why a compaction was not applied
          Interrupted,     \* InterruptedBeforePublication
          MaxUpdates,      \* bound: updates appended to the Session
          MaxLog,          \* bound: records of the log
          MaxRepeats,      \* bound: flushes with a lost answer and repeated appends
          MaxCompactions,  \* bound: compaction identities minted
          MaxFaults        \* bound: crashes and aborted turns

ASSUME ConstantsAssumption ==
  /\ Interrupted \in Reasons
  /\ MaxUpdates \in Nat /\ MaxLog \in Nat /\ MaxRepeats \in Nat
  /\ MaxCompactions \in Nat /\ MaxFaults \in Nat

VARIABLES
  slot,       \* durable: the store's slot, with the log its manifest names
  life,       \* the Session actor: Closed, Starting (the startup fence) or Running
  staged,     \* the updates that are not published
  refused,    \* the updates whose append was answered NotCommitted
  installed,  \* the compaction the conversation in memory starts from
  op,         \* the call of the persistence actor that awaits the observer
  driver,     \* the applying compaction and its permit
  recovery,   \* recover_native_compaction
  appended,   \* history: updates appended, named 1, 2, ...
  minted,     \* history: compaction identities minted, named 1, 2, ...
  faults,     \* history: crashes and aborted turns
  intents,    \* history: the intents the observer has heard
  outcomes,   \* history: the outcomes the observer has heard
  acked,      \* history: the updates whose flush was acknowledged
  lost,       \* history: the updates that were staged at a crash
  repeats     \* history: how often staged updates were, or could be, staged again

memory  == <<life, staged, refused, installed, op, driver, recovery>>
history == <<appended, minted, faults, intents, outcomes, acked, lost, repeats>>
vars == <<slot, memory, history>>

-----------------------------------------------------------------------------
(* The manifest *)

\* SessionObjectKind of the chain: transcript segments, checkpoint and rewind
\* publications ("mark"), and compaction publications with the sequence of
\* their base.
Record == [kind : {"update", "mark", "compaction"}, of : Nat, base : Nat]

Update(n) == [kind |-> "update", of |-> n, base |-> 0]
Mark == [kind |-> "mark", of |-> 0, base |-> 0]
Publication(intent) == [kind |-> "compaction", of |-> intent.id, base |-> intent.sequence]

\* CompactionIntent: an identity, the frozen request and the base manifest.
\* Within a generation the chain only grows, so its sequence names its head.
Intent == [id : 1 .. MaxCompactions, input : Inputs, revision : Nat, sequence : Nat]

\* CompactionManifestState
NoFence == [at |-> "None"]
IntentPending(i) == [at |-> "IntentPending", intent |-> i]
NotAppliedPending(i, r) == [at |-> "NotAppliedPending", intent |-> i, reason |-> r]
EvidencePending(i) == [at |-> "EvidencePending", intent |-> i]

Fence == {NoFence} \cup [at : {"IntentPending", "EvidencePending"}, intent : Intent]
         \cup [at : {"NotAppliedPending"}, intent : Intent, reason : Reasons]

Slot == [at : {"Vacant", "Live", "Tombstoned"}, revision : Nat, log : Seq(Record), fence : Fence]

Vacant == [at |-> "Vacant", revision |-> 0, log |-> <<>>, fence |-> NoFence]

Successor(document, log, fence) ==
  [at |-> "Live", revision |-> document.revision + 1, log |-> log, fence |-> fence]

\* is_exact_pending_base: the manifest is the one the intent was raised on.
is_exact_pending_base(document, intent) ==
  /\ intent.sequence = Len(document.log)
  /\ intent.revision + 1 = document.revision

\* validate_compaction_transition
ValidTransition(document, next) ==
  LET prior == document.fence
      after == next.fence
      chain_unchanged == next.log = document.log IN
  \/ prior = after /\ (prior = NoFence \/ chain_unchanged)
  \/ /\ prior = NoFence /\ after.at = "IntentPending" /\ chain_unchanged
     /\ after.intent.revision = document.revision
     /\ after.intent.sequence = Len(document.log)
  \/ after = NoFence /\ chain_unchanged
  \/ /\ prior.at = "IntentPending" /\ after.at = "NotAppliedPending"
     /\ prior.intent = after.intent /\ chain_unchanged
  \/ /\ prior.at = "IntentPending" /\ after.at = "EvidencePending"
     /\ prior.intent = after.intent
     /\ Len(next.log) > Len(document.log)
     /\ next.log[Len(next.log)] = Publication(after.intent)

\* What a caller learns of a compare-and-swap: "Ok" when it is acknowledged
\* or found by the read-back, "Unresolved" when it was made and the read-back
\* failed, "Failed" when it was not made.
Results == {"Ok", "Unresolved", "Failed"}

\* Fault: a successor may also be created over a tombstone.
CasOverTombstone(expected, next, result) ==
  /\ result # "Failed" => ValidTransition(expected, next)
  /\ slot' = IF result = "Failed" THEN slot ELSE next

\* PreparedManifestCas::new, compare_and_swap_manifest and the read-back
Cas(expected, next, result) ==
  /\ result # "Failed" => slot = expected /\ ValidTransition(expected, next)
  /\ slot' = IF result = "Failed" THEN slot ELSE next

-----------------------------------------------------------------------------
(* The clients of the persistence actor *)

NoOp == [at |-> "Idle"]
Await(what, document, by) == [at |-> what, document |-> document, by |-> by, heard |-> FALSE]

\* The compaction that holds the CompactApplyPermit: of a turn, which may be
\* aborted, or of the out-of-turn command.
NoDriver == [at |-> "Idle", owner |-> "turn", id |-> 0]
NoRecovery == [at |-> "Idle", why |-> "startup", id |-> 0]

is_applying == driver.at # "Idle"

\* The persistence actor is free and the Session was admitted.
Serving == life = "Running" /\ op = NoOp

DriverAt(at, id) == driver' = [driver EXCEPT !.at = at, !.id = id]

\* An error ends the compaction: its permit is dropped.
DriverFails == driver' = NoDriver

\* A recovery that fails closes an actor that is starting.
RecoveryFails ==
  /\ recovery' = NoRecovery
  /\ life' = IF recovery.why = "startup" THEN "Closed" ELSE life
  /\ UNCHANGED driver

\* A recovery that succeeds opens the actor, admits the prompt, or goes on to
\* claim the permit for the out-of-turn compaction.
RecoverySucceeds(why) ==
  /\ recovery' = NoRecovery
  /\ life' = "Running"
  /\ driver' = IF why = "compact" /\ ~is_applying
               THEN [at |-> "Ready", owner |-> "manual", id |-> 0] ELSE driver

\* Who asked for the call that ends: an aborted turn no longer waits.
Fails(by) ==
  \/ by = "driver" /\ driver.at = "Waiting" /\ DriverFails /\ UNCHANGED <<recovery, life>>
  \/ by = "driver" /\ driver.at # "Waiting" /\ UNCHANGED <<driver, recovery, life>>
  \/ by = "recovery" /\ RecoveryFails

-----------------------------------------------------------------------------
(* The log *)

Live == slot.at = "Live"

Flushed(updates) == slot.log \o [i \in DOMAIN updates |-> Update(updates[i])]

SetOf(updates) == {updates[i] : i \in DOMAIN updates}

\* Fault: a compound publication leaves the updates it published staged.
CommitKeepsStaged(updates, marks, result) ==
  LET log == Flushed(updates) \o marks IN
  /\ Live /\ Len(log) <= MaxLog
  /\ slot.fence # NoFence => result = "Failed"
  /\ Cas(slot, Successor(slot, log, slot.fence), result)
  /\ staged' = IF result = "Ok" /\ marks = <<>> THEN <<>> ELSE updates
  /\ acked' = IF result = "Ok" THEN acked \cup SetOf(updates) ELSE acked

\* Fault: the staged updates are taken before the commit, and not put back.
CommitTakesStaged(updates, marks, result) ==
  LET log == Flushed(updates) \o marks IN
  /\ Live /\ Len(log) <= MaxLog
  /\ slot.fence # NoFence => result = "Failed"
  /\ Cas(slot, Successor(slot, log, slot.fence), result)
  /\ staged' = <<>>
  /\ acked' = IF result = "Ok" THEN acked \cup SetOf(updates) ELSE acked

\* commit of the staged updates and the publications that follow them; an
\* ordinary publication is fenced during a compaction.  The staged updates
\* are dropped only when the commit succeeds.
commit(updates, marks, result) ==
  LET log == Flushed(updates) \o marks IN
  /\ Live /\ Len(log) <= MaxLog
  /\ slot.fence # NoFence => result = "Failed"
  /\ Cas(slot, Successor(slot, log, slot.fence), result)
  /\ staged' = IF result = "Ok" THEN <<>> ELSE updates
  /\ acked' = IF result = "Ok" THEN acked \cup SetOf(updates) ELSE acked

\* An update is staged again, or may be without the caller learning it.
Repeats(again) == repeats' = (IF again THEN repeats + 1 ELSE repeats) /\ repeats' <= MaxRepeats

\* append_authority_update: stage_update, a flush when the update is to be
\* durable, and the summary.  An error is answered NotCommitted, except that
\* of a summary after a flush, and what was answered so may be appended again.
append_update(n, durable, result) ==
  LET updates == Append(staged, n) IN
  /\ Serving /\ Len(updates) <= MaxLog
  /\ \/ n = appended + 1 /\ n <= MaxUpdates /\ appended' = n
     \/ n \in refused /\ UNCHANGED appended
  /\ \/ durable /\ commit(updates, <<>>, result)
     \/ ~durable /\ staged' = updates /\ UNCHANGED <<slot, acked>>
  /\ refused' = IF result = "Ok" THEN refused \ {n} ELSE refused \cup {n}
  /\ Repeats(n \in refused \/ (durable /\ result = "Unresolved"))
  /\ UNCHANGED <<life, installed, op, driver, recovery, minted, faults, intents, outcomes, lost>>

\* flush by sync_session_files
flush(result) ==
  /\ Serving /\ staged # <<>>
  /\ commit(staged, <<>>, result)
  /\ Repeats(result = "Unresolved" /\ staged # <<>>)
  /\ UNCHANGED <<life, refused, installed, op, driver, recovery, appended, minted, faults, intents, outcomes, lost>>

\* publish_checkpoint and publish_rewind: the staged updates and the
\* publication in one commit
publish_mark(result) ==
  /\ Serving
  /\ commit(staged, <<Mark>>, result)
  /\ Repeats(result = "Unresolved" /\ staged # <<>>)
  /\ UNCHANGED <<life, refused, installed, op, driver, recovery, appended, minted, faults, intents, outcomes, lost>>

-----------------------------------------------------------------------------
(* The compaction protocol of the bridge *)

\* Fault: the intent is acknowledged to the caller before the observer is asked.
BeginAwaitless(document, intent) ==
  /\ driver' = [driver EXCEPT !.at = "Sampling", !.id = intent.id]
  /\ op' = NoOp

\* The fence is up: the observer is asked.
AwaitIntent(document, intent) ==
  /\ driver' = [driver EXCEPT !.at = "Waiting", !.id = intent.id]
  /\ op' = Await("intent", document, "driver")

\* begin_compaction: the staged updates are flushed, the fence is raised on
\* the manifest that is then current, and the observer is asked.  A fence of
\* the same request is taken over; any other is an error.
begin_compaction(input, result) ==
  /\ Serving /\ driver.at = "Ready"
  /\ \/ \E r \in Results \ {"Ok"} :
          /\ staged # <<>> /\ commit(staged, <<>>, r) /\ Repeats(r = "Unresolved")
          /\ DriverFails /\ UNCHANGED <<op, minted>>
     \/ /\ Live /\ slot.fence = NoFence /\ minted < MaxCompactions
        /\ Len(Flushed(staged)) <= MaxLog
        /\ LET flushed == IF staged = <<>> THEN slot
                          ELSE Successor(slot, Flushed(staged), NoFence)
               intent == [id |-> minted + 1, input |-> input,
                          revision |-> flushed.revision, sequence |-> Len(flushed.log)]
               fenced == Successor(flushed, flushed.log, IntentPending(intent)) IN
           /\ slot' = IF result = "Failed" THEN flushed ELSE fenced
           /\ IF result = "Ok" THEN AwaitIntent(fenced, intent) ELSE DriverFails /\ op' = op
        /\ minted' = minted + 1
        /\ staged' = <<>> /\ acked' = acked \cup SetOf(staged) /\ repeats' = repeats
     \/ /\ Live /\ slot.fence # NoFence /\ staged = <<>>
        /\ IF slot.fence.at = "IntentPending" /\ slot.fence.intent.input = input
           THEN AwaitIntent(slot, slot.fence.intent)
           ELSE DriverFails /\ op' = op
        /\ UNCHANGED <<slot, minted, staged, acked, repeats>>
  /\ UNCHANGED <<life, refused, installed, recovery, appended, faults, intents, outcomes, lost>>

\* Fault: the observer is told before the outcome is durable.
NotAppliedUnrecorded(id, reason, by, result) ==
  IF slot.fence.at \in {"IntentPending", "NotAppliedPending"} /\ slot.fence.intent.id = id
  THEN /\ op' = Await("notApplied", Successor(slot, slot.log,
                         NotAppliedPending(slot.fence.intent, reason)), by)
       /\ UNCHANGED slot
  ELSE UNCHANGED <<slot, op>>

\* compaction_not_applied up to the observer: the outcome is made durable
\* with its reason, or is already; anything else is a conflict.
NotAppliedBegins(id, reason, by, result) ==
  LET fence == slot.fence
      pending == Successor(slot, slot.log, NotAppliedPending(fence.intent, reason)) IN
  IF Live /\ fence.at = "IntentPending" /\ fence.intent.id = id
  THEN /\ Cas(slot, pending, result)
       /\ op' = IF result = "Ok" THEN Await("notApplied", pending, by) ELSE op
  ELSE IF Live /\ fence.at = "NotAppliedPending" /\ fence.intent.id = id /\ fence.reason = reason
  THEN op' = Await("notApplied", slot, by) /\ UNCHANGED slot
  ELSE UNCHANGED <<slot, op>>

\* The driver gives up: the model failed, the user cancelled, the input changed.
compaction_not_applied(reason, result) ==
  /\ Serving /\ driver.at = "Sampling"
  /\ NotAppliedBegins(driver.id, reason, "driver", result)
  /\ IF op' # op THEN DriverAt("Waiting", driver.id) ELSE DriverFails
  /\ UNCHANGED <<life, staged, refused, installed, recovery, history>>

\* Fault: what was staged since the intent is published with the checkpoint.
PublishWithStaged(result) ==
  LET intent == slot.fence.intent IN
  /\ Serving /\ driver.at = "Sampling"
  /\ IF Live /\ slot.fence.at = "IntentPending" /\ intent.id = driver.id
     THEN /\ Cas(slot, Successor(slot, Append(Flushed(staged), Publication(intent)),
                                 EvidencePending(intent)), result)
          /\ IF result = "Ok" THEN DriverAt("Published", driver.id) ELSE DriverFails
     ELSE UNCHANGED slot /\ DriverFails
  /\ UNCHANGED <<life, staged, refused, installed, op, recovery, history>>

\* publish_compaction: only on the exact base, and with nothing staged since.  A
\* driver publishes once, so none meets the receipt of its own publication; where
\* the answer was lost, recovery finds the receipt.
publish_compaction(result) ==
  LET intent == slot.fence.intent IN
  /\ Serving /\ driver.at = "Sampling"
  /\ IF /\ Live /\ slot.fence.at = "IntentPending" /\ intent.id = driver.id
        /\ is_exact_pending_base(slot, intent)
        /\ staged = <<>>
     THEN /\ Cas(slot, Successor(slot, Append(slot.log, Publication(intent)),
                                 EvidencePending(intent)), result)
          /\ IF result = "Ok" THEN DriverAt("Published", driver.id) ELSE DriverFails
     ELSE UNCHANGED slot /\ DriverFails
  /\ UNCHANGED <<life, staged, refused, installed, op, recovery, history>>

\* compaction_applied up to the observer
AppliedBegins(id, by) ==
  IF Live /\ slot.fence.at = "EvidencePending" /\ slot.fence.intent.id = id
  THEN op' = Await("applied", slot, by)
  ELSE UNCHANGED op

\* The published items replace the conversation in memory.
install_published_compaction ==
  /\ driver.at = "Published"
  /\ installed' = driver.id
  /\ DriverAt("Installed", driver.id)
  /\ UNCHANGED <<slot, life, staged, refused, op, recovery, history>>

compaction_applied ==
  /\ Serving /\ driver.at = "Installed"
  /\ AppliedBegins(driver.id, "driver")
  /\ IF op' # op THEN DriverAt("Waiting", driver.id) ELSE DriverFails
  /\ UNCHANGED <<slot, life, staged, refused, installed, recovery, history>>

-----------------------------------------------------------------------------
(* The observer *)

\* CompactionOutcome of a durable fence; an applied one has no reason.
Outcome(document) ==
  IF document.fence.at = "EvidencePending"
  THEN [id |-> document.fence.intent.id, verdict |-> "Applied", reason |-> Interrupted]
  ELSE [id |-> document.fence.intent.id, verdict |-> "NotApplied", reason |-> document.fence.reason]

\* The observer records what it is told; its answer may still be lost.
Hear ==
  /\ op # NoOp /\ ~op.heard
  /\ op' = [op EXCEPT !.heard = TRUE]
  /\ IF op.at = "intent"
     THEN intents' = intents \cup {op.document.fence.intent.id} /\ UNCHANGED outcomes
     ELSE outcomes' = outcomes \cup {Outcome(op.document)} /\ UNCHANGED intents
  /\ UNCHANGED <<slot, life, staged, refused, installed, driver, recovery, appended, minted, faults, acked, lost, repeats>>

\* No answer, an error, or the acknowledgement of something else
ObserverFails ==
  /\ op # NoOp
  /\ op' = NoOp
  /\ Fails(op.by)
  /\ UNCHANGED <<slot, staged, refused, installed, history>>

\* begin_compaction after an acknowledgement: the model may be called.
IntentAcknowledged ==
  /\ op # NoOp /\ op.at = "intent" /\ op.heard
  /\ op' = NoOp
  /\ IF driver.at = "Waiting" THEN DriverAt("Sampling", driver.id) ELSE UNCHANGED driver
  /\ UNCHANGED <<slot, life, staged, refused, installed, recovery, history>>

\* begin_compaction after a rejection: the fence is rolled back.
IntentRejected(result) ==
  /\ op # NoOp /\ op.at = "intent" /\ ~op.heard
  /\ op' = NoOp
  /\ IF Live /\ slot.fence = IntentPending(op.document.fence.intent)
     THEN Cas(slot, Successor(slot, slot.log, NoFence), result)
     ELSE UNCHANGED slot
  /\ Fails("driver")
  /\ UNCHANGED <<staged, refused, installed, history>>

\* Fault: the fence is lifted although the outcome was not acknowledged.
LiftUnacknowledged(result) ==
  /\ op # NoOp /\ op.at \in {"notApplied", "applied"}
  /\ op' = NoOp
  /\ Cas(op.document, Successor(op.document, op.document.log, NoFence), result)
  /\ result = "Ok"
  /\ IF op.by = "recovery" THEN RecoverySucceeds(recovery.why)
     ELSE /\ IF driver.at = "Waiting" THEN driver' = NoDriver ELSE UNCHANGED driver
          /\ UNCHANGED <<life, recovery>>
  /\ UNCHANGED <<staged, refused, installed, history>>

\* compaction_not_applied and compaction_applied after an acknowledgement:
\* the fence is lifted if it is still the one the observer was told about.
\* A driver that gave up may begin again with another request.
OutcomeAcknowledged(result) ==
  /\ op # NoOp /\ op.at \in {"notApplied", "applied"} /\ op.heard
  /\ op' = NoOp
  /\ Cas(op.document, Successor(op.document, op.document.log, NoFence), result)
  /\ \/ result # "Ok" /\ Fails(op.by)
     \/ /\ result = "Ok" /\ op.by = "recovery" /\ RecoverySucceeds(recovery.why)
     \/ /\ result = "Ok" /\ op.by = "driver"
        /\ driver' = IF driver.at # "Waiting" THEN driver
                     ELSE IF op.at = "applied" THEN NoDriver
                     ELSE [driver EXCEPT !.at = "Ready", !.id = 0]
        /\ UNCHANGED <<life, recovery>>
  /\ UNCHANGED <<staged, refused, installed, history>>

-----------------------------------------------------------------------------
(* The Session actor *)

\* A turn compacts its Session: the permit is claimed without a recovery.
run_compact_only ==
  /\ life = "Running" /\ ~is_applying /\ recovery.why # "compact"
  /\ driver' = [at |-> "Ready", owner |-> "turn", id |-> 0]
  /\ UNCHANGED <<slot, life, staged, refused, installed, op, recovery, history>>

\* The compaction ends before it begins; a turn may be aborted anywhere, and
\* what it sent to the persistence actor still runs.
DriverEnds ==
  /\ driver.at = "Ready"
  /\ DriverFails
  /\ UNCHANGED <<slot, life, staged, refused, installed, op, recovery, history>>

TurnAborted ==
  /\ driver.owner = "turn" /\ driver.at \notin {"Idle", "Ready"}
  /\ faults < MaxFaults /\ faults' = faults + 1
  /\ DriverFails
  /\ UNCHANGED <<slot, life, staged, refused, installed, op, recovery, appended, minted, intents, outcomes, acked, lost, repeats>>

\* Who asks for a recovery: the startup of the actor; a prompt, refused
\* before while a compaction is applying, or a turn whose compaction failed;
\* and the out-of-turn command, which asks before it claims the permit.
MayRecover(why) ==
  \/ why = "startup" /\ life = "Starting"
  \/ why = "prompt" /\ life = "Running" /\ ~is_applying
  \/ why = "compact" /\ life = "Running" /\ (is_applying => driver.owner = "manual")

\* Fault: the state of the fence is taken for the reason.
RecoverReasonState(fence) == fence.at

\* Fault: the reason of a durable outcome is not repeated.
RecoverReasonInterrupted(fence) == Interrupted

RecoverReason(fence) == IF fence.at = "NotAppliedPending" THEN fence.reason ELSE Interrupted

\* recover_compaction and what recover_native_compaction does with its answer
recover_native_compaction(why, result) ==
  LET fence == slot.fence IN
  /\ op = NoOp /\ recovery = NoRecovery /\ MayRecover(why) /\ Live
  /\ \/ fence = NoFence /\ RecoverySucceeds(why) /\ UNCHANGED <<slot, op>>
     \/ /\ fence.at \in {"IntentPending", "NotAppliedPending"}
        /\ NotAppliedBegins(fence.intent.id, RecoverReason(fence), "recovery", result)
        /\ IF op' # op
           THEN recovery' = [at |-> "Waiting", why |-> why, id |-> fence.intent.id] /\ life' = life
           ELSE recovery' = NoRecovery /\ life' = IF why = "startup" THEN "Closed" ELSE life
        /\ UNCHANGED driver
     \/ /\ fence.at = "EvidencePending"
        /\ recovery' = [at |-> "Install", why |-> why, id |-> fence.intent.id]
        /\ UNCHANGED <<slot, life, op, driver>>
  /\ UNCHANGED <<staged, refused, installed, history>>

\* Fault: the checkpoint is acknowledged without being installed.
RecoveryInstallsNothing ==
  /\ recovery.at = "Install"
  /\ recovery' = [recovery EXCEPT !.at = "Installed"]
  /\ UNCHANGED <<slot, life, staged, refused, installed, op, driver, history>>

\* The published checkpoint is installed, then acknowledged.
RecoveryInstalls ==
  /\ recovery.at = "Install"
  /\ installed' = recovery.id
  /\ recovery' = [recovery EXCEPT !.at = "Installed"]
  /\ UNCHANGED <<slot, life, staged, refused, op, driver, history>>

RecoveryAcknowledges ==
  /\ op = NoOp /\ recovery.at = "Installed"
  /\ AppliedBegins(recovery.id, "recovery")
  /\ IF op' # op THEN recovery' = [recovery EXCEPT !.at = "Waiting"] /\ UNCHANGED <<life, driver>>
     ELSE RecoveryFails
  /\ UNCHANGED <<slot, staged, refused, installed, history>>

-----------------------------------------------------------------------------
(* The Session *)

\* create: an empty manifest where there is none and never was one
create(result) ==
  /\ life = "Closed"
  /\ Cas(Vacant, Successor(Vacant, <<>>, NoFence), result)
  /\ life' = IF result = "Ok" THEN "Starting" ELSE life
  /\ UNCHANGED <<staged, refused, installed, op, driver, recovery, history>>

\* open, for a load or a resume: the conversation is rebuilt from the updates,
\* and a checkpoint among them empties it without being installed.
open ==
  /\ life = "Closed" /\ Live
  /\ life' = "Starting"
  /\ UNCHANGED <<slot, staged, refused, installed, op, driver, recovery, history>>

\* tombstone, after the actor was unloaded: the manifest goes for good
tombstone(result) ==
  /\ life = "Closed" /\ Live
  /\ slot' = IF result = "Failed" THEN slot ELSE [slot EXCEPT !.at = "Tombstoned"]
  /\ UNCHANGED <<memory, history>>

\* A crash, or an unload after a flush: the memory is gone.
Crash ==
  /\ life # "Closed" /\ faults < MaxFaults
  /\ faults' = faults + 1
  /\ life' = "Closed"
  /\ staged' = <<>> /\ lost' = lost \cup SetOf(staged)
  /\ installed' = 0 /\ refused' = {}
  /\ op' = NoOp /\ driver' = NoDriver /\ recovery' = NoRecovery
  /\ UNCHANGED <<slot, appended, minted, intents, outcomes, acked, repeats>>

-----------------------------------------------------------------------------
Init ==
  /\ slot = Vacant /\ life = "Closed"
  /\ staged = <<>> /\ installed = 0
  /\ op = NoOp /\ driver = NoDriver /\ recovery = NoRecovery
  /\ appended = 0 /\ minted = 0 /\ faults = 0
  /\ intents = {} /\ outcomes = {} /\ acked = {} /\ lost = {} /\ refused = {} /\ repeats = 0

Next ==
  \/ \E result \in Results :
       \/ \E n \in 1 .. MaxUpdates, durable \in BOOLEAN : append_update(n, durable, result)
       \/ flush(result)
       \/ publish_mark(result)
       \/ \E input \in Inputs : begin_compaction(input, result)
       \/ \E reason \in Reasons \ {Interrupted} : compaction_not_applied(reason, result)
       \/ publish_compaction(result)
       \/ IntentRejected(result)
       \/ OutcomeAcknowledged(result)
       \/ \E why \in {"startup", "prompt", "compact"} : recover_native_compaction(why, result)
       \/ create(result)
       \/ tombstone(result)
  \/ install_published_compaction
  \/ compaction_applied
  \/ Hear
  \/ ObserverFails
  \/ IntentAcknowledged
  \/ run_compact_only
  \/ DriverEnds
  \/ TurnAborted
  \/ RecoveryInstalls
  \/ RecoveryAcknowledges
  \/ open
  \/ Crash

\* A Session that is used is opened and prompted again; a driver and a
\* recovery go on; the observer and the store do not fail forever.
Fairness ==
  /\ WF_vars(open)
  /\ SF_vars(Hear)
  /\ SF_vars(IntentAcknowledged)
  /\ SF_vars(OutcomeAcknowledged("Ok"))
  /\ SF_vars(recover_native_compaction("startup", "Ok"))
  /\ SF_vars(recover_native_compaction("prompt", "Ok"))
  /\ WF_vars(RecoveryInstalls) /\ SF_vars(RecoveryAcknowledges)
  /\ WF_vars(install_published_compaction) /\ SF_vars(compaction_applied)
  /\ SF_vars(\E result \in Results : publish_compaction(result))
  /\ WF_vars(DriverEnds)

Spec == Init /\ [][Next]_vars
FairSpec == Spec /\ Fairness

-----------------------------------------------------------------------------
(* Properties *)

TypeOK ==
  /\ slot \in Slot
  /\ life \in {"Closed", "Starting", "Running"}
  /\ staged \in Seq(1 .. MaxUpdates)
  /\ installed \in 0 .. MaxCompactions
  /\ op \in {NoOp} \cup [at : {"intent", "notApplied", "applied"}, document : Slot,
                        by : {"driver", "recovery"}, heard : BOOLEAN]
  /\ driver \in [at : {"Idle", "Ready", "Waiting", "Sampling", "Published", "Installed"},
                 owner : {"turn", "manual"}, id : 0 .. MaxCompactions]
  /\ recovery \in [at : {"Idle", "Waiting", "Install", "Installed"},
                   why : {"startup", "prompt", "compact"}, id : 0 .. MaxCompactions]
  /\ appended \in 0 .. MaxUpdates /\ minted \in 0 .. MaxCompactions
  /\ faults \in 0 .. MaxFaults
  /\ intents \subseteq 1 .. MaxCompactions
  /\ outcomes \subseteq [id : 1 .. MaxCompactions, verdict : {"Applied", "NotApplied"}, reason : Reasons]
  /\ acked \subseteq 1 .. MaxUpdates /\ lost \subseteq 1 .. MaxUpdates
  /\ refused \subseteq 1 .. MaxUpdates /\ repeats \in 0 .. MaxRepeats

\* The compactions of a log
Compactions(log) == {log[i].of : i \in {j \in DOMAIN log : log[j].kind = "compaction"}}

\* What the observer was told is true, and stays true across crashes, lost
\* acknowledgements and recoveries: an applied compaction is in the log, one
\* that was not applied is not and never will be, and one compaction has one
\* verdict with one reason however often it is repeated.
VerdictIsTrue ==
  \A o \in outcomes :
    /\ o.verdict = "Applied" <=> o.id \in Compactions(slot.log)
    /\ \A p \in outcomes : p.id = o.id => p = o

\* The model is called only for a compaction whose intent the observer
\* acknowledged.
ModelOnlyAfterIntent == driver.at = "Sampling" => driver.id \in intents

\* A checkpoint stands directly after the records it summarises: nothing is
\* published between the base of a compaction and its publication.
CheckpointCoversItsBase ==
  \A i \in DOMAIN slot.log : slot.log[i].kind = "compaction" => slot.log[i].base = i - 1

\* Updates are published in the order of their appends and once, and those
\* that are staged come after them, as long as no flush was published without
\* its caller learning of it and no update that was answered NotCommitted was
\* appended again.
InOrderOnce ==
  LET published == {i \in DOMAIN slot.log : slot.log[i].kind = "update"} IN
  repeats = 0 =>
    /\ \A i, j \in published : i < j => slot.log[i].of < slot.log[j].of
    /\ \A i \in published, j \in DOMAIN staged : slot.log[i].of < staged[j]
    /\ \A i, j \in DOMAIN staged : i < j => staged[i] < staged[j]

\* The updates of a log
Updates(log) == {log[i].of : i \in {j \in DOMAIN log : log[j].kind = "update"}}

\* An update is published or still staged, or was staged when the process
\* died; one whose flush was acknowledged is in the log.
NothingLost ==
  /\ 1 .. appended \subseteq Updates(slot.log) \cup SetOf(staged) \cup lost
  /\ acked \subseteq Updates(slot.log)

\* The observer hears that a compaction was applied only when the
\* conversation in memory starts from its checkpoint.
AppliedIsInstalled ==
  op # NoOp /\ op.at = "applied" => installed = op.document.fence.intent.id

\* The log of a manifest extends the log of the one it replaces, and a
\* deleted Session stays deleted.
SlotOnlyGrows ==
  [][/\ Len(slot'.log) >= Len(slot.log)
     /\ \A i \in DOMAIN slot.log : slot'.log[i] = slot.log[i]
     /\ slot.at = "Tombstoned" => slot' = slot]_vars

\* A fence that a crash, a failed call or an aborted turn left behind is
\* lifted once the Session is used again, or the Session is deleted.
FenceLifts == (Live /\ slot.fence # NoFence) ~> (slot.fence = NoFence \/ ~Live)

-----------------------------------------------------------------------------
(* Refinement *)

AbstractFence(fence) ==
  [at |-> fence.at,
   id |-> IF fence = NoFence THEN 0 ELSE fence.intent.id,
   reason |-> IF fence.at = "NotAppliedPending" THEN fence.reason ELSE Interrupted]

Audited == INSTANCE AuditedLog WITH
  AppliedReason <- Interrupted, at <- slot.at, log <- slot.log,
  fence <- AbstractFence(slot.fence), last <- minted, told <- outcomes

\* The detailed protocol, with its lost acknowledgements, crashes and
\* recoveries, implements the audited log.
RefinesAuditedLog == Audited!Spec

-----------------------------------------------------------------------------
(* What the comments say of it *)

\* An update is published once.
PublishedOnce ==
  \A i, j \in DOMAIN slot.log : slot.log[i].kind = "update" /\ slot.log[i] = slot.log[j] => i = j

\* The conversation of a running Session starts from its last checkpoint,
\* also in the process that resumes it.
StartsFromCheckpoint ==
  life = "Running" /\ slot.fence.at # "EvidencePending"
    => \A id \in Compactions(slot.log) : id <= installed

=============================================================================
