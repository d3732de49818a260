# Sophon SDK: durable work, specified

TLA+ specifications of the part of this repository that decides *who may do a
piece of durable work, whether it was done, and what happens after a crash*: the
activation coordinator of `crates/sophon-sdk`, the Run authority of
`crates/codegen/xai-agent-lifecycle`, the durable transcript of a Session with
its compaction protocol, and the ledger that says which prompts a Session was given.
The specifications are model-checked with TLC on small instances and the safety
results are proved with TLAPS for every value of the constants.

## 1. Inventory

The repository is a fork of Grok Build, a terminal agent. The fork's own core is
an embeddable SDK; the rest is the inherited application (shell, pager, tools,
workspace, sampler) and vendored code, which this project leaves aside.

| Part | State | Operations | What is hard | Correct when |
|---|---|---|---|---|
| Activation coordinator (`activation.rs`, `activation/local.rs`) | SQLite rows: due time, payload, attempt, fencing token, lease, last settlement | wake, claim_due, claim_item, renew, release, inspect, purge_settled | several supervisors, each with its own clock; late and repeated releases; workers that die; retention | one worker at a time has an outcome recorded, no scheduled work is lost, a dead worker's work is taken over |
| Run record and reducer (`run/model.rs`, `run/controller.rs`) | status, stage, residency (wake, lease, epoch), active iteration, outbox of effects, children, budget | iterations, effects (prepare, claim, acknowledge, reconcile), children, Host control, recovery | effects happen outside; claims are lost, callbacks late; recovery may be entered at any point, also after the Run's end | no unsafe effect is repeated blindly, nothing settled changes, the budget holds, recovery restores what the Host decided |
| Run controller and store (`run/controller.rs`, `run/store.rs`) | per process: cache, fenced Runs, Runs to reload; durable: envelope and revision | open, create_run, every mutation, reload_run, begin_recovery | several processes with stale caches, conflicts, lost acknowledgements, crashes | a command applies once, one controller has authority, one linear history per Run |
| Autonomous turn loop, Prime driver (`autonomous.rs`, `prime.rs`, `workflow.rs`) | none of its own | activate, reconcile | a crash between Run, session ledger and prompt | a prompt is dispatched at most once per Turn |
| Session state and authority (`session_state/`, `private/session_authority.rs`, `compaction.rs`) | a chain of immutable objects named by a manifest with its revision and compaction fence; updates staged in memory | stage, flush, checkpoint and rewind publications, begin / publish / not-applied / applied of a compaction, recover, create, tombstone | a compare-and-swap whose answer is lost; an observer that hears and does not answer; a crash between the fence, the publication and the acknowledgement | no update is lost or reordered; the observer is told one true verdict of every compaction; the fence is lifted in the end |
| Session actor (`xai-grok-shell`: `session/compaction.rs`, `persistence.rs`, `run_loop.rs`, `storage/jsonl`) | the conversation in memory, the permit of the applying compaction | append, compact, recover, resume | a turn aborted in the middle of a compaction; a prompt, a command and a startup that recover | the model is called only after the intent was acknowledged; a checkpoint is installed before it is acknowledged |
| Session evidence and rewind (`evidence.rs`, `private/evidence.rs`, `private/core/{turns,rewind,evidence,extensions}.rs`, `runtime/runs.rs`) | ledger of Turns, binding records, rewind intents and receipts; the native conversation beside them | prompt, cancel, settle, binding status, discard, rewind, reconcile_run | two stores without a common transaction; a crash or a failed write between the intent, the native call, its flush and the receipt; a cancellation before the prompt is recorded | what recovery reads from the ledger is true of the conversation; no entry is lost |
| Program, kernel, artifact runtimes (`program/`, `kernel/`, `artifact/`) | executions, sessions, custody of bytes | start, poll, cancel, put, recover | restarts, corrupt or missing bytes | receipts match what ran |
| Harness and evolution stores, MCP surface, façade | small CAS stores; none | propose, activate; calls | | |

How they meet: a Host's supervisor claims an *item* from the coordinator, claims
the *activation* of the Run it names, and drives bounded iterations. Each
iteration prepares an effect, claims it (the claim is committed before the effect
is executed) and acknowledges the outcome. Every mutation of a Run goes through a
controller, which commits a successor record by compare-and-swap on the revision.
After a restart every Run that is not finished must be recovered first. The turns
of a Run write updates to the transcript of their Session through its persistence
actor; a turn, or a command, compacts the transcript when it grows too long. The
prompt of a Turn is written into the Session's ledger before it is sent and settled
in it afterwards; when a Run is recovered, `reconcile_run` decides from the ledger and
the rewind receipts whether an uncertain Turn was applied, was not, or is to be
rewound first.

`PROJECT.json` lists every component with its status, and the hazards: the places
where this code can go wrong in a way that a test hardly reaches.

## 2. Modules

| Module | Models | Extends / instantiates |
|---|---|---|
| `FencedQueue` | what the coordinator promises: growing tokens, only the newest handle records an outcome, once | |
| `Activation` | the SQLite coordinator | refines `FencedQueue` |
| `RunPhases` | the phases of a Run and the moves between them (constant operators) | |
| `RunLifecycle` | the abstract lifecycle of a Run | `RunPhases` |
| `Run` | the reducer of one Run | refines `RunLifecycle` |
| `RunController` | controllers with caches and fences over one store | `RunPhases` |
| `AuditedLog` | what the Session store and its observer promise together: a growing log, compactions settled once and told | |
| `SessionLog` | the manifest, the bridge (`session_authority.rs`) and the Session actor that drives it | refines `AuditedLog` |
| `TurnLedger` | the Turn ledger of a Session, the native conversation it is about and the command loop between them | |
| `ActivationProofs`, `RunProofs`, `RunAccounts`, `RunControllerProofs`, `AuditedLogProofs`, `SessionLogProofs`, `SessionLogRefinement`, `TurnLedgerProofs` | theorems | the module they are about |
| `MCActivation`, `MCRun`, `MCRunController`, `MCSessionLog`, `MCTurnLedger` | constants and symmetry for TLC | |

`Run` and `RunController` meet in `RunPhases`: `Run` is shown to make only the
moves of `RunPhases` (`RefinesLifecycle`), and `RunController` lets a successor be
any such move. So `RunController` stays independent of what a Run contains.

### Activation

`rows` is the table and `known` its keys; a record field is a column, `Null` is SQL
NULL. Every operation of the code is one IMMEDIATE transaction under a mutex, hence
one action. An answer that leaves the table alone (Held, NotDue, Fenced, ...) is a
stuttering step; the answers themselves are operators (`ReleaseAnswer`,
`ClaimAnswer`, ...) that the properties quantify over. Instants are arguments, as in
the code, and may differ from the world's clock by `Skew`. `MaxStorable` and
`MaxToken` stand for the signed 64-bit range that `as_i64` enforces. A handle once
granted may be presented at any later time, any number of times, until its worker
crashes for good. `handles`, `settled`, `owed`, `purged` are history: what was
granted, what was recorded, which schedule is not served yet, what retention
dropped. The Host does not reschedule an identity it purged, as `purge_settled`'s
contract demands.

### Run

The variables are the fields of `RunRecord` the handlers decide on. `dispatched`
holds the claims that reached an executor; a claim may also be lost with the process
that committed it. `answered` and `will` are history: how each claim was answered, and
what the Host decided last.

Abstractions, all of data:

- a resource vector keeps two of its eight dimensions, `iterations` and `units`;
  a Session Turn reserves and is charged one iteration;
- `Waiting` stands for the back-off, no-progress, infrastructure, blocked and
  budget waits, which every handler treats alike; `Failed` and `Interrupted` are
  never set by the reducer;
- a finished iteration is *accepted* (driver success, verdict Achieved, gates and
  evidence present) or *refused*;
- leases and deadlines expire at instants callers supply, so both outcomes are
  always possible; `renew_activation` moves the expiry only;
- `finish_recovery` is called with `abandon_active_iteration` when an iteration is
  active (otherwise it is an error);
- a driver or child presents the current epoch (repeating `begin_iteration`
  returns a handle of it); an older one is refused and changes nothing. Effects do
  carry their epoch, since theirs is what makes an acknowledgement stale;
- an error returned before the commit changes nothing and is no step, and neither is
  a repeated command that is answered from its receipt, such as a claim;
- agent calls are not a dimension of their own: `finish_recovery` also refuses applied
  effects without one, which joins the causes of `FencedForGood`.

### RunController

`store` is the table of Runs; `runs`, `authority_fenced` and `reload_required` are
the three fields of the controller. `commit` has four answers: Applied, Conflict,
Tombstoned, CommitUnknown; a lost acknowledgement leaves it open whether the record
was stored. `Crash` forgets a controller's memory, `open` reads the store again.
`applied`, `told` and `owner` are history: how often a command changed a Run, which
commands a caller was told of, and whose create_run or begin_recovery was
acknowledged last. Commands are identities: two commands with one identity and
different input are refused by the code and do not occur here. The limit on the
number of receipts (`MAX_COMMAND_RECEIPTS`) is beyond the bounds.

### SessionLog

`slot` is the store's slot of one Session: its state (Vacant, Live, Tombstoned), the
revision, the log its manifest names and the compaction fence
(`CompactionManifestState`). A log record is an update, a mark (checkpoint or rewind
publication) or a compaction with the sequence of its base. `Cas` is
`PreparedManifestCas::new`, the compare-and-swap and the read-back that follows an
unclear answer; its three results are what the caller learns. Objects are put before
the manifest that names them, so a failed put is a failed compare-and-swap. The
persistence actor serves one call at a time, so a call is one step, except where it
awaits the observer: `op` is such a call, `Hear` the moment at which the observer
records it, and the answer may still be lost (`ObserverFails`).

`staged` are the updates in memory, `refused` those whose append was answered
NotCommitted, which callers append again. `driver` is the compaction that holds the
`CompactApplyPermit`, of a turn or of the out-of-turn command; `recovery` is
`recover_native_compaction`, asked for by the startup of the actor, by a prompt and
by the command. `TurnAborted` drops a turn anywhere, and the call it made still
runs. `Crash` ends the process; `open` starts the next one. `installed` is the
compaction from which the conversation in memory starts. `appended`, `minted`,
`faults`, `repeats` are counters with bounds; `intents`, `outcomes`, `acked` and
`lost` are history: what the observer has heard, which updates were acknowledged, and
which were staged when the process died.

Abstractions: one process at a time (the lease of the Runtime excludes a second), one
observer, a payload is its number, digests and object chunks are not modelled, and
within one generation the sequence of a manifest names the head of its chain. A driver
publishes once, so the branch of `publish_compaction` that reconciles a second
publication with the receipt of the first is not reached; `recover_native_compaction`
is what finds the receipt when an answer was lost.

### TurnLedger

`ledger`, `rewinds` and `bindings` are the evidence of one Session: the
`SessionLedger`, the rewind intent or receipt of each operation, and which Turns have
a binding record. The store's compare-and-swap is committed, committed without an
answer, or not committed (`Commits`); nobody else writes, since a Session's lease
excludes a second process, but a command holds the copy it loaded across its awaits
while later loads refresh the version it is compared with, so a stale copy would be
written. `task` is the prompt task with its copy, `rewind` the rewind that the command
loop executes with its own.

`inbox` and `running` are the Session actor: commands in order, and the Turn it runs.
`history` is the native conversation as a sequence of states, the last one in memory
and the first one on disk; the persistence actor writes them in order behind
(`Persist`), a sync flushes them all, a crash leaves the first. A conversation is the
sequence of its prompts. `dispatched`, `marked` and `faults` are history.

| Code | Action |
|---|---|
| `prompt_wire` to the native call; from the sync on | `prompt`; `settle`, `SyncFails` |
| the Session actor: takes, records, ends, fails | `ActorStarts`, `ActorRecords`, `ActorEnds`, `ActorFails` |
| `cancel`: request, effect, timeout with abort | `cancel`, `ActorCancels`, `ForceStop` |
| `turn_binding_status`, `mark_turn_discarded` | the actions of that name |
| `rewind_conversation_entry`: intent; native calls; sync, ledger, receipt | `rewind_conversation`; `RewindNative`, `RewindRefused`, `RewindFails`; `RewindSettles` |
| what `reconcile_run` may decide | `Decisions` |

Abstractions: a prompt text is a value, and `Rich` are the Turns whose digest is a
content digest, which `native_rewind_already_applied` does not compare. A text that
the Session actor trims, or an image without text, makes a rewind fail closed and is
left out, and so are events and their retention, and the measured usage. An embedded
Session does not interpret slash commands, so a prompt ends unrecorded only by a
cancellation or an error. `ActorRecords` is one step although the conversation item is
pushed some awaits after the number and the update were sent: rewinds and what a crash
leaves follow the latter, which are sent without a yield between them. Whether a
settlement carries usage and validates is not modelled, so `Decisions` leaves open
whether a completed Turn is decided Applied or Unknown, and likewise whether the rewind
evidence can be read.

## 3. Runs

Passing:

| Run | Bounds | Checks |
|---|---|---|
| `activation` | 2 items, 2 workers, 2 tokens per item, instants 0..2, all callers' clocks arbitrary (`Skew = 2`), so the world's clock need not move | `TypeOK`, `RowsDecodable`, `AlreadySettledIsTrue`, `OneHonouredHandle`, `DroppedOnlyWhenSettled`, `RefinesFencedQueue`; 177,512 states |
| `activation_time` | 1 item, 2 workers, 3 tokens, honest clocks 0..2, 2 payloads and lease lengths | `NoLostWake`, `CrashedLeaseIsTakenOver` |
| `run` | a reconcilable Turn, a non-repeatable effect, a detached child, 2 budgets, 3 epochs, 2 iterations, 2 attempts | the invariants of a Run (`TypeOK`, `ValidateNeverRefuses`, `NeverBlindlyRepeated`, `BudgetRespected`, `ReservedIsLive`, `TurnUsageRecorded`, `CompleteOnlyIfAccepted`, `PauseSurvivesRecovery`), `SettledIsFinal`, `RefinesLifecycle`; 1,538,506 states |
| `run_recovery` | 2 Turns and another effect in one iteration, a required child, a budget of 2 units that their claims and the child exceed together, 3 epochs | `RecoveryEnds`; 600,182 states, among them Runs that are fenced for good by each of the three causes |
| `controller` | 2 controllers, 1 Run, 4 commands, 6 revisions | `TypeOK`, `CacheIsPast`, `ExactlyOnce`, `SingleAuthority`, `LinearHistory`; 254,293 states |
| `session` | 2 records, 2 compactions, 2 updates, 1 fault, 1 repeated or unnoticed publication, see `MCSessionLog.cfg` | the seven invariants of the Session log, `SlotOnlyGrows`, `RefinesAuditedLog`; 492,118 states |
| `session_live` | smaller, with fairness | `FenceLifts`; 11,891 states |
| `ledger` | 3 Turns, one with a content digest, 1 rewind operation, 2 faults | `TypeOK`, `LedgerNeverRefused`, `AbsentNeverDispatched`, `NotAppliedIsTrue`, `CompletedSurvivesCrash`, `EntriesAreForever`; 812,174 states |

The bounds let each interesting case happen: a takeover and a second settlement of
an item; an effect retried, lost, reconciled and abandoned; recovery of recovery and
recovery after the end of a Run; a controller that commits from a cache two
revisions old, and one that is reopened after a lost acknowledgement; a second
compaction after one whose outcome was recorded and not acknowledged, a recovery that
installs what an aborted turn published, an update that is staged while the model
summarises; a rewind that is retried after a crash with its intent and without its
receipt, a cancellation that lands before the prompt was recorded, a force-stopped
Turn that is recorded after all. Every property
has a mutant of the mapped code in `PROJECT.json` that breaks it. Deadlock is not
checked where counters are bounded (`Activation`, `Run`, `SessionLog`, `TurnLedger`): the models stop at their
bounds, the systems do not.

Violated, each a statement of the documentation that the code does not keep:

| Run | Statement | What happens |
|---|---|---|
| `run_cancel` | cancelled states survive reconciliation (line 159) | pause, recovery, cancel, recovery: the status saved at the first recovery is restored, and the cancelled Run is paused |
| `session_append` | an append answered NotCommitted is safe to retry (`persistence.rs:1329`) | the update stays staged, or was published, when its flush fails; the retry publishes it twice |
| `session_resume` | the checkpoint lets a replay reconstruct the model's view (`notification.rs:1322`) | after an acknowledged compaction a resumed conversation holds neither the summary nor what it summarised |
| `ledger_guess` | an uncertain Turn is never guessed (line 159), and the digest is there so that recovery does not infer from the count of prompts (`xai-grok-shell/src/lib.rs:47`) | a prompt with a content digest is cancelled before it is recorded, so the next Turn stands one place before its index; its recovery rewind finds as many prompts as it wants to keep, cuts nothing, and recovery declares the Turn not applied |

### Fairness

`activation_time` assumes that time passes and that some live supervisor keeps
sweeping at the world's time; nothing is assumed of the holder of a lease, which may
be dead. `run_recovery` assumes what `RecoveryPlan` asks of the Host: every uncertain
effect is eventually decided, every child eventually settles, and `finish_recovery`
is called when it can succeed; where it cannot, `FencedForGood` says why. No fairness is assumed of executors, of
`begin_recovery` or of Host control. `session_live` assumes that a Session with a
fence is used again (it is opened, and prompted once it runs), that the driver and
the recovery, which are loops of one process, go on, and that the observer and the
store do not fail for ever; crashes and aborted turns are bounded by `MaxFaults`, and
nothing is assumed of a turn that compacts.

## 4. Proofs

All theorems are proved for every value of the constants under the named
`ConstantsAssumption` of each module, which TLC evaluates in the runs.

**Activation** (`ActivationProofs`). `Invariance` proves an inductive invariant that
adds to the stated properties what relates the columns to the history: a row's
fencing token bounds every handle of its item, a lease token belongs to a granted
handle of the lease's worker, a settled token to a settled handle, handles of one
item with one token are equal, and a row without a due time was settled by its newest
handle. `TypeCorrectness`, `Decodable`, `IdempotencyAnswerIsTrue`,
`AtMostOneHonoured` and `NothingDropped` follow from it, for any clock skew.
`WakesAreKept` needs a further invariant about the time: with honest clocks a lease
that is over stays over, so no release can follow an accepted wake. `Refinement`
maps `handles` and `settled` to the queue's permissions.

**Run** (`RunProofs`, `RunAccounts`). The properties are not inductive: what
`RunEnvelope::validate` demands of an operation depends on which epochs, attempts
and results can still meet. The invariant of `RunInvariance` links each dispatched
claim to the operation's attempt counter, each answer to the operation's state, the
open operations to the active iteration, and the saved prior status to the Host's
last decision. From it: `RunTypes`, `RecordsStayValid`, `NoBlindRepeat`,
`BudgetIsRespected`, `CompletionIsEarned`, `PauseIsKept`, `OutcomesAreFinal`.
`RefusalIsFinal` is the safety half of `RecoveryEnds`: with everything settled
(`FencedForGood`), every handler is either refused or leaves alone what the refused
charge is computed from.
`LifecycleRefined` adds that a tombstoned Run has no open work and shows that every
handler is one move of `RunPhases` or a stutter.

`RunAccounts` is about the sums the record keeps. `child_reserved` is a running total
in the code, and `ReservationsAddUp` says that it is at all times the sum of the
reservations of the live children; `UsageIsRecorded` says the same, as a lower bound,
of `usage` and what settled Turns and children report. `AccountInv` needs two more
parts: an operation that was prepared belongs to an iteration that was begun, and a
child has used nothing until it settles. `SettlementsAreAccepted` is the consequence
the code relies on: `child_settled` subtracts the reservation and checks the budget
again, and neither can fail for a child that stayed within what it was promised.
What a sum is had to be proved first. The sum of a function over a finite set is the
number of pairs (x, i) with i in 1 .. f[x] (`SumIsCount`), because cardinalities are
what the library has theorems about; the induction behind it takes a smallest
counterexample among the subsets, ordered by strict inclusion, which needs no induction
schema. The proofs assume that a Run has finitely many operations and children
(`ConstantsAssumption`), which holds of any record.

**RunController** (`RunControllerProofs`). The key is that a cached record is the
past of the stored one (`CacheIsPast`), so that equal revisions mean equal records and
the compare-and-swap accepts a successor of what is stored only. With the receipts
counted, `CommandsApplyOnce` follows; with the fences, `AuthorityIsSingle`: another
controller's cache must be behind the revision at which the owner got its authority,
or fenced. `HistoryIsLinear` is the corresponding action property.

**AuditedLog** (`AuditedLogProofs`). The verdicts are true because an identity is
drawn once (no fence, record or verdict is above the last one drawn) and because,
while a compaction is fenced, what was told of it is the fence's own verdict and the
log contains it exactly when the fence says so.

**SessionLog** (`SessionLogProofs`, `SessionLogRefinement`). The invariant `Ind`
says who may rely on what while a call awaits the observer: the call is about the
manifest as it stands (`OpOK`), what it is known to have told is recorded
(`HeardOK`), a driver waits for its own compaction (`WaitingOK`), a driver past its
publication and a recovery that installs find the fence of their checkpoint or none
(`PublishedOK`, `RecoveringOK`). `SessionTypes`, `ModelAfterIntent` and
`InstalledBeforeAcknowledged` follow. Every step is then shown to be one of ten steps
of the store (`EveryStoreStep`), each of which is a step of the audited log or a
stutter: `Refinement`. `OutcomesAreTrue` and `CheckpointsCover` are the theorems of
`AuditedLogProofs`, instantiated under the refinement mapping, so the detailed
protocol is not argued about again. `SlotGrows` reads the same ten steps.
`NoUpdateLost` and `UpdatesInOrder` come from a second invariant, `LogInd`: every
update below the counter is in the log, staged or lost, nothing above it is in use,
and the log followed by the staged updates increases.

**TurnLedger** (`TurnLedgerProofs`). `LedgerInv` says that the copies held across an
await are still the ledger: the task's Turn is its last entry and Pending, which keeps
every other command from writing, and a rewind excludes both. It also numbers the
entries (a live entry has a smaller index than any later one) and says that a recovery
rewind targets the tail. Every write is then an append or a rewriting that loses
nothing: `LedgerTypesHold`, `SavesAreAccepted` and `EntriesAreKept`.
`ConversationInv` follows a prompt from the inbox to the conversation: it is on its way
once, not any more when it was answered, and a Turn that is Completed or bound is in
every state of the conversation that precedes one that has it. From it
`AbsenceIsProof` and `CompletedIsDurable`.

`NotAppliedIsProved` needs a third invariant, `ReceiptInv`, because the receipt of a
recovery speaks of a conversation that the Session actor may still be changing:

- `StoppedInv`: a prompt whose task is gone, or being cancelled, has a Cancel behind
  it in the inbox. So a rewind, which the actor serves when the inbox is empty and which
  excludes a task, finds no Turn running that could be recorded after it.
- `RewoundInv`: once executed, the conversation is as long as the target's index, and
  (where prompts can be compared) holds Turns of smaller indices only. This is where
  the comparison of prefixes is used: the live indices have no gap
  (`IndicesWithoutGap`, by the pigeonhole principle on the entries before one), so a
  live Turn at a place before the target is the entry with the index of that place.
- `DiscardedInv`: in that case a discarded Turn is held nowhere, neither in a state of
  the conversation that is not flushed nor on its way.
- `ReceiptsInv`: a recovered Turn is discarded, not on its way, and at no place behind
  its index in any state of the conversation.

`NeverGuessedWhenComparable` is the sentence of the README that `NeverGuessed` states,
under the condition that the violation of `ledger_guess` shows to be needed.
`NobodyWaitsInVain` is the safety part of a prompt's progress: a task that waits has
its prompt in the inbox or running. The proofs assume that `None` is no task record
(`TaskAssumption`).

Every safety property of a passing run is a theorem. Only model-checked: the
liveness properties (`CrashedLeaseIsTakenOver`, `RecoveryEnds`, `FenceLifts`), whose
fairness is out of the prover's reach.

## 5. Observed while modelling

Not properties of a run, but limits that the models make visible; each is a hazard
in `PROJECT.json` or follows from one:

- `finish_recovery` refuses a Run for ever when the effects applied in the abandoned
  iteration do not sum to exactly one iteration (two Turns, or an effect that is not a
  Turn alone), or when a child admitted beside a claimed effect has taken the budget the
  effect must be charged to. Resume, which could extend the budget, is not accepted in
  recovery, and Cancel leaves the iteration open, so the Run can never be tombstoned.
  The autonomous driver has one Turn per iteration; the reducer's interface allows the
  other mixes. `RecoveryEnds` has this outcome as its one exception, `run_recovery`
  reaches all its causes, and `RefusalIsFinal` proves that it is final.
- Line 159 of the SDK's README says that missing evidence remains `Recovering`.
  `reconcile_run` decides NotApplied when the ledger lists neither the Turn nor its id
  with another digest, and gives the reason in a comment: Pending is written before the
  prompt is dispatched. The two agree if "missing" is read as evidence that is there in
  part or cannot be read; read as an absent entry, the sentence is not what the code
  does. `AbsentNeverDispatched` and its theorem show that the code's inference is right.
- A row of the coordinator keeps the token of its last settlement only: a release
  retried after the item has settled again is answered Fenced, that is "not recorded".
- What an effect other than a Session Turn used is not charged when its iteration
  finishes; `TurnUsageRecorded` is therefore about Turns.
- Pause and Cancel advance the epoch only when a lease is held.
- A Tombstoned answer fences a Run without asking for a reload.
- `begin_recovery` resets the wake and the deadline that `request_run_wake` stored, and
  after a restart every Run that is not terminal goes through it. A Host must read the
  residency of its Runs (`inspect_run_residency`) before it recovers them.
- Only the commit that creates a Run looks for other Runs of its Session. Recovering a
  Run that was cancelled with open work makes it nonterminal beside a Run that was
  created after the cancellation, although the comment at `store.rs:357` calls the one
  nonterminal Run per Session a durable invariant.
- After a prompt was cancelled before it was recorded, the ledger counts one prompt
  more than the conversation has. With plain text prompts every later rewind of that
  Session is refused, since the prefix differs; with content digests it is inferred
  from the count (`ledger_guess`).
- A user's rewind whose intent is durable and whose receipt is not can be retried after
  new Turns were prompted at the same index; it then discards them.
- A creation with a random identity cannot be found again after a lost
  acknowledgement.

## 6. Not modelled, and the plan

Of the Run: mailbox, steering, approval, harness, strategy and workflow revisions,
the terminal report and the event journal. Of the Session: forks (`publish_fork`), object chunking and digests,
two recoveries at the same time, a command that compacts while another one claims the
permit (`run_loop.rs:1009`), the rewind points that are dropped while a fence is up
(`persistence.rs:2035`), the merging of chunks, and turns and tools. Of the rest of
the SDK: everything the inventory lists below the evidence of a Session, and the
commands that open, fork, configure and close a Session. Parsing, encoding, digests, file
permissions and transport are left out for good.

Next, in this order:

1. `AutonomousLoop`: a composition of coordinator, Run and ledger, for "a prompt is
   dispatched at most once per Turn" across the three stores.
2. `ProgramRuntime`, `KernelRuntime`, `ArtifactVault`.
3. The rest of the Run: mailbox ordering, approval, harness activation and rollback.
4. Liveness of the controller: a Host that reloads and recovers regains authority.
