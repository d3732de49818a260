----------------------------- MODULE TurnLedger -----------------------------
(***************************************************************************)
(* The Turn ledger of one Session: which prompts were handed to the native *)
(* conversation, which are settled and which were rewound                  *)
(* (crates/sophon-sdk private/core/{turns,rewind,evidence,command_loop}.rs *)
(* over the evidence store, and the reading of it that recovery makes in   *)
(* runtime/runs.rs).                                                       *)
(*                                                                         *)
(* The ledger and the native conversation are two stores without a common  *)
(* transaction.  A prompt is written down as Pending, handed over, flushed *)
(* by a sync and written down as Completed; a rewind is written down as an *)
(* intent, executed natively, flushed, and written down as a receipt.      *)
(* Every write of evidence may fail or lose its answer, every native call  *)
(* may fail, and the process may crash at any point.                       *)
(*                                                                         *)
(* The command loop runs one command at a time and awaits it; a prompt is  *)
(* a task beside the loop.  What runs without an await is one step.  Two   *)
(* writes of one step may be cut by a crash: that is the second one        *)
(* failing.  The Session's lease excludes a second process.                *)
(***************************************************************************)
EXTENDS Integers, Sequences, FiniteSets

CONSTANTS Turns,      \* Turn ids
          Operations, \* rewind operation ids
          Prompts,    \* prompt texts
          PromptOf,   \* the text that each Turn sends
          Rich,       \* the Turns whose prompt has a content digest (sha256-v2)
          None,       \* no Turn, no task, no command
          Stop,       \* the Cancel command in the inbox of the Session actor
          MaxFaults   \* bound: failed or unanswered writes, failed calls, crashes

ASSUME ConstantsAssumption ==
  /\ PromptOf \in [Turns -> Prompts]
  /\ Rich \subseteq Turns
  /\ None \notin Turns \cup {Stop} /\ Stop \notin Turns
  /\ MaxFaults \in Nat

VARIABLES
  ledger,     \* durable evidence: the SessionLedger
  rewinds,    \* durable evidence: per operation, its rewind intent or receipt
  bindings,   \* durable evidence: the Turns with a binding record
  task,       \* the prompt task, with the copy of the ledger it holds
  cancelling, \* the command loop awaits the end of the cancelled task
  rewind,     \* the rewind the command loop executes, with its copy of the ledger
  inbox,      \* the commands sent to the Session actor, in order
  running,    \* the Turn the Session actor runs
  history,    \* the native conversation (last) and its states not yet flushed
  dispatched, \* history: the Turns handed to the Session actor
  marked,     \* history: the Host discarded a Turn by hand
  faults      \* history: the faults so far

evidence == <<ledger, rewinds, bindings>>
commands == <<task, cancelling, rewind>>
actor    == <<inbox, running, history>>
vars == <<evidence, commands, actor, dispatched, marked, faults>>

-----------------------------------------------------------------------------
(* The ledger *)

Entry == [turn : Turns, index : Nat, state : {"Pending", "Completed", "Discarded"}]

Active(l) == {i \in DOMAIN l : l[i].state # "Discarded"}
HasPending(l) == \E i \in DOMAIN l : l[i].state = "Pending"
Listed(t, l) == \E i \in DOMAIN l : l[i].turn = t

\* The position of a Turn in the ledger.
EntryOf(t, l) == CHOOSE i \in DOMAIN l : l[i].turn = t

\* validate_session_ledger: distinct Turns, the live entries numbered from 0, and
\* nothing live after a Pending one.  A ledger that fails it is neither written
\* nor read.
ValidLedger(l) ==
  /\ \A i, j \in DOMAIN l : l[i].turn = l[j].turn => i = j
  /\ \A i \in Active(l) :
       /\ l[i].index = Cardinality({j \in Active(l) : j < i})
       /\ l[i].state = "Pending" => \A j \in Active(l) : j <= i

NewEntry(t, l, state) == [turn |-> t, index |-> Cardinality(Active(l)), state |-> state]

\* settle_latest_ledger_entry
settle_latest(l) == [l EXCEPT ![Len(l)].state = "Completed"]

\* Mutant: only the entry at the target is discarded.
DiscardOnly(l, target) ==
  [i \in DOMAIN l |-> IF l[i].index = target THEN [l[i] EXCEPT !.state = "Discarded"] ELSE l[i]]

\* The entries of a rewound conversation.
DiscardFrom(l, target) ==
  [i \in DOMAIN l |-> IF l[i].index >= target THEN [l[i] EXCEPT !.state = "Discarded"] ELSE l[i]]

-----------------------------------------------------------------------------
(* The evidence store *)

\* compare_and_swap as commit_evidence sees it: committed, committed without an
\* answer (CommitUnknown), or not committed.  The lease leaves no other writer.
Commits == {"Committed", "Unanswered", "Failed"}

Written(commit, new, old) == IF commit = "Failed" THEN old ELSE new

Fault(failed) ==
  /\ failed => faults < MaxFaults
  /\ faults' = IF failed THEN faults + 1 ELSE faults

Intent == [target : Nat, turn : Turns, recovery : Turns \cup {None}]
NoIntent == [state |-> "Absent", intent |-> None]

-----------------------------------------------------------------------------
(* Prompts *)

Native == history[Len(history)]
In(t, conversation) == \E i \in DOMAIN conversation : conversation[i] = t

\* The command loop takes a command that needs the Session to itself.
Idle == task = None /\ rewind = None

EndTask == task' = None /\ cancelling' = FALSE

\* Mutant: the prompt is sent although its Pending entry was not acknowledged.
PromptUnacknowledged(t, bound, commit) ==
  LET new == Append(ledger, NewEntry(t, ledger, "Pending")) IN
  /\ Idle
  /\ ~HasPending(ledger) /\ ~Listed(t, ledger)
  /\ ledger' = Written(commit, new, ledger)
  /\ task' = [turn |-> t, bound |-> bound, copy |-> new, phase |-> "awaiting"]
  /\ inbox' = Append(inbox, t)
  /\ dispatched' = dispatched \cup {t}
  /\ Fault(commit # "Committed")
  /\ UNCHANGED <<rewinds, bindings, cancelling, rewind, running, history, marked>>

\* prompt_wire up to the native call: the Pending entry is acknowledged before the
\* prompt is sent.
prompt(t, bound, commit) ==
  LET new == Append(ledger, NewEntry(t, ledger, "Pending")) IN
  /\ Idle
  /\ ~HasPending(ledger) /\ ~Listed(t, ledger)
  /\ ValidLedger(new)
  /\ ledger' = Written(commit, new, ledger)
  /\ IF commit = "Committed"
     THEN /\ task' = [turn |-> t, bound |-> bound, copy |-> new, phase |-> "awaiting"]
          /\ inbox' = Append(inbox, t)
          /\ dispatched' = dispatched \cup {t}
     ELSE UNCHANGED <<task, inbox, dispatched>>
  /\ Fault(commit # "Committed")
  /\ UNCHANGED <<rewinds, bindings, cancelling, rewind, running, history, marked>>

\* The Session actor takes the prompt from its inbox.
ActorStarts ==
  /\ running = None /\ inbox # <<>> /\ Head(inbox) # Stop
  /\ running' = Head(inbox) /\ inbox' = Tail(inbox)
  /\ UNCHANGED <<evidence, commands, history, dispatched, marked, faults>>

\* handle_turn_input numbers the prompt, sends number and update to the persistence
\* actor, without a yield between them, and pushes the conversation item later in
\* the same call.  What a rewind counts and what a crash leaves is the former.
ActorRecords ==
  /\ running # None /\ ~In(running, Native)
  /\ history' = Append(history, Append(Native, running))
  /\ UNCHANGED <<evidence, commands, inbox, running, dispatched, marked, faults>>

\* The native Turn ends; the task that waits for it has its answer.
Answered == task # None /\ task.turn = running
ActorEnds ==
  /\ running # None /\ In(running, Native)
  /\ task' = IF Answered THEN [task EXCEPT !.phase = "answered"] ELSE task
  /\ running' = None
  /\ UNCHANGED <<evidence, cancelling, rewind, inbox, history, dispatched, marked, faults>>

\* The native Turn ends with an error, or with a stop reason that is not known,
\* before or after it was recorded: the entry stays Pending.
ActorFails ==
  /\ running # None
  /\ IF Answered THEN EndTask ELSE UNCHANGED <<task, cancelling>>
  /\ running' = None
  /\ Fault(TRUE)
  /\ UNCHANGED <<evidence, rewind, inbox, history, dispatched, marked>>

\* cancel: the loop sends Cancel and waits for the task.
cancel ==
  /\ task # None /\ ~cancelling /\ rewind = None
  /\ cancelling' = TRUE
  /\ inbox' = Append(inbox, Stop)
  /\ UNCHANGED <<evidence, task, rewind, running, history, dispatched, marked, faults>>

\* cancel_running_task: the Turn is aborted where it stands, recorded or not, and
\* answered as Cancelled, which is an outcome like another.
ActorCancels ==
  /\ inbox # <<>> /\ Head(inbox) = Stop
  /\ inbox' = Tail(inbox)
  /\ task' = IF Answered THEN [task EXCEPT !.phase = "answered"] ELSE task
  /\ running' = None
  /\ UNCHANGED <<evidence, cancelling, rewind, history, dispatched, marked, faults>>

\* cancel, timed out: the task is aborted; the Session actor has not noticed yet.
ForceStop ==
  /\ cancelling
  /\ EndTask
  /\ UNCHANGED <<evidence, rewind, actor, dispatched, marked, faults>>

\* origin/session/sync fails or times out: the Turn stays Pending.
SyncFails ==
  /\ task # None /\ task.phase = "answered"
  /\ EndTask
  /\ Fault(TRUE)
  /\ UNCHANGED <<evidence, rewind, actor, dispatched, marked>>

\* Mutant: the Turn is settled without the sync.
SettleUnsynced(record, binding, commit) ==
  /\ task # None /\ task.phase = "answered"
  /\ record => task.bound
  /\ ~record => binding = "Committed"
  /\ record /\ binding # "Committed" => commit = "Failed"
  /\ bindings' = IF record THEN Written(binding, bindings \cup {task.turn}, bindings) ELSE bindings
  /\ ledger' = Written(commit, settle_latest(task.copy), ledger)
  /\ EndTask
  /\ Fault(commit # "Committed")
  /\ UNCHANGED <<rewinds, rewind, actor, dispatched, marked>>

\* prompt_wire after the sync: the binding record of a bound Turn (when its events
\* are complete), then the ledger.
settle(record, binding, commit) ==
  LET new == settle_latest(task.copy)
      settles == ~record \/ binding = "Committed" IN
  /\ task # None /\ task.phase = "answered"
  /\ record => task.bound
  /\ ~settles => commit = "Failed"
  /\ ~record => binding = "Committed"
  /\ ValidLedger(new)
  /\ history' = <<Native>>
  /\ bindings' = IF record THEN Written(binding, bindings \cup {task.turn}, bindings) ELSE bindings
  /\ ledger' = Written(commit, new, ledger)
  /\ EndTask
  /\ Fault(commit # "Committed")
  /\ UNCHANGED <<rewinds, rewind, inbox, running, dispatched, marked>>

\* turn_binding_status: the record of a Turn that is still Pending settles it.
turn_binding_status(t, commit) ==
  LET new == [ledger EXCEPT ![EntryOf(t, ledger)].state = "Completed"] IN
  /\ rewind = None /\ ~cancelling
  /\ t \in bindings /\ Listed(t, ledger)
  /\ ledger[EntryOf(t, ledger)].state = "Pending"
  /\ ValidLedger(new)
  /\ ledger' = Written(commit, new, ledger)
  /\ Fault(commit # "Committed")
  /\ UNCHANGED <<rewinds, bindings, commands, actor, dispatched, marked>>

\* Mutant: the Host may discard a Turn while a prompt is active.
MarkWhileActive(t, commit) ==
  LET i == EntryOf(t, ledger)
      new == IF Listed(t, ledger)
             THEN [ledger EXCEPT ![i].state = "Discarded"]
             ELSE Append(ledger, NewEntry(t, ledger, "Discarded")) IN
  /\ rewind = None /\ ~cancelling
  /\ Listed(t, ledger) => \A j \in Active(ledger) : j <= i
  /\ ledger' = Written(commit, new, ledger)
  /\ marked' = TRUE
  /\ Fault(commit # "Committed")
  /\ UNCHANGED <<rewinds, bindings, commands, actor, dispatched>>

\* mark_turn_discarded: the Host discards the last live Turn, or notes one that was
\* never sent.
mark_turn_discarded(t, commit) ==
  LET i == EntryOf(t, ledger)
      new == IF Listed(t, ledger)
             THEN [ledger EXCEPT ![i].state = "Discarded"]
             ELSE Append(ledger, NewEntry(t, ledger, "Discarded")) IN
  /\ Idle
  /\ Listed(t, ledger) => \A j \in Active(ledger) : j <= i
  /\ ValidLedger(new)
  /\ ledger' = Written(commit, new, ledger)
  /\ marked' = TRUE
  /\ Fault(commit # "Committed")
  /\ UNCHANGED <<rewinds, bindings, commands, actor, dispatched>>

-----------------------------------------------------------------------------
(* Rewinds *)

\* The entry a request names: the one of the durable intent, the settled Turn at
\* the index, or the Turn that recovery names.
IsTarget(entry, op, target, recovery) ==
  /\ entry.index = target
  /\ CASE rewinds[op].state = "Intent" -> entry.turn = rewinds[op].intent.turn
       [] rewinds[op].state = "Absent" /\ recovery = None -> entry.state = "Completed"
       [] OTHER -> entry.state # "Discarded" /\ entry.turn = recovery

\* Recovery rewinds the unsettled tail and nothing else.
IsTail(i, l) ==
  /\ \A j \in 1 .. i - 1 : l[j].state # "Pending"
  /\ \A j \in i + 1 .. Len(l) : l[j].state = "Discarded"

\* rewind_conversation_entry up to the native calls: for a user (recovery is None)
\* or for an unsettled Turn.
rewind_conversation(op, target, recovery, commit) ==
  /\ Idle
  /\ rewinds[op].state # "Receipt"
  /\ rewinds[op].state = "Intent" =>
       /\ rewinds[op].intent.target = target /\ rewinds[op].intent.recovery = recovery
       /\ commit = "Committed"
  /\ recovery = None => ~HasPending(ledger)
  /\ \E i \in DOMAIN ledger :
       LET intent == [target |-> target, turn |-> ledger[i].turn, recovery |-> recovery] IN
       /\ IsTarget(ledger[i], op, target, recovery)
       /\ \A j \in 1 .. i - 1 : ~IsTarget(ledger[j], op, target, recovery)
       /\ recovery # None => IsTail(i, ledger)
       /\ rewinds' = [rewinds EXCEPT ![op] =
                        Written(commit, [state |-> "Intent", intent |-> intent], rewinds[op])]
       /\ rewind' = IF commit = "Committed"
                    THEN [op |-> op, intent |-> intent, copy |-> ledger, phase |-> "native"]
                    ELSE None
  /\ Fault(commit # "Committed")
  /\ UNCHANGED <<ledger, bindings, task, cancelling, actor, dispatched, marked>>

\* Mutant: only the number of prompts is compared.
PrefixUnchecked(l) == l \in Seq(Entry)

\* native_rewind_already_applied: every prompt of the conversation must be the live
\* entry of its index, as far as its digest can be compared.
SamePrompt(t, u) == t \in Rich \/ PromptOf[t] = PromptOf[u]
PrefixAgrees(l) ==
  \A n \in DOMAIN Native : \A i \in Active(l) :
    l[i].index = n - 1 => SamePrompt(l[i].turn, Native[n])

\* x.ai/rewind/points and x.ai/rewind/execute, which the actor serves after what is
\* in its inbox.  The prompt at the target is compared after the conversation was
\* cut.
RewindNative ==
  LET target == rewind.intent.target
      cut == Len(Native) > target
      agrees == cut => SamePrompt(rewind.intent.turn, Native[target + 1]) IN
  /\ rewind # None /\ rewind.phase = "native"
  /\ inbox = <<>>
  /\ PrefixAgrees(rewind.copy) /\ Len(Native) >= target
  /\ history' = IF cut THEN Append(history, SubSeq(Native, 1, target)) ELSE history
  /\ rewind' = IF agrees THEN [rewind EXCEPT !.phase = "applied"] ELSE None
  /\ UNCHANGED <<evidence, task, cancelling, inbox, running, dispatched, marked, faults>>

\* The conversation is not the one of the ledger: the rewind is refused.
RewindRefused ==
  /\ rewind # None /\ rewind.phase = "native"
  /\ inbox = <<>>
  /\ ~PrefixAgrees(rewind.copy) \/ Len(Native) < rewind.intent.target
  /\ rewind' = None
  /\ UNCHANGED <<evidence, task, cancelling, actor, dispatched, marked, faults>>

\* A native call or the sync fails.
RewindFails ==
  /\ rewind # None
  /\ rewind' = None
  /\ Fault(TRUE)
  /\ UNCHANGED <<evidence, task, cancelling, actor, dispatched, marked>>

\* The rest of rewind_conversation_entry: sync, ledger, receipt.
RewindSettles(saved, receipt) ==
  LET new == DiscardFrom(rewind.copy, rewind.intent.target) IN
  /\ rewind # None /\ rewind.phase = "applied"
  /\ saved # "Committed" => receipt = "Failed"
  /\ ValidLedger(new)
  /\ history' = <<Native>>
  /\ ledger' = Written(saved, new, ledger)
  /\ rewinds' = [rewinds EXCEPT ![rewind.op] =
                   Written(receipt, [state |-> "Receipt", intent |-> rewind.intent], @)]
  /\ rewind' = None
  /\ Fault(receipt # "Committed")
  /\ UNCHANGED <<bindings, task, cancelling, inbox, running, dispatched, marked>>

-----------------------------------------------------------------------------
(* The persistence of the conversation, and the process *)

\* Mutant: the persistence actor drops the state it is at.
PersistDropsLast ==
  /\ history' = Tail(history)
  /\ UNCHANGED <<evidence, commands, inbox, running, dispatched, marked, faults>>

\* The persistence actor writes the conversation in order, behind the Session actor.
Persist ==
  /\ Len(history) > 1
  /\ history' = Tail(history)
  /\ UNCHANGED <<evidence, commands, inbox, running, dispatched, marked, faults>>

\* The process dies, and the Session is loaded again from what was written.
Crash ==
  /\ Fault(TRUE)
  /\ task' = None /\ cancelling' = FALSE /\ rewind' = None
  /\ inbox' = <<>> /\ running' = None
  /\ history' = <<Head(history)>>
  /\ UNCHANGED <<evidence, dispatched, marked>>

-----------------------------------------------------------------------------
Init ==
  /\ ledger = <<>> /\ rewinds = [op \in Operations |-> NoIntent] /\ bindings = {}
  /\ task = None /\ cancelling = FALSE /\ rewind = None
  /\ inbox = <<>> /\ running = None /\ history = << <<>> >>
  /\ dispatched = {} /\ marked = FALSE /\ faults = 0

Indices == {ledger[i].index : i \in DOMAIN ledger}

Next ==
  \/ \E t \in Turns, bound \in BOOLEAN, c \in Commits : prompt(t, bound, c)
  \/ ActorStarts \/ ActorRecords \/ ActorEnds \/ ActorFails
  \/ cancel \/ ActorCancels \/ ForceStop
  \/ SyncFails
  \/ \E record \in BOOLEAN, b, c \in Commits : settle(record, b, c)
  \/ \E t \in Turns, c \in Commits : turn_binding_status(t, c)
  \/ \E t \in Turns, c \in Commits : mark_turn_discarded(t, c)
  \/ \E op \in Operations, target \in Indices, r \in Turns \cup {None}, c \in Commits :
       rewind_conversation(op, target, r, c)
  \/ RewindNative \/ RewindRefused \/ RewindFails
  \/ \E s, r \in Commits : RewindSettles(s, r)
  \/ Persist
  \/ Crash

Spec == Init /\ [][Next]_vars

-----------------------------------------------------------------------------
(* What recovery reads *)

\* rewind_receipt_proves_turn_not_applied
ProvesNotApplied(op, entry) ==
  /\ rewinds[op].state = "Receipt"
  /\ rewinds[op].intent = [target |-> entry.index, turn |-> entry.turn, recovery |-> entry.turn]

\* reconcile_run: what it may decide of a Turn whose Run operation is op.  A
\* settlement without usage or with another id, and rewind evidence that cannot
\* be read, leave it unknown.  A Turn has one prompt, so its id is never listed
\* with another digest.
Decisions(t, op) ==
  IF ~Listed(t, ledger) THEN {"NotApplied"}
  ELSE LET entry == ledger[EntryOf(t, ledger)] IN
       {"Unknown"} \cup (CASE entry.state = "Completed" -> {"Applied"}
                           [] ProvesNotApplied(op, entry) -> {"NotApplied"}
                           [] OTHER -> {})

-----------------------------------------------------------------------------
(* Properties *)

Task == [turn : Turns, bound : BOOLEAN, copy : Seq(Entry), phase : {"awaiting", "answered"}]
Rewind == [op : Operations, intent : Intent, copy : Seq(Entry), phase : {"native", "applied"}]

\* A task is told from the absence of one.
ASSUME TaskAssumption == None \notin Task

\* Every variable holds what the code can store in it.
TypeOK ==
  /\ ledger \in Seq(Entry) /\ bindings \subseteq Turns
  /\ rewinds \in [Operations -> {NoIntent} \cup [state : {"Intent", "Receipt"}, intent : Intent]]
  /\ task \in Task \cup {None} /\ cancelling \in BOOLEAN
  /\ rewind \in Rewind \cup {None}
  /\ inbox \in Seq(Turns \cup {Stop}) /\ running \in Turns \cup {None}
  /\ history \in Seq(Seq(Turns)) /\ history # <<>>
  /\ dispatched \subseteq Turns /\ marked \in BOOLEAN /\ faults \in 0 .. MaxFaults

\* The Turn is in a state of the conversation that a crash or a flush can bring
\* back, or is on its way there.
Held(t) ==
  \/ \E i \in DOMAIN history : In(t, history[i])
  \/ running = t \/ In(t, inbox)
  \/ task # None /\ task.turn = t

\* Every save the code has begun will pass validate_session_ledger: a refusal after
\* the native call would leave the Session with a Turn nobody can settle.
LedgerNeverRefused ==
  /\ ValidLedger(ledger)
  /\ task # None => ValidLedger(settle_latest(task.copy))
  /\ rewind # None => ValidLedger(DiscardFrom(rewind.copy, rewind.intent.target))

\* reconcile_run takes the absence of a Turn from the ledger as the proof that it
\* was never dispatched; and no prompt is in the conversation twice.
AbsentNeverDispatched ==
  /\ \A t \in Turns : Held(t) => t \in dispatched
  /\ \A t \in dispatched : Listed(t, ledger)
  /\ \A i \in DOMAIN history : \A m, n \in DOMAIN history[i] :
       history[i][m] = history[i][n] => m = n

\* The digests tell the Turns of the ledger apart.
Comparable ==
  \A i, j \in DOMAIN ledger :
    /\ ledger[i].turn \notin Rich
    /\ PromptOf[ledger[i].turn] = PromptOf[ledger[j].turn] => i = j

\* A Turn that recovery declares not applied, so that it is sent again, is in no
\* conversation, whatever crashed or failed in between.  Where the digests cannot
\* tell prompts apart or the Host edited the ledger, it is at least not at the place
\* the ledger gave it: the rewind infers that from the number of prompts alone.
NotAppliedIsTrue ==
  \A t \in Turns, op \in Operations :
    "NotApplied" \in Decisions(t, op) /\ Held(t) =>
      /\ ~Comparable \/ marked
      /\ \A i \in DOMAIN history : \A n \in DOMAIN history[i] :
           history[i][n] = t => n <= ledger[EntryOf(t, ledger)].index

\* A settled Turn that is in the conversation is in what a crash leaves of it.
CompletedSurvivesCrash ==
  \A i \in DOMAIN ledger :
    ledger[i].state = "Completed" /\ In(ledger[i].turn, Native) => In(ledger[i].turn, Head(history))

\* No write of the ledger loses or renames an entry that another wrote, settles
\* one back to Pending or brings a discarded one back; and the recovery of a Turn
\* discards that Turn and no other.
EntriesAreForever ==
  [][\A i \in DOMAIN ledger :
       /\ i \in DOMAIN ledger'
       /\ ledger'[i].turn = ledger[i].turn /\ ledger'[i].index = ledger[i].index
       /\ ledger[i].state = "Discarded" => ledger'[i].state = "Discarded"
       /\ ledger[i].state = "Completed" => ledger'[i].state # "Pending"
       /\ rewind # None /\ rewind.intent.recovery \notin {None, ledger[i].turn}
            => ledger'[i] = ledger[i]]_vars

\* A Turn that recovery declares not applied is in no conversation: "an uncertain
\* Turn is never guessed or silently repeated" (crates/sophon-sdk/README.md:159).
NeverGuessed ==
  \A t \in Turns, op \in Operations : "NotApplied" \in Decisions(t, op) => ~Held(t)
=============================================================================
