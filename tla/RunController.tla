--------------------------- MODULE RunController ---------------------------
(***************************************************************************)
(* Who may change a Run (crates/codegen/xai-agent-lifecycle run/           *)
(* controller.rs over run/store.rs): controllers in several processes      *)
(* cache the Runs of one Session and commit successors to one store by     *)
(* compare-and-swap on the revision.  A commit may be refused, or its      *)
(* acknowledgement lost; a process may crash at any point.                 *)
(*                                                                         *)
(* What a successor may be is the reducer's business: a record keeps its   *)
(* revision, its command receipts and the two things authority depends on, *)
(* the phase and whether work is open, and moves as RunPhases allows, as   *)
(* Run does.                                                               *)
(***************************************************************************)
EXTENDS Integers, RunPhases

CONSTANTS Controllers,  \* controller slots, each one process after another
          Runs,         \* Run identities of the Session
          Commands,     \* command identities
          Creates,      \* those of create_run
          Nobody,       \* not a controller
          MaxRevision   \* bound: revisions of one Run

ASSUME ConstantsAssumption ==
  /\ Creates \subseteq Commands
  /\ Nobody \notin Controllers
  /\ MaxRevision \in Nat

VARIABLES
  store,             \* the durable record of each Run
  up,                \* the controllers that are open
  runs,              \* per controller, its cache
  authority_fenced,  \* per controller, the Runs it may not mutate
  reload_required,   \* per controller, the Runs it must read again
  applied,           \* history: how often a command changed a Run
  told,              \* history: the commands a caller was told succeeded
  owner              \* history: who holds the newest acknowledged authority

memory  == <<up, runs, authority_fenced, reload_required>>
history == <<applied, told, owner>>
vars == <<store, memory, history>>

-----------------------------------------------------------------------------
(* Records *)

Record == [revision : Nat, phase : Phases \cup {"Absent"}, open : BOOLEAN, receipts : SUBSET Commands]

Absent == [revision |-> 0, phase |-> "Absent", open |-> FALSE, receipts |-> {}]
Created(m) == [revision |-> 1, phase |-> "Active", open |-> FALSE, receipts |-> {m}]

Successor(rec, q, n, ms) ==
  [revision |-> rec.revision + 1, phase |-> q, open |-> n,
   receipts |-> rec.receipts \cup ms]

\* Fault: a Run that ended with open work is not recovered.
NeedsRecoveryLive(rec) == rec.phase \in Live

\* needs_controller_recovery
NeedsRecovery(rec) == rec.phase \in Live \/ rec.open

-----------------------------------------------------------------------------
(* The store *)

\* Fault: the revision is not compared.
StoreAcceptsAny(r, expected) ==
  /\ expected = 0 <=> store[r].revision = 0
  /\ store[r].phase # "Tombstoned"
  /\ expected = 0 => \A s \in Runs : store[s].phase \notin Live

\* The CAS of LocalRunStore::commit; a creation also looks for a Run of the
\* Session that is not terminal.
StoreAccepts(r, expected) ==
  /\ store[r].revision = expected
  /\ store[r].phase # "Tombstoned"
  /\ expected = 0 => \A s \in Runs : store[s].phase \notin Live

-----------------------------------------------------------------------------
(* commit: what each answer of the store does to the controller *)

Answers == {"Applied", "CommitUnknown", "Conflict", "Tombstoned"}

StoreAnswers(r, expected, answer) ==
  IF StoreAccepts(r, expected) THEN answer \in {"Applied", "CommitUnknown"}
  ELSE answer = IF store[r].phase = "Tombstoned" THEN "Tombstoned" ELSE "Conflict"

\* An acknowledgement that was lost says nothing about the commit.
Persist(r, next, ms, answer) ==
  \/ /\ answer \in {"Applied", "CommitUnknown"}
     /\ store' = [store EXCEPT ![r] = next]
     /\ applied' = [applied EXCEPT ![r] =
                      [m \in Commands |-> @[m] + IF m \in ms THEN 1 ELSE 0]]
  \/ answer # "Applied" /\ UNCHANGED <<store, applied>>

\* Fault: the successor is cached before the store has acknowledged it.
CacheUnacknowledged(c, r, next, answer) ==
  runs' = IF answer \in {"Applied", "CommitUnknown"}
          THEN [runs EXCEPT ![c][r] = next] ELSE runs

\* Only an acknowledged successor is cached.
Cache(c, r, next, answer) ==
  runs' = IF answer = "Applied" THEN [runs EXCEPT ![c][r] = next] ELSE runs

\* Every other answer than Applied fences the Run; a conflict or a lost
\* acknowledgement also asks for a fresh read.
commit(c, r, expected, next, ms, answer) ==
  /\ next.revision <= MaxRevision
  /\ StoreAnswers(r, expected, answer)
  /\ Persist(r, next, ms, answer)
  /\ Cache(c, r, next, answer)
  /\ reload_required' = IF answer \in {"CommitUnknown", "Conflict"}
                        THEN [reload_required EXCEPT ![c] = @ \cup {r}]
                        ELSE reload_required
  /\ told' = IF answer = "Applied" THEN told \cup ({r} \X ms) ELSE told
  /\ up' = up

Fenced(c, r, answer) ==
  IF answer = "Applied" THEN authority_fenced
  ELSE [authority_fenced EXCEPT ![c] = @ \cup {r}]

Owner(c, r, answer) == IF answer = "Applied" THEN [owner EXCEPT ![r] = c] ELSE owner

-----------------------------------------------------------------------------
(* Controllers *)

\* Fault: only the Runs that must be recovered are read into the cache.
OpenRecoverable(c) ==
  LET found == {r \in Runs : NeedsRecovery(store[r])} IN
  /\ c \notin up
  /\ up' = up \cup {c}
  /\ runs' = [runs EXCEPT ![c] = [r \in found |-> store[r]]]
  /\ authority_fenced' = [authority_fenced EXCEPT ![c] = found]
  /\ reload_required' = [reload_required EXCEPT ![c] = {}]
  /\ UNCHANGED <<store, history>>

open(c) ==
  /\ c \notin up
  /\ up' = up \cup {c}
  /\ runs' = [runs EXCEPT ![c] = store]
  /\ authority_fenced' = [authority_fenced EXCEPT ![c] = {r \in Runs : NeedsRecovery(store[r])}]
  /\ reload_required' = [reload_required EXCEPT ![c] = {}]
  /\ UNCHANGED <<store, history>>

\* The process ends, and with it everything the controller knew.
Crash(c) ==
  /\ c \in up
  /\ up' = up \ {c}
  /\ runs' = [runs EXCEPT ![c] = [r \in Runs |-> Absent]]
  /\ authority_fenced' = [authority_fenced EXCEPT ![c] = {}]
  /\ reload_required' = [reload_required EXCEPT ![c] = {}]
  /\ owner' = [r \in Runs |-> IF owner[r] = c THEN Nobody ELSE owner[r]]
  /\ UNCHANGED <<store, applied, told>>

\* A creation looks for its command and for a Run that is not terminal in the
\* cache only, and neither reads nor lifts the fence of the Run.
create_run(c, r, m) ==
  /\ c \in up
  /\ \A s \in Runs : m \notin runs[c][s].receipts
  /\ \A s \in Runs : runs[c][s].phase \notin Live
  /\ \E answer \in Answers :
       /\ commit(c, r, 0, Created(m), {m}, answer)
       /\ authority_fenced' = Fenced(c, r, answer)
       /\ owner' = Owner(c, r, answer)

\* Any command but begin_recovery, through apply_command.
command(c, r, m, q, n) ==
  LET rec == runs[c][r] IN
  /\ c \in up
  /\ r \notin authority_fenced[c]
  /\ m \notin rec.receipts
  /\ Commanded(rec.phase, rec.open, q, n)
  /\ \E answer \in Answers :
       /\ commit(c, r, rec.revision, Successor(rec, q, n, {m}), {m}, answer)
       /\ authority_fenced' = Fenced(c, r, answer)
  /\ UNCHANGED owner

\* The result of an iteration, an effect or a child, through commit_callback:
\* no command receipt is kept.
callback(c, r, q, n) ==
  LET rec == runs[c][r] IN
  /\ c \in up
  /\ r \notin authority_fenced[c]
  /\ CalledBack(rec.phase, rec.open, q, n)
  /\ \E answer \in Answers :
       /\ commit(c, r, rec.revision, Successor(rec, q, n, {}), {}, answer)
       /\ authority_fenced' = Fenced(c, r, answer)
  /\ UNCHANGED owner

\* A caller that repeats a command is told that it succeeded, by a controller
\* that is not fenced; a creation is answered in either case.
duplicate(c, r, m) ==
  /\ c \in up
  /\ m \in runs[c][r].receipts
  /\ m \in Creates \/ r \notin authority_fenced[c]
  /\ told' = told \cup {<<r, m>>}
  /\ UNCHANGED <<store, memory, applied, owner>>

\* begin_recovery acquires the authority, once its own commit is acknowledged;
\* a receipt of an earlier recovery does not do.
begin_recovery(c, r, m, q, n) ==
  LET rec == runs[c][r] IN
  /\ c \in up
  /\ r \notin reload_required[c]
  /\ m \notin rec.receipts
  /\ Reopens(rec.phase, rec.open, q, n)
  /\ \E answer \in Answers :
       /\ commit(c, r, rec.revision, Successor(rec, q, n, {m}), {m}, answer)
       /\ authority_fenced' = IF answer = "Applied"
                              THEN [authority_fenced EXCEPT ![c] = @ \ {r}]
                              ELSE Fenced(c, r, answer)
       /\ owner' = Owner(c, r, answer)

reload_run(c, r) ==
  /\ c \in up
  /\ runs' = [runs EXCEPT ![c][r] = store[r]]
  /\ authority_fenced' = [authority_fenced EXCEPT
       ![c] = IF NeedsRecovery(store[r]) THEN @ \cup {r} ELSE @ \ {r}]
  /\ reload_required' = [reload_required EXCEPT ![c] = @ \ {r}]
  /\ UNCHANGED <<store, up, history>>

-----------------------------------------------------------------------------
(* The specification *)

Init ==
  /\ store = [r \in Runs |-> Absent]
  /\ up = {}
  /\ runs = [c \in Controllers |-> [r \in Runs |-> Absent]]
  /\ authority_fenced = [c \in Controllers |-> {}]
  /\ reload_required = [c \in Controllers |-> {}]
  /\ applied = [r \in Runs |-> [m \in Commands |-> 0]]
  /\ told = {}
  /\ owner = [r \in Runs |-> Nobody]

Create  == \E c \in Controllers, r \in Runs, m \in Creates : create_run(c, r, m)
Mutate  == \E c \in Controllers, r \in Runs, m \in Commands \ Creates,
              q \in Phases, n \in BOOLEAN :
                command(c, r, m, q, n) \/ begin_recovery(c, r, m, q, n)
Report  == \E c \in Controllers, r \in Runs, q \in Phases, n \in BOOLEAN :
                callback(c, r, q, n)
Repeat  == \E c \in Controllers, r \in Runs, m \in Commands : duplicate(c, r, m)
Process == \E c \in Controllers :
             open(c) \/ Crash(c) \/ \E r \in Runs : reload_run(c, r)

Next == Create \/ Mutate \/ Report \/ Repeat \/ Process

Spec == Init /\ [][Next]_vars

-----------------------------------------------------------------------------
(* Properties *)

\* Records, caches and fences are well formed.
TypeOK ==
  /\ store \in [Runs -> Record]
  /\ up \subseteq Controllers
  /\ runs \in [Controllers -> [Runs -> Record]]
  /\ authority_fenced \in [Controllers -> SUBSET Runs]
  /\ reload_required \in [Controllers -> SUBSET Runs]
  /\ applied \in [Runs -> [Commands -> Nat]]
  /\ told \subseteq Runs \X Commands
  /\ owner \in [Runs -> Controllers \cup {Nobody}]

\* A cached record is the stored one or an earlier one: no controller has seen
\* a commit that did not happen, and of one revision there is one record.
CacheIsPast ==
  \A c \in Controllers, r \in Runs :
    /\ runs[c][r].revision <= store[r].revision
    /\ runs[c][r].receipts \subseteq store[r].receipts
    /\ runs[c][r].revision = store[r].revision => runs[c][r] = store[r]

\* A command that is retried, after a lost acknowledgement, a crash or on
\* another controller, changes its Run once; and one that a caller was told of
\* did change it.
ExactlyOnce ==
  \A r \in Runs, m \in Commands :
    /\ applied[r][m] = IF m \in store[r].receipts THEN 1 ELSE 0
    /\ <<r, m>> \in told => m \in store[r].receipts

\* Of the controllers that believe they may mutate a Run that must be recovered
\* first, the one whose commit the store would accept is the one whose create_run
\* or begin_recovery was acknowledged last.
SingleAuthority ==
  \A c \in Controllers, r \in Runs :
    /\ c \in up /\ r \notin authority_fenced[c]
    /\ runs[c][r].revision = store[r].revision
    /\ NeedsRecovery(store[r])
    => owner[r] = c

\* Whatever controllers interleave, the stored record of a Run goes through
\* create_run and then single moves of the reducer, each from what was stored.
LinearHistory ==
  [][\A r \in Runs : store'[r] # store[r] =>
       /\ store'[r].revision = store[r].revision + 1
       /\ \/ store[r] = Absent /\ \E m \in Creates : store'[r] = Created(m)
          \/ Moves(store[r].phase, store[r].open, store'[r].phase, store'[r].open)]_vars
=============================================================================
