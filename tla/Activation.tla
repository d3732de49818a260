----------------------------- MODULE Activation -----------------------------
(***************************************************************************)
(* The durable activation coordinator (crates/sophon-sdk activation.rs and *)
(* activation/local.rs): a SQLite table of work items which workers claim  *)
(* under expiring leases.  Every operation is one IMMEDIATE transaction,   *)
(* so it is one action; the caller supplies the instant it acts at.        *)
(***************************************************************************)
EXTENDS Integers, FiniteSets

CONSTANTS Items,        \* work item identities; their order is the id order
          Workers,      \* supervisor identities
          NoWorker,     \* lease_worker of a row without a lease
          Payloads,     \* opaque payloads
          LeaseMs,      \* lease lengths a caller may ask for
          Limit,        \* the claim batch a sweep asks for
          MaxClock,     \* bound: the last instant the world reaches
          MaxStorable,  \* bound: the largest storable millisecond value
          MaxToken,     \* bound: the largest storable fencing token
          Skew          \* how far a caller's clock may be from the world's

Null == -1

ASSUME ConstantsAssumption ==
  /\ Items \subseteq Nat
  /\ NoWorker \notin Workers
  /\ LeaseMs \subseteq Nat \ {0}
  /\ Limit \in Nat \ {0}
  /\ MaxClock \in Nat
  /\ MaxStorable \in Nat /\ MaxClock <= MaxStorable
  /\ MaxToken \in Nat
  /\ Skew \in Nat

VARIABLES known,     \* the items that have a row
          rows,      \* the row of each known item
          clock,     \* the world's time; no operation reads it directly
          crashed,   \* workers that stopped for good
          handles,   \* every handle a grant returned to a worker
          settled,   \* history: the handles whose release answered Settled
          owed,      \* history: the latest accepted wake no grant has served
          purged     \* history: the items retention dropped

store == <<known, rows>>
vars == <<known, rows, clock, crashed, handles, settled, owed, purged>>

\* Storable values: as_i64 refuses what is larger.
Times  == 0 .. MaxStorable
Tokens == 0 .. MaxToken

Row == [due           : Times \cup {Null},
        payload       : Payloads,
        attempt       : Tokens,
        fencing_token : Tokens,
        lease_worker  : Workers \cup {NoWorker},
        lease_token   : Tokens \cup {Null},
        lease_expires : Times \cup {Null},
        settled_at    : Times \cup {Null},
        settled_token : Tokens \cup {Null}]

Handle == [item : Items, worker : Workers, token : Tokens]
Wish   == [item : Items, due : Times, payload : Payloads]

\* The instants a caller may pass: its clock is within Skew of the world's.
Instants == {t \in Times : t <= clock + Skew /\ clock <= t + Skew}

-----------------------------------------------------------------------------
(* Rows *)

\* StoredItem::held_by: the lease on a row is live at `now`.
held_by(r, now) == r.lease_expires # Null /\ r.lease_expires > now

\* Fault: the lease check compares the worker and forgets the token.
HonoursWorker(r, h, now) == held_by(r, now) /\ r.lease_worker = h.worker

\* Fault: the lease check forgets that the lease may be over.
HonoursExpired(r, h, now) ==
  r.lease_worker = h.worker /\ r.lease_token = h.token

\* The handle is the one a live lease of the row honours.
Honours(r, h, now) ==
  /\ held_by(r, now)
  /\ r.lease_worker = h.worker
  /\ r.lease_token = h.token

\* The row an INSERT of an unknown identity creates.
NewRow(due, payload) ==
  [due |-> due, payload |-> payload, attempt |-> 0, fencing_token |-> 0,
   lease_worker |-> NoWorker, lease_token |-> Null, lease_expires |-> Null,
   settled_at |-> Null, settled_token |-> Null]

\* Fault: a reschedule keeps settled_at.
RescheduledKeepsSettled(r, due, payload) ==
  [r EXCEPT !.due = due, !.payload = payload]

\* The UPDATE of a reschedule; lease and settled_token columns stay.
RescheduledRow(r, due, payload) ==
  [r EXCEPT !.due = due, !.payload = payload, !.settled_at = Null]

\* Fault: a takeover reuses the token of the expired lease.
GrantedReusesToken(r, worker, expires) ==
  [r EXCEPT !.attempt = r.attempt + 1,
            !.fencing_token = IF r.lease_token = Null THEN @ + 1 ELSE @,
            !.lease_worker = worker,
            !.lease_token = IF r.lease_token = Null THEN r.fencing_token + 1 ELSE @,
            !.lease_expires = expires,
            !.settled_at = Null]

\* grant: the next token and attempt under a fresh lease.
GrantedRow(r, worker, expires) ==
  [r EXCEPT !.attempt = r.attempt + 1,
            !.fencing_token = r.fencing_token + 1,
            !.lease_worker = worker,
            !.lease_token = r.fencing_token + 1,
            !.lease_expires = expires,
            !.settled_at = Null]

\* Fault: the expiry is stored without the range check.
GrantableUnchecked(r, expires) ==
  r.fencing_token < MaxToken /\ r.attempt < MaxToken

\* grant fails, and its transaction rolls back, past the storable range.
Grantable(r, expires) ==
  r.fencing_token < MaxToken /\ r.attempt < MaxToken /\ expires <= MaxStorable

\* release: Complete (due = Null) or Yield, then the lease columns go.
ReleasedRow(r, h, due, now) ==
  [r EXCEPT !.due = due,
            !.settled_at = IF due = Null THEN now ELSE Null,
            !.settled_token = h.token,
            !.lease_worker = NoWorker,
            !.lease_token = Null,
            !.lease_expires = Null]

\* validate: what a row must satisfy for load to decode it.  Signs and sizes
\* are in the type of a row.
validate(r) ==
  /\ r.lease_token # Null => r.lease_token <= r.fencing_token
  /\ r.settled_token # Null => r.settled_token <= r.fencing_token
  /\ ~(r.due # Null /\ r.settled_at # Null)

-----------------------------------------------------------------------------
(* Answers *)

WakeOutcome(i, due, payload, now) ==
  CASE i \notin known -> "Registered"
    [] i \in known /\ held_by(rows[i], now) -> "Held"
    [] i \in known /\ ~held_by(rows[i], now)
         /\ rows[i].due = due /\ rows[i].payload = payload -> "Unchanged"
    [] OTHER -> "Rescheduled"

ClaimAnswer(i, now) ==
  CASE i \notin known -> "Unknown"
    [] i \in known /\ held_by(rows[i], now) -> "Held"
    [] i \in known /\ ~held_by(rows[i], now) /\ rows[i].due = Null -> "Settled"
    [] i \in known /\ ~held_by(rows[i], now) /\ rows[i].due > now -> "NotDue"
    [] OTHER -> "Granted"

\* Fault: any earlier settlement of the item answers AlreadySettled.
ReleaseAnswerAnyToken(h, now) ==
  CASE h.item \notin known -> "Fenced"
    [] h.item \in known /\ rows[h.item].settled_token # Null -> "AlreadySettled"
    [] h.item \in known /\ rows[h.item].settled_token = Null
         /\ Honours(rows[h.item], h, now) -> "Settled"
    [] OTHER -> "Fenced"

\* The idempotency answer comes before the lease check.
ReleaseAnswer(h, now) ==
  CASE h.item \notin known -> "Fenced"
    [] h.item \in known /\ rows[h.item].settled_token = h.token
         -> "AlreadySettled"
    [] h.item \in known /\ rows[h.item].settled_token # h.token
         /\ Honours(rows[h.item], h, now) -> "Settled"
    [] OTHER -> "Fenced"

RenewAnswer(h, now) ==
  IF h.item \in known /\ Honours(rows[h.item], h, now)
  THEN "Renewed" ELSE "Fenced"

-----------------------------------------------------------------------------
(* Sweeps *)

\* Fault: a sweep passes over items with an expired lease.
CandidatesUnleased(now) ==
  {i \in known : /\ rows[i].due # Null /\ rows[i].due <= now
                 /\ rows[i].lease_expires = Null}

\* The WHERE clause of claim_due.
Candidates(now) ==
  {i \in known : /\ rows[i].due # Null /\ rows[i].due <= now
                 /\ rows[i].lease_expires = Null \/ rows[i].lease_expires <= now}

\* ORDER BY due_at_ms, item_id.
Precedes(i, j) ==
  \/ rows[i].due < rows[j].due
  \/ rows[i].due = rows[j].due /\ i < j

\* LIMIT: the batch holds the first Limit candidates, or all of them.
SweepOf(batch, now) ==
  /\ batch \subseteq Candidates(now)
  /\ Cardinality(batch) <= Limit
  /\ Cardinality(batch) = Limit \/ batch = Candidates(now)
  /\ \A i \in batch, j \in Candidates(now) \ batch : Precedes(i, j)

HandleOf(i, worker) ==
  [item |-> i, worker |-> worker, token |-> rows[i].fencing_token + 1]

\* grant applied to every item of a batch in one transaction.
GrantAll(batch, worker, expires) ==
  /\ \A i \in batch : Grantable(rows[i], expires)
  /\ rows' = [i \in known |-> IF i \in batch
                              THEN GrantedRow(rows[i], worker, expires)
                              ELSE rows[i]]
  /\ handles' = handles \cup {HandleOf(i, worker) : i \in batch}
  /\ owed' = {o \in owed : o.item \notin batch}
  /\ UNCHANGED <<known, clock, crashed, settled, purged>>

-----------------------------------------------------------------------------
(* Operations *)

Init ==
  /\ known = {}
  /\ rows = [i \in {} |-> NewRow(0, 0)]
  /\ owed = {}
  /\ clock = 0
  /\ crashed = {}
  /\ handles = {}
  /\ settled = {}
  /\ purged = {}

\* An Unchanged wake writes back what the row holds.
WokenRow(i, due, payload) ==
  IF i \notin known THEN NewRow(due, payload)
  ELSE IF rows[i].due = due /\ rows[i].payload = payload THEN rows[i]
  ELSE RescheduledRow(rows[i], due, payload)

\* A Host never schedules again what it purged (the contract of
\* purge_settled); every other identity may be woken at any time.
wake(i, due, payload, now) ==
  /\ i \notin purged
  /\ WakeOutcome(i, due, payload, now) # "Held"
  /\ known' = known \cup {i}
  /\ rows' = [j \in known \cup {i} |->
                IF j = i THEN WokenRow(i, due, payload) ELSE rows[j]]
  /\ owed' = {o \in owed : o.item # i}
               \cup {[item |-> i, due |-> due, payload |-> payload]}
  /\ UNCHANGED <<clock, crashed, handles, settled, purged>>

claim_due(worker, now, lease) ==
  /\ worker \notin crashed
  /\ \E batch \in SUBSET known :
        /\ batch # {}
        /\ SweepOf(batch, now)
        /\ GrantAll(batch, worker, now + lease)

claim_item(i, worker, now, lease) ==
  /\ worker \notin crashed
  /\ ClaimAnswer(i, now) = "Granted"
  /\ GrantAll({i}, worker, now + lease)

renew(h, now, lease) ==
  /\ h.worker \notin crashed
  /\ RenewAnswer(h, now) = "Renewed"
  /\ now + lease <= MaxStorable
  /\ rows' = [rows EXCEPT ![h.item].lease_expires = now + lease]
  /\ UNCHANGED <<known, clock, crashed, handles, settled, owed, purged>>

\* Any handle ever granted may be presented, early, late or again.
release(h, due, now) ==
  /\ h.worker \notin crashed
  /\ ReleaseAnswer(h, now) = "Settled"
  /\ rows' = [rows EXCEPT ![h.item] = ReleasedRow(rows[h.item], h, due, now)]
  /\ settled' = settled \cup {h}
  /\ UNCHANGED <<known, clock, crashed, handles, owed, purged>>

\* Fault: retention also drops rows that never settled.
PurgeableUnsettled(r, before) ==
  /\ r.settled_at <= before
  /\ r.lease_worker = NoWorker

\* The WHERE clause of the DELETE.
Purgeable(r, before) ==
  /\ r.settled_at # Null /\ r.settled_at <= before
  /\ r.due = Null
  /\ r.lease_worker = NoWorker

purge_settled(before) ==
  LET gone == {i \in known : Purgeable(rows[i], before)}
  IN  /\ gone # {}
      /\ known' = known \ gone
      /\ rows' = [i \in known \ gone |-> rows[i]]
      /\ purged' = purged \cup gone
      /\ UNCHANGED <<clock, crashed, handles, settled, owed>>

Tick ==
  /\ clock < MaxClock
  /\ clock' = clock + 1
  /\ UNCHANGED <<known, rows, crashed, handles, settled, owed, purged>>

\* A worker dies for good; its handles are never presented again.
Crash(worker) ==
  /\ crashed' = crashed \cup {worker}
  /\ crashed' # Workers
  /\ UNCHANGED <<known, rows, clock, handles, settled, owed, purged>>

Wake   == \E i \in Items, due \in Times, p \in Payloads, now \in Instants :
            wake(i, due, p, now)
Sweep  == \E w \in Workers, now \in Instants, l \in LeaseMs :
            claim_due(w, now, l)
Claim  == \E i \in Items, w \in Workers, now \in Instants, l \in LeaseMs :
            claim_item(i, w, now, l)
Renew  == \E h \in handles, now \in Instants, l \in LeaseMs : renew(h, now, l)
Release == \E h \in handles, due \in Times \cup {Null}, now \in Instants :
            release(h, due, now)
Purge  == \E before \in Times : purge_settled(before)
Die    == \E w \in Workers : Crash(w)

Next == Wake \/ Sweep \/ Claim \/ Renew \/ Release \/ Purge \/ Tick \/ Die

Spec == Init /\ [][Next]_vars

\* A supervisor that is alive keeps sweeping at the world's time, and time
\* passes.  Nothing is assumed of the worker that holds a lease.
Fairness ==
  /\ WF_vars(Tick)
  /\ WF_vars(\E w \in Workers, l \in LeaseMs : claim_due(w, clock, l))

FairSpec == Spec /\ Fairness

-----------------------------------------------------------------------------
(* Properties *)

\* The variables have their types: a row for exactly the known items, handles
\* and wishes over real items and workers.
TypeOK ==
  /\ known \subseteq Items
  /\ rows \in [known -> Row]
  /\ clock \in 0 .. MaxClock
  /\ crashed \subseteq Workers
  /\ handles \subseteq Handle
  /\ settled \subseteq handles
  /\ owed \subseteq Wish
  /\ purged \subseteq Items

\* No sequence of operations leaves a row that validate refuses on the next
\* load, which would wedge the item (and every sweep that selects it).
RowsDecodable == \A i \in known : validate(rows[i])

\* A release is answered AlreadySettled only to the worker whose own release
\* recorded the outcome, although release does not compare the worker: no
\* handle that never settled is told that it did.
AlreadySettledIsTrue ==
  \A h \in handles, now \in Times :
     ReleaseAnswer(h, now) = "AlreadySettled" => h \in settled

\* At any instant at most one of all handles ever granted for an item would be
\* honoured, it is the newest one, and its outcome is not yet recorded.
OneHonouredHandle ==
  \A h \in handles, now \in Times :
     ReleaseAnswer(h, now) = "Settled" =>
        /\ h \notin settled
        /\ \A g \in handles : g.item = h.item /\ g # h =>
              g.token < h.token /\ \A t \in Times : ReleaseAnswer(g, t) # "Settled"

\* When callers agree on the time (Skew = 0), a schedule that wake accepted
\* stays in the queue with its due time and payload until a grant serves it:
\* no late release, takeover or purge erases it.
NoLostWake ==
  Skew = 0 => \A o \in owed : /\ o.item \in known
                               /\ rows[o.item].due = o.due
                               /\ rows[o.item].payload = o.payload

\* An item that is out of the queue (no due time) or gone was put there by a
\* release of its newest handle: work is never dropped unexecuted.
DroppedOnlyWhenSettled ==
  \A i \in Items : (i \in purged \/ (i \in known /\ rows[i].due = Null)) =>
     \E h \in settled : /\ h.item = i
                        /\ \A g \in handles : g.item = i => g.token <= h.token

\* The coordinator implements the fenced queue: tokens grow strictly per item
\* and are never reused, only the newest handle of an item records an outcome,
\* and none does so twice, whatever clocks the callers use.
Queue == INSTANCE FencedQueue WITH issued <- handles, recorded <- settled

RefinesFencedQueue == Queue!QSpec

\* Expiry returns a crashed worker's item: a lease whose holder died is taken
\* over by another worker's sweep, unless the Host reschedules the item first.
\* (MaxClock and MaxToken bound the model, so the lease must expire within them.)
CrashedLeaseIsTakenOver ==
  \A i \in Items, w \in Workers, t \in 1 .. MaxToken - 1 :
     (/\ i \in known /\ w \in crashed
      /\ rows[i].lease_worker = w /\ rows[i].lease_token = t
      /\ rows[i].lease_expires <= MaxClock)
       ~> \/ i \in known /\ rows[i].fencing_token > t
          \/ \E o \in owed : o.item = i

=============================================================================
