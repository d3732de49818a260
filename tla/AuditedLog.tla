----------------------------- MODULE AuditedLog -----------------------------
(***************************************************************************)
(* What the Session store and its observer promise together: a log that    *)
(* only grows, and compactions that are settled once.  A compaction is     *)
(* raised on the log, is applied or refused while nothing else can be      *)
(* published, and leaves the log open again only after the observer was    *)
(* told the settled outcome, or when the observer had rejected it.         *)
(***************************************************************************)
EXTENDS Integers, Sequences

CONSTANT Reasons, AppliedReason   \* reasons of a refusal; the filler of an applied outcome

VARIABLES at,    \* Vacant, Live or Tombstoned
          log,   \* the records
          fence, \* the compaction that is not settled or not told
          last,  \* the last identity drawn for a compaction
          told   \* the outcomes the observer was told

vars == <<at, log, fence, last, told>>

Open == [at |-> "None", id |-> 0, reason |-> AppliedReason]
Raised(id) == [at |-> "IntentPending", id |-> id, reason |-> AppliedReason]
Refused(id, reason) == [at |-> "NotAppliedPending", id |-> id, reason |-> reason]
Applied(id) == [at |-> "EvidencePending", id |-> id, reason |-> AppliedReason]

Verdict ==
  [id |-> fence.id, reason |-> fence.reason,
   verdict |-> IF fence.at = "EvidencePending" THEN "Applied" ELSE "NotApplied"]

Settled == fence.at \in {"NotAppliedPending", "EvidencePending"}

Record == [kind : {"update", "mark", "compaction"}, of : Nat, base : Nat]

\* next extends the log by records that are not compactions
Extends(next) ==
  /\ next \in Seq(Record)
  /\ Len(next) >= Len(log)
  /\ \A i \in DOMAIN log : next[i] = log[i]
  /\ \A i \in DOMAIN next \ DOMAIN log : next[i].kind # "compaction"

Init ==
  /\ at = "Vacant" /\ log = <<>> /\ fence = Open /\ last = 0 /\ told = {}

Create ==
  /\ at = "Vacant" /\ at' = "Live"
  /\ UNCHANGED <<log, fence, last, told>>

\* Records are published; an identity may be drawn and never used.
Publish ==
  /\ at = "Live" /\ fence = Open
  /\ Extends(log')
  /\ last' \in {last, last + 1}
  /\ UNCHANGED <<at, fence, told>>

\* The staged records are published and the fence is raised on them.
Raise ==
  /\ at = "Live" /\ fence = Open
  /\ Extends(log')
  /\ last' = last + 1 /\ fence' = Raised(last')
  /\ UNCHANGED <<at, told>>

Withdraw ==
  /\ at = "Live" /\ fence.at = "IntentPending" /\ fence' = Open
  /\ UNCHANGED <<at, log, last, told>>

Refuse ==
  /\ at = "Live" /\ fence.at = "IntentPending"
  /\ \E reason \in Reasons : fence' = Refused(fence.id, reason)
  /\ UNCHANGED <<at, log, last, told>>

Apply ==
  /\ at = "Live" /\ fence.at = "IntentPending" /\ fence' = Applied(fence.id)
  /\ log' = Append(log, [kind |-> "compaction", of |-> fence.id, base |-> Len(log)])
  /\ UNCHANGED <<at, last, told>>

Tell ==
  /\ at = "Live" /\ Settled
  /\ told' = told \cup {Verdict}
  /\ UNCHANGED <<at, log, fence, last>>

Lift ==
  /\ at = "Live" /\ Settled /\ Verdict \in told
  /\ fence' = Open
  /\ UNCHANGED <<at, log, last, told>>

Delete ==
  /\ at = "Live" /\ at' = "Tombstoned"
  /\ UNCHANGED <<log, fence, last, told>>

Next ==
  \/ Create \/ Publish \/ Raise \/ Withdraw \/ Refuse \/ Apply \/ Tell \/ Lift \/ Delete

Spec == Init /\ [][Next]_vars

-----------------------------------------------------------------------------
(* Properties *)

\* The compactions of a log
Compactions(records) == {records[i].of : i \in {j \in DOMAIN records : records[j].kind = "compaction"}}

\* What the observer was told is true and stays true: an applied compaction is
\* in the log, one that was not applied is not, and one compaction has one
\* verdict with one reason.
ToldIsTrue ==
  \A o \in told :
    /\ o.verdict = "Applied" <=> o.id \in Compactions(log)
    /\ \A p \in told : p.id = o.id => p = o

\* A checkpoint stands directly after the records it summarises.
CheckpointsCoverTheirBase ==
  \A i \in DOMAIN log : log[i].kind = "compaction" => log[i].base = i - 1

=============================================================================
