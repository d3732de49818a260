-------------------------- MODULE AuditedLogProofs --------------------------
(***************************************************************************)
(* What the audited log promises to a reader of its outcomes, for every    *)
(* set of reasons.  The Session log inherits these facts by refinement.    *)
(***************************************************************************)
EXTENDS AuditedLog, TLAPS

Compacted(records, id) == \E i \in DOMAIN records : records[i].kind = "compaction" /\ records[i].of = id

Outcome == [id : Nat, verdict : {"Applied", "NotApplied"}, reason : Reasons]

Types ==
  /\ at \in {"Vacant", "Live", "Tombstoned"}
  /\ log \in Seq(Record)
  /\ fence \in [at : {"None", "IntentPending", "NotAppliedPending", "EvidencePending"},
                id : Nat, reason : Reasons]
  /\ last \in Nat
  /\ told \subseteq Outcome

\* No identity is in use that was not drawn.
Drawn ==
  /\ fence.id <= last
  /\ \A i \in DOMAIN log : log[i].kind = "compaction" => log[i].of <= last
  /\ \A o \in told : o.id <= last

\* What was told of any compaction, and of the one that is fenced
Told ==
  /\ \A o \in told : o.verdict = "Applied" <=> Compacted(log, o.id)
  /\ \A o, p \in told : p.id = o.id => p = o
  /\ fence.at = "IntentPending" => \A o \in told : o.id # fence.id
  /\ Settled => \A o \in told : o.id = fence.id => o = Verdict
  /\ fence.at \in {"IntentPending", "NotAppliedPending"} => ~Compacted(log, fence.id)
  /\ fence.at = "EvidencePending" => Compacted(log, fence.id)

Ind == Types /\ Drawn /\ Told /\ CheckpointsCoverTheirBase

\* The code's sets and the quantified form used in the proof agree.
LEMMA CompactionsDef ==
  ASSUME NEW records, NEW id
  PROVE  id \in Compactions(records) <=> Compacted(records, id)
BY DEF Compactions, Compacted

\* An ordinary extension has the compactions of the log.
LEMMA ExtendsKeeps ==
  ASSUME Types, NEW next, Extends(next)
  PROVE  /\ next \in Seq(Record)
         /\ \A id : Compacted(next, id) <=> Compacted(log, id)
         /\ \A i \in DOMAIN next : next[i].kind = "compaction" => i \in DOMAIN log /\ next[i] = log[i]
<1>1. DOMAIN log \subseteq DOMAIN next
  BY DEF Types, Extends
<1> QED BY <1>1 DEF Extends, Compacted

\* A publication adds its compaction and nothing else.
LEMMA AppendAdds ==
  ASSUME Types, NEW id \in Nat
  PROVE  LET record == [kind |-> "compaction", of |-> id, base |-> Len(log)]
             next == Append(log, record)
         IN  /\ next \in Seq(Record)
             /\ \A x : Compacted(next, x) <=> Compacted(log, x) \/ x = id
             /\ \A i \in DOMAIN next : \/ i \in DOMAIN log /\ next[i] = log[i]
                                       \/ i = Len(log) + 1 /\ next[i] = record
<1> DEFINE record == [kind |-> "compaction", of |-> id, base |-> Len(log)]
           next == Append(log, record)
<1>1. record \in Record
  BY DEF Types, Record
<1>2. /\ next \in Seq(Record) /\ Len(next) = Len(log) + 1
      /\ DOMAIN next = 1 .. Len(log) + 1 /\ DOMAIN log = 1 .. Len(log) /\ Len(log) \in Nat
      /\ \A i \in 1 .. Len(log) : next[i] = log[i]
      /\ next[Len(log) + 1] = record
  BY <1>1 DEF Types
<1>3. \A i \in DOMAIN next : \/ i \in DOMAIN log /\ next[i] = log[i]
                             \/ i = Len(log) + 1 /\ next[i] = record
  BY <1>2
<1>4. \A x : Compacted(next, x) <=> Compacted(log, x) \/ x = id
  <2> HIDE DEF next
  <2> TAKE x
  <2>1. Compacted(next, x) => Compacted(log, x) \/ x = id
    BY <1>3 DEF Compacted
  <2>2. Compacted(log, x) => Compacted(next, x)
    BY <1>2 DEF Compacted
  <2>3. Compacted(next, id)
    BY <1>2 DEF Compacted
  <2> QED BY <2>1, <2>2, <2>3
<1> QED BY <1>2, <1>3, <1>4

\* Identities stay drawn when more are drawn.
LEMMA DrawnGrows ==
  ASSUME Types, Drawn, NEW next \in Nat, next >= last
  PROVE  /\ fence.id <= next
         /\ \A i \in DOMAIN log : log[i].kind = "compaction" => log[i].of <= next
         /\ \A o \in told : o.id <= next
<1>1. \A i \in DOMAIN log : log[i].of \in Nat
  <2>1. \A i \in DOMAIN log : log[i] \in Record
    BY DEF Types
  <2>2. \A r \in Record : r.of \in Nat
    BY DEF Record
  <2> QED BY <2>1, <2>2
<1>2. \A o \in told : o.id \in Nat
  BY DEF Types, Outcome
<1>3. \A i \in DOMAIN log : log[i].kind = "compaction" => log[i].of <= next
  BY <1>1 DEF Types, Drawn
<1>4. \A o \in told : o.id <= next
  BY <1>2 DEF Types, Drawn
<1>5. fence.id <= next
  BY DEF Types, Drawn
<1> QED BY <1>3, <1>4, <1>5

\* Every action preserves the inductive invariant.
LEMMA IndStep ==
  ASSUME AppliedReason \in Reasons, Ind, [Next]_vars
  PROVE  Ind'
<1> USE DEF Ind
<1>1. CASE UNCHANGED vars
  BY <1>1 DEF vars, Types, Drawn, Told, CheckpointsCoverTheirBase, Compacted, Settled, Verdict
<1>2. CASE Create
  BY <1>2 DEF Create, Types, Drawn, Told, CheckpointsCoverTheirBase, Compacted, Settled, Verdict
<1>3. CASE Publish
  <2>1. /\ log' \in Seq(Record)
        /\ \A id : Compacted(log', id) <=> Compacted(log, id)
        /\ \A i \in DOMAIN log' : log'[i].kind = "compaction" => i \in DOMAIN log /\ log'[i] = log[i]
    BY <1>3, ExtendsKeeps DEF Publish
  <2>2. last' \in Nat /\ last' >= last
    BY <1>3 DEF Publish, Types
  <2>3. Types'
    BY <1>3, <2>1, <2>2 DEF Publish, Types
  <2>4. Drawn'
    BY <1>3, <2>1, <2>2, DrawnGrows DEF Publish, Drawn
  <2>5. Told'
    BY <1>3, <2>1 DEF Publish, Told, Open, Settled
  <2>6. CheckpointsCoverTheirBase'
    BY <2>1 DEF CheckpointsCoverTheirBase
  <2> QED BY <2>3, <2>4, <2>5, <2>6
<1>4. CASE Raise
  <2>1. /\ log' \in Seq(Record)
        /\ \A id : Compacted(log', id) <=> Compacted(log, id)
        /\ \A i \in DOMAIN log' : log'[i].kind = "compaction" => i \in DOMAIN log /\ log'[i] = log[i]
    BY <1>4, ExtendsKeeps DEF Raise
  <2>2. last' \in Nat /\ last' = last + 1 /\ fence'.id = last' /\ fence'.at = "IntentPending"
    BY <1>4 DEF Raise, Types, Raised
  <2>3. Types'
    BY <1>4, <2>1, <2>2 DEF Raise, Raised, Types
  <2>4. Drawn'
    <3>1. last' >= last /\ fence'.id <= last' /\ told' = told
      BY <1>4, <2>2 DEF Raise, Types
    <3> QED BY <2>1, <2>2, <3>1, DrawnGrows DEF Drawn
  <2>5. ~Compacted(log, last')
    BY <2>2 DEF Types, Drawn, Record, Compacted
  <2>6. \A o \in told : o.id # last'
    BY <2>2 DEF Types, Drawn, Outcome
  <2>7. Told'
    BY <1>4, <2>1, <2>2, <2>5, <2>6 DEF Raise, Told, Settled
  <2>8. CheckpointsCoverTheirBase'
    BY <2>1 DEF CheckpointsCoverTheirBase
  <2> QED BY <2>3, <2>4, <2>7, <2>8
<1>5. CASE Withdraw
  BY <1>5 DEF Withdraw, Open, Types, Drawn, Told, CheckpointsCoverTheirBase, Compacted, Settled, Verdict
<1>6. CASE Refuse
  <2>1. PICK reason \in Reasons : fence' = Refused(fence.id, reason)
    BY <1>6 DEF Refuse
  <2> QED BY <1>6, <2>1 DEF Refuse, Refused, Types, Drawn, Told, CheckpointsCoverTheirBase, Compacted, Settled, Verdict
<1>7. CASE Apply
  <2> DEFINE record == [kind |-> "compaction", of |-> fence.id, base |-> Len(log)]
  <2>1. fence.id \in Nat /\ log' = Append(log, record) /\ Len(log) \in Nat
    BY <1>7 DEF Apply, Types
  <2>2. /\ log' \in Seq(Record)
        /\ \A x : Compacted(log', x) <=> Compacted(log, x) \/ x = fence.id
        /\ \A i \in DOMAIN log' : \/ i \in DOMAIN log /\ log'[i] = log[i]
                                  \/ i = Len(log) + 1 /\ log'[i] = record
    BY <2>1, AppendAdds
  <2>3. /\ fence' = Applied(fence.id) /\ UNCHANGED <<at, last, told>>
        /\ fence.at = "IntentPending"
    BY <1>7 DEF Apply
  <2>4. Types'
    BY <2>1, <2>2, <2>3 DEF Types, Applied
  <2>5. Drawn'
    BY <2>1, <2>2, <2>3 DEF Types, Drawn, Applied
  <2>6. Told'
    BY <2>2, <2>3 DEF Told, Applied, Settled
  <2>7. CheckpointsCoverTheirBase'
    BY <2>1, <2>2 DEF CheckpointsCoverTheirBase
  <2> QED BY <2>4, <2>5, <2>6, <2>7
<1>8. CASE Tell
  <2>1. Verdict \in Outcome /\ Verdict.id = fence.id /\ UNCHANGED <<at, log, fence, last>>
        /\ told' = told \cup {Verdict} /\ Settled
    BY <1>8 DEF Tell, Types, Verdict, Outcome
  <2>2. Types' /\ Drawn' /\ CheckpointsCoverTheirBase'
    BY <2>1 DEF Types, Drawn, CheckpointsCoverTheirBase
  <2>3. Verdict.verdict = "Applied" <=> Compacted(log, fence.id)
    BY <2>1 DEF Settled, Told, Verdict
  <2>4. Verdict' = Verdict
    BY <2>1 DEF Verdict
  <2>5. Told'
    BY <2>1, <2>3, <2>4 DEF Told, Settled
  <2> QED BY <2>2, <2>5
<1>9. CASE Lift
  BY <1>9 DEF Lift, Open, Types, Drawn, Told, CheckpointsCoverTheirBase, Compacted, Settled, Verdict
<1>10. CASE Delete
  BY <1>10 DEF Delete, Types, Drawn, Told, CheckpointsCoverTheirBase, Compacted, Settled, Verdict
<1> QED BY <1>1, <1>2, <1>3, <1>4, <1>5, <1>6, <1>7, <1>8, <1>9, <1>10 DEF Next

LEMMA Inductive ==
  ASSUME AppliedReason \in Reasons
  PROVE  Spec => []Ind
<1>1. Init => Ind
  BY DEF Init, Ind, Open, Types, Drawn, Told, CheckpointsCoverTheirBase, Settled, Compacted
<1>2. Ind /\ [Next]_vars => Ind'
  BY IndStep
<1> QED BY <1>1, <1>2, PTL DEF Spec

\* What the observer was told of a compaction is true, and there is one
\* verdict for it, however often it was told.
THEOREM OutcomesAreTrue ==
  ASSUME AppliedReason \in Reasons
  PROVE  Spec => []ToldIsTrue
<1>1. Ind => ToldIsTrue
  BY CompactionsDef DEF Ind, Told, ToldIsTrue
<1> QED BY <1>1, Inductive, PTL

\* No record stands between a checkpoint and what it summarises.
THEOREM CheckpointsCover ==
  ASSUME AppliedReason \in Reasons
  PROVE  Spec => []CheckpointsCoverTheirBase
<1>1. Ind => CheckpointsCoverTheirBase
  BY DEF Ind
<1> QED BY <1>1, Inductive, PTL

=============================================================================
