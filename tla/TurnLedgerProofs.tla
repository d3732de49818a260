-------------------------- MODULE TurnLedgerProofs --------------------------
(***************************************************************************)
(* The ledger is written from copies that are still current, so that an    *)
(* entry never gets lost; and a Turn that is settled is flushed, not on    *)
(* its way to the conversation any more, and known to the ledger.  A Turn  *)
(* with the receipt of a recovery has not come back.                       *)
(***************************************************************************)
EXTENDS TurnLedger, SequenceTheorems, FiniteSetTheorems, TLAPS

-----------------------------------------------------------------------------
(* The inductive invariant *)

\* The live entries before an entry have smaller indices.
Numbered(l) ==
  \A i, j \in DOMAIN l : j < i /\ l[j].state # "Discarded" => l[j].index < l[i].index

\* The copies of the ledger that are held across an await are the ledger; the
\* prompt task's Turn is its last entry and Pending; and bindings are of listed Turns.
CopiesAreCurrent ==
  /\ task # None =>
       /\ task.copy = ledger /\ rewind = None
       /\ Len(ledger) \in DOMAIN ledger
       /\ ledger[Len(ledger)].turn = task.turn /\ ledger[Len(ledger)].state = "Pending"
       /\ task.turn \notin bindings
  /\ rewind # None => rewind.copy = ledger
  /\ \A t \in bindings : Listed(t, ledger)

\* A recovery rewind targets the Turn it recovers, after which nothing is live.
TargetsTail(intent) ==
  intent.recovery # None =>
    /\ intent.recovery = intent.turn
    /\ \E i \in DOMAIN ledger :
         /\ ledger[i].turn = intent.turn /\ ledger[i].index = intent.target
         /\ \A j \in i + 1 .. Len(ledger) : ledger[j].state = "Discarded"

RecoveriesTarget ==
  /\ \A op \in Operations : rewinds[op].state = "Intent" =>
       rewinds[op].intent.recovery \in {None, rewinds[op].intent.turn}
  /\ rewind # None => TargetsTail(rewind.intent)

LedgerInv ==
  /\ TypeOK
  /\ ValidLedger(ledger) /\ Numbered(ledger)
  /\ CopiesAreCurrent
  /\ RecoveriesTarget

\* The Session actor has still to record the Turn.
OnItsWay(t) == running = t \/ In(t, inbox)

SentOnce(q) == \A i, j \in DOMAIN q : q[i] = q[j] /\ q[i] # Stop => i = j

\* A prompt is on its way once, and not any more when it was answered.
QueueInv ==
  /\ SentOnce(inbox)
  /\ running # None => ~In(running, inbox)
  /\ task # None /\ task.phase = "answered" => ~OnItsWay(task.turn)

Settled(t) ==
  \/ t \in bindings
  \/ \E i \in DOMAIN ledger : ledger[i].turn = t /\ ledger[i].state = "Completed"

\* Where the conversation has the Turn, its earlier states have it too.
Flushed(t, h) == \A i, j \in DOMAIN h : i < j /\ In(t, h[j]) => In(t, h[i])

SettledInv == \A t \in Turns : Settled(t) => ~OnItsWay(t) /\ Flushed(t, history)

ConversationInv == AbsentNeverDispatched /\ QueueInv /\ SettledInv

-----------------------------------------------------------------------------
(* Lemmas on ledgers *)

\* The live entries can be counted.
LEMMA ActiveFinite ==
  ASSUME NEW l \in Seq(Entry)
  PROVE  IsFiniteSet(Active(l)) /\ Cardinality(Active(l)) \in Nat
  <1>1. DOMAIN l = 1 .. Len(l) /\ Len(l) \in Nat
    BY LenProperties
  <1>2. IsFiniteSet(1 .. Len(l))
    BY <1>1, FS_Interval
  <1>3. Active(l) \in SUBSET (1 .. Len(l))
    BY <1>1 DEF Active
  <1>4. IsFiniteSet(Active(l))
    BY <1>2, <1>3, FS_Subset
  <1> QED  BY <1>4, FS_CardinalityType

\* In a valid ledger a live entry has a smaller index than a new one would get.
LEMMA IndexBelow ==
  ASSUME NEW l \in Seq(Entry), ValidLedger(l), NEW j \in Active(l)
  PROVE  l[j].index < Cardinality(Active(l))
  <1> DEFINE Before == {k \in Active(l) : k < j}
  <1>1. IsFiniteSet(Active(l)) /\ Cardinality(Active(l)) \in Nat
    BY ActiveFinite
  <1>2. Before \in SUBSET Active(l)
    OBVIOUS
  <1>3. /\ IsFiniteSet(Before)
        /\ Cardinality(Before) <= Cardinality(Active(l))
        /\ Cardinality(Active(l)) = Cardinality(Before) => Active(l) = Before
    BY <1>1, <1>2, FS_Subset
  <1>4. Cardinality(Before) \in Nat
    BY <1>3, FS_CardinalityType
  <1>5. DOMAIN l = 1 .. Len(l) /\ Len(l) \in Nat
    BY LenProperties
  <1>6. j \in Nat /\ j \notin Before
    BY <1>5 DEF Active
  <1>7. Cardinality(Before) < Cardinality(Active(l))
    BY <1>1, <1>3, <1>4, <1>6
  <1> QED  BY <1>7 DEF ValidLedger

\* A new entry is numbered after the live ones.
LEMMA AppendEntry ==
  ASSUME NEW l \in Seq(Entry), ValidLedger(l), Numbered(l), NEW t \in Turns,
         NEW s \in {"Pending", "Completed", "Discarded"}
  PROVE  /\ NewEntry(t, l, s) \in Entry
         /\ Append(l, NewEntry(t, l, s)) \in Seq(Entry)
         /\ Numbered(Append(l, NewEntry(t, l, s)))
  <1> DEFINE e == NewEntry(t, l, s)
             m == Append(l, e)
  <1>1. e \in Entry
    BY ActiveFinite DEF NewEntry, Entry
  <1>2. /\ m \in Seq(Entry) /\ Len(m) = Len(l) + 1
        /\ \A i \in 1 .. Len(l) : m[i] = l[i]
        /\ m[Len(l) + 1] = e
    BY <1>1, AppendProperties
  <1>3. DOMAIN l = 1 .. Len(l) /\ DOMAIN m = 1 .. Len(l) + 1 /\ Len(l) \in Nat
    BY <1>2, LenProperties
  <1>4. ASSUME NEW i \in DOMAIN m, NEW j \in DOMAIN m, j < i, m[j].state # "Discarded"
        PROVE  m[j].index < m[i].index
    <2>1. j \in DOMAIN l /\ m[j] = l[j]
      BY <1>2, <1>3, <1>4
    <2>2. CASE i = Len(l) + 1
      <3>1. j \in Active(l)
        BY <2>1, <1>4 DEF Active
      <3>2. m[i].index = Cardinality(Active(l))
        BY <2>2, <1>2 DEF NewEntry
      <3> QED  BY <2>1, <3>1, <3>2, IndexBelow
    <2>3. CASE i # Len(l) + 1
      <3>1. i \in DOMAIN l /\ m[i] = l[i]
        BY <2>3, <1>2, <1>3
      <3> QED  BY <2>1, <3>1, <1>4 DEF Numbered
    <2> QED  BY <2>2, <2>3
  <1> HIDE DEF m
  <1>5. Numbered(m)
    BY <1>4 DEF Numbered
  <1> QED  BY <1>1, <1>2, <1>5 DEF m

\* What a write that adds no entry may change.
Rewritten(l, m) ==
  /\ DOMAIN m = DOMAIN l /\ Len(m) = Len(l)
  /\ \A i \in DOMAIN l :
       /\ m[i].turn = l[i].turn /\ m[i].index = l[i].index
       /\ l[i].state = "Discarded" => m[i].state = "Discarded"
       /\ m[i].state = "Pending" => l[i].state = "Pending"

LEMMA RewrittenNumbered ==
  ASSUME NEW l, NEW m, Numbered(l), Rewritten(l, m)
  PROVE  Numbered(m)
  BY DEF Numbered, Rewritten

\* One entry is settled or discarded.
LEMMA RewriteEntry ==
  ASSUME NEW l \in Seq(Entry), NEW i \in DOMAIN l, NEW s \in {"Completed", "Discarded"},
         l[i].state = "Discarded" => s = "Discarded"
  PROVE  /\ [l EXCEPT ![i].state = s] \in Seq(Entry)
         /\ Rewritten(l, [l EXCEPT ![i].state = s])
         /\ \A j \in DOMAIN l : j # i => [l EXCEPT ![i].state = s][j] = l[j]
         /\ [l EXCEPT ![i].state = s][i].state = s
  <1> DEFINE e == [l[i] EXCEPT !.state = s]
             m == [l EXCEPT ![i] = e]
  <1>1. DOMAIN l = 1 .. Len(l) /\ Len(l) \in Nat
    BY LenProperties
  <1>2. l[i] \in Entry
    BY <1>1, ElementOfSeq
  <1>3. /\ e \in Entry /\ e.turn = l[i].turn /\ e.index = l[i].index /\ e.state = s
    BY <1>2 DEF Entry
  <1>4. /\ m \in Seq(Entry) /\ Len(m) = Len(l)
        /\ \A j \in 1 .. Len(l) : m[j] = IF j = i THEN e ELSE l[j]
    BY <1>1, <1>3, ExceptSeq
  <1>5. DOMAIN m = DOMAIN l
    OBVIOUS
  <1>6. m = [l EXCEPT ![i].state = s]
    OBVIOUS
  <1> HIDE DEF e, m
  <1>7. Rewritten(l, m)
    BY <1>1, <1>3, <1>4, <1>5 DEF Rewritten
  <1> QED  BY <1>1, <1>3, <1>4, <1>6, <1>7

\* A rewind discards entries and changes nothing else.
LEMMA RewriteDiscard ==
  ASSUME NEW l \in Seq(Entry), NEW target \in Nat
  PROVE  /\ DiscardFrom(l, target) \in Seq(Entry)
         /\ Rewritten(l, DiscardFrom(l, target))
  <1> DEFINE e(i) == IF l[i].index >= target THEN [l[i] EXCEPT !.state = "Discarded"] ELSE l[i]
             m == [i \in 1 .. Len(l) |-> e(i)]
  <1>1. DOMAIN l = 1 .. Len(l) /\ Len(l) \in Nat
    BY LenProperties
  <1>2. ASSUME NEW i \in 1 .. Len(l)
        PROVE  /\ e(i) \in Entry /\ e(i).turn = l[i].turn /\ e(i).index = l[i].index
               /\ l[i].state = "Discarded" => e(i).state = "Discarded"
               /\ e(i).state = "Pending" => l[i].state = "Pending"
    <2>1. l[i] \in Entry
      BY ElementOfSeq
    <2> QED  BY <2>1 DEF Entry
  <1> HIDE DEF e
  <1>3. m \in Seq(Entry) /\ Len(m) = Len(l)
    BY <1>1, <1>2
  <1>4. Rewritten(l, m)
    BY <1>1, <1>2, <1>3 DEF Rewritten
  <1>5. m = DiscardFrom(l, target)
    BY <1>1 DEF DiscardFrom, e
  <1> QED  BY <1>3, <1>4, <1>5

\* The live entries that precede a live entry stay live: the numbering holds.
LEMMA RewrittenValid ==
  ASSUME NEW l, NEW m, ValidLedger(l), Rewritten(l, m),
         \A i, j \in DOMAIN l :
           j < i /\ m[i].state # "Discarded" /\ l[j].state # "Discarded" => m[j].state # "Discarded"
  PROVE  ValidLedger(m)
  <1>1. \A i, j \in DOMAIN m : m[i].turn = m[j].turn => i = j
    BY DEF ValidLedger, Rewritten
  <1>2. ASSUME NEW i \in Active(m)
        PROVE  /\ m[i].index = Cardinality({j \in Active(m) : j < i})
               /\ m[i].state = "Pending" => \A j \in Active(m) : j <= i
    <2>1. Active(m) \subseteq Active(l)
      BY DEF Active, Rewritten
    <2>2. {j \in Active(m) : j < i} = {j \in Active(l) : j < i}
      BY <1>2, <2>1 DEF Active, Rewritten
    <2>3. m[i].index = l[i].index /\ (m[i].state = "Pending" => l[i].state = "Pending")
      BY <1>2 DEF Active, Rewritten
    <2> QED  BY <1>2, <2>1, <2>2, <2>3 DEF ValidLedger
  <1> QED  BY <1>1, <1>2 DEF ValidLedger

LEMMA SettleValid ==
  ASSUME NEW l \in Seq(Entry), ValidLedger(l), Len(l) \in DOMAIN l,
         l[Len(l)].state = "Pending"
  PROVE  ValidLedger(settle_latest(l))
  <1> DEFINE m == [l EXCEPT ![Len(l)].state = "Completed"]
  <1>1. /\ Rewritten(l, m) /\ \A j \in DOMAIN l : j # Len(l) => m[j] = l[j]
        /\ m[Len(l)].state = "Completed"
    BY RewriteEntry
  <1> HIDE DEF m
  <1>2. \A j \in DOMAIN l : l[j].state # "Discarded" => m[j].state # "Discarded"
    BY <1>1
  <1>3. ValidLedger(m)
    BY <1>1, <1>2, RewrittenValid
  <1> QED  BY <1>3 DEF settle_latest, m

LEMMA DiscardValid ==
  ASSUME NEW l \in Seq(Entry), ValidLedger(l), Numbered(l), NEW target \in Nat
  PROVE  ValidLedger(DiscardFrom(l, target))
  <1> DEFINE m == DiscardFrom(l, target)
  <1>1. Rewritten(l, m)
    BY RewriteDiscard
  <1>2. ASSUME NEW i \in DOMAIN l
        PROVE  l[i] \in Entry /\ l[i].index \in Nat
    <2>1. l[i] \in Entry
      BY LenProperties, ElementOfSeq
    <2> QED  BY <2>1 DEF Entry
  <1>3. \A i \in DOMAIN l : m[i] = IF l[i].index >= target
                                   THEN [l[i] EXCEPT !.state = "Discarded"] ELSE l[i]
    BY DEF DiscardFrom
  <1>4. ASSUME NEW i \in DOMAIN l, m[i].state # "Discarded"
        PROVE  l[i].index < target
    <2>1. l[i] \in Entry /\ l[i].index \in Nat
      BY <1>2
    <2>2. [l[i] EXCEPT !.state = "Discarded"].state = "Discarded"
      BY <2>1 DEF Entry
    <2>3. ~(l[i].index >= target)
      BY <1>3, <1>4, <2>2
    <2> QED  BY <2>1, <2>3
  <1>5. \A i, j \in DOMAIN l :
           j < i /\ m[i].state # "Discarded" /\ l[j].state # "Discarded" => m[j].state # "Discarded"
    <2> SUFFICES ASSUME NEW i \in DOMAIN l, NEW j \in DOMAIN l, j < i,
                        m[i].state # "Discarded", l[j].state # "Discarded"
                 PROVE  m[j].state # "Discarded"
      OBVIOUS
    <2>1. l[j].index < l[i].index /\ l[i].index < target
      BY <1>4 DEF Numbered
    <2>2. l[j].index \in Nat /\ l[i].index \in Nat
      BY <1>2
    <2>3. ~(l[j].index >= target)
      BY <2>1, <2>2
    <2> QED  BY <1>3, <2>3
  <1> QED  BY <1>1, <1>5, RewrittenValid

-----------------------------------------------------------------------------
(* What a step does to the ledger *)

\* A write of the ledger appends an entry while no copy is held, or rewrites.
LedgerStep ==
  \/ UNCHANGED ledger
  \/ /\ Idle /\ ValidLedger(ledger')
     /\ \E t \in Turns, s \in {"Pending", "Discarded"} :
          ~Listed(t, ledger) /\ ledger' = Append(ledger, NewEntry(t, ledger, s))
  \/ ledger' \in Seq(Entry) /\ ValidLedger(ledger') /\ Rewritten(ledger, ledger')

\* Where an entry is listed, EntryOf finds it.
LEMMA EntryOfListed ==
  ASSUME NEW l, NEW t, Listed(t, l)
  PROVE  EntryOf(t, l) \in DOMAIN l /\ l[EntryOf(t, l)].turn = t
  BY DEF Listed, EntryOf

LEMMA NextLedgerStep ==
  ASSUME LedgerInv, Next
  PROVE  LedgerStep
  <1> USE DEF LedgerInv
  <1>0. ledger \in Seq(Entry)
    BY DEF TypeOK
  <1>1. ASSUME NEW t \in Turns, NEW b \in BOOLEAN, NEW c \in Commits, prompt(t, b, c)
        PROVE  LedgerStep
    BY <1>1 DEF prompt, Written, LedgerStep
  <1>2. ASSUME NEW r \in BOOLEAN, NEW b \in Commits, NEW c \in Commits, settle(r, b, c)
        PROVE  LedgerStep
    <2>1. /\ task.copy = ledger /\ Len(ledger) \in DOMAIN ledger
          /\ ledger[Len(ledger)].state = "Pending"
      BY <1>2 DEF settle, CopiesAreCurrent
    <2>2. settle_latest(ledger) \in Seq(Entry) /\ Rewritten(ledger, settle_latest(ledger))
      BY <1>0, <2>1, RewriteEntry DEF settle_latest
    <2> QED  BY <1>2, <2>1, <2>2 DEF settle, Written, LedgerStep
  <1>3. ASSUME NEW t \in Turns, NEW c \in Commits, turn_binding_status(t, c)
        PROVE  LedgerStep
    <2> DEFINE new == [ledger EXCEPT ![EntryOf(t, ledger)].state = "Completed"]
    <2>1. EntryOf(t, ledger) \in DOMAIN ledger /\ ledger[EntryOf(t, ledger)].state = "Pending"
      BY <1>3, EntryOfListed DEF turn_binding_status
    <2>2. new \in Seq(Entry) /\ Rewritten(ledger, new)
      BY <1>0, <2>1, RewriteEntry
    <2>3. ValidLedger(new) /\ ledger' = Written(c, new, ledger)
      BY <1>3 DEF turn_binding_status
    <2> HIDE DEF new
    <2> QED  BY <2>2, <2>3 DEF Written, LedgerStep
  <1>4. ASSUME NEW t \in Turns, NEW c \in Commits, mark_turn_discarded(t, c)
        PROVE  LedgerStep
    <2>1. CASE Listed(t, ledger)
      <3> DEFINE new == [ledger EXCEPT ![EntryOf(t, ledger)].state = "Discarded"]
      <3>1. EntryOf(t, ledger) \in DOMAIN ledger
        BY <2>1, EntryOfListed
      <3>2. new \in Seq(Entry) /\ Rewritten(ledger, new)
        BY <1>0, <3>1, RewriteEntry
      <3>3. ValidLedger(new) /\ ledger' = Written(c, new, ledger)
        BY <1>4, <2>1 DEF mark_turn_discarded
      <3> HIDE DEF new
      <3> QED  BY <3>2, <3>3 DEF Written, LedgerStep
    <2>2. CASE ~Listed(t, ledger)
      BY <1>4, <2>2 DEF mark_turn_discarded, Written, LedgerStep
    <2> QED  BY <2>1, <2>2
  <1>5. ASSUME NEW s \in Commits, NEW r \in Commits, RewindSettles(s, r)
        PROVE  LedgerStep
    <2> DEFINE new == DiscardFrom(rewind.copy, rewind.intent.target)
    <2>1. rewind.copy = ledger /\ rewind.intent.target \in Nat
      BY <1>5 DEF RewindSettles, CopiesAreCurrent, TypeOK, Rewind, Intent
    <2>2. new \in Seq(Entry) /\ Rewritten(ledger, new)
      BY <1>0, <2>1, RewriteDiscard
    <2>3. ValidLedger(new) /\ ledger' = Written(s, new, ledger)
      BY <1>5 DEF RewindSettles
    <2> HIDE DEF new
    <2> QED  BY <2>2, <2>3 DEF Written, LedgerStep
  <1>6. ASSUME NEW op \in Operations, NEW target \in Indices, NEW r \in Turns \cup {None},
               NEW c \in Commits, rewind_conversation(op, target, r, c)
        PROVE  LedgerStep
    BY <1>6 DEF rewind_conversation, LedgerStep
  <1>7. CASE ActorStarts \/ ActorRecords \/ ActorEnds \/ ActorFails \/ cancel \/ ActorCancels
             \/ ForceStop \/ SyncFails \/ RewindNative \/ RewindRefused \/ RewindFails
             \/ Persist \/ Crash
    BY <1>7 DEF ActorStarts, ActorRecords, ActorEnds, ActorFails, cancel, ActorCancels,
                ForceStop, SyncFails, RewindNative, RewindRefused, RewindFails, Persist,
                Crash, evidence, LedgerStep
  <1> QED  BY <1>1, <1>2, <1>3, <1>4, <1>5, <1>6, <1>7 DEF Next

-----------------------------------------------------------------------------
(* Types *)

\* The ways in which the native conversation develops keep its type.
LEMMA HistoryTypes ==
  ASSUME NEW h \in Seq(Seq(Turns)), h # <<>>, NEW c \in Seq(Turns)
  PROVE  /\ h[Len(h)] \in Seq(Turns) /\ Head(h) \in Seq(Turns)
         /\ Append(h, c) \in Seq(Seq(Turns)) /\ Append(h, c) # <<>>
         /\ <<c>> \in Seq(Seq(Turns)) /\ <<c>> # <<>>
         /\ Tail(h) \in Seq(Seq(Turns)) /\ (Len(h) > 1 => Tail(h) # <<>>)
         /\ \A n \in Nat : n <= Len(c) => SubSeq(c, 1, n) \in Seq(Turns)
  <1>1. Len(h) \in Nat \ {0}
    BY EmptySeq
  <1>2. h[Len(h)] \in Seq(Turns)
    BY <1>1, ElementOfSeq
  <1>3. Head(h) \in Seq(Turns) /\ Tail(h) \in Seq(Seq(Turns)) /\ Len(Tail(h)) = Len(h) - 1
    BY HeadTailProperties
  <1>4. Append(h, c) \in Seq(Seq(Turns)) /\ Append(h, c) # <<>>
    BY AppendProperties
  <1>5. <<c>> \in Seq(Seq(Turns)) /\ <<c>> # <<>>
    OBVIOUS
  <1>6. ASSUME Len(h) > 1
        PROVE  Tail(h) # <<>>
    <2> DEFINE rest == Tail(h)
    <2>1. rest \in Seq(Seq(Turns)) /\ Len(rest) = Len(h) - 1
      BY <1>3
    <2> HIDE DEF rest
    <2>2. rest # <<>>
      BY <1>1, <1>6, <2>1
    <2> QED  BY <2>2 DEF rest
  <1>7. ASSUME NEW n \in Nat, n <= Len(c)
        PROVE  SubSeq(c, 1, n) \in Seq(Turns)
    <2>1. \A i \in 1 .. n : c[i] \in Turns
      BY <1>7, LenProperties, ElementOfSeq
    <2>2. 1 \in Int /\ n \in Int
      OBVIOUS
    <2> QED  BY <2>1, <2>2, SubSeqProperties, Zenon
  <1> QED  BY <1>2, <1>3, <1>4, <1>5, <1>6, <1>7

EvidenceTypes ==
  /\ ledger \in Seq(Entry) /\ bindings \subseteq Turns
  /\ rewinds \in [Operations -> {NoIntent} \cup [state : {"Intent", "Receipt"}, intent : Intent]]
CommandTypes ==
  /\ task \in Task \cup {None} /\ cancelling \in BOOLEAN
  /\ rewind \in Rewind \cup {None}
ActorTypes ==
  /\ inbox \in Seq(Turns \cup {Stop}) /\ running \in Turns \cup {None}
  /\ history \in Seq(Seq(Turns)) /\ history # <<>>
HistoryVarTypes ==
  dispatched \subseteq Turns /\ marked \in BOOLEAN /\ faults \in 0 .. MaxFaults

LEMMA FaultTypes ==
  ASSUME TypeOK, NEW failed \in BOOLEAN, Fault(failed)
  PROVE  faults' \in 0 .. MaxFaults
  BY ConstantsAssumption DEF TypeOK, Fault

LEMMA LedgerTypes ==
  ASSUME LedgerInv, LedgerStep
  PROVE  ledger' \in Seq(Entry) /\ ValidLedger(ledger') /\ Numbered(ledger')
  <1> USE DEF LedgerInv, TypeOK
  <1>1. CASE UNCHANGED ledger
    BY <1>1
  <1>2. ASSUME ValidLedger(ledger'), NEW t \in Turns, NEW s \in {"Pending", "Discarded"},
               ledger' = Append(ledger, NewEntry(t, ledger, s))
        PROVE  ledger' \in Seq(Entry) /\ Numbered(ledger')
    BY <1>2, AppendEntry
  <1>3. CASE ledger' \in Seq(Entry) /\ ValidLedger(ledger') /\ Rewritten(ledger, ledger')
    BY <1>3, RewrittenNumbered
  <1> QED  BY <1>1, <1>2, <1>3 DEF LedgerStep

LEMMA TypeStep ==
  ASSUME LedgerInv, Next
  PROVE  TypeOK'
  <1> USE DEF LedgerInv
  <1>0. ledger' \in Seq(Entry)
    BY NextLedgerStep, LedgerTypes
  <1>t. /\ EvidenceTypes /\ CommandTypes /\ ActorTypes /\ HistoryVarTypes
    BY DEF TypeOK, EvidenceTypes, CommandTypes, ActorTypes, HistoryVarTypes
  <1>n. Native \in Seq(Turns) /\ Len(Native) \in Nat
    BY HistoryTypes, EmptySeq, LenProperties DEF TypeOK, Native
  <1>s. SUFFICES (EvidenceTypes /\ CommandTypes /\ ActorTypes /\ HistoryVarTypes)'
    BY DEF TypeOK, EvidenceTypes, CommandTypes, ActorTypes, HistoryVarTypes
  <1>1. ASSUME NEW t \in Turns, NEW b \in BOOLEAN, NEW c \in Commits, prompt(t, b, c)
        PROVE  (EvidenceTypes /\ CommandTypes /\ ActorTypes /\ HistoryVarTypes)'
    <2> DEFINE new == Append(ledger, NewEntry(t, ledger, "Pending"))
    <2>1. new \in Seq(Entry)
      BY AppendEntry DEF TypeOK
    <2>2. Append(inbox, t) \in Seq(Turns \cup {Stop})
      BY AppendProperties DEF TypeOK
    <2>3. faults' \in 0 .. MaxFaults
      BY <1>1, FaultTypes DEF prompt
    <2>4. \/ task' = [turn |-> t, bound |-> b, copy |-> new, phase |-> "awaiting"]
             /\ inbox' = Append(inbox, t) /\ dispatched' = dispatched \cup {t}
          \/ UNCHANGED <<task, inbox, dispatched>>
      BY <1>1 DEF prompt
    <2>5. UNCHANGED <<rewinds, bindings, cancelling, rewind, running, history, marked>>
      BY <1>1 DEF prompt
    <2> HIDE DEF new
    <2>6. [turn |-> t, bound |-> b, copy |-> new, phase |-> "awaiting"] \in Task
      BY <2>1, Zenon DEF Task
    <2> QED  BY <1>0, <1>t, <2>2, <2>3, <2>4, <2>5, <2>6
             DEF EvidenceTypes, CommandTypes, ActorTypes, HistoryVarTypes
  <1>2. ASSUME NEW r \in BOOLEAN, NEW b \in Commits, NEW c \in Commits, settle(r, b, c)
        PROVE  (EvidenceTypes /\ CommandTypes /\ ActorTypes /\ HistoryVarTypes)'
    <2>1. history' \in Seq(Seq(Turns)) /\ history' # <<>>
      BY <1>2, <1>n, HistoryTypes DEF settle, TypeOK
    <2>2. task.turn \in Turns
      BY <1>2 DEF settle, TypeOK, Task
    <2>3. faults' \in 0 .. MaxFaults
      BY <1>2, FaultTypes DEF settle
    <2> QED  BY <1>0, <1>t, <1>2, <2>1, <2>2, <2>3
             DEF settle, Written, EndTask, EvidenceTypes, CommandTypes, ActorTypes, HistoryVarTypes
  <1>3. ASSUME NEW t \in Turns, NEW c \in Commits, turn_binding_status(t, c)
        PROVE  (EvidenceTypes /\ CommandTypes /\ ActorTypes /\ HistoryVarTypes)'
    BY <1>0, <1>t, <1>3, FaultTypes
       DEF turn_binding_status, commands, actor, EvidenceTypes, CommandTypes, ActorTypes,
           HistoryVarTypes
  <1>4. ASSUME NEW t \in Turns, NEW c \in Commits, mark_turn_discarded(t, c)
        PROVE  (EvidenceTypes /\ CommandTypes /\ ActorTypes /\ HistoryVarTypes)'
    BY <1>0, <1>t, <1>4, FaultTypes
       DEF mark_turn_discarded, commands, actor, EvidenceTypes, CommandTypes, ActorTypes,
           HistoryVarTypes
  <1>5. ASSUME NEW s \in Commits, NEW r \in Commits, RewindSettles(s, r)
        PROVE  (EvidenceTypes /\ CommandTypes /\ ActorTypes /\ HistoryVarTypes)'
    <2>1. history' \in Seq(Seq(Turns)) /\ history' # <<>>
      BY <1>5, <1>n, HistoryTypes DEF RewindSettles, TypeOK
    <2>2. rewind.intent \in Intent /\ rewind.op \in Operations
      BY <1>5 DEF RewindSettles, TypeOK, Rewind
    <2>3. faults' \in 0 .. MaxFaults
      BY <1>5, FaultTypes DEF RewindSettles
    <2>4. rewinds' \in [Operations -> {NoIntent} \cup [state : {"Intent", "Receipt"}, intent : Intent]]
      BY <1>5, <2>2 DEF RewindSettles, Written, TypeOK
    <2> QED  BY <1>0, <1>t, <1>5, <2>1, <2>3, <2>4
             DEF RewindSettles, EvidenceTypes, CommandTypes, ActorTypes, HistoryVarTypes
  <1>6. ASSUME NEW op \in Operations, NEW target \in Indices, NEW r \in Turns \cup {None},
               NEW c \in Commits, rewind_conversation(op, target, r, c)
        PROVE  (EvidenceTypes /\ CommandTypes /\ ActorTypes /\ HistoryVarTypes)'
    <2>1. \A i \in DOMAIN ledger : ledger[i] \in Entry
      BY LenProperties, ElementOfSeq DEF TypeOK
    <2>2. target \in Nat
      BY <2>1 DEF Indices, Entry
    <2>3. PICK i \in DOMAIN ledger :
            LET intent == [target |-> target, turn |-> ledger[i].turn, recovery |-> r] IN
            /\ rewinds' = [rewinds EXCEPT ![op] =
                             Written(c, [state |-> "Intent", intent |-> intent], rewinds[op])]
            /\ rewind' = IF c = "Committed"
                         THEN [op |-> op, intent |-> intent, copy |-> ledger, phase |-> "native"]
                         ELSE None
      BY <1>6 DEF rewind_conversation
    <2>4. [target |-> target, turn |-> ledger[i].turn, recovery |-> r] \in Intent
      BY <2>1, <2>2 DEF Entry, Intent
    <2>5. rewinds' \in [Operations -> {NoIntent} \cup [state : {"Intent", "Receipt"}, intent : Intent]]
      BY <2>3, <2>4 DEF Written, TypeOK
    <2>6. rewind' \in Rewind \cup {None}
      BY <2>3, <2>4 DEF Rewind, TypeOK
    <2>7. faults' \in 0 .. MaxFaults
      BY <1>6, FaultTypes DEF rewind_conversation
    <2> QED  BY <1>0, <1>t, <1>6, <2>5, <2>6, <2>7
             DEF rewind_conversation, actor, EvidenceTypes, CommandTypes, ActorTypes,
                 HistoryVarTypes
  <1>7. CASE ActorStarts
    <2>1. Head(inbox) \in Turns \cup {Stop} /\ Tail(inbox) \in Seq(Turns \cup {Stop})
      BY <1>7, HeadTailProperties DEF ActorStarts, TypeOK
    <2> QED  BY <1>t, <1>7, <2>1 DEF ActorStarts, evidence, commands, EvidenceTypes,
                CommandTypes, ActorTypes, HistoryVarTypes
  <1>8. CASE ActorRecords
    <2>1. Append(Native, running) \in Seq(Turns)
      BY <1>8, <1>n, AppendProperties DEF ActorRecords, TypeOK
    <2>2. history' \in Seq(Seq(Turns)) /\ history' # <<>>
      BY <1>8, <2>1, HistoryTypes DEF ActorRecords, TypeOK
    <2> QED  BY <1>t, <1>8, <2>2 DEF ActorRecords, evidence, commands, EvidenceTypes,
                CommandTypes, ActorTypes, HistoryVarTypes
  <1>9. CASE ActorEnds
    <2>1. task' \in Task \cup {None}
      BY <1>9 DEF ActorEnds, Answered, TypeOK, Task
    <2> QED  BY <1>t, <1>9, <2>1 DEF ActorEnds, evidence, EvidenceTypes,
                CommandTypes, ActorTypes, HistoryVarTypes
  <1>10. CASE ActorFails
    BY <1>t, <1>10, FaultTypes DEF ActorFails, EndTask, evidence, EvidenceTypes,
       CommandTypes, ActorTypes, HistoryVarTypes
  <1>11. CASE cancel
    <2>1. inbox' \in Seq(Turns \cup {Stop})
      BY <1>11, AppendProperties DEF cancel, TypeOK
    <2> QED  BY <1>t, <1>11, <2>1 DEF cancel, evidence, EvidenceTypes,
                CommandTypes, ActorTypes, HistoryVarTypes
  <1>12. CASE ActorCancels
    <2>1. inbox' \in Seq(Turns \cup {Stop})
      BY <1>12, HeadTailProperties DEF ActorCancels, TypeOK
    <2>2. task' \in Task \cup {None}
      BY <1>12 DEF ActorCancels, Answered, TypeOK, Task
    <2> QED  BY <1>t, <1>12, <2>1, <2>2 DEF ActorCancels, evidence, EvidenceTypes,
                CommandTypes, ActorTypes, HistoryVarTypes
  <1>13. CASE ForceStop \/ SyncFails \/ RewindRefused \/ RewindFails
    BY <1>t, <1>13, FaultTypes
       DEF ForceStop, SyncFails, RewindRefused, RewindFails, EndTask, evidence, actor,
           EvidenceTypes, CommandTypes, ActorTypes, HistoryVarTypes
  <1>14. CASE RewindNative
    <2>1. rewind.intent.target \in Nat
      BY <1>14 DEF RewindNative, TypeOK, Rewind, Intent
    <2>2. Len(Native) >= rewind.intent.target
      BY <1>14 DEF RewindNative
    <2>3. SubSeq(Native, 1, rewind.intent.target) \in Seq(Turns)
      BY <1>n, <2>1, <2>2, HistoryTypes DEF TypeOK
    <2>4. history' \in Seq(Seq(Turns)) /\ history' # <<>>
      BY <1>14, <2>3, HistoryTypes DEF RewindNative, TypeOK
    <2>5. rewind' \in Rewind \cup {None}
      BY <1>14 DEF RewindNative, TypeOK, Rewind
    <2> QED  BY <1>t, <1>14, <2>4, <2>5 DEF RewindNative, evidence, EvidenceTypes,
                CommandTypes, ActorTypes, HistoryVarTypes
  <1>15. CASE Persist
    <2>1. history' \in Seq(Seq(Turns)) /\ history' # <<>>
      BY <1>15, <1>n, HistoryTypes DEF Persist, TypeOK
    <2> QED  BY <1>t, <1>15, <2>1 DEF Persist, evidence, commands, EvidenceTypes,
                CommandTypes, ActorTypes, HistoryVarTypes
  <1>16. CASE Crash
    <2>1. history' \in Seq(Seq(Turns)) /\ history' # <<>>
      BY <1>16, <1>n, HistoryTypes DEF Crash, TypeOK
    <2>2. inbox' \in Seq(Turns \cup {Stop})
      BY <1>16 DEF Crash
    <2>3. faults' \in 0 .. MaxFaults
      BY <1>16, FaultTypes DEF Crash
    <2> QED  BY <1>t, <1>16, <2>1, <2>2, <2>3 DEF Crash, evidence, EvidenceTypes,
                CommandTypes, ActorTypes, HistoryVarTypes
  <1> QED
    BY <1>1, <1>2, <1>3, <1>4, <1>5, <1>6, <1>7, <1>8, <1>9, <1>10, <1>11, <1>12, <1>13,
       <1>14, <1>15, <1>16 DEF Next

-----------------------------------------------------------------------------
(* The ledger and its copies *)

\* An entry that is Pending is the last one that is live.
LEMMA PendingIsLast ==
  ASSUME NEW l \in Seq(Entry), ValidLedger(l), NEW i \in DOMAIN l, l[i].state = "Pending",
         NEW j \in DOMAIN l, l[j].state = "Pending"
  PROVE  i = j
  <1>1. i \in Active(l) /\ j \in Active(l) /\ i \in Nat /\ j \in Nat
    BY LenProperties DEF Active
  <1>2. i <= j /\ j <= i
    BY <1>1 DEF ValidLedger
  <1> QED  BY <1>1, <1>2

LEMMA ListedStays ==
  ASSUME LedgerInv, LedgerStep, NEW t, Listed(t, ledger)
  PROVE  Listed(t, ledger')
  <1>1. CASE UNCHANGED ledger
    BY <1>1
  <1>2. ASSUME NEW u \in Turns, NEW s \in {"Pending", "Discarded"},
               ledger' = Append(ledger, NewEntry(u, ledger, s))
        PROVE  Listed(t, ledger')
    <2>1. NewEntry(u, ledger, s) \in Entry /\ ledger \in Seq(Entry)
      BY AppendEntry DEF LedgerInv, TypeOK
    <2>2. /\ Len(ledger') = Len(ledger) + 1 /\ ledger' \in Seq(Entry)
          /\ \A i \in 1 .. Len(ledger) : ledger'[i] = ledger[i]
      BY <1>2, <2>1, AppendProperties
    <2>3. /\ DOMAIN ledger = 1 .. Len(ledger) /\ DOMAIN ledger' = 1 .. Len(ledger')
          /\ Len(ledger) \in Nat
      BY <2>1, <2>2, LenProperties
    <2> QED  BY <2>2, <2>3 DEF Listed
  <1>3. CASE Rewritten(ledger, ledger')
    BY <1>3 DEF Rewritten, Listed
  <1> QED  BY <1>1, <1>2, <1>3 DEF LedgerStep

LEMMA CopiesStep ==
  ASSUME LedgerInv, Next
  PROVE  CopiesAreCurrent'
  <1>0. ledger \in Seq(Entry) /\ ValidLedger(ledger) /\ Numbered(ledger) /\ CopiesAreCurrent
    BY DEF LedgerInv, TypeOK
  <1>l. \A t : Listed(t, ledger) => Listed(t, ledger')
    BY NextLedgerStep, ListedStays
  <1>b. UNCHANGED bindings => \A t \in bindings' : Listed(t, ledger')
    BY <1>0, <1>l DEF CopiesAreCurrent
  <1>1. ASSUME NEW t \in Turns, NEW b \in BOOLEAN, NEW c \in Commits, prompt(t, b, c)
        PROVE  CopiesAreCurrent'
    <2> DEFINE e == NewEntry(t, ledger, "Pending")
               new == Append(ledger, e)
    <2>1. e \in Entry /\ e.turn = t /\ e.state = "Pending"
      BY <1>0, AppendEntry DEF NewEntry
    <2>2. new \in Seq(Entry) /\ Len(new) = Len(ledger) + 1 /\ new[Len(ledger) + 1] = e
      BY <1>0, <2>1, AppendProperties
    <2>3. Len(new) \in DOMAIN new /\ new[Len(new)] = e
      BY <1>0, <2>2, LenProperties
    <2>4. t \notin bindings
      BY <1>0, <1>1 DEF prompt, CopiesAreCurrent
    <2>5. rewind' = None /\ task = None /\ UNCHANGED bindings
      BY <1>1 DEF prompt, Idle
    <2>6. \/ /\ task' = [turn |-> t, bound |-> b, copy |-> new, phase |-> "awaiting"]
             /\ ledger' = new
          \/ task' = None
      BY <1>1, <2>5 DEF prompt, Written
    <2> HIDE DEF new, e
    <2> QED  BY <1>b, <2>1, <2>3, <2>4, <2>5, <2>6 DEF CopiesAreCurrent
  <1>2. ASSUME NEW r \in BOOLEAN, NEW b \in Commits, NEW c \in Commits, settle(r, b, c)
        PROVE  CopiesAreCurrent'
    <2>1. task' = None /\ task # None /\ UNCHANGED rewind /\ bindings' \subseteq bindings \cup {task.turn}
      BY <1>2 DEF settle, EndTask, Written
    <2>2. Listed(task.turn, ledger) /\ rewind = None
      BY <1>0, <2>1 DEF CopiesAreCurrent, Listed
    <2>3. \A t \in bindings' : Listed(t, ledger)
      BY <1>0, <2>1, <2>2 DEF CopiesAreCurrent
    <2> QED  BY <1>l, <2>1, <2>2, <2>3 DEF CopiesAreCurrent
  <1>3. ASSUME NEW t \in Turns, NEW c \in Commits, turn_binding_status(t, c)
        PROVE  CopiesAreCurrent'
    <2>1. /\ EntryOf(t, ledger) \in DOMAIN ledger
          /\ ledger[EntryOf(t, ledger)].turn = t
          /\ ledger[EntryOf(t, ledger)].state = "Pending"
      BY <1>3, EntryOfListed DEF turn_binding_status
    <2>2. task # None => EntryOf(t, ledger) = Len(ledger)
      BY <1>0, <2>1, PendingIsLast DEF CopiesAreCurrent
    <2>3. t \in bindings /\ rewind = None
      BY <1>3 DEF turn_binding_status
    <2>4. task = None
      BY <1>0, <2>1, <2>2, <2>3 DEF CopiesAreCurrent
    <2> QED  BY <1>3, <1>b, <2>3, <2>4 DEF turn_binding_status, commands, CopiesAreCurrent
  <1>4. ASSUME NEW t \in Turns, NEW c \in Commits, mark_turn_discarded(t, c)
        PROVE  CopiesAreCurrent'
    BY <1>4, <1>b DEF mark_turn_discarded, Idle, commands, CopiesAreCurrent
  <1>5. ASSUME NEW s \in Commits, NEW r \in Commits, RewindSettles(s, r)
        PROVE  CopiesAreCurrent'
    <2>1. task = None
      BY <1>0, <1>5 DEF RewindSettles, CopiesAreCurrent
    <2> QED  BY <1>5, <1>b, <2>1 DEF RewindSettles, CopiesAreCurrent
  <1>6. ASSUME NEW op \in Operations, NEW target \in Indices, NEW r \in Turns \cup {None},
               NEW c \in Commits, rewind_conversation(op, target, r, c)
        PROVE  CopiesAreCurrent'
    <2>1. rewind' # None => rewind'.copy = ledger
      BY <1>6 DEF rewind_conversation
    <2> QED  BY <1>6, <1>b, <2>1 DEF rewind_conversation, Idle, CopiesAreCurrent
  <1>7. CASE ActorEnds \/ ActorCancels
    <2>1. UNCHANGED <<ledger, bindings, rewind>>
      BY <1>7 DEF ActorEnds, ActorCancels, evidence
    <2>2. task' = task \/ (task # None /\ task' = [task EXCEPT !.phase = "answered"])
      BY <1>7 DEF ActorEnds, ActorCancels, Answered
    <2>3. task # None => task \in Task
      BY DEF LedgerInv, TypeOK
    <2>4. task' # None => task # None /\ task'.turn = task.turn /\ task'.copy = task.copy
      BY <2>2, <2>3 DEF Task
    <2> QED  BY <1>0, <1>b, <2>1, <2>4 DEF CopiesAreCurrent
  <1>8. CASE RewindNative
    <2>1. UNCHANGED <<ledger, bindings, task>> /\ rewind # None
      BY <1>8 DEF RewindNative, evidence
    <2>2. rewind' = None \/ rewind' = [rewind EXCEPT !.phase = "applied"]
      BY <1>8 DEF RewindNative
    <2>3. rewind \in Rewind
      BY <2>1 DEF LedgerInv, TypeOK
    <2>4. rewind' # None => rewind'.copy = rewind.copy
      BY <2>2, <2>3 DEF Rewind
    <2> QED  BY <1>0, <1>b, <2>1, <2>4 DEF CopiesAreCurrent
  <1>9. CASE ActorStarts \/ ActorRecords \/ ActorFails \/ cancel \/ ForceStop \/ SyncFails
             \/ RewindRefused \/ RewindFails \/ Persist \/ Crash
    <2>1. /\ UNCHANGED <<ledger, bindings>>
          /\ task' = task \/ task' = None
          /\ rewind' = rewind \/ rewind' = None
      BY <1>9 DEF ActorStarts, ActorRecords, ActorFails, cancel, ForceStop, SyncFails,
                  RewindRefused, RewindFails, Persist, Crash, EndTask, evidence, commands
    <2> QED  BY <1>0, <1>b, <2>1 DEF CopiesAreCurrent
  <1> QED  BY <1>1, <1>2, <1>3, <1>4, <1>5, <1>6, <1>7, <1>8, <1>9 DEF Next

LEMMA RecoveriesStep ==
  ASSUME LedgerInv, Next
  PROVE  RecoveriesTarget'
  <1>0. /\ RecoveriesTarget /\ CopiesAreCurrent
        /\ rewinds \in [Operations -> {NoIntent} \cup [state : {"Intent", "Receipt"}, intent : Intent]]
    BY DEF LedgerInv, TypeOK
  <1>1. ASSUME NEW op \in Operations, NEW target \in Indices, NEW r \in Turns \cup {None},
               NEW c \in Commits, rewind_conversation(op, target, r, c)
        PROVE  RecoveriesTarget'
    <2> DEFINE intent(i) == [target |-> target, turn |-> ledger[i].turn, recovery |-> r]
    <2>1. PICK i \in DOMAIN ledger :
            /\ IsTarget(ledger[i], op, target, r)
            /\ r # None => IsTail(i, ledger)
            /\ rewinds' = [rewinds EXCEPT ![op] =
                             Written(c, [state |-> "Intent", intent |-> intent(i)], rewinds[op])]
            /\ rewind' = IF c = "Committed"
                         THEN [op |-> op, intent |-> intent(i), copy |-> ledger, phase |-> "native"]
                         ELSE None
      BY <1>1 DEF rewind_conversation
    <2>2. /\ rewinds[op].state # "Receipt"
          /\ rewinds[op].state = "Intent" => rewinds[op].intent.recovery = r
      BY <1>1 DEF rewind_conversation
    <2>3. r \in {None, ledger[i].turn}
      <3>1. CASE rewinds[op].state = "Intent"
        <4>1. ledger[i].turn = rewinds[op].intent.turn
          BY <2>1, <3>1 DEF IsTarget
        <4> QED  BY <1>0, <2>2, <3>1, <4>1 DEF RecoveriesTarget
      <3>2. CASE rewinds[op].state # "Intent"
        BY <2>1, <3>2 DEF IsTarget
      <3> QED  BY <3>1, <3>2
    <2>4. UNCHANGED ledger
      BY <1>1 DEF rewind_conversation
    <2>5. \A p \in Operations : rewinds'[p].state = "Intent" =>
            rewinds'[p].intent.recovery \in {None, rewinds'[p].intent.turn}
      BY <1>0, <2>1, <2>3 DEF Written, RecoveriesTarget
    <2>6. rewind' # None => rewind'.intent = intent(i)
      BY <2>1
    <2>7. rewind' # None => TargetsTail(rewind.intent)'
      BY <2>1, <2>3, <2>4, <2>6 DEF TargetsTail, IsTarget, IsTail
    <2> QED  BY <2>5, <2>7 DEF RecoveriesTarget
  <1>2. ASSUME NEW s \in Commits, NEW r \in Commits, RewindSettles(s, r)
        PROVE  RecoveriesTarget'
    <2>1. rewind' = None
      BY <1>2 DEF RewindSettles
    <2>2. rewinds' = [rewinds EXCEPT ![rewind.op] =
                   Written(r, [state |-> "Receipt", intent |-> rewind.intent], @)]
      BY <1>2 DEF RewindSettles
    <2>3. \A p \in Operations : rewinds'[p].state = "Intent" => rewinds'[p] = rewinds[p]
      BY <1>0, <2>2 DEF Written
    <2> QED  BY <1>0, <2>1, <2>3 DEF RecoveriesTarget
  <1>3. CASE RewindNative
    <2>1. UNCHANGED <<ledger, rewinds>> /\ rewind # None
      BY <1>3 DEF RewindNative, evidence
    <2>2. rewind' = None \/ rewind' = [rewind EXCEPT !.phase = "applied"]
      BY <1>3 DEF RewindNative
    <2>3. rewind \in Rewind
      BY <2>1 DEF LedgerInv, TypeOK
    <2>4. rewind' # None => rewind'.intent = rewind.intent
      BY <2>2, <2>3 DEF Rewind
    <2> QED  BY <1>0, <2>1, <2>4 DEF RecoveriesTarget, TargetsTail
  <1>4. CASE /\ UNCHANGED rewinds /\ rewind' = None
    BY <1>0, <1>4 DEF RecoveriesTarget
  <1>5. CASE UNCHANGED <<ledger, rewinds, rewind>>
    BY <1>0, <1>5 DEF RecoveriesTarget, TargetsTail
  <1>6. ASSUME NEW t \in Turns, NEW b \in BOOLEAN, NEW c \in Commits, prompt(t, b, c)
        PROVE  UNCHANGED rewinds /\ rewind' = None
    BY <1>6 DEF prompt, Idle
  <1>7. ASSUME NEW r \in BOOLEAN, NEW b \in Commits, NEW c \in Commits, settle(r, b, c)
        PROVE  UNCHANGED rewinds /\ rewind' = None
    BY <1>0, <1>7 DEF settle, CopiesAreCurrent
  <1>8. ASSUME NEW t \in Turns, NEW c \in Commits,
               turn_binding_status(t, c) \/ mark_turn_discarded(t, c)
        PROVE  UNCHANGED rewinds /\ rewind' = None
    BY <1>8 DEF turn_binding_status, mark_turn_discarded, Idle, commands
  <1>9. CASE RewindRefused \/ RewindFails \/ Crash
    BY <1>4, <1>9 DEF RewindRefused, RewindFails, Crash, evidence
  <1>10. CASE ActorStarts \/ ActorRecords \/ ActorEnds \/ ActorFails \/ cancel \/ ActorCancels
             \/ ForceStop \/ SyncFails \/ Persist
    BY <1>5, <1>10 DEF ActorStarts, ActorRecords, ActorEnds, ActorFails, cancel, ActorCancels,
                ForceStop, SyncFails, Persist, evidence, commands
  <1> QED  BY <1>1, <1>2, <1>3, <1>4, <1>6, <1>7, <1>8, <1>9, <1>10 DEF Next

LEMMA LedgerInvInit == Init => LedgerInv
  <1> SUFFICES ASSUME Init PROVE LedgerInv
    OBVIOUS
  <1>1. TypeOK
    <2>1. history \in Seq(Seq(Turns)) /\ history # <<>>
      BY DEF Init
    <2>2. rewinds \in [Operations -> {NoIntent} \cup [state : {"Intent", "Receipt"}, intent : Intent]]
      BY DEF Init
    <2>3. faults \in 0 .. MaxFaults
      BY ConstantsAssumption DEF Init
    <2>4. ledger \in Seq(Entry) /\ inbox \in Seq(Turns \cup {Stop})
      BY DEF Init
    <2>5. /\ bindings \subseteq Turns /\ task \in Task \cup {None} /\ cancelling \in BOOLEAN
          /\ rewind \in Rewind \cup {None} /\ running \in Turns \cup {None}
          /\ dispatched \subseteq Turns /\ marked \in BOOLEAN
      BY DEF Init
    <2> QED  BY <2>1, <2>2, <2>3, <2>4, <2>5 DEF TypeOK
  <1>2. ledger = <<>> /\ DOMAIN ledger = {}
    BY DEF Init
  <1>3. ValidLedger(ledger) /\ Numbered(ledger)
    BY <1>2 DEF ValidLedger, Numbered, Active
  <1>4. CopiesAreCurrent
    BY DEF Init, CopiesAreCurrent
  <1>5. RecoveriesTarget
    BY DEF Init, RecoveriesTarget, NoIntent
  <1> QED  BY <1>1, <1>3, <1>4, <1>5 DEF LedgerInv

LEMMA LedgerInvStep == LedgerInv /\ [Next]_vars => LedgerInv'
  <1>1. ASSUME LedgerInv, Next
        PROVE  LedgerInv'
    BY <1>1, TypeStep, NextLedgerStep, LedgerTypes, CopiesStep, RecoveriesStep DEF LedgerInv
  <1>2. ASSUME LedgerInv, UNCHANGED vars
        PROVE  LedgerInv'
    <2> USE <1>2 DEF LedgerInv, vars, evidence, commands, actor
    <2>1. TypeOK'
      BY DEF TypeOK
    <2>2. CopiesAreCurrent'
      BY DEF CopiesAreCurrent
    <2>3. RecoveriesTarget'
      BY DEF RecoveriesTarget, TargetsTail
    <2> QED  BY <2>1, <2>2, <2>3
  <1> QED  BY <1>1, <1>2

LEMMA LedgerInvariant == Spec => []LedgerInv
  BY LedgerInvInit, LedgerInvStep, PTL DEF Spec

\* Evidence, the commands in progress and the conversation stay well formed, for
\* any number of Turns, operations and faults.
THEOREM LedgerTypesHold == Spec => []TypeOK
  <1>1. LedgerInv => TypeOK
    BY DEF LedgerInv
  <1> QED  BY <1>1, LedgerInvariant, PTL

\* The ledger can always be read, and the save that prompt_wire or a rewind makes
\* after its native call is never refused by validate_session_ledger.
THEOREM SavesAreAccepted == Spec => []LedgerNeverRefused
  <1>1. ASSUME LedgerInv
        PROVE  LedgerNeverRefused
    <2> USE <1>1 DEF LedgerInv
    <2>1. ledger \in Seq(Entry)
      BY DEF TypeOK
    <2>2. task # None => ValidLedger(settle_latest(task.copy))
      BY <2>1, SettleValid DEF CopiesAreCurrent
    <2>3. ASSUME rewind # None
          PROVE  ValidLedger(DiscardFrom(rewind.copy, rewind.intent.target))
      <3>1. rewind.intent.target \in Nat
        BY <2>3 DEF TypeOK, Rewind, Intent
      <3> QED  BY <2>1, <2>3, <3>1, DiscardValid DEF CopiesAreCurrent
    <2> QED  BY <2>2, <2>3 DEF LedgerNeverRefused
  <1> QED  BY <1>1, LedgerInvariant, PTL

\* What EntriesAreForever says of a step.
KeepsEntries ==
  \A i \in DOMAIN ledger :
       /\ i \in DOMAIN ledger'
       /\ ledger'[i].turn = ledger[i].turn /\ ledger'[i].index = ledger[i].index
       /\ ledger[i].state = "Discarded" => ledger'[i].state = "Discarded"
       /\ ledger[i].state = "Completed" => ledger'[i].state # "Pending"
       /\ rewind # None /\ rewind.intent.recovery \notin {None, ledger[i].turn}
            => ledger'[i] = ledger[i]

\* While a rewind is in progress only its settlement writes the ledger.
LEMMA RewindWritesAlone ==
  ASSUME LedgerInv, Next, rewind # None
  PROVE  \/ UNCHANGED ledger
         \/ ledger' = DiscardFrom(ledger, rewind.intent.target)
  <1>0. CopiesAreCurrent
    BY DEF LedgerInv
  <1>1. ASSUME NEW t \in Turns, NEW b \in BOOLEAN, NEW c \in Commits, prompt(t, b, c)
        PROVE  FALSE
    BY <1>1 DEF prompt, Idle
  <1>2. ASSUME NEW r \in BOOLEAN, NEW b \in Commits, NEW c \in Commits, settle(r, b, c)
        PROVE  FALSE
    BY <1>0, <1>2 DEF settle, CopiesAreCurrent
  <1>3. ASSUME NEW t \in Turns, NEW c \in Commits,
               turn_binding_status(t, c) \/ mark_turn_discarded(t, c)
        PROVE  FALSE
    BY <1>3 DEF turn_binding_status, mark_turn_discarded, Idle
  <1>4. ASSUME NEW s \in Commits, NEW r \in Commits, RewindSettles(s, r)
        PROVE  ledger' = ledger \/ ledger' = DiscardFrom(ledger, rewind.intent.target)
    BY <1>0, <1>4 DEF RewindSettles, Written, CopiesAreCurrent
  <1>5. ASSUME NEW op \in Operations, NEW target \in Indices, NEW r \in Turns \cup {None},
               NEW c \in Commits, rewind_conversation(op, target, r, c)
        PROVE  UNCHANGED ledger
    BY <1>5 DEF rewind_conversation
  <1>6. CASE ActorStarts \/ ActorRecords \/ ActorEnds \/ ActorFails \/ cancel \/ ActorCancels
             \/ ForceStop \/ SyncFails \/ RewindNative \/ RewindRefused \/ RewindFails
             \/ Persist \/ Crash
    BY <1>6 DEF ActorStarts, ActorRecords, ActorEnds, ActorFails, cancel, ActorCancels,
                ForceStop, SyncFails, RewindNative, RewindRefused, RewindFails, Persist,
                Crash, evidence
  <1> QED  BY <1>1, <1>2, <1>3, <1>4, <1>5, <1>6 DEF Next

LEMMA KeepsEntriesStep ==
  ASSUME LedgerInv, Next
  PROVE  KeepsEntries
  <1>0. ledger \in Seq(Entry) /\ ValidLedger(ledger) /\ Numbered(ledger)
    BY DEF LedgerInv, TypeOK
  <1>d. DOMAIN ledger = 1 .. Len(ledger) /\ Len(ledger) \in Nat
    BY <1>0, LenProperties
  <1>1. CASE UNCHANGED ledger
    BY <1>1 DEF KeepsEntries
  <1>2. ASSUME Idle, NEW t \in Turns, NEW s \in {"Pending", "Discarded"},
               ledger' = Append(ledger, NewEntry(t, ledger, s))
        PROVE  KeepsEntries
    <2>1. NewEntry(t, ledger, s) \in Entry
      BY <1>0, AppendEntry
    <2>2. /\ ledger' \in Seq(Entry) /\ Len(ledger') = Len(ledger) + 1
          /\ \A i \in 1 .. Len(ledger) : ledger'[i] = ledger[i]
      BY <1>0, <1>2, <2>1, AppendProperties
    <2>3. DOMAIN ledger' = 1 .. Len(ledger')
      BY <2>2, LenProperties
    <2> QED  BY <1>d, <2>2, <2>3 DEF KeepsEntries
  <1>3. ASSUME Rewritten(ledger, ledger'), rewind = None
        PROVE  KeepsEntries
    BY <1>3 DEF Rewritten, KeepsEntries
  <1>4. ASSUME Rewritten(ledger, ledger'), rewind # None,
               ledger' = DiscardFrom(ledger, rewind.intent.target)
        PROVE  KeepsEntries
    <2>1. ASSUME NEW i \in DOMAIN ledger, rewind.intent.recovery \notin {None, ledger[i].turn}
          PROVE  ledger'[i] = ledger[i]
      <3>1. TargetsTail(rewind.intent)
        BY <1>4 DEF LedgerInv, RecoveriesTarget
      <3>2. PICK k \in DOMAIN ledger :
              /\ ledger[k].turn = rewind.intent.recovery /\ ledger[k].index = rewind.intent.target
              /\ \A j \in k + 1 .. Len(ledger) : ledger[j].state = "Discarded"
        BY <2>1, <3>1 DEF TargetsTail
      <3>3. ledger[i] \in Entry /\ ledger[k] \in Entry
        BY <1>0, <1>d, ElementOfSeq
      <3>4. CASE ledger[i].state = "Discarded"
        <4>1. [ledger[i] EXCEPT !.state = "Discarded"] = ledger[i]
          BY <3>3, <3>4 DEF Entry
        <4> QED  BY <1>4, <4>1 DEF DiscardFrom
      <3>5. CASE ledger[i].state # "Discarded"
        <4>1. i < k
          BY <1>d, <2>1, <3>2, <3>5
        <4>2. ledger[i].index < rewind.intent.target
          BY <1>0, <3>2, <3>5, <4>1 DEF Numbered
        <4>3. ledger[i].index \in Nat /\ rewind.intent.target \in Nat
          BY <3>2, <3>3 DEF Entry
        <4>4. ~(ledger[i].index >= rewind.intent.target)
          BY <4>2, <4>3
        <4> QED  BY <1>4, <4>4 DEF DiscardFrom
      <3> QED  BY <3>4, <3>5
    <2> QED  BY <1>4, <2>1 DEF Rewritten, KeepsEntries
  <1>5. rewind # None => \/ UNCHANGED ledger
                         \/ ledger' = DiscardFrom(ledger, rewind.intent.target)
    BY RewindWritesAlone
  <1> QED  BY <1>1, <1>2, <1>3, <1>4, <1>5, NextLedgerStep DEF LedgerStep

\* No write of the ledger, also from a copy that was loaded before an await, loses,
\* renames, renumbers or revives an entry, and a recovery discards its Turn alone.
THEOREM EntriesAreKept == Spec => EntriesAreForever
  <1>1. LedgerInv /\ [Next]_vars => [KeepsEntries]_vars
    BY KeepsEntriesStep
  <1> QED  BY <1>1, LedgerInvariant, PTL DEF Spec, EntriesAreForever, KeepsEntries

-----------------------------------------------------------------------------
(* Lemmas on conversations *)

LEMMA InAppend ==
  ASSUME NEW S, NEW s \in Seq(S), NEW e \in S, NEW t
  PROVE  In(t, Append(s, e)) <=> In(t, s) \/ t = e
  <1>1. /\ Append(s, e) \in Seq(S) /\ Len(Append(s, e)) = Len(s) + 1
        /\ \A i \in 1 .. Len(s) : Append(s, e)[i] = s[i]
        /\ Append(s, e)[Len(s) + 1] = e
    BY AppendProperties
  <1> DEFINE m == Append(s, e)
  <1> HIDE DEF m
  <1>2. /\ m \in Seq(S) /\ Len(m) = Len(s) + 1 /\ \A i \in 1 .. Len(s) : m[i] = s[i]
        /\ m[Len(s) + 1] = e
    BY <1>1 DEF m
  <1>3. DOMAIN s = 1 .. Len(s) /\ DOMAIN m = 1 .. Len(s) + 1 /\ Len(s) \in Nat
    BY <1>2, LenProperties
  <1>4. In(t, m) => In(t, s) \/ t = e
    BY <1>2, <1>3 DEF In
  <1>5. In(t, s) \/ t = e => In(t, m)
    BY <1>2, <1>3 DEF In
  <1> QED  BY <1>4, <1>5 DEF m

LEMMA InTail ==
  ASSUME NEW S, NEW s \in Seq(S), s # <<>>, NEW t
  PROVE  In(t, s) <=> t = Head(s) \/ In(t, Tail(s))
  <1> DEFINE m == Tail(s)
  <1>1. /\ m \in Seq(S) /\ Len(m) = Len(s) - 1 /\ \A i \in 1 .. Len(m) : m[i] = s[i + 1]
    BY HeadTailProperties
  <1>2. Head(s) = s[1]
    OBVIOUS
  <1> HIDE DEF m
  <1>3. DOMAIN s = 1 .. Len(s) /\ DOMAIN m = 1 .. Len(m) /\ Len(s) \in Nat \ {0}
    BY <1>1, LenProperties, EmptySeq
  <1>4. ASSUME NEW i \in DOMAIN s, s[i] = t, i # 1
        PROVE  In(t, m)
    <2>1. i - 1 \in DOMAIN m /\ m[i - 1] = s[i]
      BY <1>1, <1>3, <1>4
    <2> QED  BY <1>4, <2>1 DEF In
  <1>5. ASSUME NEW i \in DOMAIN m, m[i] = t
        PROVE  In(t, s)
    <2>1. i + 1 \in DOMAIN s /\ s[i + 1] = t
      BY <1>1, <1>3, <1>5
    <2> QED  BY <2>1 DEF In
  <1>6. t = Head(s) => In(t, s)
    BY <1>2, <1>3 DEF In
  <1>7. In(t, m) => In(t, s)
    BY <1>5 DEF In
  <1>8. In(t, s) => t = Head(s) \/ In(t, m)
    BY <1>2, <1>4 DEF In
  <1> QED  BY <1>6, <1>7, <1>8 DEF m

Distinct(s) == \A m, n \in DOMAIN s : s[m] = s[n] => m = n

LEMMA CutConversation ==
  ASSUME NEW S, NEW s \in Seq(S), NEW n \in Nat, n <= Len(s)
  PROVE  /\ \A t : In(t, SubSeq(s, 1, n)) => In(t, s)
         /\ Distinct(s) => Distinct(SubSeq(s, 1, n))
  <1> DEFINE c == SubSeq(s, 1, n)
  <1>0. DOMAIN s = 1 .. Len(s) /\ Len(s) \in Nat /\ \A i \in 1 .. Len(s) : s[i] \in S
    BY LenProperties, ElementOfSeq
  <1>1. \A i \in 1 .. n : s[i] \in S
    BY <1>0
  <1>2. /\ c \in Seq(S) /\ Len(c) = n /\ \A i \in 1 .. n : c[i] = s[i]
    BY <1>1, SubSeqProperties
  <1> HIDE DEF c
  <1>3. DOMAIN c = 1 .. n
    BY <1>2, LenProperties
  <1>4. \A t : In(t, c) => In(t, s)
    BY <1>0, <1>2, <1>3 DEF In
  <1>5. Distinct(s) => Distinct(c)
    BY <1>0, <1>2, <1>3 DEF Distinct
  <1> QED  BY <1>4, <1>5 DEF c

LEMMA AppendDistinct ==
  ASSUME NEW S, NEW s \in Seq(S), NEW e \in S, ~In(e, s), Distinct(s)
  PROVE  Distinct(Append(s, e))
  <1> DEFINE m == Append(s, e)
  <1>1. /\ m \in Seq(S) /\ Len(m) = Len(s) + 1 /\ \A i \in 1 .. Len(s) : m[i] = s[i]
        /\ m[Len(s) + 1] = e
    BY AppendProperties
  <1> HIDE DEF m
  <1>2. DOMAIN s = 1 .. Len(s) /\ DOMAIN m = 1 .. Len(s) + 1 /\ Len(s) \in Nat
    BY <1>1, LenProperties
  <1>3. Distinct(m)
    BY <1>1, <1>2 DEF Distinct, In
  <1> QED  BY <1>3 DEF m

\* The states of the conversation after a step: the old ones and perhaps another,
\* the old ones without the first, or one alone.
LEMMA Extended ==
  ASSUME NEW h \in Seq(Seq(Turns)), h # <<>>, NEW c \in Seq(Turns)
  PROVE  /\ \A i \in DOMAIN Append(h, c) :
              Append(h, c)[i] = c \/ \E j \in DOMAIN h : Append(h, c)[i] = h[j]
         /\ \A t : Flushed(t, h) /\ (In(t, c) => In(t, h[Len(h)])) => Flushed(t, Append(h, c))
  <1> DEFINE m == Append(h, c)
  <1>1. /\ m \in Seq(Seq(Turns)) /\ Len(m) = Len(h) + 1 /\ \A i \in 1 .. Len(h) : m[i] = h[i]
        /\ m[Len(h) + 1] = c
    BY AppendProperties
  <1> HIDE DEF m
  <1>2. DOMAIN h = 1 .. Len(h) /\ DOMAIN m = 1 .. Len(h) + 1 /\ Len(h) \in Nat \ {0}
    BY <1>1, LenProperties, EmptySeq
  <1>3. \A i \in DOMAIN m : m[i] = c \/ \E j \in DOMAIN h : m[i] = h[j]
    BY <1>1, <1>2
  <1>4. ASSUME NEW t, Flushed(t, h), In(t, c) => In(t, h[Len(h)]),
               NEW i \in DOMAIN m, NEW j \in DOMAIN m, i < j, In(t, m[j])
        PROVE  In(t, m[i])
    <2>0. i \in 1 .. Len(h) + 1 /\ j \in 1 .. Len(h) + 1 /\ i < j
      BY <1>2, <1>4
    <2>1. i \in DOMAIN h /\ m[i] = h[i]
      BY <1>1, <1>2, <2>0
    <2>2. CASE j \in DOMAIN h
      BY <1>1, <1>2, <1>4, <2>1, <2>2 DEF Flushed
    <2>3. CASE j \notin DOMAIN h
      <3>1. m[j] = c
        BY <1>1, <1>2, <2>3
      <3>2. In(t, h[Len(h)]) /\ Len(h) \in DOMAIN h
        BY <1>2, <1>4, <3>1
      <3>3. i = Len(h) \/ i < Len(h)
        BY <1>2, <2>1
      <3> QED  BY <1>4, <2>1, <3>2, <3>3 DEF Flushed
    <2> QED  BY <2>2, <2>3
  <1>5. \A t : Flushed(t, h) /\ (In(t, c) => In(t, h[Len(h)])) => Flushed(t, m)
    BY <1>4 DEF Flushed
  <1> QED  BY <1>3, <1>5 DEF m

LEMMA Shortened ==
  ASSUME NEW h \in Seq(Seq(Turns)), h # <<>>
  PROVE  /\ \A i \in DOMAIN Tail(h) : \E j \in DOMAIN h : Tail(h)[i] = h[j]
         /\ \A t : Flushed(t, h) => Flushed(t, Tail(h))
  <1> DEFINE m == Tail(h)
  <1>1. /\ m \in Seq(Seq(Turns)) /\ Len(m) = Len(h) - 1 /\ \A i \in 1 .. Len(m) : m[i] = h[i + 1]
    BY HeadTailProperties
  <1> HIDE DEF m
  <1>2. DOMAIN h = 1 .. Len(h) /\ DOMAIN m = 1 .. Len(m) /\ Len(h) \in Nat \ {0}
    BY <1>1, LenProperties, EmptySeq
  <1>3. \A i \in DOMAIN m : i + 1 \in DOMAIN h /\ m[i] = h[i + 1] /\ i \in Nat
    BY <1>1, <1>2
  <1>4. ASSUME NEW t, Flushed(t, h), NEW i \in DOMAIN m, NEW j \in DOMAIN m, i < j, In(t, m[j])
        PROVE  In(t, m[i])
    <2>1. i + 1 < j + 1 /\ In(t, h[j + 1])
      BY <1>3, <1>4
    <2> QED  BY <1>3, <1>4, <2>1 DEF Flushed
  <1>5. \A t : Flushed(t, h) => Flushed(t, m)
    BY <1>4 DEF Flushed
  <1> QED  BY <1>3, <1>5 DEF m

LEMMA Alone ==
  ASSUME NEW c
  PROVE  /\ \A i \in DOMAIN <<c>> : <<c>>[i] = c
         /\ \A t : Flushed(t, <<c>>)
  BY DEF Flushed

\* A prompt that is not in the inbox is added to it, or the first is taken out.
LEMMA InboxAppend ==
  ASSUME NEW q \in Seq(Turns \cup {Stop}), SentOnce(q), NEW e \in Turns \cup {Stop},
         e # Stop => ~In(e, q)
  PROVE  SentOnce(Append(q, e))
  <1> DEFINE m == Append(q, e)
  <1>1. /\ m \in Seq(Turns \cup {Stop}) /\ Len(m) = Len(q) + 1
        /\ \A i \in 1 .. Len(q) : m[i] = q[i]
        /\ m[Len(q) + 1] = e
    BY AppendProperties
  <1> HIDE DEF m
  <1>2. DOMAIN q = 1 .. Len(q) /\ DOMAIN m = 1 .. Len(q) + 1 /\ Len(q) \in Nat
    BY <1>1, LenProperties
  <1>3. SentOnce(m)
    BY <1>1, <1>2 DEF SentOnce, In
  <1> QED  BY <1>3 DEF m

LEMMA InboxTail ==
  ASSUME NEW q \in Seq(Turns \cup {Stop}), SentOnce(q), q # <<>>
  PROVE  /\ SentOnce(Tail(q))
         /\ Head(q) # Stop => ~In(Head(q), Tail(q))
  <1> DEFINE m == Tail(q)
  <1>1. /\ m \in Seq(Turns \cup {Stop}) /\ Len(m) = Len(q) - 1
        /\ \A i \in 1 .. Len(m) : m[i] = q[i + 1]
    BY HeadTailProperties
  <1>2. Head(q) = q[1]
    OBVIOUS
  <1> HIDE DEF m
  <1>3. DOMAIN q = 1 .. Len(q) /\ DOMAIN m = 1 .. Len(m) /\ Len(q) \in Nat \ {0}
    BY <1>1, LenProperties, EmptySeq
  <1>4. \A i \in DOMAIN m : i + 1 \in DOMAIN q /\ m[i] = q[i + 1] /\ i \in Nat \ {0}
    BY <1>1, <1>3
  <1>5. SentOnce(m)
    <2> SUFFICES ASSUME NEW i \in DOMAIN m, NEW j \in DOMAIN m, m[i] = m[j], m[i] # Stop
                 PROVE  i = j
      BY DEF SentOnce
    <2>1. i + 1 = j + 1
      BY <1>4 DEF SentOnce
    <2> QED  BY <1>4, <2>1
  <1>6. ASSUME q[1] # Stop, NEW i \in DOMAIN m, m[i] = q[1]
        PROVE  FALSE
    <2>1. i + 1 = 1
      BY <1>3, <1>4, <1>6 DEF SentOnce
    <2> QED  BY <1>4, <2>1
  <1>7. q[1] # Stop => ~In(q[1], m)
    BY <1>6 DEF In
  <1> QED  BY <1>2, <1>5, <1>7 DEF m

-----------------------------------------------------------------------------
(* The way of a prompt into the conversation *)

\* A prompt that is new on its way was not listed before.
NewOnItsWay(t) == ~Listed(t, ledger) /\ t \in dispatched' /\ Listed(t, ledger')

QueueKept == QueueInv' /\ \A t \in Turns : OnItsWay(t)' => OnItsWay(t) \/ NewOnItsWay(t)

LEMMA QueueStep ==
  ASSUME LedgerInv, ConversationInv, Next
  PROVE  QueueKept
  <1> USE DEF QueueKept
  <1>t. /\ inbox \in Seq(Turns \cup {Stop}) /\ running \in Turns \cup {None}
        /\ task \in Task \cup {None} /\ (task # None => task.turn \in Turns)
    BY DEF LedgerInv, TypeOK, Task
  <1>q. /\ SentOnce(inbox)
        /\ running # None => ~In(running, inbox)
        /\ task # None /\ task.phase = "answered" => ~OnItsWay(task.turn)
    BY DEF ConversationInv, QueueInv
  <1>c. None \notin Turns /\ Stop \notin Turns /\ None # Stop
    BY ConstantsAssumption
  <1>1. ASSUME NEW t \in Turns, NEW b \in BOOLEAN, NEW c \in Commits, prompt(t, b, c)
        PROVE  QueueKept
    <2>1. ~Listed(t, ledger) /\ task = None
      BY <1>1 DEF prompt, Idle
    <2>2. running # t /\ ~In(t, inbox)
      BY <2>1 DEF ConversationInv, AbsentNeverDispatched, Held
    <2>3. CASE c = "Committed"
      <3>1. /\ task' = [turn |-> t, bound |-> b, phase |-> "awaiting",
                        copy |-> Append(ledger, NewEntry(t, ledger, "Pending"))]
            /\ inbox' = Append(inbox, t) /\ running' = running
            /\ t \in dispatched'
        BY <1>1, <2>3 DEF prompt
      <3>2. task'.phase = "awaiting" /\ task'.turn = t
        BY <3>1
      <3>3. Listed(t, ledger')
        <4>2. ledger' = Append(ledger, NewEntry(t, ledger, "Pending"))
          BY <1>1, <2>3 DEF prompt, Written
        <4>3. ledger \in Seq(Entry) /\ NewEntry(t, ledger, "Pending") \in Entry
          BY AppendEntry DEF LedgerInv, TypeOK
        <4>4. /\ Len(ledger') = Len(ledger) + 1 /\ ledger' \in Seq(Entry)
              /\ ledger'[Len(ledger) + 1] = NewEntry(t, ledger, "Pending")
          BY <4>2, <4>3, AppendProperties
        <4>5. Len(ledger) + 1 \in DOMAIN ledger'
          BY <4>3, <4>4, LenProperties
        <4> QED  BY <4>4, <4>5 DEF Listed, NewEntry
      <3>4. SentOnce(inbox')
        BY <1>t, <1>q, <2>2, <3>1, InboxAppend
      <3>5. \A u : In(u, inbox') <=> In(u, inbox) \/ u = t
        BY <1>t, <3>1, InAppend
      <3>6. QueueInv'
        BY <1>q, <2>2, <3>1, <3>2, <3>4, <3>5 DEF QueueInv
      <3> QED  BY <2>1, <3>1, <3>3, <3>5, <3>6 DEF OnItsWay, NewOnItsWay
    <2>4. CASE c # "Committed"
      <3>1. UNCHANGED <<task, inbox, running>>
        BY <1>1, <2>4 DEF prompt
      <3> QED  BY <1>q, <3>1 DEF QueueInv, OnItsWay
    <2> QED  BY <2>3, <2>4
  <1>2. CASE ActorStarts
    <2>1. /\ running = None /\ inbox # <<>> /\ Head(inbox) # Stop /\ UNCHANGED task
          /\ running' = Head(inbox) /\ inbox' = Tail(inbox)
      BY <1>2 DEF ActorStarts, commands
    <2>2. SentOnce(inbox') /\ ~In(running', inbox')
      BY <1>t, <1>q, <2>1, InboxTail
    <2>3. \A t : In(t, inbox) <=> t = running' \/ In(t, inbox')
      BY <1>t, <2>1, InTail
    <2>4. \A t : OnItsWay(t)' => OnItsWay(t)
      BY <2>3 DEF OnItsWay
    <2> QED  BY <1>q, <2>1, <2>2, <2>4 DEF QueueInv
  <1>3. CASE ActorEnds \/ ActorFails
    <2>1. /\ running # None /\ running' = None /\ UNCHANGED inbox
          /\ \/ task' = task \/ task' = None
             \/ task # None /\ task.turn = running /\ task' = [task EXCEPT !.phase = "answered"]
      BY <1>3 DEF ActorEnds, ActorFails, Answered, EndTask
    <2>2. \A t \in Turns : OnItsWay(t)' => OnItsWay(t)
      BY <1>c, <2>1 DEF OnItsWay
    <2>3. \A t \in Turns : t = running => ~OnItsWay(t)'
      BY <1>q, <1>c, <2>1 DEF OnItsWay
    <2>4. task' # None => task # None /\ task'.turn = task.turn
      BY <1>t, <2>1 DEF Task
    <2>5. ASSUME NEW t \in Turns, task' # None, task'.phase = "answered", task.turn = t
          PROVE  ~OnItsWay(t)'
      BY <1>q, <2>1, <2>2, <2>3, <2>5
    <2> QED  BY <1>q, <1>t, <2>1, <2>2, <2>4, <2>5 DEF QueueInv, OnItsWay
  <1>4. CASE cancel
    <2>1. inbox' = Append(inbox, Stop) /\ UNCHANGED <<task, running>>
      BY <1>4 DEF cancel
    <2>2. SentOnce(inbox')
      BY <1>t, <1>q, <2>1, InboxAppend
    <2>3. \A t \in Turns : In(t, inbox') <=> In(t, inbox)
      BY <1>t, <1>c, <2>1, InAppend
    <2> QED  BY <1>q, <1>t, <2>1, <2>2, <2>3 DEF QueueInv, OnItsWay
  <1>5. CASE ActorCancels
    <2>1. /\ running' = None /\ inbox # <<>> /\ inbox' = Tail(inbox)
          /\ \/ task' = task
             \/ task # None /\ task.turn = running /\ task' = [task EXCEPT !.phase = "answered"]
      BY <1>5 DEF ActorCancels, Answered
    <2>2. SentOnce(inbox')
      BY <1>t, <1>q, <2>1, InboxTail
    <2>3. \A t : In(t, inbox') => In(t, inbox)
      BY <1>t, <2>1, InTail
    <2>4. \A t \in Turns : OnItsWay(t)' => OnItsWay(t)
      BY <1>c, <2>1, <2>3 DEF OnItsWay
    <2>5. \A t \in Turns : t = running => ~OnItsWay(t)'
      BY <1>q, <1>c, <2>1, <2>3 DEF OnItsWay
    <2>6. task' # None => task # None /\ task'.turn = task.turn
      BY <1>t, <2>1 DEF Task
    <2>7. ASSUME NEW t \in Turns, task' # None, task'.phase = "answered", task.turn = t
          PROVE  ~OnItsWay(t)'
      BY <1>q, <2>1, <2>4, <2>5, <2>7
    <2> QED  BY <1>t, <2>1, <2>2, <2>4, <2>6, <2>7 DEF QueueInv, OnItsWay
  <1>6. CASE Crash
    <2>1. inbox' = <<>> /\ running' = None /\ task' = None
      BY <1>6 DEF Crash
    <2>2. SentOnce(inbox') /\ \A t : ~In(t, inbox')
      BY <2>1 DEF SentOnce, In
    <2> QED  BY <1>c, <2>1, <2>2 DEF QueueInv, OnItsWay
  <1>7. CASE UNCHANGED <<inbox, running>> /\ (task' = task \/ task' = None)
    BY <1>q, <1>7 DEF QueueInv, OnItsWay
  <1>8. ASSUME NEW r \in BOOLEAN, NEW b \in Commits, NEW c \in Commits, settle(r, b, c)
        PROVE  QueueKept
    <2>1. UNCHANGED <<inbox, running>> /\ (task' = task \/ task' = None)
      BY <1>8 DEF settle, EndTask
    <2> QED  BY <1>7, <2>1
  <1>9. ASSUME NEW t \in Turns, NEW c \in Commits,
               turn_binding_status(t, c) \/ mark_turn_discarded(t, c)
        PROVE  QueueKept
    <2>1. UNCHANGED <<inbox, running>> /\ (task' = task \/ task' = None)
      BY <1>9 DEF turn_binding_status, mark_turn_discarded, commands, actor
    <2> QED  BY <1>7, <2>1
  <1>10. ASSUME NEW op \in Operations, NEW target \in Indices, NEW r \in Turns \cup {None},
               NEW c \in Commits, rewind_conversation(op, target, r, c)
        PROVE  QueueKept
    <2>1. UNCHANGED <<inbox, running>> /\ (task' = task \/ task' = None)
      BY <1>10 DEF rewind_conversation, actor
    <2> QED  BY <1>7, <2>1
  <1>11. ASSUME NEW s \in Commits, NEW r \in Commits, RewindSettles(s, r)
        PROVE  QueueKept
    <2>1. UNCHANGED <<inbox, running>> /\ (task' = task \/ task' = None)
      BY <1>11 DEF RewindSettles
    <2> QED  BY <1>7, <2>1
  <1>12. CASE ActorRecords \/ ForceStop \/ SyncFails \/ RewindNative \/ RewindRefused
              \/ RewindFails \/ Persist
    <2>1. UNCHANGED <<inbox, running>> /\ (task' = task \/ task' = None)
      BY <1>12 DEF ActorRecords, ForceStop, SyncFails, RewindNative, RewindRefused,
                   RewindFails, Persist, EndTask, commands, actor
    <2> QED  BY <1>7, <2>1
  <1> HIDE DEF QueueKept
  <1> QED  BY <1>1, <1>2, <1>3, <1>4, <1>5, <1>6, <1>8, <1>9, <1>10, <1>11, <1>12 DEF Next

\* A state of the conversation after a step holds Turns that were in one before, or
\* the running one, each once; and only the running one may be less than flushed.
ConversationKept ==
  /\ \A i \in DOMAIN history' :
       /\ Distinct(history'[i])
       /\ \A t : In(t, history'[i]) => t = running \/ \E j \in DOMAIN history : In(t, history[j])
  /\ \A t : Flushed(t, history) /\ t # running => Flushed(t, history')

LEMMA ConversationStep ==
  ASSUME LedgerInv, ConversationInv, Next
  PROVE  ConversationKept
  <1>h. history \in Seq(Seq(Turns)) /\ history # <<>>
    BY DEF LedgerInv, TypeOK
  <1>d. \A i \in DOMAIN history : Distinct(history[i])
    BY DEF ConversationInv, AbsentNeverDispatched, Distinct
  <1>l. Len(history) \in DOMAIN history /\ 1 \in DOMAIN history /\ Head(history) = history[1]
    BY <1>h, EmptySeq, LenProperties
  <1>n. Native \in Seq(Turns) /\ Native = history[Len(history)]
    BY <1>h, <1>l, LenProperties, ElementOfSeq DEF Native
  <1>1. ASSUME NEW c, c = Native \/ c = Head(history), history' = <<c>>
        PROVE  ConversationKept
    <2>1. \E j \in DOMAIN history : c = history[j]
      BY <1>1, <1>l, <1>n
    <2>2. (\A i \in DOMAIN history' : history'[i] = c) /\ \A t : Flushed(t, history')
      BY <1>1, Alone
    <2> QED  BY <1>d, <2>1, <2>2 DEF ConversationKept
  <1>2. ASSUME NEW c \in Seq(Turns), Distinct(c), \A t : In(t, c) => In(t, Native) \/ t = running,
               history' = Append(history, c)
        PROVE  ConversationKept
    <2>1. /\ \A i \in DOMAIN history' : history'[i] = c \/ \E j \in DOMAIN history : history'[i] = history[j]
          /\ \A t : Flushed(t, history) /\ (In(t, c) => In(t, Native)) => Flushed(t, history')
      BY <1>2, <1>h, <1>n, Extended
    <2>2. \A t : In(t, c) => t = running \/ \E j \in DOMAIN history : In(t, history[j])
      BY <1>2, <1>l, <1>n
    <2>3. \A i \in DOMAIN history' :
            /\ Distinct(history'[i])
            /\ \A t : In(t, history'[i]) => t = running \/ \E j \in DOMAIN history : In(t, history[j])
      BY <1>2, <1>d, <2>1, <2>2
    <2>4. \A t : Flushed(t, history) /\ t # running => Flushed(t, history')
      BY <1>2, <2>1
    <2> QED  BY <2>3, <2>4 DEF ConversationKept
  <1>3. CASE UNCHANGED history
    BY <1>3, <1>d DEF ConversationKept
  <1>4. CASE ActorRecords
    <2>1. running \in Turns /\ ~In(running, Native) /\ history' = Append(history, Append(Native, running))
      BY <1>4 DEF ActorRecords, LedgerInv, TypeOK
    <2>2. Distinct(Append(Native, running))
      BY <1>d, <1>l, <1>n, <2>1, AppendDistinct
    <2>3. \A t : In(t, Append(Native, running)) => In(t, Native) \/ t = running
      BY <1>n, <2>1, InAppend
    <2>4. Append(Native, running) \in Seq(Turns)
      BY <1>n, <2>1, AppendProperties
    <2> QED  BY <1>2, <2>1, <2>2, <2>3, <2>4
  <1>5. CASE RewindNative
    <2> DEFINE c == SubSeq(Native, 1, rewind.intent.target)
    <2>1. /\ Len(Native) >= rewind.intent.target
          /\ history' = history \/ history' = Append(history, c)
      BY <1>5 DEF RewindNative
    <2>2. rewind.intent.target \in Nat
      BY <1>5 DEF RewindNative, LedgerInv, TypeOK, Rewind, Intent
    <2>3. Len(Native) \in Nat /\ rewind.intent.target <= Len(Native)
      BY <1>n, <2>1, <2>2, LenProperties
    <2>4. c \in Seq(Turns)
      BY <1>h, <1>n, <2>2, <2>3, HistoryTypes
    <2>5. (\A t : In(t, c) => In(t, Native)) /\ (Distinct(Native) => Distinct(c))
      BY <1>n, <2>2, <2>3, CutConversation
    <2>6. Distinct(c)
      BY <1>d, <1>l, <1>n, <2>5
    <2> HIDE DEF c
    <2> QED  BY <1>2, <1>3, <2>1, <2>4, <2>5, <2>6
  <1>6. CASE Persist
    <2>1. history' = Tail(history)
      BY <1>6 DEF Persist
    <2>2. /\ \A i \in DOMAIN history' : \E j \in DOMAIN history : history'[i] = history[j]
          /\ \A t : Flushed(t, history) => Flushed(t, history')
      BY <1>h, <2>1, Shortened
    <2> QED  BY <1>d, <2>2 DEF ConversationKept
  <1>7. CASE Crash
    BY <1>1, <1>7 DEF Crash
  <1>8. ASSUME NEW r \in BOOLEAN, NEW b \in Commits, NEW c \in Commits, settle(r, b, c)
        PROVE  ConversationKept
    BY <1>1, <1>8 DEF settle
  <1>9. ASSUME NEW s \in Commits, NEW r \in Commits, RewindSettles(s, r)
        PROVE  ConversationKept
    BY <1>1, <1>9 DEF RewindSettles
  <1>10. ASSUME NEW t \in Turns, NEW b \in BOOLEAN, NEW c \in Commits, prompt(t, b, c)
         PROVE  ConversationKept
    BY <1>3, <1>10 DEF prompt
  <1>11. ASSUME NEW t \in Turns, NEW c \in Commits,
                turn_binding_status(t, c) \/ mark_turn_discarded(t, c)
         PROVE  ConversationKept
    BY <1>3, <1>11 DEF turn_binding_status, mark_turn_discarded, actor
  <1>12. ASSUME NEW op \in Operations, NEW target \in Indices, NEW r \in Turns \cup {None},
               NEW c \in Commits, rewind_conversation(op, target, r, c)
         PROVE  ConversationKept
    BY <1>3, <1>12 DEF rewind_conversation, actor
  <1>13. CASE ActorStarts \/ ActorEnds \/ ActorFails \/ cancel \/ ActorCancels \/ ForceStop
              \/ SyncFails \/ RewindRefused \/ RewindFails
    BY <1>3, <1>13 DEF ActorStarts, ActorEnds, ActorFails, cancel, ActorCancels, ForceStop,
                       SyncFails, RewindRefused, RewindFails, actor
  <1> QED  BY <1>4, <1>5, <1>6, <1>7, <1>8, <1>9, <1>10, <1>11, <1>12, <1>13 DEF Next

\* A step settles no Turn but the answered one of the task, after a flush.
NewlySettled(t) ==
  task # None /\ task.phase = "answered" /\ t = task.turn /\ history' = <<Native>>

SettlesOnlyAnswered == \A t \in Turns : Settled(t)' => Settled(t) \/ NewlySettled(t)

\* Entries that are Completed after a rewriting were so before.
LEMMA DiscardSettlesNothing ==
  ASSUME NEW l \in Seq(Entry), NEW target \in Nat, NEW i \in DOMAIN l,
         DiscardFrom(l, target)[i].state = "Completed"
  PROVE  l[i].state = "Completed"
  <1>1. l[i] \in Entry
    BY LenProperties, ElementOfSeq
  <1> QED  BY <1>1 DEF DiscardFrom, Entry

LEMMA SettledStep ==
  ASSUME LedgerInv, Next
  PROVE  SettlesOnlyAnswered
  <1> USE DEF SettlesOnlyAnswered
  <1>0. ledger \in Seq(Entry) /\ ValidLedger(ledger) /\ Numbered(ledger) /\ CopiesAreCurrent
    BY DEF LedgerInv, TypeOK
  <1>d. DOMAIN ledger = 1 .. Len(ledger) /\ Len(ledger) \in Nat
    BY <1>0, LenProperties
  <1>1. CASE UNCHANGED <<ledger, bindings>>
    BY <1>1 DEF Settled
  <1>2. ASSUME NEW t \in Turns, NEW s \in {"Pending", "Discarded"}, UNCHANGED bindings,
               ledger' = Append(ledger, NewEntry(t, ledger, s))
        PROVE  SettlesOnlyAnswered
    <2>1. NewEntry(t, ledger, s) \in Entry /\ NewEntry(t, ledger, s).state # "Completed"
      BY <1>0, AppendEntry DEF NewEntry
    <2>2. /\ ledger' \in Seq(Entry) /\ Len(ledger') = Len(ledger) + 1
          /\ \A i \in 1 .. Len(ledger) : ledger'[i] = ledger[i]
          /\ ledger'[Len(ledger) + 1] = NewEntry(t, ledger, s)
      BY <1>0, <1>2, <2>1, AppendProperties
    <2>3. DOMAIN ledger' = 1 .. Len(ledger) + 1
      BY <2>2, LenProperties
    <2>4. ASSUME NEW i \in DOMAIN ledger', ledger'[i].state = "Completed"
          PROVE  i \in DOMAIN ledger /\ ledger'[i] = ledger[i]
      BY <1>d, <2>1, <2>2, <2>3, <2>4
    <2> QED  BY <1>2, <2>4 DEF Settled
  <1>3. ASSUME NEW t \in Turns, NEW b \in BOOLEAN, NEW c \in Commits, prompt(t, b, c)
        PROVE  SettlesOnlyAnswered
    BY <1>1, <1>2, <1>3 DEF prompt, Written
  <1>4. ASSUME NEW r \in BOOLEAN, NEW b \in Commits, NEW c \in Commits, settle(r, b, c)
        PROVE  SettlesOnlyAnswered
    <2> DEFINE new == settle_latest(ledger)
    <2>1. /\ task # None /\ task.phase = "answered" /\ history' = <<Native>>
          /\ bindings' \subseteq bindings \cup {task.turn}
          /\ ledger' = Written(c, settle_latest(task.copy), ledger)
      BY <1>4 DEF settle, Written
    <2>2. /\ task.copy = ledger /\ Len(ledger) \in DOMAIN ledger
          /\ ledger[Len(ledger)].turn = task.turn /\ ledger[Len(ledger)].state = "Pending"
      BY <1>0, <2>1 DEF CopiesAreCurrent
    <2>3. /\ Rewritten(ledger, new)
          /\ \A j \in DOMAIN ledger : j # Len(ledger) => new[j] = ledger[j]
      BY <1>0, <2>2, RewriteEntry DEF settle_latest
    <2> HIDE DEF new
    <2>4. ledger' = ledger \/ ledger' = new
      BY <2>1, <2>2 DEF Written, new
    <2>5. ASSUME NEW t, NEW i \in DOMAIN ledger', ledger'[i].turn = t, ledger'[i].state = "Completed"
          PROVE  Settled(t) \/ t = task.turn
      BY <2>2, <2>3, <2>4, <2>5 DEF Settled, Rewritten
    <2>6. \A t : Settled(t)' => Settled(t) \/ t = task.turn
      BY <2>1, <2>5 DEF Settled
    <2> QED  BY <2>1, <2>6 DEF NewlySettled
  <1>5. ASSUME NEW t \in Turns, NEW c \in Commits, turn_binding_status(t, c)
        PROVE  SettlesOnlyAnswered
    <2> DEFINE p == EntryOf(t, ledger)
               new == [ledger EXCEPT ![p].state = "Completed"]
    <2>1. /\ p \in DOMAIN ledger /\ ledger[p].turn = t /\ ledger[p].state = "Pending"
          /\ t \in bindings /\ UNCHANGED bindings
      BY <1>5, EntryOfListed DEF turn_binding_status
    <2>2. ledger' = ledger \/ ledger' = new
      BY <1>5 DEF turn_binding_status, Written
    <2>3. /\ Rewritten(ledger, new)
          /\ \A j \in DOMAIN ledger : j # p => new[j] = ledger[j]
      BY <1>0, <2>1, RewriteEntry
    <2> HIDE DEF new, p
    <2>4. ASSUME NEW u, NEW i \in DOMAIN ledger', ledger'[i].turn = u, ledger'[i].state = "Completed"
          PROVE  Settled(u)
      BY <2>1, <2>2, <2>3, <2>4 DEF Settled, Rewritten
    <2> QED  BY <2>1, <2>4 DEF Settled
  <1>6. ASSUME NEW t \in Turns, NEW c \in Commits, mark_turn_discarded(t, c)
        PROVE  SettlesOnlyAnswered
    <2>0. UNCHANGED bindings
      BY <1>6 DEF mark_turn_discarded
    <2>1. CASE Listed(t, ledger)
      <3> DEFINE p == EntryOf(t, ledger)
                 new == [ledger EXCEPT ![p].state = "Discarded"]
      <3>1. p \in DOMAIN ledger
        BY <2>1, EntryOfListed
      <3>2. ledger' = ledger \/ ledger' = new
        BY <1>6, <2>1 DEF mark_turn_discarded, Written
      <3>3. /\ Rewritten(ledger, new) /\ new[p].state = "Discarded"
            /\ \A j \in DOMAIN ledger : j # p => new[j] = ledger[j]
        BY <1>0, <3>1, RewriteEntry
      <3> HIDE DEF new, p
      <3>4. ASSUME NEW i \in DOMAIN ledger', ledger'[i].state = "Completed"
            PROVE  i \in DOMAIN ledger /\ ledger'[i] = ledger[i]
        BY <3>2, <3>3, <3>4 DEF Rewritten
      <3> QED  BY <2>0, <3>4 DEF Settled
    <2>2. CASE ~Listed(t, ledger)
      BY <1>1, <1>2, <1>6, <2>0, <2>2 DEF mark_turn_discarded, Written
    <2> QED  BY <2>1, <2>2
  <1>7. ASSUME NEW s \in Commits, NEW r \in Commits, RewindSettles(s, r)
        PROVE  SettlesOnlyAnswered
    <2> DEFINE new == DiscardFrom(ledger, rewind.intent.target)
    <2>1. rewind.copy = ledger /\ rewind.intent.target \in Nat
      BY <1>0, <1>7 DEF RewindSettles, CopiesAreCurrent, LedgerInv, TypeOK, Rewind, Intent
    <2>2. (ledger' = ledger \/ ledger' = new) /\ UNCHANGED bindings
      BY <1>7, <2>1 DEF RewindSettles, Written
    <2>3. Rewritten(ledger, new)
      BY <1>0, <2>1, RewriteDiscard
    <2>4. \A i \in DOMAIN ledger : new[i].state = "Completed" => ledger[i].state = "Completed"
      BY <1>0, <2>1, DiscardSettlesNothing
    <2> HIDE DEF new
    <2>5. ASSUME NEW i \in DOMAIN ledger', ledger'[i].state = "Completed"
          PROVE  i \in DOMAIN ledger /\ ledger[i].state = "Completed" /\ ledger'[i].turn = ledger[i].turn
      BY <2>2, <2>3, <2>4, <2>5 DEF Rewritten
    <2> QED  BY <2>2, <2>5 DEF Settled
  <1>8. ASSUME NEW op \in Operations, NEW target \in Indices, NEW r \in Turns \cup {None},
               NEW c \in Commits, rewind_conversation(op, target, r, c)
        PROVE  SettlesOnlyAnswered
    BY <1>1, <1>8 DEF rewind_conversation
  <1>9. CASE ActorStarts \/ ActorRecords \/ ActorEnds \/ ActorFails \/ cancel \/ ActorCancels
             \/ ForceStop \/ SyncFails \/ RewindNative \/ RewindRefused \/ RewindFails
             \/ Persist \/ Crash
    BY <1>1, <1>9 DEF ActorStarts, ActorRecords, ActorEnds, ActorFails, cancel, ActorCancels,
                ForceStop, SyncFails, RewindNative, RewindRefused, RewindFails, Persist,
                Crash, evidence
  <1> HIDE DEF SettlesOnlyAnswered
  <1> QED  BY <1>3, <1>4, <1>5, <1>6, <1>7, <1>8, <1>9 DEF Next

\* What the prompt task works on, and what was handed over.
LEMMA DispatchStep ==
  ASSUME LedgerInv, ConversationInv, Next
  PROVE  /\ dispatched \subseteq dispatched'
         /\ \A t \in dispatched' : t \in dispatched \/ Listed(t, ledger')
         /\ task' # None => \/ task # None /\ task'.turn = task.turn
                            \/ task'.turn \in dispatched' /\ ~Listed(task'.turn, ledger)
  <1>1. ASSUME NEW t \in Turns, NEW b \in BOOLEAN, NEW c \in Commits, prompt(t, b, c)
        PROVE  /\ dispatched \subseteq dispatched'
               /\ \A u \in dispatched' : u \in dispatched \/ Listed(u, ledger')
               /\ task' # None => task'.turn \in dispatched' /\ ~Listed(task'.turn, ledger)
    <2>0. ~Listed(t, ledger)
      BY <1>1 DEF prompt
    <2>1. CASE c = "Committed"
      <3> DEFINE e == NewEntry(t, ledger, "Pending")
      <3>1. /\ task' = [turn |-> t, bound |-> b, copy |-> Append(ledger, e), phase |-> "awaiting"]
            /\ dispatched' = dispatched \cup {t} /\ ledger' = Append(ledger, e)
        BY <1>1, <2>1 DEF prompt, Written
      <3>2. ledger \in Seq(Entry) /\ e \in Entry /\ e.turn = t
        BY AppendEntry DEF LedgerInv, TypeOK, NewEntry
      <3> HIDE DEF e
      <3>3. /\ Len(ledger') = Len(ledger) + 1 /\ ledger' \in Seq(Entry)
            /\ ledger'[Len(ledger) + 1] = e
        BY <3>1, <3>2, AppendProperties
      <3>4. Len(ledger) + 1 \in DOMAIN ledger'
        BY <3>2, <3>3, LenProperties
      <3>5. Listed(t, ledger')
        BY <3>2, <3>3, <3>4 DEF Listed
      <3> QED  BY <2>0, <3>1, <3>5
    <2>2. CASE c # "Committed"
      BY <1>1, <2>2 DEF prompt, Idle
    <2> QED  BY <2>1, <2>2
  <1>2. CASE ActorEnds \/ ActorCancels
    <2>1. task' = task \/ (task # None /\ task' = [task EXCEPT !.phase = "answered"])
      BY <1>2 DEF ActorEnds, ActorCancels, Answered
    <2>2. task # None => task \in Task
      BY DEF LedgerInv, TypeOK
    <2>3. UNCHANGED dispatched
      BY <1>2 DEF ActorEnds, ActorCancels
    <2> QED  BY <2>1, <2>2, <2>3 DEF Task
  <1>3. ASSUME NEW r \in BOOLEAN, NEW b \in Commits, NEW c \in Commits, settle(r, b, c)
        PROVE  UNCHANGED dispatched /\ task' = None
    BY <1>3 DEF settle, EndTask
  <1>4. ASSUME NEW t \in Turns, NEW c \in Commits,
               turn_binding_status(t, c) \/ mark_turn_discarded(t, c)
        PROVE  UNCHANGED <<dispatched, task>>
    BY <1>4 DEF turn_binding_status, mark_turn_discarded, commands
  <1>5. ASSUME NEW op \in Operations, NEW target \in Indices, NEW r \in Turns \cup {None},
               NEW c \in Commits, rewind_conversation(op, target, r, c)
        PROVE  UNCHANGED <<dispatched, task>>
    BY <1>5 DEF rewind_conversation
  <1>6. ASSUME NEW s \in Commits, NEW r \in Commits, RewindSettles(s, r)
        PROVE  UNCHANGED <<dispatched, task>>
    BY <1>6 DEF RewindSettles
  <1>7. CASE ActorStarts \/ ActorRecords \/ ActorFails \/ cancel \/ ForceStop \/ SyncFails
             \/ RewindNative \/ RewindRefused \/ RewindFails \/ Persist \/ Crash
    BY <1>7 DEF ActorStarts, ActorRecords, ActorFails, cancel, ForceStop, SyncFails,
                RewindNative, RewindRefused, RewindFails, Persist, Crash, EndTask, commands
  <1> QED  BY <1>1, <1>2, <1>3, <1>4, <1>5, <1>6, <1>7 DEF Next

LEMMA ConversationInvInit == Init => ConversationInv
  <1> SUFFICES ASSUME Init PROVE ConversationInv
    OBVIOUS
  <1>1. /\ DOMAIN inbox = {} /\ DOMAIN history = {1} /\ history[1] = <<>> /\ DOMAIN ledger = {}
        /\ running = None /\ task = None /\ dispatched = {} /\ bindings = {}
    BY DEF Init
  <1>2. DOMAIN history[1] = {}
    BY <1>1
  <1>3. AbsentNeverDispatched
    BY <1>1, <1>2, ConstantsAssumption DEF AbsentNeverDispatched, Held, In
  <1>4. QueueInv
    BY <1>1 DEF QueueInv, SentOnce
  <1>5. SettledInv
    BY <1>1 DEF SettledInv, Settled
  <1> QED  BY <1>3, <1>4, <1>5 DEF ConversationInv

LEMMA ConversationInvStep ==
  ASSUME LedgerInv, ConversationInv, Next
  PROVE  ConversationInv'
  <1>1. QueueKept /\ ConversationKept /\ SettlesOnlyAnswered
    BY QueueStep, ConversationStep, SettledStep
  <1>2. \A t : Listed(t, ledger) => Listed(t, ledger')
    BY NextLedgerStep, ListedStays
  <1>3. /\ \A t \in Turns : Held(t) => t \in dispatched
        /\ \A t \in dispatched : Listed(t, ledger)
    BY DEF ConversationInv, AbsentNeverDispatched
  <1>4. AbsentNeverDispatched'
    <2>1. ASSUME NEW t \in Turns, Held(t)'
          PROVE  t \in dispatched'
      <3>1. CASE \E i \in DOMAIN history' : In(t, history'[i])
        <4>1. Held(t)
          BY <1>1, <3>1 DEF ConversationKept, Held
        <4> QED  BY <1>3, <4>1, DispatchStep
      <3>2. CASE OnItsWay(t)'
        <4>1. OnItsWay(t) => Held(t)
          BY DEF OnItsWay, Held
        <4> QED  BY <1>1, <1>3, <3>2, <4>1, DispatchStep DEF QueueKept, NewOnItsWay
      <3>3. CASE task' # None /\ task'.turn = t
        <4>1. task # None /\ task.turn = t => Held(t)
          BY DEF Held
        <4> QED  BY <1>3, <3>3, <4>1, DispatchStep
      <3> QED  BY <2>1, <3>1, <3>2, <3>3 DEF Held, OnItsWay
    <2>2. \A t \in dispatched' : Listed(t, ledger')
      BY <1>2, <1>3, DispatchStep
    <2>3. \A i \in DOMAIN history' : \A m, n \in DOMAIN history'[i] :
            history'[i][m] = history'[i][n] => m = n
      BY <1>1 DEF ConversationKept, Distinct
    <2> QED  BY <2>1, <2>2, <2>3 DEF AbsentNeverDispatched
  <1>5. SettledInv'
    <2> SUFFICES ASSUME NEW t \in Turns, Settled(t)'
                 PROVE  ~OnItsWay(t)' /\ Flushed(t, history')
      BY DEF SettledInv
    <2>1. CASE Settled(t)
      <3>1. Listed(t, ledger)
        BY <2>1 DEF Settled, Listed, LedgerInv, CopiesAreCurrent
      <3>2. ~OnItsWay(t) /\ Flushed(t, history)
        BY <2>1 DEF ConversationInv, SettledInv
      <3>3. ~OnItsWay(t)'
        BY <1>1, <3>1, <3>2 DEF QueueKept, NewOnItsWay
      <3>4. Flushed(t, history')
        BY <1>1, <3>2 DEF ConversationKept, OnItsWay
      <3> QED  BY <3>3, <3>4
    <2>2. CASE NewlySettled(t)
      <3>1. ~OnItsWay(t)
        BY <2>2 DEF NewlySettled, ConversationInv, QueueInv
      <3>2. Listed(t, ledger)
        BY <2>2 DEF NewlySettled, Listed, LedgerInv, CopiesAreCurrent
      <3>3. ~OnItsWay(t)'
        BY <1>1, <3>1, <3>2 DEF QueueKept, NewOnItsWay
      <3>4. Flushed(t, history')
        BY <2>2, Alone DEF NewlySettled
      <3> QED  BY <3>3, <3>4
    <2> QED  BY <1>1, <2>1, <2>2 DEF SettlesOnlyAnswered
  <1> QED  BY <1>1, <1>4, <1>5 DEF ConversationInv, QueueKept

LEMMA ConversationInvariant == Spec => []ConversationInv
  <1>1. LedgerInv /\ ConversationInv /\ [Next]_vars => ConversationInv'
    <2>1. ASSUME ConversationInv, UNCHANGED vars
          PROVE  ConversationInv'
      <3> USE <2>1 DEF ConversationInv, vars, evidence, commands, actor
      <3>1. AbsentNeverDispatched'
        BY DEF AbsentNeverDispatched, Held
      <3>2. QueueInv'
        BY DEF QueueInv, OnItsWay
      <3>3. SettledInv'
        BY DEF SettledInv, Settled, OnItsWay
      <3> QED  BY <3>1, <3>2, <3>3
    <2> QED  BY <2>1, ConversationInvStep
  <1> QED  BY <1>1, ConversationInvInit, LedgerInvariant, PTL DEF Spec

\* A Turn that is not in the ledger, which reconcile_run takes for "not applied", was
\* never handed to the Session actor, and no prompt is in the conversation twice.
THEOREM AbsenceIsProof == Spec => []AbsentNeverDispatched
  <1>1. ConversationInv => AbsentNeverDispatched
    BY DEF ConversationInv
  <1> QED  BY <1>1, ConversationInvariant, PTL

\* What the ledger calls Completed and the conversation holds survives a crash.
THEOREM CompletedIsDurable == Spec => []CompletedSurvivesCrash
  <1>1. ASSUME LedgerInv, ConversationInv
        PROVE  CompletedSurvivesCrash
    <2> SUFFICES ASSUME NEW i \in DOMAIN ledger, ledger[i].state = "Completed",
                        In(ledger[i].turn, Native)
                 PROVE  In(ledger[i].turn, Head(history))
      BY DEF CompletedSurvivesCrash
    <2>1. ledger[i].turn \in Turns
      <3>1. ledger[i] \in Entry
        BY <1>1, LenProperties, ElementOfSeq DEF LedgerInv, TypeOK
      <3> QED  BY <3>1 DEF Entry
    <2>2. Flushed(ledger[i].turn, history)
      BY <1>1, <2>1 DEF ConversationInv, SettledInv, Settled
    <2>3. history \in Seq(Seq(Turns)) /\ history # <<>>
      BY <1>1 DEF LedgerInv, TypeOK
    <2>4. /\ Len(history) \in DOMAIN history /\ 1 \in DOMAIN history /\ Head(history) = history[1]
          /\ Len(history) = 1 \/ 1 < Len(history)
      <3>1. Len(history) \in Nat \ {0} /\ DOMAIN history = 1 .. Len(history)
        BY <2>3, EmptySeq, LenProperties
      <3>2. Head(history) = history[1]
        BY <2>3
      <3> QED  BY <3>1, <3>2
    <2> QED  BY <2>2, <2>4 DEF Native, Flushed
  <1> QED  BY <1>1, LedgerInvariant, ConversationInvariant, PTL

-----------------------------------------------------------------------------
(* The invariant behind the receipts of recovery *)

\* The Turn whose task waits for it and is not being cancelled.
Awaited == IF task # None /\ ~cancelling THEN {task.turn} ELSE {}

\* A prompt that nobody awaits has a Cancel behind it.
StoppedIn(q, awaited) ==
  \A i \in DOMAIN q : q[i] \notin awaited \cup {Stop} => \E j \in DOMAIN q : i < j /\ q[j] = Stop

StoppedInv ==
  /\ task = None => ~cancelling
  /\ running \notin Awaited \cup {None} => In(Stop, inbox)
  /\ StoppedIn(inbox, Awaited)

\* A rewind that was executed finds the Session actor at rest, and the conversation
\* as long as the index of its target; the digests then show whose Turns it holds.
RewoundInv ==
  rewind # None /\ rewind.phase = "applied" =>
    /\ inbox = <<>> /\ running = None /\ Len(Native) = rewind.intent.target
    /\ Comparable /\ ~marked =>
         \A i \in DOMAIN ledger :
           In(ledger[i].turn, Native) => ledger[i].index < rewind.intent.target

\* Where the digests tell the Turns apart, a discarded Turn is gone for good.
DiscardedInv ==
  Comparable /\ ~marked =>
    \A i \in DOMAIN ledger : ledger[i].state = "Discarded" => ~Held(ledger[i].turn)

\* What the receipt of a recovery says of its Turn.
Recovered(intent) ==
  /\ \E i \in DOMAIN ledger :
       /\ ledger[i].turn = intent.turn /\ ledger[i].index = intent.target
       /\ ledger[i].state = "Discarded"
  /\ ~OnItsWay(intent.turn)
  /\ \A i \in DOMAIN history : \A n \in DOMAIN history[i] :
       history[i][n] = intent.turn => n <= intent.target

ReceiptsInv ==
  \A op \in Operations :
    rewinds[op].state = "Receipt" /\ rewinds[op].intent.recovery # None => Recovered(rewinds[op].intent)

ReceiptInv == StoppedInv /\ RewoundInv /\ DiscardedInv /\ ReceiptsInv

\* The live entries of a valid ledger leave out no index: the ones before an entry
\* are as many as the indices below its own, and no two have the same.
LEMMA IndicesWithoutGap ==
  ASSUME NEW l \in Seq(Entry), ValidLedger(l), Numbered(l), NEW i \in Active(l),
         NEW m \in Nat, m < l[i].index
  PROVE  \E j \in Active(l) : l[j].index = m
  <1> SUFFICES ASSUME \A j \in Active(l) : l[j].index # m
               PROVE  FALSE
    OBVIOUS
  <1> DEFINE B == {j \in Active(l) : j < i}
             n == l[i].index
             T == (0 .. n - 1) \ {m}
             f == [j \in B |-> l[j].index]
  <1>1. DOMAIN l = 1 .. Len(l) /\ Len(l) \in Nat
    BY LenProperties
  <1>2. \A j \in DOMAIN l : l[j] \in Entry /\ l[j].index \in Nat /\ j \in Nat
    <2>1. \A j \in DOMAIN l : l[j] \in Entry /\ j \in Nat
      BY <1>1, ElementOfSeq
    <2> QED  BY <2>1 DEF Entry
  <1>3. B \subseteq Active(l) /\ Active(l) \subseteq DOMAIN l /\ n \in Nat /\ Cardinality(B) = n
    BY <1>2 DEF ValidLedger, Active
  <1>4. IsFiniteSet(B)
    BY <1>3, ActiveFinite, FS_Subset
  <1>5. IsFiniteSet(T) /\ Cardinality(T) = n - 1
    <2>1. n \in Nat /\ m < n
      BY <1>3
    <2> HIDE DEF n
    <2>2. IsFiniteSet(0 .. n - 1) /\ Cardinality(0 .. n - 1) = n /\ m \in 0 .. n - 1
      <3>1. 0 \in Int /\ n - 1 \in Int /\ m \in 0 .. n - 1
        BY <2>1
      <3>2. /\ IsFiniteSet(0 .. n - 1)
            /\ Cardinality(0 .. n - 1) = IF 0 > n - 1 THEN 0 ELSE n - 1 - 0 + 1
        BY <3>1, FS_Interval
      <3> QED  BY <2>1, <3>1, <3>2
    <2> QED  BY <2>2, FS_RemoveElement
  <1>6. \A j \in B : l[j].index \in T
    <2> TAKE j \in B
    <2>1. j \in DOMAIN l /\ i \in DOMAIN l /\ j < i /\ l[j].state # "Discarded"
      BY <1>3 DEF Active
    <2>2. l[j].index < l[i].index
      BY <2>1 DEF Numbered
    <2> QED  BY <1>2, <1>3, <2>1, <2>2
  <1>7. f \in [B -> T]
    BY <1>6
  <1>8. \A x, y \in B : f[x] = f[y] => x = y
    <2> SUFFICES ASSUME NEW x \in B, NEW y \in B, l[x].index = l[y].index, x < y \/ y < x
                 PROVE  FALSE
      BY <1>2, <1>3
    <2>1. x \in DOMAIN l /\ y \in DOMAIN l /\ l[x].state # "Discarded" /\ l[y].state # "Discarded"
      BY <1>3 DEF Active
    <2>2. l[x].index < l[y].index \/ l[y].index < l[x].index
      BY <2>1 DEF Numbered
    <2> QED  BY <1>2, <2>1, <2>2
  <1>9. Cardinality(T) < Cardinality(B)
    BY <1>3, <1>5
  <1> HIDE DEF B, T, f, n
  <1> QED  BY <1>4, <1>5, <1>7, <1>8, <1>9, FS_PigeonHole

-----------------------------------------------------------------------------
(* Prompts that nobody awaits *)

LEMMA StoppedTail ==
  ASSUME NEW q \in Seq(Turns \cup {Stop}), q # <<>>, NEW w, StoppedIn(q, w)
  PROVE  /\ StoppedIn(Tail(q), w)
         /\ Head(q) \notin w \cup {Stop} => In(Stop, Tail(q))
  <1> DEFINE m == Tail(q)
  <1>1. /\ m \in Seq(Turns \cup {Stop}) /\ Len(m) = Len(q) - 1
        /\ \A i \in 1 .. Len(m) : m[i] = q[i + 1]
    BY HeadTailProperties
  <1>2. Head(q) = q[1]
    OBVIOUS
  <1> HIDE DEF m
  <1>3. DOMAIN q = 1 .. Len(q) /\ DOMAIN m = 1 .. Len(m) /\ Len(q) \in Nat \ {0}
    BY <1>1, LenProperties, EmptySeq
  <1>4. \A i \in DOMAIN m : i + 1 \in DOMAIN q /\ m[i] = q[i + 1] /\ i \in Nat \ {0}
    BY <1>1, <1>3
  <1>5. \A j \in DOMAIN q : j # 1 => j - 1 \in DOMAIN m /\ m[j - 1] = q[j]
    BY <1>1, <1>3
  <1>6. StoppedIn(m, w)
    <2> SUFFICES ASSUME NEW i \in DOMAIN m, m[i] \notin w \cup {Stop}
                 PROVE  \E j \in DOMAIN m : i < j /\ m[j] = Stop
      BY DEF StoppedIn
    <2>1. PICK j \in DOMAIN q : i + 1 < j /\ q[j] = Stop
      BY <1>4 DEF StoppedIn
    <2>2. j # 1 /\ i < j - 1
      BY <1>3, <1>4, <2>1
    <2> QED  BY <1>5, <2>1, <2>2
  <1>7. ASSUME q[1] \notin w \cup {Stop}
        PROVE  In(Stop, m)
    <2>1. PICK j \in DOMAIN q : 1 < j /\ q[j] = Stop
      BY <1>3, <1>7 DEF StoppedIn
    <2> QED  BY <1>5, <2>1 DEF In
  <1> QED  BY <1>2, <1>6, <1>7 DEF m

LEMMA StoppedAppend ==
  ASSUME NEW q \in Seq(Turns \cup {Stop}), NEW w, NEW e \in Turns \cup {Stop},
         \/ e = Stop
         \/ e \in w /\ StoppedIn(q, {})
  PROVE  StoppedIn(Append(q, e), w)
  <1> DEFINE m == Append(q, e)
  <1>1. /\ m \in Seq(Turns \cup {Stop}) /\ Len(m) = Len(q) + 1
        /\ \A i \in 1 .. Len(q) : m[i] = q[i]
        /\ m[Len(q) + 1] = e
    BY AppendProperties
  <1> HIDE DEF m
  <1>2. DOMAIN q = 1 .. Len(q) /\ DOMAIN m = 1 .. Len(q) + 1 /\ Len(q) \in Nat
    BY <1>1, LenProperties
  <1> SUFFICES ASSUME NEW i \in DOMAIN m, m[i] \notin w \cup {Stop}
               PROVE  \E j \in DOMAIN m : i < j /\ m[j] = Stop
    BY DEF StoppedIn, m
  <1>3. i \in DOMAIN q /\ m[i] = q[i]
    BY <1>1, <1>2
  <1>4. CASE e = Stop
    BY <1>1, <1>2, <1>3, <1>4
  <1>5. CASE StoppedIn(q, {})
    <2>1. PICK j \in DOMAIN q : i < j /\ q[j] = Stop
      BY <1>3, <1>5 DEF StoppedIn
    <2> QED  BY <1>1, <1>2, <2>1
  <1> QED  BY <1>4, <1>5

LEMMA StoppedStep ==
  ASSUME LedgerInv, ConversationInv, StoppedInv, Next
  PROVE  StoppedInv'
  <1>t. /\ inbox \in Seq(Turns \cup {Stop}) /\ running \in Turns \cup {None}
        /\ task \in Task \cup {None} /\ (task # None => task.turn \in Turns) /\ cancelling \in BOOLEAN
    BY DEF LedgerInv, TypeOK, Task
  <1>q. /\ running # None => ~In(running, inbox)
        /\ task # None /\ task.phase = "answered" => ~OnItsWay(task.turn)
    BY DEF ConversationInv, QueueInv
  <1>s. /\ task = None => ~cancelling
        /\ running \notin Awaited \cup {None} => In(Stop, inbox)
        /\ StoppedIn(inbox, Awaited)
    BY DEF StoppedInv
  <1>c. None \notin Turns /\ Stop \notin Turns /\ None # Stop
    BY ConstantsAssumption
  <1>1. CASE UNCHANGED <<task, cancelling, inbox, running>>
    BY <1>1, <1>s DEF StoppedInv, Awaited
  <1>2. ASSUME NEW t \in Turns, NEW b \in BOOLEAN, NEW c \in Commits, prompt(t, b, c)
        PROVE  StoppedInv'
    <2>1. CASE c # "Committed"
      BY <1>1, <1>2, <2>1 DEF prompt
    <2>2. CASE c = "Committed"
      <3>1. /\ task = None /\ inbox' = Append(inbox, t) /\ running' = running /\ cancelling' = cancelling
            /\ task' = [turn |-> t, bound |-> b, phase |-> "awaiting",
                        copy |-> Append(ledger, NewEntry(t, ledger, "Pending"))]
        BY <1>2, <2>2 DEF prompt, Idle
      <3>2. ~cancelling /\ Awaited = {} /\ task'.turn = t
        BY <1>s, <3>1 DEF Awaited
      <3>3. task' # None
        <4>1. Append(ledger, NewEntry(t, ledger, "Pending")) \in Seq(Entry)
          BY AppendEntry DEF LedgerInv, TypeOK
        <4>2. task' \in Task
          BY <3>1, <4>1 DEF Task
        <4> QED  BY <4>2, TaskAssumption
      <3>4. Awaited' = {t}
        BY <3>1, <3>2, <3>3 DEF Awaited
      <3>5. StoppedIn(inbox', Awaited')
        BY <1>s, <1>t, <3>1, <3>2, <3>4, StoppedAppend
      <3>6. running # None => In(Stop, inbox')
        BY <1>s, <1>t, <3>1, <3>2, InAppend
      <3> QED  BY <3>1, <3>2, <3>5, <3>6 DEF StoppedInv
    <2> QED  BY <2>1, <2>2
  <1>3. CASE ActorStarts
    <2>1. /\ running = None /\ inbox # <<>> /\ Head(inbox) # Stop /\ UNCHANGED <<task, cancelling>>
          /\ running' = Head(inbox) /\ inbox' = Tail(inbox)
      BY <1>3 DEF ActorStarts, commands
    <2>2. Awaited' = Awaited
      BY <2>1 DEF Awaited
    <2>3. StoppedIn(inbox', Awaited) /\ (running' \notin Awaited \cup {Stop} => In(Stop, inbox'))
      BY <1>s, <1>t, <2>1, StoppedTail
    <2> QED  BY <1>s, <2>1, <2>2, <2>3 DEF StoppedInv
  <1>4. CASE ActorEnds \/ ActorCancels
    <2>1. /\ running' = None /\ UNCHANGED cancelling
          /\ task' = task \/ (task # None /\ task' = [task EXCEPT !.phase = "answered"])
          /\ inbox' = inbox \/ (inbox # <<>> /\ inbox' = Tail(inbox))
      BY <1>4 DEF ActorEnds, ActorCancels, Answered
    <2>2. Awaited' = Awaited /\ (task' = None => task = None)
      <3>1. task # None => [task EXCEPT !.phase = "answered"] \in Task
                             /\ [task EXCEPT !.phase = "answered"].turn = task.turn
        BY <1>t DEF Task
      <3>2. task # None => [task EXCEPT !.phase = "answered"] # None
        BY <1>t, <3>1, TaskAssumption
      <3> QED  BY <2>1, <3>1, <3>2 DEF Awaited
    <2>3. StoppedIn(inbox', Awaited)
      BY <1>s, <1>t, <2>1, StoppedTail
    <2> QED  BY <1>s, <2>1, <2>2, <2>3 DEF StoppedInv
  <1>5. ASSUME task' = None, cancelling' = FALSE, UNCHANGED inbox,
               running' \in {None, running},
               task # None => ~In(task.turn, inbox) /\ running' # task.turn
        PROVE  StoppedInv'
    <2>1. Awaited' = {}
      BY <1>5 DEF Awaited
    <2>2. \A x \in Awaited : ~In(x, inbox) /\ running' # x
      BY <1>5 DEF Awaited
    <2>3. StoppedIn(inbox, {})
      BY <1>s, <2>2 DEF StoppedIn, In
    <2>4. running' # None => In(Stop, inbox)
      BY <1>s, <1>5, <2>2
    <2> QED  BY <1>5, <2>1, <2>3, <2>4 DEF StoppedInv
  <1>6. CASE ActorFails
    <2>1. CASE Answered
      <3>1. task' = None /\ cancelling' = FALSE /\ UNCHANGED inbox /\ running' = None /\ running # None
        BY <1>6, <2>1 DEF ActorFails, EndTask
      <3> QED  BY <1>5, <1>c, <1>q, <1>t, <2>1, <3>1 DEF Answered
    <2>2. CASE ~Answered
      <3>1. UNCHANGED <<task, cancelling, inbox>> /\ running' = None
        BY <1>6, <2>2 DEF ActorFails
      <3> QED  BY <1>s, <3>1 DEF StoppedInv, Awaited
    <2> QED  BY <2>1, <2>2
  <1>7. CASE cancel
    <2>1. task # None /\ inbox' = Append(inbox, Stop) /\ UNCHANGED <<task, running>> /\ cancelling' = TRUE
      BY <1>7 DEF cancel
    <2>2. StoppedIn(inbox', Awaited')
      BY <1>t, <2>1, StoppedAppend
    <2>3. In(Stop, inbox')
      BY <1>t, <2>1, InAppend
    <2> QED  BY <2>1, <2>2, <2>3 DEF StoppedInv
  <1>8. CASE ForceStop
    <2>1. cancelling /\ task' = None /\ cancelling' = FALSE /\ UNCHANGED <<inbox, running>>
      BY <1>8 DEF ForceStop, EndTask, actor
    <2>2. Awaited = {} /\ Awaited' = {}
      BY <2>1 DEF Awaited
    <2> QED  BY <1>s, <2>1, <2>2 DEF StoppedInv
  <1>9. CASE SyncFails
    <2>1. /\ task # None /\ task.phase = "answered" /\ task' = None /\ cancelling' = FALSE
          /\ UNCHANGED <<inbox, running>>
      BY <1>9 DEF SyncFails, EndTask, actor
    <2> QED  BY <1>5, <1>q, <2>1 DEF OnItsWay
  <1>10. ASSUME NEW r \in BOOLEAN, NEW b \in Commits, NEW c \in Commits, settle(r, b, c)
         PROVE  StoppedInv'
    <2>1. /\ task # None /\ task.phase = "answered" /\ task' = None /\ cancelling' = FALSE
          /\ UNCHANGED <<inbox, running>>
      BY <1>10 DEF settle, EndTask
    <2> QED  BY <1>5, <1>q, <2>1 DEF OnItsWay
  <1>11. CASE Crash
    <2>1. task' = None /\ cancelling' = FALSE /\ inbox' = <<>> /\ running' = None
      BY <1>11 DEF Crash
    <2>2. StoppedIn(inbox', Awaited')
      BY <2>1 DEF StoppedIn
    <2> QED  BY <2>1, <2>2 DEF StoppedInv
  <1>12. ASSUME NEW t \in Turns, NEW c \in Commits,
                turn_binding_status(t, c) \/ mark_turn_discarded(t, c)
         PROVE  StoppedInv'
    BY <1>1, <1>12 DEF turn_binding_status, mark_turn_discarded, commands, actor
  <1>13. ASSUME NEW op \in Operations, NEW target \in Indices, NEW r \in Turns \cup {None},
                NEW c \in Commits, rewind_conversation(op, target, r, c)
         PROVE  StoppedInv'
    BY <1>1, <1>13 DEF rewind_conversation, actor
  <1>14. ASSUME NEW s \in Commits, NEW r \in Commits, RewindSettles(s, r)
         PROVE  StoppedInv'
    BY <1>1, <1>14 DEF RewindSettles
  <1>15. CASE ActorRecords \/ RewindNative \/ RewindRefused \/ RewindFails \/ Persist
    BY <1>1, <1>15 DEF ActorRecords, RewindNative, RewindRefused, RewindFails, Persist, commands, actor
  <1> QED  BY <1>2, <1>3, <1>4, <1>6, <1>7, <1>8, <1>9, <1>10, <1>11, <1>12, <1>13, <1>14, <1>15 DEF Next

\* What x.ai/rewind/execute leaves of the conversation.
LEMMA RewindCut ==
  ASSUME LedgerInv, RewindNative
  PROVE  LET c == SubSeq(Native, 1, rewind.intent.target) IN
         /\ c \in Seq(Turns) /\ Len(c) = rewind.intent.target
         /\ \A n \in DOMAIN c : n \in DOMAIN Native /\ c[n] = Native[n]
  <1> DEFINE c == SubSeq(Native, 1, rewind.intent.target)
             target == rewind.intent.target
  <1>1. history \in Seq(Seq(Turns)) /\ history # <<>>
    BY DEF LedgerInv, TypeOK
  <1>2. Native \in Seq(Turns)
    <2>1. Len(history) \in DOMAIN history
      BY <1>1, EmptySeq, LenProperties
    <2> QED  BY <1>1, <2>1, LenProperties, ElementOfSeq DEF Native
  <1>3. target \in Nat /\ Len(Native) >= target
    BY DEF RewindNative, LedgerInv, TypeOK, Rewind, Intent
  <1>4. DOMAIN Native = 1 .. Len(Native) /\ Len(Native) \in Nat
        /\ \A n \in 1 .. Len(Native) : Native[n] \in Turns
    BY <1>2, LenProperties, ElementOfSeq
  <1>5. \A n \in 1 .. target : Native[n] \in Turns /\ n \in DOMAIN Native
    BY <1>3, <1>4
  <1>6. c \in Seq(Turns) /\ Len(c) = target /\ \A n \in 1 .. target : c[n] = Native[n]
    BY <1>3, <1>5, SubSeqProperties
  <1>7. DOMAIN c = 1 .. target
    BY <1>6, LenProperties
  <1> QED  BY <1>5, <1>6, <1>7

-----------------------------------------------------------------------------
(* What is discarded stays away *)

\* A Turn stays at its place in the conversation, unless it is the running one.
PlacesKept ==
  \A i \in DOMAIN history' : \A n \in DOMAIN history'[i] :
    \/ history'[i][n] = running
    \/ \E j \in DOMAIN history : n \in DOMAIN history[j] /\ history'[i][n] = history[j][n]

LEMMA PlacesStep ==
  ASSUME LedgerInv, Next
  PROVE  PlacesKept
  <1>h. history \in Seq(Seq(Turns)) /\ history # <<>>
    BY DEF LedgerInv, TypeOK
  <1>l. Len(history) \in DOMAIN history /\ 1 \in DOMAIN history /\ Head(history) = history[1]
    BY <1>h, EmptySeq, LenProperties
  <1>n. Native \in Seq(Turns) /\ Native = history[Len(history)]
    BY <1>h, <1>l, LenProperties, ElementOfSeq DEF Native
  <1>1. ASSUME \A i \in DOMAIN history' : \E j \in DOMAIN history : history'[i] = history[j]
        PROVE  PlacesKept
    BY <1>1 DEF PlacesKept
  <1>2. ASSUME NEW c \in Seq(Turns), history' = Append(history, c),
               \A n \in DOMAIN c : c[n] = running \/ (n \in DOMAIN Native /\ c[n] = Native[n])
        PROVE  PlacesKept
    <2>1. \A i \in DOMAIN history' : history'[i] = c \/ \E j \in DOMAIN history : history'[i] = history[j]
      BY <1>2, <1>h, Extended
    <2> QED  BY <1>2, <1>l, <1>n, <2>1 DEF PlacesKept
  <1>3. ASSUME NEW c, c = Native \/ c = Head(history), history' = <<c>>
        PROVE  PlacesKept
    <2>1. \A i \in DOMAIN history' : history'[i] = c
      BY <1>3, Alone
    <2> QED  BY <1>1, <1>3, <1>l, <1>n, <2>1
  <1>4. CASE UNCHANGED history
    BY <1>1, <1>4
  <1>5. CASE ActorRecords
    <2> DEFINE c == Append(Native, running)
    <2>1. running \in Turns /\ history' = Append(history, c)
      BY <1>5 DEF ActorRecords, LedgerInv, TypeOK
    <2>2. /\ c \in Seq(Turns) /\ Len(c) = Len(Native) + 1
          /\ \A n \in 1 .. Len(Native) : c[n] = Native[n]
          /\ c[Len(Native) + 1] = running
      BY <1>n, <2>1, AppendProperties
    <2> HIDE DEF c
    <2>3. DOMAIN Native = 1 .. Len(Native) /\ DOMAIN c = 1 .. Len(Native) + 1 /\ Len(Native) \in Nat
      BY <1>n, <2>2, LenProperties
    <2>4. \A n \in DOMAIN c : c[n] = running \/ (n \in DOMAIN Native /\ c[n] = Native[n])
      BY <2>2, <2>3
    <2> QED  BY <1>2, <2>1, <2>2, <2>4
  <1>6. CASE RewindNative
    <2> DEFINE c == SubSeq(Native, 1, rewind.intent.target)
    <2>1. history' = history \/ history' = Append(history, c)
      BY <1>6 DEF RewindNative
    <2>2. /\ c \in Seq(Turns)
          /\ \A n \in DOMAIN c : n \in DOMAIN Native /\ c[n] = Native[n]
      BY <1>6, RewindCut
    <2> HIDE DEF c
    <2> QED  BY <1>2, <1>4, <2>1, <2>2
  <1>7. CASE Persist
    BY <1>1, <1>7, <1>h, Shortened DEF Persist
  <1>8. CASE Crash
    BY <1>3, <1>8 DEF Crash
  <1>9. ASSUME NEW r \in BOOLEAN, NEW b \in Commits, NEW c \in Commits, settle(r, b, c)
        PROVE  PlacesKept
    BY <1>3, <1>9 DEF settle
  <1>10. ASSUME NEW s \in Commits, NEW r \in Commits, RewindSettles(s, r)
         PROVE  PlacesKept
    BY <1>3, <1>10 DEF RewindSettles
  <1>11. ASSUME NEW t \in Turns, NEW b \in BOOLEAN, NEW c \in Commits, prompt(t, b, c)
         PROVE  PlacesKept
    BY <1>4, <1>11 DEF prompt
  <1>12. ASSUME NEW t \in Turns, NEW c \in Commits,
                turn_binding_status(t, c) \/ mark_turn_discarded(t, c)
         PROVE  PlacesKept
    BY <1>4, <1>12 DEF turn_binding_status, mark_turn_discarded, actor
  <1>13. ASSUME NEW op \in Operations, NEW target \in Indices, NEW r \in Turns \cup {None},
                NEW c \in Commits, rewind_conversation(op, target, r, c)
         PROVE  PlacesKept
    BY <1>4, <1>13 DEF rewind_conversation, actor
  <1>14. CASE ActorStarts \/ ActorEnds \/ ActorFails \/ cancel \/ ActorCancels \/ ForceStop
              \/ SyncFails \/ RewindRefused \/ RewindFails
    BY <1>4, <1>14 DEF ActorStarts, ActorEnds, ActorFails, cancel, ActorCancels, ForceStop,
                       SyncFails, RewindRefused, RewindFails, actor
  <1> QED  BY <1>5, <1>6, <1>7, <1>8, <1>9, <1>10, <1>11, <1>12, <1>13, <1>14 DEF Next

\* Only a Turn that is new to the ledger comes into the conversation or on its way.
LEMMA HeldStep ==
  ASSUME LedgerInv, ConversationInv, Next, NEW t \in Turns, Listed(t, ledger), Held(t)'
  PROVE  Held(t)
  <1>1. QueueKept /\ ConversationKept
    BY QueueStep, ConversationStep
  <1>2. CASE \E i \in DOMAIN history' : In(t, history'[i])
    BY <1>1, <1>2 DEF ConversationKept, Held
  <1>3. CASE OnItsWay(t)'
    BY <1>1, <1>3 DEF QueueKept, NewOnItsWay, OnItsWay, Held
  <1>4. CASE task' # None /\ task'.turn = t
    BY <1>4, DispatchStep DEF Held
  <1> QED  BY <1>2, <1>3, <1>4 DEF Held, OnItsWay

\* What the Host did not discard, a rewind did.
LEMMA DiscardStep ==
  ASSUME LedgerInv, Next, ~marked', NEW i \in DOMAIN ledger', ledger'[i].state = "Discarded"
  PROVE  /\ i \in DOMAIN ledger
         /\ \/ ledger[i].state = "Discarded"
            \/ /\ ledger[i].index >= rewind.intent.target
               /\ \E s, r \in Commits : RewindSettles(s, r)
  <1>0. ledger \in Seq(Entry) /\ ValidLedger(ledger) /\ Numbered(ledger) /\ CopiesAreCurrent
    BY DEF LedgerInv, TypeOK
  <1>d. DOMAIN ledger = 1 .. Len(ledger) /\ Len(ledger) \in Nat
    BY <1>0, LenProperties
  <1>1. CASE UNCHANGED ledger
    BY <1>1
  <1>2. ASSUME NEW t \in Turns, NEW b \in BOOLEAN, NEW c \in Commits, prompt(t, b, c)
        PROVE  i \in DOMAIN ledger /\ ledger[i].state = "Discarded"
    <2> DEFINE e == NewEntry(t, ledger, "Pending")
    <2>1. ledger' = ledger \/ ledger' = Append(ledger, e)
      BY <1>2 DEF prompt, Written
    <2>2. e \in Entry /\ e.state = "Pending"
      BY <1>0, AppendEntry DEF NewEntry
    <2> HIDE DEF e
    <2>3. CASE ledger' = Append(ledger, e)
      <3>1. /\ ledger' \in Seq(Entry) /\ Len(ledger') = Len(ledger) + 1
            /\ \A j \in 1 .. Len(ledger) : ledger'[j] = ledger[j]
            /\ ledger'[Len(ledger) + 1] = e
        BY <1>0, <2>2, <2>3, AppendProperties
      <3>2. i \in 1 .. Len(ledger) + 1
        BY <3>1, LenProperties
      <3> QED  BY <1>d, <2>2, <3>1, <3>2
    <2> QED  BY <2>1, <2>3
  <1>3. ASSUME NEW p \in DOMAIN ledger, UNCHANGED marked,
               ledger' = ledger \/ ledger' = [ledger EXCEPT ![p].state = "Completed"]
        PROVE  i \in DOMAIN ledger /\ ledger[i].state = "Discarded"
    <2> DEFINE new == [ledger EXCEPT ![p].state = "Completed"]
    <2>1. /\ DOMAIN new = DOMAIN ledger
          /\ \A j \in DOMAIN ledger : j # p => new[j] = ledger[j]
          /\ new[p].state = "Completed"
      <3>1. ledger[p] \in Entry
        BY <1>0, <1>d, ElementOfSeq
      <3>2. new[p] = [ledger[p] EXCEPT !.state = "Completed"]
        BY <1>0
      <3>3. new[p].state = "Completed"
        BY <3>1, <3>2 DEF Entry
      <3> QED  BY <1>0, <3>3
    <2> HIDE DEF new
    <2>2. ledger' = ledger \/ ledger' = new
      BY <1>3 DEF new
    <2> QED  BY <2>1, <2>2
  <1>4. ASSUME NEW r \in BOOLEAN, NEW b \in Commits, NEW c \in Commits, settle(r, b, c)
        PROVE  i \in DOMAIN ledger /\ ledger[i].state = "Discarded"
    <2>1. task.copy = ledger /\ Len(ledger) \in DOMAIN ledger /\ UNCHANGED marked
      BY <1>0, <1>4 DEF settle, CopiesAreCurrent
    <2>2. ledger' = ledger \/ ledger' = settle_latest(ledger)
      BY <1>4, <2>1 DEF settle, Written
    <2> QED  BY <1>3, <2>1, <2>2 DEF settle_latest
  <1>5. ASSUME NEW t \in Turns, NEW c \in Commits, turn_binding_status(t, c)
        PROVE  i \in DOMAIN ledger /\ ledger[i].state = "Discarded"
    <2>1. EntryOf(t, ledger) \in DOMAIN ledger /\ UNCHANGED marked
      BY <1>5, EntryOfListed DEF turn_binding_status
    <2>2. ledger' = ledger \/ ledger' = [ledger EXCEPT ![EntryOf(t, ledger)].state = "Completed"]
      BY <1>5 DEF turn_binding_status, Written
    <2> QED  BY <1>3, <2>1, <2>2
  <1>6. ASSUME NEW t \in Turns, NEW c \in Commits, mark_turn_discarded(t, c)
        PROVE  FALSE
    BY <1>6 DEF mark_turn_discarded
  <1>7. ASSUME NEW s \in Commits, NEW r \in Commits, RewindSettles(s, r)
        PROVE  /\ i \in DOMAIN ledger
               /\ ledger[i].state = "Discarded" \/ ledger[i].index >= rewind.intent.target
    <2>1. rewind.copy = ledger
      BY <1>0, <1>7 DEF RewindSettles, CopiesAreCurrent
    <2>2. ledger' = ledger \/ ledger' = DiscardFrom(ledger, rewind.intent.target)
      BY <1>7, <2>1 DEF RewindSettles, Written
    <2> QED  BY <2>2 DEF DiscardFrom
  <1>8. ASSUME NEW op \in Operations, NEW target \in Indices, NEW r \in Turns \cup {None},
               NEW c \in Commits, rewind_conversation(op, target, r, c)
        PROVE  UNCHANGED ledger
    BY <1>8 DEF rewind_conversation
  <1>9. CASE ActorStarts \/ ActorRecords \/ ActorEnds \/ ActorFails \/ cancel \/ ActorCancels
             \/ ForceStop \/ SyncFails \/ RewindNative \/ RewindRefused \/ RewindFails
             \/ Persist \/ Crash
    BY <1>1, <1>9 DEF ActorStarts, ActorRecords, ActorEnds, ActorFails, cancel, ActorCancels,
                ForceStop, SyncFails, RewindNative, RewindRefused, RewindFails, Persist,
                Crash, evidence
  <1> QED  BY <1>1, <1>2, <1>4, <1>5, <1>6, <1>7, <1>8, <1>9 DEF Next

\* Turns that can be told apart could be told apart before, and the Host's hand is
\* remembered.
LEMMA ComparableBefore ==
  ASSUME LedgerInv, Next, Comparable', ~marked'
  PROVE  Comparable /\ ~marked
  <1>1. KeepsEntries
    BY KeepsEntriesStep
  <1>2. Comparable
    BY <1>1 DEF KeepsEntries, Comparable
  <1>3. marked => marked'
    <2>1. ASSUME NEW t \in Turns, NEW b \in BOOLEAN, NEW c \in Commits, prompt(t, b, c)
          PROVE  UNCHANGED marked
      BY <2>1 DEF prompt
    <2>2. ASSUME NEW r \in BOOLEAN, NEW b \in Commits, NEW c \in Commits, settle(r, b, c)
          PROVE  UNCHANGED marked
      BY <2>2 DEF settle
    <2>3. ASSUME NEW t \in Turns, NEW c \in Commits,
                 turn_binding_status(t, c) \/ mark_turn_discarded(t, c)
          PROVE  marked' = marked \/ marked' = TRUE
      BY <2>3 DEF turn_binding_status, mark_turn_discarded
    <2>4. ASSUME NEW op \in Operations, NEW target \in Indices, NEW r \in Turns \cup {None},
                 NEW c \in Commits, rewind_conversation(op, target, r, c)
          PROVE  UNCHANGED marked
      BY <2>4 DEF rewind_conversation
    <2>5. ASSUME NEW s \in Commits, NEW r \in Commits, RewindSettles(s, r)
          PROVE  UNCHANGED marked
      BY <2>5 DEF RewindSettles
    <2>6. CASE ActorStarts \/ ActorRecords \/ ActorEnds \/ ActorFails \/ cancel \/ ActorCancels
               \/ ForceStop \/ SyncFails \/ RewindNative \/ RewindRefused \/ RewindFails
               \/ Persist \/ Crash
      BY <2>6 DEF ActorStarts, ActorRecords, ActorEnds, ActorFails, cancel, ActorCancels,
                ForceStop, SyncFails, RewindNative, RewindRefused, RewindFails, Persist, Crash
    <2> QED  BY <2>1, <2>2, <2>3, <2>4, <2>5, <2>6 DEF Next
  <1> QED  BY <1>2, <1>3

LEMMA DiscardedStep ==
  ASSUME LedgerInv, ConversationInv, RewoundInv, DiscardedInv, Next
  PROVE  DiscardedInv'
  <1> SUFFICES ASSUME Comparable', ~marked', NEW i \in DOMAIN ledger',
                      ledger'[i].state = "Discarded", NEW t, t = ledger'[i].turn, Held(t)'
               PROVE  FALSE
    BY DEF DiscardedInv, Held
  <1>1. Comparable /\ ~marked
    BY ComparableBefore
  <1>2. i \in DOMAIN ledger
    BY DiscardStep
  <1>3. ledger[i].turn = t
    BY <1>2, KeepsEntriesStep DEF KeepsEntries
  <1>4. ledger[i] \in Entry /\ ledger[i].index \in Nat /\ t \in Turns /\ Listed(t, ledger)
    <2>1. ledger[i] \in Entry
      BY <1>2, LenProperties, ElementOfSeq DEF LedgerInv, TypeOK
    <2> QED  BY <1>2, <1>3, <2>1 DEF Entry, Listed
  <1>5. CASE ledger[i].state = "Discarded"
    <2>1. ~Held(t)
      BY <1>1, <1>2, <1>3, <1>5 DEF DiscardedInv
    <2> QED  BY <1>4, <2>1, HeldStep
  <1>6. ASSUME NEW s \in Commits, NEW r \in Commits, RewindSettles(s, r),
               ledger[i].index >= rewind.intent.target
        PROVE  FALSE
    <2>1. /\ rewind # None /\ rewind.phase = "applied" /\ history' = <<Native>>
          /\ UNCHANGED <<task, inbox, running>>
      BY <1>6 DEF RewindSettles
    <2>2. /\ inbox = <<>> /\ running = None
          /\ In(t, Native) => ledger[i].index < rewind.intent.target
      BY <1>1, <1>2, <1>3, <2>1 DEF RewoundInv
    <2>3. task = None
      BY <2>1 DEF LedgerInv, CopiesAreCurrent
    <2>4. ~In(t, Native)
      <3>1. rewind.intent.target \in Nat
        BY <2>1 DEF LedgerInv, TypeOK, Rewind, Intent
      <3> QED  BY <1>4, <1>6, <2>2, <3>1
    <2>5. \A j \in DOMAIN history' : ~In(t, history'[j])
      BY <2>1, <2>4, Alone
    <2>6. ~In(t, inbox')
      BY <2>1, <2>2 DEF In
    <2>7. t # None
      BY <1>4, ConstantsAssumption
    <2> QED  BY <1>3, <2>1, <2>2, <2>3, <2>5, <2>6, <2>7 DEF Held
  <1> QED  BY <1>5, <1>6, DiscardStep

\* The end of a list of states after a step that adds one or takes the first.
LEMMA LastOfAppend ==
  ASSUME NEW h \in Seq(Seq(Turns)), NEW c \in Seq(Turns)
  PROVE  Append(h, c)[Len(Append(h, c))] = c
  BY AppendProperties, LenProperties

LEMMA LastOfTail ==
  ASSUME NEW h \in Seq(Seq(Turns)), Len(h) > 1
  PROVE  Tail(h)[Len(Tail(h))] = h[Len(h)]
  <1>1. h # <<>> /\ Len(h) \in Nat
    BY LenProperties
  <1>2. Len(Tail(h)) = Len(h) - 1 /\ \A i \in 1 .. Len(Tail(h)) : Tail(h)[i] = h[i + 1]
    BY <1>1, HeadTailProperties
  <1> QED  BY <1>1, <1>2

\* A rewind reaches the Session actor when nothing is left for it to do: what no task
\* awaits was cancelled before.  If the digests tell the Turns apart, the Turn at a
\* place before the target is the live entry with the index of that place.
LEMMA RewindNativeApplies ==
  ASSUME LedgerInv, ConversationInv, StoppedInv, DiscardedInv, RewindNative,
         rewind' # None, rewind'.phase = "applied"
  PROVE  RewoundInv'
  <1> DEFINE target == rewind.intent.target
             c == SubSeq(Native, 1, target)
  <1>0. ledger \in Seq(Entry) /\ ValidLedger(ledger) /\ Numbered(ledger) /\ CopiesAreCurrent
    BY DEF LedgerInv, TypeOK
  <1>h. history \in Seq(Seq(Turns)) /\ history # <<>>
    BY DEF LedgerInv, TypeOK
  <1>l. Len(history) \in DOMAIN history
    BY <1>h, EmptySeq, LenProperties
  <1>n. Native \in Seq(Turns) /\ Native = history[Len(history)]
    BY <1>h, <1>l, LenProperties, ElementOfSeq DEF Native
  <1>r. rewind \in Rewind /\ target \in Nat
    BY DEF RewindNative, LedgerInv, TypeOK, Rewind, Intent
  <1>1. /\ inbox = <<>> /\ UNCHANGED <<inbox, running, marked, ledger>>
        /\ rewind # None /\ rewind.copy = ledger
    BY <1>0 DEF RewindNative, CopiesAreCurrent, evidence
  <1>2. rewind'.intent = rewind.intent
    <2>1. rewind' = [rewind EXCEPT !.phase = "applied"]
      BY DEF RewindNative
    <2> QED  BY <1>r, <2>1 DEF Rewind
  <1>3. running = None
    <2>1. task = None
      BY <1>0, <1>1 DEF CopiesAreCurrent
    <2>2. Awaited = {} /\ ~In(Stop, inbox)
      BY <1>1, <2>1 DEF Awaited, In
    <2> QED  BY <2>2 DEF StoppedInv
  <1>4. /\ Native' \in Seq(Turns) /\ Len(Native') = target
        /\ \A n \in DOMAIN Native' : n \in DOMAIN Native /\ Native'[n] = Native[n]
    <2>1. CASE Len(Native) > target
      <3>1. history' = Append(history, c)
        BY <2>1 DEF RewindNative
      <3>2. /\ c \in Seq(Turns) /\ Len(c) = target
            /\ \A n \in DOMAIN c : n \in DOMAIN Native /\ c[n] = Native[n]
        BY RewindCut
      <3> HIDE DEF c
      <3>3. Native' = c
        BY <1>h, <3>1, <3>2, LastOfAppend DEF Native
      <3> QED  BY <3>2, <3>3
    <2>2. CASE ~(Len(Native) > target)
      <3>1. UNCHANGED history /\ Len(Native) >= target
        BY <2>2 DEF RewindNative
      <3>2. Len(Native) \in Nat
        BY <1>n, LenProperties
      <3>3. Len(Native) = target
        BY <1>r, <2>2, <3>1, <3>2
      <3> QED  BY <1>n, <3>1, <3>3 DEF Native
    <2> QED  BY <2>1, <2>2
  <1> HIDE DEF c
  <1>5. ASSUME Comparable, ~marked, NEW i \in DOMAIN ledger, In(ledger[i].turn, Native')
        PROVE  ledger[i].index < target
    <2>1. PICK n \in DOMAIN Native' : Native'[n] = ledger[i].turn
      BY <1>5 DEF In
    <2>2. n \in DOMAIN Native /\ Native[n] = ledger[i].turn /\ n \in 1 .. target
      BY <1>4, <2>1, LenProperties
    <2>3. ledger[i].state # "Discarded"
      <3>1. Held(ledger[i].turn)
        BY <1>l, <1>n, <2>2 DEF Held, In
      <3> QED  BY <1>5, <3>1 DEF DiscardedInv
    <2>4. i \in Active(ledger)
      BY <2>3 DEF Active
    <2>5. ledger[i].index \in Nat
      <3>1. ledger[i] \in Entry
        BY <1>0, LenProperties, ElementOfSeq
      <3> QED  BY <3>1 DEF Entry
    <2> SUFFICES ASSUME ledger[i].index >= target
                 PROVE  FALSE
      BY <1>r, <2>5
    <2>6. n - 1 \in Nat /\ n - 1 < ledger[i].index /\ n - 1 < target
      BY <1>r, <2>2, <2>5
    <2>7. PICK j \in Active(ledger) : ledger[j].index = n - 1
      BY <1>0, <2>4, <2>6, IndicesWithoutGap
    <2>8. j \in DOMAIN ledger
      BY DEF Active
    <2>9. SamePrompt(ledger[j].turn, Native[n])
      BY <1>1, <2>2, <2>7 DEF RewindNative, PrefixAgrees
    <2>10. j = i
      BY <1>5, <2>2, <2>8, <2>9 DEF SamePrompt, Comparable
    <2> QED  BY <1>r, <2>5, <2>6, <2>7, <2>10
  <1>6. Comparable' => Comparable
    BY <1>1 DEF Comparable
  <1> HIDE DEF target
  <1> QED  BY <1>1, <1>2, <1>3, <1>4, <1>5, <1>6 DEF RewoundInv, target

LEMMA RewoundStep ==
  ASSUME LedgerInv, ConversationInv, StoppedInv, DiscardedInv, RewoundInv, Next
  PROVE  RewoundInv'
  <1> SUFFICES ASSUME rewind' # None, rewind'.phase = "applied"
               PROVE  RewoundInv'
    BY DEF RewoundInv
  <1>0. rewind # None => task = None /\ ~cancelling
    BY DEF LedgerInv, CopiesAreCurrent, StoppedInv
  <1>a. rewind # None /\ rewind.phase = "applied" => inbox = <<>> /\ running = None
    BY DEF RewoundInv
  <1>1. CASE RewindNative
    BY <1>1, RewindNativeApplies
  <1>2. CASE Persist
    <2>1. UNCHANGED <<rewind, inbox, running, ledger, marked>>
      BY <1>2 DEF Persist, evidence, commands
    <2>2. history \in Seq(Seq(Turns)) /\ Len(history) > 1 /\ history' = Tail(history)
      BY <1>2 DEF Persist, LedgerInv, TypeOK
    <2>3. Native' = Native
      BY <2>2, LastOfTail DEF Native
    <2>4. Comparable' = Comparable
      BY <2>1 DEF Comparable
    <2> QED  BY <2>1, <2>3, <2>4 DEF RewoundInv
  <1>3. ASSUME NEW t \in Turns, NEW b \in BOOLEAN, NEW c \in Commits, prompt(t, b, c)
        PROVE  FALSE
    BY <1>3 DEF prompt, Idle
  <1>4. ASSUME NEW r \in BOOLEAN, NEW b \in Commits, NEW c \in Commits, settle(r, b, c)
        PROVE  FALSE
    BY <1>0, <1>4 DEF settle
  <1>5. ASSUME NEW t \in Turns, NEW c \in Commits,
               turn_binding_status(t, c) \/ mark_turn_discarded(t, c)
        PROVE  FALSE
    BY <1>5 DEF turn_binding_status, mark_turn_discarded, Idle, commands
  <1>6. ASSUME NEW op \in Operations, NEW target \in Indices, NEW r \in Turns \cup {None},
               NEW c \in Commits, rewind_conversation(op, target, r, c)
        PROVE  FALSE
    <2>1. rewind'.phase = "native"
      BY <1>6 DEF rewind_conversation
    <2> QED  BY <2>1
  <1>7. ASSUME NEW s \in Commits, NEW r \in Commits, RewindSettles(s, r)
        PROVE  FALSE
    BY <1>7 DEF RewindSettles
  <1>8. CASE RewindRefused \/ RewindFails \/ Crash
    BY <1>8 DEF RewindRefused, RewindFails, Crash
  <1>9. CASE ActorStarts \/ ActorRecords \/ ActorEnds \/ ActorFails \/ cancel \/ ActorCancels
             \/ ForceStop \/ SyncFails
    <2>1. UNCHANGED rewind
      BY <1>9 DEF ActorStarts, ActorRecords, ActorEnds, ActorFails, cancel, ActorCancels,
                  ForceStop, SyncFails, commands
    <2>2. rewind # None /\ task = None /\ ~cancelling /\ inbox = <<>> /\ running = None
      BY <1>0, <1>a, <2>1
    <2> QED  BY <1>9, <2>2 DEF ActorStarts, ActorRecords, ActorEnds, ActorFails, cancel,
                               ActorCancels, ForceStop, SyncFails
  <1> QED  BY <1>1, <1>2, <1>3, <1>4, <1>5, <1>6, <1>7, <1>8, <1>9 DEF Next

\* A receipt is written by the end of a rewind, after the ledger.
LEMMA ReceiptStep ==
  ASSUME LedgerInv, Next, NEW op \in Operations, rewinds'[op].state = "Receipt"
  PROVE  \/ rewinds'[op] = rewinds[op]
         \/ /\ rewind # None /\ rewind.phase = "applied" /\ rewinds'[op].intent = rewind.intent
            /\ ledger' = DiscardFrom(ledger, rewind.intent.target)
            /\ history' = <<Native>> /\ UNCHANGED <<inbox, running>>
  <1>0. DOMAIN rewinds = Operations
    BY DEF LedgerInv, TypeOK
  <1>1. ASSUME NEW o \in Operations, NEW target \in Indices, NEW r \in Turns \cup {None},
               NEW c \in Commits, rewind_conversation(o, target, r, c)
        PROVE  rewinds'[op] = rewinds[op]
    <2>1. PICK intent : rewinds' = [rewinds EXCEPT ![o] =
                 Written(c, [state |-> "Intent", intent |-> intent], rewinds[o])]
      BY <1>1 DEF rewind_conversation
    <2> QED  BY <1>0, <2>1 DEF Written
  <1>2. ASSUME NEW s \in Commits, NEW r \in Commits, RewindSettles(s, r), rewinds'[op] # rewinds[op]
        PROVE  /\ rewind # None /\ rewind.phase = "applied" /\ rewinds'[op].intent = rewind.intent
               /\ ledger' = DiscardFrom(ledger, rewind.intent.target)
               /\ history' = <<Native>> /\ UNCHANGED <<inbox, running>>
    <2>1. /\ rewind # None /\ rewind.phase = "applied" /\ (s # "Committed" => r = "Failed")
          /\ history' = <<Native>> /\ UNCHANGED <<inbox, running>>
          /\ ledger' = Written(s, DiscardFrom(rewind.copy, rewind.intent.target), ledger)
          /\ rewinds' = [rewinds EXCEPT ![rewind.op] =
                           Written(r, [state |-> "Receipt", intent |-> rewind.intent], @)]
      BY <1>2 DEF RewindSettles
    <2>2. op = rewind.op /\ r # "Failed"
      BY <1>0, <1>2, <2>1 DEF Written
    <2>3. rewinds'[op] = [state |-> "Receipt", intent |-> rewind.intent]
      BY <1>0, <2>1, <2>2 DEF Written
    <2>4. rewind.copy = ledger /\ s = "Committed"
      BY <2>1, <2>2 DEF LedgerInv, CopiesAreCurrent
    <2> QED  BY <2>1, <2>3, <2>4 DEF Written
  <1>3. ASSUME NEW t \in Turns, NEW b \in BOOLEAN, NEW c \in Commits, prompt(t, b, c)
        PROVE  UNCHANGED rewinds
    BY <1>3 DEF prompt
  <1>4. ASSUME NEW r \in BOOLEAN, NEW b \in Commits, NEW c \in Commits, settle(r, b, c)
        PROVE  UNCHANGED rewinds
    BY <1>4 DEF settle
  <1>5. ASSUME NEW t \in Turns, NEW c \in Commits,
               turn_binding_status(t, c) \/ mark_turn_discarded(t, c)
        PROVE  UNCHANGED rewinds
    BY <1>5 DEF turn_binding_status, mark_turn_discarded
  <1>6. CASE ActorStarts \/ ActorRecords \/ ActorEnds \/ ActorFails \/ cancel \/ ActorCancels
             \/ ForceStop \/ SyncFails \/ RewindNative \/ RewindRefused \/ RewindFails
             \/ Persist \/ Crash
    BY <1>6 DEF ActorStarts, ActorRecords, ActorEnds, ActorFails, cancel, ActorCancels,
                ForceStop, SyncFails, RewindNative, RewindRefused, RewindFails, Persist,
                Crash, evidence
  <1> QED  BY <1>1, <1>2, <1>3, <1>4, <1>5, <1>6 DEF Next

LEMMA ReceiptsStep ==
  ASSUME LedgerInv, ConversationInv, RewoundInv, ReceiptsInv, Next
  PROVE  ReceiptsInv'
  <1> SUFFICES ASSUME NEW op \in Operations, NEW intent, intent = rewinds'[op].intent,
                      rewinds'[op].state = "Receipt", intent.recovery # None
               PROVE  Recovered(intent)'
    BY DEF ReceiptsInv, Recovered, OnItsWay
  <1>i. intent.turn \in Turns /\ intent.target \in Nat
    <2>1. LedgerInv'
      BY LedgerInvStep
    <2>2. rewinds' \in [Operations -> {NoIntent} \cup [state : {"Intent", "Receipt"}, intent : Intent]]
      BY <2>1 DEF LedgerInv, TypeOK
    <2>3. rewinds'[op] \in [state : {"Intent", "Receipt"}, intent : Intent]
      BY <2>2 DEF NoIntent
    <2> QED  BY <2>3 DEF Intent
  <1>k. KeepsEntries
    BY KeepsEntriesStep
  <1>1. CASE rewinds'[op] = rewinds[op]
    <2>1. Recovered(intent)
      BY <1>1 DEF ReceiptsInv
    <2>2. PICK i \in DOMAIN ledger :
            /\ ledger[i].turn = intent.turn /\ ledger[i].index = intent.target
            /\ ledger[i].state = "Discarded"
      BY <2>1 DEF Recovered
    <2>3. /\ i \in DOMAIN ledger' /\ ledger'[i].turn = intent.turn
          /\ ledger'[i].index = intent.target /\ ledger'[i].state = "Discarded"
      BY <1>k, <2>2 DEF KeepsEntries
    <2>4. ~OnItsWay(intent.turn) /\ running # intent.turn
      BY <2>1 DEF Recovered, OnItsWay
    <2>5. ~OnItsWay(intent.turn)'
      <3>1. Listed(intent.turn, ledger)
        BY <2>2 DEF Listed
      <3> QED  BY <1>i, <2>4, <3>1, QueueStep DEF QueueKept, NewOnItsWay
    <2>6. \A j \in DOMAIN history' : \A n \in DOMAIN history'[j] :
            history'[j][n] = intent.turn => n <= intent.target
      BY <2>1, <2>4, PlacesStep DEF PlacesKept, Recovered
    <2> QED  BY <2>3, <2>5, <2>6 DEF Recovered
  <1>2. ASSUME rewind # None, rewind.phase = "applied", intent = rewind.intent,
               ledger' = DiscardFrom(ledger, rewind.intent.target),
               history' = <<Native>>, UNCHANGED <<inbox, running>>
        PROVE  Recovered(intent)'
    <2>1. inbox = <<>> /\ running = None /\ Len(Native) = intent.target
      BY <1>2 DEF RewoundInv
    <2>2. PICK i \in DOMAIN ledger :
            ledger[i].turn = intent.turn /\ ledger[i].index = intent.target
      BY <1>2 DEF LedgerInv, RecoveriesTarget, TargetsTail
    <2>3. ledger \in Seq(Entry) /\ ledger[i] \in Entry
      BY LenProperties, ElementOfSeq DEF LedgerInv, TypeOK
    <2>4. /\ i \in DOMAIN ledger' /\ ledger'[i].turn = intent.turn
          /\ ledger'[i].index = intent.target /\ ledger'[i].state = "Discarded"
      <3>1. i \in DOMAIN ledger' /\ ledger'[i] = [ledger[i] EXCEPT !.state = "Discarded"]
        BY <1>2, <1>i, <2>2 DEF DiscardFrom
      <3> QED  BY <2>2, <2>3, <3>1 DEF Entry
    <2>5. ~OnItsWay(intent.turn)'
      BY <1>2, <1>i, <2>1, ConstantsAssumption DEF OnItsWay, In
    <2>6. ASSUME NEW j \in DOMAIN history', NEW n \in DOMAIN history'[j]
          PROVE  n <= intent.target
      <3>1. history'[j] = Native
        BY <1>2, Alone
      <3>2. history \in Seq(Seq(Turns)) /\ history # <<>>
        BY DEF LedgerInv, TypeOK
      <3>3. Len(history) \in DOMAIN history
        BY <3>2, EmptySeq, LenProperties
      <3>4. Native \in Seq(Turns)
        BY <3>2, <3>3, LenProperties, ElementOfSeq DEF Native
      <3>5. DOMAIN Native = 1 .. Len(Native)
        BY <3>4, LenProperties
      <3> QED  BY <1>i, <2>1, <3>1, <3>5
    <2> QED  BY <2>4, <2>5, <2>6 DEF Recovered
  <1> QED  BY <1>1, <1>2, ReceiptStep

LEMMA ReceiptInvInit == Init => ReceiptInv
  <1> SUFFICES ASSUME Init PROVE ReceiptInv
    OBVIOUS
  <1>1. /\ DOMAIN inbox = {} /\ DOMAIN ledger = {} /\ running = None /\ task = None
        /\ ~cancelling /\ rewind = None
    BY DEF Init
  <1>2. StoppedInv
    BY <1>1 DEF StoppedInv, StoppedIn
  <1>3. RewoundInv /\ DiscardedInv
    BY <1>1 DEF RewoundInv, DiscardedInv
  <1>4. ReceiptsInv
    BY DEF Init, ReceiptsInv, NoIntent
  <1> QED  BY <1>2, <1>3, <1>4 DEF ReceiptInv

LEMMA ReceiptInvariant == Spec => []ReceiptInv
  <1>1. LedgerInv /\ ConversationInv /\ ReceiptInv /\ [Next]_vars => ReceiptInv'
    <2>1. ASSUME LedgerInv, ConversationInv, ReceiptInv, Next
          PROVE  ReceiptInv'
      BY <2>1, StoppedStep, RewoundStep, DiscardedStep, ReceiptsStep DEF ReceiptInv
    <2>2. ASSUME ReceiptInv, UNCHANGED vars
          PROVE  ReceiptInv'
      <3> USE <2>2 DEF ReceiptInv, vars, evidence, commands, actor
      <3>1. StoppedInv'
        BY DEF StoppedInv, Awaited
      <3>2. RewoundInv'
        BY DEF RewoundInv, Comparable, Native
      <3>3. DiscardedInv'
        BY DEF DiscardedInv, Comparable, Held
      <3>4. ReceiptsInv'
        BY DEF ReceiptsInv, Recovered, OnItsWay
      <3> QED  BY <3>1, <3>2, <3>3, <3>4
    <2> QED  BY <2>1, <2>2
  <1> QED  BY <1>1, ReceiptInvInit, LedgerInvariant, ConversationInvariant, PTL DEF Spec

\* What reconcile_run declares not applied is not in the conversation; where the
\* digests cannot tell, or the Host edited the ledger, it is not at its place.
THEOREM NotAppliedIsProved == Spec => []NotAppliedIsTrue
  <1>1. ASSUME LedgerInv, ConversationInv, ReceiptInv
        PROVE  NotAppliedIsTrue
    <2> SUFFICES ASSUME NEW t \in Turns, NEW op \in Operations,
                        "NotApplied" \in Decisions(t, op), Held(t)
                 PROVE  /\ ~Comparable \/ marked
                        /\ \A i \in DOMAIN history : \A n \in DOMAIN history[i] :
                             history[i][n] = t => n <= ledger[EntryOf(t, ledger)].index
      BY DEF NotAppliedIsTrue
    <2> DEFINE e == EntryOf(t, ledger)
    <2>1. Listed(t, ledger)
      BY <1>1 DEF ConversationInv, AbsentNeverDispatched
    <2>2. e \in DOMAIN ledger /\ ledger[e].turn = t
      BY <2>1, EntryOfListed
    <2>3. ProvesNotApplied(op, ledger[e])
      BY <2>1 DEF Decisions
    <2> HIDE DEF e
    <2>4. /\ rewinds[op].state = "Receipt" /\ rewinds[op].intent.recovery = t
          /\ rewinds[op].intent.turn = t /\ rewinds[op].intent.target = ledger[e].index
      BY <2>2, <2>3 DEF ProvesNotApplied
    <2>5. Recovered(rewinds[op].intent)
      BY <1>1, <2>4, ConstantsAssumption DEF ReceiptInv, ReceiptsInv
    <2>6. PICK i \in DOMAIN ledger : ledger[i].turn = t /\ ledger[i].state = "Discarded"
      BY <2>4, <2>5 DEF Recovered
    <2>7. ~Comparable \/ marked
      BY <1>1, <2>6 DEF ReceiptInv, DiscardedInv
    <2> QED  BY <2>4, <2>5, <2>7 DEF Recovered, e
  <1> QED  BY <1>1, LedgerInvariant, ConversationInvariant, ReceiptInvariant, PTL

\* Where the digests tell the Turns of the ledger apart and the Host has not edited
\* it, reconcile_run never sends a Turn again that the conversation could still hold.
THEOREM NeverGuessedWhenComparable == Spec => [](Comparable /\ ~marked => NeverGuessed)
  <1>1. NotAppliedIsTrue => (Comparable /\ ~marked => NeverGuessed)
    BY DEF NotAppliedIsTrue, NeverGuessed
  <1> QED  BY <1>1, NotAppliedIsProved, PTL

-----------------------------------------------------------------------------
(* Nobody waits for an answer that cannot come *)

\* The prompt a task waits for is on its way to the conversation or running.
AnswerIsComing == task # None /\ task.phase = "awaiting" => OnItsWay(task.turn)

LEMMA AnswerStep ==
  ASSUME LedgerInv, AnswerIsComing, Next
  PROVE  AnswerIsComing'
  <1>t. /\ inbox \in Seq(Turns \cup {Stop}) /\ running \in Turns \cup {None}
        /\ task \in Task \cup {None} /\ (task # None => task.turn \in Turns)
    BY DEF LedgerInv, TypeOK, Task
  <1>c. None \notin Turns /\ Stop \notin Turns
    BY ConstantsAssumption
  <1>1. CASE UNCHANGED <<inbox, running>> /\ (task' = task \/ task' = None)
    BY <1>1 DEF AnswerIsComing, OnItsWay
  <1>2. ASSUME NEW t \in Turns, NEW b \in BOOLEAN, NEW c \in Commits, prompt(t, b, c)
        PROVE  AnswerIsComing'
    <2>1. CASE c = "Committed"
      <3>1. task'.turn = t /\ inbox' = Append(inbox, t)
        BY <1>2, <2>1 DEF prompt
      <3>2. In(t, inbox')
        BY <1>t, <3>1, InAppend
      <3> QED  BY <3>1, <3>2 DEF AnswerIsComing, OnItsWay
    <2>2. CASE c # "Committed"
      BY <1>1, <1>2, <2>2 DEF prompt
    <2> QED  BY <2>1, <2>2
  <1>3. CASE ActorStarts
    <2>1. /\ inbox # <<>> /\ running = None /\ running' = Head(inbox) /\ inbox' = Tail(inbox)
          /\ UNCHANGED task
      BY <1>3 DEF ActorStarts, commands
    <2>2. \A t : In(t, inbox) => t = running' \/ In(t, inbox')
      BY <1>t, <2>1, InTail
    <2> QED  BY <1>c, <1>t, <2>1, <2>2 DEF AnswerIsComing, OnItsWay
  <1>4. CASE cancel
    <2>1. inbox' = Append(inbox, Stop) /\ UNCHANGED <<task, running>>
      BY <1>4 DEF cancel
    <2>2. \A t : In(t, inbox) => In(t, inbox')
      BY <1>t, <2>1, InAppend
    <2> QED  BY <2>1, <2>2 DEF AnswerIsComing, OnItsWay
  <1>5. CASE ActorEnds \/ ActorFails \/ ActorCancels
    <2>1. \A t \in Turns : In(t, inbox) => In(t, inbox')
      <3>1. CASE ActorEnds \/ ActorFails
        BY <3>1 DEF ActorEnds, ActorFails
      <3>2. CASE ActorCancels
        <4>1. inbox # <<>> /\ Head(inbox) = Stop /\ inbox' = Tail(inbox)
          BY <3>2 DEF ActorCancels
        <4> QED  BY <1>c, <1>t, <4>1, InTail
      <3> QED  BY <1>5, <3>1, <3>2
    <2>2. CASE Answered
      <3>1. task' = None \/ task' = [task EXCEPT !.phase = "answered"]
        BY <1>5, <2>2 DEF ActorEnds, ActorFails, ActorCancels, EndTask
      <3>2. task' = None \/ task'.phase = "answered"
        BY <1>t, <2>2, <3>1 DEF Answered, Task
      <3> QED  BY <3>2 DEF AnswerIsComing
    <2>3. CASE ~Answered
      <3>1. UNCHANGED task
        BY <1>5, <2>3 DEF ActorEnds, ActorFails, ActorCancels
      <3> QED  BY <1>t, <2>1, <2>3, <3>1 DEF AnswerIsComing, OnItsWay, Answered
    <2> QED  BY <2>2, <2>3
  <1>6. ASSUME NEW r \in BOOLEAN, NEW b \in Commits, NEW c \in Commits, settle(r, b, c)
        PROVE  AnswerIsComing'
    BY <1>6 DEF settle, EndTask, AnswerIsComing
  <1>7. ASSUME NEW t \in Turns, NEW c \in Commits,
               turn_binding_status(t, c) \/ mark_turn_discarded(t, c)
        PROVE  AnswerIsComing'
    BY <1>1, <1>7 DEF turn_binding_status, mark_turn_discarded, commands, actor
  <1>8. ASSUME NEW op \in Operations, NEW target \in Indices, NEW r \in Turns \cup {None},
               NEW c \in Commits, rewind_conversation(op, target, r, c)
        PROVE  AnswerIsComing'
    BY <1>1, <1>8 DEF rewind_conversation, actor
  <1>9. ASSUME NEW s \in Commits, NEW r \in Commits, RewindSettles(s, r)
        PROVE  AnswerIsComing'
    BY <1>1, <1>9 DEF RewindSettles
  <1>10. CASE ForceStop \/ SyncFails \/ Crash
    BY <1>10 DEF ForceStop, SyncFails, Crash, EndTask, AnswerIsComing
  <1>11. CASE ActorRecords \/ RewindNative \/ RewindRefused \/ RewindFails \/ Persist
    BY <1>1, <1>11 DEF ActorRecords, RewindNative, RewindRefused, RewindFails, Persist, commands, actor
  <1> QED  BY <1>2, <1>3, <1>4, <1>5, <1>6, <1>7, <1>8, <1>9, <1>10, <1>11 DEF Next

\* A prompt task waits only for a prompt that the Session actor still has: no
\* cancellation, also one meant for an earlier prompt, takes its answer away.
THEOREM NobodyWaitsInVain == Spec => []AnswerIsComing
  <1>1. Init => AnswerIsComing
    BY DEF Init, AnswerIsComing
  <1>2. LedgerInv /\ AnswerIsComing /\ [Next]_vars => AnswerIsComing'
    <2>1. AnswerIsComing /\ UNCHANGED vars => AnswerIsComing'
      BY DEF AnswerIsComing, OnItsWay, vars, commands, actor
    <2> QED  BY <2>1, AnswerStep
  <1> QED  BY <1>1, <1>2, LedgerInvariant, PTL DEF Spec
=============================================================================
