-------------------------- MODULE ActivationProofs --------------------------
(***************************************************************************)
(* The coordinator's safety for every set of items and workers, every      *)
(* clock skew and every bound.                                             *)
(***************************************************************************)
EXTENDS Activation, TLAPS

\* What one row says about the handles: its three lease columns move together,
\* a lease belongs to the newest handle, which has no recorded outcome, and a
\* settlement column names a handle that did settle.
LeaseColumns(r) ==
  /\ (r.lease_token = Null) <=> (r.lease_expires = Null)
  /\ (r.lease_token = Null) <=> (r.lease_worker = NoWorker)

LeaseNewest(i) ==
  rows[i].lease_token # Null =>
    /\ rows[i].lease_token = rows[i].fencing_token
    /\ \E h \in handles \ settled :
          /\ h.item = i /\ h.worker = rows[i].lease_worker
          /\ h.token = rows[i].lease_token

SettledNamed(i) ==
  rows[i].settled_token # Null =>
    \E h \in settled : h.item = i /\ h.token = rows[i].settled_token

OutOfQueue(i) ==
  rows[i].due = Null =>
    \E h \in settled : h.item = i /\ h.token = rows[i].fencing_token

RowInv(i) ==
  /\ LeaseColumns(rows[i])
  /\ LeaseNewest(i)
  /\ SettledNamed(i)
  /\ OutOfQueue(i)
  /\ ~(rows[i].due # Null /\ rows[i].settled_at # Null)

\* Tokens identify handles and never exceed the row's counter.
HandleInv ==
  /\ \A h \in handles : /\ h.item \in known \cup purged
                        /\ h.item \in known => h.token <= rows[h.item].fencing_token
  /\ \A g, h \in handles : g.item = h.item /\ g.token = h.token => g = h

PurgeInv ==
  /\ known \cap purged = {}
  /\ \A i \in purged : \E h \in settled :
        /\ h.item = i
        /\ \A g \in handles : g.item = i => g.token <= h.token

IInv ==
  /\ TypeOK
  /\ \A i \in known : RowInv(i)
  /\ HandleInv
  /\ PurgeInv

\* For the wake property: an item that is owed a grant has no live lease.
OwedInv ==
  Skew = 0 => \A o \in owed :
    /\ o.item \in known
    /\ rows[o.item].due = o.due
    /\ rows[o.item].payload = o.payload
    /\ rows[o.item].lease_expires <= clock

-----------------------------------------------------------------------------
(* Rows *)

\* The row operators of the coordinator produce rows.
LEMMA NewRowType ==
  ASSUME NEW due \in Times, NEW payload \in Payloads
  PROVE  NewRow(due, payload) \in Row
BY ConstantsAssumption DEF NewRow, Row, Times, Tokens, Null

\* A row whose wake was moved is still a row.
LEMMA RescheduledRowType ==
  ASSUME NEW r \in Row, NEW due \in Times, NEW payload \in Payloads
  PROVE  RescheduledRow(r, due, payload) \in Row
BY DEF RescheduledRow, Row, Times, Tokens, Null

\* A row that was granted is still a row.
LEMMA GrantedRowType ==
  ASSUME NEW r \in Row, NEW worker \in Workers, NEW expires \in Nat,
         Grantable(r, expires)
  PROVE  GrantedRow(r, worker, expires) \in Row
<1>1. r.attempt + 1 \in Tokens /\ r.fencing_token + 1 \in Tokens /\ expires \in Times
  BY ConstantsAssumption DEF Grantable, Row, Times, Tokens
<1> DEFINE a == r.attempt + 1
           t == r.fencing_token + 1
<1>2. GrantedRow(r, worker, expires) =
        [r EXCEPT !.attempt = a, !.fencing_token = t, !.lease_worker = worker,
                  !.lease_token = t, !.lease_expires = expires, !.settled_at = Null]
  BY DEF GrantedRow
<1>3. a \in Tokens /\ t \in Tokens
  BY <1>1
<1> HIDE DEF a, t
<1> QED BY <1>1, <1>2, <1>3 DEF Row

\* What each column of a granted row holds.
LEMMA GrantedRowColumns ==
  ASSUME NEW r \in Row, NEW worker, NEW expires
  PROVE  /\ GrantedRow(r, worker, expires).due = r.due
         /\ GrantedRow(r, worker, expires).payload = r.payload
         /\ GrantedRow(r, worker, expires).fencing_token = r.fencing_token + 1
         /\ GrantedRow(r, worker, expires).lease_worker = worker
         /\ GrantedRow(r, worker, expires).lease_token = r.fencing_token + 1
         /\ GrantedRow(r, worker, expires).lease_expires = expires
         /\ GrantedRow(r, worker, expires).settled_at = Null
         /\ GrantedRow(r, worker, expires).settled_token = r.settled_token
<1> DEFINE a == r.attempt + 1
           t == r.fencing_token + 1
<1>1. GrantedRow(r, worker, expires) =
        [r EXCEPT !.attempt = a, !.fencing_token = t, !.lease_worker = worker,
                  !.lease_token = t, !.lease_expires = expires, !.settled_at = Null]
  BY DEF GrantedRow
<1>2. t = r.fencing_token + 1
  OBVIOUS
<1> HIDE DEF a, t
<1> QED BY <1>1, <1>2 DEF Row

\* A row that was settled is still a row.
LEMMA ReleasedRowType ==
  ASSUME NEW r \in Row, NEW h \in Handle,
         NEW due \in Times \cup {Null}, NEW now \in Times
  PROVE  ReleasedRow(r, h, due, now) \in Row
BY DEF ReleasedRow, Row, Handle, Times, Tokens, Null

-----------------------------------------------------------------------------
(* The invariant, one lemma per operation *)

\* Initially there are no rows and no handles.
LEMMA InitIInv == Init => IInv
BY ConstantsAssumption
   DEF Init, IInv, TypeOK, HandleInv, PurgeInv

\* wake touches one row and leaves its lease, tokens and settlement alone.
LEMMA WakeStep ==
  ASSUME IInv, NEW i \in Items, NEW due \in Times, NEW payload \in Payloads,
         NEW now \in Times, wake(i, due, payload, now)
  PROVE  IInv'
<1> DEFINE W == [item |-> i, due |-> due, payload |-> payload]
<1>1. TypeOK /\ i \notin purged
  BY DEF IInv, wake
<1>2. rows'[i] = NewRow(due, payload) \/ (i \in known /\ rows'[i] = rows[i])
        \/ (i \in known /\ rows'[i] = RescheduledRow(rows[i], due, payload))
  BY DEF wake, WokenRow
<1>3. \A j \in known : j # i => rows'[j] = rows[j]
  BY DEF wake
<1>4. TypeOK'
  <2>1. rows' \in [known' -> Row]
    <3>1. rows'[i] \in Row
      BY <1>1, <1>2, NewRowType, RescheduledRowType DEF TypeOK
    <3> QED BY <1>1, <1>3, <3>1 DEF TypeOK, wake
  <2>2. owed' \subseteq Wish
    BY <1>1 DEF TypeOK, wake, Wish
  <2> QED BY <1>1, <2>1, <2>2 DEF TypeOK, wake
<1>5. i \notin known => rows'[i] = NewRow(due, payload) /\ \A h \in handles : h.item # i
  <2>1. i \notin known => rows'[i] = NewRow(due, payload)
    BY DEF wake, WokenRow
  <2> QED BY <1>1, <2>1 DEF IInv, HandleInv
<1>6. ASSUME NEW j \in known' PROVE RowInv(j)'
  <2>1. CASE j # i
    <3>1. j \in known /\ rows'[j] = rows[j] /\ handles' = handles /\ settled' = settled
      BY <1>3, <2>1 DEF wake
    <3> QED BY <3>1 DEF IInv, RowInv, LeaseColumns, LeaseNewest, SettledNamed, OutOfQueue
  <2>2. CASE j = i /\ i \notin known
    BY <1>5, <2>2 DEF RowInv, LeaseColumns, LeaseNewest, SettledNamed, OutOfQueue,
                      NewRow, Null, Times
  <2>3. CASE j = i /\ i \in known
    <3>1. rows[i] \in Row /\ RowInv(i) /\ handles' = handles /\ settled' = settled
      BY <1>1, <2>3 DEF IInv, TypeOK, wake
    <3>2. CASE rows'[i] = rows[i]
      BY <2>3, <3>1, <3>2 DEF RowInv, LeaseColumns, LeaseNewest, SettledNamed, OutOfQueue
    <3>3. CASE rows'[i] # rows[i]
      <4>1. rows'[i] = RescheduledRow(rows[i], due, payload)
        BY <2>3, <3>3 DEF wake, WokenRow
      <4> QED BY <2>3, <3>1, <4>1
              DEF RowInv, LeaseColumns, LeaseNewest, SettledNamed, OutOfQueue,
                  RescheduledRow, Row, Null, Times
    <3> QED BY <3>2, <3>3
  <2> QED BY <2>1, <2>2, <2>3
<1>7. HandleInv'
  <2>1. \A j \in known : rows'[j].fencing_token = rows[j].fencing_token
    <3>1. rows[i] \in Row => RescheduledRow(rows[i], due, payload).fencing_token
                                = rows[i].fencing_token
      BY DEF RescheduledRow, Row
    <3> QED BY <1>1, <1>3, <3>1 DEF wake, WokenRow, TypeOK
  <2> QED BY <1>5, <2>1 DEF IInv, HandleInv, wake
<1>8. PurgeInv'
  BY DEF IInv, PurgeInv, wake
<1> QED BY <1>4, <1>6, <1>7, <1>8 DEF IInv

\* A grant mints the next token of every item of the batch.
LEMMA GrantStep ==
  ASSUME IInv, NEW batch \in SUBSET known, NEW worker \in Workers,
         NEW expires \in Nat, \A i \in batch : rows[i].due # Null,
         GrantAll(batch, worker, expires)
  PROVE  IInv'
<1>1. TypeOK /\ \A i \in known : rows[i] \in Row
  BY DEF IInv, TypeOK
<1>2. \A i \in batch : rows'[i] = GrantedRow(rows[i], worker, expires)
  BY DEF GrantAll
<1>3. \A i \in known \ batch : rows'[i] = rows[i]
  BY DEF GrantAll
<1>4. \A i \in batch : HandleOf(i, worker) \in Handle
  BY <1>1, ConstantsAssumption
     DEF GrantAll, Grantable, HandleOf, Handle, Row, Tokens, TypeOK
<1>5. TypeOK'
  <2>1. rows' \in [known' -> Row]
    BY <1>1, GrantedRowType DEF GrantAll
  <2> QED BY <1>1, <1>4, <2>1 DEF TypeOK, GrantAll
<1>6. ASSUME NEW i \in known' PROVE RowInv(i)'
  <2>1. i \in known /\ RowInv(i) /\ settled' = settled /\ handles \subseteq handles'
    BY DEF GrantAll, IInv
  <2>2. CASE i \in batch
    <3>1. HandleOf(i, worker) \in handles'
      BY <2>2 DEF GrantAll
    <3>2. HandleOf(i, worker) \notin settled
      BY <1>1, <2>1 DEF IInv, TypeOK, HandleInv, HandleOf, Row, Tokens
    <3>3. rows[i].due # Null /\ rows[i] \in Row /\ worker # NoWorker
      BY <1>1, <2>1, <2>2, ConstantsAssumption
    <3>4. LeaseColumns(rows[i])' /\ ~(rows[i].due # Null /\ rows[i].settled_at # Null)'
            /\ SettledNamed(i)' /\ OutOfQueue(i)'
      BY <1>2, <2>1, <2>2, <3>3, GrantedRowColumns, ConstantsAssumption
         DEF RowInv, LeaseColumns, SettledNamed, OutOfQueue, Row, Null, Tokens
    <3>5. LeaseNewest(i)'
      BY <1>2, <2>2, <3>1, <3>2, <3>3, <2>1, GrantedRowColumns
         DEF LeaseNewest, HandleOf
    <3> QED BY <3>4, <3>5 DEF RowInv
  <2>3. CASE i \notin batch
    BY <1>3, <2>1, <2>3 DEF RowInv, LeaseColumns, LeaseNewest, SettledNamed, OutOfQueue
  <2> QED BY <2>2, <2>3
<1>7. HandleInv'
  <2>1. \A i \in known : /\ rows[i].fencing_token \in Nat
                         /\ rows'[i].fencing_token = IF i \in batch
                              THEN rows[i].fencing_token + 1 ELSE rows[i].fencing_token
    BY <1>1, <1>2, <1>3, GrantedRowColumns, ConstantsAssumption DEF Row, Tokens
  <2>2. \A h \in handles : h.token \in Nat
    BY <1>1, ConstantsAssumption DEF TypeOK, Handle, Tokens
  <2>3. ASSUME NEW h \in handles'
        PROVE  /\ h.item \in known' \cup purged'
               /\ h.item \in known' => h.token <= rows'[h.item].fencing_token
    <3>1. CASE h \in handles
      BY <2>1, <2>2, <3>1 DEF IInv, HandleInv, GrantAll
    <3>2. CASE h \notin handles
      <4>1. PICK i \in batch : h = HandleOf(i, worker)
        BY <3>2 DEF GrantAll
      <4> QED BY <2>1, <4>1 DEF HandleOf, GrantAll
    <3> QED BY <3>1, <3>2
  <2>4. ASSUME NEW g \in handles', NEW h \in handles', g.item = h.item, g.token = h.token
        PROVE  g = h
    <3>1. \A k \in handles' : k \in handles \/ \E i \in batch : k = HandleOf(i, worker)
      BY DEF GrantAll
    <3>2. \A k \in handles, i \in batch : k.item = i => k.token < HandleOf(i, worker).token
      BY <2>1, <2>2 DEF IInv, HandleInv, HandleOf
    <3>3. \A i \in batch : HandleOf(i, worker).item = i /\ HandleOf(i, worker).token \in Nat
      BY <2>1 DEF HandleOf
    <3>4. CASE g \in handles /\ h \in handles
      BY <2>4, <3>4 DEF IInv, HandleInv
    <3>5. CASE g \notin handles /\ h \notin handles
      BY <2>4, <3>1, <3>3, <3>5
    <3>6. CASE g \in handles /\ h \notin handles
      <4>1. PICK i \in batch : h = HandleOf(i, worker) BY <3>1, <3>6
      <4> QED BY <2>2, <2>4, <3>2, <3>3, <3>6, <4>1
    <3>7. CASE g \notin handles /\ h \in handles
      <4>1. PICK i \in batch : g = HandleOf(i, worker) BY <3>1, <3>7
      <4> QED BY <2>2, <2>4, <3>2, <3>3, <3>7, <4>1
    <3> QED BY <3>4, <3>5, <3>6, <3>7
  <2> QED BY <2>3, <2>4 DEF HandleInv
<1>8. PurgeInv'
  <2>1. \A h \in handles' \ handles : h.item \in known
    BY DEF GrantAll, HandleOf
  <2>2. known' = known /\ purged' = purged /\ settled' = settled
    BY DEF GrantAll
  <2> QED BY <2>1, <2>2 DEF IInv, PurgeInv
<1> QED BY <1>5, <1>6, <1>7, <1>8 DEF IInv

\* renew moves the expiry of a live lease.
LEMMA RenewStep ==
  ASSUME IInv, NEW h \in handles, NEW now \in Times, NEW lease \in LeaseMs,
         renew(h, now, lease)
  PROVE  IInv'
<1>1. h.item \in known /\ rows[h.item] \in Row /\ now + lease \in Times
  BY ConstantsAssumption DEF IInv, TypeOK, renew, RenewAnswer, Times
<1>2. rows[h.item].lease_expires # Null
  BY DEF renew, RenewAnswer, Honours, held_by
<1>3. rows' = [rows EXCEPT ![h.item].lease_expires = now + lease]
        /\ UNCHANGED <<known, clock, crashed, handles, settled, owed, purged>>
  BY DEF renew
<1>4. TypeOK'
  BY <1>1, <1>3 DEF IInv, TypeOK, Row
<1>5. ASSUME NEW i \in known' PROVE RowInv(i)'
  <2>1. rows[i] \in Row /\ RowInv(i) /\ rows \in [known -> Row]
    BY <1>3 DEF IInv, TypeOK
  <2>2. CASE i = h.item
    BY <1>1, <1>2, <1>3, <2>1, <2>2
       DEF RowInv, LeaseColumns, LeaseNewest, SettledNamed, OutOfQueue, Row, Null, Times
  <2>3. CASE i # h.item
    BY <1>3, <2>1, <2>3 DEF RowInv, LeaseColumns, LeaseNewest, SettledNamed, OutOfQueue
  <2> QED BY <2>2, <2>3
<1>6. \A i \in known : rows'[i].fencing_token = rows[i].fencing_token
  BY <1>1, <1>3 DEF IInv, TypeOK, Row
<1> QED BY <1>3, <1>4, <1>5, <1>6 DEF IInv, HandleInv, PurgeInv

\* release settles the newest handle and clears the lease.
LEMMA ReleaseStep ==
  ASSUME IInv, NEW h \in handles, NEW due \in Times \cup {Null},
         NEW now \in Times, release(h, due, now)
  PROVE  IInv'
<1> DEFINE i == h.item
           R == ReleasedRow(rows[i], h, due, now)
<1>1. /\ i \in known /\ rows[i] \in Row /\ h \in Handle
      /\ Honours(rows[i], h, now)
  BY DEF IInv, TypeOK, release, ReleaseAnswer
<1>2. h \notin settled /\ h.token = rows[i].fencing_token
  <2>1. /\ rows[i].lease_token # Null /\ rows[i].lease_token = h.token
        /\ RowInv(i)
    BY <1>1 DEF Honours, held_by, IInv, RowInv, LeaseColumns
  <2>2. PICK g \in handles \ settled : g.item = i /\ g.token = h.token
    BY <2>1 DEF RowInv, LeaseNewest
  <2> QED BY <2>1, <2>2 DEF IInv, HandleInv, RowInv, LeaseNewest
<1>3. rows' = [rows EXCEPT ![i] = R] /\ settled' = settled \cup {h}
        /\ UNCHANGED <<known, clock, crashed, handles, owed, purged>>
  BY DEF release
<1>4. R \in Row
  BY <1>1, ReleasedRowType
<1>5. TypeOK'
  BY <1>3, <1>4 DEF IInv, TypeOK
<1>6. /\ R.due = due /\ R.settled_token = h.token /\ R.lease_worker = NoWorker
      /\ R.lease_token = Null /\ R.lease_expires = Null
      /\ R.fencing_token = rows[i].fencing_token
      /\ due # Null => R.settled_at = Null
  BY <1>1 DEF ReleasedRow, Row
<1> HIDE DEF R
<1>7. ASSUME NEW j \in known' PROVE RowInv(j)'
  <2>1. j \in known /\ rows[j] \in Row /\ RowInv(j) /\ settled \subseteq settled'
          /\ rows \in [known -> Row]
    BY <1>3 DEF IInv, TypeOK
  <2>2. CASE j = i
    <3>1. rows'[j] = R /\ h \in settled'
      BY <1>1, <1>3, <2>1, <2>2
    <3>2. R.due = Null => \E g \in settled' : g.item = j /\ g.token = R.fencing_token
      BY <1>2, <1>6, <2>2, <3>1
    <3> QED BY <1>6, <2>2, <3>1, <3>2
            DEF RowInv, LeaseColumns, LeaseNewest, SettledNamed, OutOfQueue
  <2>3. CASE j # i
    <3>1. rows'[j] = rows[j]
      BY <1>3, <2>1, <2>3
    <3>2. LeaseNewest(j)'
      <4>1. SUFFICES ASSUME rows[j].lease_token # Null
                     PROVE  /\ rows[j].lease_token = rows[j].fencing_token
                            /\ \E g \in handles' \ settled' :
                                  /\ g.item = j /\ g.worker = rows[j].lease_worker
                                  /\ g.token = rows[j].lease_token
        BY <3>1 DEF LeaseNewest
      <4>2. PICK g \in handles \ settled : /\ g.item = j /\ g.worker = rows[j].lease_worker
                                            /\ g.token = rows[j].lease_token
        BY <2>1, <4>1 DEF RowInv, LeaseNewest
      <4> QED BY <1>3, <2>1, <2>3, <4>1, <4>2 DEF RowInv, LeaseNewest
    <3> QED BY <2>1, <3>1, <3>2 DEF RowInv, LeaseColumns, SettledNamed, OutOfQueue
  <2> QED BY <2>2, <2>3
<1>8. \A j \in known : rows'[j].fencing_token = rows[j].fencing_token
  BY <1>1, <1>3, <1>6 DEF IInv, TypeOK
<1>9. HandleInv'
  BY <1>3, <1>8 DEF IInv, HandleInv
<1>10. PurgeInv'
  BY <1>3 DEF IInv, PurgeInv
<1> QED BY <1>5, <1>7, <1>9, <1>10 DEF IInv

\* Retention drops rows whose newest handle settled.
LEMMA PurgeStep ==
  ASSUME IInv, NEW before \in Times, purge_settled(before)
  PROVE  IInv'
<1> DEFINE gone == {i \in known : Purgeable(rows[i], before)}
<1>1. known' = known \ gone /\ rows' = [i \in known \ gone |-> rows[i]]
        /\ purged' = purged \cup gone
        /\ UNCHANGED <<clock, crashed, handles, settled, owed>>
  BY DEF purge_settled
<1>2. \A i \in gone : i \in known /\ rows[i].due = Null
  BY DEF Purgeable
<1> HIDE DEF gone
<1>3. TypeOK'
  BY <1>1, <1>2 DEF IInv, TypeOK
<1>4. ASSUME NEW i \in known' PROVE RowInv(i)'
  <2>1. i \in known /\ rows'[i] = rows[i] /\ RowInv(i)
    BY <1>1 DEF IInv
  <2> QED BY <1>1, <2>1 DEF RowInv, LeaseColumns, LeaseNewest, SettledNamed, OutOfQueue
<1>5. HandleInv'
  BY <1>1, <1>2 DEF IInv, HandleInv
<1>6. PurgeInv'
  <2>1. ASSUME NEW i \in gone
        PROVE  \E h \in settled : /\ h.item = i
                                  /\ \A g \in handles : g.item = i => g.token <= h.token
    <3>1. PICK h \in settled : h.item = i /\ h.token = rows[i].fencing_token
      BY <1>2 DEF IInv, RowInv, OutOfQueue
    <3> QED BY <1>2, <3>1 DEF IInv, HandleInv
  <2> QED BY <1>1, <2>1 DEF IInv, PurgeInv
<1> QED BY <1>3, <1>4, <1>5, <1>6 DEF IInv

\* Claims, one item or a sweep, are grants of due items.
LEMMA ClaimSteps ==
  ASSUME IInv, NEW worker \in Workers, NEW now \in Times, NEW lease \in LeaseMs,
         \/ claim_due(worker, now, lease)
         \/ \E i \in Items : claim_item(i, worker, now, lease)
  PROVE  \E batch \in SUBSET known :
            /\ \A i \in batch : rows[i].due # Null
            /\ \A i \in batch : rows[i].lease_expires = Null \/ rows[i].lease_expires <= now
            /\ GrantAll(batch, worker, now + lease)
<1>1. CASE claim_due(worker, now, lease)
  <2>1. PICK batch \in SUBSET known :
           SweepOf(batch, now) /\ GrantAll(batch, worker, now + lease)
    BY <1>1 DEF claim_due
  <2> QED BY <2>1 DEF SweepOf, Candidates
<1>2. CASE \E i \in Items : claim_item(i, worker, now, lease)
  <2>1. PICK i \in Items : claim_item(i, worker, now, lease)
    BY <1>2
  <2>2. i \in known /\ rows[i].due # Null /\ ~held_by(rows[i], now)
    BY <2>1 DEF claim_item, ClaimAnswer
  <2>3. rows[i] \in Row
    BY <2>2 DEF IInv, TypeOK
  <2>4. rows[i].lease_expires = Null \/ rows[i].lease_expires <= now
    BY <2>2, <2>3, ConstantsAssumption DEF held_by, Row, Times, Null
  <2> QED BY <2>1, <2>2, <2>4 DEF claim_item
<1> QED BY <1>1, <1>2

\* Every step of the coordinator keeps the invariant.
LEMMA NextIInv == IInv /\ [Next]_vars => IInv'
<1> SUFFICES ASSUME IInv, [Next]_vars PROVE IInv'
  OBVIOUS
<1>0. Instants \subseteq Times
  BY DEF Instants
<1>1. CASE Wake
  BY <1>0, <1>1, WakeStep DEF Wake
<1>2. CASE Sweep \/ Claim
  <2>1. PICK w \in Workers, now \in Times, l \in LeaseMs :
           claim_due(w, now, l) \/ \E i \in Items : claim_item(i, w, now, l)
    BY <1>0, <1>2 DEF Sweep, Claim
  <2>2. now + l \in Nat
    BY ConstantsAssumption DEF Times
  <2> QED BY <2>1, <2>2, ClaimSteps, GrantStep
<1>3. CASE Renew
  BY <1>0, <1>3, RenewStep DEF Renew
<1>4. CASE Release
  BY <1>0, <1>4, ReleaseStep DEF Release
<1>5. CASE Purge
  BY <1>5, PurgeStep DEF Purge
<1>6. CASE Tick
  BY <1>6, ConstantsAssumption
     DEF Tick, IInv, TypeOK, HandleInv, PurgeInv, RowInv, LeaseNewest, SettledNamed, OutOfQueue
<1>7. CASE Die
  BY <1>7
     DEF Die, Crash, IInv, TypeOK, HandleInv, PurgeInv, RowInv, LeaseNewest, SettledNamed,
         OutOfQueue
<1>8. CASE UNCHANGED vars
  BY <1>8
     DEF vars, IInv, TypeOK, HandleInv, PurgeInv, RowInv, LeaseNewest, SettledNamed, OutOfQueue
<1> QED BY <1>1, <1>2, <1>3, <1>4, <1>5, <1>6, <1>7, <1>8 DEF Next

\* The coordinator's state always satisfies the inductive invariant.
THEOREM Invariance == Spec => []IInv
<1>1. Init => IInv
  BY InitIInv
<1>2. IInv /\ [Next]_vars => IInv'
  BY NextIInv
<1> QED BY <1>1, <1>2, PTL DEF Spec

-----------------------------------------------------------------------------
(* Safety *)

\* Every variable always has its type; stored values stay in the storable range.
THEOREM TypeCorrectness == Spec => []TypeOK
<1>1. IInv => TypeOK
  BY DEF IInv
<1> QED BY <1>1, Invariance, PTL

\* The coordinator never writes a row that validate refuses to load.
THEOREM Decodable == Spec => []RowsDecodable
<1>1. IInv => RowsDecodable
  <2> SUFFICES ASSUME IInv, NEW i \in known PROVE validate(rows[i])
    BY DEF RowsDecodable
  <2>1. RowInv(i) /\ rows[i] \in Row
    BY DEF IInv, TypeOK
  <2>2. rows[i].settled_token # Null => rows[i].settled_token <= rows[i].fencing_token
    BY <2>1 DEF IInv, TypeOK, HandleInv, RowInv, SettledNamed
  <2> QED BY <2>1, <2>2, ConstantsAssumption DEF validate, RowInv, LeaseNewest, Row, Tokens
<1> QED BY <1>1, Invariance, PTL

\* An AlreadySettled answer to a release is never given to a handle whose own
\* release did not settle.
THEOREM IdempotencyAnswerIsTrue == Spec => []AlreadySettledIsTrue
<1>1. IInv => AlreadySettledIsTrue
  <2> SUFFICES ASSUME IInv, NEW h \in handles, NEW now \in Times,
                      ReleaseAnswer(h, now) = "AlreadySettled"
               PROVE  h \in settled
    BY DEF AlreadySettledIsTrue
  <2>1. h.item \in known /\ rows[h.item].settled_token = h.token
    BY DEF ReleaseAnswer
  <2>2. h.token # Null
    BY ConstantsAssumption DEF IInv, TypeOK, Handle, Tokens, Null
  <2>3. PICK g \in settled : g.item = h.item /\ g.token = h.token
    BY <2>1, <2>2 DEF IInv, RowInv, SettledNamed
  <2> QED BY <2>3 DEF IInv, TypeOK, HandleInv
<1> QED BY <1>1, Invariance, PTL

\* A handle that a lease honours is the newest of its item and unsettled.
LEMMA HonouredIsNewest ==
  ASSUME IInv, NEW h \in handles, NEW now, ReleaseAnswer(h, now) = "Settled"
  PROVE  /\ h \notin settled
         /\ h.item \in known /\ h.token = rows[h.item].fencing_token
<1>1. h.item \in known /\ Honours(rows[h.item], h, now)
  BY DEF ReleaseAnswer
<1>2. /\ rows[h.item].lease_token # Null /\ rows[h.item].lease_token = h.token
      /\ RowInv(h.item)
  BY <1>1 DEF Honours, held_by, IInv, RowInv, LeaseColumns
<1>3. PICK g \in handles \ settled : g.item = h.item /\ g.token = h.token
  BY <1>2 DEF RowInv, LeaseNewest
<1> QED BY <1>1, <1>2, <1>3 DEF IInv, HandleInv, RowInv, LeaseNewest

\* Of two handles of one item, one has the smaller token.
LEMMA OthersAreOlder ==
  ASSUME IInv, NEW h \in handles, h.item \in known,
         h.token = rows[h.item].fencing_token,
         NEW g \in handles, g.item = h.item, g # h
  PROVE  g.token < h.token
<1>1. g.token \in Nat /\ h.token \in Nat
  BY ConstantsAssumption DEF IInv, TypeOK, Handle, Tokens
<1> QED BY <1>1 DEF IInv, HandleInv

\* At most one handle per item is honoured at a time: the newest, unsettled one.
THEOREM AtMostOneHonoured == Spec => []OneHonouredHandle
<1>1. IInv => OneHonouredHandle
  <2> SUFFICES ASSUME IInv, NEW h \in handles, NEW now \in Times,
                      ReleaseAnswer(h, now) = "Settled"
               PROVE  /\ h \notin settled
                      /\ \A g \in handles : g.item = h.item /\ g # h =>
                            g.token < h.token /\ \A t \in Times : ReleaseAnswer(g, t) # "Settled"
    BY DEF OneHonouredHandle
  <2>1. h \notin settled /\ h.item \in known /\ h.token = rows[h.item].fencing_token
    BY HonouredIsNewest
  <2>2. ASSUME NEW g \in handles, g.item = h.item, g # h
        PROVE  g.token < h.token /\ \A t \in Times : ReleaseAnswer(g, t) # "Settled"
    <3>1. g.token < h.token
      BY <2>1, <2>2, OthersAreOlder
    <3>2. g.token # rows[g.item].fencing_token
      BY <2>1, <2>2, <3>1, ConstantsAssumption DEF IInv, TypeOK, Handle, Tokens
    <3> QED BY <3>1, <3>2, HonouredIsNewest
  <2> QED BY <2>1, <2>2
<1> QED BY <1>1, Invariance, PTL

\* No item leaves the queue, or the store, before its newest handle settled it.
THEOREM NothingDropped == Spec => []DroppedOnlyWhenSettled
<1>1. IInv => DroppedOnlyWhenSettled
  <2> SUFFICES ASSUME IInv, NEW i \in Items, i \in purged \/ (i \in known /\ rows[i].due = Null)
               PROVE  \E h \in settled : /\ h.item = i
                                        /\ \A g \in handles : g.item = i => g.token <= h.token
    BY DEF DroppedOnlyWhenSettled
  <2>1. CASE i \in purged
    BY <2>1 DEF IInv, PurgeInv
  <2>2. CASE i \in known /\ rows[i].due = Null
    <3>1. PICK h \in settled : h.item = i /\ h.token = rows[i].fencing_token
      BY <2>2 DEF IInv, RowInv, OutOfQueue
    <3> QED BY <2>2, <3>1 DEF IInv, HandleInv
  <2> QED BY <2>1, <2>2
<1> QED BY <1>1, Invariance, PTL

-----------------------------------------------------------------------------
(* Refinement *)

\* The SQLite coordinator implements the fenced queue: every grant mints
\* strictly newer handles, every settlement records the newest handle of its
\* item for the first time, and all other steps change neither.
THEOREM Refinement == Spec => RefinesFencedQueue
<1>1. Init => Queue!QInit
  BY DEF Init, Queue!QInit
<1>2. IInv /\ IInv' /\ [Next]_vars => [Queue!QNext]_(Queue!qvars)
  <2> SUFFICES ASSUME IInv, IInv', [Next]_vars
               PROVE  Queue!QNext \/ UNCHANGED <<handles, settled>>
    BY DEF Queue!qvars
  <2>0. Instants \subseteq Times
    BY DEF Instants
  <2>1. CASE Sweep \/ Claim
    <3>1. PICK w \in Workers, now \in Times, l \in LeaseMs :
             claim_due(w, now, l) \/ \E i \in Items : claim_item(i, w, now, l)
      BY <2>0, <2>1 DEF Sweep, Claim
    <3>2. PICK batch \in SUBSET known : GrantAll(batch, w, now + l)
      BY <3>1, ClaimSteps
    <3>3. handles' \subseteq Queue!Handle
      BY ConstantsAssumption DEF IInv, TypeOK, Handle, Queue!Handle, Tokens
    <3>4. ASSUME NEW h \in handles' \ handles PROVE Queue!NewestIn(h, handles')
      <4>1. PICK i \in batch : h = HandleOf(i, w)
        BY <3>2 DEF GrantAll
      <4>2. h.item = i /\ i \in known' /\ h.token = rows'[i].fencing_token
        <5>1. rows'[i] = GrantedRow(rows[i], w, now + l) /\ rows[i] \in Row
          BY <3>2 DEF GrantAll, IInv, TypeOK
        <5> QED BY <3>2, <4>1, <5>1, GrantedRowColumns DEF HandleOf, GrantAll
      <4>3. \A g \in handles' : g.token \in Nat
        BY ConstantsAssumption DEF IInv, TypeOK, Handle, Tokens
      <4> QED BY <4>2, <4>3 DEF IInv, HandleInv, Queue!NewestIn
    <3>5. handles \subseteq handles' /\ settled' = settled
      BY <3>2 DEF GrantAll
    <3> QED BY <3>3, <3>4, <3>5 DEF Queue!QNext, Queue!Mint
  <2>2. CASE Release
    <3>1. PICK h \in handles, due \in Times \cup {Null}, now \in Times : release(h, due, now)
      BY <2>0, <2>2 DEF Release
    <3>2. h \notin settled /\ h.item \in known /\ h.token = rows[h.item].fencing_token
      BY <3>1, HonouredIsNewest DEF release
    <3>3. Queue!NewestIn(h, handles)
      BY <3>2, OthersAreOlder DEF Queue!NewestIn
    <3> QED BY <3>1, <3>2, <3>3 DEF release, Queue!QNext, Queue!Record
  <2>3. CASE Wake \/ Renew \/ Purge \/ Tick \/ Die \/ UNCHANGED vars
    BY <2>3 DEF Wake, wake, Renew, renew, Purge, purge_settled, Tick, Die, Crash, vars
  <2> QED BY <2>1, <2>2, <2>3 DEF Next
<1> QED BY <1>1, <1>2, Invariance, PTL DEF Spec, RefinesFencedQueue, Queue!QSpec

-----------------------------------------------------------------------------
(* Wakes *)

\* With agreed clocks an owed item keeps its schedule: its lease, if any, is
\* over, so only a grant can change its row before the wake is served.
THEOREM WakesAreKept == Spec => []NoLostWake
<1>1. Init => OwedInv
  BY DEF Init, OwedInv
<1>2. IInv /\ OwedInv /\ [Next]_vars => OwedInv'
  <2> SUFFICES ASSUME IInv, OwedInv, [Next]_vars, Skew = 0 PROVE OwedInv'
    BY DEF OwedInv
  <2>0. clock \in Nat /\ Instants = {clock} /\ clock \in Times
    BY ConstantsAssumption DEF IInv, TypeOK, Instants, Times
  <2>1. CASE Wake
    <3>1. PICK i \in Items, due \in Times, p \in Payloads : wake(i, due, p, clock)
      BY <2>0, <2>1 DEF Wake
    <3>2. i \in known => rows[i] \in Row /\ ~held_by(rows[i], clock)
      BY <3>1 DEF wake, WakeOutcome, IInv, TypeOK
    <3>3. rows'[i].due = due /\ rows'[i].payload = p /\ rows'[i].lease_expires <= clock
      <4>1. CASE i \notin known
        BY <2>0, <3>1, <4>1 DEF wake, WokenRow, NewRow, Null
      <4>2. CASE i \in known
        BY <2>0, <3>1, <3>2, <4>2, ConstantsAssumption
           DEF wake, WokenRow, RescheduledRow, held_by, Row, Null, Times
      <4> QED BY <4>1, <4>2
    <3> QED BY <3>1, <3>3 DEF OwedInv, wake
  <2>2. CASE Sweep \/ Claim
    <3>1. PICK w \in Workers, l \in LeaseMs :
             claim_due(w, clock, l) \/ \E i \in Items : claim_item(i, w, clock, l)
      BY <2>0, <2>2 DEF Sweep, Claim
    <3>2. PICK batch \in SUBSET known : GrantAll(batch, w, clock + l)
      BY <2>0, <3>1, ClaimSteps
    <3> QED BY <3>2 DEF OwedInv, GrantAll
  <2>3. CASE Renew
    <3>1. PICK h \in handles, l \in LeaseMs : renew(h, clock, l)
      BY <2>0, <2>3 DEF Renew
    <3>2. h.item \in known /\ rows[h.item] \in Row /\ rows[h.item].lease_expires > clock
      BY <3>1 DEF renew, RenewAnswer, Honours, held_by, IInv, TypeOK
    <3>3. \A o \in owed : o.item # h.item
      BY <2>0, <3>2, ConstantsAssumption DEF OwedInv, Row, Times, Null
    <3> QED BY <3>1, <3>2, <3>3 DEF OwedInv, renew, IInv, TypeOK
  <2>4. CASE Release
    <3>1. PICK h \in handles, due \in Times \cup {Null} : release(h, due, clock)
      BY <2>0, <2>4 DEF Release
    <3>2. h.item \in known /\ rows[h.item] \in Row /\ rows[h.item].lease_expires > clock
      BY <3>1 DEF release, ReleaseAnswer, Honours, held_by, IInv, TypeOK
    <3>3. \A o \in owed : o.item # h.item
      BY <2>0, <3>2, ConstantsAssumption DEF OwedInv, Row, Times, Null
    <3> QED BY <3>1, <3>2, <3>3 DEF OwedInv, release, IInv, TypeOK
  <2>5. CASE Purge
    <3>1. PICK before \in Times : purge_settled(before)
      BY <2>5 DEF Purge
    <3>2. \A o \in owed : o.item \in known /\ ~Purgeable(rows[o.item], before)
      BY ConstantsAssumption DEF OwedInv, Purgeable, IInv, TypeOK, Wish, Times, Null
    <3> QED BY <3>1, <3>2 DEF OwedInv, purge_settled
  <2>6. CASE Tick
    <3>1. \A o \in owed : rows[o.item].lease_expires \in Int
      <4>1. \A o \in owed : rows[o.item] \in Row
        BY DEF OwedInv, IInv, TypeOK
      <4>2. Times \cup {Null} \subseteq Int
        BY ConstantsAssumption DEF Times, Null
      <4> QED BY <4>1, <4>2 DEF Row
    <3> QED BY <2>0, <2>6, <3>1 DEF Tick, OwedInv
  <2>7. CASE Die \/ UNCHANGED vars
    BY <2>7 DEF Die, Crash, vars, OwedInv
  <2> QED BY <2>1, <2>2, <2>3, <2>4, <2>5, <2>6, <2>7 DEF Next
<1>3. OwedInv => NoLostWake
  BY DEF OwedInv, NoLostWake
<1> QED BY <1>1, <1>2, <1>3, Invariance, PTL DEF Spec
=============================================================================
