------------------------ MODULE RunControllerProofs ------------------------
(***************************************************************************)
(* The stored record changes only from what is stored, so caches lag but   *)
(* never lie, commands are applied once, and of the controllers that are   *)
(* not fenced only the last to acquire a Run can commit to it.             *)
(***************************************************************************)
EXTENDS RunController, TLAPS

\* A Run that was never created has no content.
UncreatedIsAbsent == \A r \in Runs : store[r].revision = 0 => store[r] = Absent

Inv == TypeOK /\ CacheIsPast /\ ExactlyOnce /\ SingleAuthority /\ UncreatedIsAbsent

\* What a handler hands to commit: the expected revision is that of the cached
\* record, or none, and the successor adds receipts the record did not have.
Offer(c, r, expected, next, ms) ==
  /\ next \in Record /\ ms \subseteq Commands
  /\ next.revision = expected + 1
  /\ \/ expected = runs[c][r].revision /\ runs[c][r].phase # "Absent"
        /\ next.receipts = runs[c][r].receipts \cup ms
        /\ ms \cap runs[c][r].receipts = {}
        /\ Moves(runs[c][r].phase, runs[c][r].open, next.phase, next.open)
     \/ expected = 0 /\ \E m \in Creates : next = Created(m) /\ ms = {m}

\* An accepted offer continues what is stored.
LEMMA AcceptedContinues ==
  ASSUME Inv, NEW c \in Controllers, NEW r \in Runs, NEW expected \in Nat, NEW next, NEW ms,
         Offer(c, r, expected, next, ms), StoreAccepts(r, expected)
  PROVE  /\ next.revision = store[r].revision + 1
         /\ next.receipts = store[r].receipts \cup ms
         /\ ms \cap store[r].receipts = {}
         /\ \/ store[r] = Absent /\ \E m \in Creates : next = Created(m)
            \/ Moves(store[r].phase, store[r].open, next.phase, next.open)
  <1>1. CASE expected = 0 /\ \E m \in Creates : next = Created(m) /\ ms = {m}
    <2> PICK m \in Creates : next = Created(m) /\ ms = {m}
      BY <1>1
    <2>1. store[r] = Absent
      BY <1>1 DEF Inv, UncreatedIsAbsent, StoreAccepts
    <2>2. store[r].revision = 0 /\ store[r].receipts = {}
      BY <2>1 DEF Absent
    <2>3. next.revision = 1 /\ next.receipts = {m}
      BY DEF Created
    <2> QED  BY <2>1, <2>2, <2>3
  <1>2. CASE /\ expected = runs[c][r].revision /\ runs[c][r].phase # "Absent"
             /\ next.receipts = runs[c][r].receipts \cup ms
             /\ ms \cap runs[c][r].receipts = {}
             /\ Moves(runs[c][r].phase, runs[c][r].open, next.phase, next.open)
    <2>1. runs[c][r] = store[r]
      BY <1>2 DEF Inv, CacheIsPast, StoreAccepts
    <2> QED  BY <2>1, <1>2 DEF Offer
  <1> QED  BY <1>1, <1>2 DEF Offer

\* commit keeps everything but the question of authority.
LEMMA CommitStep ==
  ASSUME Inv, NEW c \in Controllers, NEW r \in Runs, NEW expected \in Nat, NEW next, NEW ms,
         NEW answer \in Answers,
         Offer(c, r, expected, next, ms), commit(c, r, expected, next, ms, answer)
  PROVE  /\ store' \in [Runs -> Record]
         /\ runs' \in [Controllers -> [Runs -> Record]]
         /\ reload_required' \in [Controllers -> SUBSET Runs]
         /\ applied' \in [Runs -> [Commands -> Nat]]
         /\ told' \subseteq Runs \X Commands
         /\ CacheIsPast' /\ ExactlyOnce' /\ UncreatedIsAbsent'
  <1> USE DEF Inv
  <1>0. next \in Record /\ ms \in SUBSET Commands /\ next.revision = expected + 1
    BY DEF Offer
  <1>t. TypeOK
    OBVIOUS
  <1>1. /\ store' \in [Runs -> Record]
        /\ applied' \in [Runs -> [Commands -> Nat]]
    <2>1. CASE UNCHANGED <<store, applied>>
      BY <2>1, <1>t DEF TypeOK
    <2>2. CASE /\ store' = [store EXCEPT ![r] = next]
               /\ applied' = [applied EXCEPT ![r] =
                      [m \in Commands |-> @[m] + IF m \in ms THEN 1 ELSE 0]]
      BY <2>2, <1>0, <1>t DEF TypeOK
    <2> QED  BY <2>1, <2>2 DEF commit, Persist
  <1>2. runs' \in [Controllers -> [Runs -> Record]]
    BY <1>0, <1>t DEF commit, Cache, TypeOK
  <1>3. reload_required' \in [Controllers -> SUBSET Runs]
    BY <1>t DEF commit, TypeOK
  <1>4. told' \subseteq Runs \X Commands
    BY <1>t, <1>0 DEF commit, TypeOK
  <1>5. CASE ~StoreAccepts(r, expected)
    <2>1. answer \notin {"Applied", "CommitUnknown"}
      BY <1>5 DEF commit, StoreAnswers
    <2>2. UNCHANGED <<store, runs, applied, told>>
      BY <2>1 DEF commit, Persist, Cache
    <2> QED  BY <1>1, <1>2, <1>3, <1>4, <2>2 DEF CacheIsPast, ExactlyOnce, UncreatedIsAbsent
  <1>6. CASE StoreAccepts(r, expected)
    <2>1. /\ next.revision = store[r].revision + 1
          /\ next.receipts = store[r].receipts \cup ms
          /\ ms \cap store[r].receipts = {}
      BY <1>6, AcceptedContinues
    <2>2. CASE UNCHANGED <<store, applied>> /\ answer # "Applied"
      <3>1. UNCHANGED <<store, runs, applied, told>>
        BY <2>2 DEF commit, Cache
      <3> QED  BY <1>1, <1>2, <1>3, <1>4, <3>1 DEF CacheIsPast, ExactlyOnce, UncreatedIsAbsent
    <2>3. CASE /\ store' = [store EXCEPT ![r] = next]
               /\ applied' = [applied EXCEPT ![r] =
                      [m \in Commands |-> @[m] + IF m \in ms THEN 1 ELSE 0]]
      <3>1. CacheIsPast'
        <4> SUFFICES ASSUME NEW d \in Controllers, NEW s \in Runs
                     PROVE  /\ runs'[d][s].revision <= store'[s].revision
                            /\ runs'[d][s].receipts \subseteq store'[s].receipts
                            /\ runs'[d][s].revision = store'[s].revision
                                 => runs'[d][s] = store'[s]
          BY DEF CacheIsPast
        <4>0. /\ store[s] \in Record /\ runs[d][s] \in Record
              /\ store[s].revision \in Nat /\ runs[d][s].revision \in Nat
          BY <1>t DEF TypeOK, Record
        <4>1. CASE s # r
          <5>1. store'[s] = store[s] /\ runs'[d][s] = runs[d][s]
            BY <4>1, <2>3, <1>t DEF commit, Cache, TypeOK
          <5> QED  BY <5>1 DEF CacheIsPast
        <4>2. CASE s = r
          <5>1. store'[s] = next
            BY <4>2, <2>3, <1>t DEF TypeOK
          <5>2. runs'[d][s] = next \/ runs'[d][s] = runs[d][s]
            BY <4>2, <1>t DEF commit, Cache, TypeOK
          <5>3. CASE runs'[d][s] = next
            BY <5>1, <5>3, <1>0 DEF Record
          <5>4. CASE runs'[d][s] = runs[d][s]
            BY <5>1, <5>4, <2>1, <4>0, <4>2 DEF CacheIsPast
          <5> QED  BY <5>2, <5>3, <5>4
        <4> QED  BY <4>1, <4>2
      <3>2. ExactlyOnce'
        <4> SUFFICES ASSUME NEW s \in Runs, NEW m \in Commands
                     PROVE  /\ applied'[s][m] = IF m \in store'[s].receipts THEN 1 ELSE 0
                            /\ <<s, m>> \in told' => m \in store'[s].receipts
          BY DEF ExactlyOnce
        <4>0. applied[s][m] \in Nat
          BY <1>t DEF TypeOK
        <4>1. CASE s # r
          <5>1. store'[s] = store[s] /\ applied'[s] = applied[s]
            BY <4>1, <2>3, <1>t DEF TypeOK
          <5>2. <<s, m>> \in told' => <<s, m>> \in told
            BY <4>1 DEF commit
          <5> QED  BY <5>1, <5>2 DEF ExactlyOnce
        <4>2. CASE s = r
          <5>1. store'[s] = next
            BY <4>2, <2>3, <1>t DEF TypeOK
          <5>2. applied'[s][m] = applied[s][m] + IF m \in ms THEN 1 ELSE 0
            BY <4>2, <2>3, <1>t DEF TypeOK
          <5>3. <<s, m>> \in told' => <<s, m>> \in told \/ m \in ms
            BY DEF commit
          <5> QED  BY <5>1, <5>2, <5>3, <4>0, <4>2, <2>1 DEF ExactlyOnce
        <4> QED  BY <4>1, <4>2
      <3>3. UncreatedIsAbsent'
        BY <2>3, <2>1, <1>0, <1>t DEF UncreatedIsAbsent, TypeOK, Record
      <3> QED  BY <1>1, <1>2, <1>3, <1>4, <3>1, <3>2, <3>3
    <2> QED  BY <2>2, <2>3 DEF commit, Persist
  <1> QED  BY <1>5, <1>6

\* A move from a settled, ended Run does not make it one that needs recovery,
\* unless it is a recovery, which such a Run cannot enter.
LEMMA SettledStaysSettled ==
  ASSUME NEW rec \in Record, NEW q, NEW n,
         ~NeedsRecovery(rec),
         Commanded(rec.phase, rec.open, q, n) \/ CalledBack(rec.phase, rec.open, q, n)
  PROVE  q \notin Live /\ ~n
  BY DEF NeedsRecovery, Commanded, CalledBack, Working, Controlled, Fences, Recovered,
         Record, Live

\* The authority after a commit by a controller that was fenced on failure.
LEMMA AuthorityStep ==
  ASSUME Inv, NEW c \in Controllers, NEW r \in Runs, NEW expected \in Nat, NEW next, NEW ms,
         NEW answer \in Answers,
         Offer(c, r, expected, next, ms), commit(c, r, expected, next, ms, answer),
         answer # "Applied" =>
           /\ authority_fenced' = [authority_fenced EXCEPT ![c] = @ \cup {r}]
           /\ UNCHANGED owner,
         answer = "Applied" =>
           /\ \A d \in Controllers : authority_fenced'[d] \ {r} = authority_fenced[d] \ {r}
           /\ \A s \in Runs \ {r} : owner'[s] = owner[s]
           /\ NeedsRecovery(next) /\ r \notin authority_fenced'[c] => owner'[r] = c
  PROVE  SingleAuthority'
  <1> USE DEF Inv
  <1> SUFFICES ASSUME NEW d \in Controllers, NEW s \in Runs,
                      d \in up', s \notin authority_fenced'[d],
                      runs'[d][s].revision = store'[s].revision,
                      NeedsRecovery(store'[s])
               PROVE  owner'[s] = d
    BY DEF SingleAuthority
  <1>t. TypeOK /\ next \in Record /\ next.revision = expected + 1
    BY DEF Offer
  <1>u. up' = up
    BY DEF commit
  <1>1. CASE s # r
    <2>1. store'[s] = store[s] /\ runs'[d][s] = runs[d][s]
      BY <1>1, <1>t DEF commit, Persist, Cache, TypeOK
    <2>2. owner'[s] = owner[s] /\ s \notin authority_fenced[d]
      BY <1>1, <1>t DEF TypeOK
    <2> QED  BY <2>1, <2>2, <1>u DEF SingleAuthority
  <1>2. CASE s = r /\ UNCHANGED store /\ answer # "Applied"
    <2>1. runs' = runs /\ owner' = owner
      BY <1>2 DEF commit, Cache
    <2>2. s \notin authority_fenced[d]
      BY <1>2, <1>t DEF TypeOK
    <2> QED  BY <2>1, <2>2, <1>2, <1>u DEF SingleAuthority
  <1>3. CASE s = r /\ store' = [store EXCEPT ![r] = next]
                   /\ answer \in {"Applied", "CommitUnknown"}
    <2>0. StoreAccepts(r, expected)
      BY <1>3 DEF commit, StoreAnswers
    <2>1. next.revision = store[r].revision + 1
      BY <2>0, AcceptedContinues
    <2>2. store'[s] = next
      BY <1>3, <1>t DEF TypeOK
    <2>3. runs[d][s].revision <= store[s].revision
          /\ runs[d][s].revision \in Nat /\ store[s].revision \in Nat
      BY <1>t DEF CacheIsPast, TypeOK, Record
    <2>4. runs'[d][s] # runs[d][s]
      BY <2>1, <2>2, <2>3, <1>3
    <2>5. d = c /\ answer = "Applied"
      BY <2>4, <1>3, <1>t DEF commit, Cache, TypeOK
    <2> QED  BY <2>5, <2>2, <1>3
  <1> QED  BY <1>1, <1>2, <1>3 DEF commit, Persist

-----------------------------------------------------------------------------
(* The actions *)

\* create_run
LEMMA CreateStep ==
  ASSUME Inv, NEW c \in Controllers, NEW r \in Runs, NEW m \in Creates, create_run(c, r, m)
  PROVE  Inv'
  <1> PICK answer \in Answers :
         /\ commit(c, r, 0, Created(m), {m}, answer)
         /\ authority_fenced' = Fenced(c, r, answer)
         /\ owner' = Owner(c, r, answer)
    BY DEF create_run
  <1>1. Offer(c, r, 0, Created(m), {m})
    <2>1. Created(m) \in Record /\ Created(m).revision = 0 + 1
      BY ConstantsAssumption DEF Created, Record, Phases
    <2> QED  BY <2>1, ConstantsAssumption DEF Offer
  <1>2. SingleAuthority'
    BY <1>1, AuthorityStep DEF Fenced, Owner, Inv, TypeOK
  <1>3. TypeOK'
    <2>1. /\ authority_fenced' \in [Controllers -> SUBSET Runs]
          /\ owner' \in [Runs -> Controllers \cup {Nobody}]
      BY DEF Fenced, Owner, Inv, TypeOK
    <2>2. up' \subseteq Controllers
      BY DEF commit, Inv, TypeOK
    <2> QED  BY <1>1, <2>1, <2>2, CommitStep DEF TypeOK
  <1> QED  BY <1>1, <1>2, <1>3, CommitStep DEF Inv

\* The successor of a cached record is an offer.
LEMMA SuccessorIsOffer ==
  ASSUME Inv, NEW c \in Controllers, NEW r \in Runs, NEW q \in Phases, NEW n \in BOOLEAN,
         NEW ms \in SUBSET Commands, ms \cap runs[c][r].receipts = {},
         Moves(runs[c][r].phase, runs[c][r].open, q, n)
  PROVE  /\ runs[c][r] \in Record /\ runs[c][r].revision \in Nat
         /\ Offer(c, r, runs[c][r].revision, Successor(runs[c][r], q, n, ms), ms)
  <1>1. runs[c][r] \in Record
    BY DEF Inv, TypeOK
  <1>2. runs[c][r].phase # "Absent"
    BY DEF Moves, Commanded, CalledBack, Reopens, Working, Controlled, Fences, Recovered, Live
  <1>3. Successor(runs[c][r], q, n, ms) \in Record
    BY <1>1 DEF Successor, Record
  <1> QED  BY <1>1, <1>2, <1>3 DEF Offer, Successor, Record

\* A command, or a callback, of a controller that is not fenced.
LEMMA MutationStep ==
  ASSUME Inv, NEW c \in up, NEW r \in Runs, NEW q \in Phases, NEW n \in BOOLEAN,
         NEW ms \in SUBSET Commands, ms \cap runs[c][r].receipts = {},
         NEW answer \in Answers,
         Commanded(runs[c][r].phase, runs[c][r].open, q, n)
           \/ CalledBack(runs[c][r].phase, runs[c][r].open, q, n),
         r \notin authority_fenced[c],
         commit(c, r, runs[c][r].revision, Successor(runs[c][r], q, n, ms), ms, answer),
         authority_fenced' = Fenced(c, r, answer), UNCHANGED owner
  PROVE  Inv'
  <1> DEFINE next == Successor(runs[c][r], q, n, ms)
             rev == runs[c][r].revision
  <1>c. c \in Controllers
    BY DEF Inv, TypeOK
  <1>1. runs[c][r] \in Record /\ rev \in Nat /\ Offer(c, r, rev, next, ms)
    BY <1>c, SuccessorIsOffer DEF Moves
  <1>2. ASSUME answer = "Applied", NeedsRecovery(next) PROVE owner'[r] = c
    <2>1. StoreAccepts(r, rev)
      BY <1>2 DEF commit, StoreAnswers
    <2>2. runs[c][r] = store[r]
      BY <2>1, <1>c DEF StoreAccepts, Inv, CacheIsPast
    <2>3. NeedsRecovery(runs[c][r])
      <3>1. q \in Live \/ n
        BY <1>2 DEF NeedsRecovery, Successor
      <3> QED  BY <3>1, <1>1, SettledStaysSettled
    <2> QED  BY <2>2, <2>3, <1>c DEF Inv, SingleAuthority
  <1> HIDE DEF next, rev
  <1>3. SingleAuthority'
    BY <1>c, <1>1, <1>2, AuthorityStep DEF Fenced, next, rev
  <1>4. TypeOK'
    <2>1. /\ authority_fenced' \in [Controllers -> SUBSET Runs]
          /\ owner' \in [Runs -> Controllers \cup {Nobody}]
      BY DEF Fenced, Inv, TypeOK
    <2>2. up' \subseteq Controllers
      BY DEF commit, Inv, TypeOK
    <2> QED  BY <1>c, <1>1, <2>1, <2>2, CommitStep DEF TypeOK, next, rev
  <1> QED  BY <1>c, <1>1, <1>3, <1>4, CommitStep DEF Inv, next, rev

\* begin_recovery
LEMMA RecoveryStep ==
  ASSUME Inv, NEW c \in Controllers, NEW r \in Runs, NEW m \in Commands,
         NEW q \in Phases, NEW n \in BOOLEAN, begin_recovery(c, r, m, q, n)
  PROVE  Inv'
  <1> DEFINE next == Successor(runs[c][r], q, n, {m})
             rev == runs[c][r].revision
  <1> PICK answer \in Answers :
         /\ commit(c, r, rev, next, {m}, answer)
         /\ authority_fenced' = IF answer = "Applied"
                                THEN [authority_fenced EXCEPT ![c] = @ \ {r}]
                                ELSE Fenced(c, r, answer)
         /\ owner' = Owner(c, r, answer)
    BY DEF begin_recovery
  <1>1. rev \in Nat /\ Offer(c, r, rev, next, {m})
    BY SuccessorIsOffer DEF begin_recovery, Moves
  <1> HIDE DEF next, rev
  <1>2. SingleAuthority'
    BY <1>1, AuthorityStep DEF Fenced, Owner, Inv, TypeOK
  <1>3. TypeOK'
    <2>1. /\ authority_fenced' \in [Controllers -> SUBSET Runs]
          /\ owner' \in [Runs -> Controllers \cup {Nobody}]
      BY DEF Fenced, Owner, Inv, TypeOK
    <2>2. up' \subseteq Controllers
      BY DEF commit, Inv, TypeOK
    <2> QED  BY <1>1, <2>1, <2>2, CommitStep DEF TypeOK
  <1> QED  BY <1>1, <1>2, <1>3, CommitStep DEF Inv

\* open
LEMMA OpenStep ==
  ASSUME Inv, NEW c \in Controllers, open(c)
  PROVE  Inv'
  <1> USE DEF Inv, open
  <1>1. /\ runs'[c] = store /\ store' = store
        /\ \A d \in Controllers \ {c} : runs'[d] = runs[d]
                                        /\ authority_fenced'[d] = authority_fenced[d]
        /\ authority_fenced'[c] = {r \in Runs : NeedsRecovery(store[r])}
    BY DEF TypeOK
  <1>2. TypeOK'
    BY DEF TypeOK, history
  <1>3. CacheIsPast'
    <2> SUFFICES ASSUME NEW d \in Controllers, NEW r \in Runs
                 PROVE  /\ runs'[d][r].revision <= store'[r].revision
                        /\ runs'[d][r].receipts \subseteq store'[r].receipts
                        /\ runs'[d][r].revision = store'[r].revision => runs'[d][r] = store'[r]
      BY DEF CacheIsPast
    <2>1. store[r].revision \in Nat
      BY DEF TypeOK, Record
    <2>2. CASE d = c
      BY <2>1, <2>2, <1>1
    <2>3. CASE d # c
      BY <2>3, <1>1 DEF CacheIsPast
    <2> QED  BY <2>2, <2>3
  <1>4. ExactlyOnce' /\ UncreatedIsAbsent'
    BY DEF ExactlyOnce, UncreatedIsAbsent, history
  <1>5. SingleAuthority'
    BY <1>1 DEF SingleAuthority, history, NeedsRecovery
  <1> QED  BY <1>2, <1>3, <1>4, <1>5

\* The process of a controller ends.
LEMMA CrashStep ==
  ASSUME Inv, NEW c \in Controllers, Crash(c)
  PROVE  Inv'
  <1> USE DEF Inv, Crash
  <1>1. /\ store' = store /\ up' = up \ {c}
        /\ runs'[c] = [r \in Runs |-> Absent]
        /\ \A d \in Controllers \ {c} : runs'[d] = runs[d]
                                        /\ authority_fenced'[d] = authority_fenced[d]
    BY DEF TypeOK
  <1>2. TypeOK'
    <2>1. [r \in Runs |-> Absent] \in [Runs -> Record]
      BY DEF Absent, Record
    <2> QED  BY <2>1 DEF TypeOK
  <1>3. CacheIsPast'
    <2> SUFFICES ASSUME NEW d \in Controllers, NEW r \in Runs
                 PROVE  /\ runs'[d][r].revision <= store'[r].revision
                        /\ runs'[d][r].receipts \subseteq store'[r].receipts
                        /\ runs'[d][r].revision = store'[r].revision => runs'[d][r] = store'[r]
      BY DEF CacheIsPast
    <2>1. store[r].revision \in Nat
      BY DEF TypeOK, Record
    <2>2. CASE d = c
      <3>1. runs'[d][r] = Absent /\ Absent.revision = 0 /\ Absent.receipts = {}
        BY <2>2, <1>1 DEF Absent
      <3>2. store[r].revision = 0 => store[r] = Absent
        BY DEF UncreatedIsAbsent
      <3> QED  BY <3>1, <3>2, <2>1, <1>1
    <2>3. CASE d # c
      BY <2>3, <1>1 DEF CacheIsPast
    <2> QED  BY <2>2, <2>3
  <1>4. ExactlyOnce' /\ UncreatedIsAbsent'
    BY DEF ExactlyOnce, UncreatedIsAbsent
  <1>5. SingleAuthority'
    <2> SUFFICES ASSUME NEW d \in Controllers, NEW r \in Runs,
                        d \in up', r \notin authority_fenced'[d],
                        runs'[d][r].revision = store'[r].revision, NeedsRecovery(store'[r])
                 PROVE  owner'[r] = d
      BY DEF SingleAuthority
    <2>1. d # c /\ d \in up
      BY <1>1
    <2>2. owner[r] = d
      BY <2>1, <1>1 DEF SingleAuthority, NeedsRecovery
    <2> QED  BY <2>1, <2>2
  <1> QED  BY <1>2, <1>3, <1>4, <1>5

\* reload_run
LEMMA ReloadStep ==
  ASSUME Inv, NEW c \in Controllers, NEW r \in Runs, reload_run(c, r)
  PROVE  Inv'
  <1> USE DEF Inv, reload_run
  <1>1. /\ store' = store /\ up' = up /\ owner' = owner
        /\ runs'[c][r] = store[r]
        /\ NeedsRecovery(store[r]) => r \in authority_fenced'[c]
        /\ \A d \in Controllers, s \in Runs : <<d, s>> # <<c, r>> =>
              /\ runs'[d][s] = runs[d][s]
              /\ s \notin authority_fenced'[d] => s \notin authority_fenced[d]
    BY DEF TypeOK, history
  <1>2. TypeOK'
    BY DEF TypeOK, history
  <1>3. CacheIsPast'
    <2> SUFFICES ASSUME NEW d \in Controllers, NEW s \in Runs
                 PROVE  /\ runs'[d][s].revision <= store'[s].revision
                        /\ runs'[d][s].receipts \subseteq store'[s].receipts
                        /\ runs'[d][s].revision = store'[s].revision => runs'[d][s] = store'[s]
      BY DEF CacheIsPast
    <2>1. store[s].revision \in Nat
      BY DEF TypeOK, Record
    <2>2. CASE d = c /\ s = r
      BY <2>1, <2>2, <1>1
    <2>3. CASE ~(d = c /\ s = r)
      BY <2>3, <1>1 DEF CacheIsPast
    <2> QED  BY <2>2, <2>3
  <1>4. ExactlyOnce' /\ UncreatedIsAbsent'
    BY DEF ExactlyOnce, UncreatedIsAbsent, history
  <1>5. SingleAuthority'
    <2> SUFFICES ASSUME NEW d \in Controllers, NEW s \in Runs,
                        d \in up', s \notin authority_fenced'[d],
                        runs'[d][s].revision = store'[s].revision, NeedsRecovery(store'[s])
                 PROVE  owner'[s] = d
      BY DEF SingleAuthority
    <2>1. ~(d = c /\ s = r)
      BY <1>1 DEF NeedsRecovery
    <2> QED  BY <2>1, <1>1 DEF SingleAuthority, NeedsRecovery
  <1> QED  BY <1>2, <1>3, <1>4, <1>5

\* The answer to a repeated command.
LEMMA DuplicateStep ==
  ASSUME Inv, NEW c \in Controllers, NEW r \in Runs, NEW m \in Commands, duplicate(c, r, m)
  PROVE  Inv'
  <1> USE DEF Inv, duplicate, memory
  <1>1. TypeOK'
    BY DEF TypeOK
  <1>2. m \in store[r].receipts
    BY DEF CacheIsPast
  <1>3. ExactlyOnce'
    BY <1>2 DEF ExactlyOnce
  <1>4. CacheIsPast' /\ SingleAuthority' /\ UncreatedIsAbsent'
    BY DEF CacheIsPast, SingleAuthority, UncreatedIsAbsent, NeedsRecovery
  <1> QED  BY <1>1, <1>3, <1>4

-----------------------------------------------------------------------------
(* The theorems *)

\* No step of any controller breaks the invariant.
LEMMA NextStep == Inv /\ [Next]_vars => Inv'
  <1> SUFFICES ASSUME Inv, [Next]_vars PROVE Inv'
    OBVIOUS
  <1>1. CASE UNCHANGED vars
    BY <1>1 DEF vars, memory, history, Inv, TypeOK, CacheIsPast, ExactlyOnce, SingleAuthority,
                UncreatedIsAbsent, NeedsRecovery
  <1>2. CASE Create
    BY <1>2, CreateStep DEF Create
  <1>3. CASE Mutate
    <2> PICK c \in Controllers, r \in Runs, m \in Commands \ Creates, q \in Phases, n \in BOOLEAN :
           command(c, r, m, q, n) \/ begin_recovery(c, r, m, q, n)
      BY <1>3 DEF Mutate
    <2>1. CASE begin_recovery(c, r, m, q, n)
      BY <2>1, RecoveryStep
    <2>2. CASE command(c, r, m, q, n)
      <3> PICK answer \in Answers :
             /\ commit(c, r, runs[c][r].revision, Successor(runs[c][r], q, n, {m}), {m}, answer)
             /\ authority_fenced' = Fenced(c, r, answer)
        BY <2>2 DEF command
      <3>1. {m} \in SUBSET Commands /\ {m} \cap runs[c][r].receipts = {}
        BY <2>2 DEF command
      <3> QED  BY <2>2, <3>1, MutationStep DEF command
    <2> QED  BY <2>1, <2>2
  <1>4. CASE Report
    <2> PICK c \in Controllers, r \in Runs, q \in Phases, n \in BOOLEAN : callback(c, r, q, n)
      BY <1>4 DEF Report
    <2> PICK answer \in Answers :
           /\ commit(c, r, runs[c][r].revision, Successor(runs[c][r], q, n, {}), {}, answer)
           /\ authority_fenced' = Fenced(c, r, answer)
      BY DEF callback
    <2>1. {} \in SUBSET Commands /\ {} \cap runs[c][r].receipts = {}
      OBVIOUS
    <2> QED  BY <2>1, MutationStep DEF callback
  <1>5. CASE Repeat
    BY <1>5, DuplicateStep DEF Repeat
  <1>6. CASE Process
    BY <1>6, OpenStep, CrashStep, ReloadStep DEF Process
  <1> QED  BY <1>1, <1>2, <1>3, <1>4, <1>5, <1>6 DEF Next

\* The inductive invariant of the controllers.
THEOREM ControllerInvariance == Spec => []Inv
  <1>1. Init => Inv
    <2> SUFFICES ASSUME Init PROVE Inv
      OBVIOUS
    <2>1. Absent \in Record /\ Absent.receipts = {} /\ ~NeedsRecovery(Absent)
      BY DEF Absent, Record, NeedsRecovery, Live
    <2>2. TypeOK
      BY <2>1 DEF Init, TypeOK
    <2>3. CacheIsPast /\ ExactlyOnce /\ UncreatedIsAbsent
      BY <2>1 DEF Init, CacheIsPast, ExactlyOnce, UncreatedIsAbsent, Record
    <2>4. SingleAuthority
      BY DEF Init, SingleAuthority
    <2> QED  BY <2>2, <2>3, <2>4 DEF Inv
  <1> QED  BY <1>1, NextStep, PTL DEF Spec

\* Records, caches and fences are well formed in every reachable state.
THEOREM ControllerTypes == Spec => []TypeOK
  BY ControllerInvariance, PTL DEF Inv

\* No controller has seen a commit that did not happen: commit caches only
\* what the store acknowledged.
THEOREM CachesLag == Spec => []CacheIsPast
  BY ControllerInvariance, PTL DEF Inv

\* Command receipts and the revision CAS make every command apply at most once,
\* whatever crashes, retries and lost acknowledgements come between.
THEOREM CommandsApplyOnce == Spec => []ExactlyOnce
  BY ControllerInvariance, PTL DEF Inv

\* Of the controllers that are not fenced, the store accepts a commit only from
\* the one that acquired the Run last.
THEOREM AuthorityIsSingle == Spec => []SingleAuthority
  BY ControllerInvariance, PTL DEF Inv

\* A commit writes the successor of what is stored, by one move of the reducer.
LEMMA StoreMoves ==
  ASSUME Inv, Next, NEW r \in Runs, store'[r] # store[r]
  PROVE  /\ store'[r].revision = store[r].revision + 1
         /\ \/ store[r] = Absent /\ \E m \in Creates : store'[r] = Created(m)
            \/ Moves(store[r].phase, store[r].open, store'[r].phase, store'[r].open)
  <1>0. ASSUME NEW c \in Controllers, NEW s \in Runs, NEW expected \in Nat, NEW next, NEW ms,
               NEW answer \in Answers,
               Offer(c, s, expected, next, ms), commit(c, s, expected, next, ms, answer)
        PROVE  /\ store'[r].revision = store[r].revision + 1
               /\ \/ store[r] = Absent /\ \E m \in Creates : store'[r] = Created(m)
                  \/ Moves(store[r].phase, store[r].open, store'[r].phase, store'[r].open)
    <2>1. store' = [store EXCEPT ![s] = next] /\ answer \in {"Applied", "CommitUnknown"}
      BY <1>0 DEF commit, Persist
    <2>2. StoreAccepts(s, expected)
      BY <1>0, <2>1 DEF commit, StoreAnswers
    <2>3. s = r /\ store'[r] = next
      BY <2>1 DEF Inv, TypeOK
    <2> QED  BY <1>0, <2>2, <2>3, AcceptedContinues
  <1>1. CASE Create
    <2> PICK c \in Controllers, s \in Runs, m \in Creates : create_run(c, s, m)
      BY <1>1 DEF Create
    <2>1. Offer(c, s, 0, Created(m), {m})
      <3>1. Created(m) \in Record /\ Created(m).revision = 0 + 1
        BY ConstantsAssumption DEF Created, Record, Phases
      <3> QED  BY <3>1, ConstantsAssumption DEF Offer
    <2> QED  BY <2>1, <1>0 DEF create_run
  <1>2. CASE Mutate
    <2> PICK c \in Controllers, s \in Runs, m \in Commands \ Creates, q \in Phases, n \in BOOLEAN :
           command(c, s, m, q, n) \/ begin_recovery(c, s, m, q, n)
      BY <1>2 DEF Mutate
    <2>1. PICK answer \in Answers :
            commit(c, s, runs[c][s].revision, Successor(runs[c][s], q, n, {m}), {m}, answer)
      BY DEF command, begin_recovery
    <2>2. Moves(runs[c][s].phase, runs[c][s].open, q, n) /\ {m} \cap runs[c][s].receipts = {}
      BY DEF command, begin_recovery, Moves
    <2>3. /\ runs[c][s].revision \in Nat
          /\ Offer(c, s, runs[c][s].revision, Successor(runs[c][s], q, n, {m}), {m})
      BY <2>2, SuccessorIsOffer
    <2> QED  BY <2>1, <2>3, <1>0
  <1>3. CASE Report
    <2> PICK c \in Controllers, s \in Runs, q \in Phases, n \in BOOLEAN : callback(c, s, q, n)
      BY <1>3 DEF Report
    <2>1. PICK answer \in Answers :
            commit(c, s, runs[c][s].revision, Successor(runs[c][s], q, n, {}), {}, answer)
      BY DEF callback
    <2>2. Moves(runs[c][s].phase, runs[c][s].open, q, n) /\ {} \cap runs[c][s].receipts = {}
      BY DEF callback, Moves
    <2>3. /\ runs[c][s].revision \in Nat
          /\ Offer(c, s, runs[c][s].revision, Successor(runs[c][s], q, n, {}), {})
      BY <2>2, SuccessorIsOffer
    <2> QED  BY <2>1, <2>3, <1>0
  <1>4. CASE Repeat
    BY <1>4 DEF Repeat, duplicate
  <1>5. CASE Process
    BY <1>5 DEF Process, open, Crash, reload_run
  <1> QED  BY <1>1, <1>2, <1>3, <1>4, <1>5 DEF Next

\* The concurrent controllers implement, for each Run, one sequence of reducer
\* moves: what Run models as atomic is atomic.
THEOREM HistoryIsLinear == Spec => LinearHistory
  <1>1. Inv /\ [Next]_vars =>
          [\A r \in Runs : store'[r] # store[r] =>
             /\ store'[r].revision = store[r].revision + 1
             /\ \/ store[r] = Absent /\ \E m \in Creates : store'[r] = Created(m)
                \/ Moves(store[r].phase, store[r].open, store'[r].phase, store'[r].open)]_vars
    BY StoreMoves
  <1> QED  BY <1>1, ControllerInvariance, PTL DEF Spec, LinearHistory
=============================================================================
