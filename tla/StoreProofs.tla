------------------------------ MODULE StoreProofs ------------------------------
(***************************************************************************)
(* The two stores that forget with time.  The status store, for every set  *)
(* of accounts and every pair of TTLs: what racing, repeated and late Mark *)
(* calls leave in a record.  The nonce store, for every number of          *)
(* deliveries, every skew and every TTL of at least twice the skew: a      *)
(* signed request reaches the handler at most once while it is fresh.      *)
(***************************************************************************)
EXTENDS StatusStore, HMAC, TLAPS

\* The precedence is a natural number and never 0 for a stored outcome.
LEMMA PrecedenceType ==
  ASSUME NEW s \in Outcome \cup {"unsynced"}
  PROVE  /\ statusPrecedence(s) \in 0 .. 3
         /\ s # "unsynced" => statusPrecedence(s) > 0
  BY DEF Outcome, statusPrecedence

\* One Mark call is one set with one of the three outcomes and its TTL.
LEMMA MarkIsSet ==
  ASSUME NEW u \in UPN, NEW source \in Nat, NEW time \in Nat, Mark(u, source, time)
  PROVE  /\ clock' = clock
         /\ \E status \in Outcome, ttl \in {PendingTTL, TerminalTTL} :
              set(u, status, source, ttl, time) /\ Offer(u, status, source)
  BY DEF Mark, MarkPending, MarkSynced, MarkFailed, Outcome

\* Types are preserved by every write and every tick of StatusStore.
THEOREM StoreTypeCorrect == StoreSpec => []StoreTypeOK
<1> USE ClockAssumption, SyncStatusAssumption
<1>1. StoreInit => StoreTypeOK
  BY DEF StoreInit, StatusInit, StoreTypeOK, StatusTypeOK, NoRecord, Record, Outcome
<1>2. StoreTypeOK /\ [StoreNext]_storeVars => StoreTypeOK'
  <2> SUFFICES ASSUME StoreTypeOK, [StoreNext]_storeVars PROVE StoreTypeOK'
    OBVIOUS
  <2> USE DEF StoreTypeOK, StatusTypeOK
  <2>1. ASSUME NEW u \in UPN, NEW time \in 0 .. clock, NEW source \in 0 .. time,
               Mark(u, source, time)
        PROVE  StoreTypeOK'
    <3>1. PICK status \in Outcome, ttl \in {PendingTTL, TerminalTTL} :
            set(u, status, source, ttl, time) /\ Offer(u, status, source)
      BY <2>1, MarkIsSet
    <3>2. clock' = clock
      BY <2>1, MarkIsSet
    <3>3. records' \in [UPN -> Record] /\ expiry' \in [UPN -> Nat]
      BY <3>1 DEF set, statusVars, Record
    <3>4. offered' \in [UPN -> SUBSET [status : Outcome, source : Nat]]
      BY <3>1 DEF Offer
    <3> QED BY <3>2, <3>3, <3>4
  <2>2. CASE StoreTick
    BY <2>2 DEF StoreTick, ExpireKeys, Advance, NoRecord, Record, Outcome
  <2>3. CASE UNCHANGED storeVars
    BY <2>3 DEF storeVars
  <2> QED BY <2>1, <2>2, <2>3 DEF StoreNext
<1> QED BY <1>1, <1>2, PTL DEF StoreSpec

\* set keeps the newest of what it has been offered.
LEMMA SetKeepsNewest ==
  ASSUME StoreTypeOK, RecordIsNewestWrite,
         NEW u \in UPN, NEW source \in Nat, NEW time \in Nat, NEW ttl \in Nat,
         NEW status \in Outcome,
         set(u, status, source, ttl, time), Offer(u, status, source)
  PROVE  RecordIsNewestWrite'
<1> DEFINE o == [status |-> status, source |-> source]
<1>1. \A v \in UPN : v # u => records'[v] = records[v] /\ offered'[v] = offered[v]
  BY DEF set, Offer, statusVars, StoreTypeOK, StatusTypeOK
<1>2. offered'[u] = offered[u] \cup {o}
  BY DEF Offer, StoreTypeOK, StatusTypeOK
<1>3. /\ records[u].source \in Nat
      /\ records[u].status \in Outcome \cup {"unsynced"}
      /\ \A p \in offered[u] : p.source \in Nat /\ p.status \in Outcome
  BY DEF Record, StoreTypeOK, StatusTypeOK
<1>4. /\ statusPrecedence(records[u].status) \in Nat
      /\ statusPrecedence(status) \in Nat
      /\ \A p \in offered[u] : statusPrecedence(p.status) \in Nat
  BY <1>3, PrecedenceType
<1>5. /\ [status |-> records'[u].status, source |-> records'[u].source] \in offered'[u]
      /\ \A p \in offered'[u] : ~ Newer(p, records'[u])
  <2>1. CASE Outdated(u, status, source)
    <3>1. records' = records
      BY <2>1 DEF set, statusVars
    <3>2. ~ Newer(o, records[u])
      BY <2>1, <1>3, <1>4 DEF Outdated, Newer
    <3>3. offered[u] # {}
      <4>1. offered[u] = {} => records[u] = NoRecord
        BY Zenon DEF RecordIsNewestWrite
      <4> QED BY <2>1, <4>1 DEF Outdated, Found, NoRecord
    <3>4. /\ [status |-> records[u].status, source |-> records[u].source] \in offered[u]
          /\ \A p \in offered[u] : ~ Newer(p, records[u])
      BY <3>3 DEF RecordIsNewestWrite
    <3> HIDE DEF o
    <3> QED BY <1>2, <3>1, <3>2, <3>4
  <2>2. CASE ~ Outdated(u, status, source)
    <3>1. records'[u] = [status |-> status, updatedAt |-> time, source |-> source]
      BY <2>2 DEF set, StoreTypeOK, StatusTypeOK
    <3>2. ~ Newer(o, records'[u])
      BY <3>1, <1>4 DEF Newer
    <3>3. ASSUME NEW p \in offered[u] PROVE ~ Newer(p, records'[u])
      <4>1. /\ ~ Newer(p, records[u])
            /\ [status |-> records[u].status, source |-> records[u].source] \in offered[u]
        BY <3>3 DEF RecordIsNewestWrite
      <4>2. Found(u)
        BY <4>1, <1>3 DEF Found, Outcome
      <4> QED BY <2>2, <3>1, <4>1, <4>2, <1>3, <1>4 DEF Outdated, Newer
    <3> QED BY <1>2, <3>1, <3>2, <3>3
  <2> QED BY <2>1, <2>2
<1> QED BY <1>1, <1>2, <1>5 DEF RecordIsNewestWrite

\* Order independence of the store: after any writes in any order the record
\* of a UPN is the newest of them.  Proved for every StatusStore behaviour.
THEOREM NewestWriteWins == StoreSpec => []RecordIsNewestWrite
<1> USE ClockAssumption, SyncStatusAssumption
<1>1. StoreInit => RecordIsNewestWrite
  BY DEF StoreInit, StatusInit, RecordIsNewestWrite
<1>2. StoreTypeOK /\ RecordIsNewestWrite /\ [StoreNext]_storeVars => RecordIsNewestWrite'
  <2> SUFFICES ASSUME StoreTypeOK, RecordIsNewestWrite, [StoreNext]_storeVars
               PROVE  RecordIsNewestWrite'
    OBVIOUS
  <2>1. ASSUME NEW u \in UPN, NEW time \in 0 .. clock, NEW source \in 0 .. time,
               Mark(u, source, time)
        PROVE  RecordIsNewestWrite'
    <3>1. time \in Nat /\ source \in Nat
      BY DEF StoreTypeOK, StatusTypeOK
    <3>2. PICK status \in Outcome, ttl \in {PendingTTL, TerminalTTL} :
            set(u, status, source, ttl, time) /\ Offer(u, status, source)
      BY <2>1, <3>1, MarkIsSet
    <3>3. ttl \in Nat
      OBVIOUS
    <3> QED BY <3>1, <3>2, <3>3, SetKeepsNewest
  <2>2. CASE StoreTick
    BY <2>2 DEF StoreTick, ExpireKeys, RecordIsNewestWrite, StoreTypeOK, StatusTypeOK, NoRecord, Found
  <2>3. CASE UNCHANGED storeVars
    BY <2>3 DEF storeVars, RecordIsNewestWrite
  <2> QED BY <2>1, <2>2, <2>3 DEF StoreNext
<1> QED BY <1>1, <1>2, StoreTypeCorrect, PTL DEF StoreSpec

\* What one call of set does to the records: nothing, or it installs a newer
\* record, or the first one, for its own UPN.
LEMMA SetMovesForward ==
  ASSUME StoreTypeOK, NEW u \in UPN, NEW source \in Nat, NEW time \in Nat,
         NEW ttl \in Nat, NEW status \in Outcome,
         set(u, status, source, ttl, time)
  PROVE  \A v \in UPN :
           \/ records'[v] = records[v] /\ expiry'[v] = expiry[v]
           \/ /\ v = u
              /\ ~ Found(v) \/ Newer(records'[v], records[v])
              /\ records'[v] = [status |-> status, updatedAt |-> time, source |-> source]
              /\ expiry'[v] = clock + ttl
<1> SUFFICES ASSUME NEW v \in UPN
             PROVE  \/ records'[v] = records[v] /\ expiry'[v] = expiry[v]
                    \/ /\ v = u
                       /\ ~ Found(v) \/ Newer(records'[v], records[v])
                       /\ records'[v] = [status |-> status, updatedAt |-> time, source |-> source]
                       /\ expiry'[v] = clock + ttl
  OBVIOUS
<1>1. CASE Outdated(u, status, source) \/ v # u
  BY <1>1 DEF set, statusVars, StoreTypeOK, StatusTypeOK
<1>2. CASE ~ Outdated(u, status, source) /\ v = u
  <2>1. /\ records'[v] = [status |-> status, updatedAt |-> time, source |-> source]
        /\ expiry'[v] = clock + ttl
    BY <1>2 DEF set, StoreTypeOK, StatusTypeOK
  <2>2. /\ records[v].source \in Nat
        /\ statusPrecedence(records[v].status) \in Nat
        /\ statusPrecedence(status) \in Nat
    BY PrecedenceType DEF Record, StoreTypeOK, StatusTypeOK
  <2> QED BY <1>2, <2>1, <2>2 DEF Outdated, Newer
<1> QED BY <1>1, <1>2

\* A record without an outcome is the zero record.
UnsyncedIsEmpty == \A u \in UPN : Found(u) \/ records[u] = NoRecord

\* UnsyncedIsEmpty holds in every state of StatusStore: set always stores an
\* outcome, and expiry stores the zero record.
LEMMA UnsyncedIsEmptyHolds == StoreSpec => []UnsyncedIsEmpty
<1> USE ClockAssumption, SyncStatusAssumption
<1>1. RecordIsNewestWrite /\ StoreTypeOK => UnsyncedIsEmpty
  <2> SUFFICES ASSUME RecordIsNewestWrite, StoreTypeOK, NEW u \in UPN
               PROVE  Found(u) \/ records[u] = NoRecord
    BY DEF UnsyncedIsEmpty
  <2>1. CASE offered[u] = {}
    BY <2>1, Zenon DEF RecordIsNewestWrite
  <2>2. CASE offered[u] # {}
    <3>1. [status |-> records[u].status, source |-> records[u].source] \in offered[u]
      BY <2>2 DEF RecordIsNewestWrite
    <3>2. records[u].status \in Outcome
      BY <3>1 DEF StoreTypeOK
    <3> QED BY <3>2 DEF Found, Outcome
  <2> QED BY <2>1, <2>2
<1> QED BY <1>1, StoreTypeCorrect, NewestWriteWins, PTL

\* No write, in whatever order it arrives, takes a record back: only a newer
\* record or the expiry of its key replaces it.
THEOREM NoRegression == StoreSpec => NeverRegresses
<1> USE ClockAssumption, SyncStatusAssumption
<1> DEFINE Step == \A u \in UPN : records'[u] # records[u] =>
                     \/ Newer(records'[u], records[u])
                     \/ records[u] = NoRecord
                     \/ records'[u] = NoRecord /\ Expires /\ expiry[u] <= clock'
<1>1. StoreTypeOK /\ UnsyncedIsEmpty /\ [StoreNext]_storeVars => [Step]_storeVars
  <2> SUFFICES ASSUME StoreTypeOK, UnsyncedIsEmpty, StoreNext PROVE Step
    BY DEF storeVars
  <2>1. ASSUME NEW u \in UPN, NEW time \in 0 .. clock, NEW source \in 0 .. time,
               Mark(u, source, time)
        PROVE  Step
    <3>1. time \in Nat /\ source \in Nat
      BY DEF StoreTypeOK, StatusTypeOK
    <3>2. PICK status \in Outcome, ttl \in {PendingTTL, TerminalTTL} :
            set(u, status, source, ttl, time)
      BY <2>1, <3>1, MarkIsSet
    <3>3. ttl \in Nat
      OBVIOUS
    <3>4. \A v \in UPN : \/ records'[v] = records[v]
                         \/ ~ Found(v) \/ Newer(records'[v], records[v])
      BY <3>1, <3>2, <3>3, SetMovesForward, Zenon
    <3> QED BY <3>4 DEF UnsyncedIsEmpty
  <2>2. CASE StoreTick
    BY <2>2 DEF StoreTick, ExpireKeys, StoreTypeOK, StatusTypeOK
  <2> QED BY <2>1, <2>2 DEF StoreNext
<1> QED BY <1>1, StoreTypeCorrect, UnsyncedIsEmptyHolds, PTL DEF StoreSpec, NeverRegresses

\* A live record expires no earlier than PendingTTL after the event it reports
\* was enqueued: whichever outcome overwrites a pending record keeps the key
\* for the rest of the pending window (it rests on TTLOrder).
THEOREM RecordsOutlivePendingWindow == StoreSpec => []OutlivesPendingWindow
<1> USE ClockAssumption, SyncStatusAssumption
<1>1. StoreInit => OutlivesPendingWindow
  BY DEF StoreInit, StatusInit, OutlivesPendingWindow, Found, NoRecord
<1>2. StoreTypeOK /\ OutlivesPendingWindow /\ [StoreNext]_storeVars => OutlivesPendingWindow'
  <2> SUFFICES ASSUME StoreTypeOK, OutlivesPendingWindow, [StoreNext]_storeVars
               PROVE  OutlivesPendingWindow'
    OBVIOUS
  <2>1. ASSUME NEW u \in UPN, NEW time \in 0 .. clock, NEW source \in 0 .. time,
               Mark(u, source, time)
        PROVE  OutlivesPendingWindow'
    <3>1. time \in Nat /\ source \in Nat /\ clock \in Nat /\ source <= clock
      BY DEF StoreTypeOK, StatusTypeOK
    <3>2. PICK status \in Outcome, ttl \in {PendingTTL, TerminalTTL} :
            set(u, status, source, ttl, time)
      BY <2>1, <3>1, MarkIsSet
    <3>3. ttl \in Nat /\ ttl >= PendingTTL
      BY TTLOrder
    <3>a. \A v \in UPN :
            \/ records'[v] = records[v] /\ expiry'[v] = expiry[v]
            \/ /\ records'[v] = [status |-> status, updatedAt |-> time, source |-> source]
               /\ expiry'[v] = clock + ttl
      BY <3>1, <3>2, <3>3, SetMovesForward
    <3>4. \A v \in UPN :
            \/ records'[v] = records[v] /\ expiry'[v] = expiry[v]
            \/ records'[v].source = source /\ expiry'[v] = clock + ttl
      BY <3>a
    <3> QED BY <3>1, <3>3, <3>4 DEF OutlivesPendingWindow, Found
  <2>2. CASE StoreTick
    BY <2>2 DEF StoreTick, ExpireKeys, OutlivesPendingWindow, Found, NoRecord,
                StoreTypeOK, StatusTypeOK
  <2>3. CASE UNCHANGED storeVars
    BY <2>3 DEF storeVars, OutlivesPendingWindow, Found
  <2> QED BY <2>1, <2>2, <2>3 DEF StoreNext
<1> QED BY <1>1, <1>2, StoreTypeCorrect, PTL DEF StoreSpec

\* Redelivered messages and repeated requests cost a record nothing: a write
\* that does not change what the record says leaves its timestamps and its
\* time-to-live alone.
THEOREM RepeatsAreIdempotent == StoreSpec => RepeatsDoNotRefresh
<1> USE ClockAssumption, SyncStatusAssumption
<1> DEFINE Step == \A u \in UPN :
                     expiry'[u] # expiry[u] \/ records'[u].updatedAt # records[u].updatedAt =>
                       \/ records'[u].source # records[u].source
                       \/ records'[u].status # records[u].status
<1>1. StoreTypeOK /\ [StoreNext]_storeVars => [Step]_storeVars
  <2> SUFFICES ASSUME StoreTypeOK, StoreNext PROVE Step
    BY DEF storeVars
  <2>1. ASSUME NEW u \in UPN, NEW time \in 0 .. clock, NEW source \in 0 .. time,
               Mark(u, source, time)
        PROVE  Step
    <3>1. time \in Nat /\ source \in Nat
      BY DEF StoreTypeOK, StatusTypeOK
    <3>2. PICK status \in Outcome, ttl \in {PendingTTL, TerminalTTL} :
            set(u, status, source, ttl, time)
      BY <2>1, <3>1, MarkIsSet
    <3>3. ttl \in Nat
      OBVIOUS
    <3> SUFFICES ASSUME NEW v \in UPN, records'[v] # records[v] \/ expiry'[v] # expiry[v]
                 PROVE  \/ records'[v].source # records[v].source
                        \/ records'[v].status # records[v].status
      OBVIOUS
    <3>4. /\ ~ Found(v) \/ Newer(records'[v], records[v])
          /\ records'[v] = [status |-> status, updatedAt |-> time, source |-> source]
      BY <3>1, <3>2, <3>3, SetMovesForward
    <3>5. records'[v].status = status /\ records'[v].source = source
      BY <3>4
    <3>6. CASE ~ Found(v)
      BY <3>5, <3>6 DEF Found, Outcome
    <3>7. CASE Newer(records'[v], records[v])
      <4>1. /\ records[v].source \in Nat
            /\ statusPrecedence(records[v].status) \in Nat
            /\ statusPrecedence(status) \in Nat
        BY PrecedenceType DEF Record, StoreTypeOK, StatusTypeOK
      <4>2. \/ source > records[v].source
            \/ statusPrecedence(status) > statusPrecedence(records[v].status)
        BY <3>5, <3>7 DEF Newer
      <4> QED BY <3>1, <3>5, <4>1, <4>2
    <3> QED BY <3>4, <3>6, <3>7
  <2>2. CASE StoreTick
    BY <2>2 DEF StoreTick, ExpireKeys, Found, NoRecord, StoreTypeOK, StatusTypeOK
  <2> QED BY <2>1, <2>2 DEF StoreNext
<1> QED BY <1>1, StoreTypeCorrect, PTL DEF StoreSpec, RepeatsDoNotRefresh

-----------------------------------------------------------------------------
\* The timestamp of r is one whose distance from the clock is a Duration.
InRange(r) == input[r].timestamp <= MaxDuration

\* A signed request on its way to Use was not compared too early.
Timely ==
  \A r \in Request : at[r] \in {"signed", "locking"} =>
    /\ InRange(r) => input[r].timestamp - now[r] <= Skew
    /\ input[r].signed

\* The nonce of a request that got through is stored, with a time that is not
\* before its skew, or its skew is over.
Remembered ==
  \A r \in Request : Passed(r) /\ InRange(r) =>
    \/ /\ seenAt[input[r].nonce] # Never
       /\ seenAt[input[r].nonce] >= input[r].timestamp - Skew
    \/ clock > input[r].timestamp + Skew

\* A stored nonce is one of a signed request that got through.
StoredPassed ==
  \A n \in Nonce : seenAt[n] # Never =>
    \E s \in Request : Passed(s) /\ input[s].signed /\ input[s].nonce = n

HInv == HMACTypeOK /\ Timely /\ Remembered /\ StoredPassed
        /\ OnceWhileFresh /\ ReplayHasOriginal

\* The inputs a delivery carries are typed.
LEMMA InputType ==
  ASSUME HMACTypeOK, NEW r \in Request
  PROVE  input[r].nonce \in Nonce /\ input[r].timestamp \in Int
  BY HMACAssumption DEF HMACTypeOK

\* A timestamp in range that Wrap accepts is not ahead by more than the skew:
\* neither end of the range of Duration is within the skew.
LEMMA AcceptedInRange ==
  ASSUME HMACTypeOK, NEW r \in Request, InRange(r), WithinSkew(r)
  PROVE  input[r].timestamp - clock <= Skew
<1> DEFINE d == clock - input[r].timestamp
<1>1. d \in Int /\ MaxDuration \in Nat /\ Skew \in Nat /\ Skew < MaxDuration
  BY InputType, HMACAssumption DEF HMACTypeOK
<1>2. d >= - MaxDuration
  BY InputType, HMACAssumption DEF InRange, HMACTypeOK
<1>3. WithinSkew(r) <=> absDuration(IF d < MinDuration THEN MinDuration
                                    ELSE IF d > MaxDuration THEN MaxDuration ELSE d) <= Skew
  BY DEF WithinSkew, Since
<1> QED BY <1>1, <1>2, <1>3, InputType DEF absDuration, MinDuration, HMACTypeOK

\* A delivery that only moves on without passing keeps everyone's standing.
LEMMA NobodyPasses ==
  ASSUME HInv, NEW r \in Request, NEW label, at' = [at EXCEPT ![r] = label],
         ~ Passed(r), label # "serving", label \notin Answered,
         UNCHANGED <<clock, input, usedAt>>, seenAt' = seenAt
  PROVE  /\ \A s \in Request : Passed(s)' <=> Passed(s)
         /\ Remembered' /\ StoredPassed' /\ OnceWhileFresh'
<1>1. \A s \in Request : Passed(s)' <=> Passed(s)
  BY DEF HInv, HMACTypeOK, Passed
<1>2. Remembered' /\ StoredPassed' /\ OnceWhileFresh'
  BY <1>1 DEF HInv, Remembered, StoredPassed, OnceWhileFresh, Repeated, InRange
<1> QED BY <1>1, <1>2

\* A sweep with a time that is not ahead of the clock forgets a nonce only when
\* the skew of the request that stored it is over.
LEMMA SweepRemembers ==
  ASSUME HInv, NEW t \in Nat, t <= clock, NEW r \in Request, Passed(r), InRange(r)
  PROVE  \/ /\ Swept(t)[input[r].nonce] # Never
            /\ Swept(t)[input[r].nonce] >= input[r].timestamp - Skew
         \/ clock > input[r].timestamp + Skew
<1>1. input[r].nonce \in Nonce /\ input[r].timestamp \in Int
  BY InputType DEF HInv
<1>2. seenAt[input[r].nonce] \in Nat \cup {Never} /\ clock \in Nat
  BY <1>1 DEF HInv, HMACTypeOK
<1> QED BY <1>1, <1>2, HMACAssumption, NonceCoversSkew DEF HInv, Remembered, Swept, Never

\* Every step keeps the invariant.
LEMMA HMACStep ==
  ASSUME HInv, [HMACNext]_hmacVars
  PROVE  HInv'
<1> USE HMACAssumption, ClockAssumption
<1>t. HMACTypeOK
  BY DEF HInv
<1>0. CASE UNCHANGED hmacVars
  BY <1>0 DEF hmacVars, HInv, HMACTypeOK, Timely, Remembered, StoredPassed, OnceWhileFresh,
     Repeated, InRange, ReplayHasOriginal, Passed
<1>1. CASE Tick
  <2>1. /\ clock' = clock + 1 /\ clock \in Nat
        /\ UNCHANGED <<input, at, now, usedAt, seenAt>>
    BY <1>1, <1>t DEF Tick, Advance, HMACTypeOK
  <2>2. HMACTypeOK'
    BY <1>t, <2>1 DEF HMACTypeOK
  <2>3. Timely'
    BY <2>1 DEF HInv, Timely, InRange
  <2>4. Remembered'
    <3> SUFFICES ASSUME NEW r \in Request, Passed(r), InRange(r) PROVE
          \/ /\ seenAt[input[r].nonce] # Never
             /\ seenAt[input[r].nonce] >= input[r].timestamp - Skew
          \/ clock + 1 > input[r].timestamp + Skew
      BY <2>1 DEF Remembered, Passed, InRange
    <3>1. input[r].timestamp \in Int
      BY <1>t, InputType
    <3> QED BY <2>1, <3>1 DEF HInv, Remembered
  <2>5. StoredPassed' /\ OnceWhileFresh' /\ ReplayHasOriginal'
    BY <2>1 DEF HInv, StoredPassed, OnceWhileFresh, Repeated, ReplayHasOriginal, Passed
  <2> QED BY <2>2, <2>3, <2>4, <2>5 DEF HInv
<1>2. ASSUME NEW r \in Request, Wrap(r)
      PROVE  HInv'
  <2>1. /\ Verdict(r) \in Refusal \cup {"signed"} /\ Verdict(r) # "nonce_replay"
        /\ Verdict(r) = "signed" => WithinSkew(r) /\ input[r].signed
    BY DEF Verdict, validSignature, Refusal
  <2>2. /\ at[r] = "new" /\ at' = [at EXCEPT ![r] = Verdict(r)]
        /\ now' = [now EXCEPT ![r] = clock]
        /\ UNCHANGED <<clock, input, usedAt, seenAt>>
    BY <1>2 DEF Wrap, Goto
  <2>3. HMACTypeOK'
    BY <1>t, <2>1, <2>2 DEF HMACTypeOK
  <2>4. Timely'
    <3> SUFFICES ASSUME NEW s \in Request, at'[s] \in {"signed", "locking"}
                 PROVE  /\ InRange(s) => input[s].timestamp - now'[s] <= Skew
                        /\ input[s].signed
      BY <2>2 DEF Timely, InRange
    <3>1. CASE s = r
      BY <1>t, <2>1, <2>2, <3>1, AcceptedInRange DEF HMACTypeOK, Refusal
    <3>2. CASE s # r
      BY <1>t, <2>2, <3>2 DEF HInv, Timely, HMACTypeOK
    <3> QED BY <3>1, <3>2
  <2>5. /\ \A s \in Request : Passed(s)' <=> Passed(s)
        /\ Remembered' /\ StoredPassed' /\ OnceWhileFresh'
    BY <2>1, <2>2, NobodyPasses, Zenon DEF Passed, Refusal, Answered
  <2>6. ReplayHasOriginal'
    BY <1>t, <2>1, <2>2, <2>5 DEF HInv, ReplayHasOriginal, HMACTypeOK
  <2> QED BY <2>3, <2>4, <2>5, <2>6 DEF HInv
<1>3. ASSUME NEW r \in Request, EnterUse(r)
      PROVE  HInv'
  <2>2. /\ at[r] = "signed" /\ at' = [at EXCEPT ![r] = "locking"]
        /\ now' = [now EXCEPT ![r] = clock]
        /\ UNCHANGED <<clock, input, usedAt, seenAt>>
    BY <1>3 DEF EnterUse, Goto
  <2>3. HMACTypeOK'
    BY <1>t, <2>2 DEF HMACTypeOK
  <2>4. Timely'
    <3> SUFFICES ASSUME NEW s \in Request, at'[s] \in {"signed", "locking"}
                 PROVE  /\ InRange(s) => input[s].timestamp - now'[s] <= Skew
                        /\ input[s].signed
      BY <2>2 DEF Timely, InRange
    <3>1. /\ input[s].timestamp \in Int /\ now[s] \in Nat /\ clock \in Nat /\ now[s] <= clock
          /\ now'[s] \in {now[s], clock}
      BY <1>t, <2>2, InputType DEF HMACTypeOK
    <3>2. at[s] \in {"signed", "locking"}
      BY <1>t, <2>2 DEF HMACTypeOK
    <3> QED BY <3>1, <3>2 DEF HInv, Timely
  <2>5. /\ \A s \in Request : Passed(s)' <=> Passed(s)
        /\ Remembered' /\ StoredPassed' /\ OnceWhileFresh'
    BY <2>2, NobodyPasses, Zenon DEF Passed, Answered
  <2>6. ReplayHasOriginal'
    BY <1>t, <2>2, <2>5 DEF HInv, ReplayHasOriginal, HMACTypeOK
  <2> QED BY <2>3, <2>4, <2>5, <2>6 DEF HInv
<1>4. ASSUME NEW r \in Request, Use(r)
      PROVE  HInv'
  <2> DEFINE n == input[r].nonce
             kept == Swept(now[r])
  <2>1. /\ at[r] = "locking" /\ UNCHANGED <<clock, input, now>>
        /\ \/ /\ kept[n] # Never /\ at' = [at EXCEPT ![r] = "nonce_replay"]
              /\ seenAt' = kept /\ usedAt' = usedAt
           \/ /\ kept[n] = Never /\ at' = [at EXCEPT ![r] = "serving"]
              /\ seenAt' = [kept EXCEPT ![n] = now[r]]
              /\ usedAt' = [usedAt EXCEPT ![r] = clock]
    BY <1>4 DEF Use, Goto
  <2>2. /\ n \in Nonce /\ input[r].timestamp \in Int /\ now[r] \in Nat /\ clock \in Nat
        /\ now[r] <= clock
    BY <1>t, InputType DEF HMACTypeOK
  <2>3. (InRange(r) => input[r].timestamp - now[r] <= Skew) /\ input[r].signed
    BY <2>1 DEF HInv, Timely
  <2>4. /\ kept \in [Nonce -> (0 .. clock) \cup {Never}]
        /\ \A m \in Nonce : kept[m] # Never => seenAt[m] # Never
    BY <1>t DEF Swept, HMACTypeOK
  <2>5. \A s \in Request : Passed(s) /\ InRange(s) =>
          \/ kept[input[s].nonce] # Never /\ kept[input[s].nonce] >= input[s].timestamp - Skew
          \/ clock > input[s].timestamp + Skew
    BY <2>2, SweepRemembers
  <2>6. ~ Passed(r)
    BY <2>1 DEF Passed, Answered
  <2> HIDE DEF kept
  <2>7. HMACTypeOK'
    BY <1>t, <2>1, <2>2, <2>4 DEF HMACTypeOK, Refusal
  <2>8. Timely'
    BY <1>t, <2>1 DEF HInv, Timely, InRange, HMACTypeOK
  <2>9. CASE kept[n] # Never
    <3>1. at' = [at EXCEPT ![r] = "nonce_replay"] /\ seenAt' = kept /\ usedAt' = usedAt
      BY <2>1, <2>9
    <3>2. \A s \in Request : Passed(s)' <=> Passed(s)
      BY <1>t, <2>6, <3>1 DEF HMACTypeOK, Passed, Answered
    <3>3. Remembered'
      BY <2>1, <2>5, <3>1, <3>2 DEF Remembered, InRange
    <3>4. StoredPassed' /\ OnceWhileFresh'
      BY <2>1, <2>4, <3>1, <3>2 DEF HInv, StoredPassed, OnceWhileFresh, Repeated
    <3>5. ReplayHasOriginal'
      <4>1. PICK o \in Request : Passed(o) /\ input[o].signed /\ input[o].nonce = n
        BY <2>2, <2>4, <2>9 DEF HInv, StoredPassed
      <4> QED BY <1>t, <2>1, <2>6, <3>1, <3>2, <4>1 DEF HInv, ReplayHasOriginal, HMACTypeOK
    <3> QED BY <2>7, <2>8, <3>3, <3>4, <3>5 DEF HInv
  <2>10. CASE kept[n] = Never
    <3>1. /\ at' = [at EXCEPT ![r] = "serving"] /\ seenAt' = [kept EXCEPT ![n] = now[r]]
          /\ usedAt' = [usedAt EXCEPT ![r] = clock]
      BY <2>1, <2>10
    <3>2. \A s \in Request : Passed(s)' <=> Passed(s) \/ s = r
      BY <1>t, <3>1 DEF HMACTypeOK, Passed
    <3>3. \A s \in Request : Passed(s) /\ InRange(s) /\ input[s].nonce = n =>
            clock > input[s].timestamp + Skew
      BY <2>5, <2>10
    <3>4. Remembered'
      <4> SUFFICES ASSUME NEW s \in Request, Passed(s)', InRange(s)
                   PROVE  \/ /\ seenAt'[input[s].nonce] # Never
                             /\ seenAt'[input[s].nonce] >= input[s].timestamp - Skew
                          \/ clock > input[s].timestamp + Skew
        BY <2>1 DEF Remembered, InRange
      <4>1. CASE s = r
        BY <2>2, <2>3, <2>4, <3>1, <4>1 DEF Never
      <4>2. CASE s # r
        BY <2>4, <2>5, <3>1, <3>2, <3>3, <4>2
      <4> QED BY <4>1, <4>2
    <3>5. StoredPassed'
      <4> SUFFICES ASSUME NEW m \in Nonce, seenAt'[m] # Never
                   PROVE  \E s \in Request : Passed(s)' /\ input'[s].signed /\ input'[s].nonce = m
        BY DEF StoredPassed
      <4>1. CASE m = n
        BY <2>1, <2>3, <3>2, <4>1
      <4>2. CASE m # n
        BY <2>1, <2>4, <3>1, <3>2, <4>2 DEF HInv, StoredPassed
      <4> QED BY <4>1, <4>2
    <3>6. OnceWhileFresh'
      <4> SUFFICES ASSUME NEW p \in Request, NEW q \in Request, Repeated(p, q),
                          Passed(p)', Passed(q)', InRange(p)
                   PROVE  usedAt'[p] > input[p].timestamp + Skew \/ usedAt'[q] > input[p].timestamp + Skew
        BY <2>1 DEF OnceWhileFresh, Repeated, InRange
      <4>1. p # q /\ input[p].nonce = input[q].nonce /\ input[p].timestamp = input[q].timestamp /\ InRange(q)
        BY DEF Repeated, InRange
      <4>2. CASE p # r /\ q # r
        BY <1>t, <3>1, <3>2, <4>2 DEF HInv, OnceWhileFresh, InRange, HMACTypeOK
      <4>3. CASE p = r
        BY <1>t, <3>1, <3>2, <3>3, <4>1, <4>3 DEF HMACTypeOK
      <4>4. CASE q = r
        BY <1>t, <3>1, <3>2, <3>3, <4>1, <4>4 DEF HMACTypeOK
      <4> QED BY <4>2, <4>3, <4>4
    <3>7. ReplayHasOriginal'
      BY <1>t, <2>1, <3>1, <3>2 DEF HInv, ReplayHasOriginal, HMACTypeOK
    <3> QED BY <2>7, <2>8, <3>4, <3>5, <3>6, <3>7 DEF HInv
  <2> QED BY <2>9, <2>10
<1>5. ASSUME NEW r \in Request, ServeHTTP(r)
      PROVE  HInv'
  <2>1. PICK label \in Answered : at' = [at EXCEPT ![r] = label]
    BY <1>5 DEF ServeHTTP, Recovery, Goto, Answered
  <2>2. at[r] = "serving" /\ UNCHANGED <<clock, input, now, usedAt, seenAt>>
    BY <1>5 DEF ServeHTTP
  <2>3. HMACTypeOK'
    BY <1>t, <2>1, <2>2 DEF HMACTypeOK, Answered
  <2>4. \A s \in Request : Passed(s)' <=> Passed(s)
    BY <1>t, <2>1, <2>2 DEF HMACTypeOK, Passed
  <2>5. Timely'
    BY <1>t, <2>1, <2>2 DEF HInv, Timely, InRange, HMACTypeOK, Answered
  <2>6. Remembered' /\ StoredPassed' /\ OnceWhileFresh'
    BY <2>2, <2>4 DEF HInv, Remembered, InRange, StoredPassed, OnceWhileFresh, Repeated
  <2>7. ReplayHasOriginal'
    BY <1>t, <2>1, <2>2, <2>4 DEF HInv, ReplayHasOriginal, HMACTypeOK, Answered
  <2> QED BY <2>3, <2>5, <2>6, <2>7 DEF HInv
<1> QED BY <1>0, <1>1, <1>2, <1>3, <1>4, <1>5 DEF HMACNext

\* The invariant of the middleware, for every value of the constants.
THEOREM HMACInvariant == HMACSpec => []HInv
<1>1. HMACInit => HInv
  BY DEF HMACInit, HInv, HMACTypeOK, Timely, Remembered, StoredPassed, OnceWhileFresh,
     ReplayHasOriginal, Passed, Refusal, Answered, Never
<1>2. HInv /\ [HMACNext]_hmacVars => HInv'
  BY HMACStep
<1> QED BY <1>1, <1>2, PTL DEF HMACSpec

\* Deliveries and the nonce store keep their types, and no time that Wrap or
\* Use reads or stores is ahead of the clock.
THEOREM HMACTypeCorrect == HMACSpec => []HMACTypeOK
<1>1. HInv => HMACTypeOK
  BY DEF HInv
<1> QED BY <1>1, HMACInvariant, PTL

\* What Wrap, Use and the sweep guarantee with a nonce lifetime of twice the
\* skew and without a bound on any wait: of the deliveries of a signed request
\* at most one reaches the handler while the timestamp is within the skew.
THEOREM FreshRequestsPassOnce == HMACSpec => []OnceWhileFresh
<1>1. HInv => OnceWhileFresh
  BY DEF HInv
<1> QED BY <1>1, HMACInvariant, PTL

\* A nonce is used up only by a signed request that reaches the handler.
THEOREM ReplaysHaveOriginals == HMACSpec => []ReplayHasOriginal
<1>1. HInv => ReplayHasOriginal
  BY DEF HInv
<1> QED BY <1>1, HMACInvariant, PTL

=============================================================================
