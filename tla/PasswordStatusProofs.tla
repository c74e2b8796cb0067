------------------------- MODULE PasswordStatusProofs -------------------------
(***************************************************************************)
(* The sync status seen from outside: what a record means, what it hides   *)
(* and when a login_bootstrap event is skipped because of it.              *)
(***************************************************************************)
EXTENDS PasswordSyncProofs

\* One status write: an outdated one changes nothing, another installs its
\* record, which is not older than the one it replaces and, at the same
\* EnqueuedAt, further on.
Written(u, status, source, ttl, v) ==
  \/ /\ records'[v] = records[v] /\ expiry'[v] = expiry[v]
     /\ v = u => /\ Found(v) /\ source <= records[v].source
                 /\ source = records[v].source =>
                      statusPrecedence(status) <= statusPrecedence(records[v].status)
  \/ /\ v = u
     /\ records'[v].status = status /\ records'[v].source = source
     /\ expiry'[v] = clock + ttl
     /\ Found(v) => /\ records[v].source <= source
                    /\ records[v].source = source =>
                         ~ (statusPrecedence(status) <= statusPrecedence(records[v].status))

\* set does exactly that to every account.
LEMMA SetWrites ==
  ASSUME StatusTypeOK, NEW u \in UPN, NEW status \in Outcome, NEW source \in Nat,
         NEW ttl \in Nat, set(u, status, source, ttl, clock), NEW v \in UPN
  PROVE  \/ v # u /\ records'[v] = records[v] /\ expiry'[v] = expiry[v]
         \/ Written(u, status, source, ttl, v)
<1>0. records[v] \in Record /\ records[v].source \in Nat
  BY DEF StatusTypeOK, Record
<1>1. CASE v # u
  BY <1>1 DEF set, statusVars, StatusTypeOK
<1>2. CASE v = u /\ Outdated(u, status, source)
  BY <1>0, <1>2 DEF set, statusVars, Outdated, Written
<1>3. CASE v = u /\ ~ Outdated(u, status, source)
  <2>1. /\ records'[v] = [status |-> status, updatedAt |-> clock, source |-> source]
        /\ expiry'[v] = clock + ttl
    BY <1>3 DEF set, StatusTypeOK
  <2>2. records'[v].status = status /\ records'[v].source = source
    BY <2>1
  <2>3. Found(v) => /\ records[v].source <= source
                    /\ records[v].source = source =>
                         ~ (statusPrecedence(status) <= statusPrecedence(records[v].status))
    BY <1>0, <1>3 DEF Outdated
  <2> QED BY <1>3, <2>1, <2>2, <2>3 DEF Written
<1> QED BY <1>1, <1>2, <1>3

\* The steps that change a record: expiry, MarkPending of a request that has
\* sent its message, and the outcome of a worker's message.
Backed(status, e) ==
  CASE status = "synced"       -> e \in written
    [] status = "sync_failed"  -> Recorded(e) /\ e \notin Malformed
    [] status = "sync_pending" -> Sent(e)

\* Every write to the store is backed by the event it names.
LEMMA RecordMoves ==
  ASSUME IInv, [Next]_vars, NEW v \in UPN
  PROVE  \/ UNCHANGED <<records, expiry>>
         \/ Tick
         \/ \E e \in Event, status \in Outcome, ttl \in {PendingTTL, TerminalTTL} :
              /\ Backed(status, e) /\ Sent(e) /\ clock' = clock
              /\ \/ v # upnOf[e] /\ records'[v] = records[v] /\ expiry'[v] = expiry[v]
                 \/ Written(upnOf[e], status, enqueuedAt[e], ttl, v)
<1>t. TypeOK /\ SentFirst /\ PendingTTL \in Nat /\ TerminalTTL \in Nat
  BY SyncStatusAssumption DEF IInv
<1>u. \A e \in Event : upnOf[e] \in UPN /\ enqueuedAt[e] \in Nat
  BY <1>t, WorkerAssumption, Zenon DEF TypeOK, BusTypeOK
<1>1. ASSUME NEW e \in Event, Acknowledge(e), ~ UNCHANGED statusVars
      PROVE  \E f \in Event, status \in Outcome, ttl \in {PendingTTL, TerminalTTL} :
               /\ Backed(status, f) /\ Sent(f) /\ clock' = clock
               /\ \/ v # upnOf[f] /\ records'[v] = records[v] /\ expiry'[v] = expiry[v]
                  \/ Written(upnOf[f], status, enqueuedAt[f], ttl, v)
  <2>1. set(upnOf[e], "sync_pending", enqueuedAt[e], PendingTTL, clock) /\ clock' = clock
    BY <1>1, Zenon DEF Acknowledge, MarkPending
  <2>2. Sent(e)
    BY <1>t, <1>1, Zenon DEF Acknowledge, SentFirst
  <2>3. "sync_pending" \in Outcome /\ Backed("sync_pending", e)
    BY <2>2, Zenon DEF Outcome, Backed
  <2>4. \/ v # upnOf[e] /\ records'[v] = records[v] /\ expiry'[v] = expiry[v]
        \/ Written(upnOf[e], "sync_pending", enqueuedAt[e], PendingTTL, v)
    BY <1>t, <1>u, <2>1, <2>3, SetWrites, Zenon DEF TypeOK
  <2> QED BY <2>1, <2>2, <2>3, <2>4, Zenon
<1>2. ASSUME NEW w \in Worker, MarkOutcome(w), ~ UNCHANGED statusVars
      PROVE  \E f \in Event, status \in Outcome, ttl \in {PendingTTL, TerminalTTL} :
               /\ Backed(status, f) /\ Sent(f) /\ clock' = clock
               /\ \/ v # upnOf[f] /\ records'[v] = records[v] /\ expiry'[v] = expiry[v]
                  \/ Written(upnOf[f], status, enqueuedAt[f], ttl, v)
  <2>0. cur[w] \in Event /\ Sent(cur[w]) /\ clock' = clock /\ StatusTypeOK
    BY <1>t, <1>2, WorkerAssumption, Zenon DEF MarkOutcome, IInv, InHand, TypeOK, WorkerTypeOK
  <2>1. \/ /\ result[w] = "synced"
           /\ set(upnOf[cur[w]], "synced", enqueuedAt[cur[w]], TerminalTTL, clock)
        \/ /\ result[w] # "synced"
           /\ set(upnOf[cur[w]], "sync_failed", enqueuedAt[cur[w]], TerminalTTL, clock)
    BY <1>2, Zenon DEF MarkOutcome, MarkSynced, MarkFailed
  <2>2. IF result[w] = "synced" THEN cur[w] \in written ELSE Recorded(cur[w]) /\ cur[w] \notin Malformed
    BY <1>2, Zenon DEF MarkOutcome, IInv, InHand
  <2>3. PICK status \in {"synced", "sync_failed"} :
          Backed(status, cur[w]) /\ set(upnOf[cur[w]], status, enqueuedAt[cur[w]], TerminalTTL, clock)
    BY <2>1, <2>2, Zenon DEF Backed
  <2>4. status \in Outcome
    BY Zenon DEF Outcome
  <2>5. \/ v # upnOf[cur[w]] /\ records'[v] = records[v] /\ expiry'[v] = expiry[v]
        \/ Written(upnOf[cur[w]], status, enqueuedAt[cur[w]], TerminalTTL, v)
    BY <1>t, <1>u, <2>0, <2>3, <2>4, SetWrites, Zenon
  <2> QED BY <2>0, <2>3, <2>4, <2>5, Zenon
<1>3. \/ UNCHANGED statusVars \/ Tick
      \/ \E e \in Event : Acknowledge(e)
      \/ \E w \in Worker : MarkOutcome(w)
  <2>1. ASSUME NEW w \in Worker, WorkerStep(w), ~ MarkOutcome(w)
        PROVE  UNCHANGED statusVars
    BY <2>1, Zenon DEF WorkerStep, ReturnOnCancel, ReceiveNothing, ReceiveFails, Receive, processMessage,
       Decrypt, LookupUser, WriteUser, Backoff, RecordFailure, Complete, Abandon
  <2>2. ASSUME NEW w \in Worker, Cancel(w) \/ Crash(w) \/ Restart(w)
        PROVE  UNCHANGED statusVars
    BY <2>2, Zenon DEF Cancel, Crash, Restart
  <2>3. ASSUME NEW e \in Event, Submit(e) \/ Stamp(e) \/ Send(e) \/ Die(e) \/ Broker(e)
        PROVE  UNCHANGED statusVars
    BY <2>3, Zenon DEF Submit, Stamp, Send, Die, Broker
  <2> QED BY <2>1, <2>2, <2>3, StepCases, Zenon DEF vars
<1> QED BY <1>1, <1>2, <1>3, Zenon DEF statusVars

-----------------------------------------------------------------------------
\* Backing once given is not taken back.
LEMMA BackedKept ==
  ASSUME Kept, NEW e \in Event, NEW status \in Outcome, Backed(status, e)
  PROVE  Backed(status, e)'
<1>1. e \in written => e \in written'
  BY Zenon DEF Kept
<1>2. Recorded(e) => Recorded(e)'
  BY Zenon DEF Kept, Recorded
<1>3. Sent(e) => Sent(e)'
  BY Zenon DEF Kept
<1> QED BY <1>1, <1>2, <1>3, Zenon DEF Backed, Outcome

\* Evidence is evidence of a sent message.
LEMMA BackedIsSent ==
  ASSUME IInv, NEW e \in Event, NEW status \in Outcome, Backed(status, e)
  PROVE  Sent(e)
  BY Zenon DEF IInv, SentFirst, Backed, Outcome

\* StatusTruthful with its cases folded into Backed.
Truthful ==
  \A u \in UPN : Found(u) =>
    \E e \in Event, status \in Outcome :
      /\ upnOf[e] = u /\ records[u].source = enqueuedAt[e]
      /\ records[u].status = status /\ Backed(status, e)

\* Every step keeps the records truthful.
LEMMA TruthfulStep ==
  ASSUME IInv, Truthful, [Next]_vars
  PROVE  Truthful'
<1>k. Kept
  BY NothingTakenBack, Zenon
<1> SUFFICES ASSUME NEW v \in UPN, Found(v)'
             PROVE  \E e \in Event, status \in Outcome :
                      /\ upnOf[e] = v /\ records'[v].source = enqueuedAt'[e]
                      /\ records'[v].status = status /\ Backed(status, e)'
  BY Zenon DEF Truthful
<1>1. CASE records'[v] = records[v]
  <2>1. Found(v)
    BY <1>1, Zenon DEF Found
  <2>2. PICK e \in Event, status \in Outcome :
          /\ upnOf[e] = v /\ records[v].source = enqueuedAt[e]
          /\ records[v].status = status /\ Backed(status, e)
    BY <2>1, Zenon DEF Truthful
  <2>3. enqueuedAt'[e] = enqueuedAt[e] /\ Backed(status, e)'
    BY <1>k, <2>2, BackedIsSent, BackedKept, Zenon DEF Kept
  <2> QED BY <1>1, <2>2, <2>3, Zenon
<1>2. CASE records'[v] # records[v]
  <2>1. ~ Tick
    BY <1>2 DEF Tick, ExpireKeys, Found, NoRecord
  <2>2. PICK e \in Event, status \in Outcome :
          /\ Backed(status, e) /\ Sent(e) /\ v = upnOf[e]
          /\ records'[v].status = status /\ records'[v].source = enqueuedAt[e]
    BY <1>2, <2>1, RecordMoves, Zenon DEF Written
  <2>3. enqueuedAt'[e] = enqueuedAt[e] /\ Backed(status, e)'
    BY <1>k, <2>2, BackedKept, Zenon DEF Kept
  <2> QED BY <2>2, <2>3, Zenon
<1> QED BY <1>1, <1>2, Zenon

\* A synced record stands for a Graph write, a failed one for a safe
\* dead-letter entry and a pending one for a sent message, of the very event
\* whose EnqueuedAt it carries.
THEOREM StatusIsTruthful == Spec => []StatusTruthful
<1>1. Init => Truthful
  BY DEF Init, StatusInit, Truthful, Found, NoRecord
<1>2. IInv /\ Truthful /\ [Next]_vars => Truthful'
  BY TruthfulStep, Zenon
<1>3. Truthful => StatusTruthful
  BY Zenon DEF Truthful, StatusTruthful, Backed, Outcome
<1> QED BY <1>1, <1>2, <1>3, PipelineInvariant, PTL DEF Spec

\* Skipping a login on the strength of a record is backed in every step.
LEMMA SkipStep ==
  ASSUME IInv, Truthful, SkipIsBacked, [Next]_vars
  PROVE  SkipIsBacked'
<1>k. Kept /\ TypeOK /\ SentFirst
  BY NothingTakenBack, Zenon DEF IInv
<1> SUFFICES ASSUME NEW e \in Event, skipReason'[e] \in {"already_synced", "sync_pending"}
             PROVE  \E f \in Event \ {e} :
                      /\ upnOf[f] = upnOf[e] /\ Sent(f)'
                      /\ skipReason'[e] = "already_synced" => f \in written'
  BY Zenon DEF SkipIsBacked
<1>1. \E f \in Event \ {e} :
        /\ upnOf[f] = upnOf[e] /\ Sent(f)
        /\ skipReason'[e] = "already_synced" => f \in written
  <2>1. CASE skipReason'[e] = skipReason[e]
    BY <2>1, Zenon DEF SkipIsBacked
  <2>2. CASE skipReason'[e] # skipReason[e]
    <3>1. Submit(e)
      <4>1. PICK f \in Event : Submit(f)
        BY <2>2, StepCases, Zenon DEF Tick, Broker, Stamp, Send, Acknowledge, Die, reqVars, vars
      <4>2. f = e
        BY <1>k, <2>2, <4>1, Zenon DEF Submit, TypeOK, MigrationTypeOK
      <4> QED BY <4>1, <4>2, Zenon
    <3>2. /\ req[e] = "idle"
          /\ skipReason'[e] = SkipFor(records[upnOf[e]], clock)
      <4>1. \/ skipReason' = skipReason
            \/ skipReason' = [skipReason EXCEPT ![e] = "cn_is_external_email"]
            \/ skipReason' = [skipReason EXCEPT ![e] = "none"]
            \/ skipReason' = [skipReason EXCEPT ![e] = SkipFor(records[upnOf[e]], clock)]
        BY <3>1, Zenon DEF Submit
      <4>2. req[e] = "idle"
        BY <3>1, Zenon DEF Submit
      <4>3. skipReason \in [Event -> SkipReason]
        BY <1>k, Zenon DEF TypeOK, MigrationTypeOK
      <4> QED BY <2>2, <4>1, <4>2, <4>3, Zenon
    <3>3. \/ skipReason'[e] = "already_synced" /\ records[upnOf[e]].status = "synced"
          \/ skipReason'[e] = "sync_pending" /\ records[upnOf[e]].status = "sync_pending"
      BY <3>2, Zenon DEF SkipFor
    <3>4. PICK f \in Event, status \in Outcome :
            /\ upnOf[f] = upnOf[e] /\ records[upnOf[e]].status = status /\ Backed(status, f)
      BY <3>3, WorkerAssumption, Zenon DEF Truthful, Found
    <3>5. Sent(f) /\ ~ Sent(e)
      BY <1>k, <3>2, <3>4, BackedIsSent, Zenon DEF SentFirst
    <3> QED BY <3>3, <3>4, <3>5, Zenon DEF Backed
  <2> QED BY <2>1, <2>2, Zenon
<1> QED BY <1>1, <1>k, Zenon DEF Kept

\* A login_bootstrap event is skipped only when another event of the account
\* carried the password to the queue, and as already synced only when Graph
\* took that one.
THEOREM SkippedLoginsAreBacked == Spec => []SkipIsBacked
<1>1. Init => Truthful /\ SkipIsBacked
  BY DEF Init, StatusInit, MigrationInit, Truthful, SkipIsBacked, Found, NoRecord
<1>2. IInv /\ Truthful /\ SkipIsBacked /\ [Next]_vars => (Truthful /\ SkipIsBacked)'
  BY TruthfulStep, SkipStep, Zenon
<1> QED BY <1>1, <1>2, PipelineInvariant, PTL DEF Spec

-----------------------------------------------------------------------------
\* What AcceptedIsCovered rests on: no EnqueuedAt lies in the future, and a
\* record is kept for the pending window of the event it names.
Covered ==
  /\ \A e \in Event : enqueuedAt[e] <= clock
  /\ \A u \in UPN : Found(u) => expiry[u] >= records[u].source + PendingTTL
  /\ AcceptedIsCovered

\* Time and status writes keep accepted events covered.
LEMMA CoveredStep ==
  ASSUME IInv, Covered, [Next]_vars
  PROVE  Covered'
<1>k. Kept /\ TypeOK /\ TypeOK' /\ SentFirst
  BY NothingTakenBack, TypeStep, Zenon DEF IInv
<1>a. /\ PendingTTL \in Nat /\ TerminalTTL \in Nat /\ TerminalTTL >= PendingTTL
      /\ upnOf \in [Event -> UPN] /\ clock \in Nat
  BY <1>k, SyncStatusAssumption, TTLOrder, WorkerAssumption, Zenon DEF TypeOK, StatusTypeOK
<1>b. /\ \A u \in UPN : records[u].source \in Nat /\ expiry[u] \in Nat
      /\ \A e \in Event : enqueuedAt[e] \in Nat
  BY <1>k, Zenon DEF TypeOK, StatusTypeOK, BusTypeOK, Record
<1>c. clock' = clock \/ clock' = clock + 1
  BY ClockMoves, Zenon
<1>1. \A e \in Event : enqueuedAt'[e] <= clock'
  <2> SUFFICES ASSUME NEW e \in Event PROVE enqueuedAt'[e] <= clock'
    BY Zenon
  <2>1. enqueuedAt'[e] = enqueuedAt[e] \/ enqueuedAt'[e] = clock
    <3>1. ASSUME NEW f \in Event, Stamp(f) PROVE enqueuedAt'[e] = enqueuedAt[e] \/ enqueuedAt'[e] = clock
      BY <1>k, <3>1, Zenon DEF Stamp, TypeOK, BusTypeOK
    <3>2. UNCHANGED enqueuedAt \/ \E f \in Event : Stamp(f)
      BY StampedByStamp, Zenon
    <3> QED BY <3>1, <3>2, Zenon
  <2> QED BY <1>a, <1>b, <1>c, <2>1 DEF Covered
<1>2. ASSUME NEW v \in UPN, Found(v)'
      PROVE  expiry'[v] >= records'[v].source + PendingTTL
  <2>1. CASE UNCHANGED <<records, expiry>>
    BY <1>2, <2>1, Zenon DEF Covered, Found
  <2>2. CASE Tick
    BY <1>2, <2>2, Zenon DEF Tick, ExpireKeys, Covered, Found, NoRecord
  <2>3. ASSUME NEW e \in Event, NEW status \in Outcome, NEW ttl \in {PendingTTL, TerminalTTL},
               \/ v # upnOf[e] /\ records'[v] = records[v] /\ expiry'[v] = expiry[v]
               \/ Written(upnOf[e], status, enqueuedAt[e], ttl, v)
        PROVE  expiry'[v] >= records'[v].source + PendingTTL
    <3>1. CASE records'[v] = records[v] /\ expiry'[v] = expiry[v]
      BY <1>2, <3>1, Zenon DEF Covered, Found
    <3>2. CASE records'[v].source = enqueuedAt[e] /\ expiry'[v] = clock + ttl
      <4>1. ttl \in Nat /\ ttl >= PendingTTL
        BY <1>a
      <4>2. enqueuedAt[e] <= clock
        BY Zenon DEF Covered
      <4> QED BY <1>a, <1>b, <3>2, <4>1, <4>2
    <3> QED BY <2>3, <3>1, <3>2, Zenon DEF Written
  <2> QED BY <2>1, <2>2, <2>3, RecordMoves, Zenon
<1>3. AcceptedIsCovered'
  <2> SUFFICES ASSUME NEW e \in marked', clock' < enqueuedAt'[e] + PendingTTL
               PROVE  Found(upnOf[e])' /\ records'[upnOf[e]].source >= enqueuedAt'[e]
    BY Zenon DEF AcceptedIsCovered
  <2> DEFINE u == upnOf[e]
  <2>0. e \in Event /\ u \in UPN
    BY <1>k, <1>a, Zenon DEF TypeOK, MigrationTypeOK
  <2>e. enqueuedAt'[e] \in Nat
    BY <1>k, <2>0, Zenon DEF TypeOK, BusTypeOK
  <2>1. CASE e \in marked
    <3>1. Sent(e) /\ enqueuedAt'[e] = enqueuedAt[e]
      BY <1>k, <2>0, <2>1, Zenon DEF SentFirst, Kept
    <3>2. clock < enqueuedAt[e] + PendingTTL
      BY <1>a, <1>b, <1>c, <2>0, <3>1
    <3>3. Found(u) /\ records[u].source >= enqueuedAt[e]
      BY <2>1, <3>2, Zenon DEF Covered, AcceptedIsCovered
    <3>4. CASE UNCHANGED <<records, expiry>>
      BY <3>1, <3>3, <3>4, Zenon DEF Found
    <3>5. CASE Tick
      <4>1. expiry[u] >= records[u].source + PendingTTL
        BY <2>0, <3>3, Zenon DEF Covered
      <4>2. clock' \in Nat
        BY <1>k, Zenon DEF TypeOK, StatusTypeOK
      <4>3. ~ (expiry[u] <= clock')
        BY <1>a, <1>b, <2>0, <3>1, <3>3, <4>1, <4>2
      <4>4. records'[u] = records[u]
        BY <2>0, <3>5, <4>3, Zenon DEF Tick, ExpireKeys
      <4> QED BY <3>1, <3>3, <4>4 DEF Found
    <3>6. ASSUME NEW f \in Event, NEW status \in Outcome, NEW ttl \in {PendingTTL, TerminalTTL},
                 \/ u # upnOf[f] /\ records'[u] = records[u] /\ expiry'[u] = expiry[u]
                 \/ Written(upnOf[f], status, enqueuedAt[f], ttl, u)
          PROVE  Found(u)' /\ records'[u].source >= enqueuedAt'[e]
      <4>1. CASE records'[u] = records[u]
        BY <3>1, <3>3, <4>1 DEF Found
      <4>2. CASE /\ records'[u].status = status /\ records'[u].source = enqueuedAt[f]
                 /\ records[u].source <= enqueuedAt[f]
        <5>1. status # "unsynced"
          BY Zenon DEF Outcome
        <5> QED BY <1>b, <2>0, <3>1, <3>3, <4>2, <5>1 DEF Found
      <4> QED BY <3>3, <3>6, <4>1, <4>2, Zenon DEF Written
    <3> QED BY <2>0, <3>4, <3>5, <3>6, RecordMoves, Zenon
  <2>2. CASE e \notin marked
    <3>1. Acknowledge(e) /\ MarkPending(u, enqueuedAt[e], clock)
      BY <2>2, MarkedByAcknowledge, Zenon
    <3>2. set(u, "sync_pending", enqueuedAt[e], PendingTTL, clock) /\ enqueuedAt'[e] = enqueuedAt[e]
      BY <3>1, Zenon DEF MarkPending, Acknowledge, busVars
    <3>3. Written(u, "sync_pending", enqueuedAt[e], PendingTTL, u)
      <4>1. "sync_pending" \in Outcome /\ StatusTypeOK
        BY <1>k, Zenon DEF Outcome, TypeOK
      <4> QED BY <1>a, <1>b, <2>0, <3>2, <4>1, SetWrites, Zenon
    <3> QED BY <1>b, <2>0, <3>2, <3>3 DEF Written, Found
  <2> QED BY <2>1, <2>2, Zenon
<1> QED BY <1>1, <1>2, <1>3, Zenon DEF Covered

\* Once MarkPending took effect, no late outcome of an older event and no
\* expiry hides the accepted event within its pending window (needs TTLOrder).
THEOREM AcceptedEventsAreCovered == Spec => []AcceptedIsCovered
<1>1. Init => Covered
  BY SyncStatusAssumption
     DEF Init, StatusInit, BusInit, MigrationInit, Covered, AcceptedIsCovered, Found, NoRecord
<1>2. IInv /\ Covered /\ [Next]_vars => Covered'
  BY CoveredStep
<1>3. Covered => AcceptedIsCovered
  BY Zenon DEF Covered
<1> QED BY <1>1, <1>2, <1>3, PipelineInvariant, PTL DEF Spec

-----------------------------------------------------------------------------
\* The record shows the outcome of an event enqueued at source, or a newer one.
Shows(u, source) ==
  /\ Found(u)
  /\ \/ records[u].source > source
     \/ records[u].source = source /\ records[u].status \in {"synced", "sync_failed"}

Seen(e) == clock < enqueuedAt[e] + PendingTTL => Shows(upnOf[e], enqueuedAt[e])

\* What OutcomeIsVisible rests on: a worker about to complete its message has
\* seen the outcome in the store, too.
Visible ==
  /\ \A e \in Event \ Malformed : queue[e] = "completed" => Seen(e)
  /\ \A w \in Worker : pc[w] = "complete" /\ cur[w] \notin Malformed => Seen(cur[w])

\* A status write, of whatever event and outcome, does not hide an outcome.
LEMMA WriteKeepsShown ==
  ASSUME StatusTypeOK, NEW u \in UPN, NEW source \in Nat, Shows(u, source),
         NEW status \in Outcome, NEW from \in Nat, NEW ttl, NEW v,
         Written(v, status, from, ttl, u)
  PROVE  Shows(u, source)'
<1>0. records[u].source \in Nat /\ status # "unsynced"
  BY DEF StatusTypeOK, Record, Outcome
<1>1. CASE records'[u] = records[u]
  BY <1>1 DEF Shows, Found
<1>2. CASE /\ records'[u].status = status /\ records'[u].source = from
           /\ records[u].source <= from
           /\ records[u].source = from =>
                ~ (statusPrecedence(status) <= statusPrecedence(records[u].status))
  <2>1. CASE from > source
    BY <1>0, <1>2, <2>1 DEF Shows, Found
  <2>2. CASE ~ (from > source)
    <3>1. records[u].source = source /\ from = source
      BY <1>0, <1>2, <2>2 DEF Shows
    <3>2. records[u].status \in {"synced", "sync_failed"}
      BY <1>0, <3>1 DEF Shows
    <3>3. ~ (statusPrecedence(status) <= statusPrecedence(records[u].status))
      BY <1>2, <3>1
    <3>4. status = "synced"
      BY <3>2, <3>3 DEF statusPrecedence, Outcome
    <3> QED BY <1>0, <1>2, <3>1, <3>4 DEF Shows, Found
  <2> QED BY <2>1, <2>2
<1> QED BY <1>1, <1>2, Zenon DEF Written, Shows

\* The outcome of a sent event, once seen, stays so in every step: expiry comes
\* after the window and later writes are newer or further on.
LEMMA SeenStays ==
  ASSUME IInv, Covered, [Next]_vars, NEW e \in Event, Sent(e), Seen(e)
  PROVE  Seen(e)'
<1>k. TypeOK /\ TypeOK' /\ enqueuedAt'[e] = enqueuedAt[e] /\ StatusTypeOK
  BY NothingTakenBack, TypeStep, Zenon DEF IInv, Kept, TypeOK
<1>a. /\ PendingTTL \in Nat /\ upnOf[e] \in UPN /\ clock \in Nat /\ clock' \in Nat
      /\ \A f \in Event : enqueuedAt[f] \in Nat
  BY <1>k, SyncStatusAssumption, WorkerAssumption, Zenon DEF TypeOK, StatusTypeOK, BusTypeOK
<1> DEFINE u == upnOf[e]
<1> SUFFICES ASSUME clock' < enqueuedAt[e] + PendingTTL
             PROVE  Shows(u, enqueuedAt[e])'
  BY <1>k, Zenon DEF Seen, Shows, Found
<1>c. clock < enqueuedAt[e] + PendingTTL
  BY <1>a, ClockMoves
<1>s. Shows(u, enqueuedAt[e])
  BY <1>c, Zenon DEF Seen
<1>1. CASE UNCHANGED <<records, expiry>>
  BY <1>k, <1>s, <1>1, Zenon DEF Shows, Found
<1>2. CASE Tick
  <2>1. expiry[u] >= records[u].source + PendingTTL
    BY <1>a, <1>s, Zenon DEF Covered, Shows
  <2>2. records[u].source \in Nat /\ expiry[u] \in Nat
    BY <1>a, <1>k DEF StatusTypeOK, Record
  <2>3. ~ (expiry[u] <= clock')
    BY <1>a, <1>s, <2>1, <2>2 DEF Shows
  <2>4. records'[u] = records[u]
    BY <1>a, <1>2, <2>3, Zenon DEF Tick, ExpireKeys
  <2> QED BY <1>k, <1>s, <2>4, Zenon DEF Shows, Found
<1>3. ASSUME NEW f \in Event, NEW status \in Outcome, NEW ttl \in {PendingTTL, TerminalTTL},
             \/ u # upnOf[f] /\ records'[u] = records[u] /\ expiry'[u] = expiry[u]
             \/ Written(upnOf[f], status, enqueuedAt[f], ttl, u)
      PROVE  Shows(u, enqueuedAt[e])'
  <2>1. CASE records'[u] = records[u]
    BY <1>k, <1>s, <2>1, Zenon DEF Shows, Found
  <2>2. CASE Written(upnOf[f], status, enqueuedAt[f], ttl, u)
    <3>1. PICK source \in Nat : source = enqueuedAt[e]
      BY <1>a, Zenon
    <3>2. Shows(u, source)'
      BY <1>k, <1>a, <1>s, <2>2, <3>1, WriteKeepsShown, Zenon
    <3> QED BY <1>k, <3>1, <3>2, Zenon DEF Shows, Found
  <2> QED BY <1>3, <2>1, <2>2, Zenon
<1> QED BY <1>a, <1>1, <1>2, <1>3, RecordMoves, Zenon

\* MarkSynced or MarkFailed of a worker leaves its outcome in the store, unless
\* the record there is newer or already further on.
LEMMA MarkShows ==
  ASSUME IInv, "status" \notin Faults, NEW w \in Worker, MarkOutcome(w), NEW e \in Event, e = cur[w]
  PROVE  Seen(e)'
<1>t. StatusTypeOK /\ UNCHANGED enqueuedAt
  BY Zenon DEF MarkOutcome, IInv, TypeOK, busVars
<1> DEFINE u == upnOf[e]
<1>1. PICK source \in Nat : source = enqueuedAt[e]
  BY <1>t, Zenon DEF IInv, TypeOK, BusTypeOK
<1>2. PICK status \in {"synced", "sync_failed"} : set(u, status, source, TerminalTTL, clock)
  BY <1>1, Zenon DEF MarkOutcome, MarkSynced, MarkFailed, May
<1>3. status \in Outcome /\ u \in UPN /\ TerminalTTL \in Nat
  BY <1>t, SyncStatusAssumption, WorkerAssumption, Zenon DEF Outcome
<1>4. Written(u, status, source, TerminalTTL, u)
  BY <1>t, <1>2, <1>3, SetWrites, Zenon
<1>5. records[u].source \in Nat /\ records[u].status \in Outcome \cup {"unsynced"}
  BY <1>t, <1>3 DEF StatusTypeOK, Record
<1>6. Shows(u, source)'
  <2>1. CASE /\ records'[u] = records[u] /\ Found(u) /\ source <= records[u].source
             /\ source = records[u].source =>
                  statusPrecedence(status) <= statusPrecedence(records[u].status)
    <3>1. source = records[u].source => records[u].status \in {"synced", "sync_failed"}
      BY <1>5, <2>1 DEF statusPrecedence, Outcome, Found
    <3> QED BY <1>5, <2>1, <3>1 DEF Shows, Found
  <2>2. CASE records'[u].status = status /\ records'[u].source = source
    BY <2>2, Zenon DEF Shows, Found
  <2> QED BY <1>4, <2>1, <2>2, Zenon DEF Written
<1> QED BY <1>t, <1>1, <1>6, Zenon DEF Seen, Shows, Found

\* A worker gets to Complete by marking the outcome or with a message it could
\* not decode.
LEMMA CompleteIsReached ==
  ASSUME IInv, NEW w \in Worker, WorkerStep(w), pc'[w] = "complete"
  PROVE  cur'[w] = cur[w] /\ (MarkOutcome(w) \/ cur[w] \in Malformed)
<1>t. TypeOK /\ InHand(w) /\ w \in DOMAIN pc
  BY Zenon DEF IInv, TypeOK, WorkerTypeOK
<1>1. CASE MarkOutcome(w)
  BY <1>1, Zenon DEF MarkOutcome, Conclude
<1>2. CASE RecordFailure(w)
  <2>1. result[w] = "invalid" /\ pc[w] = "deadletter" /\ cur' = cur
    BY <1>t, <1>2, Zenon DEF RecordFailure, Conclude, Goto
  <2> QED BY <1>t, <2>1, Zenon DEF InHand
<1>3. CASE ReturnOnCancel(w) \/ ReceiveFails(w) \/ ReceiveNothing(w) \/ Complete(w) \/ Abandon(w)
  BY <1>t, <1>3, Zenon DEF ReturnOnCancel, ReceiveFails, ReceiveNothing, Complete, Abandon, Leave, Goto,
     workerVars
<1>4. ASSUME NEW e \in Event, Receive(w, e) PROVE FALSE
  BY <1>t, <1>4, Zenon DEF Receive, Goto
<1>5. CASE processMessage(w) \/ Decrypt(w) \/ Backoff(w)
  BY <1>t, <1>5, Zenon DEF processMessage, Decrypt, Backoff, Conclude, Goto
<1>6. ASSUME NEW status \in Status, LookupUser(w, status) \/ WriteUser(w, status) PROVE FALSE
  <2> DEFINE Then(label) == \E outcome \in Result : Conclude(w, outcome, label)
  <2>1. Then("patch") \/ Then("create") \/ Then("mark") \/ Then("deadletter") \/ Then("backoff")
    BY <1>6, Zenon DEF LookupUser, WriteUser, AttemptFailed, Result
  <2> QED BY <1>t, <1>6, <2>1, Zenon DEF Conclude, Goto
<1> QED BY <1>1, <1>2, <1>3, <1>4, <1>5, <1>6, Zenon DEF WorkerStep

\* Every step keeps outcomes visible.
LEMMA VisibleStep ==
  ASSUME IInv, Covered, Visible, "status" \notin Faults, [Next]_vars
  PROVE  Visible'
<1>t. TypeOK /\ \A w \in Worker : InHand(w)
  BY Zenon DEF IInv
<1>1. ASSUME NEW v \in Worker, NEW e \in Event \ Malformed, pc[v] = "complete", cur[v] = e
      PROVE  Seen(e)'
  <2>1. Sent(e) /\ Seen(e)
    BY <1>t, <1>1, WorkerAssumption, Zenon DEF Visible, InHand
  <2> QED BY <2>1, SeenStays, Zenon
<1>2. ASSUME NEW e \in Event \ Malformed, queue'[e] = "completed"
      PROVE  Seen(e)'
  <2>1. CASE queue[e] = "completed"
    <3>1. Sent(e) /\ Seen(e)
      BY <2>1, Zenon DEF Visible, Sent
    <3> QED BY <3>1, SeenStays, Zenon
  <2>2. CASE queue[e] # "completed"
    <3>1. PICK w \in Worker : pc[w] = "complete" /\ cur[w] = e
      BY <1>2, <2>2, QueueMoves, Zenon
    <3> QED BY <1>1, <3>1, Zenon
  <2> QED BY <2>1, <2>2, Zenon
<1>3. ASSUME NEW v \in Worker, NEW e \in Event \ Malformed, pc'[v] = "complete", cur'[v] = e
      PROVE  Seen(e)'
  <2>1. CASE pc'[v] = pc[v] /\ cur'[v] = cur[v]
    BY <1>1, <1>3, <2>1, Zenon
  <2>2. ASSUME NEW w \in Worker, WorkerStep(w)
        PROVE  Seen(e)'
    <3>1. CASE v # w
      BY <1>t, <2>1, <2>2, <3>1, OthersStay, Zenon
    <3>2. CASE v = w
      BY <1>3, <2>2, <3>2, CompleteIsReached, MarkShows, Zenon
    <3> QED BY <3>1, <3>2, Zenon
  <2>3. ASSUME NEW w \in Worker, Cancel(w) \/ Crash(w) \/ Restart(w)
        PROVE  Seen(e)'
    <3>1. CASE v # w
      BY <1>t, <2>1, <2>3, <3>1, OthersStay, Zenon
    <3>2. CASE v = w
      BY <1>t, <1>3, <2>1, <2>3, <3>2, Zenon DEF Cancel, Crash, Restart, Goto, TypeOK, WorkerTypeOK
    <3> QED BY <3>1, <3>2, Zenon
  <2>4. CASE UNCHANGED workerVars
    BY <2>1, <2>4, Zenon DEF workerVars
  <2> QED BY <2>2, <2>3, <2>4, StepCases, Zenon DEF Tick, Broker, vars
<1>4. ASSUME NEW v \in Worker, pc'[v] = "complete", cur'[v] \notin Malformed
      PROVE  Seen(cur[v])'
  <2>1. cur'[v] \in Event
    BY <1>4, TypeStep, Zenon DEF TypeOK, WorkerTypeOK
  <2>2. PICK e \in Event : cur'[v] = e /\ Seen(e)'
    BY <1>3, <1>4, <2>1, Zenon
  <2> QED BY <2>2, Zenon DEF Seen, Shows, Found
<1> QED BY <1>2, <1>4, Zenon DEF Visible

\* As long as no worker loses a status write, a reader finds the outcome of a
\* completed message, or a newer event, until the message's pending window is
\* over, however MarkPending of its request and MarkSynced of its worker meet.
THEOREM OutcomesAreVisible ==
  ASSUME "status" \notin Faults
  PROVE  Spec => []OutcomeIsVisible
<1>1. Init => Covered /\ Visible
  <2>1. Init => Covered
    BY SyncStatusAssumption
       DEF Init, StatusInit, BusInit, MigrationInit, Covered, AcceptedIsCovered, Found, NoRecord
  <2>2. Init => Visible
    BY DEF Init, BusInit, WorkerInit, Visible
  <2> QED BY <2>1, <2>2, Zenon
<1>2. IInv /\ Covered /\ Visible /\ [Next]_vars => (Covered /\ Visible)'
  BY CoveredStep, VisibleStep, Zenon
<1>3. Covered /\ Visible => OutcomeIsVisible
  BY Zenon DEF Visible, Seen, Shows, OutcomeIsVisible
<1> QED BY <1>1, <1>2, <1>3, PipelineInvariant, PTL DEF Spec

-----------------------------------------------------------------------------
\* While nobody cancels a worker, a permanent failure is one of Decrypt or a
\* refusal of Graph, in the hands of a worker as in the safe dead-letter queue.
Causes ==
  /\ \A w \in Worker : ~ canceled[w]
  /\ \A w \in Worker : pc[w] = "deadletter" /\ result[w] = "permanent" =>
       cur[w] \in Undecryptable \cup refused
  /\ \A d \in safeDLQ : d.reason = "permanent_processor_error" =>
       d.event \in Undecryptable \cup refused

\* Graph's refusals are not taken back, and nobody is cancelled by a step.
LEMMA RefusedKept ==
  ASSUME TypeOK, "cancel" \notin Faults, \A w \in Worker : ~ canceled[w], [Next]_vars
  PROVE  refused \subseteq refused' /\ \A w \in Worker : ~ canceled'[w]
<1>1. ASSUME NEW w \in Worker, WorkerStep(w)
      PROVE  refused \subseteq refused' /\ \A v \in Worker : ~ canceled'[v]
  <2>1. refused \subseteq refused'
    <3>1. ASSUME NEW status \in Status, LookupUser(w, status) \/ WriteUser(w, status)
          PROVE  refused \subseteq refused'
      <4>1. Answer(cur[w], status)
        BY <3>1, Zenon DEF LookupUser, Lookup, WriteUser, Write
      <4> QED BY <4>1, SMT DEF Answer
    <3>2. UNCHANGED refused \/ \E status \in Status : LookupUser(w, status) \/ WriteUser(w, status)
      BY <1>1, Zenon DEF WorkerStep, ReturnOnCancel, ReceiveNothing, ReceiveFails, Receive, processMessage,
         Decrypt, Backoff, RecordFailure, MarkOutcome, Complete, Abandon, graphVars
    <3> QED BY <3>1, <3>2, Zenon
  <2>2. \/ canceled' = canceled
        \/ \E label : canceled' = [canceled EXCEPT ![w] = canceled[w] /\ label # "stopped"]
    BY <1>1, Zenon DEF WorkerStep, ReturnOnCancel, ReceiveNothing, ReceiveFails, Receive, processMessage,
       Decrypt, LookupUser, WriteUser, AttemptFailed, Backoff, RecordFailure, MarkOutcome, Complete,
       Abandon, Leave, Conclude, workerVars
  <2> QED BY <2>1, <2>2, Zenon DEF TypeOK, WorkerTypeOK
<1>2. ASSUME NEW w \in Worker, Cancel(w) \/ Crash(w) \/ Restart(w)
      PROVE  refused \subseteq refused' /\ \A v \in Worker : ~ canceled'[v]
  BY <1>2, Zenon DEF Cancel, Crash, Restart, May, graphVars, TypeOK, WorkerTypeOK
<1>3. ASSUME UNCHANGED <<graphVars, workerVars>>
      PROVE  refused \subseteq refused' /\ \A v \in Worker : ~ canceled'[v]
  BY <1>3, Zenon DEF graphVars, workerVars
<1> QED BY <1>1, <1>2, <1>3, StepCases, Zenon DEF Tick, Broker, vars

\* A failed attempt is permanent only if Graph has just refused the event.
LEMMA PermanentIsRefused ==
  ASSUME TypeOK, NEW w \in Worker, NEW status \in Status, Answer(cur[w], status),
         AttemptFailed(w, classifyGraphResponse(status)), result'[w] = "permanent"
  PROVE  cur[w] \in refused'
<1>1. classifyGraphResponse(status) = "permanent"
  BY Zenon DEF AttemptFailed, Conclude, TypeOK, WorkerTypeOK
<1>2. status \in {400, 403}
  BY <1>1, SMT DEF classifyGraphResponse
<1> QED BY <1>2, Zenon DEF Answer

\* The step that takes a message to the safe dead-letter queue, or leaves it
\* there, knows the cause of a permanent failure.
LEMMA CauseInHand ==
  ASSUME IInv, Causes, refused \subseteq refused', NEW w \in Worker, WorkerStep(w),
         pc'[w] = "deadletter", result'[w] = "permanent"
  PROVE  cur'[w] \in Undecryptable \cup refused'
<1>t. TypeOK /\ w \in DOMAIN pc /\ w \in DOMAIN cur /\ w \in DOMAIN result
  BY Zenon DEF IInv, TypeOK, WorkerTypeOK
<1>1. CASE Decrypt(w)
  BY <1>t, <1>1, Zenon DEF Decrypt, Conclude, Goto, Causes
<1>2. ASSUME NEW status \in Status, LookupUser(w, status) \/ WriteUser(w, status)
      PROVE  cur'[w] \in refused'
  <2>1. Answer(cur[w], status) /\ cur' = cur
    BY <1>2, Zenon DEF LookupUser, Lookup, WriteUser, Write, AttemptFailed, Conclude
  <2>2. AttemptFailed(w, classifyGraphResponse(status))
    BY <1>t, <1>2, Zenon DEF LookupUser, WriteUser, Conclude, Goto
  <2> QED BY <1>t, <2>1, <2>2, PermanentIsRefused, Zenon
<1>3. CASE ReceiveNothing(w)
  BY <1>3, Zenon DEF ReceiveNothing, workerVars, graphVars, Causes
<1>4. CASE ReturnOnCancel(w) \/ ReceiveFails(w) \/ Complete(w) \/ Abandon(w)
  BY <1>t, <1>4, Zenon DEF ReturnOnCancel, ReceiveFails, Complete, Abandon, Leave, Goto
<1>5. ASSUME NEW e \in Event, Receive(w, e) PROVE FALSE
  BY <1>t, <1>5, Zenon DEF Receive, Goto
<1>6. CASE processMessage(w) \/ Backoff(w) \/ RecordFailure(w) \/ MarkOutcome(w)
  BY <1>t, <1>6, Zenon DEF processMessage, Backoff, RecordFailure, MarkOutcome, Conclude, Goto
<1> QED BY <1>1, <1>2, <1>3, <1>4, <1>5, <1>6, Zenon DEF WorkerStep

\* Every step keeps the causes known.
LEMMA CausesStep ==
  ASSUME IInv, Causes, "cancel" \notin Faults, [Next]_vars
  PROVE  Causes'
<1>t. /\ TypeOK /\ refused \subseteq refused' /\ \A w \in Worker : ~ canceled'[w]
      /\ \A w \in Worker : InHand(w)
  BY RefusedKept, Zenon DEF IInv, Causes
<1>1. ASSUME NEW v \in Worker, pc'[v] = "deadletter", result'[v] = "permanent"
      PROVE  cur'[v] \in Undecryptable \cup refused'
  <2>1. CASE pc'[v] = pc[v] /\ cur'[v] = cur[v] /\ result'[v] = result[v]
    BY <1>t, <1>1, <2>1, Zenon DEF Causes
  <2>2. ASSUME NEW w \in Worker, WorkerStep(w)
        PROVE  cur'[v] \in Undecryptable \cup refused'
    BY <1>t, <1>1, <2>1, <2>2, OthersStay, CauseInHand, Zenon
  <2>3. ASSUME NEW w \in Worker, Cancel(w) \/ Crash(w) \/ Restart(w)
        PROVE  cur'[v] \in Undecryptable \cup refused'
    <3>1. CASE v # w
      BY <1>t, <2>1, <2>3, <3>1, OthersStay, Zenon
    <3>2. CASE v = w
      BY <1>t, <1>1, <2>1, <2>3, <3>2, Zenon DEF Cancel, Crash, Restart, Goto, TypeOK, WorkerTypeOK
    <3> QED BY <3>1, <3>2, Zenon
  <2>4. CASE UNCHANGED workerVars
    BY <2>1, <2>4, Zenon DEF workerVars
  <2> QED BY <2>2, <2>3, <2>4, StepCases, Zenon DEF Tick, Broker, vars
<1>2. ASSUME NEW d \in safeDLQ', d.reason = "permanent_processor_error"
      PROVE  d.event \in Undecryptable \cup refused'
  <2>1. CASE d \in safeDLQ
    BY <1>t, <1>2, <2>1, Zenon DEF Causes
  <2>2. ASSUME NEW w \in Worker, RecordFailure(w), d \notin safeDLQ
        PROVE  d.event \in Undecryptable \cup refused'
    <3>1. d = [event |-> cur[w], reason |-> ReasonOf(result[w]), attempts |-> attempts[w]]
      BY <2>2, Zenon DEF RecordFailure, RecordPasswordSyncFailure
    <3>2. d.event = cur[w] /\ ReasonOf(result[w]) = "permanent_processor_error"
      BY <1>2, <3>1
    <3>3. pc[w] = "deadletter" /\ result[w] \in {"invalid", "permanent", "exhausted"}
      BY <1>t, <2>2, Zenon DEF RecordFailure, InHand
    <3>4. result[w] = "permanent"
      BY <3>2, <3>3 DEF ReasonOf
    <3> QED BY <1>t, <3>2, <3>3, <3>4, Zenon DEF Causes
  <2>3. UNCHANGED safeDLQ \/ \E w \in Worker : RecordFailure(w)
    <3>1. ASSUME NEW w \in Worker, WorkerStep(w), ~ RecordFailure(w)
          PROVE  UNCHANGED safeDLQ
      BY <3>1, Zenon DEF WorkerStep, ReturnOnCancel, ReceiveNothing, ReceiveFails, Receive, processMessage,
         Decrypt, LookupUser, WriteUser, Backoff, MarkOutcome, Complete, Abandon, busVars
    <3>2. ASSUME NEW w \in Worker, Cancel(w) \/ Crash(w) \/ Restart(w)
          PROVE  UNCHANGED safeDLQ
      BY <3>2, Zenon DEF Cancel, Crash, Restart, busVars
    <3>3. ASSUME NEW e \in Event, Submit(e) \/ Stamp(e) \/ Send(e) \/ Acknowledge(e) \/ Die(e) \/ Broker(e)
          PROVE  UNCHANGED safeDLQ
      BY <3>3, Zenon DEF Submit, Stamp, Send, EnqueuePasswordSync, Acknowledge, Die, Broker, LockExpires,
         Release, MessageExpires, busVars
    <3> QED BY <3>1, <3>2, <3>3, StepCases, Zenon DEF Tick, busVars, vars
  <2> QED BY <2>1, <2>2, <2>3, Zenon
<1> QED BY <1>t, <1>1, <1>2, Zenon DEF Causes

\* As long as no worker is cancelled, sync_failed means what status.go says:
\* a permanent error or exhausted retries of the very event it names.
THEOREM FailuresHaveCauses ==
  ASSUME "cancel" \notin Faults
  PROVE  Spec => []FailedHasCause
<1>1. Init => Truthful /\ Causes
  BY DEF Init, StatusInit, BusInit, WorkerInit, Truthful, Causes, Found, NoRecord
<1>2. IInv /\ Truthful /\ Causes /\ [Next]_vars => (Truthful /\ Causes)'
  BY TruthfulStep, CausesStep, Zenon
<1>3. IInv /\ Truthful /\ Causes => FailedHasCause
  <2> SUFFICES ASSUME IInv, Truthful, Causes, NEW u \in UPN, records[u].status = "sync_failed"
               PROVE  \E e \in Event :
                        /\ upnOf[e] = u /\ enqueuedAt[e] = records[u].source
                        /\ \/ e \in Undecryptable \cup refused
                           \/ \E d \in safeDLQ :
                                d.event = e /\ d.reason = "transient_processor_retries_exhausted"
    BY Zenon DEF FailedHasCause
  <2>1. PICK e \in Event :
          /\ upnOf[e] = u /\ records[u].source = enqueuedAt[e]
          /\ Recorded(e) /\ e \notin Malformed
    BY Zenon DEF Truthful, Backed, Found
  <2>2. PICK d \in safeDLQ : d.event = e
    BY <2>1, Zenon DEF Recorded
  <2>3. d.reason \in {"permanent_processor_error", "transient_processor_retries_exhausted"}
    <3>1. d.reason \in Reason
      BY DEF IInv, TypeOK, BusTypeOK, DeadLetterEntry
    <3>2. d.reason # "invalid_message_schema"
      BY <2>1, <2>2, Zenon DEF IInv, ExhaustedMeansAllAttempts
    <3> QED BY <3>1, <3>2, Zenon DEF Reason
  <2> QED BY <2>1, <2>2, <2>3, Zenon DEF Causes
<1> QED BY <1>1, <1>2, <1>3, PipelineInvariant, PTL DEF Spec

=============================================================================
