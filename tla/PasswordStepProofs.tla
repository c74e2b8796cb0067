------------------------ MODULE PasswordStepProofs ------------------------
(***************************************************************************)
(* The inductive invariant of the pipeline, and what holds of each of its  *)
(* steps: it keeps the types, and takes nothing back.                      *)
(***************************************************************************)
EXTENDS PasswordSync, TLAPS

\* What the types of a step need to know of the worker: a backoff follows an
\* attempt that was not the last, and a dead-letter entry has a reason.
Plausible(w) ==
  /\ pc[w] = "backoff" => attempts[w] <= RetryCount
  /\ pc[w] = "deadletter" => result[w] \in {"invalid", "permanent", "exhausted"}

\* A status write keeps the types of the store.
LEMMA SetType ==
  ASSUME StatusTypeOK, NEW u \in UPN, NEW status \in Outcome, NEW source \in Nat,
         NEW ttl \in Nat, set(u, status, source, ttl, clock), clock' = clock
  PROVE  StatusTypeOK'
  BY DEF StatusTypeOK, set, statusVars, Record, Outcome

\* Updating a Boolean-valued function.
LEMMA BooleanUpdate ==
  ASSUME NEW S, NEW f \in [S -> BOOLEAN], NEW x \in S, NEW b \in BOOLEAN
  PROVE  [f EXCEPT ![x] = b] \in [S -> BOOLEAN]
  BY Zenon

\* Leaving processMessage, whether by a return or by a crash, keeps the types
\* of the worker.
LEMMA LeaveType ==
  ASSUME WorkerTypeOK, NEW w \in Worker, NEW label \in {"idle", "stopped"},
         Leave(w, label), UNCHANGED graphVars
  PROVE  WorkerTypeOK'
<1> USE WorkerAssumption
<1>1. canceled' \in [Worker -> BOOLEAN]
  <2>1. canceled' = [canceled EXCEPT ![w] = canceled[w] /\ label # "stopped"]
    BY DEF Leave
  <2>2. (canceled[w] /\ label # "stopped") \in BOOLEAN
    OBVIOUS
  <2> QED BY <2>1, <2>2, Zenon DEF WorkerTypeOK
<1>2. /\ pc' \in [Worker -> PC] /\ cur' \in [Worker -> Event \cup {NoEvent}]
      /\ \A v \in Worker : (cur'[v] = NoEvent) = (pc'[v] \in {"idle", "stopped"})
  BY DEF Leave, Goto, WorkerTypeOK, PC
<1>3. /\ attempts' \in [Worker -> 0 .. RetryCount + 1] /\ result' \in [Worker -> Result]
      /\ stops' \in 0 .. MaxStops
  BY DEF Leave, WorkerTypeOK, Result
<1> QED BY <1>1, <1>2, <1>3 DEF WorkerTypeOK, graphVars

\* Cancellation, crash and restart keep the types of the worker.
LEMMA LifecycleType ==
  ASSUME WorkerTypeOK, NEW w \in Worker, Cancel(w) \/ Crash(w) \/ Restart(w)
  PROVE  WorkerTypeOK'
<1>1. canceled' \in [Worker -> BOOLEAN]
  <2>1. canceled \in [Worker -> BOOLEAN]
    BY DEF WorkerTypeOK
  <2>2. CASE Cancel(w)
    <3>1. canceled' = [canceled EXCEPT ![w] = TRUE]
      BY <2>2 DEF Cancel
    <3> QED BY <2>1, <3>1, BooleanUpdate
  <2>3. CASE Crash(w)
    <3>1. canceled' = [canceled EXCEPT ![w] = FALSE]
      BY <2>3 DEF Crash
    <3> QED BY <2>1, <3>1, BooleanUpdate
  <2>4. CASE Restart(w)
    BY <2>1, <2>4 DEF Restart
  <2> QED BY <2>2, <2>3, <2>4
<1>2. /\ pc' \in [Worker -> PC] /\ cur' \in [Worker -> Event \cup {NoEvent}]
      /\ \A v \in Worker : (cur'[v] = NoEvent) = (pc'[v] \in {"idle", "stopped"})
  BY WorkerAssumption DEF Cancel, Crash, Restart, Goto, WorkerTypeOK, PC
<1>3. /\ attempts' \in [Worker -> 0 .. RetryCount + 1] /\ result' \in [Worker -> Result]
      /\ stops' \in 0 .. MaxStops
  BY WorkerAssumption DEF Cancel, Crash, Restart, WorkerTypeOK, Result
<1> QED BY <1>1, <1>2, <1>3 DEF Cancel, Crash, Restart, WorkerTypeOK, graphVars

\* Releasing or settling a message, or neither, keeps the types of the queue.
LEMMA ReleaseType ==
  ASSUME BusTypeOK, NEW e, Release(e) \/ Settle(e) \/ UNCHANGED <<queue, holder>>,
         UNCHANGED <<sentAt, deliveries, enqueuedAt, safeDLQ>>
  PROVE  BusTypeOK'
<1>1. queue' \in [Event -> Place]
  <2>1. CASE Release(e)
    BY <2>1, Zenon DEF Release, BusTypeOK, Place
  <2>2. CASE Settle(e)
    BY <2>2, Zenon DEF Settle, BusTypeOK, Place
  <2>3. CASE UNCHANGED <<queue, holder>>
    BY <2>3 DEF BusTypeOK
  <2> QED BY <2>1, <2>2, <2>3
<1>2. holder' \in [Event -> Worker \cup {NoWorker}]
  BY DEF Release, Settle, BusTypeOK
<1> QED BY <1>1, <1>2 DEF BusTypeOK

\* What a step leaves alone keeps its type.
LEMMA StatusStays ==
  ASSUME StatusTypeOK, UNCHANGED <<clock, statusVars>>
  PROVE  StatusTypeOK'
  BY DEF StatusTypeOK, statusVars

\* The queue.
LEMMA BusStays ==
  ASSUME BusTypeOK, UNCHANGED busVars
  PROVE  BusTypeOK'
  BY Zenon DEF BusTypeOK, busVars

\* The workers.
LEMMA WorkerStays ==
  ASSUME WorkerTypeOK, UNCHANGED <<graphVars, workerVars>>
  PROVE  WorkerTypeOK'
  BY Zenon DEF WorkerTypeOK, graphVars, workerVars

\* A worker that moves on with its message keeps the types of the worker.
LEMMA ConcludeType ==
  ASSUME WorkerTypeOK, NEW w \in Worker, cur[w] # NoEvent,
         NEW outcome \in Result, NEW label \in PC \ {"idle", "stopped"},
         Conclude(w, outcome, label),
         accounts' \in SUBSET UPN, written' \in SUBSET Event, refused' \in SUBSET Event
  PROVE  WorkerTypeOK'
  BY DEF Conclude, Goto, WorkerTypeOK

\* So does one that starts an attempt.
LEMMA AttemptType ==
  ASSUME WorkerTypeOK, NEW w \in Worker, cur[w] # NoEvent, NEW n \in 0 .. RetryCount + 1,
         Goto(w, "decrypt"), attempts' = [attempts EXCEPT ![w] = n],
         UNCHANGED <<cur, result, canceled, stops, graphVars>>
  PROVE  WorkerTypeOK'
  BY DEF Goto, WorkerTypeOK, PC, graphVars

\* A failed attempt leads to the dead-letter queue or to a backoff.
LEMMA AttemptFailedType ==
  ASSUME WorkerTypeOK, NEW w \in Worker, cur[w] # NoEvent, NEW class, AttemptFailed(w, class),
         accounts' \in SUBSET UPN, written' \in SUBSET Event, refused' \in SUBSET Event
  PROVE  WorkerTypeOK'
<1>1. PICK outcome \in Result, label \in PC \ {"idle", "stopped"} : Conclude(w, outcome, label)
  BY Zenon DEF AttemptFailed, Result, PC
<1> QED BY <1>1, ConcludeType, Zenon

\* Every step of a worker keeps the types of the worker.
LEMMA WorkerMoves ==
  ASSUME WorkerTypeOK, NEW w \in Worker, Plausible(w), WorkerStep(w)
  PROVE  WorkerTypeOK'
<1>t. WorkerTypeOK /\ RetryCount \in Nat
  BY WorkerAssumption, Zenon
<1>g. /\ accounts \in SUBSET UPN /\ written \in SUBSET Event /\ refused \in SUBSET Event
      /\ cur[w] = NoEvent <=> pc[w] \in {"idle", "stopped"}
      /\ cur[w] # NoEvent => cur[w] \in Event /\ upnOf[cur[w]] \in UPN
      /\ attempts[w] \in Nat /\ result[w] \in Result
  BY <1>t, WorkerAssumption DEF WorkerTypeOK
<1>1. CASE ReturnOnCancel(w) \/ ReceiveFails(w) \/ Complete(w) \/ Abandon(w)
  BY <1>t, <1>1, LeaveType, Zenon DEF ReturnOnCancel, ReceiveFails, Complete, Abandon
<1>2. CASE ReceiveNothing(w)
  BY <1>t, <1>2, WorkerStays, Zenon DEF ReceiveNothing
<1>3. ASSUME NEW e \in Event, Receive(w, e) PROVE WorkerTypeOK'
  BY <1>t, <1>3, WorkerAssumption, SMTT(30) DEF Receive, Goto, WorkerTypeOK, graphVars, PC
<1>4. CASE processMessage(w)
  <2>1. cur[w] # NoEvent /\ UNCHANGED graphVars
    BY <1>g, <1>4, Zenon DEF processMessage
  <2>2. CASE Conclude(w, "invalid", "deadletter")
    BY <1>t, <1>g, <2>1, <2>2, ConcludeType, Zenon DEF Result, PC, graphVars
  <2>3. CASE /\ Goto(w, "decrypt") /\ attempts' = [attempts EXCEPT ![w] = 1]
             /\ UNCHANGED <<cur, result, canceled, stops>>
    <3>1. 1 \in 0 .. RetryCount + 1
      BY <1>t
    <3> QED BY <1>t, <2>1, <2>3, <3>1, AttemptType, Zenon
  <2> QED BY <1>4, <2>2, <2>3, Zenon DEF processMessage
<1>5. CASE Decrypt(w)
  <2>1. PICK outcome \in Result, label \in PC \ {"idle", "stopped"} : Conclude(w, outcome, label)
    BY <1>5, Zenon DEF Decrypt, Result, PC
  <2> QED BY <1>t, <1>g, <1>5, <2>1, ConcludeType, Zenon DEF Decrypt, graphVars
<1>6. ASSUME NEW status \in Status, LookupUser(w, status) PROVE WorkerTypeOK'
  <2>1. cur[w] # NoEvent
    BY <1>g, <1>6 DEF LookupUser
  <2>2. accounts' \in SUBSET UPN /\ written' \in SUBSET Event /\ refused' \in SUBSET Event
    BY <1>g, <1>6, <2>1 DEF LookupUser, Lookup, Answer
  <2>3. CASE status \in {200, 404}
    <3>1. PICK label \in {"patch", "create"} : Conclude(w, "none", label)
      BY <1>6, <2>3, Zenon DEF LookupUser
    <3> QED BY <1>t, <2>1, <2>2, <3>1, ConcludeType, Zenon DEF Result, PC
  <2>4. CASE AttemptFailed(w, classifyGraphResponse(status))
    BY <1>t, <2>1, <2>2, <2>4, AttemptFailedType, Zenon
  <2> QED BY <1>6, <2>3, <2>4 DEF LookupUser
<1>7. ASSUME NEW status \in Status, WriteUser(w, status) PROVE WorkerTypeOK'
  <2>1. cur[w] # NoEvent
    BY <1>g, <1>7, SMTT(30) DEF WriteUser
  <2>2. accounts' \in SUBSET UPN /\ written' \in SUBSET Event /\ refused' \in SUBSET Event
    BY <1>g, <1>7, <2>1 DEF WriteUser, Write, Apply, Answer
  <2>3. CASE Conclude(w, "synced", "mark")
    BY <1>t, <2>1, <2>2, <2>3, ConcludeType, Zenon DEF Result, PC
  <2>4. CASE AttemptFailed(w, classifyGraphResponse(status))
    BY <1>t, <2>1, <2>2, <2>4, AttemptFailedType
  <2> QED BY <1>7, <2>3, <2>4, Zenon DEF WriteUser
<1>8. CASE Backoff(w)
  <2>0. cur[w] # NoEvent /\ UNCHANGED graphVars /\ attempts[w] <= RetryCount
    BY <1>g, <1>8, Zenon DEF Backoff, Plausible
  <2>1. cur[w] # NoEvent /\ UNCHANGED graphVars /\ attempts[w] + 1 \in 0 .. RetryCount + 1
    BY <1>t, <1>g, <2>0
  <2>2. CASE Conclude(w, "canceled", "abandon")
    BY <1>t, <1>g, <2>1, <2>2, ConcludeType, Zenon DEF Result, PC, graphVars
  <2>3. CASE /\ Goto(w, "decrypt") /\ attempts' = [attempts EXCEPT ![w] = attempts[w] + 1]
             /\ UNCHANGED <<cur, result, canceled, stops>>
    BY <1>t, <2>1, <2>3, AttemptType, Zenon
  <2> QED BY <1>8, <2>2, <2>3, Zenon DEF Backoff
<1>9. CASE RecordFailure(w) \/ MarkOutcome(w)
  <2>1. cur[w] # NoEvent /\ UNCHANGED graphVars
    BY <1>g, <1>9, Zenon DEF RecordFailure, MarkOutcome
  <2>2. PICK outcome \in Result, label \in PC \ {"idle", "stopped"} : Conclude(w, outcome, label)
    BY <1>g, <1>9, Zenon DEF RecordFailure, MarkOutcome, Result, PC
  <2> QED BY <1>t, <1>g, <2>1, <2>2, ConcludeType, Zenon DEF graphVars
<1> QED BY <1>1, <1>2, <1>3, <1>4, <1>5, <1>6, <1>7, <1>8, <1>9, Zenon DEF WorkerStep

\* Every step of a worker keeps the types of the queues.
LEMMA WorkerMovesBus ==
  ASSUME BusTypeOK, WorkerTypeOK, NEW w \in Worker, Plausible(w), WorkerStep(w)
  PROVE  BusTypeOK'
<1>1. CASE UNCHANGED busVars
  BY <1>1, BusStays, Zenon
<1>2. ASSUME NEW e \in Event, Receive(w, e) PROVE BusTypeOK'
  BY <1>2 DEF Receive, ReceiveMessages, BusTypeOK, Place
<1>3. CASE RecordFailure(w)
  <2>1. cur[w] \in Event /\ attempts[w] \in Nat
    BY <1>3, WorkerAssumption DEF RecordFailure, WorkerTypeOK
  <2>2. result[w] \in {"invalid", "permanent", "exhausted"}
    BY <1>3, Zenon DEF RecordFailure, Plausible
  <2>3. ReasonOf(result[w]) \in Reason
    BY <2>2, Zenon DEF ReasonOf, Reason
  <2>4. safeDLQ' \in SUBSET DeadLetterEntry
    BY <1>3, <2>1, <2>3 DEF RecordFailure, RecordPasswordSyncFailure, DeadLetterEntry, BusTypeOK
  <2> QED BY <1>3, <2>4, Zenon DEF RecordFailure, BusTypeOK
<1>4. CASE Complete(w)
  BY <1>4, ReleaseType, Zenon DEF Complete, CompleteMessage, SettleFails
<1>5. CASE Abandon(w)
  BY <1>5, ReleaseType, SMTT(30) DEF Abandon, AbandonMessage, SettleFails
<1>6. CASE ReturnOnCancel(w) \/ ReceiveFails(w) \/ ReceiveNothing(w) \/ processMessage(w)
           \/ Decrypt(w) \/ Backoff(w) \/ MarkOutcome(w)
  BY <1>1, <1>6, SMTT(30) DEF ReturnOnCancel, ReceiveFails, ReceiveNothing, processMessage, Decrypt,
     Backoff, MarkOutcome
<1>7. ASSUME NEW status \in Status, LookupUser(w, status) \/ WriteUser(w, status)
      PROVE  BusTypeOK'
  BY <1>1, <1>7, Zenon DEF LookupUser, WriteUser
<1> QED BY <1>2, <1>3, <1>4, <1>5, <1>6, <1>7, Zenon DEF WorkerStep

\* Every step of a worker keeps the types of the status store.
LEMMA WorkerMovesStatus ==
  ASSUME StatusTypeOK, BusTypeOK, WorkerTypeOK, NEW w \in Worker, WorkerStep(w)
  PROVE  StatusTypeOK'
<1>1. CASE UNCHANGED <<clock, statusVars>>
  BY <1>1, StatusStays, SMTT(30)
<1>2. CASE MarkOutcome(w)
  <2>1. /\ upnOf[cur[w]] \in UPN /\ enqueuedAt[cur[w]] \in Nat
        /\ TerminalTTL \in Nat /\ clock' = clock
    BY <1>2, WorkerAssumption, SyncStatusAssumption, Zenon
       DEF MarkOutcome, BusTypeOK, WorkerTypeOK
  <2>2. CASE MarkSynced(upnOf[cur[w]], enqueuedAt[cur[w]], clock)
    BY <2>1, <2>2, SetType, Zenon DEF MarkSynced, Outcome
  <2>3. CASE MarkFailed(upnOf[cur[w]], enqueuedAt[cur[w]], clock)
    BY <2>1, <2>3, SetType, Zenon DEF MarkFailed, Outcome
  <2> QED BY <1>1, <1>2, <2>1, <2>2, <2>3, Zenon DEF MarkOutcome
<1>3. CASE ReturnOnCancel(w) \/ ReceiveFails(w) \/ ReceiveNothing(w) \/ processMessage(w)
           \/ Decrypt(w) \/ Backoff(w) \/ RecordFailure(w) \/ Complete(w) \/ Abandon(w)
  BY <1>1, <1>3, Zenon DEF ReturnOnCancel, ReceiveFails, ReceiveNothing, processMessage, Decrypt,
     Backoff, RecordFailure, Complete, Abandon
<1>4. ASSUME NEW status \in Status, LookupUser(w, status) \/ WriteUser(w, status)
      PROVE  StatusTypeOK'
  BY <1>1, <1>4, SMTT(30) DEF LookupUser, WriteUser
<1>5. ASSUME NEW e \in Event, Receive(w, e) PROVE StatusTypeOK'
  BY <1>1, <1>5, Zenon DEF Receive
<1> QED BY <1>2, <1>3, <1>4, <1>5, Zenon DEF WorkerStep

-----------------------------------------------------------------------------
\* What a worker knows of its message at each point of processMessage.
InHand(w) ==
  /\ cur[w] # NoEvent => Sent(cur[w])
  /\ pc[w] \in {"decrypt", "lookup", "patch", "create", "backoff"} =>
       cur[w] \notin Malformed /\ attempts[w] >= 1
  /\ pc[w] = "backoff" => attempts[w] <= RetryCount
  /\ pc[w] = "deadletter" =>
       /\ result[w] \in {"invalid", "permanent", "exhausted"}
       /\ result[w] = "invalid" <=> cur[w] \in Malformed
       /\ result[w] = "exhausted" => attempts[w] = RetryCount + 1
  /\ pc[w] = "mark" =>
       /\ cur[w] \notin Malformed
       /\ IF result[w] = "synced" THEN cur[w] \in written ELSE Recorded(cur[w])
  /\ pc[w] = "complete" => Evidence(cur[w])

\* A request has a message on the queue once it sent it and not before;
\* evidence and pending marks exist of sent messages only.
SentFirst ==
  /\ \A e \in Event : req[e] \in {"idle", "checked", "stamped"} => ~ Sent(e)
  /\ \A e \in Event : req[e] = "sent" => Sent(e)
  /\ \A e \in Event : e \in written \/ Recorded(e) \/ e \in marked => Sent(e)

IInv ==
  /\ TypeOK
  /\ \A w \in Worker : InHand(w)
  /\ SentFirst
  /\ NoSilentLoss
  /\ ExhaustedMeansAllAttempts

-----------------------------------------------------------------------------
\* What a worker does next, as one of its actions.
LEMMA StepCases ==
  ASSUME Next
  PROVE  \/ Tick
         \/ \E e \in Event : Broker(e)
         \/ \E e \in Event : (Submit(e) \/ Stamp(e) \/ Send(e) \/ Acknowledge(e) \/ Die(e))
                             /\ UNCHANGED <<graphVars, workerVars>>
         \/ \E w \in Worker : WorkerStep(w) /\ UNCHANGED reqVars
         \/ \E w \in Worker : (Cancel(w) \/ Crash(w) \/ Restart(w)) /\ UNCHANGED reqVars
  BY DEF Next, Request, SubmitStep, Process, Lifecycle

\* Requests that a step leaves alone keep their types.
LEMMA MigrationStays ==
  ASSUME MigrationTypeOK, UNCHANGED reqVars
  PROVE  MigrationTypeOK'
  BY DEF MigrationTypeOK, reqVars

\* Every step of a request keeps the types.
LEMMA RequestMoves ==
  ASSUME TypeOK, NEW e \in Event,
         Submit(e) \/ Stamp(e) \/ Send(e) \/ Acknowledge(e) \/ Die(e)
  PROVE  StatusTypeOK' /\ BusTypeOK' /\ MigrationTypeOK'
<1>t. StatusTypeOK /\ BusTypeOK /\ MigrationTypeOK
  BY DEF TypeOK
<1>1. CASE Submit(e)
  <2>1. MigrationTypeOK'
    BY <1>t, <1>1 DEF Submit, Respond, SkipFor, MigrationTypeOK, Ended, SkipReason
  <2> QED BY <1>t, <1>1, <2>1, StatusStays, BusStays, SMTT(30) DEF Submit
<1>2. CASE Stamp(e)
  <2>1. MigrationTypeOK'
    BY <1>t, <1>2 DEF Stamp, Respond, MigrationTypeOK, Ended
  <2>2. BusTypeOK'
    BY <1>t, <1>2 DEF Stamp, BusTypeOK, StatusTypeOK
  <2> QED BY <1>t, <1>2, <2>1, <2>2, StatusStays DEF Stamp
<1>3. CASE Send(e)
  <2>1. MigrationTypeOK'
    BY <1>t, <1>3 DEF Send, Respond, MigrationTypeOK, Ended
  <2>2. BusTypeOK'
    BY <1>t, <1>3 DEF Send, EnqueuePasswordSync, BusTypeOK, StatusTypeOK, Place
  <2> QED BY <1>t, <1>3, <2>1, <2>2, StatusStays DEF Send
<1>4. CASE Acknowledge(e)
  <2>1. MigrationTypeOK'
    BY <1>t, <1>4 DEF Acknowledge, Respond, MigrationTypeOK, Ended
  <2>2. upnOf[e] \in UPN /\ enqueuedAt[e] \in Nat /\ PendingTTL \in Nat /\ clock' = clock
    BY <1>t, <1>4, WorkerAssumption, SyncStatusAssumption DEF Acknowledge, BusTypeOK
  <2>3. ASSUME MarkPending(upnOf[e], enqueuedAt[e], clock) PROVE StatusTypeOK'
    BY <1>t, <2>2, <2>3, SetType DEF MarkPending, Outcome
  <2>4. StatusTypeOK'
    BY <1>t, <1>4, <2>2, <2>3, StatusStays DEF Acknowledge
  <2> QED BY <1>t, <1>4, <2>1, <2>4, BusStays DEF Acknowledge
<1>5. CASE Die(e)
  <2>1. MigrationTypeOK'
    BY <1>t, <1>5 DEF Die, Respond, MigrationTypeOK, Ended
  <2> QED BY <1>t, <1>5, <2>1, StatusStays, BusStays DEF Die
<1> QED BY <1>1, <1>2, <1>3, <1>4, <1>5

\* Every step of requests, workers and broker keeps the types.
LEMMA TypeStep ==
  ASSUME IInv, [Next]_vars
  PROVE  TypeOK'
<1>t. /\ TypeOK /\ StatusTypeOK /\ BusTypeOK /\ WorkerTypeOK /\ MigrationTypeOK
      /\ \A w \in Worker : Plausible(w)
  BY DEF IInv, TypeOK, InHand, Plausible
<1>1. CASE Tick
  <2>1. StatusTypeOK'
    BY <1>t, <1>1, ClockAssumption
       DEF Tick, ExpireKeys, Advance, StatusTypeOK, NoRecord, Record, Outcome
  <2> QED BY <1>t, <1>1, <2>1, BusStays, WorkerStays, MigrationStays DEF Tick, TypeOK
<1>2. ASSUME NEW e \in Event, Broker(e)
      PROVE  TypeOK'
  <2>1. ASSUME LockExpires(e) PROVE BusTypeOK'
    BY <1>t, <2>1, ReleaseType DEF LockExpires
  <2>2. ASSUME MessageExpires(e) PROVE BusTypeOK'
    BY <1>t, <2>2 DEF MessageExpires, BusTypeOK, Place
  <2>3. UNCHANGED <<clock, statusVars, graphVars, workerVars, reqVars>>
    BY <1>2 DEF Broker, LockExpires, MessageExpires
  <2>4. BusTypeOK'
    BY <1>2, <2>1, <2>2 DEF Broker
  <2> QED BY <1>t, <2>3, <2>4, StatusStays, WorkerStays, MigrationStays DEF TypeOK
<1>3. ASSUME NEW e \in Event, Submit(e) \/ Stamp(e) \/ Send(e) \/ Acknowledge(e) \/ Die(e),
             UNCHANGED <<graphVars, workerVars>>
      PROVE  TypeOK'
  BY <1>t, <1>3, RequestMoves, WorkerStays DEF TypeOK
<1>4. ASSUME NEW w \in Worker, WorkerStep(w), UNCHANGED reqVars
      PROVE  TypeOK'
  BY <1>t, <1>4, WorkerMoves, WorkerMovesBus, WorkerMovesStatus, MigrationStays DEF TypeOK
<1>5. ASSUME NEW w \in Worker, Cancel(w) \/ Crash(w) \/ Restart(w), UNCHANGED reqVars
      PROVE  TypeOK'
  <2>1. WorkerTypeOK'
    BY <1>t, <1>5, LifecycleType
  <2>2. UNCHANGED <<clock, busVars, statusVars>>
    BY <1>5 DEF Cancel, Crash, Restart
  <2> QED BY <1>t, <1>5, <2>1, <2>2, StatusStays, BusStays, MigrationStays DEF TypeOK
<1>6. CASE UNCHANGED vars
  <2>1. UNCHANGED <<clock, statusVars, busVars, graphVars, workerVars, reqVars>>
    BY <1>6 DEF vars
  <2> QED BY <1>t, <2>1, StatusStays, BusStays, WorkerStays, MigrationStays DEF TypeOK
<1> QED BY <1>1, <1>2, <1>3, <1>4, <1>5, <1>6, StepCases

-----------------------------------------------------------------------------
\* What no step takes back: evidence, pending marks, sent messages and the
\* EnqueuedAt of a sent message.
Kept ==
  /\ written \subseteq written'
  /\ safeDLQ \subseteq safeDLQ'
  /\ marked \subseteq marked'
  /\ \A e \in Event : Sent(e) => Sent(e)' /\ enqueuedAt'[e] = enqueuedAt[e]

\* Every step keeps them.
LEMMA NothingTakenBack ==
  ASSUME IInv, [Next]_vars
  PROVE  Kept
<1>t. TypeOK /\ SentFirst
  BY DEF IInv
<1> USE DEF Kept, Sent
<1>1. CASE Tick
  BY <1>1 DEF Tick, busVars, graphVars, reqVars
<1>2. ASSUME NEW e \in Event, Broker(e)
      PROVE  Kept
  BY <1>t, <1>2 DEF Broker, LockExpires, MessageExpires, Release, graphVars, reqVars,
     TypeOK, BusTypeOK
<1>3. ASSUME NEW e \in Event, Submit(e) \/ Stamp(e) \/ Send(e) \/ Acknowledge(e) \/ Die(e),
             UNCHANGED <<graphVars, workerVars>>
      PROVE  Kept
  <2>1. CASE Submit(e) \/ Acknowledge(e) \/ Die(e)
    BY <1>3, <2>1, Zenon DEF Submit, Acknowledge, Die, busVars, graphVars
  <2>2. CASE Stamp(e)
    BY <1>t, <1>3, <2>2 DEF Stamp, SentFirst, graphVars, TypeOK, BusTypeOK
  <2>3. CASE Send(e)
    BY <1>t, <1>3, <2>3 DEF Send, EnqueuePasswordSync, graphVars, TypeOK, BusTypeOK
  <2> QED BY <1>3, <2>1, <2>2, <2>3, Zenon
<1>4. ASSUME NEW w \in Worker, WorkerStep(w), UNCHANGED reqVars
      PROVE  Kept
  <2> USE <1>t, <1>4
  <2>1. CASE ReturnOnCancel(w) \/ ReceiveFails(w) \/ ReceiveNothing(w) \/ processMessage(w)
             \/ Decrypt(w) \/ Backoff(w) \/ MarkOutcome(w)
    BY <2>1, Zenon DEF ReturnOnCancel, ReceiveFails, ReceiveNothing, processMessage, Decrypt, Backoff,
       MarkOutcome, busVars, graphVars, reqVars
  <2>2. ASSUME NEW e \in Event, Receive(w, e) PROVE Kept
    BY <2>2, Zenon DEF Receive, ReceiveMessages, graphVars, reqVars, TypeOK, BusTypeOK
  <2>3. ASSUME NEW status \in Status, LookupUser(w, status) \/ WriteUser(w, status) PROVE Kept
    BY <2>3, Zenon DEF LookupUser, Lookup, WriteUser, Write, Apply, busVars, reqVars
  <2>4. CASE RecordFailure(w)
    BY <2>4, Zenon DEF RecordFailure, RecordPasswordSyncFailure, graphVars, reqVars
  <2>5. CASE Complete(w) \/ Abandon(w)
    BY <2>5, Zenon DEF Complete, CompleteMessage, Settle, Abandon, AbandonMessage, Release, SettleFails,
       graphVars, reqVars, TypeOK, BusTypeOK
  <2> QED BY <2>1, <2>2, <2>3, <2>4, <2>5, Zenon DEF WorkerStep
<1>5. ASSUME NEW w \in Worker, Cancel(w) \/ Crash(w) \/ Restart(w), UNCHANGED reqVars
      PROVE  Kept
  BY <1>5, Zenon DEF Cancel, Crash, Restart, busVars, graphVars, reqVars
<1>6. CASE UNCHANGED vars
  BY <1>6, Zenon DEF vars, busVars, graphVars, reqVars
<1> QED BY <1>1, <1>2, <1>3, <1>4, <1>5, <1>6, StepCases, Zenon

\* Only Tick moves the clock, by one.
LEMMA ClockMoves ==
  ASSUME [Next]_vars
  PROVE  clock' = clock \/ clock' = clock + 1
  BY StepCases, ZenonT(60) DEF Tick, ExpireKeys, Advance, Broker, LockExpires, MessageExpires, Submit, Stamp,
     Send, Acknowledge, Die, WorkerStep, ReturnOnCancel, ReceiveNothing, ReceiveFails, Receive,
     processMessage, Decrypt, LookupUser, WriteUser, Backoff, RecordFailure, MarkOutcome, Complete,
     Abandon, Cancel, Crash, Restart, vars

\* Only Stamp sets an EnqueuedAt.
LEMMA StampedByStamp ==
  ASSUME [Next]_vars
  PROVE  UNCHANGED enqueuedAt \/ \E f \in Event : Stamp(f)
<1>1. CASE Tick \/ (\E f \in Event : Broker(f)) \/ UNCHANGED vars
  BY <1>1 DEF Tick, Broker, LockExpires, MessageExpires, busVars, vars
<1>2. ASSUME NEW f \in Event, Submit(f) \/ Send(f) \/ Acknowledge(f) \/ Die(f)
      PROVE  UNCHANGED enqueuedAt
  BY <1>2, Zenon DEF Submit, Send, Acknowledge, Die, busVars
<1>3. ASSUME NEW w \in Worker, WorkerStep(w)
      PROVE  UNCHANGED enqueuedAt
  BY <1>3, Zenon DEF WorkerStep, ReturnOnCancel, ReceiveNothing, ReceiveFails, Receive, processMessage,
     Decrypt, LookupUser, WriteUser, Backoff, RecordFailure, MarkOutcome, Complete, Abandon,
     busVars
<1>4. ASSUME NEW w \in Worker, Cancel(w) \/ Crash(w) \/ Restart(w)
      PROVE  UNCHANGED enqueuedAt
  BY <1>4 DEF Cancel, Crash, Restart, busVars
<1> QED BY <1>1, <1>2, <1>3, <1>4, StepCases

=============================================================================
