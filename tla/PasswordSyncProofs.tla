-------------------------- MODULE PasswordSyncProofs --------------------------
(***************************************************************************)
(* Safety of the pipeline for every set of events, accounts and workers,   *)
(* every choice of faults and every length of run.                         *)
(***************************************************************************)
EXTENDS PasswordStepProofs

\* A worker that does not move keeps what it knows.
LEMMA InHandKept ==
  ASSUME IInv, Kept, NEW v \in Worker, pc'[v] = pc[v], cur'[v] = cur[v],
         attempts'[v] = attempts[v], result'[v] = result[v]
  PROVE  InHand(v)'
<1>1. InHand(v) /\ cur[v] \in Event \cup {NoEvent}
      /\ (cur[v] = NoEvent) = (pc[v] \in {"idle", "stopped"})
  BY DEF IInv, TypeOK, WorkerTypeOK
<1> USE <1>1
<1>2. cur[v] # NoEvent => Sent(cur[v])'
  BY DEF Kept, InHand
<1>3. cur[v] \in written => cur[v] \in written'
  BY DEF Kept
<1>4. Recorded(cur[v]) => \E d \in safeDLQ' : d.event = cur[v]
  BY DEF Kept, Recorded
<1> QED BY <1>2, <1>3, <1>4 DEF InHand, Evidence, Recorded, Sent

\* A worker outside processMessage knows nothing.
LEMMA InHandEmpty ==
  ASSUME NEW v \in Worker, pc'[v] \in {"idle", "stopped"}, cur'[v] = NoEvent
  PROVE  InHand(v)'
  BY DEF InHand


\* A step of one worker moves no other.
LEMMA OthersStay ==
  ASSUME TypeOK, NEW w \in Worker,
         WorkerStep(w) \/ Cancel(w) \/ Crash(w) \/ Restart(w),
         NEW v \in Worker, v # w
  PROVE  /\ pc'[v] = pc[v] /\ cur'[v] = cur[v]
         /\ attempts'[v] = attempts[v] /\ result'[v] = result[v]
<1> USE DEF TypeOK, WorkerTypeOK
<1>1. CASE ReturnOnCancel(w) \/ ReceiveFails(w) \/ ReceiveNothing(w) \/ Complete(w) \/ Abandon(w)
  BY <1>1, Zenon DEF ReturnOnCancel, ReceiveFails, ReceiveNothing, Complete, Abandon, Leave, Goto, workerVars
<1>2. CASE processMessage(w) \/ Decrypt(w) \/ Backoff(w) \/ RecordFailure(w) \/ MarkOutcome(w)
  BY <1>2, Zenon DEF processMessage, Decrypt, Backoff, RecordFailure, MarkOutcome, Conclude, Goto
<1>3. ASSUME NEW e \in Event, Receive(w, e)
      PROVE  /\ pc'[v] = pc[v] /\ cur'[v] = cur[v]
             /\ attempts'[v] = attempts[v] /\ result'[v] = result[v]
  BY <1>3 DEF Receive, Goto
<1>4. ASSUME NEW status \in Status, LookupUser(w, status) \/ WriteUser(w, status)
      PROVE  /\ pc'[v] = pc[v] /\ cur'[v] = cur[v]
             /\ attempts'[v] = attempts[v] /\ result'[v] = result[v]
  BY <1>4 DEF LookupUser, WriteUser, AttemptFailed, Conclude, Goto
<1>5. CASE Cancel(w) \/ Crash(w) \/ Restart(w)
  BY <1>5 DEF Cancel, Crash, Restart, Goto
<1> QED BY <1>1, <1>2, <1>3, <1>4, <1>5, Zenon DEF WorkerStep

\* What a worker that moves knows afterwards.
LEMMA InHandMoves ==
  ASSUME IInv, Kept, NEW w \in Worker, WorkerStep(w)
  PROVE  InHand(w)'
<1>t. TypeOK /\ InHand(w)
  BY DEF IInv
<1>a. /\ w \in DOMAIN pc /\ w \in DOMAIN cur /\ w \in DOMAIN attempts /\ w \in DOMAIN result
      /\ cur[w] \in Event \cup {NoEvent} /\ attempts[w] \in 0 .. RetryCount + 1
      /\ (cur[w] = NoEvent) = (pc[w] \in {"idle", "stopped"})
      /\ RetryCount \in Nat /\ NoEvent \notin Event
  BY <1>t, WorkerAssumption DEF TypeOK, WorkerTypeOK
<1>s. cur[w] # NoEvent => queue'[cur[w]] # "absent"
  BY <1>t, <1>a, Zenon DEF InHand, Kept, Sent
<1> USE <1>a
<1>1. CASE ReturnOnCancel(w) \/ ReceiveFails(w) \/ Complete(w) \/ Abandon(w)
  <2>1. pc'[w] \in {"idle", "stopped"} /\ cur'[w] = NoEvent
    BY <1>1 DEF ReturnOnCancel, ReceiveFails, Complete, Abandon, Leave, Goto
  <2> QED BY <2>1, InHandEmpty, Zenon
<1>2. CASE ReceiveNothing(w)
  BY <1>2, InHandKept, Zenon DEF ReceiveNothing, workerVars
<1>3. ASSUME NEW e \in Event, Receive(w, e) PROVE InHand(w)'
  <2>1. pc'[w] = "received" /\ cur'[w] = e /\ queue'[e] = "locked"
    BY <1>t, <1>3 DEF Receive, ReceiveMessages, Goto, TypeOK, BusTypeOK
  <2> QED BY <2>1, Zenon DEF InHand, Sent
<1>4. CASE processMessage(w)
  <2>1. /\ cur'[w] = cur[w] /\ cur[w] # NoEvent
        /\ \/ pc'[w] = "deadletter" /\ result'[w] = "invalid" /\ cur[w] \in Malformed
           \/ pc'[w] = "decrypt" /\ attempts'[w] = 1 /\ cur[w] \notin Malformed
    BY <1>4 DEF processMessage, decodePasswordSyncMessage, Conclude, Goto
  <2>2. CASE pc'[w] = "deadletter"
    <3>1. cur'[w] = cur[w] /\ result'[w] = "invalid" /\ cur[w] \in Malformed
      BY <2>1, <2>2
    <3> QED BY <1>s, <2>2, <3>1 DEF InHand, Sent
  <2>3. CASE pc'[w] = "decrypt"
    <3>1. cur'[w] = cur[w] /\ attempts'[w] = 1 /\ cur[w] \notin Malformed
      BY <2>1, <2>3
    <3> QED BY <1>s, <2>3, <3>1 DEF InHand, Sent
  <2> QED BY <2>1, <2>2, <2>3, Zenon
<1>5. CASE Decrypt(w)
  <2>1. /\ cur'[w] = cur[w] /\ cur[w] # NoEvent /\ attempts'[w] = attempts[w]
        /\ \/ pc'[w] = "deadletter" /\ result'[w] = "permanent"
           \/ pc'[w] = "lookup"
        /\ cur[w] \notin Malformed /\ attempts[w] >= 1
    BY <1>t, <1>5 DEF Decrypt, Conclude, Goto, InHand
  <2> QED BY <1>s, <2>1 DEF InHand, Sent
<1>f. ASSUME NEW class, AttemptFailed(w, class), cur[w] # NoEvent,
             cur[w] \notin Malformed, attempts[w] >= 1
      PROVE  InHand(w)'
  <2>1. /\ cur'[w] = cur[w] /\ attempts'[w] = attempts[w]
        /\ \/ pc'[w] = "deadletter" /\ result'[w] = "permanent"
           \/ pc'[w] = "deadletter" /\ result'[w] = "exhausted" /\ attempts[w] > RetryCount
           \/ pc'[w] = "backoff" /\ attempts[w] <= RetryCount
    BY <1>f DEF AttemptFailed, Conclude, Goto
  <2>2. attempts[w] > RetryCount => attempts[w] = RetryCount + 1
    OBVIOUS
  <2> QED BY <1>s, <1>f, <2>1, <2>2 DEF InHand, Sent
<1>6. ASSUME NEW status \in Status, LookupUser(w, status) PROVE InHand(w)'
  <2>1. cur[w] # NoEvent /\ cur[w] \notin Malformed /\ attempts[w] >= 1
    BY <1>t, <1>6, Zenon DEF LookupUser, InHand
  <2>2. CASE status \in {200, 404}
    <3>1. cur'[w] = cur[w] /\ attempts'[w] = attempts[w] /\ pc'[w] \in {"patch", "create"}
      BY <1>6, <2>2 DEF LookupUser, Conclude, Goto
    <3> QED BY <1>s, <2>1, <3>1, Zenon DEF InHand, Sent
  <2> QED BY <1>6, <1>f, <2>1, <2>2, Zenon DEF LookupUser
<1>7. ASSUME NEW status \in Status, WriteUser(w, status) PROVE InHand(w)'
  <2>1. cur[w] # NoEvent /\ cur[w] \notin Malformed /\ attempts[w] >= 1
    BY <1>t, <1>7, Zenon DEF WriteUser, InHand
  <2>2. CASE classifyGraphResponse(status) = "ok"
    <3>1. status \in 200 .. 299
      BY <2>2 DEF classifyGraphResponse
    <3>2. status \notin GraphFaults \cup {0, 400}
      BY <3>1, GraphAssumption
    <3>3. cur[w] \in written'
      BY <1>7, <3>2 DEF WriteUser, Write, Failures, Apply
    <3>4. cur'[w] = cur[w] /\ pc'[w] = "mark" /\ result'[w] = "synced"
      BY <1>7, <2>2 DEF WriteUser, Conclude, Goto
    <3> QED BY <1>s, <2>1, <3>3, <3>4, Zenon DEF InHand, Sent
  <2> QED BY <1>7, <1>f, <2>1, <2>2, Zenon DEF WriteUser
<1>8. CASE Backoff(w)
  <2>1. cur[w] # NoEvent /\ cur[w] \notin Malformed /\ attempts[w] >= 1
    BY <1>t, <1>8, Zenon DEF Backoff, InHand
  <2>2. /\ cur'[w] = cur[w]
        /\ \/ pc'[w] = "decrypt" /\ attempts'[w] = attempts[w] + 1
           \/ pc'[w] = "abandon"
    BY <1>8 DEF Backoff, Conclude, Goto
  <2>3. attempts[w] + 1 >= 1
    BY <1>a
  <2> QED BY <1>s, <2>1, <2>2, <2>3, Zenon DEF InHand, Sent
<1>9. CASE RecordFailure(w)
  <2>1. /\ cur[w] # NoEvent /\ result[w] \in {"invalid", "permanent", "exhausted"}
        /\ result[w] = "invalid" <=> cur[w] \in Malformed
    BY <1>t, <1>9, Zenon DEF RecordFailure, InHand
  <2>2. /\ cur'[w] = cur[w]
        /\ \/ /\ \/ pc'[w] = "complete"
                 \/ pc'[w] = "mark" /\ result'[w] = result[w] /\ result[w] # "invalid"
              /\ RecordPasswordSyncFailure(cur[w], ReasonOf(result[w]), attempts[w])
           \/ pc'[w] = "abandon"
    BY <1>9 DEF RecordFailure, Conclude, Goto
  <2>3. RecordPasswordSyncFailure(cur[w], ReasonOf(result[w]), attempts[w]) =>
          \E d \in safeDLQ' : d.event = cur[w]
    <3> DEFINE d == [event |-> cur[w], reason |-> ReasonOf(result[w]), attempts |-> attempts[w]]
    <3>1. d.event = cur[w]
      OBVIOUS
    <3>2. RecordPasswordSyncFailure(cur[w], ReasonOf(result[w]), attempts[w]) => d \in safeDLQ'
      BY DEF RecordPasswordSyncFailure
    <3> HIDE DEF d
    <3> QED BY <3>1, <3>2, Zenon
  <2> QED BY <1>s, <2>1, <2>2, <2>3, Zenon DEF InHand, Evidence, Recorded, Sent
<1>10. CASE MarkOutcome(w)
  <2>1. cur'[w] = cur[w] /\ cur[w] # NoEvent /\ pc'[w] = "complete"
    BY <1>10 DEF MarkOutcome, Conclude, Goto
  <2>2. cur[w] \in written' \/ \E d \in safeDLQ' : d.event = cur[w]
    BY <1>t, <1>10, Zenon DEF MarkOutcome, InHand, Kept, Recorded
  <2> QED BY <1>s, <2>1, <2>2 DEF InHand, Evidence, Recorded, Sent
<1> QED BY <1>1, <1>2, <1>3, <1>4, <1>5, <1>6, <1>7, <1>8, <1>9, <1>10, Zenon DEF WorkerStep

\* Every worker keeps track of its message in every step.
LEMMA InHandStep ==
  ASSUME IInv, [Next]_vars, NEW v \in Worker
  PROVE  InHand(v)'
<1>k. Kept /\ TypeOK
  BY NothingTakenBack DEF IInv
<1>1. CASE UNCHANGED workerVars
  BY <1>k, <1>1, InHandKept DEF workerVars
<1>2. ASSUME NEW w \in Worker, WorkerStep(w)
      PROVE  InHand(v)'
  BY <1>k, <1>2, OthersStay, InHandKept, InHandMoves
<1>3. ASSUME NEW w \in Worker, Cancel(w) \/ Crash(w) \/ Restart(w)
      PROVE  InHand(v)'
  <2>1. CASE v # w
    BY <1>k, <1>3, <2>1, OthersStay, InHandKept
  <2>2. CASE v = w /\ Cancel(w)
    BY <1>k, <2>2, InHandKept, Zenon DEF Cancel
  <2>3. CASE v = w /\ (Crash(w) \/ Restart(w))
    <3>1. pc'[w] \in {"idle", "stopped"} /\ cur'[w] = NoEvent
      BY <1>k, <2>3 DEF Crash, Restart, Goto, TypeOK, WorkerTypeOK
    <3> QED BY <2>3, <3>1, InHandEmpty
  <2> QED BY <1>3, <2>1, <2>2, <2>3
<1> QED BY <1>1, <1>2, <1>3, StepCases DEF Tick, Broker, vars

\* Only a request puts a message on the queue, and only the worker that
\* completes its own message completes one.
LEMMA QueueMoves ==
  ASSUME IInv, [Next]_vars, NEW e \in Event
  PROVE  /\ ~ Sent(e) /\ Sent(e)' => req[e] = "stamped" /\ req'[e] \in {"sent", "failed"}
         /\ queue'[e] = "completed" /\ queue[e] # "completed" =>
              \E w \in Worker : pc[w] = "complete" /\ cur[w] = e
<1>t. TypeOK
  BY DEF IInv
<1> USE <1>t DEF Sent, TypeOK, BusTypeOK
<1>1. CASE Tick
  BY <1>1, Zenon DEF Tick, busVars, reqVars
<1>2. ASSUME NEW f \in Event, Broker(f)
      PROVE  /\ ~ Sent(e) => ~ Sent(e)'
             /\ queue'[e] = "completed" => queue[e] = "completed"
             /\ UNCHANGED req
  BY <1>2 DEF Broker, LockExpires, MessageExpires, Release, reqVars
<1>3. ASSUME NEW f \in Event, Submit(f) \/ Stamp(f) \/ Send(f) \/ Acknowledge(f) \/ Die(f)
      PROVE  /\ ~ Sent(e) /\ Sent(e)' => req[e] = "stamped" /\ req'[e] \in {"sent", "failed"}
             /\ queue'[e] = "completed" => queue[e] = "completed"
  <2>1. CASE Submit(f) \/ Stamp(f) \/ Acknowledge(f) \/ Die(f)
    BY <2>1, Zenon DEF Submit, Stamp, Acknowledge, Die, busVars
  <2>2. CASE Send(f)
    BY <2>2 DEF Send, EnqueuePasswordSync, Respond, MigrationTypeOK
  <2> QED BY <1>3, <2>1, <2>2, Zenon
<1>4. ASSUME NEW w \in Worker, WorkerStep(w)
      PROVE  /\ ~ Sent(e) => ~ Sent(e)'
             /\ queue'[e] = "completed" /\ queue[e] # "completed" =>
                  pc[w] = "complete" /\ cur[w] = e
  <2>1. CASE UNCHANGED queue
    BY <2>1, Zenon
  <2>2. ASSUME NEW f \in Event, Receive(w, f)
        PROVE  queue[f] = "ready" /\ queue' = [queue EXCEPT ![f] = "locked"]
    BY <2>2, Zenon DEF Receive, ReceiveMessages
  <2>3. CASE Complete(w)
    BY <2>3, Zenon DEF Complete, CompleteMessage, HoldsLock, Settle, SettleFails
  <2>4. CASE Abandon(w)
    BY <2>4 DEF Abandon, AbandonMessage, HoldsLock, Release, SettleFails
  <2>5. \/ UNCHANGED queue \/ Complete(w) \/ Abandon(w)
        \/ \E f \in Event : Receive(w, f)
    BY <1>4, Zenon DEF WorkerStep, ReturnOnCancel, ReceiveNothing, ReceiveFails, processMessage, Decrypt,
       LookupUser, WriteUser, Backoff, RecordFailure, MarkOutcome, busVars
  <2> QED BY <2>1, <2>2, <2>3, <2>4, <2>5, Zenon
<1>5. ASSUME NEW w \in Worker, Cancel(w) \/ Crash(w) \/ Restart(w)
      PROVE  UNCHANGED queue
  BY <1>5 DEF Cancel, Crash, Restart, busVars
<1>6. CASE UNCHANGED vars
  BY <1>6, Zenon DEF vars, busVars, reqVars
<1> QED BY <1>1, <1>2, <1>3, <1>4, <1>5, <1>6, StepCases, Zenon

\* The steps that add evidence or a pending mark.
LEMMA EvidenceSources ==
  ASSUME [Next]_vars
  PROVE  \/ UNCHANGED <<written, safeDLQ, marked>>
         \/ \E f \in Event : Acknowledge(f) /\ UNCHANGED <<graphVars, workerVars>>
         \/ \E w \in Worker, status \in Status : WriteUser(w, status) /\ UNCHANGED reqVars
         \/ \E w \in Worker : RecordFailure(w) /\ UNCHANGED reqVars
<1>1. CASE Tick \/ (\E f \in Event : Broker(f)) \/ UNCHANGED vars
  BY <1>1 DEF Tick, Broker, LockExpires, MessageExpires, busVars, graphVars, reqVars, vars
<1>2. ASSUME NEW f \in Event, Submit(f) \/ Stamp(f) \/ Send(f) \/ Die(f),
             UNCHANGED <<graphVars, workerVars>>
      PROVE  UNCHANGED <<written, safeDLQ, marked>>
  BY <1>2, Zenon DEF Submit, Stamp, Send, Die, busVars, graphVars
<1>3. ASSUME NEW w \in Worker, WorkerStep(w), UNCHANGED reqVars
      PROVE  \/ UNCHANGED <<written, safeDLQ, marked>>
             \/ \E status \in Status : WriteUser(w, status)
             \/ RecordFailure(w)
  BY <1>3, Zenon DEF WorkerStep, ReturnOnCancel, ReceiveNothing, ReceiveFails, Receive,
     processMessage, Decrypt, LookupUser, Lookup, Backoff, MarkOutcome, Complete, Abandon,
     busVars, graphVars, reqVars
<1>4. ASSUME NEW w \in Worker, Cancel(w) \/ Crash(w) \/ Restart(w), UNCHANGED reqVars
      PROVE  UNCHANGED <<written, safeDLQ, marked>>
  BY <1>4 DEF Cancel, Crash, Restart, busVars, graphVars, reqVars
<1> QED BY <1>1, <1>2, <1>3, <1>4, StepCases

\* A pending mark is set by the Acknowledge of its event, with MarkPending.
LEMMA MarkedByAcknowledge ==
  ASSUME [Next]_vars, NEW e \in marked', e \notin marked
  PROVE  Acknowledge(e) /\ MarkPending(upnOf[e], enqueuedAt[e], clock)
<1>1. PICK f \in Event : Acknowledge(f)
  BY EvidenceSources, Zenon DEF WriteUser, RecordFailure, reqVars
<1>2. MarkPending(upnOf[f], enqueuedAt[f], clock) /\ marked' = marked \cup {f}
  BY <1>1, Zenon DEF Acknowledge
<1>3. f = e
  BY <1>2
<1> QED BY <1>1, <1>2, <1>3

\* The order of sending, evidence and pending marks is kept.
LEMMA SentFirstStep ==
  ASSUME IInv, [Next]_vars
  PROVE  SentFirst'
<1>k. Kept /\ TypeOK /\ SentFirst
  BY NothingTakenBack DEF IInv
<1>1. ASSUME NEW e \in Event
      PROVE  /\ req'[e] \in {"idle", "checked", "stamped"} => ~ Sent(e)'
             /\ req'[e] = "sent" => Sent(e)'
  <2>1. CASE req'[e] = req[e]
    BY <1>k, <2>1, QueueMoves, Zenon DEF SentFirst, Kept
  <2>2. CASE req'[e] # req[e]
    <3>1. /\ Submit(e) \/ Stamp(e) \/ Send(e) \/ Acknowledge(e) \/ Die(e)
          /\ req[e] \in {"idle", "checked", "stamped", "sent"}
      <4>1. PICK f \in Event : Submit(f) \/ Stamp(f) \/ Send(f) \/ Acknowledge(f) \/ Die(f)
        BY <2>2, StepCases DEF Tick, Broker, reqVars, vars
      <4>2. f = e
        BY <1>k, <2>2, <4>1, Zenon DEF Submit, Stamp, Send, Acknowledge, Die, Respond, TypeOK, MigrationTypeOK
      <4> QED BY <4>1, <4>2, Zenon DEF Submit, Stamp, Send, Acknowledge, Die
    <3>2. CASE Submit(e) \/ Stamp(e)
      BY <1>k, <3>2, Zenon DEF Submit, Stamp, Respond, SentFirst, Sent, TypeOK, MigrationTypeOK, busVars
    <3>3. CASE Send(e)
      BY <1>k, <3>3 DEF Send, EnqueuePasswordSync, Respond, Sent, TypeOK, MigrationTypeOK, BusTypeOK
    <3>4. CASE Acknowledge(e) \/ Die(e)
      BY <1>k, <3>4, Zenon DEF Acknowledge, Die, Respond, TypeOK, MigrationTypeOK
    <3> QED BY <3>1, <3>2, <3>3, <3>4
  <2> QED BY <2>1, <2>2
<1>2. ASSUME NEW e \in Event, e \in written' \/ Recorded(e)' \/ e \in marked',
             ~ (e \in written \/ Recorded(e) \/ e \in marked)
      PROVE  Sent(e)
  <2>1. \/ \E w \in Worker : pc[w] \in {"patch", "create", "deadletter"} /\ cur[w] = e
        \/ req[e] = "sent"
    <3>1. CASE UNCHANGED <<written, safeDLQ, marked>>
      BY <1>2, <3>1 DEF Recorded
    <3>2. ASSUME NEW f \in Event, Acknowledge(f), UNCHANGED <<graphVars, workerVars>>
          PROVE  req[e] = "sent"
      BY <1>2, <3>2, Zenon DEF Acknowledge, graphVars, busVars, Recorded
    <3>3. ASSUME NEW w \in Worker, NEW status \in Status, WriteUser(w, status), UNCHANGED reqVars
          PROVE  pc[w] \in {"patch", "create", "deadletter"} /\ cur[w] = e
      BY <1>2, <3>3, Zenon DEF WriteUser, Write, Apply, busVars, reqVars, Recorded
    <3>4. ASSUME NEW w \in Worker, RecordFailure(w), UNCHANGED reqVars
          PROVE  pc[w] \in {"patch", "create", "deadletter"} /\ cur[w] = e
      <4>1. UNCHANGED <<written, marked>>
        BY <3>4, Zenon DEF RecordFailure, graphVars, reqVars
      <4>2. PICK d \in safeDLQ' : d.event = e
        BY <1>2, <4>1 DEF Recorded
      <4>3. d \notin safeDLQ
        BY <1>2, <4>2 DEF Recorded
      <4>4. d = [event |-> cur[w], reason |-> ReasonOf(result[w]), attempts |-> attempts[w]]
        BY <3>4, <4>2, <4>3, Zenon DEF RecordFailure, RecordPasswordSyncFailure
      <4>5. d.event = cur[w]
        BY <4>4, Zenon
      <4> QED BY <3>4, <4>2, <4>5, Zenon DEF RecordFailure
    <3> QED BY <3>1, <3>2, <3>3, <3>4, EvidenceSources, Zenon
  <2>2. ASSUME NEW w \in Worker, pc[w] \in {"patch", "create", "deadletter"}, cur[w] = e
        PROVE  Sent(e)
    BY <2>2, WorkerAssumption, Zenon DEF IInv, InHand
  <2> QED BY <1>k, <2>1, <2>2, Zenon DEF SentFirst
<1>3. ASSUME NEW e \in Event, e \in written' \/ Recorded(e)' \/ e \in marked'
      PROVE  Sent(e)'
  <2>1. Sent(e)
    BY <1>k, <1>2, <1>3 DEF SentFirst
  <2> QED BY <1>k, <2>1, Zenon DEF Kept
<1> QED BY <1>1, <1>3 DEF SentFirst

\* Completion needs evidence in every step.
LEMMA NoSilentLossStep ==
  ASSUME IInv, [Next]_vars
  PROVE  NoSilentLoss'
<1>k. Kept /\ NoSilentLoss
  BY NothingTakenBack DEF IInv
<1> SUFFICES ASSUME NEW e \in Event, queue'[e] = "completed"
             PROVE  Evidence(e)'
  BY DEF NoSilentLoss
<1>1. Evidence(e)
  <2>1. CASE queue[e] = "completed"
    BY <1>k, <2>1 DEF NoSilentLoss
  <2>2. CASE queue[e] # "completed"
    <3>1. PICK w \in Worker : pc[w] = "complete" /\ cur[w] = e
      BY <2>2, QueueMoves, Zenon
    <3> QED BY <3>1 DEF IInv, InHand
  <2> QED BY <2>1, <2>2
<1> QED BY <1>k, <1>1, Zenon DEF Evidence, Recorded, Kept

\* Dead-letter entries state their attempts and their reason truly in every step.
LEMMA ExhaustedStep ==
  ASSUME IInv, [Next]_vars
  PROVE  ExhaustedMeansAllAttempts'
<1> SUFFICES ASSUME NEW d \in safeDLQ'
             PROVE  /\ d.reason = "transient_processor_retries_exhausted" => d.attempts = RetryCount + 1
                    /\ d.reason = "invalid_message_schema" <=> d.event \in Malformed
  BY DEF ExhaustedMeansAllAttempts
<1>1. CASE d \in safeDLQ
  BY <1>1 DEF IInv, ExhaustedMeansAllAttempts
<1>2. CASE d \notin safeDLQ
  <2>1. PICK w \in Worker : RecordFailure(w)
    BY <1>2, EvidenceSources, Zenon DEF Acknowledge, WriteUser, busVars
  <2>2. d = [event |-> cur[w], reason |-> ReasonOf(result[w]), attempts |-> attempts[w]]
    BY <1>2, <2>1, Zenon DEF RecordFailure, RecordPasswordSyncFailure
  <2>3. d.event = cur[w] /\ d.reason = ReasonOf(result[w]) /\ d.attempts = attempts[w]
    BY <2>2
  <2>4. /\ result[w] \in {"invalid", "permanent", "exhausted"}
        /\ result[w] = "invalid" <=> cur[w] \in Malformed
        /\ result[w] = "exhausted" => attempts[w] = RetryCount + 1
    BY <2>1, Zenon DEF RecordFailure, IInv, InHand
  <2> QED BY <2>3, <2>4 DEF ReasonOf
<1> QED BY <1>1, <1>2

\* The inductive invariant holds of every behaviour of the pipeline.
THEOREM PipelineInvariant == Spec => []IInv
<1>1. Init => IInv
  <2> SUFFICES ASSUME Init PROVE IInv
    OBVIOUS
  <2> USE ClockAssumption, SyncStatusAssumption, ServiceBusAssumption, WorkerAssumption,
          MigrationAssumption, PasswordSyncAssumption
      DEF Init
  <2>1. StatusTypeOK /\ BusTypeOK
    BY DEF StatusInit, BusInit, StatusTypeOK, BusTypeOK, NoRecord, Record, Outcome, Place
  <2>2. WorkerTypeOK
    <3>1. canceled \in [Worker -> BOOLEAN]
      BY Zenon DEF WorkerInit
    <3> QED BY <3>1 DEF WorkerInit, GraphInit, WorkerTypeOK, PC, Result
  <2>3. MigrationTypeOK
    BY DEF MigrationInit, MigrationTypeOK, Ended, SkipReason
  <2>4. \A w \in Worker : InHand(w)
    BY DEF WorkerInit, InHand
  <2>5. SentFirst
    BY DEF MigrationInit, BusInit, GraphInit, SentFirst, Sent, Recorded
  <2>6. NoSilentLoss /\ ExhaustedMeansAllAttempts
    BY Zenon DEF BusInit, NoSilentLoss, ExhaustedMeansAllAttempts
  <2> QED BY <2>1, <2>2, <2>3, <2>4, <2>5, <2>6 DEF IInv, TypeOK
<1>2. IInv /\ [Next]_vars => IInv'
  BY TypeStep, InHandStep, SentFirstStep, NoSilentLossStep, ExhaustedStep DEF IInv
<1> QED BY <1>1, <1>2, PTL DEF Spec

\* Type correctness of requests, broker, store, Graph and workers together.
THEOREM TypeCorrect == Spec => []TypeOK
  BY PipelineInvariant, PTL DEF IInv

\* No message is completed without a Graph write or a safe dead-letter entry,
\* whatever the workers, the broker, the cancellations and the crashes do.
THEOREM NothingLostSilently == Spec => []NoSilentLoss
  BY PipelineInvariant, PTL DEF IInv

\* A dead-letter entry that says the retries are exhausted was written after
\* all of them, and exactly the undecodable messages are called invalid.
THEOREM EntriesAreTrue == Spec => []ExhaustedMeansAllAttempts
  BY PipelineInvariant, PTL DEF IInv

-----------------------------------------------------------------------------
\* Every behaviour of the pipeline is a behaviour of Delivery.
Fate == [e \in Event |-> FateOf(queue[e])]
Evident == {e \in Event : Evidence(e)}

\* One message moves.
LEMMA FateMoves ==
  ASSUME BusTypeOK, NEW e \in Event, NEW p \in Place, queue' = [queue EXCEPT ![e] = p]
  PROVE  Fate' = [Fate EXCEPT ![e] = FateOf(p)]
  BY Zenon DEF Fate, BusTypeOK

\* Evidence of one more event.
LEMMA EvidentGrows ==
  ASSUME NEW e \in Event,
         \/ written' = written \cup {e} /\ safeDLQ' = safeDLQ
         \/ /\ written' = written
            /\ \E r \in Reason, n \in Nat : RecordPasswordSyncFailure(e, r, n)
  PROVE  Evident' = Evident \cup {e}
<1>1. CASE written' = written \cup {e} /\ safeDLQ' = safeDLQ
  BY <1>1 DEF Evident, Evidence, Recorded
<1>2. ASSUME NEW r \in Reason, NEW n \in Nat, RecordPasswordSyncFailure(e, r, n), written' = written
      PROVE  Evident' = Evident \cup {e}
  <2> DEFINE d == [event |-> e, reason |-> r, attempts |-> n]
  <2>1. d.event = e
    OBVIOUS
  <2>2. safeDLQ' = safeDLQ \cup {d}
    BY <1>2 DEF RecordPasswordSyncFailure
  <2> HIDE DEF d
  <2>3. \A f \in Event : Recorded(f)' <=> Recorded(f) \/ f = e
    BY <2>1, <2>2 DEF Recorded
  <2> QED BY <1>2, <2>3 DEF Evident, Evidence
<1> QED BY <1>1, <1>2

\* Nothing about the messages changes.
LEMMA Stutters ==
  ASSUME UNCHANGED <<queue, written, safeDLQ>>
  PROVE  Fate' = Fate /\ Evident' = Evident
  BY DEF Fate, Evident, Evidence, Recorded

\* Every step is a step of Delivery or changes neither fate nor evidence.
LEMMA StepImplements ==
  ASSUME IInv, [Next]_vars
  PROVE  \/ Fate' = Fate /\ Evident' = Evident
         \/ \E e \in Event :
              \/ /\ Fate[e] = "none" /\ Fate' = [Fate EXCEPT ![e] = "live"]
                 /\ Evident' = Evident
              \/ Fate[e] # "none" /\ Evident' = Evident \cup {e} /\ Fate' = Fate
              \/ /\ Fate[e] = "live" /\ e \in Evident
                 /\ Fate' = [Fate EXCEPT ![e] = "settled"] /\ Evident' = Evident
              \/ /\ Fate[e] = "live" /\ Fate' = [Fate EXCEPT ![e] = "dropped"]
                 /\ Evident' = Evident
<1>t. TypeOK /\ BusTypeOK /\ SentFirst
  BY DEF IInv, TypeOK
<1>q. ASSUME UNCHANGED <<written, safeDLQ>> PROVE Evident' = Evident
  BY <1>q DEF Evident, Evidence, Recorded
<1>f. \A e \in Event : /\ Fate[e] = FateOf(queue[e])
                       /\ Fate \in [Event -> {"none", "live", "settled", "dropped"}]
  BY <1>t, Zenon DEF Fate, FateOf, BusTypeOK, Place
<1>r. ASSUME NEW e \in Event, queue[e] = "locked", Release(e), UNCHANGED <<written, safeDLQ>>
      PROVE  /\ Evident' = Evident
             /\ \/ Fate' = Fate
                \/ Fate[e] = "live" /\ Fate' = [Fate EXCEPT ![e] = "dropped"]
  <2>1. PICK p \in {"ready", "deadlettered"} : queue' = [queue EXCEPT ![e] = p]
    BY <1>r, Zenon DEF Release
  <2>p. p \in Place
    BY Zenon DEF Place
  <2>2. Fate' = [Fate EXCEPT ![e] = FateOf(p)]
    BY <1>t, <2>1, <2>p, FateMoves, Zenon
  <2>3. Fate[e] = "live" /\ FateOf("ready") = "live" /\ FateOf("deadlettered") = "dropped"
    BY <1>f, <1>r, Zenon DEF FateOf
  <2> QED BY <1>f, <1>q, <1>r, <2>2, <2>3, Zenon
<1>1. CASE Tick \/ UNCHANGED vars
  BY <1>1, Stutters, Zenon DEF Tick, vars, busVars, graphVars
<1>2. ASSUME NEW e \in Event, Broker(e)
      PROVE  \/ Fate' = Fate /\ Evident' = Evident
             \/ /\ Fate[e] = "live" /\ Fate' = [Fate EXCEPT ![e] = "dropped"]
                /\ Evident' = Evident
  <2>1. CASE LockExpires(e)
    BY <1>2, <1>r, <2>1, Zenon DEF Broker, LockExpires, graphVars
  <2>2. CASE MessageExpires(e)
    <3>1. queue[e] = "ready" /\ queue' = [queue EXCEPT ![e] = "expired"]
      BY <2>2, Zenon DEF MessageExpires
    <3>2. Fate' = [Fate EXCEPT ![e] = "dropped"] /\ Fate[e] = "live"
      BY <1>t, <1>f, <3>1, FateMoves, Zenon DEF FateOf, Place
    <3> QED BY <1>2, <1>q, <2>2, <3>2, Zenon DEF Broker, MessageExpires, graphVars
  <2> QED BY <1>2, <2>1, <2>2, Zenon DEF Broker
<1>3. ASSUME NEW e \in Event, Submit(e) \/ Stamp(e) \/ Send(e) \/ Acknowledge(e) \/ Die(e),
             UNCHANGED <<graphVars, workerVars>>
      PROVE  \/ Fate' = Fate /\ Evident' = Evident
             \/ /\ Fate[e] = "none" /\ Fate' = [Fate EXCEPT ![e] = "live"]
                /\ Evident' = Evident
  <2>1. CASE UNCHANGED queue
    BY <1>3, <2>1, Stutters, Zenon DEF Submit, Stamp, Send, Acknowledge, Die, busVars, graphVars
  <2>2. CASE Send(e) /\ EnqueuePasswordSync(e)
    <3>1. queue' = [queue EXCEPT ![e] = "ready"] /\ UNCHANGED <<written, safeDLQ>>
      BY <1>3, <2>2, Zenon DEF Send, EnqueuePasswordSync, graphVars
    <3>2. queue[e] = "absent"
      BY <1>t, <2>2, Zenon DEF Send, SentFirst, Sent
    <3>3. Fate' = [Fate EXCEPT ![e] = "live"] /\ Fate[e] = "none"
      BY <1>t, <1>f, <3>1, <3>2, FateMoves, Zenon DEF FateOf, Place
    <3> QED BY <1>q, <3>1, <3>3, Zenon
  <2> QED BY <1>3, <2>1, <2>2, Zenon DEF Submit, Stamp, Send, Acknowledge, Die, busVars
<1>4. ASSUME NEW w \in Worker, WorkerStep(w), cur[w] = NoEvent \/ cur[w] \in Event
      PROVE  \/ Fate' = Fate /\ Evident' = Evident
             \/ \E e \in Event :
                  \/ Fate[e] # "none" /\ Evident' = Evident \cup {e} /\ Fate' = Fate
                  \/ /\ Fate[e] = "live" /\ e \in Evident
                     /\ Fate' = [Fate EXCEPT ![e] = "settled"] /\ Evident' = Evident
                  \/ /\ Fate[e] = "live" /\ Fate' = [Fate EXCEPT ![e] = "dropped"]
                     /\ Evident' = Evident
  <2>i. InHand(w) /\ (cur[w] = NoEvent) = (pc[w] \in {"idle", "stopped"})
    BY Zenon DEF IInv, TypeOK, WorkerTypeOK
  <2>s. cur[w] \in Event => Fate[cur[w]] # "none"
    BY <1>f, <1>t, <2>i, WorkerAssumption, Zenon DEF InHand, Sent, FateOf, BusTypeOK, Place
  <2>1. CASE UNCHANGED <<queue, written, safeDLQ>>
    BY <2>1, Stutters, Zenon
  <2>2. ASSUME NEW e \in Event, Receive(w, e) PROVE Fate' = Fate /\ Evident' = Evident
    <3>1. queue[e] = "ready" /\ queue' = [queue EXCEPT ![e] = "locked"]
          /\ UNCHANGED <<written, safeDLQ>>
      BY <2>2, Zenon DEF Receive, ReceiveMessages, graphVars
    <3>2. Fate' = [Fate EXCEPT ![e] = "live"] /\ Fate[e] = "live"
      BY <1>t, <1>f, <3>1, FateMoves, Zenon DEF FateOf, Place
    <3> QED BY <1>f, <1>q, <3>1, <3>2, Zenon
  <2>3. ASSUME NEW status \in Status, WriteUser(w, status), written' # written
        PROVE  Fate[cur[w]] # "none" /\ Evident' = Evident \cup {cur[w]} /\ Fate' = Fate /\ cur[w] \in Event
    <3>1. cur[w] \in Event /\ written' = written \cup {cur[w]} /\ UNCHANGED <<queue, safeDLQ>>
      BY <1>4, <2>3, <2>i, Zenon DEF WriteUser, Write, Apply, busVars
    <3> QED BY <2>s, <3>1, EvidentGrows, Zenon DEF Fate
  <2>4. ASSUME RecordFailure(w), safeDLQ' # safeDLQ
        PROVE  Fate[cur[w]] # "none" /\ Evident' = Evident \cup {cur[w]} /\ Fate' = Fate /\ cur[w] \in Event
    <3>1. cur[w] \in Event /\ UNCHANGED <<queue, written>>
      BY <1>4, <2>4, <2>i, Zenon DEF RecordFailure, graphVars
    <3>2. RecordPasswordSyncFailure(cur[w], ReasonOf(result[w]), attempts[w])
      BY <2>4, Zenon DEF RecordFailure
    <3>3. ReasonOf(result[w]) \in Reason /\ attempts[w] \in Nat
      BY <1>t, <2>4, <2>i, WorkerAssumption
         DEF RecordFailure, InHand, ReasonOf, Reason, TypeOK, WorkerTypeOK
    <3> QED BY <2>s, <3>1, <3>2, <3>3, EvidentGrows, Zenon DEF Fate
  <2>5. ASSUME Complete(w), queue' # queue
        PROVE  /\ cur[w] \in Event /\ Fate[cur[w]] = "live" /\ cur[w] \in Evident
               /\ Fate' = [Fate EXCEPT ![cur[w]] = "settled"] /\ Evident' = Evident
    <3>1. /\ cur[w] \in Event /\ queue[cur[w]] = "locked"
          /\ queue' = [queue EXCEPT ![cur[w]] = "completed"] /\ UNCHANGED <<written, safeDLQ>>
      BY <1>4, <2>5, <2>i, Zenon DEF Complete, CompleteMessage, HoldsLock, Settle, SettleFails, graphVars
    <3>2. Fate' = [Fate EXCEPT ![cur[w]] = "settled"] /\ Fate[cur[w]] = "live"
      BY <1>t, <1>f, <3>1, FateMoves, Zenon DEF FateOf, Place
    <3>3. cur[w] \in Evident
      BY <2>5, <2>i, <3>1, Zenon DEF Complete, InHand, Evident
    <3> QED BY <1>q, <3>1, <3>2, <3>3, Zenon
  <2>6. ASSUME Abandon(w), queue' # queue
        PROVE  /\ cur[w] \in Event /\ Evident' = Evident
               /\ \/ Fate' = Fate
                  \/ Fate[cur[w]] = "live" /\ Fate' = [Fate EXCEPT ![cur[w]] = "dropped"]
    <3>1. /\ cur[w] \in Event /\ queue[cur[w]] = "locked" /\ Release(cur[w])
          /\ UNCHANGED <<written, safeDLQ>>
      BY <1>4, <2>6, <2>i, Zenon DEF Abandon, AbandonMessage, HoldsLock, SettleFails, graphVars
    <3> QED BY <1>r, <3>1, Zenon
  <2>7. \/ UNCHANGED <<queue, written, safeDLQ>>
        \/ \E e \in Event : Receive(w, e)
        \/ \E status \in Status : WriteUser(w, status) /\ written' # written
        \/ RecordFailure(w) /\ safeDLQ' # safeDLQ
        \/ Complete(w) /\ queue' # queue
        \/ Abandon(w) /\ queue' # queue
    BY <1>4, Zenon DEF WorkerStep, ReturnOnCancel, ReceiveNothing, ReceiveFails, processMessage, Decrypt,
       LookupUser, Lookup, WriteUser, Backoff, RecordFailure, MarkOutcome, Complete, Abandon,
       busVars, graphVars
  <2> QED BY <2>1, <2>2, <2>3, <2>4, <2>5, <2>6, <2>7, Zenon
<1>5. ASSUME NEW w \in Worker, Cancel(w) \/ Crash(w) \/ Restart(w)
      PROVE  Fate' = Fate /\ Evident' = Evident
  BY <1>5, Stutters, Zenon DEF Cancel, Crash, Restart, busVars, graphVars
<1>6. \A w \in Worker : cur[w] = NoEvent \/ cur[w] \in Event
  BY <1>t, Zenon DEF TypeOK, WorkerTypeOK
<1> QED BY <1>1, <1>2, <1>3, <1>4, <1>5, <1>6, StepCases, Zenon

\* The pipeline implements Delivery: whatever requests, workers and broker do,
\* every message ends at most once, completed only with evidence of its
\* outcome or dropped by the broker.
THEOREM PipelineImplementsDelivery == Spec => ImplementsDelivery
<1>1. Init => Promise!Init
  <2> SUFFICES ASSUME Init PROVE Promise!Init
    BY Zenon
  <2>1. Fate \in [Event -> {"none", "live"}]
    BY Zenon DEF Init, BusInit, Fate, FateOf
  <2>2. Evident = {}
    BY Zenon DEF Init, BusInit, GraphInit, Evident, Evidence, Recorded
  <2> QED BY <2>1, <2>2, Zenon DEF Promise!Init, Fate, Evident
<1>2. IInv /\ [Next]_vars => [Promise!Next]_<<Fate, Evident>>
  BY StepImplements, Zenon DEF Promise!Next, Promise!Accept, Promise!Document, Promise!Settle, Promise!Drop,
     Fate, Evident
<1> QED BY <1>1, <1>2, PipelineInvariant, PTL DEF Spec, ImplementsDelivery, Promise!Spec, Fate, Evident

=============================================================================
