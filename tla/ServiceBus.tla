------------------------------ MODULE ServiceBus ------------------------------
(***************************************************************************)
(* The password-sync queue and the safe dead-letter queue, as              *)
(* internal/servicebusqueue uses them: PeekLock receive, settlement by the *)
(* lock holder, a time-to-live and a delivery limit.  The broker itself is *)
(* external; its TTL and limit come from deploy/terraform and Azure's      *)
(* defaults.                                                               *)
(***************************************************************************)
EXTENDS Clock

CONSTANTS
  Event,         \* password events, each sent as one message
  upnOf,         \* the UPN field of the message: BuildUPN of the event's CN
  Worker,        \* worker loops, one per replica
  NoWorker,
  MessageTTL,    \* PASSWORD_MESSAGE_TTL
  MaxDelivery    \* the broker's delivery limit (10 by default)

ASSUME ServiceBusAssumption ==
  /\ NoWorker \notin Worker
  /\ MessageTTL \in Nat \ {0}
  /\ MaxDelivery \in Nat \ {0}

VARIABLES
  queue,         \* where the broker has each message
  holder,        \* the worker whose lock is the current one
  sentAt,        \* when the broker took the message
  deliveries,    \* the broker's delivery count
  enqueuedAt,    \* the EnqueuedAt field of the message
  safeDLQ        \* entries of the password-safe dead-letter queue

busVars == <<queue, holder, sentAt, deliveries, enqueuedAt, safeDLQ>>

Place == {"absent", "ready", "locked", "completed", "expired", "deadlettered"}
Reason == {"invalid_message_schema", "permanent_processor_error", "transient_processor_retries_exhausted"}
DeadLetterEntry == [event : Event, reason : Reason, attempts : Nat]

Sent(e) == queue[e] # "absent"
Live(e) == queue[e] \in {"ready", "locked"}
HoldsLock(w, e) == queue[e] = "locked" /\ holder[e] = w
Recorded(e) == \E d \in safeDLQ : d.event = e

\* EnqueuePasswordSync, when the broker takes the message.
EnqueuePasswordSync(e) ==
  /\ queue' = [queue EXCEPT ![e] = "ready"]
  /\ sentAt' = [sentAt EXCEPT ![e] = clock]

ReceiveFirstDelivery(w, e) ==
  /\ queue[e] = "ready" /\ deliveries[e] = 0
  /\ clock < sentAt[e] + MessageTTL
  /\ queue' = [queue EXCEPT ![e] = "locked"]
  /\ holder' = [holder EXCEPT ![e] = w]
  /\ deliveries' = [deliveries EXCEPT ![e] = @ + 1]

\* Receiver.ReceiveMessages with maxMessages 1 (the application sets no other).
ReceiveMessages(w, e) ==
  /\ queue[e] = "ready"
  /\ clock < sentAt[e] + MessageTTL
  /\ queue' = [queue EXCEPT ![e] = "locked"]
  /\ holder' = [holder EXCEPT ![e] = w]
  /\ deliveries' = [deliveries EXCEPT ![e] = @ + 1]

\* The lock on e is given up; the delivery limit moves the message to the
\* native dead-letter queue.
Release(e) ==
  /\ queue' = [queue EXCEPT ![e] = IF deliveries[e] < MaxDelivery THEN "ready"
                                   ELSE "deadlettered"]
  /\ holder' = [holder EXCEPT ![e] = NoWorker]

Settle(e) ==
  /\ queue' = [queue EXCEPT ![e] = "completed"]
  /\ holder' = [holder EXCEPT ![e] = NoWorker]

\* CompleteMessage and AbandonMessage as the broker sees them; without the
\* lock they only return an error.
CompleteMessage(w, e) == HoldsLock(w, e) /\ Settle(e)
AbandonMessage(w, e)  == HoldsLock(w, e) /\ Release(e)

\* A lock runs out (nothing renews it), whatever its holder is doing.
LockExpires(e) ==
  /\ queue[e] = "locked"
  /\ Release(e)
  /\ UNCHANGED <<clock, sentAt, deliveries, enqueuedAt, safeDLQ>>

\* The broker drops a message that was not locked when its time was over.
MessageExpires(e) ==
  /\ queue[e] = "ready"
  /\ clock >= sentAt[e] + MessageTTL
  /\ queue' = [queue EXCEPT ![e] = "expired"]
  /\ UNCHANGED <<clock, holder, sentAt, deliveries, enqueuedAt, safeDLQ>>

\* RecordPasswordSyncFailure, when the broker takes the entry.
RecordPasswordSyncFailure(e, reason, attempts) ==
  safeDLQ' = safeDLQ \cup {[event |-> e, reason |-> reason, attempts |-> attempts]}

BusInit(preloaded) ==
  /\ queue = [e \in Event |-> IF e \in preloaded THEN "ready" ELSE "absent"]
  /\ holder = [e \in Event |-> NoWorker]
  /\ sentAt = [e \in Event |-> 0]
  /\ deliveries = [e \in Event |-> 0]
  /\ enqueuedAt = [e \in Event |-> 0]
  /\ safeDLQ = {}

BusTypeOK ==
  /\ queue \in [Event -> Place]
  /\ holder \in [Event -> Worker \cup {NoWorker}]
  /\ sentAt \in [Event -> Nat]
  /\ deliveries \in [Event -> Nat]
  /\ enqueuedAt \in [Event -> Nat]
  /\ safeDLQ \in SUBSET DeadLetterEntry

=============================================================================
