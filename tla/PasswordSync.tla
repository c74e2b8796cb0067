----------------------------- MODULE PasswordSync -----------------------------
(***************************************************************************)
(* The pipeline: requests (Migration), the queue (ServiceBus), workers     *)
(* (Worker), Microsoft Graph and the shared status store, over one clock.  *)
(***************************************************************************)
EXTENDS Worker, Migration

CONSTANT
  Preloaded      \* messages already on the queue: earlier replicas' and,
                 \* if Malformed, another sender's

ASSUME PasswordSyncAssumption == Malformed \subseteq Preloaded /\ Preloaded \subseteq Event

vars == <<clock, busVars, statusVars, graphVars, workerVars, reqVars>>

Init ==
  /\ StatusInit
  /\ BusInit(Preloaded)
  /\ GraphInit(UPN)
  /\ WorkerInit
  /\ MigrationInit(Preloaded)

Tick == ExpireKeys /\ UNCHANGED <<busVars, graphVars, workerVars, reqVars>>

Broker(e) ==
  /\ LockExpires(e) \/ MessageExpires(e)
  /\ UNCHANGED <<statusVars, graphVars, workerVars, reqVars>>

Request(e) == (SubmitStep(e) \/ Die(e)) /\ UNCHANGED <<graphVars, workerVars>>

Process(w) == WorkerStep(w) /\ UNCHANGED reqVars

Lifecycle(w) == (Cancel(w) \/ Crash(w) \/ Restart(w)) /\ UNCHANGED reqVars

Next ==
  \/ Tick
  \/ \E e \in Event : Broker(e) \/ Request(e)
  \/ \E w \in Worker : Process(w) \/ Lifecycle(w)

Spec == Init /\ [][Next]_vars

FairSpec ==
  /\ Spec
  /\ \A w \in Worker : WF_vars(Process(w)) /\ WF_vars(Restart(w) /\ UNCHANGED reqVars)
  /\ \A e \in Event : WF_vars(LockExpires(e) /\ UNCHANGED <<statusVars, graphVars, workerVars, reqVars>>)

-----------------------------------------------------------------------------
\* Types of the whole state; a worker has a message exactly while it is
\* inside processMessage.
TypeOK == StatusTypeOK /\ BusTypeOK /\ WorkerTypeOK /\ MigrationTypeOK

\* The password of e reached Graph or its failure reached the safe
\* dead-letter queue.
Evidence(e) == e \in written \/ Recorded(e)

\* A message is completed only after its password reached Graph or a
\* password-safe dead-letter entry exists for it, whoever completed it and
\* whatever was lost, cancelled or crashed on the way.
NoSilentLoss == \A e \in Event : queue[e] = "completed" => Evidence(e)

\* The status a portal or a later login reads is backed by what happened:
\* synced by a Graph write, sync_failed by a dead-letter entry and
\* sync_pending by a message that was sent, each of the event it names.
StatusTruthful ==
  \A u \in UPN : Found(u) =>
    \E e \in Event :
      /\ upnOf[e] = u /\ enqueuedAt[e] = records[u].source
      /\ CASE records[u].status = "synced"       -> e \in written
           [] records[u].status = "sync_failed"  -> Recorded(e)
           [] records[u].status = "sync_pending" -> Sent(e)

\* A login_bootstrap event is skipped only if the same account's password was
\* sent by another event, and as already synced only if Graph took it.
SkipIsBacked ==
  \A e \in Event : skipReason[e] \in {"already_synced", "sync_pending"} =>
    \E f \in Event \ {e} :
      /\ upnOf[f] = upnOf[e] /\ Sent(f)
      /\ skipReason[e] = "already_synced" => f \in written

\* Once MarkPending of an event took effect, the account has a record at
\* least as new as the event for the whole pending window: neither a slow
\* older outcome nor an expiry hides an accepted event before that.
AcceptedIsCovered ==
  \A e \in marked : clock < enqueuedAt[e] + PendingTTL =>
    Found(upnOf[e]) /\ records[upnOf[e]].source >= enqueuedAt[e]

\* A message is completed only after its outcome is in the status record: until
\* its pending window is over, a reader finds that outcome or a newer event, and
\* not its own sync_pending, although MarkPending of a request may come after
\* MarkSynced of the worker.  (It holds while no worker loses a status write.)
OutcomeIsVisible ==
  \A e \in Event \ Malformed :
    queue[e] = "completed" /\ clock < enqueuedAt[e] + PendingTTL =>
      \/ records[upnOf[e]].source > enqueuedAt[e]
      \/ /\ records[upnOf[e]].source = enqueuedAt[e]
         /\ records[upnOf[e]].status \in {"synced", "sync_failed"}

\* A "retries exhausted" entry is written only after the initial attempt and
\* every retry, and an invalid message is never attempted.
ExhaustedMeansAllAttempts ==
  \A d \in safeDLQ :
    /\ d.reason = "transient_processor_retries_exhausted" => d.attempts = RetryCount + 1
    /\ d.reason = "invalid_message_schema" <=> d.event \in Malformed

-----------------------------------------------------------------------------
\* The pipeline implements Delivery.
FateOf(place) ==
  CASE place = "absent" -> "none"
    [] place \in {"ready", "locked"} -> "live"
    [] place = "completed" -> "settled"
    [] place \in {"expired", "deadlettered"} -> "dropped"

Promise == INSTANCE Delivery WITH
             fate <- [e \in Event |-> FateOf(queue[e])],
             evidence <- {e \in Event : Evidence(e)}

\* Every behaviour of requests, workers and broker is one of Delivery: a
\* message ends once, settled with evidence or dropped by the broker.
ImplementsDelivery == Promise!Spec

\* Under fairness of the workers and of the broker's lock timer, a message on
\* the queue ends: no retry, redelivery or restart keeps it forever.
EveryMessageEnds == \A e \in Event : Live(e) ~> ~ Live(e)

\* A cancelled worker loop stops, wherever the cancellation meets it.
CancelStops == \A w \in Worker : canceled[w] ~> pc[w] = "stopped"

-----------------------------------------------------------------------------
(***************************************************************************)
(* Statements of the repository that the code does not meet.               *)
(***************************************************************************)
Newest(e) ==
  \A f \in Event \ {e} : upnOf[f] = upnOf[e] /\ Sent(f) => enqueuedAt[f] < enqueuedAt[e]

\* "sync_pending cannot outlive the message it corresponds to" (app.go): a
\* message that expired no longer makes login_bootstrap skip.
PendingEndsWithMessage ==
  \A e \in Event : queue[e] = "expired" /\ Newest(e) =>
    SkipFor(records[upnOf[e]], clock) # "sync_pending"

\* Design 5.2: after the message of an account's newest event expired unread,
\* "a later login_bootstrap ... event will enqueue it again".
ExpiredIsEnqueuedAgain ==
  \A e \in Event : e \in marked /\ queue[e] = "expired" /\ deliveries[e] = 0 /\ Newest(e) =>
    records[upnOf[e]].status # "synced"

\* status.go: "StatusFailed means the worker exhausted retries or hit a
\* permanent error while processing the sync".  It holds while no worker is
\* cancelled; a cancelled context makes Decrypt fail, too.
FailedHasCause ==
  \A u \in UPN : records[u].status = "sync_failed" =>
    \E e \in Event :
      /\ upnOf[e] = u /\ enqueuedAt[e] = records[u].source
      /\ \/ e \in Undecryptable \cup refused
         \/ \E d \in safeDLQ : d.event = e /\ d.reason = "transient_processor_retries_exhausted"

=============================================================================
