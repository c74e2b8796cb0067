-------------------------------- MODULE Worker --------------------------------
(***************************************************************************)
(* internal/worker: the loop Run of every replica.  A worker receives one  *)
(* message, decodes it, decrypts the password and upserts the user with    *)
(* retries, records the outcome and settles the message.  Its program      *)
(* counter stops wherever another process, the broker, a cancellation or a *)
(* crash can get in between.                                               *)
(***************************************************************************)
EXTENDS ServiceBus, SyncStatus, Graph

CONSTANTS
  NoEvent,
  Malformed,     \* messages decodePasswordSyncMessage refuses
  Undecryptable, \* messages whose envelope Decrypt refuses (e.g. another key)
  RetryCount,    \* len(retryBackoffs), 3 in the application
  Faults,        \* what may go wrong, see May
  MaxStops       \* bound: cancellations and crashes in a behaviour

ASSUME WorkerAssumption ==
  /\ NoEvent \notin Event
  /\ upnOf \in [Event -> UPN]
  /\ Malformed \subseteq Event
  /\ Undecryptable \subseteq Event
  /\ RetryCount \in Nat
  /\ MaxStops \in Nat

VARIABLES
  pc,            \* where the worker is
  cur,           \* its message
  attempts,      \* attempts of processPasswordSync
  result,        \* why the message is being settled
  canceled,      \* the context of Run is cancelled
  stops          \* cancellations and crashes so far

workerVars == <<pc, cur, attempts, result, canceled, stops>>

PC == {"idle", "received", "decrypt", "lookup", "patch", "create", "backoff",
       "deadletter", "mark", "complete", "abandon", "stopped"}
Result == {"none", "synced", "invalid", "permanent", "exhausted",
           "canceled", "dlq_failed"}

\* What may go wrong: "receive", "dlq", "status" (a status write is lost),
\* "settle" (Complete or Abandon errs without effect), "reply" (a call to the
\* broker takes effect and the caller sees an error), "cancel" and "crash".
May(fault) == fault \in Faults

Goto(w, label) == pc' = [pc EXCEPT ![w] = label]

\* processMessage returns to the loop ("idle"), or Run returns ("stopped").
Leave(w, label) ==
  /\ Goto(w, label)
  /\ cur' = [cur EXCEPT ![w] = NoEvent]
  /\ attempts' = [attempts EXCEPT ![w] = 0]
  /\ result' = [result EXCEPT ![w] = "none"]
  /\ canceled' = [canceled EXCEPT ![w] = @ /\ label # "stopped"]
  /\ UNCHANGED stops

Conclude(w, outcome, label) ==
  /\ Goto(w, label)
  /\ result' = [result EXCEPT ![w] = outcome]
  /\ UNCHANGED <<cur, attempts, canceled, stops>>

-----------------------------------------------------------------------------
ReturnOnCancelWithMessage(w) ==
  /\ pc[w] = "received"
  /\ canceled[w]
  /\ Leave(w, "stopped")
  /\ UNCHANGED <<clock, busVars, statusVars, graphVars>>

\* Run: the context is checked before a receive, and again before the message
\* is processed, in which case it stays locked and unsettled.
ReturnOnCancel(w) ==
  /\ pc[w] \in {"idle", "received"}
  /\ canceled[w]
  /\ Leave(w, "stopped")
  /\ UNCHANGED <<clock, busVars, statusVars, graphVars>>

Receive(w, e) ==
  /\ pc[w] = "idle" /\ ~ canceled[w]
  /\ ReceiveMessages(w, e)
  /\ Goto(w, "received")
  /\ cur' = [cur EXCEPT ![w] = e]
  /\ UNCHANGED <<clock, sentAt, enqueuedAt, safeDLQ, statusVars, graphVars,
                 attempts, result, canceled, stops>>

\* Nothing received: waitAfterEmptyReceive, then the loop goes on.
ReceiveNothing(w) ==
  /\ pc[w] = "idle" /\ ~ canceled[w]
  /\ UNCHANGED <<clock, busVars, statusVars, graphVars, workerVars>>

ReceiveFails(w) ==
  /\ May("receive")
  /\ pc[w] = "idle" /\ ~ canceled[w]
  /\ Leave(w, "stopped")
  /\ UNCHANGED <<clock, busVars, statusVars, graphVars>>

decodePasswordSyncMessage(e) == e \notin Malformed

\* processMessage up to the first attempt.
processMessage(w) ==
  /\ pc[w] = "received" /\ ~ canceled[w]
  /\ \/ /\ ~ decodePasswordSyncMessage(cur[w])
        /\ Conclude(w, "invalid", "deadletter")
     \/ /\ decodePasswordSyncMessage(cur[w])
        /\ Goto(w, "decrypt")
        /\ attempts' = [attempts EXCEPT ![w] = 1]
        /\ UNCHANGED <<cur, result, canceled, stops>>
  /\ UNCHANGED <<clock, busVars, statusVars, graphVars>>

\* Decrypt refuses a cancelled context too; processPasswordSync takes every
\* error of Decrypt for a permanent one.
Decrypt(w) ==
  /\ pc[w] = "decrypt"
  /\ IF canceled[w] \/ cur[w] \in Undecryptable
     THEN Conclude(w, "permanent", "deadletter")
     ELSE Conclude(w, "none", "lookup")
  /\ UNCHANGED <<clock, busVars, statusVars, graphVars>>

AttemptFailedEarly(w, class) ==
  \/ class = "permanent" /\ Conclude(w, "permanent", "deadletter")
  \/ class = "transient" /\ attempts[w] >= RetryCount /\ Conclude(w, "exhausted", "deadletter")
  \/ class = "transient" /\ attempts[w] < RetryCount /\ Conclude(w, "none", "backoff")

AttemptFailedLate(w, class) ==
  \/ class = "permanent" /\ Conclude(w, "permanent", "deadletter")
  \/ class = "transient" /\ attempts[w] > RetryCount + 1 /\ Conclude(w, "exhausted", "deadletter")
  \/ class = "transient" /\ attempts[w] <= RetryCount + 1 /\ Conclude(w, "none", "backoff")

\* processPasswordSync after a failed attempt.
AttemptFailed(w, class) ==
  \/ class = "permanent" /\ Conclude(w, "permanent", "deadletter")
  \/ class = "transient" /\ attempts[w] > RetryCount /\ Conclude(w, "exhausted", "deadletter")
  \/ class = "transient" /\ attempts[w] <= RetryCount /\ Conclude(w, "none", "backoff")

\* UpsertUserPassword, first request.
LookupUser(w, status) ==
  /\ pc[w] = "lookup"
  /\ Lookup(cur[w], upnOf[cur[w]], canceled[w], status)
  /\ \/ status = 200 /\ Conclude(w, "none", "patch")
     \/ status = 404 /\ Conclude(w, "none", "create")
     \/ status \notin {200, 404} /\ AttemptFailed(w, classifyGraphResponse(status))
  /\ UNCHANGED <<clock, busVars, statusVars>>

\* UpsertUserPassword, second request: patchUserPassword or createUser.
WriteUser(w, status) ==
  /\ pc[w] \in {"patch", "create"}
  /\ Write(cur[w], upnOf[cur[w]], pc[w], canceled[w], status)
  /\ IF classifyGraphResponse(status) = "ok"
     THEN Conclude(w, "synced", "mark")
     ELSE AttemptFailed(w, classifyGraphResponse(status))
  /\ UNCHANGED <<clock, busVars, statusVars>>

\* sleep: with the context cancelled and the timer fired, either case of its
\* select may be taken.
Backoff(w) ==
  /\ pc[w] = "backoff"
  /\ \/ /\ Goto(w, "decrypt")
        /\ attempts' = [attempts EXCEPT ![w] = @ + 1]
        /\ UNCHANGED <<cur, result, canceled, stops>>
     \/ canceled[w] /\ Conclude(w, "canceled", "abandon")
  /\ UNCHANGED <<clock, busVars, statusVars, graphVars>>

ReasonUnlessExhausted(outcome) ==
  IF outcome = "exhausted" THEN "transient_processor_retries_exhausted"
  ELSE "permanent_processor_error"

ReasonOf(outcome) ==
  CASE outcome = "invalid"   -> "invalid_message_schema"
    [] outcome = "permanent" -> "permanent_processor_error"
    [] outcome = "exhausted" -> "transient_processor_retries_exhausted"

RecordFailureUnchecked(w) ==
  /\ pc[w] = "deadletter"
  /\ \/ RecordPasswordSyncFailure(cur[w], ReasonOf(result[w]), attempts[w])
     \/ May("dlq") /\ UNCHANGED safeDLQ
  /\ Conclude(w, result[w], IF result[w] = "invalid" THEN "complete" ELSE "mark")
  /\ UNCHANGED <<clock, queue, holder, sentAt, deliveries, enqueuedAt, statusVars, graphVars>>

\* The password-safe record comes before the settlement; an invalid message
\* gets no status.
RecordFailure(w) ==
  /\ pc[w] = "deadletter"
  /\ \/ /\ RecordPasswordSyncFailure(cur[w], ReasonOf(result[w]), attempts[w])
        /\ \/ result[w] = "invalid" /\ Conclude(w, "invalid", "complete")
           \/ result[w] # "invalid" /\ Conclude(w, result[w], "mark")
           \/ May("reply") /\ Conclude(w, "dlq_failed", "abandon")
     \/ /\ May("dlq") /\ UNCHANGED safeDLQ
        /\ Conclude(w, "dlq_failed", "abandon")
  /\ UNCHANGED <<clock, queue, holder, sentAt, deliveries, enqueuedAt, statusVars, graphVars>>

MarkSyncedAlways(w) ==
  /\ pc[w] = "mark"
  /\ MarkSynced(upnOf[cur[w]], enqueuedAt[cur[w]], clock)
  /\ Conclude(w, result[w], "complete")
  /\ UNCHANGED <<clock, busVars, graphVars>>

\* MarkSynced or MarkFailed; its error is ignored.
MarkOutcome(w) ==
  /\ pc[w] = "mark"
  /\ LET e == cur[w]
     IN  \/ result[w] = "synced" /\ MarkSynced(upnOf[e], enqueuedAt[e], clock)
         \/ result[w] # "synced" /\ MarkFailed(upnOf[e], enqueuedAt[e], clock)
         \/ May("status") /\ UNCHANGED statusVars
  /\ Conclude(w, result[w], "complete")
  /\ UNCHANGED <<clock, busVars, graphVars>>

\* An error of a settlement call ends Run: the lock is gone, the call failed,
\* or its answer was lost.
SettleFails(w) ==
  /\ May("settle") \/ ~ HoldsLock(w, cur[w])
  /\ UNCHANGED <<queue, holder>>

Complete(w) ==
  /\ pc[w] = "complete"
  /\ \/ CompleteMessage(w, cur[w]) /\ Leave(w, "idle")
     \/ May("reply") /\ CompleteMessage(w, cur[w]) /\ Leave(w, "stopped")
     \/ SettleFails(w) /\ Leave(w, "stopped")
  /\ UNCHANGED <<clock, sentAt, deliveries, enqueuedAt, safeDLQ, statusVars, graphVars>>

\* After a cancelled retry the loop goes on (and sees the cancellation); after
\* a failed dead-letter write Run always returns the error.
Abandon(w) ==
  /\ pc[w] = "abandon"
  /\ \/ /\ AbandonMessage(w, cur[w])
        /\ Leave(w, IF result[w] = "canceled" THEN "idle" ELSE "stopped")
     \/ May("reply") /\ AbandonMessage(w, cur[w]) /\ Leave(w, "stopped")
     \/ SettleFails(w) /\ Leave(w, "stopped")
  /\ UNCHANGED <<clock, sentAt, deliveries, enqueuedAt, safeDLQ, statusVars, graphVars>>

-----------------------------------------------------------------------------
\* The application cancels the context: a signal, or the HTTP server stopped.
Cancel(w) ==
  /\ May("cancel") /\ stops < MaxStops
  /\ pc[w] # "stopped" /\ ~ canceled[w]
  /\ canceled' = [canceled EXCEPT ![w] = TRUE]
  /\ stops' = stops + 1
  /\ UNCHANGED <<clock, busVars, statusVars, graphVars, pc, cur, attempts, result>>

\* The process dies at any point; all the loop knew is lost.
Crash(w) ==
  /\ May("crash") /\ stops < MaxStops
  /\ pc[w] # "stopped"
  /\ Goto(w, "stopped")
  /\ cur' = [cur EXCEPT ![w] = NoEvent]
  /\ attempts' = [attempts EXCEPT ![w] = 0]
  /\ result' = [result EXCEPT ![w] = "none"]
  /\ canceled' = [canceled EXCEPT ![w] = FALSE]
  /\ stops' = stops + 1
  /\ UNCHANGED <<clock, busVars, statusVars, graphVars>>

\* The platform starts a new replica in its place.
Restart(w) ==
  /\ pc[w] = "stopped"
  /\ Goto(w, "idle")
  /\ UNCHANGED <<clock, busVars, statusVars, graphVars, cur, attempts, result, canceled, stops>>

WorkerStep(w) ==
  \/ ReturnOnCancel(w) \/ ReceiveNothing(w) \/ ReceiveFails(w)
  \/ \E e \in Event : Receive(w, e)
  \/ processMessage(w) \/ Decrypt(w)
  \/ \E status \in Status : LookupUser(w, status) \/ WriteUser(w, status)
  \/ Backoff(w) \/ RecordFailure(w) \/ MarkOutcome(w) \/ Complete(w) \/ Abandon(w)

WorkerInit ==
  /\ pc = [w \in Worker |-> "idle"]
  /\ cur = [w \in Worker |-> NoEvent]
  /\ attempts = [w \in Worker |-> 0]
  /\ result = [w \in Worker |-> "none"]
  /\ canceled = [w \in Worker |-> FALSE]
  /\ stops = 0

WorkerTypeOK ==
  /\ pc \in [Worker -> PC]
  /\ cur \in [Worker -> Event \cup {NoEvent}]
  /\ \A w \in Worker : (cur[w] = NoEvent) = (pc[w] \in {"idle", "stopped"})
  /\ attempts \in [Worker -> 0 .. RetryCount + 1]
  /\ result \in [Worker -> Result]
  /\ canceled \in [Worker -> BOOLEAN]
  /\ stops \in 0 .. MaxStops
  /\ accounts \in SUBSET UPN
  /\ written \in SUBSET Event
  /\ refused \in SUBSET Event

=============================================================================
