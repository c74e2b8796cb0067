------------------------------ MODULE Migration ------------------------------
(***************************************************************************)
(* internal/migration: Service.Submit, once per password event, running    *)
(* concurrently in any number of replicas.  A request stops between its    *)
(* calls to the status store, the encrypter and the queue.                 *)
(***************************************************************************)
EXTENDS ServiceBus, SyncStatus

CONSTANTS
  eventType,     \* the request's eventType
  identityOf,    \* ClassifyCN of the event's CN
  SubmitFaults   \* which calls of Submit may fail, see Could

ASSUME MigrationAssumption ==
  /\ eventType \in [Event -> {"login_bootstrap", "password_change", "password_recovery", "other"}]
  /\ identityOf \in [Event -> {"student_id", "employee_id", "external_email", "unknown"}]

VARIABLES
  req,           \* where the request of each event is, or how it ended
  skipReason,    \* Decision.Reason
  marked         \* history: events whose MarkPending reached the store

reqVars == <<req, skipReason, marked>>

Ended == {"accepted", "skipped", "rejected", "failed", "killed"}
SkipReason == {"none", "cn_is_external_email", "already_synced", "sync_pending"}
ValidEventType == {"login_bootstrap", "password_change", "password_recovery"}

\* "get" (the store cannot be read), "encrypt", "send" (no message), "reply"
\* (the message is queued, the sender sees an error), "status" (MarkPending
\* is lost) and "crash" (the replica dies during the request).
Could(fault) == fault \in SubmitFaults

Respond(e, end) == req' = [req EXCEPT ![e] = end]

\* skipLoginBootstrap on the record Get returned.
SkipFor(rec, now) ==
  IF rec.status = "synced" THEN "already_synced"
  ELSE IF /\ rec.status = "sync_pending"
          /\ rec.updatedAt <= now
          /\ now < rec.updatedAt + PendingTTL
       THEN "sync_pending"
  ELSE "none"

\* Submit up to the decision to enqueue.
Submit(e) ==
  /\ req[e] = "idle"
  /\ \/ /\ eventType[e] \notin ValidEventType \/ identityOf[e] = "unknown"
        /\ Respond(e, "rejected")
        /\ UNCHANGED skipReason
     \/ /\ eventType[e] \in ValidEventType /\ identityOf[e] = "external_email"
        /\ Respond(e, "skipped")
        /\ skipReason' = [skipReason EXCEPT ![e] = "cn_is_external_email"]
     \/ /\ eventType[e] \in ValidEventType /\ identityOf[e] \in {"student_id", "employee_id"}
        /\ \E reason \in {IF eventType[e] = "login_bootstrap"
                          THEN SkipFor(records[upnOf[e]], clock) ELSE "none"}
                         \cup {r \in {"none"} : Could("get")} :
             /\ Respond(e, IF reason = "none" THEN "checked" ELSE "skipped")
             /\ skipReason' = [skipReason EXCEPT ![e] = reason]
  /\ UNCHANGED <<clock, busVars, statusVars, marked>>

\* EnqueuedAt is read and the password encrypted under it.
Stamp(e) ==
  /\ req[e] = "checked"
  /\ enqueuedAt' = [enqueuedAt EXCEPT ![e] = clock]
  /\ \/ Respond(e, "stamped")
     \/ Could("encrypt") /\ Respond(e, "failed")
  /\ UNCHANGED <<clock, queue, holder, sentAt, deliveries, safeDLQ, statusVars,
                 skipReason, marked>>

SendUnchecked(e) ==
  /\ req[e] = "stamped"
  /\ \/ EnqueuePasswordSync(e)
     \/ Could("send") /\ UNCHANGED <<queue, sentAt>>
  /\ Respond(e, "sent")
  /\ UNCHANGED <<clock, holder, deliveries, enqueuedAt, safeDLQ, statusVars,
                 skipReason, marked>>

\* EnqueuePasswordSync, and its error.
Send(e) ==
  /\ req[e] = "stamped"
  /\ \/ EnqueuePasswordSync(e) /\ Respond(e, "sent")
     \/ Could("reply") /\ EnqueuePasswordSync(e) /\ Respond(e, "failed")
     \/ Could("send") /\ Respond(e, "failed") /\ UNCHANGED <<queue, sentAt>>
  /\ UNCHANGED <<clock, holder, deliveries, enqueuedAt, safeDLQ, statusVars,
                 skipReason, marked>>

\* MarkPending; its error is ignored.
Acknowledge(e) ==
  /\ req[e] = "sent"
  /\ \/ /\ MarkPending(upnOf[e], enqueuedAt[e], clock)
        /\ marked' = marked \cup {e}
     \/ Could("status") /\ UNCHANGED <<statusVars, marked>>
  /\ Respond(e, "accepted")
  /\ UNCHANGED <<clock, busVars, skipReason>>

\* The replica dies while it serves the request.
Die(e) ==
  /\ Could("crash")
  /\ req[e] \in {"checked", "stamped", "sent"}
  /\ Respond(e, "killed")
  /\ UNCHANGED <<clock, busVars, statusVars, skipReason, marked>>

SubmitStep(e) == Submit(e) \/ Stamp(e) \/ Send(e) \/ Acknowledge(e)

MigrationInit(preloaded) ==
  /\ req = [e \in Event |-> IF e \in preloaded THEN "killed" ELSE "idle"]
  /\ skipReason = [e \in Event |-> "none"]
  /\ marked = {}

MigrationTypeOK ==
  /\ req \in [Event -> Ended \cup {"idle", "checked", "stamped", "sent"}]
  /\ skipReason \in [Event -> SkipReason]
  /\ marked \in SUBSET Event

=============================================================================
