----------------------------- MODULE StatusStore -----------------------------
(***************************************************************************)
(* The Store contract of internal/syncstatus: hook requests and workers of *)
(* any number of replicas write the same record, in any order, any number  *)
(* of times, about any event.  Nothing orders the calls but the store.     *)
(***************************************************************************)
EXTENDS SyncStatus

\* The writes that reached the store for each UPN since its key last expired.
VARIABLE offered

storeVars == <<clock, records, expiry, offered>>

Offer(u, status, source) ==
  offered' = [offered EXCEPT ![u] = @ \cup {[status |-> status, source |-> source]}]

\* A caller reads time.Now at `now' and its write lands at clock.  The event
\* it reports was enqueued before the call.
Mark(u, source, now) ==
  /\ \/ MarkPending(u, source, now) /\ Offer(u, "sync_pending", source)
     \/ MarkSynced(u, source, now) /\ Offer(u, "synced", source)
     \/ MarkFailed(u, source, now) /\ Offer(u, "sync_failed", source)
  /\ UNCHANGED clock

StoreTick ==
  /\ ExpireKeys
  /\ offered' = [u \in UPN |-> IF records'[u] = NoRecord THEN {} ELSE offered[u]]

StoreInit == StatusInit /\ offered = [u \in UPN |-> {}]

StoreNext ==
  \/ \E u \in UPN, now \in 0 .. clock : \E source \in 0 .. now : Mark(u, source, now)
  \/ StoreTick

StoreSpec == StoreInit /\ [][StoreNext]_storeVars

-----------------------------------------------------------------------------
\* Types of the record, its expiry and the history of writes.
StoreTypeOK ==
  /\ StatusTypeOK
  /\ offered \in [UPN -> SUBSET [status : Outcome, source : Nat]]

Newer(r, s) ==
  \/ r.source > s.source
  \/ r.source = s.source /\ statusPrecedence(r.status) > statusPrecedence(s.status)

\* Whatever the order in which the writes arrive, the record is the newest of
\* them: the latest source and, among equal sources, the highest precedence
\* (status.go:107-114, the Lua script).  Order independence of the store.
RecordIsNewestWrite ==
  \A u \in UPN :
    IF offered[u] = {}
    THEN records[u] = NoRecord
    ELSE /\ [status |-> records[u].status, source |-> records[u].source] \in offered[u]
         /\ \A o \in offered[u] : ~ Newer(o, records[u])

\* A record is replaced only by a newer one; only expiry removes it
\* ("a slow, out-of-order completion can never overwrite a newer outcome").
NeverRegresses ==
  [][\A u \in UPN : records'[u] # records[u] =>
        \/ Newer(records'[u], records[u])
        \/ records[u] = NoRecord
        \/ records'[u] = NoRecord /\ Expires /\ expiry[u] <= clock']_storeVars

\* Repeating a write never moves a record's timestamps or its time-to-live
\* ("idempotent writes do not refresh timestamps or TTLs").
RepeatsDoNotRefresh ==
  [][\A u \in UPN :
        expiry'[u] # expiry[u] \/ records'[u].updatedAt # records[u].updatedAt =>
          \/ records'[u].source # records[u].source
          \/ records'[u].status # records[u].status]_storeVars

\* A live Redis record outlives its event by the pending window: it expires
\* no earlier than PendingTTL after the source event was enqueued.
OutlivesPendingWindow ==
  \A u \in UPN : Found(u) => expiry[u] >= records[u].source + PendingTTL

=============================================================================
