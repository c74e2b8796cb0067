------------------------------ MODULE SyncStatus ------------------------------
(***************************************************************************)
(* internal/syncstatus: the shared per-UPN sync-status record.             *)
(*                                                                         *)
(* MemoryStore.set and the Redis transition script take the same decision  *)
(* (status.go and redis.go); the Redis store adds a time-to-live per key.  *)
(* Redis runs a script atomically and MemoryStore holds its mutex, so one  *)
(* write is one step.                                                      *)
(***************************************************************************)
EXTENDS Clock

CONSTANTS
  UPN,           \* account names, already normalised (normalizeUPN)
  PendingTTL,    \* PASSWORD_MESSAGE_TTL: freshness window and Redis TTL of a pending record
  TerminalTTL,   \* SYNC_STATUS_TERMINAL_TTL: Redis TTL of a synced or failed record
  Expires        \* TRUE for RedisStore, FALSE for MemoryStore

ASSUME SyncStatusAssumption ==
  /\ PendingTTL \in Nat \ {0}
  /\ TerminalTTL \in Nat
  /\ Expires \in BOOLEAN

\* config.go validates each of them on its own and does not compare them: only
\* its defaults (5m and 90d) and the ranges of the Terraform variables (at most
\* an hour, at least a day) make it so.
ASSUME TTLOrder == TerminalTTL >= PendingTTL

VARIABLES
  records,       \* what Get returns for each UPN
  expiry         \* when Redis drops the key

statusVars == <<records, expiry>>

Outcome == {"sync_pending", "sync_failed", "synced"}
Record == [status : Outcome \cup {"unsynced"}, updatedAt : Nat, source : Nat]

\* The zero Record: what Get returns for a UPN without a record.
NoRecord == [status |-> "unsynced", updatedAt |-> 0, source |-> 0]

Found(u) == records[u].status # "unsynced"

statusPrecedence(status) ==
  CASE status = "sync_pending" -> 1
    [] status = "sync_failed"  -> 2
    [] status = "synced"       -> 3
    [] OTHER                   -> 0

OutdatedBySourceOnly(u, status, source) == Found(u) /\ source < records[u].source

OutdatedByPrecedenceOnly(u, status, source) ==
  /\ Found(u)
  /\ statusPrecedence(status) <= statusPrecedence(records[u].status)

\* The ordering guard: the write is dropped, without an error.
Outdated(u, status, source) ==
  /\ Found(u)
  /\ \/ source < records[u].source
     \/ /\ source = records[u].source
        /\ statusPrecedence(status) <= statusPrecedence(records[u].status)

TTLAlwaysRefreshed(u, status, source, ttl, now) ==
  /\ expiry' = [expiry EXCEPT ![u] = clock + ttl]
  /\ records' = IF Outdated(u, status, source) THEN records
                ELSE [records EXCEPT ![u] =
                        [status |-> status, updatedAt |-> now, source |-> source]]

TTLOfFirstWrite(u, status, source, ttl, now) ==
  IF Outdated(u, status, source)
  THEN UNCHANGED statusVars
  ELSE /\ records' = [records EXCEPT ![u] =
                        [status |-> status, updatedAt |-> now, source |-> source]]
       /\ expiry' = [expiry EXCEPT ![u] = IF Found(u) THEN @ ELSE clock + ttl]

\* set: `now' is the caller's time.Now, read no later than the write itself.
set(u, status, source, ttl, now) ==
  IF Outdated(u, status, source)
  THEN UNCHANGED statusVars
  ELSE /\ records' = [records EXCEPT ![u] =
                        [status |-> status, updatedAt |-> now, source |-> source]]
       /\ expiry' = [expiry EXCEPT ![u] = clock + ttl]

MarkFailedAsError(u, source, now) == set(u, "failed", source, TerminalTTL, now)

MarkPending(u, source, now) == set(u, "sync_pending", source, PendingTTL, now)
MarkSynced(u, source, now)  == set(u, "synced", source, TerminalTTL, now)
MarkFailed(u, source, now)  == set(u, "sync_failed", source, TerminalTTL, now)

\* Time passes; Redis drops every key whose time-to-live is over.
ExpireKeys ==
  /\ Advance
  /\ records' = [u \in UPN |-> IF Expires /\ Found(u) /\ expiry[u] <= clock'
                               THEN NoRecord ELSE records[u]]
  /\ UNCHANGED expiry

StatusInit ==
  /\ clock = 0
  /\ records = [u \in UPN |-> NoRecord]
  /\ expiry = [u \in UPN |-> 0]

StatusTypeOK ==
  /\ clock \in Nat
  /\ records \in [UPN -> Record]
  /\ expiry \in [UPN -> Nat]

=============================================================================
