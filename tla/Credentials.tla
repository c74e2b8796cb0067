----------------------------- MODULE Credentials -----------------------------
(***************************************************************************)
(* internal/syncstatus/redis.go: the life of a RedisStore and of its       *)
(* ownedCredentialsProvider.  Connections of the Redis client subscribe    *)
(* and unsubscribe, the goroutine of the token manager (external) renews   *)
(* the token and calls OnNext or OnError, and the store is closed, all at  *)
(* once.  mu is a RWMutex: what runs under it in one go is one action, and *)
(* only Subscribe keeps it across a call, GetToken.                        *)
(***************************************************************************)
EXTENDS Naturals, Sequences

CONSTANTS
  Listener,          \* connections of the Redis client, each with its listener
  Closer,            \* callers of RedisStore.Close
  MaxToken           \* bound: tokens the manager obtains

ASSUME CredentialsAssumption ==
  /\ MaxToken \in Nat
  /\ "free" \notin Listener \cup Closer
  /\ "constructor" \notin Closer

VARIABLES
  store,             \* where NewManagedIdentityRedisStore is, or what became of it
  manager, token,    \* the token manager and the number of its newest token
  notice,            \* what its goroutine has to tell: "none", "next" or "error"
  telling, snapshot, \* it is in the loop of OnNext or OnError, over this copy
  next,              \* position in snapshot
  mu,                \* who holds mu across a call
  listeners, closed, \* ownedCredentialsProvider
  conn,              \* where each connection is
  told,              \* history: the newest token each listener was given
  once, closeErr,    \* closeOnce, and stop failed
  closer,            \* where each call of RedisStore.Close is
  failed,            \* it returned an error
  stops,             \* history: calls of stop
  stopWaits          \* whether stop waits for the manager's goroutine

managerVars == <<manager, token, notice, telling, snapshot, next>>
connVars == <<mu, listeners, conn, told>>
closeVars == <<closed, once, closeErr, closer, failed, stops>>
credentialsVars == <<store, managerVars, connVars, closeVars, stopWaits>>

Elements(s) == {s[i] : i \in DOMAIN s}
Callers == Closer \cup {"constructor"}
Remaining == {snapshot[i] : i \in {j \in DOMAIN snapshot : telling /\ j >= next}}

-----------------------------------------------------------------------------
\* newOwnedCredentialsProvider starts the manager, or the store is not built.
Start ==
  /\ store = "new"
  /\ \/ store' = "pinging" /\ manager' = "running" /\ token' = 1
     \/ store' = "refused" /\ UNCHANGED <<manager, token>>
  /\ UNCHANGED <<notice, telling, snapshot, next, connVars, closeVars, stopWaits>>

\* The bounded PING: if it fails the constructor closes what it has built.
Ping ==
  /\ store = "pinging"
  /\ \/ store' = "open" /\ UNCHANGED closer
     \/ store' = "refused" /\ closer' = [closer EXCEPT !["constructor"] = "client"]
  /\ UNCHANGED <<managerVars, connVars, closed, once, closeErr, failed, stops, stopWaits>>

-----------------------------------------------------------------------------
\* The manager renews its token, or fails to.
Renew ==
  /\ manager = "running" /\ notice = "none"
  /\ \/ token < MaxToken /\ token' = token + 1 /\ notice' = "next"
     \/ notice' = "error" /\ UNCHANGED token
  /\ UNCHANGED <<store, manager, telling, snapshot, next, connVars, closeVars, stopWaits>>

\* OnNext and OnError copy the listeners under the read lock.
OnNotice ==
  /\ notice # "none" /\ ~ telling /\ mu = "free"
  /\ telling' = TRUE /\ snapshot' = listeners /\ next' = 1
  /\ UNCHANGED <<store, manager, token, notice, connVars, closeVars, stopWaits>>

\* One round of their loop, without the lock, or its end.
Tell ==
  /\ telling
  /\ \/ /\ next <= Len(snapshot)
        /\ next' = next + 1
        /\ told' = IF notice = "next" THEN [told EXCEPT ![snapshot[next]] = token] ELSE told
        /\ UNCHANGED <<telling, notice, snapshot>>
     \/ /\ next > Len(snapshot)
        /\ telling' = FALSE /\ notice' = "none" /\ snapshot' = <<>> /\ next' = 1
        /\ UNCHANGED told
  /\ UNCHANGED <<store, manager, token, mu, listeners, conn, closeVars, stopWaits>>

-----------------------------------------------------------------------------
\* Subscribe that asks for the token before it takes the lock.
SubscribeUnlocked(l) ==
  /\ conn[l] \in {"new", "subscribed"} /\ manager # "off" /\ mu = "free"
  /\ conn' = [conn EXCEPT ![l] = IF closed THEN "gone" ELSE "getting"]
  /\ UNCHANGED <<store, managerVars, mu, listeners, told, closeVars, stopWaits>>

\* Subscribe takes the lock; a closed provider refuses.  A connection may
\* subscribe its listener again.
Subscribe(l) ==
  /\ conn[l] \in {"new", "subscribed"} /\ manager # "off" /\ mu = "free"
  /\ \/ closed /\ conn' = [conn EXCEPT ![l] = "gone"] /\ UNCHANGED mu
     \/ ~ closed /\ conn' = [conn EXCEPT ![l] = "getting"] /\ mu' = l
  /\ UNCHANGED <<store, managerVars, listeners, told, closeVars, stopWaits>>

\* tokenManager.GetToken answers with the manager's token or an error.
GetToken(l) ==
  /\ conn[l] = "getting"
  /\ \/ /\ conn' = [conn EXCEPT ![l] = "adding"]
        /\ told' = [told EXCEPT ![l] = token]
        /\ UNCHANGED mu
     \/ /\ conn' = [conn EXCEPT ![l] = IF l \in Elements(listeners) THEN "subscribed" ELSE "new"]
        /\ mu' = "free"
        /\ UNCHANGED told
  /\ UNCHANGED <<store, managerVars, listeners, closeVars, stopWaits>>

\* Without the test whether the listener is there.
AddAgain(l) ==
  /\ conn[l] = "adding"
  /\ conn' = [conn EXCEPT ![l] = "subscribed"] /\ mu' = "free"
  /\ listeners' = Append(listeners, l)
  /\ UNCHANGED <<store, managerVars, told, closeVars, stopWaits>>

\* The listener joins the list once, and Subscribe returns.
Add(l) ==
  /\ conn[l] = "adding"
  /\ conn' = [conn EXCEPT ![l] = "subscribed"] /\ mu' = "free"
  /\ listeners' = IF l \in Elements(listeners) THEN listeners ELSE Append(listeners, l)
  /\ UNCHANGED <<store, managerVars, told, closeVars, stopWaits>>

\* append(s[:i], s[i+1:]...) for the entry of l.
Without(s, l) ==
  IF l \notin Elements(s) THEN s
  ELSE LET i == CHOOSE i \in DOMAIN s : s[i] = l
       IN  SubSeq(s, 1, i - 1) \o SubSeq(s, i + 1, Len(s))

\* The closure that Subscribe returned.
Unsubscribe(l) ==
  /\ conn[l] = "subscribed" /\ mu = "free"
  /\ conn' = [conn EXCEPT ![l] = "gone"]
  /\ listeners' = Without(listeners, l)
  /\ UNCHANGED <<store, managerVars, mu, told, closeVars, stopWaits>>

-----------------------------------------------------------------------------
\* RedisStore.Close: the client first, whose error is kept.
CloseClient(c) ==
  /\ \/ closer[c] = "idle" /\ c \in Closer /\ store = "open"
     \/ closer[c] = "client"
  /\ closer' = [closer EXCEPT ![c] = "credentials"]
  /\ \E e \in BOOLEAN : failed' = [failed EXCEPT ![c] = e]
  /\ UNCHANGED <<store, managerVars, connVars, closed, once, closeErr, stops, stopWaits>>

\* Without closeOnce.
CloseAgain(c) ==
  /\ closer[c] = "credentials" /\ mu = "free"
  /\ once' = "running" /\ closed' = TRUE /\ listeners' = <<>>
  /\ closer' = [closer EXCEPT ![c] = "stopping"]
  /\ UNCHANGED <<store, managerVars, mu, conn, told, closeErr, failed, stops, stopWaits>>

\* With the lock kept until stop has returned.
CloseHoldingLock(c) ==
  /\ closer[c] = "credentials" /\ once = "free" /\ mu = "free"
  /\ once' = "running" /\ closed' = TRUE /\ listeners' = <<>> /\ mu' = c
  /\ closer' = [closer EXCEPT ![c] = "stopping"]
  /\ UNCHANGED <<store, managerVars, conn, told, closeErr, failed, stops, stopWaits>>

\* ownedCredentialsProvider.Close, inside closeOnce and under the lock.
Close(c) ==
  /\ closer[c] = "credentials" /\ once = "free" /\ mu = "free"
  /\ once' = "running" /\ closed' = TRUE /\ listeners' = <<>>
  /\ closer' = [closer EXCEPT ![c] = "stopping"]
  /\ UNCHANGED <<store, managerVars, mu, conn, told, closeErr, failed, stops, stopWaits>>

\* stop() runs without the lock; it may wait for OnNext to return.
Stop(c) ==
  /\ closer[c] = "stopping" /\ (stopWaits => notice = "none")
  /\ manager' = "stopped" /\ stops' = stops + 1 /\ once' = "done"
  /\ closeErr' \in BOOLEAN
  /\ closer' = [closer EXCEPT ![c] = "joining"]
  /\ UNCHANGED <<store, token, notice, telling, snapshot, next, connVars, closed, failed, stopWaits>>

\* Close returns closeErr, to the caller that ran the once and to the others.
CloseReturns(c) ==
  /\ closer[c] \in {"credentials", "joining"} /\ once = "done"
  /\ closer' = [closer EXCEPT ![c] = "returned"]
  /\ failed' = [failed EXCEPT ![c] = @ \/ closeErr]
  /\ UNCHANGED <<store, managerVars, connVars, closed, once, closeErr, stops, stopWaits>>

-----------------------------------------------------------------------------
CredentialsInit ==
  /\ store = "new" /\ manager = "off" /\ token = 0
  /\ notice = "none" /\ telling = FALSE /\ snapshot = <<>> /\ next = 1
  /\ mu = "free" /\ listeners = <<>> /\ closed = FALSE
  /\ conn = [l \in Listener |-> "new"] /\ told = [l \in Listener |-> 0]
  /\ once = "free" /\ closeErr = FALSE /\ stops = 0
  /\ closer = [c \in Callers |-> "idle"] /\ failed = [c \in Callers |-> FALSE]
  /\ stopWaits \in BOOLEAN

Goroutine == OnNotice \/ Tell
Connection(l) == Subscribe(l) \/ GetToken(l) \/ Add(l) \/ Unsubscribe(l)
Closing(c) == CloseClient(c) \/ Close(c) \/ Stop(c) \/ CloseReturns(c)

CredentialsNext ==
  \/ Start \/ Ping \/ Renew \/ Goroutine
  \/ \E l \in Listener : Connection(l)
  \/ \E c \in Callers : Closing(c)

CredentialsSpec == CredentialsInit /\ [][CredentialsNext]_credentialsVars

\* Goroutines run, GetToken answers, and mu is handed to a waiting closer in
\* the end (a waiting writer keeps new holders out).
CredentialsFairSpec ==
  /\ CredentialsSpec
  /\ WF_credentialsVars(Goroutine)
  /\ WF_credentialsVars(\E l \in Listener : GetToken(l) \/ Add(l))
  /\ \A c \in Callers : SF_credentialsVars(Close(c) \/ Stop(c) \/ CloseReturns(c))

-----------------------------------------------------------------------------
\* The types, and the list holds each listener once, however often it
\* subscribes.
CredentialsTypeOK ==
  /\ store \in {"new", "pinging", "open", "refused"}
  /\ manager \in {"off", "running", "stopped"} /\ token \in Nat
  /\ notice \in {"none", "next", "error"} /\ telling \in BOOLEAN
  /\ snapshot \in Seq(Listener) /\ next \in 1 .. Len(snapshot) + 1
  /\ mu \in Listener \cup Callers \cup {"free"}
  /\ listeners \in Seq(Listener)
  /\ \A i, j \in DOMAIN listeners : listeners[i] = listeners[j] => i = j
  /\ conn \in [Listener -> {"new", "getting", "adding", "subscribed", "gone"}]
  /\ told \in [Listener -> Nat]
  /\ once \in {"free", "running", "done"} /\ stops \in Nat
  /\ closer \in [Callers -> {"idle", "client", "credentials", "stopping", "joining", "returned"}]
  /\ failed \in [Callers -> BOOLEAN] /\ {closed, closeErr, stopWaits} \subseteq BOOLEAN

\* No subscribed connection is left with an old token: each listener was given
\* the newest one, by Subscribe or by OnNext, or OnNext is about to, although
\* Subscribe reads the token and joins the list in two steps, and others leave
\* the list while OnNext walks over it.
SubscribersAreCurrent ==
  \A l \in Elements(listeners) :
    \/ told[l] = token
    \/ notice = "next" /\ (telling => l \in Remaining)

\* However many calls of Close race, and also when the PING of the constructor
\* fails: when one of them returns, the manager has been stopped, exactly once,
\* no listener waits for it, and every caller gets the error of that stop.
ClosedOnce ==
  /\ stops <= 1
  /\ store = "refused" /\ manager # "off" => closer["constructor"] # "idle"
  /\ \A c \in Callers : closer[c] = "returned" =>
       /\ manager = "stopped" /\ stops = 1
       /\ closed /\ listeners = <<>>
       /\ closeErr => failed[c]

\* A Close that was called returns, also if stop waits for a callback that
\* waits for mu: Close gives mu up before it stops the manager.
CloseEnds == \A c \in Callers : closer[c] = "credentials" ~> closer[c] = "returned"

=============================================================================
