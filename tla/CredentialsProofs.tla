-------------------------- MODULE CredentialsProofs --------------------------
(***************************************************************************)
(* The credentials provider for every number of connections, tokens and    *)
(* callers of Close.                                                       *)
(***************************************************************************)
EXTENDS Credentials, SequenceTheorems, TLAPS

\* The entries of a concatenation: those of the first list, then the others.
LEMMA Concatenated ==
  ASSUME NEW S, NEW a \in Seq(S), NEW b \in Seq(S)
  PROVE  /\ a \o b \in Seq(S) /\ Len(a \o b) = Len(a) + Len(b)
         /\ \A i \in 1 .. Len(a) + Len(b) :
              (a \o b)[i] = IF i <= Len(a) THEN a[i] ELSE b[i - Len(a)]
  OBVIOUS

\* append(s[:i], s[i+1:]...) on a list without repetitions: the entries that
\* remain are entries of the list, and none is repeated.
LEMMA WithoutKeeps ==
  ASSUME NEW S, NEW s \in Seq(S), NEW l,
         \A i, j \in DOMAIN s : s[i] = s[j] => i = j
  PROVE  /\ Without(s, l) \in Seq(S)
         /\ Elements(Without(s, l)) \subseteq Elements(s)
         /\ \A i, j \in DOMAIN Without(s, l) :
              Without(s, l)[i] = Without(s, l)[j] => i = j
<1>1. CASE l \notin Elements(s)
  BY <1>1 DEF Without
<1>2. CASE l \in Elements(s)
  <2> DEFINE k == CHOOSE i \in DOMAIN s : s[i] = l
             a == SubSeq(s, 1, k - 1)
             b == SubSeq(s, k + 1, Len(s))
  <2>1. k \in 1 .. Len(s)
    BY <1>2 DEF Elements
  <2> HIDE DEF k
  <2>2. a \in Seq(S) /\ Len(a) = k - 1 /\ \A i \in 1 .. k - 1 : a[i] = s[i]
    BY <2>1
  <2>3. b \in Seq(S) /\ Len(b) = Len(s) - k /\ \A i \in 1 .. Len(s) - k : b[i] = s[k + i]
    BY <2>1
  <2> HIDE DEF a, b
  <2> DEFINE w == a \o b
  <2>4. Without(s, l) = w
    BY <1>2 DEF Without, a, b, k
  <2>5. /\ w \in Seq(S) /\ Len(w) = Len(a) + Len(b)
        /\ \A i \in 1 .. Len(a) + Len(b) :
             w[i] = IF i <= Len(a) THEN a[i] ELSE b[i - Len(a)]
    <3>1. a \in Seq(S) /\ b \in Seq(S)
      BY <2>2, <2>3
    <3> QED  BY <3>1, Concatenated, Zenon
  <2> HIDE DEF w
  <2>6. Len(w) = Len(s) - 1
    BY <2>1, <2>2, <2>3, <2>5
  <2>7. \A i \in 1 .. Len(s) - 1 : w[i] = IF i < k THEN s[i] ELSE s[i + 1]
    <3> TAKE i \in 1 .. Len(s) - 1
    <3>1. CASE i < k
      <4>1. i \in 1 .. Len(a) + Len(b) /\ i <= Len(a) /\ i \in 1 .. k - 1
        BY <3>1, <2>1, <2>2, <2>3
      <4>2. w[i] = a[i] /\ a[i] = s[i]
        BY <4>1, <2>2, <2>5, Zenon
      <4> QED  BY <3>1, <4>2
    <3>2. CASE ~ (i < k)
      <4>1. i - (k - 1) \in 1 .. Len(s) - k /\ k + (i - (k - 1)) = i + 1
        BY <3>2, <2>1
      <4>2. i \in 1 .. Len(a) + Len(b) /\ ~ (i <= Len(a)) /\ Len(a) = k - 1
        BY <3>2, <2>1, <2>2, <2>3
      <4>3. w[i] = b[i - Len(a)]
        BY <4>2, <2>5, Zenon
      <4> QED  BY <3>2, <4>1, <4>2, <4>3, <2>3
    <3> QED  BY <3>1, <3>2
  <2>8. DOMAIN w = 1 .. Len(s) - 1 /\ DOMAIN s = 1 .. Len(s) /\ Len(s) \in Nat
    BY <2>5, <2>6
  <2>9. Elements(w) \subseteq Elements(s)
    <3> SUFFICES ASSUME NEW i \in 1 .. Len(s) - 1 PROVE w[i] \in Elements(s)
      BY <2>8 DEF Elements
    <3>1. i \in DOMAIN s /\ i + 1 \in DOMAIN s
      BY <2>8
    <3> QED  BY <3>1, <2>7 DEF Elements
  <2>10. \A i, j \in DOMAIN w : w[i] = w[j] => i = j
    <3> SUFFICES ASSUME NEW i \in 1 .. Len(s) - 1, NEW j \in 1 .. Len(s) - 1, w[i] = w[j]
                 PROVE  i = j
      BY <2>8
    <3>1. {i, i + 1, j, j + 1} \subseteq DOMAIN s
      BY <2>8
    <3>2. w[i] = s[IF i < k THEN i ELSE i + 1] /\ w[j] = s[IF j < k THEN j ELSE j + 1]
      BY <2>7
    <3>3. (IF i < k THEN i ELSE i + 1) = (IF j < k THEN j ELSE j + 1)
      BY <3>1, <3>2
    <3> QED  BY <3>3, <2>1, <2>8
  <2> QED  BY <2>4, <2>5, <2>9, <2>10
<1> QED  BY <1>1, <1>2

\* Subscribe's append of a listener that is not there.
LEMMA AppendKeeps ==
  ASSUME NEW S, NEW s \in Seq(S), NEW l \in S, l \notin Elements(s),
         \A i, j \in DOMAIN s : s[i] = s[j] => i = j
  PROVE  /\ Append(s, l) \in Seq(S)
         /\ Elements(Append(s, l)) = Elements(s) \cup {l}
         /\ \A i, j \in DOMAIN Append(s, l) : Append(s, l)[i] = Append(s, l)[j] => i = j
  BY DEF Elements

\* What the lock protects: its holder is the one connection inside Subscribe,
\* it got the newest token or OnNext has yet to look at the list, and nobody
\* holds the lock after Close has emptied the list.
LockInv ==
  /\ mu \in Listener \cup {"free"}
  /\ \A l \in Listener : conn[l] \in {"getting", "adding"} <=> mu = l
  /\ \A l \in Listener : conn[l] = "adding" =>
       told[l] = token \/ (notice = "next" /\ ~ telling)
  /\ telling => notice # "none"
  /\ manager = "off" => listeners = <<>> /\ mu = "free" /\ notice = "none"
  /\ closed => listeners = <<>> /\ mu = "free"

\* closeOnce: the caller that runs it is alone, and its outcome is there for
\* everyone once it is done.
OnceInv ==
  /\ store = "new" => manager = "off" /\ \A c \in Callers : closer[c] = "idle"
  /\ manager = "off" => store \in {"new", "refused"} /\ \A c \in Callers : closer[c] = "idle"
  /\ once = "free" <=> ~ closed
  /\ once = "done" => stops = 1 /\ manager = "stopped"
  /\ once # "done" => stops = 0 /\ \A c \in Callers : closer[c] \notin {"joining", "returned"}
  /\ \A c, d \in Callers : closer[c] = "stopping" =>
       once = "running" /\ (closer[d] = "stopping" => c = d)

CredentialsInv ==
  CredentialsTypeOK /\ LockInv /\ OnceInv /\ SubscribersAreCurrent /\ ClosedOnce

\* The calls of NewManagedIdentityRedisStore and of the token manager's
\* goroutine preserve the invariant.
LEMMA ManagerSteps ==
  ASSUME CredentialsInv, Start \/ Ping \/ Renew \/ Goroutine
  PROVE  CredentialsInv'
<1> USE CredentialsAssumption DEF CredentialsInv
<1>1. CASE Start
  <2> USE <1>1 DEF Start, connVars, closeVars
  <2>1. CredentialsTypeOK'
    BY DEF CredentialsTypeOK
  <2>2. LockInv' /\ OnceInv' /\ ClosedOnce'
    BY DEF LockInv, OnceInv, ClosedOnce, CredentialsTypeOK, Callers
  <2>3. SubscribersAreCurrent'
    BY DEF SubscribersAreCurrent, LockInv, OnceInv, Elements
  <2> QED  BY <2>1, <2>2, <2>3
<1>2. CASE Ping
  <2> USE <1>2 DEF Ping, managerVars, connVars
  <2>1. CredentialsTypeOK'
    BY DEF CredentialsTypeOK, Callers
  <2>2. LockInv' /\ SubscribersAreCurrent'
    BY DEF LockInv, SubscribersAreCurrent, Remaining
  <2>3. OnceInv' /\ ClosedOnce'
    BY DEF OnceInv, ClosedOnce, CredentialsTypeOK, Callers
  <2> QED  BY <2>1, <2>2, <2>3
<1>3. CASE Renew
  <2> USE <1>3 DEF Renew, connVars, closeVars
  <2>1. CredentialsTypeOK'
    BY DEF CredentialsTypeOK
  <2>2. LockInv' /\ OnceInv' /\ ClosedOnce'
    BY DEF LockInv, OnceInv, ClosedOnce
  <2>3. SubscribersAreCurrent'
    BY DEF SubscribersAreCurrent, LockInv
  <2> QED  BY <2>1, <2>2, <2>3
<1>4. CASE OnNotice
  <2> USE <1>4 DEF OnNotice, connVars, closeVars
  <2>1. CredentialsTypeOK'
    BY DEF CredentialsTypeOK
  <2>2. LockInv' /\ OnceInv' /\ ClosedOnce'
    BY DEF LockInv, OnceInv, ClosedOnce
  <2>3. SubscribersAreCurrent'
    BY DEF SubscribersAreCurrent, LockInv, Remaining, Elements, CredentialsTypeOK
  <2> QED  BY <2>1, <2>2, <2>3
<1>5. CASE Tell
  <2>0. /\ next \in Nat /\ Len(snapshot) \in Nat /\ telling
        /\ UNCHANGED <<store, manager, token, mu, listeners, conn>> /\ UNCHANGED closeVars
        /\ UNCHANGED stopWaits
    BY <1>5 DEF Tell, CredentialsTypeOK
  <2> USE <2>0 DEF closeVars
  <2>1. CASE next <= Len(snapshot)
    <3>0. /\ next' = next + 1 /\ UNCHANGED <<telling, notice, snapshot>>
          /\ told' = IF notice = "next" THEN [told EXCEPT ![snapshot[next]] = token] ELSE told
      <4>1. ~ (next > Len(snapshot))
        BY <2>1
      <4> QED  BY <4>1, <1>5, Zenon DEF Tell
    <3>1. next \in DOMAIN snapshot /\ snapshot[next] \in Listener
      BY <2>1 DEF CredentialsTypeOK
    <3>3. told' \in [Listener -> Nat]
      BY <3>0, <3>1 DEF CredentialsTypeOK
    <3>4. CredentialsTypeOK'
      BY <2>1, <3>0, <3>3 DEF CredentialsTypeOK
    <3>5. \A l \in Listener : told[l] = token => told'[l] = token
      BY <3>0 DEF CredentialsTypeOK
    <3>6. notice = "next" => told'[snapshot[next]] = token
      BY <3>0, <3>1 DEF CredentialsTypeOK
    <3>7. \A i \in DOMAIN snapshot : i >= next => i = next \/ i >= next + 1
      BY <2>1 DEF CredentialsTypeOK
    <3>8. Remaining \subseteq Remaining' \cup {snapshot[next]}
      BY <3>0, <3>7 DEF Remaining
    <3>9. Elements(listeners) \subseteq Listener
      BY DEF Elements, CredentialsTypeOK
    <3>10. SubscribersAreCurrent'
      BY <3>0, <3>5, <3>6, <3>8, <3>9 DEF SubscribersAreCurrent, Elements
    <3>11. LockInv'
      BY <3>0, <3>5 DEF LockInv
    <3>12. OnceInv' /\ ClosedOnce'
      BY DEF OnceInv, ClosedOnce
    <3> QED  BY <3>4, <3>10, <3>11, <3>12
  <2>2. CASE next > Len(snapshot)
    <3>0. telling' = FALSE /\ notice' = "none" /\ snapshot' = <<>> /\ next' = 1 /\ told' = told
      <4>1. ~ (next <= Len(snapshot))
        BY <2>2
      <4> QED  BY <4>1, <1>5, Zenon DEF Tell
    <3>1. snapshot' \in Seq(Listener) /\ next' \in 1 .. Len(snapshot') + 1
      BY <3>0
    <3>2. CredentialsTypeOK'
      BY <3>0, <3>1 DEF CredentialsTypeOK
    <3>3. Remaining = {}
      BY <2>2 DEF Remaining, CredentialsTypeOK
    <3>4. SubscribersAreCurrent'
      BY <3>0, <3>3 DEF SubscribersAreCurrent, Elements
    <3>5. LockInv'
      BY <3>0 DEF LockInv
    <3>6. OnceInv' /\ ClosedOnce'
      BY DEF OnceInv, ClosedOnce
    <3> QED  BY <3>2, <3>4, <3>5, <3>6
  <2> QED  BY <2>1, <2>2
<1> QED  BY <1>1, <1>2, <1>3, <1>4, <1>5 DEF Goroutine

ConnTypes ==
  /\ conn \in [Listener -> {"new", "getting", "adding", "subscribed", "gone"}]
  /\ told \in [Listener -> Nat]
  /\ mu \in Listener \cup Callers \cup {"free"}

\* A call of a connection keeps the types when it keeps those of its variables.
LEMMA ConnectionTypes ==
  ASSUME CredentialsTypeOK, ConnTypes',
         UNCHANGED <<store, managerVars, listeners, closeVars, stopWaits>>
  PROVE  CredentialsTypeOK'
  BY SMTT(30) DEF CredentialsTypeOK, ConnTypes, managerVars, closeVars

\* The calls of a connection preserve the invariant.
LEMMA ConnectionSteps ==
  ASSUME CredentialsInv, NEW l \in Listener, Connection(l)
  PROVE  CredentialsInv'
<1> USE CredentialsAssumption DEF CredentialsInv
<1>1. CASE Subscribe(l)
  <2>0. ConnTypes'
    BY <1>1, SMTT(30) DEF Subscribe, ConnTypes, CredentialsTypeOK
  <2>1. CredentialsTypeOK'
    BY <1>1, <2>0, ConnectionTypes DEF Subscribe
  <2> USE <1>1 DEF Subscribe, managerVars, closeVars
  <2>2. LockInv'
    BY DEF LockInv, CredentialsTypeOK
  <2>3. OnceInv' /\ ClosedOnce' /\ SubscribersAreCurrent'
    BY DEF OnceInv, ClosedOnce, SubscribersAreCurrent, Remaining
  <2> QED  BY <2>1, <2>2, <2>3, Zenon
<1>2. CASE GetToken(l)
  <2>0. ConnTypes'
    <3>0. conn \in [Listener -> {"new", "getting", "adding", "subscribed", "gone"}]
          /\ told \in [Listener -> Nat] /\ token \in Nat
          /\ mu \in Listener \cup Callers \cup {"free"}
      BY DEF CredentialsTypeOK
    <3>1. conn' \in [Listener -> {"new", "getting", "adding", "subscribed", "gone"}]
      BY <1>2, <3>0 DEF GetToken
    <3>2. told' \in [Listener -> Nat]
      BY <1>2, <3>0 DEF GetToken
    <3>3. mu' \in Listener \cup Callers \cup {"free"}
      BY <1>2, <3>0 DEF GetToken
    <3> QED  BY <3>1, <3>2, <3>3 DEF ConnTypes
  <2>1. CredentialsTypeOK'
    BY <1>2, <2>0, ConnectionTypes DEF GetToken
  <2>2. LockInv'
    <3>1. CASE UNCHANGED mu
      <4>1. /\ conn' = [conn EXCEPT ![l] = "adding"] /\ told' = [told EXCEPT ![l] = token]
            /\ UNCHANGED <<notice, telling, manager, listeners, closed, token>>
        BY <1>2, <3>1 DEF GetToken, LockInv, managerVars, closeVars
      <4> QED  BY <1>2, <3>1, <4>1, SMTT(30) DEF GetToken, LockInv, CredentialsTypeOK
    <3>2. CASE mu' = "free" /\ UNCHANGED told
      BY <1>2, <3>2, SMTT(30) DEF GetToken, LockInv, CredentialsTypeOK, managerVars, closeVars
    <3> QED  BY <1>2, <3>1, <3>2 DEF GetToken
  <2> USE <1>2 DEF GetToken, managerVars, closeVars
  <2>3. OnceInv' /\ ClosedOnce'
    BY DEF OnceInv, ClosedOnce
  <2>4. \A m \in Listener : told'[m] = told[m] \/ told'[m] = token
    BY DEF CredentialsTypeOK
  <2>5. Elements(listeners) \subseteq Listener
    BY DEF Elements, CredentialsTypeOK
  <2>6. SubscribersAreCurrent'
    BY <2>4, <2>5 DEF SubscribersAreCurrent, Remaining, Elements
  <2> QED  BY <2>1, <2>2, <2>3, <2>6, Zenon
<1>3. CASE Add(l)
  <2> USE <1>3 DEF Add, managerVars, closeVars
  <2>1. /\ listeners' \in Seq(Listener)
        /\ Elements(listeners)' \subseteq Elements(listeners) \cup {l}
        /\ \A i, j \in DOMAIN listeners' : listeners'[i] = listeners'[j] => i = j
    <3>1. CASE l \in Elements(listeners)
      BY <3>1 DEF CredentialsTypeOK, Elements
    <3>2. CASE l \notin Elements(listeners)
      <4> DEFINE added == Append(listeners, l)
      <4>1. /\ added \in Seq(Listener)
            /\ Elements(added) = Elements(listeners) \cup {l}
            /\ \A i, j \in DOMAIN added : added[i] = added[j] => i = j
        BY <3>2, AppendKeeps, ZenonT(60) DEF CredentialsTypeOK
      <4>2. listeners' = added
        BY <3>2
      <4> HIDE DEF added
      <4> QED  BY <4>1, <4>2 DEF Elements
    <3> QED  BY <3>1, <3>2
  <2>2. CredentialsTypeOK'
    BY <2>1, SMTT(30) DEF CredentialsTypeOK
  <2>3. LockInv' /\ ~ closed
    BY DEF LockInv, CredentialsTypeOK
  <2>4. OnceInv' /\ ClosedOnce'
    BY <2>3 DEF OnceInv, ClosedOnce
  <2>5. SubscribersAreCurrent'
    BY <2>1 DEF SubscribersAreCurrent, LockInv, Remaining
  <2> QED  BY <2>2, <2>3, <2>4, <2>5, Zenon
<1>4. CASE Unsubscribe(l)
  <2> USE <1>4 DEF Unsubscribe, managerVars, closeVars
  <2>1. /\ listeners' \in Seq(Listener)
        /\ Elements(listeners)' \subseteq Elements(listeners)
        /\ \A i, j \in DOMAIN listeners' : listeners'[i] = listeners'[j] => i = j
    BY WithoutKeeps DEF CredentialsTypeOK
  <2>2. listeners = <<>> => listeners' = <<>>
    BY DEF Without, Elements
  <2>3. CredentialsTypeOK'
    BY <2>1 DEF CredentialsTypeOK
  <2>4. LockInv'
    BY <2>2 DEF LockInv, CredentialsTypeOK
  <2>5. OnceInv' /\ ClosedOnce'
    BY <2>2 DEF OnceInv, ClosedOnce
  <2>6. SubscribersAreCurrent'
    BY <2>1 DEF SubscribersAreCurrent, Remaining
  <2> QED  BY <2>3, <2>4, <2>5, <2>6, Zenon
<1> QED  BY <1>1, <1>2, <1>3, <1>4 DEF Connection

\* The steps of a call of RedisStore.Close preserve the invariant.
LEMMA CloserSteps ==
  ASSUME CredentialsInv, NEW c \in Callers, Closing(c)
  PROVE  CredentialsInv'
<1> USE CredentialsAssumption DEF CredentialsInv
<1>1. CASE CloseClient(c)
  <2> USE <1>1 DEF CloseClient, managerVars, connVars
  <2>1. CredentialsTypeOK' /\ LockInv' /\ SubscribersAreCurrent'
    BY DEF CredentialsTypeOK, LockInv, SubscribersAreCurrent, Remaining
  <2>2. OnceInv' /\ ClosedOnce'
    BY DEF OnceInv, ClosedOnce, CredentialsTypeOK, Callers
  <2> QED  BY <2>1, <2>2, Zenon
<1>2. CASE Close(c)
  <2> USE <1>2 DEF Close, managerVars
  <2>1. CredentialsTypeOK' /\ LockInv'
    BY DEF CredentialsTypeOK, LockInv
  <2>2. OnceInv' /\ ClosedOnce' /\ SubscribersAreCurrent'
    BY DEF OnceInv, ClosedOnce, SubscribersAreCurrent, Elements, CredentialsTypeOK
  <2> QED  BY <2>1, <2>2, Zenon
<1>3. CASE Stop(c)
  <2> USE <1>3 DEF Stop, connVars
  <2>1. CredentialsTypeOK' /\ LockInv' /\ SubscribersAreCurrent'
    BY DEF CredentialsTypeOK, LockInv, SubscribersAreCurrent, Remaining
  <2>2. /\ once = "running" /\ closed /\ listeners = <<>> /\ stops = 0
        /\ \A d \in Callers : closer[d] \notin {"joining", "returned"}
        /\ \A d \in Callers : closer[d] = "stopping" => d = c
    BY DEF OnceInv, LockInv
  <2>3. \A d \in Callers : closer'[d] = IF d = c THEN "joining" ELSE closer[d]
    BY DEF CredentialsTypeOK
  <2>4. stops' = 1
    BY <2>2
  <2>5. store # "new" /\ store' = store
    BY DEF OnceInv
  <2>6. OnceInv'
    BY <2>2, <2>3, <2>4, <2>5 DEF OnceInv
  <2>7. \A d \in Callers : closer'[d] # "returned"
    BY <2>2, <2>3
  <2>8. closer["constructor"] # "idle" => closer'["constructor"] # "idle"
    BY <2>3 DEF Callers
  <2>9. manager # "off"
    BY DEF OnceInv
  <2>10. ClosedOnce'
    BY <2>4, <2>5, <2>7, <2>8, <2>9 DEF ClosedOnce
  <2> QED  BY <2>1, <2>6, <2>10, Zenon
<1>4. CASE CloseReturns(c)
  <2> USE <1>4 DEF CloseReturns, managerVars, connVars
  <2>1. CredentialsTypeOK' /\ LockInv' /\ SubscribersAreCurrent'
    BY DEF CredentialsTypeOK, LockInv, SubscribersAreCurrent, Remaining
  <2>2. OnceInv' /\ ClosedOnce'
    BY DEF OnceInv, ClosedOnce, LockInv, CredentialsTypeOK
  <2> QED  BY <2>1, <2>2, Zenon
<1> QED  BY <1>1, <1>2, <1>3, <1>4 DEF Closing

\* The invariant holds throughout: the manager, the connections and the callers
\* of Close keep it.
THEOREM CredentialsInvariant == CredentialsSpec => []CredentialsInv
<1>1. CredentialsInit => CredentialsInv
  <2> SUFFICES ASSUME CredentialsInit PROVE CredentialsInv
    OBVIOUS
  <2> USE CredentialsAssumption DEF CredentialsInit
  <2>0. /\ snapshot \in Seq(Listener) /\ next \in 1 .. Len(snapshot) + 1
        /\ listeners \in Seq(Listener) /\ DOMAIN listeners = {}
    OBVIOUS
  <2>1. CredentialsTypeOK
    BY <2>0 DEF CredentialsTypeOK, Callers
  <2>2. LockInv /\ OnceInv
    BY DEF LockInv, OnceInv, Callers
  <2>3. SubscribersAreCurrent /\ ClosedOnce
    BY DEF SubscribersAreCurrent, ClosedOnce, Elements, Callers
  <2> QED  BY <2>1, <2>2, <2>3 DEF CredentialsInv
<1>2. CredentialsInv /\ [CredentialsNext]_credentialsVars => CredentialsInv'
  <2> SUFFICES ASSUME CredentialsInv, [CredentialsNext]_credentialsVars PROVE CredentialsInv'
    OBVIOUS
  <2>1. CASE UNCHANGED credentialsVars
    <3> USE <2>1 DEF CredentialsInv, credentialsVars, managerVars, connVars, closeVars
    <3>1. CredentialsTypeOK' /\ LockInv'
      BY DEF CredentialsTypeOK, LockInv
    <3>2. OnceInv' /\ SubscribersAreCurrent' /\ ClosedOnce'
      BY DEF OnceInv, SubscribersAreCurrent, ClosedOnce, Elements, Remaining
    <3> QED  BY <3>1, <3>2, Zenon
  <2>2. CASE CredentialsNext
    BY <2>2, ManagerSteps, ConnectionSteps, CloserSteps DEF CredentialsNext
  <2> QED  BY <2>1, <2>2, Zenon
<1> QED  BY <1>1, <1>2, PTL DEF CredentialsSpec

\* The variables of ownedCredentialsProvider keep their types, for every number
\* of connections, tokens and callers of Close.
THEOREM CredentialsTypeCorrect == CredentialsSpec => []CredentialsTypeOK
  BY CredentialsInvariant, PTL DEF CredentialsInv

\* However Subscribe, OnNext and unsubscribe interleave, no subscribed connection
\* is left with an old token once nobody is on the way to tell it.
THEOREM ConnectionsAreCurrent == CredentialsSpec => []SubscribersAreCurrent
  BY CredentialsInvariant, PTL DEF CredentialsInv

\* However many callers race, the token manager is stopped exactly once, before
\* any Close or a failed constructor returns.
THEOREM ManagerStopsOnce == CredentialsSpec => []ClosedOnce
  BY CredentialsInvariant, PTL DEF CredentialsInv

=============================================================================
