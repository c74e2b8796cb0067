---------------------------- MODULE StartupProofs ----------------------------
(***************************************************************************)
(* The process starts with sound settings from every environment, and with *)
(* every answer of the secret store.                                       *)
(***************************************************************************)
EXTENDS Startup, SequenceTheorems, TLAPS

Elements(s) == {s[i] : i \in DOMAIN s}

Early == {"loading", "resolving", "loaded"}
Ending == {"closing", "awaiting", "flushing", "exited"}

-----------------------------------------------------------------------------
\* The head of a list of closers or results, and the rest.
LEMMA ElementsHead ==
  ASSUME NEW S, NEW s \in Seq(S), s # <<>>
  PROVE  /\ Elements(s) = {Head(s)} \cup Elements(Tail(s))
         /\ Head(s) \in S /\ Tail(s) \in Seq(S) /\ Len(Tail(s)) = Len(s) - 1 /\ Len(s) > 0
<1>1. /\ Head(s) = s[1] /\ Head(s) \in S /\ Tail(s) \in Seq(S) /\ Len(Tail(s)) = Len(s) - 1 /\ Len(s) > 0
      /\ \A i \in 1 .. Len(s) - 1 : Tail(s)[i] = s[i + 1]
  BY HeadTailProperties
<1>2. DOMAIN Tail(s) = 1 .. Len(s) - 1 /\ DOMAIN s = 1 .. Len(s) /\ Len(s) \in Nat
  BY <1>1
<1>3. ASSUME NEW i \in 1 .. Len(s) PROVE s[i] \in {Head(s)} \cup Elements(Tail(s))
  <2>1. CASE i = 1
    BY <2>1, <1>1
  <2>2. CASE i # 1
    <3>1. i - 1 \in 1 .. Len(s) - 1 /\ Tail(s)[i - 1] = s[i]
      BY <2>2, <1>1, <1>2
    <3> QED  BY <3>1, <1>2, Zenon DEF Elements
  <2> QED  BY <2>1, <2>2
<1>4. ASSUME NEW i \in 1 .. Len(s) - 1 PROVE Tail(s)[i] \in Elements(s)
  <2>1. i + 1 \in 1 .. Len(s) /\ Tail(s)[i] = s[i + 1]
    BY <1>1, <1>2
  <2> QED  BY <2>1, <1>2 DEF Elements
<1>5. Head(s) \in Elements(s)
  BY <1>1, <1>2 DEF Elements
<1> QED  BY <1>1, <1>2, <1>3, <1>4, <1>5 DEF Elements

\* A goroutine sends its result to errCh.
LEMMA ElementsAppend ==
  ASSUME NEW S, NEW s \in Seq(S), NEW x \in S
  PROVE  /\ Elements(Append(s, x)) = Elements(s) \cup {x}
         /\ Append(s, x) \in Seq(S) /\ Len(Append(s, x)) = Len(s) + 1
<1> DEFINE t == Append(s, x)
<1>1. /\ t \in Seq(S) /\ Len(t) = Len(s) + 1 /\ t[Len(s) + 1] = x
      /\ \A i \in 1 .. Len(s) : t[i] = s[i]
  BY AppendProperties
<1>2. DOMAIN t = 1 .. Len(s) + 1 /\ DOMAIN s = 1 .. Len(s) /\ Len(s) \in Nat
  BY <1>1
<1> HIDE DEF t
<1>3. \A i \in 1 .. Len(s) + 1 : i \in 1 .. Len(s) \/ i = Len(s) + 1
  BY <1>2
<1>4. \A i \in 1 .. Len(s) : i \in 1 .. Len(s) + 1
  BY <1>2
<1>5. Len(s) + 1 \in 1 .. Len(s) + 1
  BY <1>2
<1>6. Elements(t) = Elements(s) \cup {x}
  BY <1>1, <1>2, <1>3, <1>4, <1>5, Zenon DEF Elements
<1> QED  BY <1>1, <1>6 DEF t

\* What the steps beside main leave to main.
LEMMA OtherSteps ==
  ASSUME Others
  PROVE  /\ UNCHANGED <<mainVars, stop>>
         /\ Flusher \/ UNCHANGED flusher
<1>1. CASE Signal
  BY <1>1 DEF Signal, flusherVars
<1>2. ASSUME NEW h \in Handler, Accept(h) \/ Finish(h)
      PROVE  UNCHANGED <<mainVars, flusherVars>>
  BY <1>2 DEF Accept, Finish
<1>3. CASE ListenerFails
  BY <1>3 DEF ListenerFails, flusherVars
<1>4. CASE Server
  BY <1>4 DEF Server, Shutdown, ShutdownReturns, ServerFails, flusherVars
<1>5. CASE Flusher
  BY <1>5 DEF Flusher, Flush, FlushPosts, FlusherStops
<1>6. CASE WorkerReturns \/ WorkerFails
  BY <1>6 DEF WorkerReturns, WorkerFails, flusherVars
<1>7. ASSUME NEW j \in Job, Process(j)
      PROVE  UNCHANGED <<mainVars, flusherVars>>
  BY <1>7 DEF Process
<1> QED  BY <1>1, <1>2, <1>3, <1>4, <1>5, <1>6, <1>7 DEF Others, flusherVars

-----------------------------------------------------------------------------
\* rejectOverlappingCIDRs compares network addresses only; that is enough: of
\* two networks with an address in common, the one with the shorter prefix
\* contains the address of the other.
LEMMA OverlapIsNested ==
  ASSUME NEW t \in Entry, NEW p \in Entry, NEW a \in Address, Contains(t, a), Contains(p, a)
  PROVE  Contains(t, p.addr) \/ Contains(p, t.addr)
<1>1. t.ones \in 0 .. Bits /\ p.ones \in 0 .. Bits /\ Bits \in Nat
  BY ConfigAssumption DEF Entry
<1>2. CASE t.ones <= p.ones
  <2>1. \A i \in 1 .. t.ones : i \in 1 .. p.ones
    BY <1>1, <1>2, SMTT(30)
  <2> QED  BY <2>1 DEF Contains
<1>3. CASE p.ones <= t.ones
  <2>1. \A i \in 1 .. p.ones : i \in 1 .. t.ones
    BY <1>1, <1>3
  <2> QED  BY <2>1 DEF Contains
<1> QED  BY <1>1, <1>2, <1>3

\* A network that rejectUnrestrictedCIDRs lets pass does not have all addresses
\* of its family, if it is not mapped.
LEMMA RestrictedHasOutside ==
  ASSUME NEW t \in Entry, MaskSize(t) # 0, ~ t.mapped
  PROVE  \E a \in Address : a.family = t.addr.family /\ ~ Contains(t, a)
<1> DEFINE a == [family |-> t.addr.family, bits |-> [i \in 1 .. Bits |-> 1 - t.addr.bits[i]]]
<1>1. t.addr \in Address /\ 1 \in 1 .. t.ones /\ 1 \in 1 .. Bits
  BY ConfigAssumption DEF Entry, MaskSize
<1>5. \A i \in 1 .. Bits : t.addr.bits[i] \in {0, 1}
  BY <1>1, Zenon DEF Address
<1>6. \A b \in {0, 1} : 1 - b \in {0, 1} /\ 1 - b # b
  OBVIOUS
<1>2. \A i \in 1 .. Bits : 1 - t.addr.bits[i] \in {0, 1} /\ 1 - t.addr.bits[i] # t.addr.bits[i]
  BY <1>5, <1>6
<1>3. a \in Address
  BY <1>1, <1>2 DEF Address
<1>4. a.bits[1] # t.addr.bits[1] /\ a.family = t.addr.family
  BY <1>1, <1>2
<1> HIDE DEF a
<1> QED  BY <1>1, <1>3, <1>4 DEF Contains

\* What Load makes of the variables the properties are about.
LEMMA Loaded ==
  ASSUME NEW e \in Environments
  PROVE  /\ DOMAIN Load(e) = DOMAIN e
         /\ \A v \in CIDRLists : Load(e)[v] \in SUBSET Entry
         /\ \A v \in DOMAIN StrictFallback : Load(e)[v].value \in Int
         /\ Load(e)["SECRETS_SOURCE"] = Trim(e["SECRETS_SOURCE"])
<1> DEFINE names == CIDRLists \cup DOMAIN StrictFallback \cup Secrets \cup {"SECRETS_SOURCE", "SERVICEBUS_AUTH_MODE"}
<1>1. names \subseteq DOMAIN e /\ \A v \in CIDRLists : e[v] \subseteq Entry
  BY StartupAssumption
<1>2. DOMAIN Load(e) = DOMAIN e
  BY DEF Load
<1>3. DOMAIN StrictFallback = {"REDIS_PORT", "PASSWORD_MESSAGE_TTL", "SYNC_STATUS_TERMINAL_TTL"}
  BY DEF StrictFallback
<1>4. ASSUME NEW v \in CIDRLists PROVE Load(e)[v] \in SUBSET Entry
  <2>1. /\ v \in DOMAIN e /\ v \notin DOMAIN TextFallback /\ v \notin DOMAIN StrictFallback
        /\ v \notin DOMAIN LenientFallback /\ v # "DIRECT_CLIENT_MODE" /\ v # "HOOK_HMAC_SECRET"
    BY <1>1, <1>3 DEF CIDRLists, TextFallback, LenientFallback
  <2>2. Load(e)[v] = csvEnv(e[v])
    BY <2>1, <1>4 DEF Load
  <2> QED  BY <2>2, <1>1 DEF csvEnv
<1>5. ASSUME NEW v \in DOMAIN StrictFallback PROVE Load(e)[v].value \in Int
  <2>1. /\ v \in DOMAIN e /\ v \notin DOMAIN TextFallback /\ v \notin DOMAIN LenientFallback
        /\ v \notin CIDRLists /\ v # "DIRECT_CLIENT_MODE" /\ v # "HOOK_HMAC_SECRET"
    BY <1>1, <1>3 DEF TextFallback, LenientFallback, CIDRLists
  <2>2. Load(e)[v] = strictEnv(e[v], StrictFallback[v])
    BY <2>1 DEF Load
  <2>3. StrictFallback[v] \in Int
    BY DEF StrictFallback
  <2>4. \A text \in DOMAIN Number : Number[text] \in Int
    BY DEF Number
  <2> DEFINE value == IF Trim(e[v]) = "" THEN StrictFallback[v]
                      ELSE IF e[v] \in DOMAIN Number THEN Number[e[v]] ELSE 0
             failed == Trim(e[v]) \notin {""} \cup DOMAIN Number
  <2>5. Load(e)[v] = [value |-> value, err |-> failed]
    BY <2>2, Zenon DEF strictEnv
  <2>6. value \in Int
    <3>1. CASE Trim(e[v]) = ""
      BY <3>1, <2>3, Zenon
    <3>2. CASE Trim(e[v]) # "" /\ e[v] \in DOMAIN Number
      BY <3>2, <2>4, Zenon
    <3>3. CASE Trim(e[v]) # "" /\ e[v] \notin DOMAIN Number
      <4>1. value = 0
        BY <3>3, Zenon
      <4> HIDE DEF value
      <4> QED  BY <4>1
    <3> QED  BY <3>1, <3>2, <3>3, Zenon
  <2> HIDE DEF value, failed
  <2> QED  BY <2>5, <2>6
<1>6. Load(e)["SECRETS_SOURCE"] = Trim(e["SECRETS_SOURCE"])
  BY <1>1, <1>3 DEF Load, TextFallback, LenientFallback, CIDRLists
<1> QED  BY <1>2, <1>4, <1>5, <1>6

\* resolveKeyVault reads every secret the process will use.
LEMMA ReadsShape ==
  ASSUME NEW managed \in BOOLEAN, NEW r,
         r = <<"HOOK_HMAC_SECRET">> \o (IF managed THEN <<>> ELSE <<"SERVICEBUS_CONNECTION_STRING">>)
             \o <<"GRAPH_CLIENT_SECRET", "PASSWORD_ENCRYPTION_KEY_B64">>
  PROVE  /\ r \in Seq(Secrets) /\ r # <<>>
         /\ \A v \in Secrets : v \in Elements(r) \/ (managed /\ v = "SERVICEBUS_CONNECTION_STRING")
<1> DEFINE first == <<"HOOK_HMAC_SECRET">>
           bus == IF managed THEN <<>> ELSE <<"SERVICEBUS_CONNECTION_STRING">>
           last == <<"GRAPH_CLIENT_SECRET", "PASSWORD_ENCRYPTION_KEY_B64">>
           both == first \o bus
<1>1. first \in Seq(Secrets) /\ Len(first) = 1 /\ first[1] = "HOOK_HMAC_SECRET"
  BY DEF Secrets
<1>2. /\ last \in Seq(Secrets) /\ Len(last) = 2
      /\ last[1] = "GRAPH_CLIENT_SECRET" /\ last[2] = "PASSWORD_ENCRYPTION_KEY_B64"
  BY DEF Secrets
<1>3. bus \in Seq(Secrets)
  <2>1. <<>> \in Seq(Secrets)
    OBVIOUS
  <2>2. <<"SERVICEBUS_CONNECTION_STRING">> \in Seq(Secrets)
    BY DEF Secrets
  <2> QED  BY <2>1, <2>2, Zenon
<1>4. managed \/ (Len(bus) = 1 /\ bus[1] = "SERVICEBUS_CONNECTION_STRING")
  OBVIOUS
<1> HIDE DEF first, bus, last
<1>5. /\ both \in Seq(Secrets) /\ Len(both) = Len(first) + Len(bus)
      /\ \A i \in 1 .. Len(first) + Len(bus) : both[i] = IF i <= Len(first) THEN first[i] ELSE bus[i - Len(first)]
  BY <1>1, <1>3, ConcatProperties, Zenon
<1> DEFINE full == both \o last
<1>6. r = full
  BY DEF first, bus, last
<1> HIDE DEF both
<1>7. both \in Seq(Secrets) /\ last \in Seq(Secrets) /\ Len(both) \in Nat /\ Len(bus) \in Nat
  BY <1>2, <1>3, <1>5
<1>15. /\ full \in Seq(Secrets) /\ Len(full) = Len(both) + Len(last)
       /\ \A i \in 1 .. Len(both) + Len(last) : full[i] = IF i <= Len(both) THEN both[i] ELSE last[i - Len(both)]
  BY <1>7, ConcatProperties
<1> HIDE DEF full
<1>8. /\ r \in Seq(Secrets) /\ Len(r) = Len(both) + Len(last)
      /\ \A i \in 1 .. Len(both) + Len(last) : r[i] = IF i <= Len(both) THEN both[i] ELSE last[i - Len(both)]
  BY <1>6, <1>15
<1>9. 1 \in 1 .. Len(r) /\ r[1] = "HOOK_HMAC_SECRET"
  BY <1>1, <1>2, <1>5, <1>7, <1>8
<1>10. \A k \in 1 .. 2 : Len(both) + k \in 1 .. Len(r) /\ r[Len(both) + k] = last[k]
  BY <1>2, <1>7, <1>8
<1>11. managed \/ (2 \in 1 .. Len(r) /\ r[2] = "SERVICEBUS_CONNECTION_STRING")
  BY <1>1, <1>2, <1>4, <1>5, <1>7, <1>8
<1>12. r # <<>> /\ DOMAIN r = 1 .. Len(r)
  BY <1>8, <1>9
<1>13. "HOOK_HMAC_SECRET" \in Elements(r) /\ \A k \in 1 .. 2 : last[k] \in Elements(r)
  BY <1>9, <1>10, <1>12, Zenon DEF Elements
<1>14. managed \/ "SERVICEBUS_CONNECTION_STRING" \in Elements(r)
  BY <1>11, <1>12, Zenon DEF Elements
<1> QED  BY <1>2, <1>8, <1>12, <1>13, <1>14 DEF Secrets

\* Of cfg, only the secrets change after Load; those of the vault replace those
\* of the environment one by one.
Resolving ==
  /\ environ \in Environments /\ DOMAIN cfg = DOMAIN environ
  /\ \A v \in DOMAIN environ \ Secrets : cfg[v] = Load(environ)[v]
  /\ IF environ["SECRETS_SOURCE"] = "env" THEN \A v \in Secrets : cfg[v] = Load(environ)[v]
     ELSE \A v \in Secrets : \/ v \in Elements(reads) \/ cfg[v] \in VaultText \ {"blank"}
                             \/ v = "SERVICEBUS_CONNECTION_STRING" /\ ManagedIdentity(cfg)

ConfigInv ==
  /\ main = "loading" => environ \in Environments /\ reads = <<>>
  /\ main \in {"resolving", "loaded", "wiring"} => Resolving
  /\ main = "resolving" => reads \in Seq(Secrets) /\ reads # <<>> /\ environ["SECRETS_SOURCE"] # "env"
  /\ main \in {"loaded", "wiring"} => reads = <<>>
  /\ main = "wiring" => Validate(cfg)

\* Once New has validated it, the configuration is sound.
LEMMA ConfigSound ==
  ASSUME ConfigInv
  PROVE  AddressesSeparate /\ ValidatedIsAccepted /\ SecretsComeFromSource
<1>1. AddressesSeparate
  <2> SUFFICES ASSUME main = "wiring"
               PROVE  AddressesSeparate
    BY DEF AddressesSeparate
  <2>1. Resolving /\ ValidateHTTP(cfg)
    BY SMTT(30) DEF ConfigInv, Validate
  <2>2. \A v \in CIDRLists : v \in DOMAIN environ \ Secrets /\ cfg[v] \in SUBSET Entry
    BY <2>1, Loaded, StartupAssumption DEF Resolving, CIDRLists, Secrets
  <2>3. cfg["TRUSTED_PROXY_CIDRS"] \subseteq Entry /\ cfg["PORTAL_ALLOWED_CIDRS"] \subseteq Entry
    BY <2>2, SMTT(30) DEF CIDRLists
  <2>4. /\ rejectOverlappingCIDRs(cfg["TRUSTED_PROXY_CIDRS"], cfg["PORTAL_ALLOWED_CIDRS"])
        /\ rejectUnrestrictedCIDRs(cfg["TRUSTED_PROXY_CIDRS"])
    BY <2>1, Zenon DEF ValidateHTTP
  <2>5. \A a \in Address, t \in cfg["TRUSTED_PROXY_CIDRS"], p \in cfg["PORTAL_ALLOWED_CIDRS"] :
          ~ (Contains(t, a) /\ Contains(p, a))
    BY <2>3, <2>4, OverlapIsNested, Zenon DEF rejectOverlappingCIDRs
  <2>6. \A t \in cfg["TRUSTED_PROXY_CIDRS"] :
          ~ t.mapped => \E a \in Address : a.family = t.addr.family /\ ~ Contains(t, a)
    BY <2>3, <2>4, RestrictedHasOutside, Zenon DEF rejectUnrestrictedCIDRs
  <2> QED  BY <2>5, <2>6, Zenon DEF AddressesSeparate
<1>2. ValidatedIsAccepted
  <2> SUFFICES ASSUME main = "wiring"
               PROVE  ValidatedIsAccepted
    BY DEF ValidatedIsAccepted
  <2>1. /\ Resolving /\ ValidateHTTP(cfg) /\ validateServiceBus(cfg) /\ validateSyncStatus(cfg)
    BY DEF ConfigInv, Validate
  <2>2. AcceptedByServiceBus(cfg)
    BY <2>1, Zenon DEF validateServiceBus, AcceptedByServiceBus, Present, WellFormed, ConnectionString, ManagedIdentity
  <2>3. AcceptedByMiddleware(cfg)
    BY <2>1, Zenon DEF ValidateHTTP, AcceptedByMiddleware, Present, WellFormed, LenientFallback
  <2>4. cfg["PASSWORD_MESSAGE_TTL"].value \in Int /\ cfg["SYNC_STATUS_TERMINAL_TTL"].value \in Int
    <3>1. \A v \in DOMAIN StrictFallback : v \in DOMAIN environ \ Secrets
      <4>1. DOMAIN StrictFallback \subseteq DOMAIN environ
        BY <2>1, StartupAssumption, Zenon DEF Resolving
      <4>2. \A v \in DOMAIN StrictFallback : v \notin Secrets
        BY DEF StrictFallback, Secrets
      <4> QED  BY <4>1, <4>2, Zenon
    <3>2. \A v \in DOMAIN StrictFallback : cfg[v].value \in Int
      BY <2>1, <3>1, Loaded, Zenon DEF Resolving
    <3>3. "PASSWORD_MESSAGE_TTL" \in DOMAIN StrictFallback /\ "SYNC_STATUS_TERMINAL_TTL" \in DOMAIN StrictFallback
      BY DEF StrictFallback
    <3> QED  BY <3>2, <3>3, SMTT(30)
  <2>5. Redis(cfg) => AcceptedByRedis(cfg)
    <3>1. \A x \in Int : x >= 2 => x \div 2 >= 1
      OBVIOUS
    <3>2. Redis(cfg) => /\ cfg["PASSWORD_MESSAGE_TTL"].value >= 2 /\ cfg["SYNC_STATUS_TERMINAL_TTL"].value >= 2
                        /\ WellFormed(cfg, {"REDIS_HOST", "AZURE_CLIENT_ID"}) /\ Present(cfg, {"REDIS_KEY_PREFIX"})
                        /\ cfg["REDIS_PORT"].value \in Port
      <4>1. Redis(cfg) => cfg["SYNC_STATUS_STORE"] # "memory"
        BY DEF Redis
      <4> QED  BY <2>1, <4>1, Zenon DEF validateSyncStatus, Millisecond
    <3>3. Redis(cfg) => /\ cfg["PASSWORD_MESSAGE_TTL"].value \div 2 >= 1
                        /\ cfg["SYNC_STATUS_TERMINAL_TTL"].value \div 2 >= 1
      BY <3>1, <3>2, <2>4, Zenon
    <3> QED  BY <3>2, <3>3, Zenon DEF AcceptedByRedis, Millisecond
  <2>6. \A default \in {300, 600} : TTLOr(cfg["PASSWORD_MESSAGE_TTL"].value, default) = cfg["PASSWORD_MESSAGE_TTL"].value
    BY <2>1, <2>4 DEF validateServiceBus, TTLOr
  <2> QED  BY <2>2, <2>3, <2>5, <2>6, Zenon DEF ValidatedIsAccepted
<1>3. SecretsComeFromSource
  <2> SUFFICES ASSUME main = "wiring"
               PROVE  SecretsComeFromSource
    BY DEF SecretsComeFromSource
  <2>1. Resolving /\ reads = <<>>
    BY DEF ConfigInv
  <2>2. Elements(reads) = {}
    BY <2>1 DEF Elements
  <2>3. ManagedIdentity(cfg) => ~ ConnectionString(cfg)
    BY DEF ManagedIdentity, ConnectionString
  <2> QED  BY <2>1, <2>2, <2>3 DEF SecretsComeFromSource, Resolving
<1> QED  BY <1>1, <1>2, <1>3

\* Load and the reads from Key Vault establish the configuration step by step.
LEMMA ConfigKept ==
  ASSUME ConfigInv, Next
  PROVE  ConfigInv'
<1>1. CASE Resolve
  <2> DEFINE c == Load(environ)
  <2>1. main = "loading" /\ environ \in Environments /\ reads = <<>>
    BY <1>1 DEF Resolve, ConfigInv
  <2>2. c["SECRETS_SOURCE"] = Trim(environ["SECRETS_SOURCE"]) /\ DOMAIN c = DOMAIN environ
    BY <2>1, Loaded
  <2> HIDE DEF c
  <2>3. \/ main' = "closing"
        \/ c["SECRETS_SOURCE"] = "env" /\ main' = "loaded" /\ cfg' = c /\ UNCHANGED <<environ, reads>>
        \/ /\ c["SECRETS_SOURCE"] = "keyvault" /\ main' = "resolving" /\ cfg' = c /\ UNCHANGED environ
           /\ reads' = <<"HOOK_HMAC_SECRET">>
                       \o (IF ManagedIdentity(c) THEN <<>> ELSE <<"SERVICEBUS_CONNECTION_STRING">>)
                       \o <<"GRAPH_CLIENT_SECRET", "PASSWORD_ENCRYPTION_KEY_B64">>
    BY <1>1, Zenon DEF Resolve, ResolveFails, c
  <2>4. CASE main' = "closing"
    BY <2>4 DEF ConfigInv
  <2>5. CASE c["SECRETS_SOURCE"] = "env" /\ main' = "loaded" /\ cfg' = c /\ UNCHANGED <<environ, reads>>
    <3>1. environ["SECRETS_SOURCE"] = "env"
      BY <2>2, <2>5, Zenon DEF Trim
    <3>2. Secrets \subseteq DOMAIN environ
      BY <2>1, StartupAssumption
    <3>3. Resolving'
      BY <2>1, <2>2, <2>5, <3>1, <3>2 DEF Resolving, c
    <3> QED  BY <2>1, <2>5, <3>3 DEF ConfigInv
  <2>6. CASE /\ c["SECRETS_SOURCE"] = "keyvault" /\ main' = "resolving" /\ cfg' = c /\ UNCHANGED environ
             /\ reads' = <<"HOOK_HMAC_SECRET">>
                         \o (IF ManagedIdentity(c) THEN <<>> ELSE <<"SERVICEBUS_CONNECTION_STRING">>)
                         \o <<"GRAPH_CLIENT_SECRET", "PASSWORD_ENCRYPTION_KEY_B64">>
    <3>1. environ["SECRETS_SOURCE"] # "env"
      BY <2>2, <2>6, Zenon DEF Trim
    <3>2. ManagedIdentity(c) \in BOOLEAN
      BY DEF ManagedIdentity
    <3>3. /\ reads' \in Seq(Secrets) /\ reads' # <<>>
          /\ \A v \in Secrets : v \in Elements(reads') \/ (ManagedIdentity(c) /\ v = "SERVICEBUS_CONNECTION_STRING")
      BY <2>6, <3>2, ReadsShape, Zenon
    <3>4. Elements(reads)' = Elements(reads') /\ ManagedIdentity(cfg)' = ManagedIdentity(c)
      BY <2>6 DEF Elements, ManagedIdentity
    <3>5. Resolving'
      BY <2>1, <2>2, <2>6, <3>1, <3>3, <3>4 DEF Resolving, c
    <3> QED  BY <2>6, <3>1, <3>3, <3>5 DEF ConfigInv
  <2> QED  BY <2>3, <2>4, <2>5, <2>6
<1>2. CASE GetRequiredSecret
  <2>1. CASE main' = "closing"
    BY <2>1 DEF ConfigInv
  <2>2. CASE main' # "closing"
    <3>1. /\ main = "resolving" /\ Resolving
          /\ reads \in Seq(Secrets) /\ reads # <<>> /\ environ["SECRETS_SOURCE"] # "env"
      BY <1>2, Zenon DEF GetRequiredSecret, ConfigInv
    <3>2. PICK value \in VaultText :
            /\ Trim(value) # "" /\ cfg' = [cfg EXCEPT ![Head(reads)] = Trim(value)]
            /\ reads' = Tail(reads) /\ main' = (IF reads' = <<>> THEN "loaded" ELSE main) /\ UNCHANGED environ
      BY <1>2, <2>2, Zenon DEF GetRequiredSecret, ResolveFails
    <3>3. Trim(value) \in VaultText \ {"blank"}
      BY <3>2, Zenon DEF Trim, VaultText
    <3>4. /\ Elements(reads) = {Head(reads)} \cup Elements(Tail(reads))
          /\ Head(reads) \in Secrets /\ Tail(reads) \in Seq(Secrets)
      BY <3>1, ElementsHead
    <3>5. Secrets \subseteq DOMAIN environ /\ "SERVICEBUS_AUTH_MODE" \in DOMAIN environ \ Secrets
      BY <3>1, StartupAssumption DEF Resolving, Secrets
    <3>6. /\ DOMAIN cfg' = DOMAIN cfg
          /\ \A v \in DOMAIN cfg : cfg'[v] = IF v = Head(reads) THEN Trim(value) ELSE cfg[v]
      BY <3>2, Zenon
    <3>8. \A v \in DOMAIN environ \ Secrets : cfg'[v] = cfg[v]
      BY <3>1, <3>4, <3>6 DEF Resolving
    <3>7. UNCHANGED ManagedIdentity(cfg) /\ Elements(reads)' = Elements(Tail(reads))
      <4>1. cfg'["SERVICEBUS_AUTH_MODE"] = cfg["SERVICEBUS_AUTH_MODE"]
        BY <3>5, <3>8
      <4> QED  BY <4>1, <3>2, Zenon DEF ManagedIdentity, Elements
    <3>9. ASSUME NEW v \in Secrets
          PROVE  \/ v \in Elements(Tail(reads)) \/ cfg'[v] \in VaultText \ {"blank"}
                 \/ v = "SERVICEBUS_CONNECTION_STRING" /\ ManagedIdentity(cfg)
      <4>1. CASE v = Head(reads)
        BY <4>1, <3>1, <3>3, <3>5, <3>6, SMTT(30) DEF Resolving
      <4>2. CASE v # Head(reads)
        <5>1. cfg'[v] = cfg[v]
          BY <4>2, <3>1, <3>5, <3>6, SMTT(30) DEF Resolving
        <5> QED  BY <4>2, <5>1, <3>1, <3>4, SMTT(30) DEF Resolving
      <4> QED  BY <4>1, <4>2
    <3>10. Resolving'
      BY <3>1, <3>2, <3>6, <3>7, <3>8, <3>9, Zenon DEF Resolving
    <3> QED  BY <3>1, <3>2, <3>4, <3>10, Zenon DEF ConfigInv
  <2> QED  BY <2>1, <2>2
<1>3. CASE New
  <2>1. CASE main' = "closing"
    BY <2>1 DEF ConfigInv
  <2>2. CASE main' # "closing"
    <3>1. main = "loaded" /\ main' = "wiring" /\ Validate(cfg) /\ UNCHANGED <<environ, cfg, reads>>
      BY <1>3, <2>2, SMTT(30) DEF New, startupVars
    <3>2. Validate(cfg)' = Validate(cfg) /\ Resolving' = Resolving
      BY <3>1 DEF Resolving, Elements
    <3> QED  BY <3>1, <3>2 DEF ConfigInv
  <2> QED  BY <2>1, <2>2
<1>4. CASE Wire
  <2>1. \/ main' \in {"closing", "running"}
        \/ UNCHANGED <<main, environ, cfg, reads>>
    BY <1>4 DEF Wire, Open, WiringFails, Run, startupVars
  <2> QED  BY <2>1, SMTT(30) DEF ConfigInv, Resolving, Elements
<1>5. CASE Collect \/ CloseNext \/ CloseFlusher \/ LastFlush \/ LastPost \/ Exit
  <2>1. main' \in Ending \cup {"running"}
    BY <1>5, Zenon DEF Collect, CloseNext, CloseFlusher, LastFlush, LastPost, Exit, Ending
  <2> QED  BY <2>1, SMTT(30) DEF ConfigInv, Ending
<1>6. CASE Others
  <2>1. UNCHANGED <<main, environ, cfg, reads>>
    BY <1>6, OtherSteps DEF Others, mainVars, startupVars
  <2> QED  BY <2>1 DEF ConfigInv, Resolving, Elements
<1> QED  BY <1>1, <1>2, <1>3, <1>4, <1>5, <1>6 DEF Next, Main

\* What main knows of the configuration it loaded, for every environment and
\* every length of address.
THEOREM ConfigInvariant == Spec => []ConfigInv
<1>1. Init => ConfigInv
  BY DEF Init, LifecycleInit, ConfigInv
<1>2. ConfigInv /\ [Next]_processVars => ConfigInv'
  <2> SUFFICES ASSUME ConfigInv, [Next]_processVars PROVE ConfigInv'
    BY SMTT(30)
  <2>1. CASE UNCHANGED processVars
    BY <2>1, Zenon DEF ConfigInv, Resolving, Elements, processVars, lifecycleVars, mainVars, startupVars
  <2> QED  BY <2>1, ConfigKept
<1> QED  BY <1>1, <1>2, PTL DEF Spec

\* A process that wires its resources trusts no address as a proxy that is a
\* portal's, and each network it trusts, if it is not written as a mapped one,
\* leaves an address of its family outside.
THEOREM NetworksAreSeparate == Spec => []AddressesSeparate
  BY ConfigInvariant, ConfigSound, PTL

\* What Validate accepts is neither refused nor replaced by any constructor.
THEOREM AcceptedConfigurationsWork == Spec => []ValidatedIsAccepted
  BY ConfigInvariant, ConfigSound, PTL

\* The secrets of a process that wires its resources come from the one source it
\* was told; of those it needs from the vault none is missing.
THEOREM SecretsOfOneSource == Spec => []SecretsComeFromSource
  BY ConfigInvariant, ConfigSound, PTL

=============================================================================
