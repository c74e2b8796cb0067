-------------------------------- MODULE Config --------------------------------
(***************************************************************************)
(* internal/config: what Load makes of the environment, which              *)
(* configurations Validate accepts, and what the constructors that         *)
(* internal/app calls with an accepted one ask of it or replace in it.     *)
(*                                                                         *)
(* A configuration is indexed by the names of the environment variables.   *)
(* Texts are classes: "" is unset, "blank" has only spaces, "odd" lacks    *)
(* the format that its reader asks for, "text" is anything else that is    *)
(* not the name of a mode.  Of numbers and durations only the order counts.*)
(***************************************************************************)
EXTENDS Integers

CONSTANT Bits        \* length of an address

ASSUME ConfigAssumption == Bits \in Nat \ {0}

Address == [family : {4, 6}, bits : [1 .. Bits -> {0, 1}]]

\* The entries of a list of CIDRs, with the network address of a valid one.  A
\* network of IPv4 addresses is mapped if it is written as one of IPv6, below
\* ::ffff:0:0/96.
Entry == [kind : {"blank", "odd", "cidr"}, addr : Address, ones : 0 .. Bits, mapped : BOOLEAN]

-----------------------------------------------------------------------------
Trim(text) == IF text = "blank" THEN "" ELSE text

\* The texts that parse as numbers, and their values.
Number == [negative |-> -1, zero |-> 0, tiny |-> 1, text |-> 1000, huge |-> 65536]
Millisecond == 2
Port == 1 .. 65535

TextFallback ==
  [v \in {"KEY_VAULT_HMAC_SECRET_NAME", "KEY_VAULT_SERVICEBUS_CONNECTION_STRING_NAME",
          "KEY_VAULT_GRAPH_CLIENT_SECRET_NAME", "KEY_VAULT_PASSWORD_ENCRYPTION_KEY_NAME",
          "HTTP_ADDR", "ENTRA_PRIMARY_DOMAIN", "PROBLEM_BASE_URL", "SERVICEBUS_AUTH_MODE",
          "SERVICEBUS_QUEUE_NAME", "SERVICEBUS_DEADLETTER_QUEUE_NAME", "REDIS_KEY_PREFIX",
          "PASSWORD_ENCRYPTION_KEY_ID", "OBSERVABILITY_EXPORTER", "AZURE_MONITOR_METRIC_NAMESPACE"}
     |-> CASE v = "SERVICEBUS_AUTH_MODE" -> "connection_string"
           [] v = "OBSERVABILITY_EXPORTER" -> "none"
           [] OTHER -> "text"]

StrictFallback ==
  [REDIS_PORT |-> 0, PASSWORD_MESSAGE_TTL |-> 300, SYNC_STATUS_TERMINAL_TTL |-> 7776]

LenientFallback == [RATE_LIMIT_PER_IP |-> 500, RATE_LIMIT_WINDOW |-> 100, HOOK_MAX_BODY_BYTES |-> 64]

CIDRLists == {"PORTAL_ALLOWED_CIDRS", "TRUSTED_PROXY_CIDRS"}

env(text, fallback) == IF Trim(text) = "" THEN fallback ELSE Trim(text)

boolEnv(text) ==
  [value |-> text = "true", err |-> Trim(text) \notin {"", "true", "false"}]

\* A malformed number is an error that Validate reports.
strictEnv(text, fallback) ==
  [value |-> IF Trim(text) = "" THEN fallback
             ELSE IF text \in DOMAIN Number THEN Number[text] ELSE 0,
   err |-> Trim(text) \notin {""} \cup DOMAIN Number]

\* A malformed number is the fallback.
lenientEnv(text, fallback) == IF text \in DOMAIN Number THEN Number[text] ELSE fallback

csvEnv(list) == {entry \in list : entry.kind # "blank"}

Load(environ) ==
  [v \in DOMAIN environ |->
     CASE v \in DOMAIN TextFallback -> env(environ[v], TextFallback[v])
       [] v \in DOMAIN StrictFallback -> strictEnv(environ[v], StrictFallback[v])
       [] v \in DOMAIN LenientFallback -> lenientEnv(environ[v], LenientFallback[v])
       [] v \in CIDRLists -> csvEnv(environ[v])
       [] v = "DIRECT_CLIENT_MODE" -> boolEnv(environ[v])
       [] v = "HOOK_HMAC_SECRET" -> environ[v]
       [] OTHER -> Trim(environ[v])]

-----------------------------------------------------------------------------
Present(c, names) == \A v \in names : Trim(c[v]) # ""
WellFormed(c, names) == \A v \in names : Trim(c[v]) \notin {"", "odd"}

ManagedIdentity(c) == c["SERVICEBUS_AUTH_MODE"] = "managed_identity"
ConnectionString(c) == c["SERVICEBUS_AUTH_MODE"] \in {"", "connection_string"}
Redis(c) == c["SYNC_STATUS_STORE"] = "redis"
AzureMonitor(c) == c["OBSERVABILITY_EXPORTER"] = "azure_monitor"

ValidateSecretLoadingInputs(c) ==
  \/ c["SECRETS_SOURCE"] = "env"
  \/ /\ c["SECRETS_SOURCE"] = "keyvault"
     /\ WellFormed(c, {"KEY_VAULT_URL"})
     /\ Present(c, {"KEY_VAULT_HMAC_SECRET_NAME", "KEY_VAULT_GRAPH_CLIENT_SECRET_NAME",
                    "KEY_VAULT_PASSWORD_ENCRYPTION_KEY_NAME"})
     /\ ManagedIdentity(c) \/ Present(c, {"KEY_VAULT_SERVICEBUS_CONNECTION_STRING_NAME"})

\* net.IPNet.Contains, which takes a mapped network for the one of IPv4.
Contains(net, a) ==
  a.family = net.addr.family /\ \A i \in 1 .. net.ones : a.bits[i] = net.addr.bits[i]

validateCIDRs(list) == \A entry \in list : entry.kind = "cidr"

\* network.Mask.Size(), which counts the bits of a mapped one as written.
MaskSize(net) == IF net.mapped THEN 96 + net.ones ELSE net.ones

rejectUnrestrictedCIDRs(list) == \A entry \in list : MaskSize(entry) # 0

RejectContainedOnly(trusted, portal) ==
  \A t \in trusted, p \in portal : ~ Contains(p, t.addr)

rejectOverlappingCIDRs(trusted, portal) ==
  \A t \in trusted, p \in portal : ~ Contains(t, p.addr) /\ ~ Contains(p, t.addr)

\* HMACClockSkew and NonceTTL, which it also tests, are fixed and positive.
ValidateHTTP(c) ==
  LET portal == c["PORTAL_ALLOWED_CIDRS"]
      trusted == c["TRUSTED_PROXY_CIDRS"]
  IN  /\ ~ c["DIRECT_CLIENT_MODE"].err
      /\ Present(c, {"HTTP_ADDR", "HOOK_HMAC_SECRET"})
      /\ WellFormed(c, {"ENTRA_PRIMARY_DOMAIN", "PROBLEM_BASE_URL"})
      /\ c["ENTRA_FALLBACK_DOMAIN"] # "odd"
      /\ portal # {} /\ (c["DIRECT_CLIENT_MODE"].value <=> trusted = {})
      /\ \A v \in DOMAIN LenientFallback : c[v] > 0
      /\ validateCIDRs(portal) /\ validateCIDRs(trusted)
      /\ rejectUnrestrictedCIDRs(trusted) /\ rejectOverlappingCIDRs(trusted, portal)

validateServiceBus(c) ==
  /\ ~ c["PASSWORD_MESSAGE_TTL"].err
  /\ \/ ConnectionString(c) /\ Present(c, {"SERVICEBUS_CONNECTION_STRING"})
     \/ ManagedIdentity(c) /\ WellFormed(c, {"SERVICEBUS_NAMESPACE_FQDN"})
  /\ Present(c, {"SERVICEBUS_QUEUE_NAME", "SERVICEBUS_DEADLETTER_QUEUE_NAME"})
  /\ c["PASSWORD_MESSAGE_TTL"].value > 0

AcceptAnyTTL(c) ==
  /\ ~ c["REDIS_PORT"].err /\ ~ c["SYNC_STATUS_TERMINAL_TTL"].err
  /\ \/ c["SYNC_STATUS_STORE"] = "memory"
     \/ /\ Redis(c)
        /\ WellFormed(c, {"REDIS_HOST", "AZURE_CLIENT_ID"}) /\ Present(c, {"REDIS_KEY_PREFIX"})
        /\ c["REDIS_PORT"].value \in Port

validateSyncStatus(c) ==
  /\ ~ c["REDIS_PORT"].err /\ ~ c["SYNC_STATUS_TERMINAL_TTL"].err
  /\ \/ c["SYNC_STATUS_STORE"] = "memory"
     \/ /\ Redis(c)
        /\ WellFormed(c, {"REDIS_HOST", "AZURE_CLIENT_ID"}) /\ Present(c, {"REDIS_KEY_PREFIX"})
        /\ c["REDIS_PORT"].value \in Port
        /\ c["PASSWORD_MESSAGE_TTL"].value >= Millisecond
        /\ c["SYNC_STATUS_TERMINAL_TTL"].value >= Millisecond

validateObservability(c) ==
  \/ c["OBSERVABILITY_EXPORTER"] \in {"", "none"}
  \/ AzureMonitor(c) /\ Present(c, {"OTEL_EXPORTER_OTLP_ENDPOINT", "AZURE_MONITOR_METRIC_RESOURCE_ID",
                                    "AZURE_MONITOR_METRIC_REGION", "AZURE_MONITOR_METRIC_NAMESPACE"})

Validate(c) ==
  /\ ValidateSecretLoadingInputs(c) /\ ValidateHTTP(c) /\ validateServiceBus(c)
  /\ validateSyncStatus(c) /\ validateObservability(c)
  /\ Present(c, {"PASSWORD_ENCRYPTION_KEY_B64", "PASSWORD_ENCRYPTION_KEY_ID", "GRAPH_TENANT_ID",
                 "GRAPH_CLIENT_ID", "GRAPH_CLIENT_SECRET"})

-----------------------------------------------------------------------------
\* What the constructors refuse, or replace by a default, without an error of a
\* library: the clients of Service Bus,
AcceptedByServiceBus(c) ==
  /\ ManagedIdentity(c) \/ ConnectionString(c)
  /\ ManagedIdentity(c) => Present(c, {"SERVICEBUS_NAMESPACE_FQDN", "SERVICEBUS_QUEUE_NAME",
                                       "SERVICEBUS_DEADLETTER_QUEUE_NAME"})
  /\ ConnectionString(c) => Present(c, {"SERVICEBUS_CONNECTION_STRING"})

\* NewWithClient and NewService both put their default in place of ttl <= 0.
TTLOr(ttl, default) == IF ttl <= 0 THEN default ELSE ttl

\* validateRedisOptions, and what PEXPIRE gets: whole milliseconds,
AcceptedByRedis(c) ==
  /\ WellFormed(c, {"REDIS_HOST", "AZURE_CLIENT_ID"}) /\ Present(c, {"REDIS_KEY_PREFIX"})
  /\ c["REDIS_PORT"].value \in Port
  /\ c["PASSWORD_MESSAGE_TTL"].value \div Millisecond >= 1
  /\ c["SYNC_STATUS_TERMINAL_TTL"].value \div Millisecond >= 1

\* NewHMACWithOptions and NewRateLimiter.
AcceptedByMiddleware(c) ==
  /\ Present(c, {"HOOK_HMAC_SECRET"}) /\ c["HOOK_MAX_BODY_BYTES"] > 0
  /\ c["RATE_LIMIT_PER_IP"] > 0 /\ c["RATE_LIMIT_WINDOW"] > 0
  /\ Present(c, {"PROBLEM_BASE_URL"})

\* NewCodecFromBase64: the key is 32 bytes in Base64, which Validate leaves to it.
AcceptedByCodec(c) ==
  WellFormed(c, {"PASSWORD_ENCRYPTION_KEY_B64"}) /\ c["PASSWORD_ENCRYPTION_KEY_ID"] # ""

=============================================================================
