---------------------------- MODULE MCAppLifecycle ----------------------------
(***************************************************************************)
(* Environments: complete ones, each with one variable changed, and every  *)
(* pair of networks.                                                       *)
(***************************************************************************)
EXTENDS Startup, TLC

Net(bits, ones) ==
  [kind |-> "cidr", ones |-> ones, mapped |-> FALSE,
   addr |-> [family |-> 4, bits |-> [i \in 1 .. Bits |-> IF i <= ones THEN bits[i] ELSE 0]]]
Nets == {Net(a.bits, n) : a \in Address, n \in 0 .. Bits}
In6(net) == [net EXCEPT !.addr.family = 6]
Mapped(net) == [net EXCEPT !.mapped = TRUE]
Zeros == [i \in 1 .. Bits |-> 0]
Ones == [i \in 1 .. Bits |-> 1]
Garbage == [Net(Zeros, 0) EXCEPT !.kind = "odd"]
Comma == [Net(Zeros, 0) EXCEPT !.kind = "blank"]

Required ==
  {"KEY_VAULT_URL", "HOOK_HMAC_SECRET", "SERVICEBUS_CONNECTION_STRING", "SERVICEBUS_NAMESPACE_FQDN",
   "REDIS_HOST", "REDIS_PORT", "AZURE_CLIENT_ID", "PASSWORD_ENCRYPTION_KEY_B64", "GRAPH_TENANT_ID",
   "GRAPH_CLIENT_ID", "GRAPH_CLIENT_SECRET", "OTEL_EXPORTER_OTLP_ENDPOINT",
   "AZURE_MONITOR_METRIC_RESOURCE_ID", "AZURE_MONITOR_METRIC_REGION"}
Optional ==
  (DOMAIN TextFallback \ {"SERVICEBUS_AUTH_MODE", "OBSERVABILITY_EXPORTER"})
  \cup (DOMAIN StrictFallback \ {"REDIS_PORT"}) \cup DOMAIN LenientFallback
  \cup {"ENTRA_FALLBACK_DOMAIN"}

Base(secrets, bus, remote) ==
  [v \in Required |-> "text"] @@ [v \in Optional |-> ""]
  @@ [SECRETS_SOURCE |-> secrets, SERVICEBUS_AUTH_MODE |-> bus,
      SYNC_STATUS_STORE |-> IF remote THEN "redis" ELSE "memory",
      OBSERVABILITY_EXPORTER |-> IF remote THEN "azure_monitor" ELSE "",
      DIRECT_CLIENT_MODE |-> IF remote THEN "" ELSE "true",
      PORTAL_ALLOWED_CIDRS |-> {Net(Zeros, 1), Comma},
      TRUSTED_PROXY_CIDRS |-> IF remote THEN {Net(Ones, 1)} ELSE {}]

Bases ==
  {Base(s, b, r) : s \in {"env", "keyvault"}, b \in {"connection_string", "managed_identity"}, r \in BOOLEAN}

Changed(v) ==
  CASE v \in DOMAIN StrictFallback \cup DOMAIN LenientFallback -> DOMAIN Number \cup {"", "blank", "odd"}
    [] v = "SECRETS_SOURCE" -> {"", "env", "keyvault", "odd"}
    [] v = "SERVICEBUS_AUTH_MODE" -> {"", "connection_string", "managed_identity", "odd"}
    [] v = "SYNC_STATUS_STORE" -> {"", "memory", "redis", "odd"}
    [] v = "OBSERVABILITY_EXPORTER" -> {"", "none", "azure_monitor", "odd"}
    [] v = "DIRECT_CLIENT_MODE" -> {"", "true", "false", "odd"}
    [] v \in CIDRLists -> {{}, {Comma}, {Garbage}, {Net(Ones, Bits)}, {In6(Net(Ones, 1)), Net(Ones, 2)}}
    [] OTHER -> {"", "blank", "odd", "text"}

Few ==
  Bases \cup UNION {{[e EXCEPT ![v] = x] : x \in Changed(v)} : e \in Bases, v \in DOMAIN Base("env", "", TRUE)}
  \cup {[Base("env", "managed_identity", TRUE) EXCEPT !["PORTAL_ALLOWED_CIDRS"] = {p},
                                                      !["TRUSTED_PROXY_CIDRS"] = {t}] :
          p \in Nets, t \in Nets \cup {In6(n) : n \in Nets}}
  \cup {[Base("env", "managed_identity", TRUE) EXCEPT !["PORTAL_ALLOWED_CIDRS"] = {p},
                                                      !["TRUSTED_PROXY_CIDRS"] = {Mapped(t)}] :
          p \in {Net(Zeros, 1), In6(Net(Zeros, 1)), Mapped(Net(Zeros, 1))}, t \in Nets}

=============================================================================
