------------------------------- MODULE Startup -------------------------------
(***************************************************************************)
(* cmd/server/main.go with internal/secretloader: the configuration is     *)
(* loaded, its secrets are read from Key Vault one by one, app.New         *)
(* validates it, and the life of the process begins.                       *)
(***************************************************************************)
EXTENDS Config, AppLifecycle

CONSTANT Environments    \* the environments the process may be started with

\* What Key Vault may hold the values of.
Secrets ==
  {"HOOK_HMAC_SECRET", "SERVICEBUS_CONNECTION_STRING", "GRAPH_CLIENT_SECRET", "PASSWORD_ENCRYPTION_KEY_B64"}

ASSUME StartupAssumption ==
  \A e \in Environments :
    /\ CIDRLists \cup DOMAIN StrictFallback \cup Secrets \cup {"SECRETS_SOURCE", "SERVICEBUS_AUTH_MODE"} \subseteq DOMAIN e
    /\ \A v \in CIDRLists : e[v] \subseteq Entry

VARIABLES
  environ,               \* the environment
  cfg,                   \* the Config that main holds
  reads                  \* the secrets left to read

startupVars == <<environ, cfg, reads>>
processVars == <<lifecycleVars, startupVars>>

Nothing == <<>>

\* main and New are done with the configuration.
Forget == environ' = Nothing /\ cfg' = Nothing /\ reads' = <<>>

-----------------------------------------------------------------------------
\* Resolve returns an error, and no configuration.
ResolveFails ==
  /\ main' = "closing" /\ err' = err \cup {"load"} /\ failures' = failures \cup {"load"}
  /\ Forget

\* Resolve up to the first read; NewKeyVaultGetter may fail.
Resolve ==
  /\ main = "loading"
  /\ LET c == Load(environ)
     IN  \/ ~ ValidateSecretLoadingInputs(c) /\ ResolveFails
         \/ /\ ValidateSecretLoadingInputs(c) /\ c["SECRETS_SOURCE"] = "env"
            /\ main' = "loaded" /\ cfg' = c /\ UNCHANGED <<environ, reads, err, failures>>
         \/ /\ ValidateSecretLoadingInputs(c) /\ c["SECRETS_SOURCE"] = "keyvault"
            /\ \/ May("secrets") /\ ResolveFails
               \/ /\ main' = "resolving" /\ cfg' = c
                  /\ reads' = <<"HOOK_HMAC_SECRET">>
                              \o (IF ManagedIdentity(c) THEN <<>> ELSE <<"SERVICEBUS_CONNECTION_STRING">>)
                              \o <<"GRAPH_CLIENT_SECRET", "PASSWORD_ENCRYPTION_KEY_B64">>
                  /\ UNCHANGED <<environ, err, failures>>
  /\ UNCHANGED <<resources, opened, toClose, closed, completed, ctxVars, serverVars, workVars,
                 errCh, flusherVars, metricVars>>

\* What Key Vault may hold: a secret of its own, a malformed one, or spaces.
VaultText == {"vault", "odd", "blank"}

\* An unreadable secret is left at what the environment says.
GetOptionalSecret ==
  /\ main = "resolving"
  /\ \E value \in VaultText :
       cfg' = IF Trim(value) = "" THEN cfg ELSE [cfg EXCEPT ![Head(reads)] = Trim(value)]
  /\ reads' = Tail(reads)
  /\ main' = IF reads' = <<>> THEN "loaded" ELSE main
  /\ UNCHANGED <<environ, resources, opened, toClose, closed, completed, err, ctxVars, serverVars,
                 workVars, errCh, flusherVars, metricVars, failures>>

\* getRequiredSecret for the next one: the read fails, also because of a
\* signal, or the secret is empty, or it takes its place.
GetRequiredSecret ==
  /\ main = "resolving"
  /\ \/ May("secrets") /\ ResolveFails
     \/ \E value \in VaultText :
          \/ Trim(value) = "" /\ ResolveFails
          \/ /\ Trim(value) # ""
             /\ cfg' = [cfg EXCEPT ![Head(reads)] = Trim(value)]
             /\ reads' = Tail(reads)
             /\ main' = IF reads' = <<>> THEN "loaded" ELSE main
             /\ UNCHANGED <<environ, err, failures>>
  /\ UNCHANGED <<resources, opened, toClose, closed, completed, ctxVars, serverVars, workVars,
                 errCh, flusherVars, metricVars>>

\* The closers that New will collect.
Closers(c) ==
  (IF AzureMonitor(c) THEN <<"otel", "flusher">> ELSE <<>>)
  \o <<"queue", "receiver", "dlq">>
  \o (IF Redis(c) THEN <<"redis">> ELSE <<>>)

\* New validates first; its error is one of New.
New ==
  /\ main = "loaded"
  /\ \/ /\ Validate(cfg)
        /\ main' = "wiring" /\ resources' = Closers(cfg)
        /\ UNCHANGED <<err, failures, startupVars>>
     \/ /\ ~ Validate(cfg)
        /\ main' = "closing" /\ err' = err \cup {"wiring"} /\ failures' = failures \cup {"wiring"}
        /\ Forget /\ UNCHANGED resources
  /\ UNCHANGED <<opened, toClose, closed, completed, ctxVars, serverVars, workVars, errCh,
                 flusherVars, metricVars>>

\* New goes on; the codec is the last constructor that looks at cfg.
Wire ==
  \/ Open /\ UNCHANGED startupVars
  \/ WiringFails /\ Forget
  \/ main = "wiring" /\ AcceptedByCodec(cfg) /\ Run /\ Forget

-----------------------------------------------------------------------------
Init ==
  /\ LifecycleInit
  /\ environ \in Environments /\ cfg = Nothing /\ reads = <<>>

Main ==
  \/ Resolve \/ GetRequiredSecret \/ New \/ Wire
  \/ (Collect \/ CloseNext \/ CloseFlusher \/ LastFlush \/ LastPost \/ Exit) /\ UNCHANGED startupVars

Others ==
  /\ \/ Signal
     \/ \E h \in Handler : Alive /\ (Accept(h) \/ Finish(h))
     \/ Alive /\ (ListenerFails \/ Server \/ Flusher \/ WorkerReturns \/ WorkerFails)
     \/ \E j \in Job : Alive /\ Process(j)
  /\ UNCHANGED startupVars

Next == Main \/ Others

Spec == Init /\ [][Next]_processVars

\* Goroutines are scheduled; calls to Azure return, if only because their
\* context is done; the worker sees the cancellation (CancelStops of
\* PasswordSync).  Requests need not end.
FairSpec ==
  /\ Spec
  /\ WF_processVars(Main)
  /\ WF_processVars(Alive /\ Server /\ UNCHANGED startupVars)
  /\ WF_processVars(Alive /\ WorkerReturns /\ UNCHANGED startupVars)
  /\ WF_processVars(Alive /\ FlushPosts /\ UNCHANGED startupVars)
  /\ WF_processVars(Alive /\ FlusherStops /\ UNCHANGED startupVars)

-----------------------------------------------------------------------------
\* No address is both a trusted proxy and a portal, for the sets of addresses
\* that the networks are, not only for the network addresses that ValidateHTTP
\* compares: resolveSourceIP then never looks behind a portal.  And a trusted
\* network leaves an address of its family outside, unless it is all of IPv4
\* written as a network of IPv6, whose mask is not empty.
AddressesSeparate ==
  main = "wiring" =>
    /\ \A a \in Address : ~ \E t \in cfg["TRUSTED_PROXY_CIDRS"], p \in cfg["PORTAL_ALLOWED_CIDRS"] :
                              Contains(t, a) /\ Contains(p, a)
    /\ \A t \in cfg["TRUSTED_PROXY_CIDRS"] :
         ~ t.mapped => \E a \in Address : a.family = t.addr.family /\ ~ Contains(t, a)

\* What Validate has accepted, no constructor refuses, and none replaces by a
\* default of its own: in particular the queue, the service and Redis work with
\* one PASSWORD_MESSAGE_TTL, and Redis is never told to expire a key at once.
\* Only the format of the encryption key is left to its codec.
ValidatedIsAccepted ==
  main = "wiring" =>
    /\ AcceptedByServiceBus(cfg) /\ AcceptedByMiddleware(cfg)
    /\ Redis(cfg) => AcceptedByRedis(cfg)
    /\ LET ttl == cfg["PASSWORD_MESSAGE_TTL"].value
       IN  \A default \in {300, 600} : TTLOr(ttl, default) = ttl

\* The secrets a process works with all come from the source it was told: with
\* SECRETS_SOURCE=keyvault none of those in use is left from the environment,
\* however a read or a signal ends the loading, and otherwise all are.
SecretsComeFromSource ==
  main = "wiring" =>
    \A v \in Secrets \ (IF ConnectionString(cfg) THEN {} ELSE {"SERVICEBUS_CONNECTION_STRING"}) :
      IF environ["SECRETS_SOURCE"] = "env" THEN cfg[v] = Load(environ)[v]
      ELSE cfg[v] \in VaultText \ {"blank"} /\ reads = <<>>

=============================================================================
