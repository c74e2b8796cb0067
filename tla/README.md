# Formal model of the password hook service

TLA+ modules for the service in this repository, TLC configurations that check
them on small instances and TLAPS proofs that hold for every instance.
`PROJECT.json` is the index: components, runs, the definition-to-source map,
hazards, findings, theorems and, for each property of a passing run, a mutation
of the code's model that the property catches.

## The system

A portal posts password events. A replica authenticates the request (rate
limit, HMAC, nonce), decides whether the event needs work (`migration.Submit`),
encrypts the password and puts a message on an Azure Service Bus queue. A worker
loop, one in each replica, receives the message, decrypts the password, writes
it to Microsoft Graph with retries, records a terminal failure in a
password-safe dead-letter queue, and settles the message. Requests and workers
of all replicas share a sync-status record per account (Redis or in memory),
which `login_bootstrap` events consult to skip work already done. Before any of
this, `main` loads the configuration, reads the secrets and wires the parts. The
connections of the Redis client get their tokens from a credentials provider,
which is closed with the store.

### Inventory

| Part | State | Operations | What is hard about it |
|---|---|---|---|
| `internal/syncstatus` (store) | a record per UPN, its TTL | Get, MarkPending, MarkSynced, MarkFailed | writers in any order, repeats, expiry that forgets the ordering guard |
| `internal/syncstatus` (credentials provider) | listeners, closed flag, token manager | Subscribe, unsubscribe, OnNext, Close | token read before joining the list, notification over a snapshot, racing closers |
| `internal/migration` (service) | one decision per request | Submit | reads the status, then acts; ambiguous send; death between calls |
| `internal/migration` (classifier, UPN) | none | ClassifyCN, BuildUPN | two spellings, one account or two |
| `internal/servicebusqueue` | messages, locks | send, receive, complete, abandon, safe dead-letter write | locks run out, replies get lost, delivery limit, TTL |
| `internal/worker`, `graphprocessor`, `passwordcrypto` | message in hand, attempts | Run, processMessage, processPasswordSync | cancellation and crash between any two calls, retries, two holders of one message |
| `internal/graphclient` | none (the directory is external) | lookup, patch, create | lookup/create race, writes whose answer is lost |
| `internal/middleware/ratelimit.go` | counts per address | Wrap, allow | clock read before the lock, forwarded chains |
| `internal/middleware/hmac.go` | nonces seen | Wrap, Use | clock read before the lock, sweep by other requests |
| `internal/handler`, `recovery.go` | none | ServeHTTP | error paths |
| `internal/app`, `httpserver`, `cmd/server` | resources, goroutines, error channel | New, Run, Shutdown, Close | failure half-way through wiring, two halves failing together |
| `internal/azuremonitor` | points | add, Flush, periodic flush | final flush against a periodic one |
| `internal/config` | the settings | Load, Validate | lenient and strict readers, networks that overlap, what Validate accepts and a constructor does not |
| `internal/secretloader` | secrets read so far | Resolve | failure or signal between two reads |
| logging, problem, request ids, OTel set-up | none | | pure output, not modelled |

## Modules

| Module | Models | State and actions |
|---|---|---|
| `Clock` | `time.Now`, broker and Redis time | `clock`; `Advance` |
| `SyncStatus` | `status.go`, `redis.go` | `records`, `expiry`; `set` with the guard `Outdated`, the three `Mark…`, `ExpireKeys` |
| `StatusStore` | the Store contract by itself | any `Mark` by anyone at any time; history `offered` |
| `ServiceBus` | `queue.go`, `deadletter.go`, the broker | `queue`, `holder`, `deliveries`, `sentAt`, `safeDLQ`; receive, complete, abandon, lock and message expiry |
| `Graph` | `client.go`, the directory | `accounts`; `Lookup`, `Write`, `classifyGraphResponse`; histories `written`, `refused` |
| `Worker` | `worker.go` with decrypt and upsert | `pc` per loop, message in hand, attempts, cancellation; one action for each stretch of code between two points where something else can happen |
| `Migration` | `service.go` Submit | `req` per event; `Submit`, `Stamp`, `Send`, `Acknowledge`, `Die` |
| `PasswordSync` | the composition | requests, broker, workers, lifecycle and time interleaved |
| `Delivery` | what the pipeline promises | a message ends once, settled with evidence or dropped by the broker |
| `RateLimiter` | `ratelimit.go` | `Arrive` (resolve, allowlist, read the clock), `Limit` (under the lock) |
| `HMAC` | `hmac.go`, `ServeHTTP`, recovery | `Wrap` (checks in order), `EnterUse` (read the clock), `Use` (sweep and insert), `ServeHTTP` |
| `Credentials` | the managed-identity half of `redis.go` | `listeners`, `mu`, `closed`, `once`; the manager's goroutine (`OnNotice`, `Tell`), `Subscribe`, `GetToken`, `Add`, `Unsubscribe`, and `Close` with its `sync.Once` |
| `Identity` | `classifier.go`, `upn.go`, `normalizeUPN` | operators on texts |
| `Config` | `config.go` | operators: `Load`, `Validate` and its parts, and what each constructor accepts |
| `AppLifecycle` | `app.go`, `server.go`, `main.go`, `metrics.go` | wiring, server, worker, closing and flusher as concurrent processes |
| `Startup` | `main.go`, `secretloader.go` with `Config` and `AppLifecycle` | `environ`, `cfg`, `reads`; `Resolve`, `GetRequiredSecret`, `New`, then the life of the process with the resources that this configuration asks for |
| `MC…` | | constants of the runs |
| `…Proofs` | | theorems and their lemmas |

`PasswordSync` `EXTENDS` `Worker` and `Migration`, which both extend `ServiceBus`
and `SyncStatus`: requests and workers act on the same queue and the same
records. A worker goes on working after its lock ran out, as the code does,
which never asks; settlement then fails.

Data is abstract: an event is a model value; its UPN, event type and identity
are constant functions (`upnOf`, `eventType`, `identityOf` stand for `BuildUPN`,
the request and `ClassifyCN`). `MCPasswordSync` gives each event a CN as a short
text and states in `AccountsAreThose` that the constants are what `Identity`'s
operators make of it; `UPNOfIdentity` compares those operators with what they
should do on all texts of up to three characters. Passwords, envelopes and JSON
bodies are reduced to whether they are accepted; a setting is one of the classes
the readers tell apart (empty, blank, malformed, a number by its range, a list
of networks over addresses of `Bits` bits). Graph's answers are status codes, classified as
the client does. One tick of the clock is one unit of the TTLs.

Broker behaviour is external: `PeekLock`, a 60 s lock without renewal, ten
deliveries, TTL. The Terraform module sets only the TTL, the others are Azure's
defaults. The model lets a lock run out at any time, which covers every duration.

## Runs

| Run | Checks | Distinct states |
|---|---|---|
| `StatusStore` | order independence, no regression, idempotent repeats, TTL | 6,065 |
| `WorkerFaults` | no silent loss, true dead-letter reasons, truth of the status although status writes get lost, refinement of `Delivery`; every message ends, a cancelled loop returns | 68,233 |
| `Pipeline` | truth of the status, backing of skips, cover of accepted events, outcomes visible once a message is completed | 542,704 |
| `FailureCause` | malformed, undecryptable and good messages together: no silent loss, true reasons, and `sync_failed` has one of its documented causes while nothing is cancelled | 1,312,208 |
| `RateLimit` | requests passed per span, forwarded chains, bounded table | 325,645 |
| `Credentials` | no subscribed connection keeps an old token, one stop of the manager, every Close returns | 73,962 |
| `Nonces` | once per signed request while it is fresh, replays have originals | 2,935,607 |
| `Lifecycle` | sound configuration with secrets of one source; no use after close, no leak, what errors and metrics become, the process ends | 487,070 |

Four runs show that the code and a statement in the repository disagree. The
statements are quoted with their places in `findings`.

- `PendingOutlives`: a pending record can outlive its message, because its window
  starts at `MarkPending`, after the message's TTL has started at the send.
- `ExpiredNotRetried`: after the newest event's message and pending record have
  expired, a late outcome of an older event is written as `synced`.
- `ShutdownFails`: a cancellation before `Decrypt` counts as a permanent failure.
- `LateRepeat`: a signed request can pass twice. `NonceTTL` is exactly twice the
  skew, and `Use` looks at the clock later than the check of the timestamp: a
  first use at the early end of the skew is forgotten when a second delivery,
  compared at the late end, reaches `Use`. What holds is `OnceWhileFresh`: one of
  the two went through `Use` after the skew was over.

Three more were met in modelling and have no run of their own, because the model
shows them by its shape:

- A safe dead-letter write that keeps failing sends the message to the native
  dead-letter queue at the broker's delivery limit, which the design (5.3) says
  is not used; `Delivery` counts it as dropped by the broker.
- `absDuration` leaves the smallest `Duration` negative, so that a signed
  timestamp more than 292 years ahead is within the skew (`WithinSkew`).
- `rejectUnrestrictedCIDRs` "rejects a trusted-proxy CIDR that matches every
  address" by its empty mask. All of IPv4 written as a network of IPv6 has a mask
  of 96 bits and passes (`MaskSize`); `AddressesSeparate` exempts networks
  written so.

### Bounds and why they are enough

- Two workers and one to three messages: the hazards are races of two holders of
  one message or of two events of one account. A third adds another pair of the
  same kind; the proofs cover any number.
- `RetryCount` 0 or 1 instead of 3: the first, a middle and the last attempt are
  told apart by comparison with `RetryCount` only, and `TypeCorrect` and
  `EntriesAreTrue` are proved for all values.
- `MaxDelivery` 1 or 2, so that redelivery happens as well as reaching the limit.
- `MaxStops` bounds cancellations and crashes: one in `WorkerFaults`, at any
  point of either worker. The safety properties were also checked with two
  stops and three deliveries (319,838 states), and are proved for any number.
- `Pipeline` has every fault of a request and none of a worker but Graph's
  refusal: `OutcomeIsVisible` is about status writes that take effect. Lost ones
  are in `WorkerFaults`, and the other properties of `Pipeline` are proved for
  every set of faults.
- `WorkerFaults` leaves out failing receives, which end in a restart without
  touching a message; repeated for ever they would keep a message on the queue
  until its TTL. `FailureCause` has them.
- `MaxTime` with TTLs of 1 to 3 ticks: before, at and after each expiry. Runs of
  the worker alone keep the clock at 0, where message TTL plays no part; lock
  expiry does not depend on the clock.
- `RateLimit`: five requests at a limit of two, so that a third window is
  reached only through waiting for the lock (`Delay` 1). Four come from one
  address; the fifth comes any way: from every peer, and through the proxy with
  every header of up to two hops, one of three, and two headers.
- `Credentials`: two connections, so that one leaves the list while the other is
  told; two callers of Close and the constructor that failed; two renewals.
- `Lifecycle`: two requests, one message, one periodic flush. The environments
  are eight complete ones (each source of secrets, each Service Bus mode, with
  and without Redis and Azure Monitor), each of them with any one variable
  changed to any class of value, and every pair of networks over three-bit
  addresses, with both address families and IPv4 written as IPv6.
- `Nonces`: `Skew` 1 and `NonceTTL` 2, in the ratio of the shipped 30 s and 60 s,
  where `NonceCoversSkew` is tight; `SweptEarly`, which forgets one tick sooner,
  already breaks the property. Time may pass anywhere. `MaxDuration` 10 stands
  for 292 years: one delivery has a timestamp beyond it. `LateRepeat` has two
  deliveries, `Skew` 2 and `NonceTTL` 4.
- `RateLimit`, `Nonces`, `Credentials` and `Lifecycle` do not check
  deadlock: all requests are answered, every Close has returned, or the process
  has exited.

Symmetry is used for workers and requests, in safety runs only.

### Fairness

- `WorkerFaults`: weak fairness of each worker's loop (a goroutine that can run
  does), of the restart of a stopped replica (the container platform restarts
  it) and of the broker's lock timer. No fairness of Graph, the dead-letter
  queue or requests. Messages end because every redelivery counts against the
  delivery limit.
- `Credentials`: weak fairness of the manager's goroutine and of a `Subscribe`
  that holds the lock: the call of the token manager is assumed to return. Strong
  fairness of each caller of Close, because a waiting writer of an `RWMutex`
  keeps later holders out.
- `Lifecycle`: weak fairness of main, server and flusher steps, and of the
  worker's return after the cancellation, which `WorkerFaults` shows
  (`CancelStops`). Calls to Azure return. Nothing makes a request end, a worker
  fail or a tick of the flusher come. `Server.Run` calls
  `Shutdown(context.Background())`, which waits without a limit; `Stops` names
  this wait as the one way in which the process does not end.

## Proofs

All theorems are checked by TLAPS with its SMT, Zenon and PTL backends.

- **Status store** (`StoreProofs`). `RecordIsNewestWrite` with the types is
  inductive; the action properties follow from `set` and `ExpireKeys`.
  `RecordsOutlivePendingWindow` needs `TTLOrder`.
- **Rate limiter** (`RequestProofs`). The types, with the bound of each count
  and of the table, are inductive once it is known that what waits for the lock
  has an allowed address. `PrefixIrrelevant` is a fact about `resolveSourceIP`
  and chains of any length: a nonempty set of positions has a last one, and a
  prefix only shifts it. `SpanBound` counts requests over several fixed windows
  of which the limiter remembers only the last one. `SpanInv` says that each
  request that passed can be given the entry of `counts` that `allow` left for
  it, a window and a place in it: no two requests of an address have the same,
  its windows do not overlap, and a request passed within its window or up to
  `Delay` after it. The step that passes a request extends the assignment
  (`LimitKeepsSlots`). `SlotsBound` then counts: the requests of a span are
  mapped injectively into the windows that reach into it times the places of a
  window. `TwiceTheLimit` is the case without a long wait for the lock: no span
  of one window sees more than twice the limit.
- **Identities** (`RequestProofs`). `UPNOfClassified` and `KeysAgree` hold for
  texts of every length: `TrimSpace` cuts to the outermost characters that are
  not spaces (`TrimIsBare`), which makes it idempotent and blind to padding.
- **Credentials** (`CredentialsProofs`). `SubscribersAreCurrent` and `ClosedOnce`
  need `LockInv` (who holds the mutex, and that a token read under it is still
  the newest or a notification is to come) and `OnceInv` (the caller that runs
  the `sync.Once` is alone; its outcome is there before anyone returns).
- **Pipeline** (`PasswordStepProofs`, `PasswordSyncProofs`).
  `NoSilentLoss` is not inductive: that a worker about to complete has evidence
  must be known while other workers, the broker and crashes act. `IInv` adds
  `InHand(w)`, what holds of the message at each program counter (at
  `complete`, evidence exists; at `deadletter` as `exhausted`, all attempts
  were made; at `mark`, the message was well formed), and `SentFirst`, that only
  a sent message is in hand, written or recorded. Evidence is never taken back,
  so `InHand` of one worker survives the steps of all others.
- **Refinement** (`PasswordSyncProofs`). Every step of the pipeline is a step of
  `Delivery` or a stutter under `FateOf` and `Evidence`.
- **Status** (`PasswordStatusProofs`). From `IInv`, and from what is known of
  `enqueuedAt` at each stage of a request: the record names an event that has
  the outcome it claims; a skip is backed by another event; an accepted event is
  covered for its window (`TTLOrder` again, so that an outcome does not expire
  before the window ends). `OutcomesAreVisible` assumes that no status write of
  a worker is lost (`"status"` is not in `Faults`; the code ignores such an
  error). `Visible` adds that a worker about to complete already finds its
  outcome in the store. It stays there: a key expires after the window
  (`Covered`), and a write at the same `EnqueuedAt` needs a higher
  `statusPrecedence`, which `sync_pending` has not. `FailuresHaveCauses` assumes
  that no loop is cancelled, which `ShutdownFails` shows to be needed; `Causes`
  says of each permanent failure, in hand or in the safe dead-letter queue, that
  the envelope cannot be decrypted or that Graph refused the write.
- **Nonces** (`StoreProofs`). `HInv` adds that a request on its way to `Use` was
  not early when it was compared, that a passed request's nonce is stored with a
  time not before its skew, or its skew is over, and that each stored nonce
  belongs to a passed request. `NonceCoversSkew` (`NonceTTL >= 2 * Skew`) is the assumption,
  which the shipped 30 s and 60 s meet exactly; there is none on how long a
  request waits. `AcceptedInRange` says what the overflow of `absDuration`
  leaves of the check: an accepted timestamp is not ahead by more than the skew,
  or its distance is beyond the range of a `Duration`. The store belongs to one process, so the theorem is about one
  replica (the design, line 133, has the nonces in Redis).
- **Start** (`StartupProofs`). `ConfigInv` follows the secrets left to read: those
  already read are the vault's. `AddressesSeparate` rests on a lemma about
  prefixes: of two networks with a common address, one contains the address of
  the other, so that comparing network addresses is enough. This holds for
  IPv4 networks written as IPv6, too; that a trusted network leaves an address
  of its family outside does not, and is proved for the others.
- **Lifecycle** (`LifecycleProofs`). The invariant has a part for each concern:
  `Phases` (what is open and left to close in each phase of `main`), `Halves`
  (server, worker and the results in the channel), `Errors` (`err` has every
  failure of loading, wiring and closing, and at most one of a half; if a half
  failed, `err`, the channel or the server has an error of one) and `Metrics`
  (each point is buffered, in a batch, delivered or dropped). The error of the
  half that ends second is dropped when the first one failed
  (`runServerAndWorker`), which is why `ErrorsReported` promises one of the two.

Assumptions on constants are the `ASSUME`s of the modules. Two of them restrict
the settings beyond what `config.go` validates. `NonceCoversSkew` is met by the
values that `Load` fixes. `TTLOrder` is met by the defaults and by the ranges of
the Terraform variables (at most an hour, at least a day), and by nothing in the
code: with a terminal TTL below the pending TTL an outcome, and the ordering
guard with it, would expire inside the pending window. `OutlivesPendingWindow`,
`AcceptedIsCovered` and `OutcomeIsVisible` say nothing about such a setting.

Only model-checked: the liveness properties `EveryMessageEnds`, `CancelStops`,
`CloseEnds` and `Stops` (fairness and `ENABLED` are out of the prover's reach).
Every other property of a passing run is also a theorem. That the accounts of the
pipeline's runs are those `Identity` computes for their names is evaluated by TLC.
The statements of the four disagreeing runs are refuted there; of them
`FailedHasCause` is proved under the condition it lacks.

## Not modelled

- Logging, problem responses, request ids, build information and OpenTelemetry
  set-up: pure output, or the configuration of an external SDK.
- The byte-level JSON decoder of the hook, the JSON of messages and records, and
  the hash in a Redis key: reduced to whether a body is accepted, and to the
  value it stands for.
- The parsing of CIDRs and addresses by `net`: an entry is a network, malformed
  or blank. An IPv4 network written as one of IPv6 differs from its IPv4 form
  only in the size of its mask.
- The queue depth probe, which reads a number and reports it.
- The wording of errors, with the sanitizing of those of Key Vault.
- Zeroing of password buffers: memory contents are not part of the state.
- Clocks that differ between replicas: one clock is assumed.
- The order of Graph writes: `written` is a set. The repository documents that
  an older password may be written last.
- Duplicates made inside the Service Bus SDK by its own retries.

`RATE_LIMIT_PER_IP`, `RATE_LIMIT_WINDOW` and `HOOK_MAX_BODY_BYTES` "must be
positive when set" (`README.md:379-381`). A value that parses is validated so; one
that does not parse is replaced by the default without an error (`intEnv`,
`durationEnv`, `int64Env`), which `Load` models.

## Plan

1. Done: status store, credentials provider, pipeline with workers and requests,
   rate limiter, HMAC, configuration, secrets and lifecycle; refinement; the
   proofs above.
2. Possible: replica clocks with bounded skew; the queue depth probe.
