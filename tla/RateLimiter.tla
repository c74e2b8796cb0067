----------------------------- MODULE RateLimiter -----------------------------
(***************************************************************************)
(* internal/middleware/ratelimit.go: the address a request is attributed   *)
(* to, the allowlist and the fixed-window limiter.  Requests interleave at *)
(* the limiter's mutex; each reads the clock before it has the lock.       *)
(***************************************************************************)
EXTENDS Clock, Integers, Sequences, FiniteSets

CONSTANTS
  Request,           \* deliveries of requests to one replica
  Input,             \* what each may carry: its peer and X-Forwarded-For values
  IP, NoIP,          \* addresses; NoIP is one that does not parse, net.IP(nil)
  AllowedCIDRs,      \* the addresses of PORTAL_ALLOWED_CIDRS
  TrustedProxyCIDRs,
  LimitPerIP, Window,
  Delay              \* bound: how long a request waits for the limiter's lock

ASSUME RateLimiterAssumption ==
  /\ NoIP \notin IP
  /\ \A r \in Request : \A i \in Input[r] :
       i.peer \in IP \cup {NoIP} /\ i.forwarded \in Seq(Seq(IP \cup {NoIP}))
  /\ AllowedCIDRs \subseteq IP
  /\ TrustedProxyCIDRs \subseteq IP
  /\ LimitPerIP \in Nat \ {0}
  /\ Window \in Nat \ {0}
  /\ Delay \in Nat

VARIABLES
  input,             \* what each delivery carries, once it has arrived
  at,                \* where it is
  readAt,            \* the time.Now() it calls allow with
  counts,            \* RateLimiter.counts; count 0 is a missing entry
  allowedAt          \* history: when allow let it through

limiterVars == <<clock, input, at, readAt, counts, allowedAt>>

Never == -1
NoInput == [peer |-> NoIP, forwarded |-> <<>>]

-----------------------------------------------------------------------------
LeftmostUntrusted(peer, forwarded) ==
  LET hops == forwarded[1]
      untrusted == {i \in DOMAIN hops : hops[i] \notin TrustedProxyCIDRs}
  IN  IF peer \notin TrustedProxyCIDRs THEN peer
      ELSE IF Len(forwarded) # 1 \/ untrusted = {} \/ \E i \in DOMAIN hops : hops[i] = NoIP THEN NoIP
      ELSE hops[CHOOSE i \in untrusted : \A j \in untrusted : i <= j]

\* The X-Forwarded-For values count only when the peer is a trusted proxy:
\* then the last hop that is not one is the client.
resolveSourceIP(peer, forwarded) ==
  LET hops == forwarded[1]
      untrusted == {i \in DOMAIN hops : hops[i] \notin TrustedProxyCIDRs}
  IN  IF peer \notin TrustedProxyCIDRs THEN peer
      ELSE IF Len(forwarded) # 1 \/ untrusted = {} \/ \E i \in DOMAIN hops : hops[i] = NoIP THEN NoIP
      ELSE hops[CHOOSE i \in untrusted : \A j \in untrusted : j <= i]

SourceIP(r) == resolveSourceIP(input[r].peer, input[r].forwarded)

sourceAllowed(ip) == ip \in AllowedCIDRs

\* Wrap up to the lock of allow, for what the delivery turns out to carry.
Arrive(r) ==
  /\ at[r] = "new"
  /\ \E i \in Input[r] :
       /\ input' = [input EXCEPT ![r] = i]
       /\ at' = [at EXCEPT ![r] = IF sourceAllowed(resolveSourceIP(i.peer, i.forwarded))
                                  THEN "limiting" ELSE "source_ip_not_allowed"]
  /\ readAt' = [readAt EXCEPT ![r] = clock]
  /\ UNCHANGED <<clock, counts, allowedAt>>

Fresh(key, t) == counts[key].count = 0 \/ t - counts[key].start >= Window

AllowOneMore(key, t) ==
  \/ Fresh(key, t) /\ counts' = [counts EXCEPT ![key] = [start |-> t, count |-> 1]]
  \/ /\ ~ Fresh(key, t) /\ counts[key].count <= LimitPerIP
     /\ counts' = [counts EXCEPT ![key].count = @ + 1]

\* allow, when it returns true.
allow(key, t) ==
  \/ Fresh(key, t) /\ counts' = [counts EXCEPT ![key] = [start |-> t, count |-> 1]]
  \/ /\ ~ Fresh(key, t) /\ counts[key].count < LimitPerIP
     /\ counts' = [counts EXCEPT ![key].count = @ + 1]

Exceeded(key, t) == ~ Fresh(key, t) /\ counts[key].count >= LimitPerIP

\* The locked part of allow and what Wrap does with its answer.
Limit(r) ==
  /\ at[r] = "limiting"
  /\ \/ /\ allow(SourceIP(r), readAt[r])
        /\ at' = [at EXCEPT ![r] = "next"]
        /\ allowedAt' = [allowedAt EXCEPT ![r] = clock]
     \/ /\ Exceeded(SourceIP(r), readAt[r])
        /\ at' = [at EXCEPT ![r] = "request_rate_exceeded"]
        /\ UNCHANGED <<counts, allowedAt>>
  /\ readAt' = [readAt EXCEPT ![r] = 0]
  /\ UNCHANGED <<clock, input>>

\* Time passes, but no request waits for the lock for more than Delay.
LimiterTick ==
  /\ Advance
  /\ \A r \in Request : at[r] = "limiting" => clock < readAt[r] + Delay
  /\ UNCHANGED <<input, at, readAt, counts, allowedAt>>

LimiterInit ==
  /\ clock = 0
  /\ input = [r \in Request |-> NoInput]
  /\ at = [r \in Request |-> "new"]
  /\ readAt = [r \in Request |-> 0]
  /\ counts = [ip \in IP |-> [start |-> 0, count |-> 0]]
  /\ allowedAt = [r \in Request |-> Never]

LimiterNext == LimiterTick \/ \E r \in Request : Arrive(r) \/ Limit(r)

LimiterSpec == LimiterInit /\ [][LimiterNext]_limiterVars

-----------------------------------------------------------------------------
\* The types of the deliveries and of the limiter; no window counts more than
\* the limit, and none starts in the future.  Only an allowed address ever gets
\* an entry: counts, from which nothing is removed, is bounded by the allowlist.
LimiterTypeOK ==
  /\ clock \in Nat
  /\ DOMAIN input = Request
  /\ \A r \in Request : input[r] \in Input[r] \cup {NoInput}
  /\ at \in [Request -> {"new", "limiting", "next", "source_ip_not_allowed",
                         "request_rate_exceeded"}]
  /\ readAt \in [Request -> 0 .. clock]
  /\ counts \in [IP -> [start : 0 .. clock, count : 0 .. LimitPerIP]]
  /\ \A ip \in IP : counts[ip].count > 0 => ip \in AllowedCIDRs
  /\ allowedAt \in [Request -> {Never} \cup 0 .. clock]

\* How many fixed windows can let a request through within one span of Window:
\* two, and more only when requests wait for the limiter's lock.
WindowsPerSpan == (2 * Window + Delay - 2) \div Window + 1

\* The requests of an address that pass in the Window from t on.
PassedIn(ip, t) == {r \in Request : allowedAt[r] \in t .. t + Window - 1 /\ SourceIP(r) = ip}

\* In no span as long as the limiter's window does one address get more
\* requests through than its limit in each fixed window that reaches into it,
\* although allow compares a clock read before the lock was taken.
SpanBound ==
  \A ip \in IP : \A t \in 0 .. clock :
    Cardinality(PassedIn(ip, t)) <= LimitPerIP * WindowsPerSpan

\* Hops written in front of an X-Forwarded-For value never turn the address
\* resolveSourceIP finds into another one: it stays, or the chain is refused.
PrefixIrrelevant ==
  \A r \in Request : \A hop, hop2 \in IP \cup {NoIP} :
    LET peer == input[r].peer
        value == input[r].forwarded[1]
    IN  Len(input[r].forwarded) = 1 /\ SourceIP(r) # NoIP =>
          /\ resolveSourceIP(peer, <<<<hop>> \o value>>) \in {SourceIP(r), NoIP}
          /\ resolveSourceIP(peer, <<<<hop, hop2>> \o value>>) \in {SourceIP(r), NoIP}

=============================================================================
