--------------------------------- MODULE HMAC ---------------------------------
(***************************************************************************)
(* internal/middleware/hmac.go with its MemoryNonceStore, and the handler  *)
(* and the recovery middleware around it, in one replica.  Deliveries      *)
(* interleave at the store's mutex; Use reads the clock before it has the  *)
(* lock, and the timestamp was compared before that.                       *)
(***************************************************************************)
EXTENDS Clock, Integers

CONSTANTS
  Request,           \* deliveries of requests to the replica
  Input,             \* what a delivery may carry
  Nonce,
  Skew, NonceTTL,    \* HMACClockSkew (30s) and NonceTTL (60s), which Load fixes
  MaxDuration        \* the largest time.Duration (292 years)

ASSUME HMACAssumption ==
  /\ Skew \in Nat \ {0}
  /\ NonceTTL \in Nat
  /\ MaxDuration \in Nat /\ Skew < MaxDuration
  /\ \A i \in Input : i.nonce \in Nonce /\ i.timestamp \in Int

\* The lifetime of a nonce covers the skew on both sides of a timestamp; in
\* Load it is exactly twice the skew.
ASSUME NonceCoversSkew == NonceTTL >= 2 * Skew

VARIABLES
  input,             \* what each delivery carries
  at,                \* where it is, or how it was answered
  now,               \* its last look at the clock: in Wrap, then in Use
  usedAt,            \* history: when Use let it through
  seenAt             \* MemoryNonceStore.seenAt; Never is a missing entry

hmacVars == <<clock, input, at, now, usedAt, seenAt>>

Never == -1

Goto(r, label) == at' = [at EXCEPT ![r] = label]

ReadAll(r) == input[r].body # "unreadable"

validSignature(r) == input[r].signed

MinDuration == - MaxDuration - 1

\* time.Since of a time that a header gave: a difference out of range becomes
\* the nearest Duration.
Since(time) ==
  LET d == clock - time
  IN  IF d < MinDuration THEN MinDuration ELSE IF d > MaxDuration THEN MaxDuration ELSE d

\* The smallest Duration has no negative and stays what it is.
absDuration(d) == IF d < 0 /\ d # MinDuration THEN - d ELSE d

WithinSkew(r) == absDuration(Since(input[r].timestamp)) <= Skew

VerdictWithoutSignature(r) ==
  IF ~ ReadAll(r) THEN "failed_to_read_request_body"
  ELSE IF input[r].body = "too_large" THEN "request_body_too_large"
  ELSE IF ~ input[r].headers THEN "missing_or_invalid_signature_headers"
  ELSE IF ~ WithinSkew(r) THEN "timestamp_outside_allowed_skew"
  ELSE "signed"

\* The first check of Wrap that fails, or "signed" when the nonce is next.
Verdict(r) ==
  IF ~ ReadAll(r) THEN "failed_to_read_request_body"
  ELSE IF input[r].body = "too_large" THEN "request_body_too_large"
  ELSE IF ~ input[r].headers THEN "missing_or_invalid_signature_headers"
  ELSE IF ~ WithinSkew(r) THEN "timestamp_outside_allowed_skew"
  ELSE IF ~ validSignature(r) THEN "signature_mismatch"
  ELSE "signed"

\* Wrap up to the nonce store.
Wrap(r) ==
  /\ at[r] = "new"
  /\ Goto(r, Verdict(r))
  /\ now' = [now EXCEPT ![r] = clock]
  /\ UNCHANGED <<clock, input, usedAt, seenAt>>

\* Use reads the clock, then waits for the lock.
EnterUse(r) ==
  /\ at[r] = "signed"
  /\ Goto(r, "locking")
  /\ now' = [now EXCEPT ![r] = clock]
  /\ UNCHANGED <<clock, input, usedAt, seenAt>>

SweptEarly(t) == [n \in Nonce |-> IF t - seenAt[n] >= NonceTTL THEN Never ELSE seenAt[n]]

\* Every Use first drops all entries older than the TTL.
Swept(t) == [n \in Nonce |-> IF t - seenAt[n] > NonceTTL THEN Never ELSE seenAt[n]]

UseStoresExpiry(r) ==
  LET n == input[r].nonce
      kept == Swept(now[r])
  IN  /\ at[r] = "locking"
      /\ \/ /\ kept[n] # Never
            /\ Goto(r, "nonce_replay") /\ seenAt' = kept /\ UNCHANGED usedAt
         \/ /\ kept[n] = Never
            /\ Goto(r, "serving") /\ seenAt' = [kept EXCEPT ![n] = now[r] + NonceTTL]
            /\ usedAt' = [usedAt EXCEPT ![r] = clock]
      /\ UNCHANGED <<clock, input, now>>

\* Use under the lock, and what Wrap does with its answer.
Use(r) ==
  LET n == input[r].nonce
      kept == Swept(now[r])
  IN  /\ at[r] = "locking"
      /\ \/ /\ kept[n] # Never
            /\ Goto(r, "nonce_replay") /\ seenAt' = kept /\ UNCHANGED usedAt
         \/ /\ kept[n] = Never
            /\ Goto(r, "serving") /\ seenAt' = [kept EXCEPT ![n] = now[r]]
            /\ usedAt' = [usedAt EXCEPT ![r] = clock]
      /\ UNCHANGED <<clock, input, now>>

UnmarshalJSON(r) == input[r].body # "bad_json"
validate(r) == input[r].body # "incomplete"

\* The recovery middleware answers a panic of the handler.
Recovery(r) == Goto(r, "panic_recovered")

\* Hook.ServeHTTP.  What Submit returns is the subject of Migration.
ServeHTTP(r) ==
  /\ at[r] = "serving"
  /\ \/ ~ (UnmarshalJSON(r) /\ validate(r)) /\ Goto(r, "validation_error")
     \/ /\ UnmarshalJSON(r) /\ validate(r)
        /\ \/ \E answer \in {"accepted", "refused_identity", "accept_error"} : Goto(r, answer)
           \/ Recovery(r)
  /\ UNCHANGED <<clock, input, now, usedAt, seenAt>>

\* Time passes anywhere: nothing limits how long a request takes from the look
\* at its timestamp to the end of Use.
Tick == Advance /\ UNCHANGED <<input, at, now, usedAt, seenAt>>

HMACInit ==
  /\ clock = 0
  /\ input \in [Request -> Input]
  /\ at = [r \in Request |-> "new"]
  /\ now = [r \in Request |-> 0]
  /\ usedAt = [r \in Request |-> 0]
  /\ seenAt = [n \in Nonce |-> Never]

HMACNext == Tick \/ \E r \in Request : Wrap(r) \/ EnterUse(r) \/ Use(r) \/ ServeHTTP(r)

HMACSpec == HMACInit /\ [][HMACNext]_hmacVars

-----------------------------------------------------------------------------
Refusal == {"failed_to_read_request_body", "request_body_too_large",
            "missing_or_invalid_signature_headers", "timestamp_outside_allowed_skew",
            "signature_mismatch", "nonce_replay"}
Answered == {"validation_error", "accepted", "refused_identity", "accept_error",
             "panic_recovered"}

\* Wrap called the handler.
Passed(r) == at[r] = "serving" \/ at[r] \in Answered

\* The types of the deliveries and of the nonce store; no time that is read or
\* stored is ahead of the clock.
HMACTypeOK ==
  /\ clock \in Nat
  /\ input \in [Request -> Input]
  /\ at \in [Request -> {"new", "signed", "locking", "serving"} \cup Refusal \cup Answered]
  /\ now \in [Request -> 0 .. clock]
  /\ usedAt \in [Request -> 0 .. clock]
  /\ seenAt \in [Nonce -> (0 .. clock) \cup {Never}]

\* r and s are two deliveries of one signed request.
Repeated(r, s) ==
  r # s /\ input[r].nonce = input[s].nonce /\ input[r].timestamp = input[s].timestamp

\* Wrap hands a signed request (one timestamp and nonce) to the handler at
\* most once.  The code does not: see OnceWhileFresh.
OncePerSignedRequest ==
  \A r, s \in Request : Repeated(r, s) => ~ (Passed(r) /\ Passed(s))

\* Wrap hands a signed request to the handler at most once while its timestamp
\* is within the skew, however its deliveries race and whichever other request
\* sweeps the store in between.  A second delivery passes only by waiting in
\* Wrap or Use until the skew is over.  The timestamp is one whose distance
\* from the clock is a Duration.
OnceWhileFresh ==
  \A r, s \in Request :
    Repeated(r, s) /\ Passed(r) /\ Passed(s) /\ input[r].timestamp <= MaxDuration =>
      \E late \in {r, s} : usedAt[late] > input[r].timestamp + Skew

\* A request is refused as a replay only when another delivery with its nonce
\* got through: one that fails a check of Wrap before Use leaves no trace.
ReplayHasOriginal ==
  \A r \in Request : at[r] = "nonce_replay" =>
    \E s \in Request \ {r} : Passed(s) /\ input[s].signed /\ input[s].nonce = input[r].nonce

=============================================================================
