----------------------------- MODULE RequestProofs -----------------------------
(***************************************************************************)
(* What a request is taken for, for every value of the constants: the      *)
(* address resolveSourceIP finds for it, how many of an address the limiter*)
(* lets through, and the identity and the key made of the name it carries. *)
(***************************************************************************)
EXTENDS RateLimiter, Identity, FiniteSetTheorems, TLAPS

\* A nonempty set of natural numbers has a least element.
LEMMA HasLeast ==
  ASSUME NEW T \in SUBSET Nat, T # {}
  PROVE  \E x \in T : \A y \in T : x <= y
<1>1. \E x \in T : \A y \in T : ~ (<<y, x>> \in OpToRel(<, Nat))
  BY NatLessThanWellFounded, WFMin, Zenon
<1>2. ASSUME NEW x \in T, NEW y \in T, ~ (<<y, x>> \in OpToRel(<, Nat)) PROVE x <= y
  BY <1>2 DEF OpToRel
<1> QED  BY <1>1, <1>2

\* A nonempty set of positions of a sequence has a last one.
LEMMA HasLast ==
  ASSUME NEW n \in Nat, NEW T \in SUBSET (1 .. n), T # {}
  PROVE  \E x \in T : \A y \in T : y <= x
<1> DEFINE D == {d \in 0 .. n : n - d \in T}
<1>1. \A y \in T : n - y \in D
  OBVIOUS
<1>2. D \in SUBSET Nat
  OBVIOUS
<1> HIDE DEF D
<1>3. PICK d \in D : \A e \in D : d <= e
  <2>1. PICK y \in T : TRUE
    BY Zenon
  <2>2. D # {}
    BY <1>1, <2>1
  <2> QED  BY <1>2, <2>2, HasLeast, Zenon
<1>4. d \in 0 .. n /\ n - d \in T
  BY <1>3 DEF D
<1>5. ASSUME NEW y \in T PROVE y <= n - d
  <2>1. d <= n - y /\ y \in 1 .. n
    BY <1>1, <1>3
  <2> QED  BY <2>1, <1>4
<1> QED  BY <1>4, <1>5

Untrusted(hops) == {i \in DOMAIN hops : hops[i] \notin TrustedProxyCIDRs}

\* Behind a trusted proxy, a chain without unparsable hops gives its last
\* untrusted hop.
LEMMA ResolvesToLast ==
  ASSUME NEW peer \in TrustedProxyCIDRs, NEW hops \in Seq(IP \cup {NoIP}),
         \A i \in DOMAIN hops : hops[i] # NoIP,
         NEW k \in Untrusted(hops), \A j \in Untrusted(hops) : j <= k
  PROVE  resolveSourceIP(peer, <<hops>>) = hops[k]
<1> DEFINE k2 == CHOOSE i \in Untrusted(hops) : \A j \in Untrusted(hops) : j <= i
<1>1. k2 \in Untrusted(hops) /\ \A j \in Untrusted(hops) : j <= k2
  OBVIOUS
<1>2. Untrusted(hops) \subseteq Nat
  BY DEF Untrusted
<1>3. k2 = k
  BY <1>1, <1>2
<1>4. <<hops>>[1] = hops /\ Len(<<hops>>) = 1
  OBVIOUS
<1> QED  BY <1>3, <1>4 DEF resolveSourceIP, Untrusted

\* Hops in front of a chain leave the address it gives, or make it refused.
LEMMA PrefixKeeps ==
  ASSUME NEW peer, NEW value \in Seq(IP \cup {NoIP}), NEW prefix \in Seq(IP \cup {NoIP}),
         resolveSourceIP(peer, <<value>>) # NoIP
  PROVE  resolveSourceIP(peer, <<prefix \o value>>) \in {resolveSourceIP(peer, <<value>>), NoIP}
<1> DEFINE long == prefix \o value
           n == Len(prefix)
<1>0. /\ <<value>>[1] = value /\ Len(<<value>>) = 1
      /\ <<long>>[1] = long /\ Len(<<long>>) = 1
  OBVIOUS
<1>1. CASE peer \notin TrustedProxyCIDRs
  BY <1>1 DEF resolveSourceIP
<1>2. CASE peer \in TrustedProxyCIDRs /\ \E i \in DOMAIN long : long[i] = NoIP
  BY <1>0, <1>2, SMTT(30) DEF resolveSourceIP
<1>3. CASE peer \in TrustedProxyCIDRs /\ ~ \E i \in DOMAIN long : long[i] = NoIP
  <2>1. /\ long \in Seq(IP \cup {NoIP}) /\ DOMAIN long = 1 .. n + Len(value)
        /\ \A i \in DOMAIN value : n + i \in DOMAIN long /\ long[n + i] = value[i]
        /\ n \in Nat /\ Len(value) \in Nat /\ DOMAIN value = 1 .. Len(value)
    OBVIOUS
  <2>2. Untrusted(value) # {} /\ \A i \in DOMAIN value : value[i] # NoIP
    BY <1>0, <1>3 DEF resolveSourceIP, Untrusted
  <2>3. Untrusted(value) \in SUBSET (1 .. Len(value))
    BY <2>1 DEF Untrusted
  <2>4. PICK k \in Untrusted(value) : \A j \in Untrusted(value) : j <= k
    BY <2>1, <2>2, <2>3, HasLast, Zenon
  <2>5. n + k \in Untrusted(long) /\ long[n + k] = value[k]
    BY <2>1, <2>4 DEF Untrusted
  <2>6. ASSUME NEW j \in Untrusted(long) PROVE j <= n + k
    <3>1. CASE j <= n
      BY <2>1, <2>3, <2>4, <3>1 DEF Untrusted
    <3>2. CASE ~ (j <= n)
      <4>1. j \in Nat /\ j - n \in DOMAIN value /\ long[n + (j - n)] = value[j - n] /\ n + (j - n) = j
        BY <2>1, <2>6, <3>2 DEF Untrusted
      <4>2. j - n \in Untrusted(value)
        BY <4>1, <2>6 DEF Untrusted
      <4> QED  BY <2>1, <2>3, <2>4, <4>1, <4>2
    <3> QED  BY <3>1, <3>2
  <2>7. resolveSourceIP(peer, <<long>>) = long[n + k]
    BY <1>3, <2>1, <2>5, <2>6, ResolvesToLast, Zenon
  <2>8. resolveSourceIP(peer, <<value>>) = value[k]
    BY <1>3, <2>2, <2>4, ResolvesToLast
  <2> QED  BY <2>5, <2>7, <2>8
<1> QED  BY <1>1, <1>2, <1>3

\* With the types: what waits for the limiter comes from an allowed address.
LimiterInv ==
  /\ LimiterTypeOK
  /\ \A r \in Request : at[r] = "limiting" => SourceIP(r) \in AllowedCIDRs

\* Wrap keeps the types and lets only allowed addresses go on to the limiter.
LEMMA ArriveKeeps ==
  ASSUME LimiterInv, NEW r \in Request, Arrive(r)
  PROVE  LimiterInv'
<1> USE RateLimiterAssumption DEF LimiterInv, LimiterTypeOK, Arrive
<1>1. PICK i \in Input[r] :
        /\ input' = [input EXCEPT ![r] = i]
        /\ at' = [at EXCEPT ![r] = IF sourceAllowed(resolveSourceIP(i.peer, i.forwarded))
                                   THEN "limiting" ELSE "source_ip_not_allowed"]
  BY Zenon
<1>2. LimiterTypeOK'
  BY <1>1
<1>3. ASSUME NEW q \in Request, at'[q] = "limiting" PROVE SourceIP(q)' \in AllowedCIDRs
  <2>1. CASE q = r
    BY <1>1, <1>3, <2>1 DEF SourceIP, sourceAllowed
  <2>2. CASE q # r
    BY <1>1, <1>3, <2>2 DEF SourceIP
  <2> QED  BY <2>1, <2>2
<1> QED  BY <1>2, <1>3, SMTT(30)

\* allow counts up to the limit and no further, for an allowed address only.
LEMMA LimitKeeps ==
  ASSUME LimiterInv, NEW r \in Request, Limit(r)
  PROVE  LimiterInv'
<1> DEFINE ip == SourceIP(r)
           t == readAt[r]
           Entry == [start : 0 .. clock, count : 0 .. LimitPerIP]
<1>1. ip \in AllowedCIDRs /\ ip \in IP /\ t \in 0 .. clock /\ clock \in Nat
  BY RateLimiterAssumption DEF LimiterInv, LimiterTypeOK, Limit
<1>2. /\ LimitPerIP \in Nat \ {0} /\ counts \in [IP -> Entry]
      /\ \A a \in IP : counts[a].count > 0 => a \in AllowedCIDRs
  BY RateLimiterAssumption DEF LimiterInv, LimiterTypeOK
<1>3. allow(ip, t) \/ UNCHANGED counts
  BY DEF Limit
<1> HIDE DEF ip, t
<1>4. /\ counts' \in [IP -> Entry]
      /\ \A a \in IP : counts'[a].count > 0 => a \in AllowedCIDRs
  <2>1. CASE counts' = [counts EXCEPT ![ip] = [start |-> t, count |-> 1]]
    <3>1. [start |-> t, count |-> 1] \in Entry
      BY <1>1, <1>2
    <3> QED  BY <1>1, <1>2, <2>1, <3>1
  <2>2. CASE /\ counts' = [counts EXCEPT ![ip].count = @ + 1]
             /\ counts[ip].count < LimitPerIP
    <3>1. [counts[ip] EXCEPT !.count = @ + 1] \in Entry
      BY <1>1, <1>2, <2>2
    <3>2. counts' = [counts EXCEPT ![ip] = [counts[ip] EXCEPT !.count = @ + 1]]
      BY <2>2
    <3> HIDE DEF Entry
    <3> QED  BY <1>1, <1>2, <3>1, <3>2
  <2>3. CASE UNCHANGED counts
    BY <1>2, <2>3
  <2> QED  BY <1>3, <2>1, <2>2, <2>3, Zenon DEF allow
<1>5. /\ at' \in [Request -> {"new", "limiting", "next", "source_ip_not_allowed",
                              "request_rate_exceeded"}]
      /\ \A q \in Request : at'[q] = "limiting" => at[q] = "limiting"
  BY DEF LimiterInv, LimiterTypeOK, Limit
<1>6. readAt' \in [Request -> 0 .. clock] /\ UNCHANGED <<clock, input>>
  BY <1>1 DEF LimiterInv, LimiterTypeOK, Limit
<1>7. allowedAt' \in [Request -> {Never} \cup 0 .. clock]
  BY <1>1 DEF LimiterInv, LimiterTypeOK, Limit
<1>8. LimiterTypeOK'
  BY <1>4, <1>5, <1>6, <1>7 DEF LimiterInv, LimiterTypeOK
<1>9. \A q \in Request : at'[q] = "limiting" => SourceIP(q)' \in AllowedCIDRs
  BY <1>5, <1>6 DEF LimiterInv, SourceIP
<1> QED  BY <1>8, <1>9 DEF LimiterInv

\* Hops in front of the X-Forwarded-For value of a request never replace the
\* address that the value gives.
LEMMA PrefixesChangeNothing ==
  ASSUME LimiterTypeOK
  PROVE  PrefixIrrelevant
<1> SUFFICES ASSUME NEW r \in Request,
                    NEW hop \in IP \cup {NoIP}, NEW hop2 \in IP \cup {NoIP},
                    Len(input[r].forwarded) = 1, SourceIP(r) # NoIP
             PROVE  LET peer == input[r].peer
                        value == input[r].forwarded[1]
                    IN  /\ resolveSourceIP(peer, <<<<hop>> \o value>>) \in {SourceIP(r), NoIP}
                        /\ resolveSourceIP(peer, <<<<hop, hop2>> \o value>>) \in {SourceIP(r), NoIP}
  BY Zenon DEF PrefixIrrelevant
<1> DEFINE peer == input[r].peer
           forwarded == input[r].forwarded
           value == forwarded[1]
<1>1. forwarded \in Seq(Seq(IP \cup {NoIP}))
  <2>1. CASE input[r] \in Input[r]
    BY <2>1, RateLimiterAssumption
  <2>2. CASE input[r] = NoInput
    BY <2>2 DEF NoInput
  <2> QED  BY <2>1, <2>2 DEF LimiterTypeOK
<1>2. value \in Seq(IP \cup {NoIP}) /\ forwarded = <<value>>
  BY <1>1
<1>3. SourceIP(r) = resolveSourceIP(peer, <<value>>)
  BY <1>2 DEF SourceIP
<1>4. <<hop>> \in Seq(IP \cup {NoIP}) /\ <<hop, hop2>> \in Seq(IP \cup {NoIP})
  OBVIOUS
<1> HIDE DEF peer, value
<1>5. /\ resolveSourceIP(peer, <<<<hop>> \o value>>) \in {SourceIP(r), NoIP}
      /\ resolveSourceIP(peer, <<<<hop, hop2>> \o value>>) \in {SourceIP(r), NoIP}
  BY <1>2, <1>3, <1>4, PrefixKeeps, Zenon
<1> QED  BY <1>5 DEF peer, value

-----------------------------------------------------------------------------
\* Division, as the windows of a span are counted.
LEMMA Division ==
  ASSUME NEW x \in Nat, NEW w \in Nat \ {0}
  PROVE  x \div w \in Nat /\ w * (x \div w) <= x /\ x < w * (x \div w) + w
  OBVIOUS

\* Numbers that are at least w apart have different quotients.
LEMMA ApartDivides ==
  ASSUME NEW x \in Nat, NEW y \in Nat, NEW w \in Nat \ {0}, x \div w = y \div w
  PROVE  x - y < w /\ y - x < w
  BY Division

\* A quotient grows with its dividend.
LEMMA DivisionGrows ==
  ASSUME NEW x \in Nat, NEW y \in Nat, x <= y, NEW w \in Nat \ {0}
  PROVE  x \div w <= y \div w
  OBVIOUS

\* The entries that allow can make.
Slot == [start : Nat, count : 1 .. LimitPerIP]

Passed(ip) == {r \in Request : allowedAt[r] # Never /\ SourceIP(r) = ip}

\* What is known when slot[r] is the entry of counts that allow left when it let
\* r through: r passed within the entry's window, or up to Delay later; no two
\* requests of an address have the same entry; windows do not overlap; and the
\* entry of today is the newest.
SlotsOf(ip, slot) ==
  \A r \in Passed(ip) :
    /\ counts[ip].count > 0
    /\ slot[r].start <= allowedAt[r] /\ allowedAt[r] < slot[r].start + Window + Delay
    /\ slot[r].start <= counts[ip].start
    /\ slot[r].start = counts[ip].start => slot[r].count <= counts[ip].count
    /\ slot[r].start < counts[ip].start => slot[r].start + Window <= counts[ip].start
    /\ \A q \in Passed(ip) :
         /\ slot[q] = slot[r] => q = r
         /\ slot[r].start < slot[q].start => slot[r].start + Window <= slot[q].start

\* With this, requests wait no longer than Delay, and what passed is settled.
SpanInv ==
  /\ LimiterInv
  /\ \A r \in Request : at[r] = "limiting" => clock <= readAt[r] + Delay
  /\ \A r \in Request : allowedAt[r] # Never => at[r] = "next"
  /\ \E slot \in [Request -> Slot] : \A ip \in IP : SlotsOf(ip, slot)

\* The requests that pass in a span are no more than the pairs of a window that
\* reaches into it and a place in that window.
LEMMA SlotsBound ==
  ASSUME SpanInv, NEW ip \in IP, NEW t \in 0 .. clock
  PROVE  /\ IsFiniteSet(PassedIn(ip, t))
         /\ Cardinality(PassedIn(ip, t)) <= LimitPerIP * WindowsPerSpan
<1> DEFINE S == PassedIn(ip, t)
           N == WindowsPerSpan
           T == (0 .. N - 1) \X (1 .. LimitPerIP)
<1>1. PICK slot \in [Request -> Slot] : SlotsOf(ip, slot)
  BY DEF SpanInv
<1>2. /\ Window \in Nat \ {0} /\ Delay \in Nat /\ LimitPerIP \in Nat \ {0} /\ t \in Nat
      /\ 2 * Window + Delay - 2 \in Nat
  BY RateLimiterAssumption DEF SpanInv, LimiterInv, LimiterTypeOK
<1> DEFINE last == 2 * Window + Delay - 2
           off(r) == slot[r].start + Window + Delay - 1 - t
           f == [r \in S |-> <<off(r) \div Window, slot[r].count>>]
<1>3. last \in Nat /\ N = (last \div Window) + 1 /\ last \div Window \in Nat
  BY <1>2, Division DEF WindowsPerSpan
<1>4. ASSUME NEW r \in S PROVE /\ r \in Request /\ r \in Passed(ip) /\ slot[r].start \in Nat
                               /\ slot[r].count \in 1 .. LimitPerIP
                               /\ off(r) \in Nat /\ off(r) <= last
  <2>1. r \in Request /\ r \in Passed(ip) /\ allowedAt[r] \in t .. t + Window - 1
    BY <1>2 DEF PassedIn, Passed, Never
  <2>2. slot[r] \in Slot
    BY <1>1, <2>1
  <2>3. slot[r].start \in Nat /\ slot[r].count \in 1 .. LimitPerIP
    BY <2>2 DEF Slot
  <2>4. slot[r].start <= allowedAt[r] /\ allowedAt[r] < slot[r].start + Window + Delay
    BY <1>1, <2>1 DEF SlotsOf
  <2> QED  BY <1>2, <2>1, <2>3, <2>4
<1>5. f \in [S -> T]
  <2> SUFFICES ASSUME NEW r \in S PROVE <<off(r) \div Window, slot[r].count>> \in T
    OBVIOUS
  <2>1. off(r) \div Window \in Nat /\ off(r) \div Window <= last \div Window
    BY <1>2, <1>3, <1>4, Division, DivisionGrows
  <2> HIDE DEF last, off
  <2> QED  BY <1>3, <1>4, <2>1
<1>6. ASSUME NEW r \in S, NEW q \in S, f[r] = f[q] PROVE r = q
  <2>1. off(r) \div Window = off(q) \div Window /\ slot[r].count = slot[q].count
    BY <1>6
  <2>2. off(r) - off(q) < Window /\ off(q) - off(r) < Window
    BY <1>2, <1>4, <2>1, ApartDivides
  <2>3. slot[r].start - slot[q].start < Window /\ slot[q].start - slot[r].start < Window
    BY <1>2, <1>4, <2>2
  <2>4. /\ slot[r].start < slot[q].start => slot[r].start + Window <= slot[q].start
        /\ slot[q].start < slot[r].start => slot[q].start + Window <= slot[r].start
    BY <1>1, <1>4 DEF SlotsOf
  <2>5. slot[r].start = slot[q].start
    BY <1>2, <1>4, <2>3, <2>4
  <2>6. slot[r] = slot[q]
    BY <1>1, <1>4, <2>1, <2>5 DEF Slot
  <2> QED  BY <1>1, <1>4, <2>6 DEF SlotsOf
<1>7. f \in Injection(S, T)
  BY <1>5, <1>6, Zenon DEF Injection, IsInjective
<1>8. IsFiniteSet(T) /\ Cardinality(T) = N * LimitPerIP
  <2>1. IsFiniteSet(0 .. N - 1) /\ Cardinality(0 .. N - 1) = N
    <3>1. 0 \in Int /\ N - 1 \in Int /\ ~ (0 > N - 1) /\ N - 1 - 0 + 1 = N
      BY <1>3
    <3> HIDE DEF N
    <3> QED  BY <3>1, FS_Interval
  <2>2. IsFiniteSet(1 .. LimitPerIP) /\ Cardinality(1 .. LimitPerIP) = LimitPerIP
    <3>1. 1 \in Int /\ LimitPerIP \in Int /\ ~ (1 > LimitPerIP) /\ LimitPerIP - 1 + 1 = LimitPerIP
      BY <1>2
    <3> QED  BY <3>1, FS_Interval
  <2> HIDE DEF N
  <2>3. /\ IsFiniteSet(T)
        /\ Cardinality(T) = Cardinality(0 .. N - 1) * Cardinality(1 .. LimitPerIP)
    BY <2>1, <2>2, FS_Product, Zenon
  <2> QED  BY <2>1, <2>2, <2>3
<1>9. IsFiniteSet(S) /\ Cardinality(S) <= N * LimitPerIP
  BY <1>7, <1>8, FS_Injection
<1> QED  BY <1>2, <1>3, <1>9

\* A request that is let through gets the entry it leaves; the others keep theirs.
LEMMA LimitKeepsSlots ==
  ASSUME SpanInv, NEW r \in Request, Limit(r)
  PROVE  SpanInv'
<1>0. LimiterInv'
  BY LimitKeeps DEF SpanInv
<1> PICK ip \in IP : ip = SourceIP(r)
  BY RateLimiterAssumption DEF SpanInv, LimiterInv, Limit
<1> PICK t : t = readAt[r]
  OBVIOUS
<1>1. /\ t \in Nat /\ clock \in Nat /\ t <= clock /\ clock <= t + Delay
      /\ Window \in Nat \ {0} /\ Delay \in Nat /\ LimitPerIP \in Nat \ {0}
      /\ counts \in [IP -> [start : 0 .. clock, count : 0 .. LimitPerIP]]
      /\ at \in [Request -> {"new", "limiting", "next", "source_ip_not_allowed", "request_rate_exceeded"}]
      /\ allowedAt \in [Request -> {Never} \cup 0 .. clock] /\ readAt \in [Request -> 0 .. clock]
      /\ allowedAt[r] = Never
  BY RateLimiterAssumption DEF SpanInv, LimiterInv, LimiterTypeOK, Limit
<1>2. UNCHANGED <<clock, input>> /\ \A q \in Request : SourceIP(q)' = SourceIP(q)
  BY DEF Limit, SourceIP
<1>3. \A q \in Request : at'[q] = "limiting" => clock' <= readAt'[q] + Delay
  BY <1>1 DEF Limit, SpanInv
<1>4. \A q \in Request : allowedAt'[q] # Never => at'[q] = "next"
  BY <1>1 DEF Limit, SpanInv
<1>5. PICK slot \in [Request -> Slot] : \A a \in IP : SlotsOf(a, slot)
  BY DEF SpanInv
<1>6. CASE allow(ip, t) /\ allowedAt' = [allowedAt EXCEPT ![r] = clock]
  <2>0. PICK new : new = counts'[ip]
    OBVIOUS
  <2> DEFINE slot2 == [slot EXCEPT ![r] = new]
  <2>1. /\ \A a \in IP : a # ip => counts'[a] = counts[a]
        /\ new \in Slot /\ new.start \in Nat /\ new.count \in Nat /\ new.start <= clock
        /\ clock < new.start + Window + Delay
        /\ \/ counts[ip].count = 0
           \/ new.start >= counts[ip].start + Window
           \/ new.start = counts[ip].start /\ new.count = counts[ip].count + 1
    <3>1. /\ counts[ip] \in [start : 0 .. clock, count : 0 .. LimitPerIP]
          /\ counts[ip].start \in 0 .. clock /\ counts[ip].count \in 0 .. LimitPerIP
      BY <1>1
    <3>2. CASE Fresh(ip, t) /\ counts' = [counts EXCEPT ![ip] = [start |-> t, count |-> 1]]
      <4>1. new = [start |-> t, count |-> 1] /\ \A a \in IP : a # ip => counts'[a] = counts[a]
        BY <1>1, <2>0, <3>2
      <4> QED  BY <1>1, <3>1, <3>2, <4>1 DEF Fresh, Slot
    <3>3. CASE /\ ~ Fresh(ip, t) /\ counts[ip].count < LimitPerIP
               /\ counts' = [counts EXCEPT ![ip].count = @ + 1]
      <4>1. /\ new = [counts[ip] EXCEPT !.count = counts[ip].count + 1]
            /\ \A a \in IP : a # ip => counts'[a] = counts[a]
        BY <1>1, <2>0, <3>3
      <4>2. new = [start |-> counts[ip].start, count |-> counts[ip].count + 1]
        BY <3>1, <4>1
      <4> QED  BY <1>1, <3>1, <3>3, <4>1, <4>2 DEF Fresh, Slot
    <3> QED  BY <1>6, <3>2, <3>3 DEF allow
  <2>2. slot2 \in [Request -> Slot]
    BY <2>1
  <2>3. ASSUME NEW a \in IP, a # ip PROVE SlotsOf(a, slot2)'
    <3>1. Passed(a)' = Passed(a) /\ r \notin Passed(a)
      BY <1>1, <1>2, <1>6, <2>3 DEF Passed
    <3>2. \A q \in Passed(a) : slot2[q] = slot[q] /\ allowedAt'[q] = allowedAt[q]
      BY <1>1, <1>6, <3>1, SMTT(30) DEF Passed
    <3> QED  BY <1>5, <2>1, <2>3, <3>1, <3>2 DEF SlotsOf
  <2>4. SlotsOf(ip, slot2)'
    <3>1. /\ Passed(ip)' = Passed(ip) \cup {r} /\ r \notin Passed(ip)
      BY <1>1, <1>2, <1>6 DEF Passed, Never
    <3>2. slot2[r] = new /\ allowedAt'[r] = clock
      BY <1>1, <1>5, <1>6
    <3>3. \A q \in Passed(ip) : slot2[q] = slot[q] /\ allowedAt'[q] = allowedAt[q] /\ slot[q] \in Slot
      BY <1>1, <1>5, <1>6, <3>1 DEF Passed
    <3>4. \A q \in Passed(ip) :
            /\ slot[q].start \in Nat /\ slot[q].count \in Nat
            /\ new.start = slot[q].start => slot[q].count < new.count
            /\ slot[q].start < new.start => slot[q].start + Window <= new.start
            /\ slot[q].start <= new.start
      <4> SUFFICES ASSUME NEW q \in Passed(ip)
                   PROVE  /\ slot[q].start \in Nat /\ slot[q].count \in Nat
                          /\ new.start = slot[q].start => slot[q].count < new.count
                          /\ slot[q].start < new.start => slot[q].start + Window <= new.start
                          /\ slot[q].start <= new.start
        OBVIOUS
      <4>1. slot[q].start \in Nat /\ slot[q].count \in Nat
        BY <1>1, <3>3 DEF Slot
      <4>2. /\ slot[q].start <= counts[ip].start /\ counts[ip].count > 0
            /\ slot[q].start = counts[ip].start => slot[q].count <= counts[ip].count
            /\ slot[q].start < counts[ip].start => slot[q].start + Window <= counts[ip].start
        BY <1>1, <1>5 DEF SlotsOf
      <4> QED  BY <1>1, <2>1, <4>1, <4>2
    <3>5. counts'[ip].count > 0
      BY <1>1, <2>0, <2>1 DEF Slot
    <3> SUFFICES ASSUME NEW q \in Passed(ip)'
                 PROVE  /\ slot2[q].start <= allowedAt'[q] /\ allowedAt'[q] < slot2[q].start + Window + Delay
                        /\ slot2[q].start <= new.start
                        /\ slot2[q].start = new.start => slot2[q].count <= new.count
                        /\ slot2[q].start < new.start => slot2[q].start + Window <= new.start
                        /\ \A p \in Passed(ip)' :
                             /\ slot2[p] = slot2[q] => p = q
                             /\ slot2[q].start < slot2[p].start =>
                                  slot2[q].start + Window <= slot2[p].start
      BY <2>0, <3>5 DEF SlotsOf
    <3>6. CASE q = r
      BY <1>1, <2>1, <3>1, <3>2, <3>3, <3>4, <3>6
    <3>7. CASE q \in Passed(ip)
      BY <1>1, <1>5, <2>1, <3>1, <3>2, <3>3, <3>4, <3>7 DEF SlotsOf
    <3> QED  BY <3>1, <3>6, <3>7
  <2>5. \E s \in [Request -> Slot] : \A a \in IP : SlotsOf(a, s)'
    BY <2>2, <2>3, <2>4, Zenon
  <2> QED  BY <1>0, <1>3, <1>4, <2>5 DEF SpanInv
<1>7. CASE UNCHANGED <<counts, allowedAt>>
  <2>1. \A a \in IP : Passed(a)' = Passed(a)
    BY <1>2, <1>7 DEF Passed
  <2>2. \A a \in IP : SlotsOf(a, slot)'
    BY <1>5, <1>7, <2>1, SMTT(30) DEF SlotsOf
  <2> QED  BY <1>0, <1>3, <1>4, <1>5, <2>2 DEF SpanInv
<1> QED  BY <1>6, <1>7 DEF Limit

\* A request that arrives has passed nothing yet, and waits from now on.
LEMMA ArriveKeepsSlots ==
  ASSUME SpanInv, NEW r \in Request, Arrive(r)
  PROVE  SpanInv'
<1>0. LimiterInv'
  BY ArriveKeeps DEF SpanInv
<1>1. /\ clock \in Nat /\ readAt \in [Request -> 0 .. clock] /\ Delay \in Nat
      /\ DOMAIN at = Request /\ DOMAIN input = Request
      /\ at[r] = "new" /\ \A q \in Request : q # r => at'[q] = at[q] /\ input'[q] = input[q]
  BY RateLimiterAssumption DEF SpanInv, LimiterInv, LimiterTypeOK, Arrive
<1>2. UNCHANGED <<clock, counts, allowedAt>> /\ readAt' = [readAt EXCEPT ![r] = clock]
  BY DEF Arrive
<1>3. \A q \in Request : at'[q] = "limiting" => clock' <= readAt'[q] + Delay
  BY <1>1, <1>2 DEF SpanInv
<1>4. allowedAt[r] = Never
  BY <1>1 DEF SpanInv
<1>5. \A q \in Request : allowedAt'[q] # Never => at'[q] = "next"
  BY <1>1, <1>2, <1>4 DEF SpanInv
<1>6. \A ip \in IP : Passed(ip)' = Passed(ip)
  BY <1>1, <1>2, <1>4 DEF Passed, SourceIP
<1>7. PICK slot \in [Request -> Slot] : \A ip \in IP : SlotsOf(ip, slot)
  BY DEF SpanInv
<1>8. \A ip \in IP : SlotsOf(ip, slot)'
  BY <1>2, <1>6, <1>7 DEF SlotsOf
<1> QED  BY <1>0, <1>3, <1>5, <1>7, <1>8 DEF SpanInv

\* The invariant of the limiter holds throughout: it is inductive.
THEOREM SpanInvariant == LimiterSpec => []SpanInv
<1>1. LimiterInit => SpanInv
  <2> SUFFICES ASSUME LimiterInit PROVE SpanInv
    OBVIOUS
  <2>1. LimiterInv
    BY RateLimiterAssumption DEF LimiterInit, LimiterInv, LimiterTypeOK, Never
  <2>2. \A ip \in IP : Passed(ip) = {}
    BY DEF LimiterInit, Passed
  <2>3. [r \in Request |-> [start |-> 0, count |-> 1]] \in [Request -> Slot]
    BY RateLimiterAssumption DEF Slot
  <2>4. \E slot \in [Request -> Slot] : \A ip \in IP : SlotsOf(ip, slot)
    BY <2>2, <2>3, Zenon DEF SlotsOf
  <2> QED  BY <2>1, <2>4 DEF LimiterInit, SpanInv
<1>2. SpanInv /\ [LimiterNext]_limiterVars => SpanInv'
  <2> SUFFICES ASSUME SpanInv, [LimiterNext]_limiterVars PROVE SpanInv'
    OBVIOUS
  <2>1. CASE LimiterTick \/ UNCHANGED limiterVars
    <3>1. UNCHANGED <<input, at, readAt, counts, allowedAt>> /\ clock' \in {clock, clock + 1}
      BY <2>1 DEF LimiterTick, Advance, limiterVars
    <3>2. LimiterInv'
      BY <3>1, RateLimiterAssumption DEF SpanInv, LimiterInv, LimiterTypeOK, SourceIP, Never
    <3>3. \A r \in Request : at'[r] = "limiting" => clock' <= readAt'[r] + Delay
      BY <2>1, <3>1, RateLimiterAssumption
      DEF SpanInv, LimiterInv, LimiterTypeOK, LimiterTick, Advance, limiterVars
    <3>4. \A ip \in IP : Passed(ip)' = Passed(ip)
      BY <3>1 DEF Passed, SourceIP
    <3>5. PICK slot \in [Request -> Slot] : \A ip \in IP : SlotsOf(ip, slot)
      BY DEF SpanInv
    <3>6. \A ip \in IP : SlotsOf(ip, slot)'
      BY <3>1, <3>4, <3>5 DEF SlotsOf
    <3> QED  BY <3>1, <3>2, <3>3, <3>5, <3>6 DEF SpanInv
  <2> QED  BY <2>1, ArriveKeepsSlots, LimitKeepsSlots DEF LimiterNext
<1> QED  BY <1>1, <1>2, PTL DEF LimiterSpec

\* For every set of requests, allowlist, limit and window: no entry of counts
\* exceeds the limit, and only an allowed address has one.
THEOREM LimiterTypeCorrect == LimiterSpec => []LimiterTypeOK
  BY SpanInvariant, PTL DEF SpanInv, LimiterInv

\* What a client writes in front of its X-Forwarded-For chain, which a trusted
\* proxy extends, never makes resolveSourceIP take it for another address.
THEOREM PrefixesAreIrrelevant == LimiterSpec => []PrefixIrrelevant
  BY SpanInvariant, PrefixesChangeNothing, PTL DEF SpanInv, LimiterInv

\* For every limit, window, number of requests and wait for the mutex: no address
\* gets more requests through in one span of a window than its limit in each of
\* the fixed windows that can reach into the span.
THEOREM SpanBounded == LimiterSpec => []SpanBound
<1>1. SpanInv => SpanBound
  BY SlotsBound DEF SpanBound
<1> QED  BY <1>1, SpanInvariant, PTL

\* If no request waits longer than a tick between its reading of the clock and
\* the mutex, an address gets at most twice its limit through in any span of one
\* window: the end of one fixed window of allow and the start of the next.
THEOREM TwiceTheLimit ==
  ASSUME Delay <= 1
  PROVE  LimiterSpec =>
           [](\A ip \in IP : \A t \in 0 .. clock : Cardinality(PassedIn(ip, t)) <= 2 * LimitPerIP)
<1>1. SpanInv => \A ip \in IP : \A t \in 0 .. clock : Cardinality(PassedIn(ip, t)) <= 2 * LimitPerIP
  <2> SUFFICES ASSUME SpanInv, NEW ip \in IP, NEW t \in 0 .. clock
               PROVE  Cardinality(PassedIn(ip, t)) <= 2 * LimitPerIP
    OBVIOUS
  <2>1. /\ Window \in Nat \ {0} /\ LimitPerIP \in Nat \ {0}
        /\ 2 * Window + Delay - 2 \in Nat /\ 2 * Window + Delay - 2 <= 2 * Window - 1
    BY RateLimiterAssumption
  <2>2. (2 * Window - 1) \div Window = 1
    BY <2>1
  <2>3. WindowsPerSpan \in Nat /\ WindowsPerSpan <= 2
    BY <2>1, <2>2, Division, DivisionGrows DEF WindowsPerSpan
  <2>4. LimitPerIP * WindowsPerSpan <= 2 * LimitPerIP
    BY <2>1, <2>3
  <2>5. /\ IsFiniteSet(PassedIn(ip, t))
        /\ Cardinality(PassedIn(ip, t)) <= LimitPerIP * WindowsPerSpan
    BY SlotsBound
  <2>6. Cardinality(PassedIn(ip, t)) \in Nat
    BY <2>5, FS_CardinalityType
  <2> QED  BY <2>1, <2>3, <2>4, <2>5, <2>6
<1> QED  BY <1>1, SpanInvariant, PTL

-----------------------------------------------------------------------------
\* The positions of a text that satisfy something have a first and a last one,
\* which Min and Max find.
LEMMA Ends ==
  ASSUME NEW n \in Nat, NEW T \in SUBSET (1 .. n), T # {}
  PROVE  /\ Min(T) \in T /\ Max(T) \in T
         /\ \A y \in T : Min(T) <= y /\ y <= Max(T)
<1>1. T \in SUBSET Nat
  OBVIOUS
<1>2. Min(T) \in T /\ \A y \in T : Min(T) <= y
  BY <1>1, HasLeast, Zenon DEF Min
<1>3. \E x \in T : \A y \in T : x >= y
  BY HasLast, Zenon
<1>4. Max(T) \in T /\ \A y \in T : Max(T) >= y
  BY <1>3, Zenon DEF Max
<1> QED  BY <1>1, <1>2, <1>4

\* A part of a sequence holds the elements between its ends.
LEMMA Sliced ==
  ASSUME NEW C, NEW s \in Seq(C), NEW a \in 1 .. Len(s), NEW b \in a .. Len(s)
  PROVE  /\ SubSeq(s, a, b) \in Seq(C) /\ Len(SubSeq(s, a, b)) = b - a + 1
         /\ \A i \in 1 .. b - a + 1 : SubSeq(s, a, b)[i] = s[a + i - 1]
  OBVIOUS

\* Sequences of the same length with the same elements are equal.
LEMMA SameElements ==
  ASSUME NEW C, NEW s \in Seq(C), NEW u \in Seq(C), NEW n \in Nat, Len(s) = n, Len(u) = n,
         \A i \in 1 .. n : s[i] = u[i]
  PROVE  s = u
  OBVIOUS

Inner(text) == {i \in DOMAIN text : text[i] # Space}

\* A text that neither starts nor ends with a space.
Bare(text) == text # <<>> => text[1] # Space /\ text[Len(text)] # Space

\* strings.TrimSpace gives the text from its first to its last character that is
\* not a space.
LEMMA TrimCuts ==
  ASSUME NEW C, NEW text \in Seq(C), Inner(text) # {}
  PROVE  \E a, b \in 1 .. Len(text) :
           /\ a \in Inner(text) /\ b \in Inner(text) /\ a <= b
           /\ \A i \in Inner(text) : a <= i /\ i <= b
           /\ TrimSpace(text) = SubSeq(text, a, b)
<1>1. Inner(text) \in SUBSET (1 .. Len(text)) /\ Len(text) \in Nat
  BY DEF Inner
<1>2. /\ Min(Inner(text)) \in Inner(text) /\ Max(Inner(text)) \in Inner(text)
      /\ \A y \in Inner(text) : Min(Inner(text)) <= y /\ y <= Max(Inner(text))
  BY <1>1, Ends, Zenon
<1>3. TrimSpace(text) = SubSeq(text, Min(Inner(text)), Max(Inner(text)))
  BY Zenon DEF TrimSpace, Inner
<1> QED  BY <1>1, <1>2, <1>3

\* What is left has no space at either end.
LEMMA TrimIsBare ==
  ASSUME NEW C, NEW text \in Seq(C)
  PROVE  TrimSpace(text) \in Seq(C) /\ Bare(TrimSpace(text))
<1>1. CASE Inner(text) = {}
  BY <1>1 DEF TrimSpace, Inner, Bare
<1>2. CASE Inner(text) # {}
  <2>1. PICK a, b \in 1 .. Len(text) :
          /\ a \in Inner(text) /\ b \in Inner(text) /\ a <= b
          /\ TrimSpace(text) = SubSeq(text, a, b)
    BY <1>2, TrimCuts
  <2> DEFINE s == SubSeq(text, a, b)
  <2>2. s \in Seq(C) /\ Len(s) = b - a + 1 /\ s[1] = text[a] /\ s[b - a + 1] = text[b]
    BY <2>1
  <2> QED  BY <2>1, <2>2 DEF Inner, Bare
<1> QED  BY <1>1, <1>2

\* Nothing is cut from such a text.
LEMMA BareIsFixed ==
  ASSUME NEW C, NEW text \in Seq(C), Bare(text)
  PROVE  TrimSpace(text) = text
<1>1. CASE Len(text) = 0
  BY <1>1 DEF TrimSpace
<1>2. CASE Len(text) # 0
  <2>1. 1 \in Inner(text) /\ Len(text) \in Inner(text)
    BY <1>2 DEF Inner, Bare
  <2>2. PICK a, b \in 1 .. Len(text) :
          /\ \A i \in Inner(text) : a <= i /\ i <= b
          /\ TrimSpace(text) = SubSeq(text, a, b)
    BY <2>1, TrimCuts
  <2>3. a = 1 /\ b = Len(text)
    BY <2>1, <2>2
  <2> QED  BY <2>2, <2>3
<1> QED  BY <1>1, <1>2

\* Spaces around a text make no difference to strings.TrimSpace.
LEMMA PaddingIsCut ==
  ASSUME NEW C, NEW text \in Seq(C), NEW left \in Seq({Space}), NEW right \in Seq({Space})
  PROVE  TrimSpace(left \o text \o right) = TrimSpace(text)
<1> DEFINE n == Len(left)
           long == left \o text \o right
           D == C \cup {Space}
<1>1. /\ long \in Seq(D) /\ text \in Seq(D) /\ n \in Nat /\ Len(text) \in Nat
      /\ Len(long) = n + Len(text) + Len(right) /\ Len(right) \in Nat
      /\ \A i \in 1 .. Len(text) : long[n + i] = text[i]
      /\ \A i \in 1 .. Len(long) : i <= n \/ i > n + Len(text) => long[i] = Space
  OBVIOUS
<1>2. \A j : j \in Inner(long) <=> j \in Int /\ j - n \in Inner(text)
  BY <1>1 DEF Inner
<1>0. n \in Nat /\ Len(text) \in Nat /\ text \in Seq(D)
  BY <1>1
<1> HIDE DEF n, long, D
<1>3. CASE Inner(text) = {}
  <2>1. Inner(long) = {}
    BY <1>2, <1>3
  <2> QED  BY <1>3, <2>1 DEF TrimSpace, Inner, long
<1>4. CASE Inner(text) # {}
  <2>1. PICK a, b \in 1 .. Len(text) :
          /\ a \in Inner(text) /\ b \in Inner(text) /\ a <= b
          /\ \A i \in Inner(text) : a <= i /\ i <= b
          /\ TrimSpace(text) = SubSeq(text, a, b)
    BY <1>4, TrimCuts, Zenon
  <2>2. n + a \in Inner(long) /\ n + b \in Inner(long)
    <3>1. /\ n + a \in Int /\ (n + a) - n = a
          /\ n + b \in Int /\ (n + b) - n = b
      BY <1>1, <2>1
    <3> QED  BY <1>2, <2>1, <3>1, Zenon
  <2>3. PICK c, d \in 1 .. Len(long) :
          /\ c \in Inner(long) /\ d \in Inner(long) /\ c <= d
          /\ \A i \in Inner(long) : c <= i /\ i <= d
          /\ TrimSpace(long) = SubSeq(long, c, d)
    BY <1>1, <2>2, TrimCuts, Zenon
  <2>4. c = n + a /\ d = n + b
    <3>1. c - n \in Inner(text) /\ d - n \in Inner(text) /\ c \in Int /\ d \in Int
      BY <1>2, <2>3
    <3>2. c <= n + a /\ n + b <= d
      BY <2>2, <2>3, Zenon
    <3>3. a <= c - n /\ d - n <= b
      BY <2>1, <3>1, Zenon
    <3> QED  BY <1>0, <2>1, <3>1, <3>2, <3>3
  <2>5. SubSeq(long, n + a, n + b) = SubSeq(text, a, b)
    <3> DEFINE s == SubSeq(long, n + a, n + b)
               u == SubSeq(text, a, b)
    <3>1. /\ n + a \in 1 .. Len(long) /\ n + b \in n + a .. Len(long)
          /\ (n + b) - (n + a) = b - a /\ b \in a .. Len(text) /\ b - a + 1 \in Nat
      BY <1>1, <2>1
    <3>2. /\ s \in Seq(D) /\ Len(s) = b - a + 1
          /\ \A i \in 1 .. b - a + 1 : s[i] = long[n + a + i - 1]
      BY <1>1, <3>1, Sliced
    <3>3. /\ u \in Seq(D) /\ Len(u) = b - a + 1
          /\ \A i \in 1 .. b - a + 1 : u[i] = text[a + i - 1]
      BY <1>0, <3>1, Sliced
    <3>4. ASSUME NEW i \in 1 .. b - a + 1 PROVE long[n + a + i - 1] = text[a + i - 1]
      <4>1. a + i - 1 \in 1 .. Len(text) /\ n + (a + i - 1) = n + a + i - 1
        BY <1>0, <2>1
      <4> QED  BY <1>1, <4>1, Zenon
    <3> HIDE DEF s, u
    <3>5. s = u
      BY <3>1, <3>2, <3>3, <3>4, SameElements, ZenonT(40)
    <3> QED  BY <3>5, Zenon DEF s, u
  <2> QED  BY <2>1, <2>3, <2>4, <2>5, Zenon DEF long
<1> QED  BY <1>3, <1>4

\* The name of an identity is read without the spaces around it.
LEMMA ClassifiedTrimmed ==
  ASSUME NEW C, NEW cn \in Seq(C)
  PROVE  ClassifyCN(TrimSpace(cn)) = ClassifyCN(cn)
<1>1. TrimSpace(TrimSpace(cn)) = TrimSpace(cn)
  BY TrimIsBare, BareIsFixed
<1> QED  BY <1>1 DEF ClassifyCN

\* For every name, of any length and of any characters: spaces around it change
\* neither its class nor its UPN, and BuildUPN makes a UPN of exactly the names
\* that ClassifyCN takes for students or employees.
THEOREM UPNOfClassified ==
  ASSUME NEW C, NEW cn \in Seq(C), NEW left \in Seq({Space}), NEW right \in Seq({Space})
  PROVE  /\ ClassifyCN(left \o cn \o right) = ClassifyCN(cn)
         /\ BuildUPN(left \o cn \o right) = BuildUPN(cn)
         /\ BuildUPN(cn) # NoUPN <=> ClassifyCN(cn) \in {"student_id", "employee_id"}
<1>1. TrimSpace(left \o cn \o right) = TrimSpace(cn)
  BY PaddingIsCut
<1>2. ClassifyCN(left \o cn \o right) = ClassifyCN(cn)
  BY <1>1 DEF ClassifyCN
<1>3. BuildUPN(left \o cn \o right) = BuildUPN(cn)
  BY <1>1 DEF BuildUPN
<1>4. TrimSpace(cn) \o <<"@", "domain">> # <<>>
  BY TrimIsBare
<1>5. BuildUPN(cn) # NoUPN <=> ClassifyCN(cn) \in {"student_id", "employee_id"}
  BY <1>4, ClassifiedTrimmed DEF BuildUPN, NoUPN
<1> QED  BY <1>2, <1>3, <1>5

\* ToLower keeps the length and works character by character.
LEMMA LowerEach ==
  ASSUME NEW C, NEW text \in Seq(C)
  PROVE  /\ ToLower(text) \in Seq(C \cup {"a"}) /\ Len(ToLower(text)) = Len(text)
         /\ \A i \in 1 .. Len(text) : ToLower(text)[i] = IF text[i] = "A" THEN "a" ELSE text[i]
<1>1. DOMAIN Lower = {"A"} /\ Lower["A"] = "a"
  BY DEF Lower
<1> QED  BY <1>1 DEF ToLower

\* The key of a UPN that BuildUPN made is the lower-case name and the domain.
LEMMA KeyOfUPN ==
  ASSUME NEW C, NEW cn \in Seq(C), ClassifyCN(cn) \in {"student_id", "employee_id"}
  PROVE  normalizeUPN(BuildUPN(cn)) = ToLower(TrimSpace(cn)) \o <<"@", "domain">>
<1> DEFINE name == TrimSpace(cn)
           D == C \cup {"@", "domain"}
           upn == name \o <<"@", "domain">>
<1>1. name \in Seq(C) /\ Bare(name)
  BY TrimIsBare
<1>2. BuildUPN(cn) = upn
  BY ClassifiedTrimmed DEF BuildUPN
<1>3. name # <<>>
  BY DEF ClassifyCN
<1> HIDE DEF name
<1>4. /\ upn \in Seq(D) /\ Len(upn) = Len(name) + 2 /\ Len(name) \in Nat
      /\ upn[Len(name) + 1] = "@" /\ upn[Len(name) + 2] = "domain"
      /\ \A i \in 1 .. Len(name) : upn[i] = name[i]
  BY <1>1
<1>5. Bare(upn)
  <2>1. "domain" # Space
    BY Zenon DEF Space
  <2>2. Len(name) > 0
    BY <1>1, <1>3
  <2>3. upn[1] = name[1] /\ upn[Len(upn)] = "domain"
    BY <1>4, <2>2
  <2> QED  BY <1>1, <1>3, <2>1, <2>3 DEF Bare
<1>6. TrimSpace(upn) = upn
  BY <1>4, <1>5, BareIsFixed, Zenon
<1> DEFINE low == ToLower(name)
<1>7. /\ ToLower(upn) \in Seq(D \cup {"a"}) /\ Len(ToLower(upn)) = Len(upn)
      /\ \A i \in 1 .. Len(upn) : ToLower(upn)[i] = IF upn[i] = "A" THEN "a" ELSE upn[i]
  BY <1>4, LowerEach, Zenon
<1>8. /\ low \in Seq(C \cup {"a"}) /\ Len(low) = Len(name)
      /\ \A i \in 1 .. Len(name) : low[i] = IF name[i] = "A" THEN "a" ELSE name[i]
  BY <1>1, LowerEach
<1>9. ToLower(upn) = low \o <<"@", "domain">>
  <2> DEFINE s == ToLower(upn)
             u == low \o <<"@", "domain">>
             E == D \cup {"a"}
  <2>1. /\ u \in Seq(E) /\ Len(u) = Len(name) + 2
        /\ \A i \in 1 .. Len(name) : u[i] = low[i]
        /\ u[Len(name) + 1] = "@" /\ u[Len(name) + 2] = "domain"
    BY <1>1, <1>8
  <2>2. ASSUME NEW i \in 1 .. Len(name) + 2 PROVE s[i] = u[i]
    BY <1>4, <1>7, <1>8, <2>1
  <2> HIDE DEF s, u, E
  <2>3. s \in Seq(E) /\ Len(s) = Len(name) + 2
    BY <1>4, <1>7 DEF s, E
  <2>4. s = u
    BY <2>1, <2>2, <2>3
  <2> QED  BY <2>4 DEF s, u
<1> QED  BY <1>2, <1>6, <1>9, Zenon DEF normalizeUPN, name

\* Two names of students or employees have one status record exactly when they
\* differ in nothing but letter case and the spaces around them.
THEOREM KeysAgree ==
  ASSUME NEW C, NEW a \in Seq(C), ClassifyCN(a) \in {"student_id", "employee_id"},
         NEW b \in Seq(C), ClassifyCN(b) \in {"student_id", "employee_id"}
  PROVE  normalizeUPN(BuildUPN(a)) = normalizeUPN(BuildUPN(b))
           <=> ToLower(TrimSpace(a)) = ToLower(TrimSpace(b))
<1> DEFINE x == ToLower(TrimSpace(a))
           y == ToLower(TrimSpace(b))
           D == C \cup {"a"}
<1>1. x \in Seq(D) /\ y \in Seq(D)
  BY TrimIsBare, LowerEach
<1>2. /\ normalizeUPN(BuildUPN(a)) = x \o <<"@", "domain">>
      /\ normalizeUPN(BuildUPN(b)) = y \o <<"@", "domain">>
  BY KeyOfUPN, Zenon
<1> HIDE DEF x, y, D
<1>3. ASSUME x \o <<"@", "domain">> = y \o <<"@", "domain">> PROVE x = y
  <2>1. Len(x) = Len(y)
    BY <1>1, <1>3
  <2>2. \A i \in 1 .. Len(x) : x[i] = y[i]
    BY <1>1, <1>3, <2>1
  <2> QED  BY <1>1, <2>1, <2>2, SMTT(30)
<1> QED  BY <1>2, <1>3, Zenon DEF x, y

=============================================================================
