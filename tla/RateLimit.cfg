\* A burst from one address and one request that comes any way, with waits for the
\* lock of the limiter.
SPECIFICATION LimiterSpec
CONSTANTS
  Request = {r1, r2, r3, r4, forwarded}
  forwarded = forwarded
  Input <- Burst
  portal = portal
  other = other
  proxy = proxy
  IP = {portal, other, proxy}
  NoIP = NoIP
  AllowedCIDRs = {portal, other}
  TrustedProxyCIDRs = {proxy}
  LimitPerIP = 2
  Window = 2
  Delay = 1
  MaxTime = 5
SYMMETRY RequestSymmetry
INVARIANTS
  LimiterTypeOK
  SpanBound
  PrefixIrrelevant
CHECK_DEADLOCK FALSE
