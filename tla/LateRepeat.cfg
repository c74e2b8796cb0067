\* Two deliveries of one signed request with the lifetimes of config.go: NonceTTL
\* is twice the skew.
SPECIFICATION HMACSpec
CONSTANTS
  Request = {r1, r2}
  Input <- OneRequest
  n1 = n1
  n2 = n2
  Nonce = {n1, n2}
  Skew = 2
  NonceTTL = 4
  MaxDuration = 10
  MaxTime = 6
INVARIANT OncePerSignedRequest
CHECK_DEADLOCK FALSE
