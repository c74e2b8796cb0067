\* Racing and late deliveries of the same signed request.
SPECIFICATION HMACSpec
CONSTANTS
  Request = {r1, r2, r3}
  Input <- Deliveries
  n1 = n1
  n2 = n2
  Nonce = {n1, n2}
  Skew = 1
  NonceTTL = 2
  MaxDuration = 10
  MaxTime = 4
SYMMETRY RequestSymmetry
INVARIANTS
  HMACTypeOK
  OnceWhileFresh
  ReplayHasOriginal
CHECK_DEADLOCK FALSE
