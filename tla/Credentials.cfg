\* Connections, the token manager and two callers of Close.
SPECIFICATION CredentialsFairSpec
CONSTANTS
  Listener = {l1, l2}
  Closer = {c1, c2}
  MaxToken = 2
INVARIANTS
  CredentialsTypeOK
  SubscribersAreCurrent
  ClosedOnce
PROPERTY CloseEnds
CHECK_DEADLOCK FALSE
