\* Malformed, undecryptable and good messages, external and unknown identities.
SPECIFICATION Spec
CONSTANTS
  e1 = e1  e2 = e2  e3 = e3  e4 = e4  e5 = e5  u1 = u1  u2 = u2  w1 = w1  w2 = w2
  Event = {e1, e2, e3, e4, e5}
  UPN = {u1, u2}
  Worker = {w1, w2}
  NoWorker = NoWorker
  NoEvent = NoEvent
  upnOf <- BadAndGoodAccount
  eventType <- ChangeThenLogin
  identityOf <- Mixed
  Preloaded = {e1, e2, e5}
  Malformed = {e1}
  Undecryptable = {e2}
  MaxTime = 0
  MessageTTL = 1
  PendingTTL = 1
  TerminalTTL = 2
  Expires = TRUE
  MaxDelivery = 2
  RetryCount = 1
  MaxStops = 0
  GraphFaults = {429}
  Faults = {"receive", "dlq"}
  SubmitFaults = {}
SYMMETRY WorkerSymmetry
INVARIANTS NoSilentLoss FailedHasCause ExhaustedMeansAllAttempts
