\* Two workers, one message, every fault of a worker after the receive.
SPECIFICATION FairSpec
CONSTANTS
  e1 = e1  e2 = e2  e3 = e3  e4 = e4  e5 = e5  u1 = u1  u2 = u2  w1 = w1  w2 = w2
  Event = {e1}
  UPN = {u1}
  Worker = {w1, w2}
  NoWorker = NoWorker
  NoEvent = NoEvent
  upnOf <- OneAccount
  eventType <- ChangeThenLogin
  identityOf <- Employees
  Preloaded = {e1}
  Malformed = {}
  Undecryptable = {}
  MaxTime = 0
  MessageTTL = 1
  PendingTTL = 1
  TerminalTTL = 2
  Expires = TRUE
  MaxDelivery = 2
  RetryCount = 1
  MaxStops = 1
  GraphFaults = {0, 403}
  Faults = {"dlq", "status", "settle", "reply", "cancel", "crash"}
  SubmitFaults = {}
INVARIANTS TypeOK NoSilentLoss StatusTruthful ExhaustedMeansAllAttempts
PROPERTIES ImplementsDelivery EveryMessageEnds CancelStops
