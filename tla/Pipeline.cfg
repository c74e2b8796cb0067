\* Two events of one account from request to status, with every fault of a request.
SPECIFICATION Spec
CONSTANTS
  e1 = e1  e2 = e2  e3 = e3  e4 = e4  e5 = e5  u1 = u1  u2 = u2  w1 = w1  w2 = w2
  Event = {e1, e2}
  UPN = {u1}
  Worker = {w1}
  NoWorker = NoWorker
  NoEvent = NoEvent
  upnOf <- OneAccount
  eventType <- ChangeThenLogin
  identityOf <- Employees
  Preloaded = {}
  Malformed = {}
  Undecryptable = {}
  MaxTime = 2
  MessageTTL = 1
  PendingTTL = 1
  TerminalTTL = 2
  Expires = TRUE
  MaxDelivery = 1
  RetryCount = 0
  MaxStops = 0
  GraphFaults = {403}
  Faults = {}
  SubmitFaults = {"get", "encrypt", "send", "reply", "status", "crash"}
INVARIANTS StatusTruthful SkipIsBacked AcceptedIsCovered OutcomeIsVisible
