\* A request slow between EnqueuedAt and MarkPending.
SPECIFICATION Spec
CONSTANTS
  e1 = e1  e2 = e2  e3 = e3  e4 = e4  e5 = e5  u1 = u1  u2 = u2  w1 = w1  w2 = w2
  Event = {e1, e2}
  UPN = {u1}
  Worker = {w1}
  NoWorker = NoWorker
  NoEvent = NoEvent
  upnOf <- OneAccount
  eventType <- ChangeThenLogin
  identityOf <- Employees
  Preloaded = {}
  Malformed = {}
  Undecryptable = {}
  MaxTime = 3
  MessageTTL = 2
  PendingTTL = 2
  TerminalTTL = 2
  Expires = TRUE
  MaxDelivery = 1
  RetryCount = 1
  MaxStops = 0
  GraphFaults = {}
  Faults = {}
  SubmitFaults = {}
INVARIANTS PendingEndsWithMessage
