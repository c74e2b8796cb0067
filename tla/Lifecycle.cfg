\* Loading, wiring, serving, shutdown and exit with every fault.
SPECIFICATION FairSpec
CONSTANTS
  Bits = 3
  Environments <- Few
  Handler = {h1, h2}
  Job = {j1}
  MaxFlushes = 1
  Faults = {"secrets", "wiring", "signal", "listen", "shutdown", "worker", "close", "flush"}
INVARIANTS
  LifecycleTypeOK
  AddressesSeparate
  ValidatedIsAccepted
  SecretsComeFromSource
  ClosedAfterUse
  NothingLeaks
  ErrorsReported
  MetricsFlushed
PROPERTY Stops
CHECK_DEADLOCK FALSE
