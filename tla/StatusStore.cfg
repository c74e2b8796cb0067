\* Every order and repetition of status writes for one account.
SPECIFICATION StoreSpec
CONSTANTS
  UPN = {a1}
  MaxTime = 3
  PendingTTL = 2
  TerminalTTL = 3
  Expires = TRUE
INVARIANTS
  StoreTypeOK
  RecordIsNewestWrite
  OutlivesPendingWindow
PROPERTIES
  NeverRegresses
  RepeatsDoNotRefresh
