SPECIFICATION Spec
CONSTANTS
  NumAccounts = 1
  MaxFetches = 2
  Pressed <- Nobody
  Slugged <- Everybody
  Shapes <- AnyShape
  MayFail = TRUE
  Faults <- NoFaults
CHECK_DEADLOCK FALSE
INVARIANT SyncOkIsLastFetch
