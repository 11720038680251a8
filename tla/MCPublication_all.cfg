SPECIFICATION Spec
CONSTANTS
  NumAccounts = 2
  MaxFetches = 4
  Pressed <- Everybody
  Slugged <- LastOne
  Shapes <- AnyShape
  MayFail = TRUE
  Faults <- AllFaults
INVARIANTS
  TypeOK
  StoreIsLastSuccess
  TopicsAgree
  FailureReported
  StoreNotAhead
PROPERTIES
  StoreNotOlder
  MetricsNotOlder
  StartupRestores
