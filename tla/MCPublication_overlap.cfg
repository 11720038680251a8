SPECIFICATION Spec
CONSTANTS
  NumAccounts = 1
  MaxFetches = 3
  Pressed <- Everybody
  Slugged <- Nobody
  Shapes <- AnyShape
  MayFail = FALSE
  Faults <- NoFaults
CHECK_DEADLOCK FALSE
INVARIANTS
  StoreIsAlwaysLast
