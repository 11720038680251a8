SPECIFICATION Spec
CONSTANTS
  NumAccounts = 2
  MaxPending = 2
  Button <- ButtonByUsername
INVARIANTS
  TypeOK
  Debounce
  NoBrowserLeak
  StatusTellsLastCycle
PROPERTIES
  RequestNotDropped
