SPECIFICATION FairSpec
CONSTANTS
  NumAccounts = 1
  MaxPending = 2
  Button <- ButtonByUsername
PROPERTIES
  PressStartsCycle
  QueueServed
  StopTerminates
  DisconnectNoticed
  ImplementsContract
