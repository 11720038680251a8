SPECIFICATION FairSpec
CONSTANTS
  alice = alice
  bob = bob
  Accounts <- TwoAccounts
  MaxUpdates = 3
  MaxConns = 3
INVARIANTS
  TypeOK
  OnlineVouchedFor
  ExitTellsFailure
PROPERTIES
  GoneIsShown
  ImplementsStore
  LoadFailureShown
