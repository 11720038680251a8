SPECIFICATION Spec
CONSTANTS
  alice = alice
  bob = bob
  Accounts <- TwoAccounts
  MaxUpdates = 1
  MaxConns = 2
INVARIANTS
  RunningIsOnline
