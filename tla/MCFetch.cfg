SPECIFICATION FairFetch
CONSTANTS
  n1 = n1
  n2 = n2
  n3 = n3
  Pages <- ShortPages
  Attempts = 4
INVARIANTS
  FetchTypeOK
  LastErrorReported
  BackoffPerRetry
  ContextClosed
  NumbersComplete
PROPERTIES
  NoLoginAfterRejection
  FetchReturns
