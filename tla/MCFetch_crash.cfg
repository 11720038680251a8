SPECIFICATION FetchSpec
CONSTANTS
  n1 = n1
  n2 = n2
  n3 = n3
  Pages <- ShortPages
  Attempts = 4
INVARIANT CrashIsRetried
