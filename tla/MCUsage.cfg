SPECIFICATION Spec
CONSTANTS
  Secondaries <- TwoNumbers
  BundleQuota = 7
  LineQuota <- OwnQuotas
  DangerPercent = 80
  Slugged = FALSE
  MaxUsed = 5
INVARIANTS
  TypeOK
  EachLineOnce
  DangerExplained
  AllLinesInDanger
PROPERTIES
  DropsExplained
