SPECIFICATION FairSpec
CONSTANTS
  a = a
  b = b
  Exits <- TwoExits
  MaxExits = 1
  Ttl = 2
  LatestOnly = FALSE
  PrecheckReadsFail = FALSE
  MayCrash = FALSE
  MaxQuotes = 2
  MaxCalls = 2
  MaxTime = 4
INVARIANTS NotPaidForGood
CHECK_DEADLOCK FALSE
PROPERTIES Resolves
