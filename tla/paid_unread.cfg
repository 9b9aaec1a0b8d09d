SPECIFICATION Spec
CONSTANTS
  a = a
  b = b
  Exits <- TwoExits
  MaxExits = 1
  Ttl = 2
  LatestOnly = FALSE
  PrecheckReadsFail = TRUE
  MayCrash = FALSE
  MaxQuotes = 2
  MaxCalls = 2
  MaxTime = 4
INVARIANTS NotPaidForGood
SYMMETRY Symmetry
CHECK_DEADLOCK FALSE
