SPECIFICATION Spec
CONSTANTS
  a = a
  b = b
  Exits <- TwoExits
  MaxExits = 2
  Ttl = 2
  LatestOnly = TRUE
  PrecheckReadsFail = TRUE
  MayCrash = TRUE
  MaxQuotes = 2
  MaxCalls = 2
  MaxTime = 4
INVARIANTS NotPaidIsFinal PaidIsReal SecondExitWaits
SYMMETRY Symmetry
CHECK_DEADLOCK FALSE
