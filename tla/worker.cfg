SPECIFICATION MCSpec
CONSTANTS
  c1 = c1
  c2 = c2
  v1 = v1
  h1 = h1
  h2 = h2
  Calls <- ThreeCalls
  WalletCalls <- TwoWalletCalls
  MemoCalls <- TwoWalletCalls
  Ids = {1, 2, 3, 4}
  Hosts <- TwoHosts
  Exits = {e1}
  Spares = 1
  MaxSpareHosts = 1
  MaxKeepAlive = 1
  MaxOpenAttempts = 2
  MaxSlots = 2
  MaxHops = 1
  TrapLimit = 1
  MaxLies = 1
  MaxAcquires = 2
INVARIANTS ResourcesCounted FailedLeavesNothing MemoTrue
PROPERTIES NoDowngrade CallsAnswered
CHECK_DEADLOCK FALSE
