SPECIFICATION FairSpec
CONSTANTS
  c1 = c1
  c2 = c2
  e1 = e1
  e2 = e2
  Calls <- OneCall
  Entries <- OneEntry
  NumPackets = 2
  RetryModes <- EveryMode
  Versions <- OnlyV2
  Kps = TRUE
  RetryOnTimeout = TRUE
  TransportResends = 1
  MaxHedges = 1
  Hedging = TRUE
  ResendOnLost = TRUE
  SameEntryFallback = TRUE
  SwitchAfter = 2
INVARIANTS CopiesBounded AtMostOnce SettledLeavesNothing HedgesCounted
PROPERTIES WaitsForLastCopy Settles
CHECK_DEADLOCK FALSE
