SPECIFICATION Spec
CONSTANTS
  c1 = c1
  c2 = c2
  e1 = e1
  e2 = e2
  Calls <- OneCall
  Entries <- TwoEntries
  NumPackets = 1
  RetryModes <- Resendable
  Versions <- AutoVersions
  Kps = FALSE
  RetryOnTimeout = TRUE
  TransportResends = 0
  MaxHedges = 1
  Hedging = TRUE
  ResendOnLost = FALSE
  SameEntryFallback = FALSE
  SwitchAfter = 2
PROPERTIES WaitsForLastCopy
SYMMETRY Symmetry
CHECK_DEADLOCK FALSE
