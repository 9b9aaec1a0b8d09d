SPECIFICATION MCSpec
CONSTANTS
  NumRequests = 2
  Initial = 1
  Extra = 0
  DataShards = 1
  Streams <- SecondIsStream
  Kinds <- Fragments
  EntryKinds <- BothVersions
  SkipChoices <- OnlyClaimed
  MaxIds = 2
  MaxClaims = 2
  JsonMaxIds = 1
  JsonMaxClaims = 2
  LongPoll = TRUE
  Retain = TRUE
  FirstArrival = TRUE
  Probes = FALSE
  MaxPendingAcks = 8
  MaxAcksPerClaim = 8
  MaxFailures = 1
  a = a
  b = b
  x = x
  seed = seed
  SeedUrls <- MCSeeds
  Chain <- MCChain
  Seen <- MCSeen
  Forged <- MCForged
  NodeFallbacks = 2
  MayStall = TRUE
  MaxMishaps = 2
  Senders = {1, 2}
  SocketEntries = {a, b}
  MaxDrops = 1
  MaxMoves = 2
INVARIANTS OpenSocketHears
CHECK_DEADLOCK FALSE
