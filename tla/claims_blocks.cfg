SPECIFICATION Spec
CONSTANTS
  NumRequests = 1
  Initial = 2
  Extra = 1
  DataShards = 1
  Streams <- NoStreams
  Kinds <- EveryKind
  EntryKinds <- BothVersions
  SkipChoices <- SkippedFirst
  MaxIds = 2
  MaxClaims = 2
  JsonMaxIds = 1
  JsonMaxClaims = 1
  LongPoll = FALSE
  Retain = TRUE
  FirstArrival = FALSE
  Probes = FALSE
  MaxPendingAcks = 1
  MaxAcksPerClaim = 1
  MaxFailures = 1
INVARIANT RepliesKept
CHECK_DEADLOCK FALSE
