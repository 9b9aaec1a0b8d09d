SPECIFICATION FairSpec
CONSTANTS
  NumRequests = 2
  Initial = 1
  Extra = 0
  DataShards = 1
  Streams <- NoStreams
  Kinds <- Fragments
  EntryKinds <- V2Entry
  SkipChoices <- OnlyClaimed
  MaxIds = 1
  MaxClaims = 1
  JsonMaxIds = 1
  JsonMaxClaims = 1
  LongPoll = TRUE
  Retain = TRUE
  FirstArrival = TRUE
  Probes = TRUE
  MaxPendingAcks = 8
  MaxAcksPerClaim = 8
  MaxFailures = 1
PROPERTIES ReplyDelivered Quiesces
CHECK_DEADLOCK FALSE
