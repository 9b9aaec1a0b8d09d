SPECIFICATION MCSpec
CONSTANTS
  Answers <- MCAnswers
  Data <- MCData
  Decode <- MCDecode
  Limits = {2, 3}
  MaxFragments = 4
  MaxMessages = 2
  MaxBytes = 3
  FirstBlocks = 2
  PacketBlocks = 2
  MaxPackets = 2
  BatchSize = 1
  MaxRounds = 3
  MaxLost = 1
  MaxFailed = 1
INVARIANTS ReplyIntact NothingLeaks WireFaithful
PROPERTY ReplyCompletes
CHECK_DEADLOCK FALSE
