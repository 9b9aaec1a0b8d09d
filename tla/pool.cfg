SPECIFICATION MCSpec
CONSTANTS
  x1 = x1
  x2 = x2
  Exchanges <- TwoExchanges
  MaxStreams = 1
  MaxConns = 3
  MaxStarts = 4
INVARIANTS SlotsSound NoLeakedConnection HttpFaithful LoopsBounded
PROPERTIES ExchangesEnd
CHECK_DEADLOCK FALSE
