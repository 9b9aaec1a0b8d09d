SPECIFICATION FairSpec
CONSTANTS
  r1 = r1
  r2 = r2
  x1 = x1
  x2 = x2
  n = n
  p1 = p1
  p2 = p2
  p3 = p3
  Members = {r1, r2, x1, x2, n}
  Role <- MCRole
  Pinned <- MCPinned
  PinnedOrder <- MCOrder
  PinnedBlock = 1
  MinSources = 2
  MinPerLayer = 2
  ProbationTime = 1
  MaxCandidates = 5
  Chain <- MCChain
  Providers = {p1, p2}
  Faulty = {r2, p1}
  Forged <- MCForged
  ForgedRegistry <- MCForgedRegistry
  Steady = {r1}
  Parallelism = 2
  TopologySources = 2
  Quorum = 2
  PairingBudget = 2
  MaxProbation = 1
  MaxMishaps = 1
INVARIANTS MembershipSound CallsRoutable
PROPERTIES LateAnswersHarmless BootEnds Converges
CHECK_DEADLOCK FALSE
