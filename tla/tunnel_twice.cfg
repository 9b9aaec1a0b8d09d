SPECIFICATION Spec
CONSTANTS
  Marks <- MCMarks
  First = 1
  RequestSeq = 1
  PartSize = 2
  Blocks = 2
  MaxCopies = 1
  MaxSends = 2
  MaxMishaps = 1
INVARIANT WrittenOnce
CHECK_DEADLOCK FALSE
