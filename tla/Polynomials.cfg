SPECIFICATION Spec
CONSTANTS
  pts = pts
  twice = twice
  a = a
  b = b
  zero = zero
  short = short
  Batches <- MCBatches
  Points = {pts, twice}
  Rows <- MCRows
  Zeros = {zero}
  Refused <- MCRefused
  Empty = Empty
INVARIANTS
  PolynomialsFit
  UndefinedOnlyUnfactorised
  RootsOfBatch
  EndsForBadRows
CHECK_DEADLOCK FALSE
