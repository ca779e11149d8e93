SPECIFICATION Spec
CONSTANTS
  pts = pts
  twice = twice
  a = a
  b = b
  zero = zero
  short = short
  Batches <- MCBatches
  Points = {pts, twice}
  Rows <- MCRows
  Zeros = {zero}
  Refused <- MCRefused
  Empty = Empty
INVARIANTS
  NoUndefined
CHECK_DEADLOCK FALSE
