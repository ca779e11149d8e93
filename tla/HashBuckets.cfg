SPECIFICATION Spec
CONSTANTS
  w = w
  x = x
  y = y
  z = z
  Filler = Filler
  Elements = {w, x, y, z}
  K = 3
  MaxLoad = 2
  Indices <- MCIndices
  MaxAdds = 5
INVARIANTS
  TypeOK
  LoadBounded
  ConcealedIsFull
  MarkedHoldsNoElement
  OneBucketPerElement
  NothingLost
PROPERTIES
  BucketsOnlyGrow
CHECK_DEADLOCK FALSE
