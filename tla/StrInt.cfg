SPECIFICATION Spec
CONSTANTS
  Length = 5
  ByteBase = 2
  LongMax = 3
  Addends = {1, 3}
  MaxBytes = 6
  MaxNumber = 33
INVARIANTS
  SetIsNumber
CHECK_DEADLOCK FALSE
