SPECIFICATION Spec
CONSTANTS
  Names = {begin, end}
  NoName = NoName
  Microsecond = 2
  MaxTimes = 5
  MaxNow = 5
INVARIANTS
  TypeOK
  NoDoublePause
  MinMaxOfUnpaused
  LapsConsistent
PROPERTIES
  ImplementsStopwatch
