SPECIFICATION Spec

CONSTANTS
  BufferDepth = 3
  WindowSize = 2
  Times = {1, 2, 4}
  LongestRead = 2
  StopIndex = 2
  MaxBeats = 6

INVARIANTS
  TypeOK
  CntIsReadIndex
  LogKeepsLatest
  AverageIsRecent
  WholeRead
  OnlyPausesReadZero

CHECK_DEADLOCK FALSE
