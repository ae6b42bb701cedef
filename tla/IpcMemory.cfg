SPECIFICATION MemorySpec

CONSTANTS
  BUFFER_SIZE = 2
  Rounds = 4
  MaxStarts = 2
  Turns = 2
  MaxRuns = 2

INVARIANTS
  MemoryTypeOK
  BufferKept
  PairKept

PROPERTIES
  WaitersGoOn

CHECK_DEADLOCK FALSE
