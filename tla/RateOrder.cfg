SPECIFICATION RateSpec

CONSTANTS
  Clients = {1, 2, 3}
  MaxMessages = 2
  BufferDepth = 2
  Rates = {1, 2}
  StrayTimes = {0}
  StartTime = 2
  MaxTime = 2
  MaxEntries = 2
  Settled = FALSE
  PromptSends = TRUE
  Crashes = FALSE
  OpenFails = TRUE
  ClockStepsBack = FALSE

INVARIANTS
  RateTypeOK
  HolderAccountedFor

PROPERTIES
  SlowestRunsNext
  OvertakenBySlower
  ImplementsArbiter

CHECK_DEADLOCK FALSE
