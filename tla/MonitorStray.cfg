SPECIFICATION Spec

CONSTANTS
  Clients = {1, 2, 3}
  MaxMessages = 1
  BufferDepth = 1
  Rates = {2}
  StrayTimes = {2, 3}
  StartTime = 2
  MaxTime = 3
  MaxEntries = 2
  Settled = TRUE
  PromptSends = TRUE
  Crashes = FALSE
  OpenFails = TRUE
  ClockStepsBack = TRUE

INVARIANTS
  ExclusiveClaim

CHECK_DEADLOCK FALSE
