SPECIFICATION Spec

CONSTANTS
  Clients = {1, 2, 3}
  MaxMessages = 10
  BufferDepth = 3
  Rates = {2}
  StrayTimes = {0}
  StartTime = 2
  MaxTime = 3
  MaxEntries = 2
  Settled = TRUE
  PromptSends = FALSE
  Crashes = FALSE
  OpenFails = FALSE
  ClockStepsBack = FALSE

PROPERTIES
  SmallestPriorityRuns

CHECK_DEADLOCK FALSE
