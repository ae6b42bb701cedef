SPECIFICATION Spec

CONSTANTS
  Clients = {1, 2, 3}
  MaxMessages = 1
  BufferDepth = 3
  Rates = {2}
  StrayTimes = {0}
  StartTime = 2
  MaxTime = 4
  MaxEntries = 2
  Settled = TRUE
  PromptSends = TRUE
  Crashes = FALSE
  OpenFails = FALSE
  ClockStepsBack = FALSE

INVARIANTS
  SelectionDefined

PROPERTIES
  LongestWaitFirst
