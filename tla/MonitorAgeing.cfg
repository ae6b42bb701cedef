SPECIFICATION AgeingSpec

CONSTANTS
  Clients = {1, 2, 3}
  MaxMessages = 1
  BufferDepth = 2
  Rates = {2, 3}
  StrayTimes = {0}
  StartTime = 2
  MaxTime = 3
  MaxEntries = 2
  Settled = TRUE
  PromptSends = TRUE
  Crashes = FALSE
  OpenFails = FALSE
  ClockStepsBack = FALSE

PROPERTIES
  RequestServed
  HolderReleases
  GateReturns
