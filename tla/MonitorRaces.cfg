SPECIFICATION Spec

CONSTANTS
  Clients = {1, 2, 3}
  MaxMessages = 2
  BufferDepth = 2
  Rates = {0}
  StrayTimes = {0}
  StartTime = 2
  MaxTime = 2
  MaxEntries = 2
  Settled = FALSE
  PromptSends = TRUE
  Crashes = TRUE
  OpenFails = TRUE
  ClockStepsBack = FALSE

INVARIANTS
  TypeOK
  MutualExclusion
  WorkConserving
  NoDanglingWaiter
  OneClaimPerClient
  UnknownMeansOvertaken
  HolderAccountedFor

PROPERTIES
  ImplementsArbiter

CHECK_DEADLOCK FALSE
