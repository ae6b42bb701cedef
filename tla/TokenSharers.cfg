SPECIFICATION FairSpec

CONSTANTS
  Clients = {"c1", "c2", "c3"}
  Names = {"n1", "n2"}
  MaxMessages = 1
  MaxDescriptors = 3
  MaxAsks = 1
  MaxServerRuns = 1

PROPERTIES
  Answered

CHECK_DEADLOCK FALSE
