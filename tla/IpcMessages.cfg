SPECIFICATION MessagesSpec

CONSTANTS
  Clients = {"c1", "c2"}
  Names = {"n1", "n2"}
  MaxMessages = 1
  MaxDescriptors = 3
  MaxAsks = 2
  MaxServerRuns = 2
  Callers = {"a", "b", "c"}
  Backlog = 1
  MaxServers = 2

INVARIANTS
  MessagesTypeOK
  RepliesRight
  AnswersRight

PROPERTIES
  NobodyWaits

CHECK_DEADLOCK FALSE
