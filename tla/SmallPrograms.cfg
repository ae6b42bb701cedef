SPECIFICATION SmallSpec

CONSTANTS
  NumItems = 5
  NumMsg = 10
  Lines = 6
  MaxSpurious = 3
  MaxChats = 2
  LastId = 3
  MaxByHand = 2

INVARIANTS
  SmallTypeOK
  HandedOver
  TakeTurns

PROPERTIES
  ReadsPairs
  ImplementsChannels
  EachGoesOn

CHECK_DEADLOCK FALSE
