SPECIFICATION Spec
CONSTANTS
  NumMsg = 4
  MaxSpurious = 1
INVARIANTS EachMessagePrinted
