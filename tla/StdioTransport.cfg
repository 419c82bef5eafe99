CONSTANTS
  NumSenders = 2
  NumClosers = 2
  InCap = 1
  OutCap = 1
  RecvCap = 1
  MaxMessages = 4
SPECIFICATION FairSpec
INVARIANTS
  TypeOK
PROPERTIES
  ImplementsMessageWire
  CloseReturnsUnlessLocked
