CONSTANTS
  NumCalls = 2
  NotesCap = 1
  MaxMessages = 2
  ServerIds <- MCOtherIds
SPECIFICATION FairSpec
INVARIANTS
  TypeOK
  AnswerIsMine
  NoLostWaiter
  SafeDelivery
PROPERTIES
  EveryCallEnds
