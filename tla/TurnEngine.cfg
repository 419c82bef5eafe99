CONSTANTS
  MaxPasses = 2
  OutCap = 2
  MaxCalls = 2
  MaxStream = 2
  MaxToolEvents = 1
  MaxMemory = 1
  ToolKinds <- MCToolKinds
SPECIFICATION FairSpec
INVARIANTS
  TypeOK
  SequenceDense
  ConversationBalanced
  CompletedMeansAnswered
  FinalizedWithEverything
PROPERTIES
  CancelEndsTurn
  ReaderEndsTurn
  ImplementsTurnStream
